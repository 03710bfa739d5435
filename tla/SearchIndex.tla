---------------------------- MODULE SearchIndex ----------------------------
(***************************************************************************)
(* The documentation search index of src/searchindex.js.                   *)
(*                                                                         *)
(* The file is one statement, Search.setIndex({...}), whose argument is    *)
(* the index a documentation build generated from the documentation        *)
(* sources.  The object holds parallel arrays docnames and titles (a       *)
(* document is referred to everywhere else by its 0-based position in     *)
(* docnames), two maps from a word to the documents it occurs in: terms    *)
(* (page bodies) and titleterms (headings), where a word of one document   *)
(* maps to a bare number and a word of several documents to an ascending  *)
(* array; and alltitles, from a heading to the [number, anchor] entries of *)
(* its occurrences, one per occurrence, so that a heading repeated in a    *)
(* page ("Export the mesh" in pages 18 and 19) has two entries for it.     *)
(*                                                                         *)
(* The model keeps four things apart: the documentation sources (src),     *)
(* the site the last build deployed together with its searchindex.js      *)
(* (deployed, index), the searchindex.js of an earlier build that a        *)
(* browser or proxy cache may still serve (cached), and the index a        *)
(* reader's browser handed to the search widget by running the file        *)
(* (loaded).  The filenames array (docnames[i] plus the source suffix) and *)
(* envversion are left out.                                                *)
(***************************************************************************)
EXTENDS IndexFormat, Pages

VARIABLES
    src,       \* the documentation sources: document name -> page
    deployed,  \* the pages of the last build
    index,     \* the index object the last build wrote to searchindex.js
    cached,    \* {} or {the searchindex.js of an earlier build}
    loaded     \* {} before the page ran searchindex.js, else {the index}

vars == <<src, deployed, index, cached, loaded>>

(***************************************************************************)
(* docnames: the generator lists the documents sorted by name.             *)
(***************************************************************************)
DocOrder(D) == Sorted(D)

(***************************************************************************)
(* The documents of tree one of whose headings contains w, whose body      *)
(* contains w, and one of whose headings is h; and the numbers of a set S  *)
(* of documents when the documents are listed as names.  A body word that  *)
(* is also a word of a heading of the page is indexed under titleterms     *)
(* only: in the file no page is listed for one word in both terms and      *)
(* titleterms ("mesh" has 8 terms pages and 11 other titleterms pages).   *)
(***************************************************************************)
TitleHasPageTitleOnly(tree, w) ==   \* mutant: section titles are not indexed
    {d \in DOMAIN tree : w \in TitleWords[tree[d].heads[1]]}

TitleHas(tree, w) == {d \in DOMAIN tree : \E h \in HeadsOf(tree[d]) : w \in TitleWords[h]}

BodyHasWithTitleWords(tree, w) ==   \* mutant: heading words stay in terms
    {d \in DOMAIN tree : w \in tree[d].body}

BodyHas(tree, w) == {d \in DOMAIN tree : w \in tree[d].body} \ TitleHas(tree, w)

Titled(tree, h) == {d \in DOMAIN tree : h \in HeadsOf(tree[d])}

Numbers(names, S) == {Pos(names, d) : d \in S}

(***************************************************************************)
(* The identifier docutils gives the j-th heading of a page: its slug,     *)
(* unless the slug is empty or an earlier heading of the page already has  *)
(* that identifier, and otherwise the next automatic identifier.  Every    *)
(* earlier heading with the same slug has left the slug taken (it holds it *)
(* or it found it taken), so the slug is free exactly when no earlier      *)
(* heading has it.                                                         *)
(***************************************************************************)
Slugged(heads, j) ==
    /\ Slug[heads[j]] # ""
    /\ \A m \in 1..j - 1 : Slug[heads[m]] # Slug[heads[j]]

AnchorNoDisambiguation(heads, j) == [slug |-> Slug[heads[j]]]   \* mutant

Anchor(heads, j) ==
    IF Slugged(heads, j)
    THEN [slug |-> Slug[heads[j]]]
    ELSE [auto |-> Cardinality({m \in 1..j : ~Slugged(heads, m)})]

(***************************************************************************)
(* The alltitles value of heading h: an entry <<number, anchor>> for each  *)
(* position j of each document d where h occurs, ordered by number, then   *)
(* by position, which is the order of HeadKey, the pair packed into one    *)
(* number.                                                                 *)
(***************************************************************************)
HeadSlots == MaxHeads + 1

HeadKey(names, d, j) == Pos(names, d) * HeadSlots + j

HeadsAt(tree, h) ==
    UNION {{<<d, j>> : j \in {i \in DOMAIN tree[d].heads : tree[d].heads[i] = h}}
             : d \in Titled(tree, h)}

TitleEntries(tree, names, h) ==
    LET os == SortedBy(HeadsAt(tree, h), [o \in HeadsAt(tree, h) |-> HeadKey(names, o[1], o[2])])
    IN  Arr([i \in DOMAIN os |-> <<Pos(names, os[i][1]), Anchor(tree[os[i][1]].heads, os[i][2])>>])

(***************************************************************************)
(* The index object the generator builds from the source tree tree.       *)
(***************************************************************************)
MakeIndex(tree) ==
    LET names == DocOrder(DOMAIN tree)
    IN  [docnames   |-> names,
         titles     |-> [i \in 1..Len(names) |-> tree[names[i]].heads[1]],
         terms      |-> [w \in {w \in Words : BodyHas(tree, w) # {}} |->
                             PostingValue(Numbers(names, BodyHas(tree, w)))],
         titleterms |-> [w \in {w \in Words : TitleHas(tree, w) # {}} |->
                             PostingValue(Numbers(names, TitleHas(tree, w)))],
         alltitles  |-> [h \in {h \in Titles : Titled(tree, h) # {}} |->
                             TitleEntries(tree, names, h)]]

(***************************************************************************)
(* What the search widget reads out of an index: the documents that the    *)
(* value of word k in the map f of idx names, and the links (document,     *)
(* anchor) that the alltitles entries of heading h point to.               *)
(***************************************************************************)
Hits(idx, f, k) ==
    IF k \in DOMAIN f
    THEN {idx.docnames[p + 1] : p \in {q \in Decode(f[k]) : q + 1 \in DOMAIN idx.docnames}}
    ELSE {}

Links(idx, h) ==
    IF h \in DOMAIN idx.alltitles
    THEN {<<idx.docnames[e[1] + 1], e[2]>> :
            e \in {x \in {idx.alltitles[h].arr[i] : i \in DOMAIN idx.alltitles[h].arr} :
                     x[1] + 1 \in DOMAIN idx.docnames}}
    ELSE {}

(***************************************************************************)
(* The answers a reader gets from an index idx: the title of each document *)
(* of docnames; for a word, the documents the widget finds by merging its  *)
(* terms and its titleterms hits, and among them those it ranks as title   *)
(* matches (the titleterms hits); and the documents of a heading.          *)
(***************************************************************************)
Results(idx) ==
    [titles    |-> [d \in {idx.docnames[i] : i \in DOMAIN idx.docnames} |->
                      idx.titles[CHOOSE i \in DOMAIN idx.docnames : idx.docnames[i] = d]],
     words     |-> [w \in Words |-> Hits(idx, idx.terms, w) \cup Hits(idx, idx.titleterms, w)],
     headwords |-> [w \in Words |-> Hits(idx, idx.titleterms, w)],
     headings  |-> [h \in Titles |-> {l[1] : l \in Links(idx, h)}]]

-----------------------------------------------------------------------------
(***************************************************************************)
(* Actions.  The authors change the sources; a build regenerates the whole *)
(* site and its index from them; a reader's page runs searchindex.js.      *)
(***************************************************************************)
Init ==
    /\ src \in Tree
    /\ deployed = src
    /\ index = MakeIndex(src)
    /\ cached = {}
    /\ loaded = {}

AddPage(d, p) ==
    /\ d \notin DOMAIN src
    /\ src' = [e \in DOMAIN src \cup {d} |-> IF e = d THEN p ELSE src[e]]
    /\ UNCHANGED <<deployed, index, cached, loaded>>

EditPage(d, p) ==
    /\ d \in DOMAIN src
    /\ src' = [src EXCEPT ![d] = p]
    /\ UNCHANGED <<deployed, index, cached, loaded>>

RemovePage(d) ==
    /\ d \in DOMAIN src
    /\ src' = [e \in DOMAIN src \ {d} |-> src[e]]
    /\ UNCHANGED <<deployed, index, cached, loaded>>

(***************************************************************************)
(* A build overwrites searchindex.js; a cache may keep the file it         *)
(* replaced, or go on holding the older one it had.                        *)
(***************************************************************************)
Build ==
    /\ index' = MakeIndex(src)
    /\ deployed' = src
    /\ cached' \in {cached, {index}}
    /\ UNCHANGED <<src, loaded>>

(***************************************************************************)
(* src/searchindex.js line 1: Search.setIndex(<the index in the file>),    *)
(* the file being the deployed one or one a cache still serves.            *)
(***************************************************************************)
SetIndex ==
    /\ \E f \in {index} \cup cached : loaded' = {f}
    /\ UNCHANGED <<src, deployed, index, cached>>

Next ==
    \/ \E d \in DocIds, p \in Page : AddPage(d, p) \/ EditPage(d, p)
    \/ \E d \in DocIds : RemovePage(d)
    \/ Build
    \/ SetIndex

Spec == Init /\ [][Next]_vars

-----------------------------------------------------------------------------
(***************************************************************************)
(* Properties.                                                             *)
(***************************************************************************)
IsIndexMap(f, Keys, Values) ==
    /\ DOMAIN f \subseteq Keys
    /\ \A k \in DOMAIN f : f[k] \in Values

IndexOK(idx) ==
    /\ DOMAIN idx = {"docnames", "titles", "terms", "titleterms", "alltitles"}
    /\ idx.docnames \in Seq(DocIds)
    /\ idx.titles \in Seq(Titles)
    /\ IsIndexMap(idx.terms, Words, JsonPosting)
    /\ IsIndexMap(idx.titleterms, Words, JsonPosting)
    /\ IsIndexMap(idx.alltitles, Titles, JsonEntries)

(* Type invariant: the sources and the deployed pages are trees of pages,  *)
(* and every index the generator writes, a cache serves or a browser      *)
(* holds has the format of searchindex.js: document numbers are natural   *)
(* numbers.                                                                *)
TypeOK ==
    /\ src \in Tree
    /\ deployed \in Tree
    /\ IndexOK(index)
    /\ \A f \in cached : IndexOK(f)
    /\ \A l \in loaded : IndexOK(l)

(***************************************************************************)
(* The format the search widget relies on, for an index idx: titles runs   *)
(* parallel to docnames, and every document number is a position of       *)
(* docnames; a terms or titleterms value is a bare number or an ascending  *)
(* array of at least two numbers; an alltitles value is a non-empty array  *)
(* whose document numbers never decrease (they repeat for a heading that   *)
(* occurs twice in a page).                                                *)
(***************************************************************************)
WellFormed(idx) ==
    LET N == Len(idx.docnames)
        InRange(s) == \A i \in DOMAIN s : s[i] < N
        GoodPosting(v) ==
            IF IsNum(v) THEN v.num < N
                        ELSE Len(v.arr) >= 2 /\ Ascending(v.arr) /\ InRange(v.arr)
        GoodEntries(v) ==
            /\ ~IsNum(v)
            /\ Len(v.arr) >= 1
            /\ \A i \in DOMAIN v.arr : v.arr[i][1] < N
            /\ \A i, j \in DOMAIN v.arr : i < j => v.arr[i][1] <= v.arr[j][1]
    IN  /\ Len(idx.titles) = N
        /\ \A k \in DOMAIN idx.terms : GoodPosting(idx.terms[k])
        /\ \A k \in DOMAIN idx.titleterms : GoodPosting(idx.titleterms[k])
        /\ \A k \in DOMAIN idx.alltitles : GoodEntries(idx.alltitles[k])

(* Every index a build writes to searchindex.js, every earlier one a cache *)
(* still serves, and every index a browser handed to Search.setIndex has   *)
(* the format above: no document number is out of the range of docnames,  *)
(* a single document is a bare number, and arrays are in order.            *)
IndexWellFormed ==
    /\ WellFormed(index)
    /\ \A f \in cached : WellFormed(f)
    /\ \A l \in loaded : WellFormed(l)

(***************************************************************************)
(* No two alltitles entries of an index, under the same heading or under   *)
(* different ones, are the same [number, anchor] link.                     *)
(***************************************************************************)
AnchorsDistinct(idx) ==
    \A h1, h2 \in DOMAIN idx.alltitles :
        \A i1 \in DOMAIN idx.alltitles[h1].arr, i2 \in DOMAIN idx.alltitles[h2].arr :
            idx.alltitles[h1].arr[i1] = idx.alltitles[h2].arr[i2] => h1 = h2 /\ i1 = i2

(* Every search result for a heading links to a place of its own: a        *)
(* heading repeated in a page ("Export the mesh" in pages 18 and 19 gets   *)
(* export-the-mesh and id1), headings of one page whose slugs coincide,    *)
(* and a heading with an empty slug never share a [number, anchor] link.   *)
IndexAnchorsDistinct == AnchorsDistinct(index)

(***************************************************************************)
(* An index idx describes the site pages: docnames are exactly its pages,  *)
(* titles[i] is the title of docnames[i], looking a word up, decoding a    *)
(* bare number and an array alike, yields in titleterms exactly the pages  *)
(* one of whose headings has it and in terms exactly the other pages whose *)
(* body has it, and the links of heading h are exactly its   *)
(* occurrences, each with the anchor docutils gave it.                     *)
(***************************************************************************)
Occurrences(pages, h) ==
    UNION {{<<d, j>> : j \in {i \in DOMAIN pages[d].heads : pages[d].heads[i] = h}}
             : d \in DOMAIN pages}

Faithful(idx, pages) ==
    LET D == DOMAIN pages
    IN  /\ {idx.docnames[i] : i \in DOMAIN idx.docnames} = D
        /\ \A i \in DOMAIN idx.titles :
               idx.titles[i] = pages[idx.docnames[i]].heads[1]
        /\ \A w \in Words :
               Hits(idx, idx.titleterms, w)
                   = {d \in D : \E j \in DOMAIN pages[d].heads : w \in TitleWords[pages[d].heads[j]]}
        /\ \A w \in Words :
               Hits(idx, idx.terms, w)
                   = {d \in D : w \in pages[d].body} \ Hits(idx, idx.titleterms, w)
        /\ \A h \in Titles :
               Links(idx, h) = {<<o[1], Anchor(pages[o[1]].heads, o[2])>> : o \in Occurrences(pages, h)}

(* The deployed searchindex.js describes the deployed site in the sense of *)
(* Faithful: single-document words, words both in the body and in a       *)
(* heading of a page, section titles, headings shared by several pages and *)
(* headings repeated in a page included.                                   *)
IndexFaithful == Faithful(index, deployed)

(***************************************************************************)
(* The refinement mapping: the published site is the deployed one, the     *)
(* earlier answers a cache can still give are the Results of the cached    *)
(* file, and a reader's answers are the Results of the index it loaded.    *)
(***************************************************************************)
Abstract == INSTANCE SiteSearch
              WITH site <- deployed,
                   older <- {Results(f) : f \in cached},
                   view <- {Results(l) : l \in loaded}

(* The index implements the search the site promises: a word finds exactly *)
(* the pages whose body or headings have it, and at every step the answers *)
(* a browser holds are exactly those of a site some build published: the   *)
(* one deployed when searchindex.js ran, or, when a cache served the file  *)
(* of an earlier build, that build's site; loading never mixes two sites.  *)
ImplementsSiteSearch == Abstract!Spec

(* Section 3 of spec.md describes the index as "a mapping from search terms *)
(* to lists of document indices": every terms value would be an array.     *)
TermsAreLists == \A k \in DOMAIN index.terms : ~IsNum(index.terms[k])

=============================================================================
