------------------------------- MODULE Pages -------------------------------
(***************************************************************************)
(* The documentation sources the index of src/searchindex.js is generated *)
(* from, as far as the index can tell them apart.  A document name is a    *)
(* number in 1..NDocs, ordered as the names are as strings.  A page is the *)
(* sequence of its headings (the first being the page title, the others    *)
(* its section titles, in document order) and the set of words of its     *)
(* body.  Headings are the members of Titles; TitleWords[h] are the words  *)
(* of heading h and Slug[h] the identifier docutils derives from it (""    *)
(* when nothing is left of it, as for "2.").                               *)
(***************************************************************************)
EXTENDS Naturals, Sequences

CONSTANTS
    NDocs,       \* number of document names a source tree may use
    MaxHeads,    \* most headings a page has
    Words,       \* the stemmed words that can occur in a page
    Titles,      \* the headings a page can have
    TitleWords,  \* TitleWords[h]: the stemmed words of heading h
    Slug         \* Slug[h]: the identifier made from heading h

ASSUME NDocsAssumption == NDocs \in Nat
ASSUME MaxHeadsAssumption == MaxHeads \in Nat \ {0}
ASSUME TitleWordsAssumption == TitleWords \in [Titles -> SUBSET Words]
ASSUME SlugAssumption == Slug \in [Titles -> STRING]

DocIds == 1..NDocs

HeadSeqs == UNION {[1..n -> Titles] : n \in 1..MaxHeads}

Page == [heads : HeadSeqs, body : SUBSET Words]

Tree == UNION {[D -> Page] : D \in SUBSET DocIds}

(* The headings of page p. *)
HeadsOf(p) == {p.heads[j] : j \in DOMAIN p.heads}

=============================================================================
