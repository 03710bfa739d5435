# Formal model of the OpenSn documentation search index

The repository's code is one generated file. `src/searchindex.js` is a single
line, `Search.setIndex({...})`. Its argument is the search index that the
documentation generator (Sphinx) built from the documentation sources. The
browser runs the file, and the client-side search widget answers queries from
the index. So the repository holds no algorithm of its own. What it holds is a
data format with invariants, plus one statement that hands the data to the
widget. This project models that format, the build lifecycle that produces the
file (described in `spec.md`), and that statement. It checks the format's
invariants with TLC and proves them, for every instance, with TLAPS.

## 1. Inventory

### Components

| Component | Where | State | Operations |
|---|---|---|---|
| Search index data | `src/searchindex.js:1`, the object literal | `docnames` (24 names, sorted), `filenames`, `titles` (parallel to docnames), `terms` (1011 stemmed words of page bodies), `titleterms` (145 words of headings), `alltitles` (104 headings), `envversion`, and the empty maps `objects`, `objtypes`, `objnames`, `indexentries` | none: regenerated wholesale by every build |
| Loading the index | `src/searchindex.js:1`, the call `Search.setIndex(...)` | the widget's index (null until the call); the file a cache may still serve | the call itself, on the deployed or a cached file |
| Documentation build | external (Sphinx), described in spec §1, §3 and §8 | the source pages; the deployed pages and their index | regenerate everything from the sources |
| Search widget | external (`searchtools.js`), described in spec §1 and §6 | query, results | look words up in `terms`/`titleterms`/`alltitles` |
| OpenSn solver | absent | n/a | n/a |

How they interact. A build reads the source tree and writes two things from the
same snapshot: the HTML pages and `searchindex.js`. A reader's browser loads a
page. It then runs `searchindex.js`, and that hands the object to the widget.
The widget reads it and never changes it. For a word it merges the pages of
`terms` and of `titleterms`, ranking the second as title matches. A browser or
proxy cache may keep serving the `searchindex.js` of an earlier build after a
rebuild.

The encoding, as the file shows it:
- A document is referred to by its **0-based position** in `docnames`.
- In `terms` and `titleterms`, a word found in **one** document maps to a
  **bare number** (`"describ": 0`). A word found in several documents maps to
  an **ascending array** of at least two numbers (`"page": [0, 9, 10]`).
- In `alltitles`, a heading **always** maps to an array of `[number, anchor]`
  entries, one per occurrence of the heading, even for a single document.
  Identical headings of different pages share one key:
  `"Step 1 - Install Development Tools"` maps to pages 3, 4 and 6. The key
  covers every heading of a page, not only its title. Entries are ordered by
  document number and then by position in the page.
- The anchor of an entry is the identifier docutils gave the heading. It is
  the heading's slug when that is non-empty and not yet taken in the page.
  Otherwise it is an automatic `idN`. `"Export the mesh"` occurs twice in
  pages 18 and 19, giving `export-the-mesh` and `id1`. `"2D Orthogonal Grid"`
  (page 18) and `"3D Orthogonal Grid"` (page 19) slug alike
  (`d-orthogonal-grid`), because leading digits are dropped; they are in
  different pages, so the document number keeps the links apart.
- `titleterms` holds the words of every heading of a page, section titles
  included.
- A body word that is also a word of one of the page's headings is listed
  under `titleterms` only. For no word does a page appear in both `terms` and
  `titleterms`: `"mesh"` has 8 pages in `terms` and 11 other pages in
  `titleterms`.
- `titles[i]` is the title of `docnames[i]`. `filenames[i]` is `docnames[i]`
  plus the source suffix.

### What is hard

Nothing in this code runs concurrently. What is hard to test is in the data and
in the build lifecycle:
- the off-by-one between 0-based document numbers and list positions, which
  shows up only for the last document;
- the two encodings of a posting, which are mixed in one file (a bare number
  or an array in `terms`, always an array in `alltitles`);
- `alltitles` merging one heading across pages, and repeating a document
  number when a page repeats a heading, so numbers only never decrease;
- anchors: a heading repeated in a page, and in general headings of one page
  whose slugs coincide or are empty, must still get distinct links;
- section headings: their words are in `titleterms` and their links in
  `alltitles`, so indexing page titles only loses them;
- a body word that is a heading word of its page is in `titleterms` only, so
  a reader of `terms` alone misses those pages;
- keeping `titles` and the numbers aligned with the sorted `docnames` when the
  build finds the documents in filesystem order;
- determinism: unchanged sources must produce an identical file (spec §8).
  The generator is not here and the model sorts `docnames` by definition, so
  this is recorded as a hazard with no property;
- staleness: a cache can serve the index of an earlier build after a rebuild,
  against newer pages (spec §7 accepts this as degraded results);
- load order: `Search` must exist before line 1 runs (set by the page
  template, which is not in this repository).

`PROJECT.json` `hazards` lists each one at its line, with the properties that
cover it.

### Properties that make it correct

- **Well formed** (spec §3, §8): every document number is below
  `len(docnames)`; `titles` has the length of `docnames`; a posting is a bare
  number or an ascending array of at least two numbers; an `alltitles` value is
  a non-empty array of entries whose numbers never decrease.
- **Anchors distinct**: no two `alltitles` entries, under one heading or two,
  are the same `[number, anchor]` link.
- **Faithful**: the deployed index describes the deployed pages. `docnames`
  holds exactly those pages, `titles[i]` is the title of `docnames[i]`,
  decoding a word's `titleterms` value yields exactly the pages one of whose
  headings has it, its `terms` value exactly the other pages whose body has
  it, and the links of a heading are exactly its occurrences, each with its
  anchor.
- **Implements the site search**: merging `terms` and `titleterms` finds
  exactly the pages whose body or headings have a word, and what a reader's
  browser answers from the index it ran, deployed or cached, is what the site
  promised when that index's build published it (the abstract `SiteSearch`).

## 2. Modules

| Module | Models |
|---|---|
| `IndexFormat.tla` | The encoding. JSON values are tagged records (`Num`, `Arr`), because TLA+ cannot test whether a value is a number or a sequence. `Rank`/`Sorted` are the ascending listing, `SortedBy` the listing of a set by a one-to-one numeric key. `Pos` is a document's 0-based number. `PostingValue` is the `terms` encoding. `Anchors` are tagged slugs or automatic ids. `Decode` is the reader's side. No state. |
| `Pages.tla` | The sources: constants `NDocs`, `MaxHeads`, `Words`, `Titles`, `TitleWords`, `Slug`; a page is a sequence of 1..`MaxHeads` headings (title first) and a set of body words; a tree maps document names to pages. |
| `SearchIndex.tla` | The lifecycle. Variables: `src` (source tree), `deployed` (pages of the last build), `index` (the object of the last build's `searchindex.js`), `cached` (`{}`, or the file of an earlier build a cache still serves), `loaded` (`{}`, or the index the browser passed to `Search.setIndex`). Actions: `AddPage`, `EditPage`, `RemovePage` (authors), `Build` (regenerate pages and index from `src`; a cache may keep the replaced file), `SetIndex` (line 1, run on the deployed or the cached file). `MakeIndex` is the object literal: `BodyHas` (body words that are no heading word of the page) and `TitleHas` the postings, `Slugged`/`Anchor` the identifiers, `HeadKey`/`HeadsAt`/`TitleEntries` the `alltitles` values. The reader's side is `Hits`, `Links`, `Results` (a word's hits merge `terms` and `titleterms`). |
| `SiteSearch.tla` | The abstract specification: sources, published site, the answers of an earlier site a cache may still give (`older`), and a reader's view holding the `Answers` of the site it loaded. A word's answer is the pages whose body or headings have it. Actions `Author`, `Publish`, `Load`. |
| `MC_SearchIndex.tla` + `MC_SearchIndex.cfg`, `MC_SiteSearch.cfg`, `MC_SpecPostings.cfg` | The instance: 2 document names, 2 words, 3 headings, at most 2 headings a page, 4 pages (3 for the refinement run). |
| `MC_IndexFormat.tla/.cfg` | The encoding against `SetToSortSeq` of the community modules. |
| `IndexFormatLemmas.tla` | TLAPS lemmas about `Rank`, `Sorted`, `SortedBy`, `Pos`, `PostingValue`. |
| `AllTitlesProofs.tla` | TLAPS lemmas about anchors and `alltitles` values. |
| `SearchIndexProofs.tla` | TLAPS theorems about `SearchIndex`, and the refinement. |

Data abstraction:
- A document name is a number in `1..NDocs`. Its order stands for the string
  order of the names.
- Words and headings are model values. `TitleWords[h]` gives the words of
  heading h, `Slug[h]` its slug (a string; `""` when nothing is left).
- A page is its sequence of headings and the set of words of its body.
- An anchor is `[slug |-> s]` or `[auto |-> k]` for `idk`. The model numbers
  automatic ids per page; docutils numbers them per document and skips ids
  already taken (a `while` loop), which no property can tell apart.
- `filenames`, `envversion` and the empty maps are left out.

How the code maps to the model:

| Code | Model |
|---|---|
| The object literal | `MakeIndex(tree)` |
| Its sorted `docnames` | `DocOrder` / `Sorted` |
| Its numbers | `Pos`, which is `Rank` in the sorted list |
| `terms` / `titleterms` values | `PostingValue` of `BodyHas` (body minus heading words) / `TitleHas` |
| `alltitles` values | `TitleEntries`: `HeadsAt` listed by `HeadKey`, with `Anchor` |
| The call on line 1 | `SetIndex`, on `{index} \cup cached` |

## 3. Runs

| Run | Checks | Shows |
|---|---|---|
| `index_model` (`MC_SearchIndex.cfg`, 422,500 states, ~45 s) | `TypeOK`, `IndexWellFormed`, `IndexAnchorsDistinct`, `IndexFaithful` | Across every interleaving of edits, builds, caching and loads, every index written, cached or loaded is well formed, no two links coincide, and the deployed index describes the deployed pages exactly, a body word that is a heading word of its page being listed under `titleterms` only. |
| `site_refinement` (`MC_SiteSearch.cfg`, 73,984 states, ~30 s) | `ImplementsSiteSearch` | Every behaviour of `SearchIndex`, under `site <- deployed`, `older <- {Results(f) : f \in cached}`, `view <- {Results(l) : l \in loaded}`, is a behaviour of `SiteSearch`: the merged hits of a word are the pages whose body or headings have it, and a reader that ran the deployed file or a cached earlier one holds the answers of one published site. |
| `encoding_reference` (`MC_IndexFormat.cfg`) | `EncodingCorrect` | For all sets of numbers in 0..6, the `terms` encoding decodes back to the set and its array is `SetToSortSeq(S, <)`; for all sets of (document, position) pairs, listing by the packed key is the lexicographic `SetToSortSeq`. |
| `spec_postings` (`MC_SpecPostings.cfg`, violation) | `TermsAreLists` | Spec §3 calls `terms` values lists; the code writes a bare number for a word in the body of a single document. TLC's witness is the page `<<t1>>` with body `{w1, w2}`: `w1` is a word of its title and goes to `titleterms`, `w2` is not and becomes `"w2": 0` in `terms`. |

Bounds. `MC_Page` holds four pages chosen so that each hazard occurs (t1 has
the word w1, t2 the word w2, t3 none; t1 and t2 share a slug, t3 has none):
- `<<t1>>` with body `{w1, w2}`: one body word that is a heading word of the
  page (left out of `terms`) and one that is not;
- `<<t1, t1>>`: a heading repeated in a page (slug then `id1`);
- `<<t2, t1>>`: two headings of a page with the same slug;
- `<<t3, t2>>` with body `{w1}`: a heading with an empty slug (automatic id),
  a section heading whose word the title does not have, and a body word that
  is no heading word;
- t1 in several pages: one key merged across pages.

Two document names give one and two documents, removal renumbering the second,
a cached file of an earlier build (kept by the cache over several builds) and
a stale loaded index. The refinement run drops `<<t1, t1>>`: its answers are
sets of pages, which cannot tell a repeated heading from one. The encoding is checked
separately over sets of up to 7 numbers and of up to 6 (document, position)
pairs.

Each property has a mutant in `PROJECT.json`, and TLC finds each one:

| Property | Mutant |
|---|---|
| `TypeOK` | `Pos` shifted twice, which gives -1 |
| `IndexWellFormed` | 1-based `Pos` |
| `IndexAnchorsDistinct` | the slug used without docutils' disambiguation |
| `IndexFaithful` | body words that are heading words kept in `terms` |
| `ImplementsSiteSearch` | `titleterms` from page titles only |
| `EncodingCorrect` | descending sort |

Finding (spec/code divergence): spec §3 describes `terms` as lists of document
indices with relevance weights. The file maps a one-document term to a bare
number (`"describ": 0`) and has no weights. The witness TLC finds is a page
the generator really writes that way: its body word is no heading word. The widget accepts both forms, so
this is a gap in the spec, not a bug; a consumer written from the spec would
miss every single-document term.

Deadlock is checked (`SetIndex` is always enabled). No liveness is claimed:
nothing in this code must eventually happen.

## 4. Proofs

| Module | Result |
|---|---|
| `IndexFormatLemmas` | `RankBound`, `RankMonotone`, `RankOnto`, `SortedLists` (for every finite set S of naturals, `Sorted(S)` lists S once each, the i-th item having rank i-1), `PosIsRank`, `SortedAscending`, `SortedByLists` (for a one-to-one natural key, `SortedBy` lists every member once by strictly increasing key), `PostingShape`, `DecodePosting`, `PostingValueType`; `ListingBelow`, `ListingNotBelow`, `ListingUnique` (two listings of a set by the same key are equal), `LexPacked`. Theorems `SortedIsCanonical` (`Sorted(S)` is the only ascending listing of S) and `SortedByIsLexicographic` (`SortedBy` with the packed key is the only listing by document number, then position). |
| `AllTitlesProofs` | `PageHeads`, `AnchorKinds`, `AnchorType`, `AnchorInjective` (no two headings of a page get the same anchor, for any `Slug`), `PackedKey`, `TreeDocs`, `HeadsAtFacts`, `HeadKeyFacts`, `HOrderLists`, `PosInjective`, `EntriesShape`, `EntryFacts`, `EntriesType`, `EntriesWellFormed`, `EntriesSet`, `EntriesDistinct`. Theorem `AllTitlesOrder`: the occurrences behind an `alltitles` array are in the one order by document name, then position in the page. |
| `SearchIndexProofs` | Lemmas `NumbersFinite`, `NumbersHits`, `GoodNumbers`, `MakeIndexType`, `MakeIndexWellFormed`, `HitsOf`, `MakeIndexFaithful`, `MakeIndexIsFaithful`, `MakeIndexAnchorsDistinct`, `ResultsAnswers`, `SameTrees`, `IInvInit`, `IInvNext`. Theorems `TypeCorrect`, `IndexWellFormedInvariant`, `IndexAnchorsDistinctInvariant`, `IndexFaithfulInvariant`, `Refinement == Spec => ImplementsSiteSearch`. |

Assumptions: `NDocsAssumption`, `MaxHeadsAssumption`, `TitleWordsAssumption`,
`SlugAssumption` (in `Pages`). So every property of `index_model` and
`site_refinement` holds for every number of documents, headings, words and
titles and every slug function, not just the checked instance.

How the argument goes.

`RankOnto` needs no induction: Rank maps S injectively into `0..|S|-1`, a set
of the same size, so by `FS_Injection` it is onto. `SortedByLists` reduces to
it through the bijection `key` from S onto its key set.

`IndexWellFormed`, `IndexAnchorsDistinct` and `IndexFaithful` are not
inductive by themselves: being faithful says nothing about a cached file or a
browser's older copy. The inductive invariant is

    Generated(f) == \E t \in Tree : f = MakeIndex(t)
    IInv == TypeOK /\ index = MakeIndex(deployed)
                  /\ \A f \in cached : Generated(f)
                  /\ \A l \in loaded : Generated(l)

the deployed index is the generator's output for the deployed pages, and a
cached or loaded index is its output for some tree. It was checked with TLC
before it was proved. It is inductive because `Build` sets `index` and
`deployed` together and caches only the index it replaces, which `IInv`
makes generated, and `SetIndex` loads one of those generated files. The
properties then follow from lemmas about one generated index.

The `alltitles` argument: an occurrence `<<d, j>>` is packed into the key
`Pos(d) * (MaxHeads + 1) + j`, which is one-to-one (`PackedKey`,
`HeadKeyFacts`) and orders by number first, so `SortedBy` lists the
occurrences once each with non-decreasing numbers (`EntriesWellFormed`).
`AnchorInjective` makes the anchors of one page distinct: a slugged heading
is the first with its slug, and automatic ids count the unslugged headings up
to j, which strictly grows. So distinct occurrences give distinct entries
(`EntriesDistinct`), and the links of a heading are exactly its occurrences
(`EntriesSet`).

The refinement: `Init` maps to `Abstract!Init`; `Build` maps to `Publish`
(the new pages are the sources; a cache keeping the replaced file keeps
`Results(index)`, which is `Answers(deployed)`), `SetIndex` to `Load` (on the
deployed file by `ResultsAnswers`: `Results(MakeIndex(t)) = Answers(t)`, from
`MakeIndexFaithful`; on the cached file, whose `Results` is `older` by the
mapping), the author actions to `Author`, and a rebuild of unchanged sources
to a stutter. `ResultsAnswers` rests on the word clause of `Faithful`: the
`terms` hits are the body pages less the `titleterms` hits, so their union
with the `titleterms` hits is the body pages plus the heading pages.

The order of the arrays: `ListingUnique` shows, without induction, that two
listings of a finite set by strictly increasing key are equal. If one put a
smaller item than the other at place i, its first i items would fall among the
other's i - 1 items before place i, against the pigeonhole principle
(`FS_PigeonHole`). With the identity key this makes `Sorted(S)` the one
ascending listing (`SortedIsCanonical`). With the packed key, which
`LexPacked` shows preserves the order by (number, position), it makes
`SortedBy` the one lexicographic listing (`SortedByIsLexicographic`), and on
the model the order of `alltitles` entries (`AllTitlesOrder`).

The version 1.4.5 prover cannot use a theorem proved about `SiteSearch`
through an `INSTANCE` whose substitutions are expressions, so facts about the
abstract specification are proved on the index directly from `IInv`.

Out of the prover's reach, so left to TLC:
- `EncodingCorrect` itself. It names the community `SetToSortSeq`, and
  `SequencesExt` reaches RECURSIVE operators, which a module with theorems may
  not. What the run compares is proved above for every set: the result of
  `SetToSortSeq` is an ascending listing, so it equals `Sorted` and
  `SortedBy`. Only the library's side of that equation is left to TLC;
- any liveness.

No module of this project declares a RECURSIVE operator.

## 5. Not modelled

- **The Sphinx generator's code:** tokenising, stemming, slugging. It is not
  in this repository; its output shape is what is modelled, with slugs as the
  constant `Slug`. The `while` loop that skips `idN` ids already used by
  another identifier of the document is not modelled.
- **The search widget:** query parsing, scoring, the deferred-query path. It is
  third-party code, not in this repository.
- **Script load order:** whether `Search` exists when line 1 runs. This is set
  by the page template, which is not in this repository.
- **The OpenSn solver:** absent.
