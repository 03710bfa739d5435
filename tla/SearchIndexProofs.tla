------------------------- MODULE SearchIndexProofs -------------------------
(***************************************************************************)
(* Proofs about SearchIndex for every number of documents, every set of    *)
(* words and every set of titles.                                          *)
(***************************************************************************)
EXTENDS AllTitlesProofs

(***************************************************************************)
(* The numbers of a set of documents of D, listed sorted, are finitely     *)
(* many natural numbers, and there is one for each document.               *)
(***************************************************************************)
LEMMA NumbersFinite ==
  ASSUME NEW D \in SUBSET Nat, IsFiniteSet(D), NEW S \in SUBSET D
  PROVE  /\ Numbers(Sorted(D), S) \subseteq Nat
         /\ IsFiniteSet(Numbers(Sorted(D), S))
         /\ S # {} => Numbers(Sorted(D), S) # {}
<1>1. Cardinality(D) \in Nat
  BY FS_CardinalityType
<1>2. Numbers(Sorted(D), S) \subseteq 0 .. Cardinality(D) - 1
  <2>1. ASSUME NEW d \in S
        PROVE  Pos(Sorted(D), d) \in 0 .. Cardinality(D) - 1
    BY PosIsRank, RankBound
  <2>. QED
    BY <2>1 DEF Numbers
<1>3. IsFiniteSet(0 .. Cardinality(D) - 1)
  BY <1>1, FS_Interval
<1>4. IsFiniteSet(Numbers(Sorted(D), S))
  BY <1>2, <1>3, FS_Subset
<1>5. S # {} => Numbers(Sorted(D), S) # {}
  BY DEF Numbers
<1>. QED
  BY <1>1, <1>2, <1>4, <1>5

(***************************************************************************)
(* The number of a document of D is below Cardinality(D), and the widget,  *)
(* looking the numbers of S up in the sorted docnames, finds S again.      *)
(***************************************************************************)
LEMMA NumbersHits ==
  ASSUME NEW D \in SUBSET Nat, IsFiniteSet(D), NEW S \in SUBSET D
  PROVE  /\ \A q \in Numbers(Sorted(D), S) : q \in 0 .. Cardinality(D) - 1
         /\ {Sorted(D)[p + 1] :
               p \in {q \in Numbers(Sorted(D), S) : q + 1 \in DOMAIN Sorted(D)}} = S
<1> DEFINE L == Sorted(D)
<1>1. Cardinality(D) \in Nat /\ DOMAIN L = 1 .. Cardinality(D)
  BY SortedLists, FS_CardinalityType
<1>2. \A d \in S : /\ Pos(L, d) = Rank(D, d)
                   /\ Rank(D, d) \in 0 .. Cardinality(D) - 1
                   /\ L[Rank(D, d) + 1] = d
  BY PosIsRank, RankBound, SortedLists
<1>3. Numbers(L, S) = {Rank(D, d) : d \in S}
  BY <1>2 DEF Numbers
<1>4. {q \in Numbers(L, S) : q + 1 \in DOMAIN L} = Numbers(L, S)
  BY <1>1, <1>2, <1>3
<1>5. {L[p + 1] : p \in Numbers(L, S)} = S
  <2>1. ASSUME NEW p \in Numbers(L, S) PROVE L[p + 1] \in S
    <3>1. PICK d \in S : p = Rank(D, d)
      BY <1>3
    <3>. QED
      BY <1>2, <3>1
  <2>2. ASSUME NEW d \in S PROVE \E p \in Numbers(L, S) : L[p + 1] = d
    <3>1. Rank(D, d) \in Numbers(L, S)
      BY <1>3
    <3>. QED
      BY <1>2, <3>1
  <2>. QED
    BY <2>1, <2>2
<1>. QED
  BY <1>2, <1>3, <1>4, <1>5

(***************************************************************************)
(* The value the generator writes for the non-empty set S of documents of  *)
(* D is well formed for an index of Cardinality(D) documents.              *)
(***************************************************************************)
LEMMA GoodNumbers ==
  ASSUME NEW D \in SUBSET Nat, IsFiniteSet(D), NEW S \in SUBSET D, S # {}
  PROVE  LET P == Numbers(Sorted(D), S)
             N == Cardinality(D)
         IN  /\ IsNum(PostingValue(P)) => PostingValue(P).num < N
             /\ ~IsNum(PostingValue(P)) =>
                   /\ Len(PostingValue(P).arr) >= 2
                   /\ Ascending(PostingValue(P).arr)
                   /\ \A i \in DOMAIN PostingValue(P).arr : PostingValue(P).arr[i] < N
<1> DEFINE P == Numbers(Sorted(D), S)
           N == Cardinality(D)
<1>1. P \subseteq Nat /\ IsFiniteSet(P) /\ P # {}
  BY NumbersFinite
<1>2. N \in Nat /\ \A q \in P : q < N
  BY NumbersHits, FS_CardinalityType
<1>3. Ascending(Sorted(P)) /\ {Sorted(P)[i] : i \in DOMAIN Sorted(P)} = P
  BY <1>1, SortedAscending
<1>4. \A i \in DOMAIN Sorted(P) : Sorted(P)[i] < N
  BY <1>2, <1>3
<1>5. IsNum(PostingValue(P)) => PostingValue(P).num < N
  <2>1. IsNum(PostingValue(P)) => Cardinality(P) = 1
    BY <1>1, PostingShape
  <2>. QED
    BY <1>1, <1>2, <2>1, PostingShape
<1>6. ~IsNum(PostingValue(P)) => /\ Cardinality(P) # 1
                                 /\ PostingValue(P).arr = Sorted(P)
  BY <1>1, PostingShape
<1>. QED
  BY <1>1, <1>3, <1>4, <1>5, <1>6, PostingShape

(***************************************************************************)
(* Whatever the source tree, the generator writes an index of the         *)
(* searchindex.js format.                                                  *)
(***************************************************************************)
LEMMA MakeIndexType ==
  ASSUME NEW t \in Tree
  PROVE  IndexOK(MakeIndex(t))
<1> DEFINE D == DOMAIN t
           names == Sorted(D)
           idx == MakeIndex(t)
<1>1. D \subseteq Nat /\ IsFiniteSet(D) /\ t \in [D -> Page]
  BY TreeDocs
<1>2. Cardinality(D) \in Nat /\ names \in [1 .. Cardinality(D) -> D]
  BY <1>1, SortedLists, FS_CardinalityType
<1>3. D \subseteq DocIds
  BY DEF Tree
<1>4. idx.docnames = names
  BY DEF MakeIndex, DocOrder
<1>5. idx.docnames \in Seq(DocIds)
  BY <1>2, <1>3, <1>4
<1>6. idx.titles \in Seq(Titles)
  <2>1. idx.titles = [i \in 1 .. Len(names) |-> t[names[i]].heads[1]]
    BY DEF MakeIndex, DocOrder
  <2>2. Len(names) = Cardinality(D)
    BY <1>2
  <2>3. \A i \in 1 .. Cardinality(D) : t[names[i]].heads[1] \in Titles
    <3>1. \A d \in D : t[d].heads \in Seq(Titles) /\ 1 \in DOMAIN t[d].heads
      BY <1>1, PageHeads
    <3>. QED
      BY <1>2, <3>1
  <2>. QED
    BY <1>2, <2>1, <2>2, <2>3
<1>7. ASSUME NEW S \in SUBSET D, S # {}
      PROVE  PostingValue(Numbers(names, S)) \in JsonPosting
  BY <1>1, <1>7, NumbersFinite, PostingValueType
<1>8. IsIndexMap(idx.terms, Words, JsonPosting)
  <2>1. idx.terms = [w \in {w \in Words : BodyHas(t, w) # {}} |->
                       PostingValue(Numbers(names, BodyHas(t, w)))]
    BY DEF MakeIndex, DocOrder
  <2>2. \A w \in Words : BodyHas(t, w) \in SUBSET D
    BY DEF BodyHas
  <2>. QED
    BY <1>7, <2>1, <2>2 DEF IsIndexMap
<1>9. IsIndexMap(idx.titleterms, Words, JsonPosting)
  <2>1. idx.titleterms = [w \in {w \in Words : TitleHas(t, w) # {}} |->
                            PostingValue(Numbers(names, TitleHas(t, w)))]
    BY DEF MakeIndex, DocOrder
  <2>2. \A w \in Words : TitleHas(t, w) \in SUBSET D
    BY DEF TitleHas
  <2>. QED
    BY <1>7, <2>1, <2>2 DEF IsIndexMap
<1>10. IsIndexMap(idx.alltitles, Titles, JsonEntries)
  <2>1. idx.alltitles = [x \in {x \in Titles : Titled(t, x) # {}} |->
                           TitleEntries(t, names, x)]
    BY DEF MakeIndex, DocOrder
  <2>2. \A x \in Titles : TitleEntries(t, names, x) \in JsonEntries
    BY EntriesType
  <2>. QED
    BY <2>1, <2>2 DEF IsIndexMap
<1>11. DOMAIN idx = {"docnames", "titles", "terms", "titleterms", "alltitles"}
  BY DEF MakeIndex
<1>. QED
  BY <1>5, <1>6, <1>8, <1>9, <1>10, <1>11 DEF IndexOK

(***************************************************************************)
(* Adding, editing and removing a page keeps a source tree a tree.         *)
(***************************************************************************)
LEMMA TreeEdits ==
  ASSUME NEW t \in Tree, NEW d \in DocIds, NEW p \in Page
  PROVE  /\ [e \in DOMAIN t \cup {d} |-> IF e = d THEN p ELSE t[e]] \in Tree
         /\ [t EXCEPT ![d] = p] \in Tree
<1>1. PICK D \in SUBSET DocIds : t \in [D -> Page]
  BY DEF Tree
<1>2. [e \in D \cup {d} |-> IF e = d THEN p ELSE t[e]] \in [D \cup {d} -> Page]
  BY <1>1
<1>3. [t EXCEPT ![d] = p] \in [D -> Page]
  BY <1>1
<1>. QED
  BY <1>1, <1>2, <1>3 DEF Tree

LEMMA TreeRemove ==
  ASSUME NEW t \in Tree, NEW d
  PROVE  [e \in DOMAIN t \ {d} |-> t[e]] \in Tree
<1>1. PICK D \in SUBSET DocIds : t \in [D -> Page]
  BY DEF Tree
<1>2. [e \in D \ {d} |-> t[e]] \in [D \ {d} -> Page]
  BY <1>1
<1>. QED
  BY <1>1, <1>2 DEF Tree

(***************************************************************************)
(* One step of the system keeps TypeOK.                                  *)
(***************************************************************************)
LEMMA TypeStep ==
  TypeOK /\ [Next]_vars => TypeOK'
<1> SUFFICES ASSUME TypeOK, [Next]_vars
             PROVE  TypeOK'
  OBVIOUS
<1>1. ASSUME NEW d \in DocIds, NEW p \in Page, AddPage(d, p)
      PROVE  TypeOK'
  BY <1>1, TreeEdits DEF AddPage, TypeOK
<1>2. ASSUME NEW d \in DocIds, NEW p \in Page, EditPage(d, p)
      PROVE  TypeOK'
  BY <1>2, TreeEdits DEF EditPage, TypeOK
<1>3. ASSUME NEW d \in DocIds, RemovePage(d)
      PROVE  TypeOK'
  BY <1>3, TreeRemove DEF RemovePage, TypeOK
<1>4. CASE Build
  BY <1>4, MakeIndexType DEF Build, TypeOK
<1>5. CASE SetIndex
  BY <1>5 DEF SetIndex, TypeOK
<1>6. CASE UNCHANGED vars
  BY <1>6 DEF vars, TypeOK
<1>. QED
  BY <1>1, <1>2, <1>3, <1>4, <1>5, <1>6 DEF Next

(***************************************************************************)
(* Type correctness: in every reachable state the sources and the deployed *)
(* pages are trees and every index written or loaded has the format of     *)
(* searchindex.js.                                                         *)
(***************************************************************************)
THEOREM TypeCorrect == Spec => []TypeOK
<1>1. Init => TypeOK
  BY MakeIndexType DEF Init, TypeOK
<1>. QED
  BY <1>1, TypeStep, PTL DEF Spec


(***************************************************************************)
(* Every index the generator writes is well formed.                        *)
(***************************************************************************)
LEMMA MakeIndexWellFormed ==
  ASSUME NEW t \in Tree
  PROVE  WellFormed(MakeIndex(t))
<1> DEFINE D == DOMAIN t
           L == Sorted(D)
           idx == MakeIndex(t)
           N == Cardinality(D)
<1>1. D \subseteq Nat /\ IsFiniteSet(D) /\ N \in Nat /\ L \in [1 .. N -> D]
  BY TreeDocs, SortedLists, FS_CardinalityType
<1>2. Len(idx.docnames) = N /\ Len(idx.titles) = N
  BY <1>1 DEF MakeIndex, DocOrder
<1>3. \A w \in DOMAIN idx.terms :
         /\ BodyHas(t, w) \subseteq D /\ BodyHas(t, w) # {}
         /\ idx.terms[w] = PostingValue(Numbers(L, BodyHas(t, w)))
  BY DEF MakeIndex, DocOrder, BodyHas
<1>4. \A w \in DOMAIN idx.titleterms :
         /\ TitleHas(t, w) \subseteq D /\ TitleHas(t, w) # {}
         /\ idx.titleterms[w] = PostingValue(Numbers(L, TitleHas(t, w)))
  BY DEF MakeIndex, DocOrder, TitleHas
<1>5. \A x \in DOMAIN idx.alltitles :
         /\ Titled(t, x) # {}
         /\ idx.alltitles[x] = TitleEntries(t, L, x)
  BY DEF MakeIndex, DocOrder
<1>6. ASSUME NEW x \in DOMAIN idx.alltitles
      PROVE  /\ ~IsNum(idx.alltitles[x])
             /\ Len(idx.alltitles[x].arr) >= 1
             /\ \A i \in DOMAIN idx.alltitles[x].arr : idx.alltitles[x].arr[i][1] < N
             /\ \A i, j \in DOMAIN idx.alltitles[x].arr :
                   i < j => idx.alltitles[x].arr[i][1] <= idx.alltitles[x].arr[j][1]
  <2>1. Titled(t, x) # {} /\ idx.alltitles[x] = TitleEntries(t, L, x)
    BY <1>5
  <2>2. idx.alltitles[x].arr = Entries(t, x)
    BY <2>1 DEF Entries
  <2>3. ~IsNum(TitleEntries(t, L, x))
    BY EntriesShape
  <2>. QED
    BY <2>1, <2>2, <2>3, EntriesWellFormed
<1>. QED
  BY <1>1, <1>2, <1>3, <1>4, <1>6, GoodNumbers DEF WellFormed

(***************************************************************************)
(* Looking key k up in a map f of a generated index yields S when f maps k *)
(* to the encoding of the numbers of S, and nothing when f has no key k.   *)
(***************************************************************************)
LEMMA HitsOf ==
  ASSUME NEW t \in Tree, NEW f, NEW k, NEW S \in SUBSET DOMAIN t,
         k \in DOMAIN f =>
            /\ S # {}
            /\ f[k] = PostingValue(Numbers(Sorted(DOMAIN t), S)),
         k \notin DOMAIN f => S = {}
  PROVE  Hits(MakeIndex(t), f, k) = S
<1> DEFINE D == DOMAIN t
           L == Sorted(D)
<1>1. D \subseteq Nat /\ IsFiniteSet(D)
  BY TreeDocs
<1>2. MakeIndex(t).docnames = L
  BY DEF MakeIndex, DocOrder
<1>3. CASE k \in DOMAIN f
  <2>1. Decode(f[k]) = Numbers(L, S)
    BY <1>1, <1>3, NumbersFinite, DecodePosting
  <2>2. Hits(MakeIndex(t), f, k)
          = {L[p + 1] : p \in {q \in Numbers(L, S) : q + 1 \in DOMAIN L}}
    BY <1>2, <1>3, <2>1 DEF Hits
  <2>. QED
    BY <1>1, <2>2, NumbersHits
<1>4. CASE k \notin DOMAIN f
  BY <1>4 DEF Hits
<1>. QED
  BY <1>3, <1>4


(***************************************************************************)
(* A generated index describes the tree it was generated from.             *)
(***************************************************************************)
LEMMA MakeIndexFaithful ==
  ASSUME NEW t \in Tree, NEW idx, idx = MakeIndex(t)
  PROVE  /\ {idx.docnames[i] : i \in DOMAIN idx.docnames} = DOMAIN t
         /\ \A i \in DOMAIN idx.titles : idx.titles[i] = t[idx.docnames[i]].heads[1]
         /\ \A w \in Words : Hits(idx, idx.terms, w) = BodyHas(t, w)
         /\ \A w \in Words : Hits(idx, idx.titleterms, w) = TitleHas(t, w)
         /\ \A x \in Titles :
               Links(idx, x) = {<<o[1], Anchor(t[o[1]].heads, o[2])>> : o \in Occurrences(t, x)}
<1> DEFINE D == DOMAIN t
           L == Sorted(D)
<1>1. D \subseteq Nat /\ IsFiniteSet(D) /\ Cardinality(D) \in Nat
  BY TreeDocs, FS_CardinalityType
<1>2. idx.docnames = L /\ L \in [1 .. Cardinality(D) -> D]
  BY <1>1, SortedLists DEF MakeIndex, DocOrder
<1>3. {idx.docnames[i] : i \in DOMAIN idx.docnames} = D
  <2>1. {L[i] : i \in DOMAIN L} = D
    BY <1>1, SortedAscending
  <2>. QED
    BY <1>2, <2>1
<1>4. \A i \in DOMAIN idx.titles : idx.titles[i] = t[idx.docnames[i]].heads[1]
  BY <1>2 DEF MakeIndex, DocOrder
<1>5. ASSUME NEW w \in Words PROVE Hits(idx, idx.terms, w) = BodyHas(t, w)
  <2>1. DOMAIN idx.terms = {v \in Words : BodyHas(t, v) # {}}
        /\ \A v \in DOMAIN idx.terms :
              idx.terms[v] = PostingValue(Numbers(L, BodyHas(t, v)))
    BY DEF MakeIndex, DocOrder
  <2>2. BodyHas(t, w) \subseteq D
    BY DEF BodyHas
  <2>3. /\ w \in DOMAIN idx.terms =>
             /\ BodyHas(t, w) # {}
             /\ idx.terms[w] = PostingValue(Numbers(Sorted(DOMAIN t), BodyHas(t, w)))
        /\ w \notin DOMAIN idx.terms => BodyHas(t, w) = {}
    BY <2>1
  <2>4. Hits(MakeIndex(t), idx.terms, w) = BodyHas(t, w)
    BY <2>2, <2>3, HitsOf
  <2>. QED
    BY <2>4
<1>6. ASSUME NEW w \in Words PROVE Hits(idx, idx.titleterms, w) = TitleHas(t, w)
  <2>1. DOMAIN idx.titleterms = {v \in Words : TitleHas(t, v) # {}}
        /\ \A v \in DOMAIN idx.titleterms :
              idx.titleterms[v] = PostingValue(Numbers(L, TitleHas(t, v)))
    BY DEF MakeIndex, DocOrder
  <2>2. TitleHas(t, w) \subseteq D
    BY DEF TitleHas
  <2>3. /\ w \in DOMAIN idx.titleterms =>
             /\ TitleHas(t, w) # {}
             /\ idx.titleterms[w] = PostingValue(Numbers(Sorted(DOMAIN t), TitleHas(t, w)))
        /\ w \notin DOMAIN idx.titleterms => TitleHas(t, w) = {}
    BY <2>1
  <2>4. Hits(MakeIndex(t), idx.titleterms, w) = TitleHas(t, w)
    BY <2>2, <2>3, HitsOf
  <2>. QED
    BY <2>4
<1>7. ASSUME NEW x \in Titles
      PROVE  Links(idx, x) = {<<o[1], Anchor(t[o[1]].heads, o[2])>> : o \in Occurrences(t, x)}
  <2>1. DOMAIN idx.alltitles = {y \in Titles : Titled(t, y) # {}}
        /\ \A y \in DOMAIN idx.alltitles : idx.alltitles[y].arr = Entries(t, y)
    BY DEF MakeIndex, DocOrder, Entries
  <2>2. HeadsAt(t, x) = Occurrences(t, x)
        /\ (HeadsAt(t, x) # {} <=> Titled(t, x) # {})
    BY HeadsAtFacts
  <2>3. CASE Titled(t, x) # {}
    <3>1. x \in DOMAIN idx.alltitles /\ idx.alltitles[x].arr = Entries(t, x)
      BY <2>1, <2>3
    <3>2. {Entries(t, x)[i] : i \in DOMAIN Entries(t, x)} = {OccEntry(t, o) : o \in HeadsAt(t, x)}
      BY EntriesSet
    <3>3. ASSUME NEW o \in HeadsAt(t, x)
          PROVE  /\ OccEntry(t, o)[1] + 1 \in DOMAIN idx.docnames
                 /\ idx.docnames[OccEntry(t, o)[1] + 1] = o[1]
                 /\ OccEntry(t, o)[2] = Anchor(t[o[1]].heads, o[2])
      <4>1. o[1] \in D
        BY HeadsAtFacts
      <4>2. Pos(L, o[1]) = Rank(D, o[1]) /\ Rank(D, o[1]) \in 0 .. Cardinality(D) - 1
            /\ L[Rank(D, o[1]) + 1] = o[1]
        BY <1>1, <4>1, PosIsRank, RankBound, SortedLists
      <4>. QED
        BY <1>1, <1>2, <4>2 DEF OccEntry
    <3>4. Links(idx, x)
            = {<<idx.docnames[e[1] + 1], e[2]>> :
                 e \in {y \in {OccEntry(t, o) : o \in HeadsAt(t, x)} : y[1] + 1 \in DOMAIN idx.docnames}}
      BY <3>1, <3>2 DEF Links
    <3>5. {y \in {OccEntry(t, o) : o \in HeadsAt(t, x)} : y[1] + 1 \in DOMAIN idx.docnames}
            = {OccEntry(t, o) : o \in HeadsAt(t, x)}
      BY <3>3
    <3>6. {<<idx.docnames[e[1] + 1], e[2]>> : e \in {OccEntry(t, o) : o \in HeadsAt(t, x)}}
            = {<<o[1], Anchor(t[o[1]].heads, o[2])>> : o \in HeadsAt(t, x)}
      BY <3>3
    <3>. QED
      BY <2>2, <3>4, <3>5, <3>6
  <2>4. CASE Titled(t, x) = {}
    <3>1. x \notin DOMAIN idx.alltitles
      BY <2>1, <2>4
    <3>2. Links(idx, x) = {}
      BY <3>1 DEF Links
    <3>. QED
      BY <2>2, <2>4, <3>2
  <2>. QED
    BY <2>3, <2>4
<1>. QED
  BY <1>3, <1>4, <1>5, <1>6, <1>7

(***************************************************************************)
(* A generated index describes its tree in the sense of Faithful.          *)
(***************************************************************************)
LEMMA MakeIndexIsFaithful ==
  ASSUME NEW t \in Tree
  PROVE  Faithful(MakeIndex(t), t)
<1> DEFINE idx == MakeIndex(t)
<1>1. /\ {idx.docnames[i] : i \in DOMAIN idx.docnames} = DOMAIN t
      /\ \A i \in DOMAIN idx.titles : idx.titles[i] = t[idx.docnames[i]].heads[1]
      /\ \A w \in Words : Hits(idx, idx.terms, w) = BodyHas(t, w)
      /\ \A w \in Words : Hits(idx, idx.titleterms, w) = TitleHas(t, w)
      /\ \A x \in Titles :
            Links(idx, x) = {<<o[1], Anchor(t[o[1]].heads, o[2])>> : o \in Occurrences(t, x)}
  BY MakeIndexFaithful
<1>2. \A w \in Words :
        Hits(idx, idx.titleterms, w)
          = {d \in DOMAIN t : \E j \in DOMAIN t[d].heads : w \in TitleWords[t[d].heads[j]]}
  BY <1>1 DEF TitleHas, HeadsOf
<1>3. \A w \in Words :
        Hits(idx, idx.terms, w) = {d \in DOMAIN t : w \in t[d].body} \ Hits(idx, idx.titleterms, w)
  BY <1>1 DEF BodyHas
<1>. QED
  BY <1>1, <1>2, <1>3 DEF Faithful

-----------------------------------------------------------------------------
(***************************************************************************)
(* The inductive invariant.  IndexWellFormed and IndexFaithful are not     *)
(* inductive as they stand (a state whose index is well formed but was not *)
(* generated from any tree can be followed by anything); what makes them   *)
(* hold is that the deployed index is the generator's output for the       *)
(* deployed pages, and a cached or loaded index the output for some tree.  *)
(***************************************************************************)
Generated(f) == \E t \in Tree : f = MakeIndex(t)

IInv ==
  /\ TypeOK
  /\ index = MakeIndex(deployed)
  /\ \A f \in cached : Generated(f)
  /\ \A l \in loaded : Generated(l)

LEMMA IInvInit ==
  Init => IInv
<1> SUFFICES ASSUME Init PROVE IInv
  OBVIOUS
<1>1. TypeOK
  BY MakeIndexType DEF Init, TypeOK
<1>. QED
  BY <1>1 DEF Init, IInv

LEMMA IInvNext ==
  IInv /\ [Next]_vars => IInv'
<1> SUFFICES ASSUME IInv, [Next]_vars PROVE IInv'
  OBVIOUS
<1>1. TypeOK'
  <2>1. TypeOK /\ [Next]_vars => TypeOK'
    BY TypeStep
  <2>. QED
    BY <2>1 DEF IInv
<1>2. ASSUME NEW d \in DocIds, NEW p \in Page, AddPage(d, p) \/ EditPage(d, p)
      PROVE  IInv'
  BY <1>1, <1>2 DEF AddPage, EditPage, IInv
<1>3. ASSUME NEW d \in DocIds, RemovePage(d) PROVE IInv'
  BY <1>1, <1>3 DEF RemovePage, IInv
<1>4. CASE Build
  <2>1. Generated(index)
    BY DEF IInv, TypeOK, Generated
  <2>2. \A f \in cached' : Generated(f)
    BY <1>4, <2>1 DEF Build, IInv
  <2>. QED
    BY <1>1, <1>4, <2>2 DEF Build, IInv
<1>5. CASE SetIndex
  <2>1. Generated(index)
    BY DEF IInv, TypeOK, Generated
  <2>2. \A l \in loaded' : Generated(l)
    BY <1>5, <2>1 DEF SetIndex, IInv
  <2>. QED
    BY <1>1, <1>5, <2>2 DEF SetIndex, IInv
<1>6. CASE UNCHANGED vars
  BY <1>1, <1>6 DEF vars, IInv
<1>. QED
  BY <1>2, <1>3, <1>4, <1>5, <1>6 DEF Next


(***************************************************************************)
(* Every index a build writes to searchindex.js, every earlier one a cache *)
(* still serves and every index a browser handed to Search.setIndex is    *)
(* well formed: document numbers are in the   *)
(* range of docnames, single documents are bare numbers and arrays are     *)
(* ascending, for every number of documents, words and titles.             *)
(***************************************************************************)
THEOREM IndexWellFormedInvariant == Spec => []IndexWellFormed
<1>1. IInv => IndexWellFormed
  BY MakeIndexWellFormed DEF IInv, Generated, TypeOK, IndexWellFormed
<1>. QED
  BY <1>1, IInvInit, IInvNext, PTL DEF Spec

(***************************************************************************)
(* The deployed searchindex.js describes the deployed site: its docnames   *)
(* are the pages, its titles their titles, a word looks up in titleterms   *)
(* to exactly the pages one of whose headings has it and in terms to       *)
(* exactly the other pages whose body has it, and a heading to its         *)
(* occurrences with their anchors.                                         *)
(***************************************************************************)
THEOREM IndexFaithfulInvariant == Spec => []IndexFaithful
<1>1. IInv => IndexFaithful
  BY MakeIndexIsFaithful DEF IInv, TypeOK, IndexFaithful
<1>. QED
  BY <1>1, IInvInit, IInvNext, PTL DEF Spec

(***************************************************************************)
(* No two alltitles entries of a generated index are the same link.        *)
(***************************************************************************)
LEMMA MakeIndexAnchorsDistinct ==
  ASSUME NEW t \in Tree
  PROVE  AnchorsDistinct(MakeIndex(t))
<1> DEFINE idx == MakeIndex(t)
<1>1. \A y \in DOMAIN idx.alltitles : idx.alltitles[y].arr = Entries(t, y)
  BY DEF MakeIndex, DocOrder, Entries
<1>2. ASSUME NEW h1 \in DOMAIN idx.alltitles, NEW h2 \in DOMAIN idx.alltitles,
             NEW i1 \in DOMAIN idx.alltitles[h1].arr, NEW i2 \in DOMAIN idx.alltitles[h2].arr,
             idx.alltitles[h1].arr[i1] = idx.alltitles[h2].arr[i2]
      PROVE  h1 = h2 /\ i1 = i2
  <2>1. i1 \in DOMAIN Entries(t, h1) /\ i2 \in DOMAIN Entries(t, h2)
        /\ Entries(t, h1)[i1] = Entries(t, h2)[i2]
    BY <1>1, <1>2
  <2>. QED
    BY <2>1, EntriesDistinct
<1>. QED
  BY <1>2 DEF AnchorsDistinct

(***************************************************************************)
(* Every heading link of the deployed searchindex.js is a place of its     *)
(* own: headings of a page whose slugs coincide, a heading repeated in a   *)
(* page and a heading with an empty slug never share a [number, anchor]    *)
(* entry, for every number of documents and headings.                      *)
(***************************************************************************)
THEOREM IndexAnchorsDistinctInvariant == Spec => []IndexAnchorsDistinct
<1>1. IInv => IndexAnchorsDistinct
  BY MakeIndexAnchorsDistinct DEF IInv, TypeOK, IndexAnchorsDistinct
<1>. QED
  BY <1>1, IInvInit, IInvNext, PTL DEF Spec

-----------------------------------------------------------------------------
(***************************************************************************)
(* The answers a reader gets from a generated index are the answers of the *)
(* tree it was generated from.                                             *)
(* Two functions given by expressions on equal sets that agree are equal. *)
LEMMA FunctionsEqual ==
  ASSUME NEW S, NEW T, S = T, NEW F(_), NEW G(_), \A x \in T : F(x) = G(x)
  PROVE  [x \in S |-> F(x)] = [x \in T |-> G(x)]
OBVIOUS

(***************************************************************************)
(* The heading links of an index name the pages that have the heading.     *)
(***************************************************************************)
LEMMA LinkedPages ==
  ASSUME NEW t \in Tree, NEW h, NEW LS,
         LS = {<<o[1], Anchor(t[o[1]].heads, o[2])>> : o \in Occurrences(t, h)}
  PROVE  {l[1] : l \in LS} = {d \in DOMAIN t : \E j \in DOMAIN t[d].heads : t[d].heads[j] = h}
<1> DEFINE R == {d \in DOMAIN t : \E j \in DOMAIN t[d].heads : t[d].heads[j] = h}
<1>1. \A o : o \in Occurrences(t, h) <=>
         \E d \in DOMAIN t : \E j \in DOMAIN t[d].heads : t[d].heads[j] = h /\ o = <<d, j>>
  BY DEF Occurrences
<1>2. ASSUME NEW l \in LS PROVE l[1] \in R
  <2>1. PICK o \in Occurrences(t, h) : l = <<o[1], Anchor(t[o[1]].heads, o[2])>>
    OBVIOUS
  <2>2. PICK d \in DOMAIN t : \E j \in DOMAIN t[d].heads : t[d].heads[j] = h /\ o = <<d, j>>
    BY <1>1
  <2>. QED
    BY <2>1, <2>2
<1>3. ASSUME NEW d \in R PROVE \E l \in LS : l[1] = d
  <2>1. PICK j \in DOMAIN t[d].heads : t[d].heads[j] = h
    OBVIOUS
  <2>2. <<d, j>> \in Occurrences(t, h)
    BY <1>1, <2>1
  <2>3. <<d, Anchor(t[d].heads, j)>> \in LS
    BY <2>2
  <2>. QED
    BY <2>3
<1>. QED
  BY <1>2, <1>3

(***************************************************************************)
(* The answers a reader gets from a generated index are the answers of the *)
(* tree it was generated from.                                             *)
(***************************************************************************)
LEMMA ResultsAnswers ==
  ASSUME NEW t \in Tree
  PROVE  Results(MakeIndex(t)) = Abstract!Answers(t)
<1> DEFINE D == DOMAIN t
           idx == MakeIndex(t)
<1>1. Faithful(idx, t)
  BY MakeIndexIsFaithful
<1>2. {idx.docnames[i] : i \in DOMAIN idx.docnames} = D
      /\ \A i \in DOMAIN idx.titles : idx.titles[i] = t[idx.docnames[i]].heads[1]
  BY <1>1 DEF Faithful
<1>3. DOMAIN idx.titles = DOMAIN idx.docnames
  <2>1. D \subseteq Nat /\ IsFiniteSet(D)
    BY TreeDocs
  <2>2. Cardinality(D) \in Nat /\ Sorted(D) \in [1 .. Cardinality(D) -> D]
    BY <2>1, SortedLists, FS_CardinalityType
  <2>. QED
    BY <2>2 DEF MakeIndex, DocOrder
<1>4. Results(idx).titles = [d \in D |-> t[d].heads[1]]
  <2>1. ASSUME NEW d \in D
        PROVE  idx.titles[CHOOSE i \in DOMAIN idx.docnames : idx.docnames[i] = d] = t[d].heads[1]
    <3> DEFINE k == CHOOSE i \in DOMAIN idx.docnames : idx.docnames[i] = d
    <3>1. \E i \in DOMAIN idx.docnames : idx.docnames[i] = d
      BY <1>2
    <3>2. k \in DOMAIN idx.docnames /\ idx.docnames[k] = d
      BY <3>1, Zenon
    <3>. QED
      BY <1>2, <1>3, <3>2
  <2>2. Results(idx).titles
          = [d \in {idx.docnames[i] : i \in DOMAIN idx.docnames} |->
               idx.titles[CHOOSE i \in DOMAIN idx.docnames : idx.docnames[i] = d]]
    BY DEF Results
  <2>. QED
    BY <1>2, <2>1, <2>2, FunctionsEqual
<1>5. ASSUME NEW w \in Words
      PROVE  /\ Hits(idx, idx.titleterms, w) = Abstract!HeadWordPages(t, w)
             /\ Hits(idx, idx.terms, w) \cup Hits(idx, idx.titleterms, w)
                  = {d \in D : w \in t[d].body} \cup Abstract!HeadWordPages(t, w)
  <2>1. Hits(idx, idx.titleterms, w) = Abstract!HeadWordPages(t, w)
    BY <1>1 DEF Faithful, Abstract!HeadWordPages
  <2>2. Hits(idx, idx.terms, w) = {d \in D : w \in t[d].body} \ Hits(idx, idx.titleterms, w)
    BY <1>1 DEF Faithful
  <2>. QED
    BY <2>1, <2>2
<1>6. /\ Results(idx).words
           = [w \in Words |-> {d \in D : w \in t[d].body} \cup Abstract!HeadWordPages(t, w)]
      /\ Results(idx).headwords = [w \in Words |-> Abstract!HeadWordPages(t, w)]
  BY <1>5 DEF Results
<1>7. Results(idx).headings
        = [h \in Titles |-> {d \in D : \E j \in DOMAIN t[d].heads : t[d].heads[j] = h}]
  <2>1. ASSUME NEW h \in Titles
        PROVE  {l[1] : l \in Links(idx, h)} = {d \in D : \E j \in DOMAIN t[d].heads : t[d].heads[j] = h}
    <3>1. Links(idx, h) = {<<o[1], Anchor(t[o[1]].heads, o[2])>> : o \in Occurrences(t, h)}
      BY <1>1 DEF Faithful
    <3>. QED
      BY <3>1, LinkedPages
  <2>. QED
    BY <2>1 DEF Results
<1>8. Results(idx) = [titles    |-> Results(idx).titles,
                      words     |-> Results(idx).words,
                      headwords |-> Results(idx).headwords,
                      headings  |-> Results(idx).headings]
  BY DEF Results
<1>9. Abstract!Answers(t)
        = [titles    |-> [d \in D |-> t[d].heads[1]],
           words     |-> [w \in Words |->
                            {d \in D : w \in t[d].body} \cup Abstract!HeadWordPages(t, w)],
           headwords |-> [w \in Words |-> Abstract!HeadWordPages(t, w)],
           headings  |-> [h \in Titles |->
                            {d \in D : \E j \in DOMAIN t[d].heads : t[d].heads[j] = h}]]
  BY DEF Abstract!Answers
<1>. QED
  BY <1>4, <1>5, <1>6, <1>7, <1>8, <1>9

(* The source trees of SiteSearch are those of SearchIndex. *)
LEMMA SameTrees ==
  Abstract!Tree = Tree
BY DEF Abstract!Tree, Tree, Abstract!Page, Page, Abstract!HeadSeqs, HeadSeqs,
       Abstract!DocIds, DocIds

(***************************************************************************)
(* The index implements the search the site promises (SiteSearch under the *)
(* mapping site <- deployed, older <- the Results of the cached file, view *)
(* <- the Results of the loaded index): editing the sources is an Author   *)
(* step; a build publishes them, and the cache keeping the replaced file   *)
(* keeps the answers of the site that was published; running              *)
(* searchindex.js gives the reader the answers of the site as deployed at  *)
(* that moment, or those of the earlier site whose file a cache served,    *)
(* which the reader keeps until the next load.                             *)
(***************************************************************************)
THEOREM Refinement == Spec => ImplementsSiteSearch
<1>1. Init => Abstract!Init
  BY SameTrees DEF Init, Abstract!Init
<1>2. IInv /\ [Next]_vars => [Abstract!Next]_(Abstract!svars)
  <2> SUFFICES ASSUME IInv, [Next]_vars PROVE [Abstract!Next]_(Abstract!svars)
    OBVIOUS
  <2>1. TypeOK'
    BY TypeStep DEF IInv
  <2>2. ASSUME NEW d \in DocIds, NEW p \in Page, AddPage(d, p) \/ EditPage(d, p)
        PROVE  Abstract!Author
    BY <2>1, <2>2, SameTrees DEF AddPage, EditPage, TypeOK, Abstract!Author
  <2>3. ASSUME NEW d \in DocIds, RemovePage(d) PROVE Abstract!Author
    BY <2>1, <2>3, SameTrees DEF RemovePage, TypeOK, Abstract!Author
  <2>0. Results(index) = Abstract!Answers(deployed)
    BY ResultsAnswers DEF IInv, TypeOK
  <2>4. CASE Build
    <3>1. {Results(f) : f \in cached'}
            \in {{Results(f) : f \in cached}, {Abstract!Answers(deployed)}}
      BY <2>0, <2>4 DEF Build
    <3>2. Abstract!Publish
      BY <2>4, <3>1 DEF Build, Abstract!Publish
    <3>. QED
      BY <3>2 DEF Abstract!Next
  <2>5. CASE SetIndex
    <3>1. PICK f \in {index} \cup cached : loaded' = {f}
      BY <2>5 DEF SetIndex
    <3>2. Results(f) \in {Abstract!Answers(deployed)} \cup {Results(g) : g \in cached}
      BY <2>0, <3>1
    <3>3. Abstract!Load
      BY <2>5, <3>1, <3>2 DEF SetIndex, Abstract!Load
    <3>. QED
      BY <3>3 DEF Abstract!Next
  <2>6. CASE UNCHANGED vars
    BY <2>6 DEF vars, Abstract!svars
  <2>. QED
    BY <2>2, <2>3, <2>4, <2>5, <2>6 DEF Next, Abstract!Next
<1>. QED
  BY <1>1, <1>2, IInvInit, IInvNext, PTL DEF Spec, ImplementsSiteSearch, Abstract!Spec

=============================================================================
