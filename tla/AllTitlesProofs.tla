-------------------------- MODULE AllTitlesProofs --------------------------
(***************************************************************************)
(* Facts about the alltitles value the generator writes for a heading, for *)
(* every source tree: the anchor docutils gives a heading is one of a      *)
(* kind and no other heading of the page gets it, the packed key orders    *)
(* the occurrences of a heading by document number and then by position,   *)
(* and the entries list every occurrence once.                             *)
(***************************************************************************)
EXTENDS SearchIndex, IndexFormatLemmas

(***************************************************************************)
(* The headings of a page are a non-empty sequence of at most MaxHeads     *)
(* titles.                                                                 *)
(***************************************************************************)
LEMMA PageHeads ==
  ASSUME NEW p \in Page
  PROVE  /\ p.heads \in Seq(Titles)
         /\ DOMAIN p.heads = 1 .. Len(p.heads)
         /\ Len(p.heads) \in 1 .. MaxHeads
<1>1. PICK n \in 1 .. MaxHeads : p.heads \in [1 .. n -> Titles]
  BY DEF Page, HeadSeqs
<1>. QED
  BY <1>1, MaxHeadsAssumption

(***************************************************************************)
(* The anchor of a heading is a slug or an automatic identifier id<k>      *)
(* with k >= 1.                                                            *)
(***************************************************************************)
LEMMA AnchorType ==
  ASSUME NEW heads \in Seq(Titles), NEW j \in DOMAIN heads
  PROVE  Anchor(heads, j) \in Anchors
<1>1. CASE Slugged(heads, j)
  <2>1. Slug[heads[j]] \in STRING
    BY SlugAssumption
  <2>. QED
    BY <1>1, <2>1 DEF Anchor, Anchors
<1>2. CASE ~Slugged(heads, j)
  <2> DEFINE A == {m \in 1 .. j : ~Slugged(heads, m)}
  <2>1. IsFiniteSet(1 .. j) /\ A \subseteq 1 .. j
    BY FS_Interval
  <2>2. IsFiniteSet(A) /\ Cardinality(A) \in Nat
    BY <2>1, FS_Subset, FS_CardinalityType
  <2>3. j \in A
    BY <1>2
  <2>4. Cardinality(A) # 0
    BY <2>2, <2>3, FS_EmptySet
  <2>. QED
    BY <1>2, <2>2, <2>4 DEF Anchor, Anchors
<1>. QED
  BY <1>1, <1>2

(* A slug anchor is never an automatic one. *)
LEMMA AnchorKinds ==
  ASSUME NEW x, NEW y
  PROVE  [slug |-> x] # [auto |-> y]
<1>1. DOMAIN [slug |-> x] = {"slug"} /\ DOMAIN [auto |-> y] = {"auto"}
  OBVIOUS
<1>. QED
  BY <1>1

(***************************************************************************)
(* Two headings of one page never get the same anchor: a slug is taken by  *)
(* the first heading that has it, a slug and an automatic identifier are   *)
(* of different kinds, and a later automatic identifier counts one more    *)
(* heading without a slug of its own.                                      *)
(***************************************************************************)
LEMMA AnchorInjective ==
  ASSUME NEW heads \in Seq(Titles), NEW j1 \in DOMAIN heads, NEW j2 \in DOMAIN heads,
         Anchor(heads, j1) = Anchor(heads, j2)
  PROVE  j1 = j2
<1> DEFINE A(j) == {m \in 1 .. j : ~Slugged(heads, m)}
<1>1. ASSUME NEW a \in DOMAIN heads, NEW b \in DOMAIN heads, a < b
      PROVE  Anchor(heads, a) # Anchor(heads, b)
  <2>0. a \in Nat /\ b \in Nat /\ a \in 1 .. b - 1
    BY <1>1
  <2>1. CASE Slugged(heads, a) /\ Slugged(heads, b)
    <3>1. Slug[heads[a]] # Slug[heads[b]]
      BY <2>0, <2>1 DEF Slugged
    <3>. QED
      BY <2>1, <3>1 DEF Anchor
  <2>2. CASE Slugged(heads, a) /\ ~Slugged(heads, b)
    <3>1. Anchor(heads, a) = [slug |-> Slug[heads[a]]]
          /\ Anchor(heads, b) = [auto |-> Cardinality(A(b))]
      BY <2>2 DEF Anchor
    <3>. QED
      BY <3>1, AnchorKinds
  <2>4. CASE ~Slugged(heads, a) /\ Slugged(heads, b)
    <3>1. Anchor(heads, a) = [auto |-> Cardinality(A(a))]
          /\ Anchor(heads, b) = [slug |-> Slug[heads[b]]]
      BY <2>4 DEF Anchor
    <3>. QED
      BY <3>1, AnchorKinds
  <2>3. CASE ~Slugged(heads, a) /\ ~Slugged(heads, b)
    <3>0. IsFiniteSet(1 .. b)
      BY <2>0, FS_Interval
    <3>1. IsFiniteSet(1 .. b) /\ A(b) \subseteq 1 .. b /\ A(a) \subseteq A(b)
      BY <2>0, <3>0
    <3>2. IsFiniteSet(A(b))
      BY <3>1, FS_Subset
    <3>3. Cardinality(A(a)) <= Cardinality(A(b))
          /\ (Cardinality(A(a)) = Cardinality(A(b)) => A(a) = A(b))
      BY <3>1, <3>2, FS_Subset
    <3>4. b \in A(b) /\ b \notin A(a)
      BY <2>0, <2>3
    <3>5. Cardinality(A(a)) # Cardinality(A(b))
      BY <3>3, <3>4
    <3>. QED
      BY <2>3, <3>5 DEF Anchor
  <2>. QED
    BY <2>1, <2>2, <2>3, <2>4, Zenon
<1>2. j1 \in Nat /\ j2 \in Nat
  OBVIOUS
<1>. QED
  BY <1>1, <1>2

(***************************************************************************)
(* A document number and a heading position below M packed as n * M + j   *)
(* can be unpacked, and the packed order puts smaller numbers first.       *)
(***************************************************************************)
LEMMA PackedKey ==
  ASSUME NEW M \in Nat \ {0}, NEW a \in Nat, NEW b \in Nat,
         NEW j \in 0 .. M - 1, NEW k \in 0 .. M - 1
  PROVE  /\ a * M + j = b * M + k => a = b /\ j = k
         /\ a * M + j < b * M + k => a <= b
<1>1. (a * M + j) \div M = a /\ (a * M + j) % M = j
  OBVIOUS
<1>2. (b * M + k) \div M = b /\ (b * M + k) % M = k
  OBVIOUS
<1>3. a * M + j < b * M + k => (a * M + j) \div M <= (b * M + k) \div M
  OBVIOUS
<1>. QED
  BY <1>1, <1>2, <1>3

(***************************************************************************)
(* A source tree names finitely many documents, all of them numbers.       *)
(***************************************************************************)
LEMMA TreeDocs ==
  ASSUME NEW t \in Tree
  PROVE  /\ DOMAIN t \subseteq Nat
         /\ IsFiniteSet(DOMAIN t)
         /\ t \in [DOMAIN t -> Page]
<1>1. PICK D \in SUBSET DocIds : t \in [D -> Page]
  BY DEF Tree
<1>2. IsFiniteSet(DocIds)
  BY NDocsAssumption, FS_Interval DEF DocIds
<1>3. DOMAIN t = D /\ D \subseteq Nat
  BY <1>1, NDocsAssumption DEF DocIds
<1>4. IsFiniteSet(D)
  BY <1>2, FS_Subset
<1>. QED
  BY <1>1, <1>3, <1>4

(***************************************************************************)
(* The occurrences HeadsAt(t, h) the generator lists for heading h are the *)
(* pairs <<d, j>> where the j-th heading of page d is h: finitely many,    *)
(* with j at most MaxHeads, and there are some exactly when a page has h.  *)
(***************************************************************************)
LEMMA HeadsAtFacts ==
  ASSUME NEW t \in Tree, NEW h
  PROVE  /\ HeadsAt(t, h) = Occurrences(t, h)
         /\ \A o \in HeadsAt(t, h) :
               /\ o = <<o[1], o[2]>>
               /\ o[1] \in DOMAIN t
               /\ o[2] \in DOMAIN t[o[1]].heads
               /\ o[2] \in 1 .. MaxHeads
               /\ t[o[1]].heads[o[2]] = h
         /\ IsFiniteSet(HeadsAt(t, h))
         /\ HeadsAt(t, h) # {} <=> Titled(t, h) # {}
<1> DEFINE D == DOMAIN t
           H == HeadsAt(t, h)
<1>1. D \subseteq Nat /\ IsFiniteSet(D) /\ t \in [D -> Page]
  BY TreeDocs
<1>2. \A d \in D : /\ t[d].heads \in Seq(Titles)
                   /\ DOMAIN t[d].heads = 1 .. Len(t[d].heads)
                   /\ Len(t[d].heads) \in 1 .. MaxHeads
  BY <1>1, PageHeads
<1>3. \A o : o \in H <=> \E d \in D : \E j \in DOMAIN t[d].heads :
                            t[d].heads[j] = h /\ o = <<d, j>>
  BY DEF HeadsAt, Titled, HeadsOf
<1>4. \A o : o \in Occurrences(t, h) <=> \E d \in D : \E j \in DOMAIN t[d].heads :
                                            t[d].heads[j] = h /\ o = <<d, j>>
  BY DEF Occurrences
<1>5. H = Occurrences(t, h)
  BY <1>3, <1>4
<1>6. ASSUME NEW o \in H
      PROVE  /\ o = <<o[1], o[2]>>
             /\ o[1] \in D
             /\ o[2] \in DOMAIN t[o[1]].heads
             /\ o[2] \in 1 .. MaxHeads
             /\ t[o[1]].heads[o[2]] = h
  <2>1. PICK d \in D : \E j \in DOMAIN t[d].heads : t[d].heads[j] = h /\ o = <<d, j>>
    BY <1>3
  <2>2. PICK j \in DOMAIN t[d].heads : t[d].heads[j] = h /\ o = <<d, j>>
    BY <2>1
  <2>3. j \in 1 .. MaxHeads
    BY <1>2, <2>2, MaxHeadsAssumption
  <2>. QED
    BY <2>2, <2>3
<1>7. IsFiniteSet(H)
  <2>0. IsFiniteSet(1 .. MaxHeads)
    BY MaxHeadsAssumption, FS_Interval
  <2>1. IsFiniteSet(D \X (1 .. MaxHeads))
    BY <1>1, <2>0, FS_Product
  <2>2. H \subseteq D \X (1 .. MaxHeads)
    BY <1>6
  <2>. QED
    BY <2>1, <2>2, FS_Subset
<1>8. H # {} <=> Titled(t, h) # {}
  BY <1>3 DEF Titled, HeadsOf
<1>. QED
  BY <1>5, <1>6, <1>7, <1>8

(***************************************************************************)
(* The key of an occurrence, its document number and position packed into *)
(* one number, and the order the generator lists occurrences in.           *)
(***************************************************************************)
HKey(t, h) == [o \in HeadsAt(t, h) |-> HeadKey(Sorted(DOMAIN t), o[1], o[2])]

HOrder(t, h) == SortedBy(HeadsAt(t, h), HKey(t, h))

(***************************************************************************)
(* The key is a one-to-one numbering of the occurrences of h, and a        *)
(* smaller key never has a larger document number.                         *)
(***************************************************************************)
LEMMA HeadKeyFacts ==
  ASSUME NEW t \in Tree, NEW h
  PROVE  /\ \A o \in HeadsAt(t, h) : HKey(t, h)[o] \in Nat
         /\ \A o1, o2 \in HeadsAt(t, h) : HKey(t, h)[o1] = HKey(t, h)[o2] => o1 = o2
         /\ \A o1, o2 \in HeadsAt(t, h) :
               HKey(t, h)[o1] < HKey(t, h)[o2]
                 => Pos(Sorted(DOMAIN t), o1[1]) <= Pos(Sorted(DOMAIN t), o2[1])
<1> DEFINE D == DOMAIN t
           L == Sorted(D)
           H == HeadsAt(t, h)
<1>1. D \subseteq Nat /\ IsFiniteSet(D)
  BY TreeDocs
<1>2. HeadSlots \in Nat \ {0}
  BY MaxHeadsAssumption DEF HeadSlots
<1>3. ASSUME NEW o \in H
      PROVE  /\ Pos(L, o[1]) = Rank(D, o[1])
             /\ Pos(L, o[1]) \in Nat
             /\ o[2] \in 0 .. HeadSlots - 1
             /\ HKey(t, h)[o] = Pos(L, o[1]) * HeadSlots + o[2]
  <2>1. o[1] \in D /\ o[2] \in 1 .. MaxHeads
    BY HeadsAtFacts
  <2>2. Pos(L, o[1]) = Rank(D, o[1]) /\ Rank(D, o[1]) \in Nat
    BY <1>1, <2>1, PosIsRank, RankBound
  <2>. QED
    BY <2>1, <2>2, MaxHeadsAssumption DEF HKey, HeadKey, HeadSlots
<1>4. \A o \in H : HKey(t, h)[o] \in Nat
  BY <1>2, <1>3
<1>5. ASSUME NEW o1 \in H, NEW o2 \in H, HKey(t, h)[o1] = HKey(t, h)[o2]
      PROVE  o1 = o2
  <2>0. /\ Pos(L, o1[1]) \in Nat /\ o1[2] \in 0 .. HeadSlots - 1
        /\ Pos(L, o2[1]) \in Nat /\ o2[2] \in 0 .. HeadSlots - 1
    BY <1>3
  <2>a. Pos(L, o1[1]) * HeadSlots + o1[2] = Pos(L, o2[1]) * HeadSlots + o2[2]
    BY <1>3, <1>5
  <2>b. \A a, b \in Nat, j, k \in 0 .. HeadSlots - 1 :
          a * HeadSlots + j = b * HeadSlots + k => a = b /\ j = k
    BY <1>2, PackedKey
  <2>1. Pos(L, o1[1]) = Pos(L, o2[1]) /\ o1[2] = o2[2]
    BY <2>0, <2>a, <2>b
  <2>2. o1[1] = o2[1]
    <3>1. o1[1] \in D /\ o2[1] \in D
      BY HeadsAtFacts
    <3>2. L[Rank(D, o1[1]) + 1] = o1[1] /\ L[Rank(D, o2[1]) + 1] = o2[1]
      BY <1>1, <3>1, SortedLists
    <3>. QED
      BY <1>3, <2>1, <3>2
  <2>. QED
    BY <2>1, <2>2, HeadsAtFacts
<1>6. ASSUME NEW o1 \in H, NEW o2 \in H, HKey(t, h)[o1] < HKey(t, h)[o2]
      PROVE  Pos(L, o1[1]) <= Pos(L, o2[1])
  <2>0. /\ Pos(L, o1[1]) \in Nat /\ o1[2] \in 0 .. HeadSlots - 1
        /\ Pos(L, o2[1]) \in Nat /\ o2[2] \in 0 .. HeadSlots - 1
    BY <1>3
  <2>1. Pos(L, o1[1]) * HeadSlots + o1[2] < Pos(L, o2[1]) * HeadSlots + o2[2]
    BY <1>3, <1>6
  <2>2. \A a, b \in Nat, j, k \in 0 .. HeadSlots - 1 :
          a * HeadSlots + j < b * HeadSlots + k => a <= b
    BY <1>2, PackedKey
  <2>. QED
    BY <2>0, <2>1, <2>2
<1>. QED
  BY <1>4, <1>5, <1>6

(***************************************************************************)
(* The generator lists every occurrence of h once, by increasing key.     *)
(***************************************************************************)
LEMMA HOrderLists ==
  ASSUME NEW t \in Tree, NEW h
  PROVE  /\ Cardinality(HeadsAt(t, h)) \in Nat
         /\ HOrder(t, h) \in [1 .. Cardinality(HeadsAt(t, h)) -> HeadsAt(t, h)]
         /\ \A i, j \in 1 .. Cardinality(HeadsAt(t, h)) :
               i < j => HKey(t, h)[HOrder(t, h)[i]] < HKey(t, h)[HOrder(t, h)[j]]
         /\ \A o \in HeadsAt(t, h) :
               \E i \in 1 .. Cardinality(HeadsAt(t, h)) : HOrder(t, h)[i] = o
<1>1. IsFiniteSet(HeadsAt(t, h))
  BY HeadsAtFacts
<1>2. Cardinality(HeadsAt(t, h)) \in Nat
  BY <1>1, FS_CardinalityType
<1>3. /\ SortedBy(HeadsAt(t, h), HKey(t, h))
           \in [1 .. Cardinality(HeadsAt(t, h)) -> HeadsAt(t, h)]
      /\ \A i, j \in 1 .. Cardinality(HeadsAt(t, h)) :
            i < j => HKey(t, h)[SortedBy(HeadsAt(t, h), HKey(t, h))[i]]
                       < HKey(t, h)[SortedBy(HeadsAt(t, h), HKey(t, h))[j]]
      /\ \A o \in HeadsAt(t, h) :
            \E i \in 1 .. Cardinality(HeadsAt(t, h)) :
               SortedBy(HeadsAt(t, h), HKey(t, h))[i] = o
  <2>1. \A x \in HeadsAt(t, h) : HKey(t, h)[x] \in Nat
    BY HeadKeyFacts
  <2>2. \A x, y \in HeadsAt(t, h) : HKey(t, h)[x] = HKey(t, h)[y] => x = y
    BY HeadKeyFacts
  <2>. QED
    BY <1>1, <2>1, <2>2, SortedByLists
<1>. QED
  BY <1>2, <1>3 DEF HOrder

(***************************************************************************)
(* Two documents of D with the same number are the same document.          *)
(***************************************************************************)
LEMMA PosInjective ==
  ASSUME NEW D \in SUBSET Nat, IsFiniteSet(D), NEW x \in D, NEW y \in D,
         Pos(Sorted(D), x) = Pos(Sorted(D), y)
  PROVE  x = y
<1>1. Pos(Sorted(D), x) = Rank(D, x) /\ Pos(Sorted(D), y) = Rank(D, y)
  BY PosIsRank
<1>2. Sorted(D)[Rank(D, x) + 1] = x /\ Sorted(D)[Rank(D, y) + 1] = y
  BY SortedLists
<1>. QED
  BY <1>1, <1>2

(***************************************************************************)
(* The number of occurrences of h, the array of its alltitles value, and  *)
(* the entry <<number, anchor>> the generator writes for an occurrence o.  *)
(***************************************************************************)
HCount(t, h) == Cardinality(HeadsAt(t, h))

Entries(t, h) == TitleEntries(t, Sorted(DOMAIN t), h).arr

OccEntry(t, o) == <<Pos(Sorted(DOMAIN t), o[1]), Anchor(t[o[1]].heads, o[2])>>

(***************************************************************************)
(* The alltitles value of h is an array, whose i-th entry is that of the   *)
(* i-th occurrence in the order HOrder.                                    *)
(***************************************************************************)
LEMMA EntriesShape ==
  ASSUME NEW t \in Tree, NEW h
  PROVE  /\ ~IsNum(TitleEntries(t, Sorted(DOMAIN t), h))
         /\ TitleEntries(t, Sorted(DOMAIN t), h) = [arr |-> Entries(t, h)]
         /\ HCount(t, h) \in Nat
         /\ DOMAIN Entries(t, h) = 1 .. HCount(t, h)
         /\ \A i \in 1 .. HCount(t, h) : Entries(t, h)[i] = OccEntry(t, HOrder(t, h)[i])
<1>1. DOMAIN HOrder(t, h) = 1 .. HCount(t, h) /\ HCount(t, h) \in Nat
  BY HOrderLists DEF HCount
<1>. QED
  BY <1>1 DEF TitleEntries, HOrder, HKey, Arr, IsNum, Entries, OccEntry

(***************************************************************************)
(* The entry of the i-th occurrence o: the number of its document, below   *)
(* the number of documents, and the anchor of its heading.                 *)
(***************************************************************************)
LEMMA EntryFacts ==
  ASSUME NEW t \in Tree, NEW h, NEW i \in 1 .. HCount(t, h)
  PROVE  /\ HOrder(t, h)[i] \in HeadsAt(t, h)
         /\ Entries(t, h)[i] = OccEntry(t, HOrder(t, h)[i])
         /\ OccEntry(t, HOrder(t, h)[i])[1] \in 0 .. Cardinality(DOMAIN t) - 1
         /\ OccEntry(t, HOrder(t, h)[i])[2] \in Anchors
<1> DEFINE o == HOrder(t, h)[i]
           D == DOMAIN t
<1>1. o \in HeadsAt(t, h)
  BY HOrderLists DEF HCount
<1>2. o[1] \in D /\ o[2] \in DOMAIN t[o[1]].heads
  BY <1>1, HeadsAtFacts
<1>3. D \subseteq Nat /\ IsFiniteSet(D) /\ t \in [D -> Page]
  BY TreeDocs
<1>4. Pos(Sorted(D), o[1]) \in 0 .. Cardinality(D) - 1
  BY <1>2, <1>3, PosIsRank, RankBound
<1>5. t[o[1]].heads \in Seq(Titles)
  BY <1>2, <1>3, PageHeads
<1>6. Anchor(t[o[1]].heads, o[2]) \in Anchors
  BY <1>2, <1>5, AnchorType
<1>7. Entries(t, h)[i] = OccEntry(t, o)
  BY EntriesShape
<1>. QED
  BY <1>1, <1>4, <1>6, <1>7 DEF OccEntry

(***************************************************************************)
(* The alltitles value of h is a JSON array of [number, anchor] entries.   *)
(***************************************************************************)
LEMMA EntriesType ==
  ASSUME NEW t \in Tree, NEW h
  PROVE  TitleEntries(t, Sorted(DOMAIN t), h) \in JsonEntries
<1>1. HCount(t, h) \in Nat /\ DOMAIN Entries(t, h) = 1 .. HCount(t, h)
  BY EntriesShape
<1>2. ASSUME NEW i \in 1 .. HCount(t, h) PROVE Entries(t, h)[i] \in Nat \X Anchors
  <2>1. /\ Entries(t, h)[i] = OccEntry(t, HOrder(t, h)[i])
        /\ OccEntry(t, HOrder(t, h)[i])[1] \in 0 .. Cardinality(DOMAIN t) - 1
        /\ OccEntry(t, HOrder(t, h)[i])[2] \in Anchors
    BY EntryFacts
  <2>. QED
    BY <2>1 DEF OccEntry
<1>3. Entries(t, h) \in Seq(Nat \X Anchors)
  <2>1. Entries(t, h) \in [1 .. HCount(t, h) -> Nat \X Anchors]
    <3>1. Entries(t, h) = [i \in 1 .. HCount(t, h) |-> Entries(t, h)[i]]
      BY <1>1 DEF Entries, TitleEntries, Arr
    <3>. QED
      BY <1>2, <3>1
  <2>. QED
    BY <1>1, <2>1
<1>4. TitleEntries(t, Sorted(DOMAIN t), h) = [arr |-> Entries(t, h)]
  BY DEF TitleEntries, Arr, Entries
<1>. QED
  BY <1>3, <1>4 DEF JsonEntries

(***************************************************************************)
(* For a heading some page has, the alltitles value is a non-empty array   *)
(* of entries whose numbers are below the number of documents and never   *)
(* decrease.                                                               *)
(***************************************************************************)
LEMMA EntriesWellFormed ==
  ASSUME NEW t \in Tree, NEW h, Titled(t, h) # {}
  PROVE  /\ Len(Entries(t, h)) >= 1
         /\ \A i \in DOMAIN Entries(t, h) : Entries(t, h)[i][1] < Cardinality(DOMAIN t)
         /\ \A i, j \in DOMAIN Entries(t, h) :
               i < j => Entries(t, h)[i][1] <= Entries(t, h)[j][1]
<1> DEFINE v == Entries(t, h)
           n == HCount(t, h)
<1>1. n \in Nat /\ DOMAIN v = 1 .. n
  BY EntriesShape
<1>2. n # 0
  <2>1. HeadsAt(t, h) # {} /\ IsFiniteSet(HeadsAt(t, h))
    BY HeadsAtFacts
  <2>. QED
    BY <2>1, FS_EmptySet DEF HCount
<1>3. Len(v) = n
  <2>1. v = [i \in 1 .. n |-> v[i]]
    BY <1>1 DEF Entries, TitleEntries, Arr
  <2>. QED
    BY <1>1, <2>1
<1>4. ASSUME NEW i \in 1 .. n PROVE v[i][1] < Cardinality(DOMAIN t)
  <2>1. /\ v[i] = OccEntry(t, HOrder(t, h)[i])
        /\ OccEntry(t, HOrder(t, h)[i])[1] \in 0 .. Cardinality(DOMAIN t) - 1
    BY EntryFacts
  <2>2. Cardinality(DOMAIN t) \in Nat
    BY TreeDocs, FS_CardinalityType
  <2>. QED
    BY <2>1, <2>2
<1>5. ASSUME NEW i \in 1 .. n, NEW j \in 1 .. n, i < j
      PROVE  v[i][1] <= v[j][1]
  <2>1. HKey(t, h)[HOrder(t, h)[i]] < HKey(t, h)[HOrder(t, h)[j]]
    BY <1>5, HOrderLists DEF HCount
  <2>2. HOrder(t, h)[i] \in HeadsAt(t, h) /\ HOrder(t, h)[j] \in HeadsAt(t, h)
    BY EntryFacts
  <2>3. Pos(Sorted(DOMAIN t), HOrder(t, h)[i][1]) <= Pos(Sorted(DOMAIN t), HOrder(t, h)[j][1])
    BY <2>1, <2>2, HeadKeyFacts
  <2>4. v[i] = OccEntry(t, HOrder(t, h)[i]) /\ v[j] = OccEntry(t, HOrder(t, h)[j])
    BY EntryFacts
  <2>. QED
    BY <2>3, <2>4 DEF OccEntry
<1>. QED
  BY <1>1, <1>2, <1>3, <1>4, <1>5

(***************************************************************************)
(* The entries of h are the [number, anchor] pairs of its occurrences.     *)
(***************************************************************************)
LEMMA EntriesSet ==
  ASSUME NEW t \in Tree, NEW h
  PROVE  {Entries(t, h)[i] : i \in DOMAIN Entries(t, h)} = {OccEntry(t, o) : o \in HeadsAt(t, h)}
<1> DEFINE n == HCount(t, h)
<1>1. DOMAIN Entries(t, h) = 1 .. n
  BY EntriesShape
<1>2. \A i \in 1 .. n : HOrder(t, h)[i] \in HeadsAt(t, h)
                        /\ Entries(t, h)[i] = OccEntry(t, HOrder(t, h)[i])
  BY EntryFacts
<1>3. \A o \in HeadsAt(t, h) : \E i \in 1 .. n : HOrder(t, h)[i] = o
  BY HOrderLists DEF HCount
<1>. QED
  BY <1>1, <1>2, <1>3

(***************************************************************************)
(* No two entries of alltitles, under one heading or under two, are the    *)
(* same link.                                                              *)
(***************************************************************************)
LEMMA EntriesDistinct ==
  ASSUME NEW t \in Tree, NEW h1, NEW h2,
         NEW i1 \in DOMAIN Entries(t, h1), NEW i2 \in DOMAIN Entries(t, h2),
         Entries(t, h1)[i1] = Entries(t, h2)[i2]
  PROVE  h1 = h2 /\ i1 = i2
<1> DEFINE D == DOMAIN t
           o1 == HOrder(t, h1)[i1]
           o2 == HOrder(t, h2)[i2]
<1>1. i1 \in 1 .. HCount(t, h1) /\ i2 \in 1 .. HCount(t, h2)
  BY EntriesShape
<1>2. o1 \in HeadsAt(t, h1) /\ o2 \in HeadsAt(t, h2)
      /\ Entries(t, h1)[i1] = OccEntry(t, o1) /\ Entries(t, h2)[i2] = OccEntry(t, o2)
  BY <1>1, EntryFacts
<1>3. Pos(Sorted(D), o1[1]) = Pos(Sorted(D), o2[1])
      /\ Anchor(t[o1[1]].heads, o1[2]) = Anchor(t[o2[1]].heads, o2[2])
  <2>1. OccEntry(t, o1) = OccEntry(t, o2)
    BY <1>2
  <2>. QED
    BY <2>1 DEF OccEntry
<1>4. D \subseteq Nat /\ IsFiniteSet(D) /\ t \in [D -> Page]
  BY TreeDocs
<1>5. /\ o1 = <<o1[1], o1[2]>> /\ o1[1] \in D /\ o1[2] \in DOMAIN t[o1[1]].heads
      /\ t[o1[1]].heads[o1[2]] = h1
      /\ o2 = <<o2[1], o2[2]>> /\ o2[1] \in D /\ o2[2] \in DOMAIN t[o2[1]].heads
      /\ t[o2[1]].heads[o2[2]] = h2
  BY <1>2, HeadsAtFacts
<1>6. o1[1] = o2[1]
  BY <1>3, <1>4, <1>5, PosInjective
<1>7. o1[2] = o2[2]
  <2>1. t[o1[1]].heads \in Seq(Titles)
    BY <1>4, <1>5, PageHeads
  <2>. QED
    BY <1>3, <1>5, <1>6, <2>1, AnchorInjective
<1>8. h1 = h2 /\ o1 = o2
  BY <1>5, <1>6, <1>7
<1>9. i1 = i2
  <2>1. \A a, b \in 1 .. HCount(t, h1) :
           a < b => HKey(t, h1)[HOrder(t, h1)[a]] < HKey(t, h1)[HOrder(t, h1)[b]]
    BY HOrderLists DEF HCount
  <2>2. HCount(t, h1) \in Nat
    BY EntriesShape
  <2>3. i2 \in 1 .. HCount(t, h1) /\ HOrder(t, h1)[i1] = HOrder(t, h1)[i2]
    BY <1>1, <1>8
  <2>0. HKey(t, h1)[HOrder(t, h1)[i1]] \in Nat
    BY <1>2, HeadKeyFacts
  <2>4. ~(i1 < i2) /\ ~(i2 < i1)
    BY <1>1, <2>0, <2>1, <2>3
  <2>. QED
    BY <1>1, <2>2, <2>3, <2>4
<1>. QED
  BY <1>8, <1>9

(***************************************************************************)
(* The order of an alltitles array.  The generator lists the occurrences   *)
(* of heading h by document name and, within a page, by the position of   *)
(* the heading, and that is the one such listing: any listing s of the    *)
(* occurrences ordered by (document, position) is HOrder(t, h), whose i-th *)
(* occurrence gives the i-th entry (EntriesShape).  So a page repeating a *)
(* heading has its entries next to each other, first occurrence first.    *)
(***************************************************************************)
THEOREM AllTitlesOrder ==
  ASSUME NEW t \in Tree, NEW h,
         NEW s \in [1 .. HCount(t, h) -> HeadsAt(t, h)],
         \A o \in HeadsAt(t, h) : \E k \in 1 .. HCount(t, h) : s[k] = o,
         \A i, j \in 1 .. HCount(t, h) : i < j => LexLess(s[i], s[j])
  PROVE  s = HOrder(t, h)
<1> DEFINE D == DOMAIN t
           L == Sorted(D)
           H == HeadsAt(t, h)
           K == HKey(t, h)
           n == HCount(t, h)
<1>1. D \subseteq Nat /\ IsFiniteSet(D)
  BY TreeDocs
<1>2. n \in Nat /\ \A o \in H : K[o] \in Nat
  BY HOrderLists, HeadKeyFacts DEF HCount
<1>3. ASSUME NEW o \in H
      PROVE  /\ o = <<o[1], o[2]>> /\ o[1] \in D /\ o[2] \in 1 .. MaxHeads
             /\ Pos(L, o[1]) = Rank(D, o[1]) /\ Rank(D, o[1]) \in Nat
             /\ K[o] = Pos(L, o[1]) * (MaxHeads + 1) + o[2]
  <2>1. o = <<o[1], o[2]>> /\ o[1] \in D /\ o[2] \in 1 .. MaxHeads
    BY HeadsAtFacts
  <2>2. Pos(L, o[1]) = Rank(D, o[1]) /\ Rank(D, o[1]) \in Nat
    BY <1>1, <2>1, PosIsRank, RankBound
  <2>. QED
    BY <2>1, <2>2 DEF HKey, HeadKey, HeadSlots
<1>4. ASSUME NEW o1 \in H, NEW o2 \in H, LexLess(o1, o2)
      PROVE  K[o1] < K[o2]
  <2> DEFINE a == <<Pos(L, o1[1]), o1[2]>>
             b == <<Pos(L, o2[1]), o2[2]>>
  <2>1. MaxHeads \in Nat /\ a \in Nat \X (1 .. MaxHeads) /\ b \in Nat \X (1 .. MaxHeads)
    BY <1>3, MaxHeadsAssumption
  <2>2. LexLess(a, b)
    <3>1. CASE o1[1] < o2[1]
      <4>1. Rank(D, o1[1]) < Rank(D, o2[1])
        BY <1>1, <1>3, <3>1, RankMonotone
      <4>. QED
        BY <1>3, <4>1 DEF LexLess
    <3>2. CASE o1[1] = o2[1] /\ o1[2] < o2[2]
      BY <3>2 DEF LexLess
    <3>. QED
      BY <1>4, <3>1, <3>2 DEF LexLess
  <2>3. a[1] * (MaxHeads + 1) + a[2] < b[1] * (MaxHeads + 1) + b[2]
    BY <2>1, <2>2, LexPacked
  <2>. QED
    BY <1>3, <2>3
<1>5. IsListing(s, H, n, K)
  BY <1>4 DEF IsListing
<1>6. IsListing(HOrder(t, h), H, n, K)
  BY HOrderLists DEF IsListing, HCount
<1>. QED
  BY <1>2, <1>5, <1>6, ListingUnique

=============================================================================
