------------------------- MODULE IndexFormatLemmas -------------------------
(***************************************************************************)
(* Facts about the encoding operators of IndexFormat, for every finite set *)
(* of document numbers: Sorted lists a set without gaps or repetitions,    *)
(* the position of a document in a sorted list is its rank, and the values *)
(* the generator writes have the JSON shape of searchindex.js.             *)
(***************************************************************************)
EXTENDS IndexFormat, FiniteSetTheorems, TLAPS

(***************************************************************************)
(* The members of S below x are a subset of S, hence finite.               *)
(***************************************************************************)
LEMMA BelowFinite ==
  ASSUME NEW S, IsFiniteSet(S), NEW x
  PROVE  /\ IsFiniteSet({y \in S : y < x})
         /\ Cardinality({y \in S : y < x}) \in Nat
BY FS_Subset, FS_CardinalityType

(***************************************************************************)
(* A member of S has fewer than Cardinality(S) members of S below it.      *)
(***************************************************************************)
LEMMA RankBound ==
  ASSUME NEW S \in SUBSET Nat, IsFiniteSet(S), NEW x \in S
  PROVE  Rank(S, x) \in 0 .. Cardinality(S) - 1
<1> DEFINE Below == {y \in S : y < x}
<1>1. Below \subseteq S \ {x}
  OBVIOUS
<1>2. IsFiniteSet(S \ {x}) /\ Cardinality(S \ {x}) = Cardinality(S) - 1
  BY FS_RemoveElement
<1>3. Cardinality(Below) <= Cardinality(S) - 1
  BY <1>1, <1>2, FS_Subset
<1>4. Cardinality(Below) \in Nat
  BY BelowFinite
<1>. QED
  BY <1>3, <1>4 DEF Rank

(***************************************************************************)
(* A larger member of S has a larger rank.                                 *)
(***************************************************************************)
LEMMA RankMonotone ==
  ASSUME NEW S \in SUBSET Nat, IsFiniteSet(S), NEW x \in S, NEW z \in S, x < z
  PROVE  Rank(S, x) < Rank(S, z)
<1> DEFINE A == {y \in S : y < x}
           B == {y \in S : y < z}
<1>1. A \subseteq B
  <2>1. \A y \in S : y < x => y < z
    OBVIOUS
  <2>. QED
    BY <2>1
<1>2. x \in B /\ x \notin A
  OBVIOUS
<1>3. IsFiniteSet(B) /\ Cardinality(B) \in Nat /\ Cardinality(A) \in Nat
  BY BelowFinite
<1>4. Cardinality(A) <= Cardinality(B) /\ (Cardinality(B) = Cardinality(A) => B = A)
  BY <1>1, <1>3, FS_Subset
<1>5. A # B
  BY <1>2
<1>. QED
  BY <1>3, <1>4, <1>5 DEF Rank

(***************************************************************************)
(* Every number of 0 .. Cardinality(S) - 1 is the rank of a member of S:   *)
(* rank maps S injectively into a set of the same size.                    *)
(***************************************************************************)
LEMMA RankOnto ==
  ASSUME NEW S \in SUBSET Nat, IsFiniteSet(S)
  PROVE  \A i \in 0 .. Cardinality(S) - 1 : \E x \in S : Rank(S, x) = i
<1> DEFINE n == Cardinality(S)
           T == 0 .. n - 1
           f == [x \in S |-> Rank(S, x)]
<1>1. n \in Nat
  BY FS_CardinalityType
<1>2. f \in [S -> T]
  BY RankBound
<1>3. f \in Injection(S, T)
  <2>1. ASSUME NEW a \in S, NEW b \in S, a # b
        PROVE  f[a] # f[b]
    <3>0. f[a] = Rank(S, a) /\ f[b] = Rank(S, b)
          /\ Rank(S, a) \in Nat /\ Rank(S, b) \in Nat
      BY RankBound
    <3>1. CASE a < b
      <4>1. Rank(S, a) < Rank(S, b)
        BY <3>1, RankMonotone
      <4>. QED
        BY <3>0, <4>1
    <3>2. CASE b < a
      <4>1. Rank(S, b) < Rank(S, a)
        BY <3>2, RankMonotone
      <4>. QED
        BY <3>0, <4>1
    <3>. QED
      BY <2>1, <3>1, <3>2
  <2>. QED
    BY <1>2, <2>1 DEF Injection, IsInjective
<1>4. IsFiniteSet(T) /\ Cardinality(T) = n
  <2>1. IsFiniteSet(T) /\ Cardinality(T) = IF 0 > n - 1 THEN 0 ELSE (n - 1) - 0 + 1
    BY <1>1, FS_Interval
  <2>. QED
    BY <1>1, <2>1
<1>5. f \in Surjection(S, T)
  BY <1>3, <1>4, FS_Injection
<1>. QED
  BY <1>5 DEF Surjection

(***************************************************************************)
(* Sorted(S) lists S: its i-th item is the member of rank i - 1, and the   *)
(* member x is its item number Rank(S, x) + 1.                             *)
(***************************************************************************)
LEMMA SortedLists ==
  ASSUME NEW S \in SUBSET Nat, IsFiniteSet(S)
  PROVE  /\ Sorted(S) \in [1 .. Cardinality(S) -> S]
         /\ \A i \in 1 .. Cardinality(S) : Rank(S, Sorted(S)[i]) = i - 1
         /\ \A x \in S : Sorted(S)[Rank(S, x) + 1] = x
<1>1. Cardinality(S) \in Nat
  BY FS_CardinalityType
<1>2. \A i \in 1 .. Cardinality(S) :
         /\ Sorted(S)[i] \in S
         /\ Rank(S, Sorted(S)[i]) = i - 1
  <2> SUFFICES ASSUME NEW i \in 1 .. Cardinality(S)
               PROVE  \E x \in S : Rank(S, x) = i - 1
    BY DEF Sorted
  <2>. QED
    BY <1>1, RankOnto
<1>3. ASSUME NEW x \in S
      PROVE  Sorted(S)[Rank(S, x) + 1] = x
  <2>1. Rank(S, x) + 1 \in 1 .. Cardinality(S)
    BY <1>1, RankBound
  <2> DEFINE y == Sorted(S)[Rank(S, x) + 1]
  <2>2. y \in S /\ Rank(S, y) = Rank(S, x)
    BY <1>2, <2>1, RankBound
  <2>3. x < y => Rank(S, x) < Rank(S, y)
    BY <2>2, RankMonotone
  <2>4. y < x => Rank(S, y) < Rank(S, x)
    BY <2>2, RankMonotone
  <2>5. Rank(S, x) \in Nat
    BY RankBound
  <2>6. ~(x < y) /\ ~(y < x)
    BY <2>2, <2>3, <2>4, <2>5
  <2>7. x \in Nat /\ y \in Nat
    BY <2>2
  <2>. QED
    BY <2>6, <2>7
<1>. QED
  BY <1>2, <1>3 DEF Sorted

(***************************************************************************)
(* In the sorted list of S, the 0-based position of a member is its rank.  *)
(***************************************************************************)
LEMMA PosIsRank ==
  ASSUME NEW S \in SUBSET Nat, IsFiniteSet(S), NEW x \in S
  PROVE  Pos(Sorted(S), x) = Rank(S, x)
<1> DEFINE L == Sorted(S)
           k == Rank(S, x) + 1
<1>1. Cardinality(S) \in Nat /\ Rank(S, x) \in 0 .. Cardinality(S) - 1
  BY RankBound, FS_CardinalityType
<1>2. DOMAIN L = 1 .. Cardinality(S) /\ k \in DOMAIN L /\ L[k] = x
  BY <1>1, SortedLists
<1>3. ASSUME NEW i \in DOMAIN L, L[i] = x
      PROVE  i = k
  <2>1. Rank(S, L[i]) = i - 1
    BY <1>2, SortedLists
  <2>. QED
    BY <1>1, <1>2, <1>3, <2>1
<1>4. (CHOOSE i \in DOMAIN L : L[i] = x) = k
  BY <1>2, <1>3
<1>5. Pos(L, x) = k - 1
  BY <1>4, Zenon DEF Pos
<1>. QED
  BY <1>1, <1>5

(***************************************************************************)
(* The values the generator writes for a non-empty finite set of document  *)
(* numbers are JSON values of the index format.                            *)
(***************************************************************************)
LEMMA SortedIsSeq ==
  ASSUME NEW P \in SUBSET Nat, IsFiniteSet(P)
  PROVE  Sorted(P) \in Seq(Nat)
<1>1. Cardinality(P) \in Nat
  BY FS_CardinalityType
<1>2. Sorted(P) \in [1 .. Cardinality(P) -> Nat]
  BY SortedLists
<1>. QED
  BY <1>1, <1>2

LEMMA PostingValueType ==
  ASSUME NEW P \in SUBSET Nat, IsFiniteSet(P), P # {}
  PROVE  PostingValue(P) \in JsonPosting
<1>1. Sorted(P) \in Seq(Nat)
  BY SortedIsSeq
<1>2. (CHOOSE p \in P : TRUE) \in Nat
  OBVIOUS
<1>. QED
  BY <1>1, <1>2 DEF PostingValue, JsonPosting, Num, Arr


(***************************************************************************)
(* Sorted(S) is ascending, and the set of its items is S.                  *)
(***************************************************************************)
LEMMA SortedAscending ==
  ASSUME NEW S \in SUBSET Nat, IsFiniteSet(S)
  PROVE  /\ Ascending(Sorted(S))
         /\ {Sorted(S)[i] : i \in DOMAIN Sorted(S)} = S
<1> DEFINE L == Sorted(S)
<1>1. Cardinality(S) \in Nat /\ L \in [1 .. Cardinality(S) -> S]
  BY SortedLists, FS_CardinalityType
<1>2. ASSUME NEW i \in DOMAIN L, NEW j \in DOMAIN L, i < j
      PROVE  L[i] < L[j]
  <2>1. Rank(S, L[i]) = i - 1 /\ Rank(S, L[j]) = j - 1
    BY <1>1, SortedLists
  <2>2. L[i] \in Nat /\ L[j] \in Nat /\ L[i] \in S /\ L[j] \in S
    BY <1>1
  <2>3. L[j] < L[i] => Rank(S, L[j]) < Rank(S, L[i])
    BY <2>2, RankMonotone
  <2>4. L[i] # L[j]
    BY <1>1, <1>2, <2>1
  <2>. QED
    BY <1>1, <1>2, <2>1, <2>2, <2>3, <2>4
<1>3. {L[i] : i \in DOMAIN L} = S
  <2>1. \A x \in S : Rank(S, x) + 1 \in DOMAIN L /\ L[Rank(S, x) + 1] = x
    BY <1>1, RankBound, SortedLists
  <2>. QED
    BY <1>1, <2>1
<1>. QED
  BY <1>2, <1>3 DEF Ascending

(***************************************************************************)
(* A terms value is a bare number of P when P has one member, and an       *)
(* ascending array of at least two members of P otherwise.                *)
(***************************************************************************)
LEMMA PostingShape ==
  ASSUME NEW P \in SUBSET Nat, IsFiniteSet(P), P # {}
  PROVE  /\ Cardinality(P) = 1 =>
                /\ IsNum(PostingValue(P))
                /\ P = {PostingValue(P).num}
         /\ Cardinality(P) # 1 =>
                /\ ~IsNum(PostingValue(P))
                /\ PostingValue(P).arr = Sorted(P)
                /\ Len(Sorted(P)) >= 2
<1>1. Cardinality(P) \in Nat /\ Cardinality(P) # 0
  BY FS_CardinalityType, FS_EmptySet
<1>2. Len(Sorted(P)) = Cardinality(P)
  BY <1>1, SortedLists
<1>3. Cardinality(P) = 1 => P = {CHOOSE p \in P : TRUE}
  BY FS_Singleton
<1>4. ~IsNum(Arr(Sorted(P))) /\ Arr(Sorted(P)).arr = Sorted(P)
  BY DEF IsNum, Arr
<1>5. IsNum(Num(CHOOSE p \in P : TRUE))
      /\ Num(CHOOSE p \in P : TRUE).num = (CHOOSE p \in P : TRUE)
  BY DEF IsNum, Num
<1>6. Cardinality(P) = 1 => PostingValue(P) = Num(CHOOSE p \in P : TRUE)
  BY DEF PostingValue
<1>7. Cardinality(P) # 1 => PostingValue(P) = Arr(Sorted(P))
  BY DEF PostingValue
<1>9. Cardinality(P) = 1 => /\ IsNum(PostingValue(P))
                           /\ P = {PostingValue(P).num}
  BY <1>3, <1>5, <1>6
<1>10. Cardinality(P) # 1 => Len(Sorted(P)) >= 2
  BY <1>1, <1>2
<1>. QED
  BY <1>1, <1>2, <1>4, <1>7, <1>9, <1>10

(***************************************************************************)
(* The search widget decodes both encodings of P back to P.                *)
(***************************************************************************)
LEMMA DecodePosting ==
  ASSUME NEW P \in SUBSET Nat, IsFiniteSet(P), P # {}
  PROVE  Decode(PostingValue(P)) = P
<1>1. {Sorted(P)[i] : i \in DOMAIN Sorted(P)} = P
  BY SortedAscending
<1>3. Cardinality(P) = 1 => Decode(PostingValue(P)) = P
  BY PostingShape DEF Decode
<1>4. Cardinality(P) # 1 => Decode(PostingValue(P)) = P
  BY <1>1, PostingShape DEF Decode
<1>. QED
  BY <1>3, <1>4

(***************************************************************************)
(* For a one-to-one numeric key on the finite set S, SortedBy(S, key)      *)
(* lists every member of S once, by strictly increasing key.               *)
(***************************************************************************)
LEMMA SortedByLists ==
  ASSUME NEW S, IsFiniteSet(S), NEW key,
         \A x \in S : key[x] \in Nat,
         \A x, y \in S : key[x] = key[y] => x = y
  PROVE  /\ SortedBy(S, key) \in [1 .. Cardinality(S) -> S]
         /\ \A i, j \in 1 .. Cardinality(S) :
               i < j => key[SortedBy(S, key)[i]] < key[SortedBy(S, key)[j]]
         /\ \A x \in S : \E i \in 1 .. Cardinality(S) : SortedBy(S, key)[i] = x
<1> DEFINE K == {key[y] : y \in S}
           L == SortedBy(S, key)
           n == Cardinality(S)
           f == [x \in S |-> key[x]]
<1>1. K \subseteq Nat
  OBVIOUS
<1>2. f \in Bijection(S, K)
  BY DEF Bijection, Injection, Surjection, IsInjective
<1>3. IsFiniteSet(K) /\ Cardinality(K) = n
  BY <1>2, FS_Bijection DEF ExistsBijection
<1>4. Sorted(K) \in [1 .. n -> K] /\ Ascending(Sorted(K))
  BY <1>1, <1>3, SortedLists, SortedAscending
<1>5. ASSUME NEW i \in 1 .. n
      PROVE  L[i] \in S /\ key[L[i]] = Sorted(K)[i]
  <2>1. \E x \in S : key[x] = Sorted(K)[i]
    BY <1>4
  <2>. QED
    BY <2>1, Zenon DEF SortedBy
<1>6. ASSUME NEW i \in 1 .. n, NEW j \in 1 .. n, i < j
      PROVE  key[L[i]] < key[L[j]]
  <2>1. Sorted(K)[i] < Sorted(K)[j]
    BY <1>4, <1>6 DEF Ascending
  <2>. QED
    BY <1>5, <2>1
<1>7. ASSUME NEW x \in S
      PROVE  \E i \in 1 .. n : L[i] = x
  <2> DEFINE k == Rank(K, key[x]) + 1
  <2>0. key[x] \in K /\ n \in Nat
    BY FS_CardinalityType
  <2>1. k \in 1 .. n /\ Sorted(K)[k] = key[x]
    <3>1. Rank(K, key[x]) \in 0 .. n - 1
      BY <1>1, <1>3, <2>0, RankBound
    <3>2. Sorted(K)[k] = key[x]
      BY <1>1, <1>3, <2>0, SortedLists
    <3>. QED
      BY <2>0, <3>1, <3>2
  <2>2. L[k] \in S /\ key[L[k]] = key[x]
    BY <2>1, <1>5
  <2>. QED
    BY <2>1, <2>2
<1>. QED
  BY <1>5, <1>6, <1>7 DEF SortedBy

(***************************************************************************)
(* s lists the set S by strictly increasing key: s has one item for each   *)
(* of the n members of S, and every member of S is one of them.            *)
(***************************************************************************)
IsListing(s, S, n, key) ==
  /\ s \in [1 .. n -> S]
  /\ \A x \in S : \E k \in 1 .. n : s[k] = x
  /\ \A i, j \in 1 .. n : i < j => key[s[i]] < key[s[j]]

(* The members of S whose key is below v, and the first i - 1 items of s. *)
KeyBelow(S, key, v) == {x \in S : key[x] < v}
ItemsBefore(s, i) == {s[k] : k \in 1 .. i - 1}

(* The members of S below the i-th item of a listing are the items before *)
(* it.                                                                     *)
LEMMA ListingBelow ==
  ASSUME NEW S, NEW key, \A x \in S : key[x] \in Nat,
         NEW n \in Nat, NEW s, IsListing(s, S, n, key), NEW i \in 1 .. n
  PROVE  KeyBelow(S, key, key[s[i]]) = ItemsBefore(s, i)
<1> SUFFICES {x \in S : key[x] < key[s[i]]} = {s[k] : k \in 1 .. i - 1}
  BY DEF KeyBelow, ItemsBefore
<1>1. ASSUME NEW x \in S, key[x] < key[s[i]]
      PROVE  \E k \in 1 .. i - 1 : s[k] = x
  <2>1. PICK k \in 1 .. n : s[k] = x
    BY DEF IsListing
  <2>2. ~(k >= i)
    <3>1. CASE k = i
      BY <1>1, <2>1, <3>1
    <3>2. CASE k > i
      <4>1. key[s[i]] < key[s[k]]
        BY <3>2 DEF IsListing
      <4>2. key[s[k]] \in Nat /\ key[s[i]] \in Nat
        BY DEF IsListing
      <4>. QED
        BY <1>1, <2>1, <4>1, <4>2
    <3>. QED
      BY <3>1, <3>2
  <2>. QED
    BY <2>1, <2>2
<1>2. ASSUME NEW k \in 1 .. i - 1
      PROVE  s[k] \in S /\ key[s[k]] < key[s[i]]
  BY DEF IsListing
<1>. QED
  BY <1>1, <1>2

(* Of two listings of the same set by the same key, neither has a smaller *)
(* item than the other at any place i: the first i items of a would fit   *)
(* into the i - 1 items of b before place i.                               *)
LEMMA ListingNotBelow ==
  ASSUME NEW S, NEW key, \A x \in S : key[x] \in Nat,
         NEW n \in Nat, NEW a, NEW b, IsListing(a, S, n, key), IsListing(b, S, n, key),
         NEW i \in 1 .. n
  PROVE  ~(key[a[i]] < key[b[i]])
<1> SUFFICES ASSUME key[a[i]] < key[b[i]]
             PROVE  FALSE
  OBVIOUS
<1>1. \A k \in 1 .. i : \E m \in 1 .. i - 1 : b[m] = a[k]
  <2>1. {x \in S : key[x] < key[b[i]]} = {b[m] : m \in 1 .. i - 1}
    <3>1. KeyBelow(S, key, key[b[i]]) = ItemsBefore(b, i)
      BY ListingBelow
    <3>. QED
      BY <3>1 DEF KeyBelow, ItemsBefore
  <2>2. ASSUME NEW k \in 1 .. i
        PROVE  a[k] \in S /\ key[a[k]] < key[b[i]]
    <3>0. k \in 1 .. n
      OBVIOUS
    <3>1. a[k] \in S /\ a[i] \in S /\ b[i] \in S
      BY <3>0 DEF IsListing
    <3>2. key[a[k]] <= key[a[i]]
      <4>1. CASE k = i
        BY <4>1, <3>1
      <4>2. CASE k < i
        <5>1. key[a[k]] < key[a[i]]
          BY <4>2, <3>0 DEF IsListing
        <5>. QED
          BY <5>1, <3>1
      <4>. QED
        BY <4>1, <4>2, <3>1
    <3>. QED
      BY <3>1, <3>2
  <2>. QED
    BY <2>1, <2>2
<1> DEFINE f == [k \in 1 .. i |-> CHOOSE m \in 1 .. i - 1 : b[m] = a[k]]
<1>2. \A k \in 1 .. i : f[k] \in 1 .. i - 1 /\ b[f[k]] = a[k]
  BY <1>1
<1>3. f \in [1 .. i -> 1 .. i - 1]
  BY <1>2
<1>4. IsFiniteSet(1 .. i) /\ IsFiniteSet(1 .. i - 1)
      /\ Cardinality(1 .. i - 1) < Cardinality(1 .. i)
  <2>1. IsFiniteSet(1 .. i) /\ Cardinality(1 .. i) = i
    BY FS_Interval
  <2>2. IsFiniteSet(1 .. i - 1) /\ Cardinality(1 .. i - 1) = i - 1
    BY FS_Interval
  <2>. QED
    BY <2>1, <2>2
<1>5. \E x, y \in 1 .. i : x # y /\ f[x] = f[y]
  <2>1. \A g \in [1 .. i -> 1 .. i - 1] : \E x, y \in 1 .. i : x # y /\ g[x] = g[y]
    BY <1>4, FS_PigeonHole
  <2>. QED
    BY <1>3, <2>1
<1>6. PICK x, y \in 1 .. i : x # y /\ a[x] = a[y]
  BY <1>2, <1>5
<1>7. x < y \/ y < x
  BY <1>6
<1>8. a[x] \in S /\ a[y] \in S
  <2>1. x \in 1 .. n /\ y \in 1 .. n
    OBVIOUS
  <2>. QED
    BY <2>1 DEF IsListing
<1>9. key[a[x]] # key[a[y]]
  <2>1. x \in 1 .. n /\ y \in 1 .. n /\ key[a[x]] \in Nat /\ key[a[y]] \in Nat
    BY <1>8
  <2>2. x < y => key[a[x]] < key[a[y]]
    BY <2>1 DEF IsListing
  <2>3. y < x => key[a[y]] < key[a[x]]
    BY <2>1 DEF IsListing
  <2>. QED
    BY <1>7, <2>1, <2>2, <2>3
<1>. QED
  BY <1>6, <1>9

(* Two listings of the same set by the same key are equal: the order of a *)
(* listing is fixed by the key alone.                                      *)
LEMMA ListingUnique ==
  ASSUME NEW S, NEW key, \A x \in S : key[x] \in Nat,
         NEW n \in Nat, NEW s, NEW t, IsListing(s, S, n, key), IsListing(t, S, n, key)
  PROVE  s = t
<1>2. ASSUME NEW i \in 1 .. n
      PROVE  s[i] = t[i]
  <2>1. s[i] \in S /\ t[i] \in S
    BY DEF IsListing
  <2>2. key[s[i]] = key[t[i]]
    <3>1. ~(key[s[i]] < key[t[i]]) /\ ~(key[t[i]] < key[s[i]])
      BY ListingNotBelow
    <3>. QED
      BY <2>1, <3>1
  <2>3. PICK m \in 1 .. n : s[m] = t[i]
    BY <2>1 DEF IsListing
  <2>4. m = i
    <3>0. key[s[m]] = key[s[i]] /\ key[s[i]] \in Nat
      BY <2>1, <2>2, <2>3
    <3>1. m < i => key[s[m]] < key[s[i]]
      BY DEF IsListing
    <3>2. i < m => key[s[i]] < key[s[m]]
      BY DEF IsListing
    <3>. QED
      BY <3>0, <3>1, <3>2
  <2>. QED
    BY <2>3, <2>4
<1>. QED
  BY <1>2 DEF IsListing

(***************************************************************************)
(* The reference order.  Sorted(S) is the one ascending list of S: every  *)
(* sequence s that holds each member of S once and is in ascending order,  *)
(* such as the community SetToSortSeq(S, <), is Sorted(S).  So the arrays  *)
(* of terms and titleterms are fixed by their sets of document numbers.    *)
(***************************************************************************)
THEOREM SortedIsCanonical ==
  ASSUME NEW S \in SUBSET Nat, IsFiniteSet(S),
         NEW s \in [1 .. Cardinality(S) -> S],
         \A x \in S : \E k \in 1 .. Cardinality(S) : s[k] = x,
         Ascending(s)
  PROVE  s = Sorted(S)
<1> DEFINE id == [x \in S |-> x]
           n == Cardinality(S)
<1>1. n \in Nat
  BY FS_CardinalityType
<1>2. IsListing(s, S, n, id)
  BY DEF IsListing, Ascending
<1>3. IsListing(Sorted(S), S, n, id)
  <2>1. Sorted(S) \in [1 .. n -> S]
    BY SortedLists
  <2>2. \A x \in S : \E k \in 1 .. n : Sorted(S)[k] = x
    <3> SUFFICES ASSUME NEW x \in S PROVE \E k \in 1 .. n : Sorted(S)[k] = x
      OBVIOUS
    <3>1. Rank(S, x) \in 0 .. n - 1 /\ Sorted(S)[Rank(S, x) + 1] = x
      BY RankBound, SortedLists
    <3>. QED
      BY <3>1, <1>1
  <2>3. Ascending(Sorted(S))
    BY SortedAscending
  <2>. QED
    BY <2>1, <2>2, <2>3 DEF IsListing, Ascending
<1>. QED
  BY <1>1, <1>2, <1>3, ListingUnique

(* Packing a (document number, position) pair, with positions in 1..m,    *)
(* into the number d * (m + 1) + j turns the order by document number and *)
(* then position into the order of numbers.                              *)
LEMMA LexPacked ==
  ASSUME NEW m \in Nat, NEW a \in Nat \X (1 .. m), NEW b \in Nat \X (1 .. m),
         LexLess(a, b)
  PROVE  a[1] * (m + 1) + a[2] < b[1] * (m + 1) + b[2]
<1>1. CASE a[1] < b[1]
  <2>1. (a[1] + 1) * (m + 1) <= b[1] * (m + 1)
    BY <1>1
  <2>. QED
    BY <2>1
<1>2. CASE a[1] = b[1] /\ a[2] < b[2]
  BY <1>2
<1>. QED
  BY <1>1, <1>2 DEF LexLess

(* The order of alltitles entries.  For positions in 1..m, SortedBy with  *)
(* the packed key lists a set P of (document number, position) pairs in   *)
(* the one order that sorts them by document number and then position,    *)
(* the order SetToSortSeq(P, LexLess) also has.                            *)
(* The packed key of a (document number, position) pair. *)
PairKey(P, m) == [o \in P |-> o[1] * (m + 1) + o[2]]

THEOREM SortedByIsLexicographic ==
  ASSUME NEW m \in Nat, NEW P \in SUBSET (Nat \X (1 .. m)), IsFiniteSet(P),
         NEW s \in [1 .. Cardinality(P) -> P],
         \A x \in P : \E k \in 1 .. Cardinality(P) : s[k] = x,
         \A i, j \in 1 .. Cardinality(P) : i < j => LexLess(s[i], s[j])
  PROVE  s = SortedBy(P, PairKey(P, m))
<1> DEFINE pk == PairKey(P, m)
           n == Cardinality(P)
<1>1. n \in Nat
  BY FS_CardinalityType
<1>2. \A x \in P : pk[x] \in Nat
  BY DEF PairKey
<1>3. \A x, y \in P : LexLess(x, y) => pk[x] < pk[y]
  BY LexPacked DEF PairKey
<1>4. \A x, y \in P : pk[x] = pk[y] => x = y
  <2> SUFFICES ASSUME NEW x \in P, NEW y \in P, x # y PROVE pk[x] # pk[y]
    OBVIOUS
  <2>1. LexLess(x, y) \/ LexLess(y, x)
    BY DEF LexLess
  <2>. QED
    BY <1>2, <1>3, <2>1
<1>5. IsListing(s, P, n, pk)
  BY <1>3 DEF IsListing
<1>6. IsListing(SortedBy(P, pk), P, n, pk)
  <2>1. /\ SortedBy(P, pk) \in [1 .. n -> P]
        /\ \A i, j \in 1 .. n : i < j => pk[SortedBy(P, pk)[i]] < pk[SortedBy(P, pk)[j]]
        /\ \A x \in P : \E i \in 1 .. n : SortedBy(P, pk)[i] = x
    BY <1>2, <1>4, SortedByLists DEF n
  <2>. QED
    BY <2>1 DEF IsListing
<1>. QED
  BY <1>1, <1>2, <1>5, <1>6, ListingUnique

=============================================================================
