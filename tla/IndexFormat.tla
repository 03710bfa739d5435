---------------------------- MODULE IndexFormat ----------------------------
(***************************************************************************)
(* The encoding of src/searchindex.js: how the generator writes sorted     *)
(* lists of documents and the document numbers of terms, titleterms and    *)
(* alltitles, and how a reader of the index decodes them.  Pure operators, *)
(* no state.                                                               *)
(***************************************************************************)
EXTENDS Naturals, Sequences, FiniteSets

(***************************************************************************)
(* JSON values.  TLA+ cannot ask whether a value is a number or a          *)
(* sequence, so a JSON number n is the record [num |-> n] and a JSON array *)
(* s the record [arr |-> s].                                               *)
(***************************************************************************)
Num(n) == [num |-> n]
Arr(s) == [arr |-> s]

IsNum(v) == "num" \in DOMAIN v

(***************************************************************************)
(* Rank(S, x): how many members of S are smaller than x.  Sorted(S): the   *)
(* members of the finite set of numbers S in ascending order, its i-th     *)
(* item being the member with i - 1 smaller members.                       *)
(***************************************************************************)
Rank(S, x) == Cardinality({y \in S : y < x})

SortedDescending(S) ==   \* mutant: the comparator is reversed
    [i \in 1..Cardinality(S) |-> CHOOSE x \in S : Cardinality({y \in S : y > x}) = i - 1]

Sorted(S) == [i \in 1..Cardinality(S) |-> CHOOSE x \in S : Rank(S, x) = i - 1]

(***************************************************************************)
(* The number the index uses for document d: its 0-based position in       *)
(* docnames.                                                               *)
(***************************************************************************)
PosOneBased(names, d) == CHOOSE i \in DOMAIN names : names[i] = d  \* mutant
PosShiftedTwice(names, d) == (CHOOSE i \in DOMAIN names : names[i] = d) - 2  \* mutant

Pos(names, d) == (CHOOSE i \in DOMAIN names : names[i] = d) - 1

(***************************************************************************)
(* A terms or titleterms value for the document numbers P: a bare number   *)
(* when P has one member, else the ascending array of P.                   *)
(***************************************************************************)
PostingValue(P) ==
    IF Cardinality(P) = 1 THEN Num(CHOOSE p \in P : TRUE) ELSE Arr(Sorted(P))

(***************************************************************************)
(* The members of the finite set S listed by increasing key[x], for a key  *)
(* that is a one-to-one function from S to numbers.  The generator writes  *)
(* the entries of an alltitles value ordered by document number and,       *)
(* within a document, by the position of the heading; with the pair packed *)
(* into one number, that order is a SortedBy.                              *)
(***************************************************************************)
SortedBy(S, key) ==
    [i \in 1..Cardinality(S) |-> CHOOSE x \in S : key[x] = Sorted({key[y] : y \in S})[i]]

(* The order of alltitles entries: by document number, then by position of *)
(* the heading in the page.                                                *)
LexLess(a, b) == a[1] < b[1] \/ (a[1] = b[1] /\ a[2] < b[2])

(***************************************************************************)
(* The anchor of an alltitles entry: the identifier docutils gave the     *)
(* heading, either its slug or an automatic identifier "id<k>".  The two   *)
(* kinds are tagged, so a slug is never taken for an automatic one.        *)
(***************************************************************************)
Anchors == [slug : STRING] \cup [auto : Nat \ {0}]

(***************************************************************************)
(* The JSON values of a terms or titleterms map.                           *)
(***************************************************************************)
JsonPosting == [num : Nat] \cup [arr : Seq(Nat)]

(* The JSON values of alltitles. *)
JsonEntries == [arr : Seq(Nat \X Anchors)]

(***************************************************************************)
(* What the search widget reads out of a value of terms or titleterms: the *)
(* document numbers it names, a bare number or an array.                   *)
(***************************************************************************)
Decode(v) == IF IsNum(v) THEN {v.num} ELSE {v.arr[i] : i \in DOMAIN v.arr}

(* A sequence in strictly ascending order. *)
Ascending(s) == \A i, j \in DOMAIN s : i < j => s[i] < s[j]

=============================================================================
