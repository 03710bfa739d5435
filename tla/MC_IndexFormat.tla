--------------------------- MODULE MC_IndexFormat ---------------------------
(***************************************************************************)
(* Checks the encodings of IndexFormat against the reference sort of the  *)
(* community modules: S ranges over every set of document numbers below    *)
(* MaxNum, P over every set of (document number, heading position) pairs  *)
(* with positions below Slots; the behaviours add and remove one member at *)
(* a time.                                                                 *)
(***************************************************************************)
EXTENDS IndexFormat

SX == INSTANCE SequencesExt

MaxNum == 7
Slots == 3

Pairs == (0..2) \X (1..Slots - 1)

VARIABLES S, P

Init == S = {} /\ P = {}

Next ==
    \/ \E x \in 0..MaxNum - 1 : (S' = S \cup {x} \/ S' = S \ {x}) /\ UNCHANGED P
    \/ \E x \in Pairs : (P' = P \cup {x} \/ P' = P \ {x}) /\ UNCHANGED S

Spec == Init /\ [][Next]_<<S, P>>

(* Writing the document numbers S as a terms value and reading it back     *)
(* gives S: a single document is a bare number, several documents are the  *)
(* array of S in ascending order (as sorted by SetToSortSeq); and listing  *)
(* heading occurrences by the packed key n * Slots + j lists them by       *)
(* document number, then by position in the page, as the generator writes *)
(* alltitles.                                                              *)
EncodingCorrect ==
    /\ S # {} =>
        /\ Decode(PostingValue(S)) = S
        /\ IsNum(PostingValue(S)) <=> Cardinality(S) = 1
        /\ ~IsNum(PostingValue(S)) => PostingValue(S).arr = SX!SetToSortSeq(S, <)
    /\ SortedBy(P, [o \in P |-> o[1] * Slots + o[2]]) = SX!SetToSortSeq(P, LexLess)
=============================================================================
