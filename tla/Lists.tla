------------------------------- MODULE Lists --------------------------------
(***************************************************************************)
(* Loops over lists of one form: the code adds up the bytes of packets,    *)
(* the frames of chunks and the durations of ranges; it copies the         *)
(* elements of one kind from a list to another; and it sorts times.        *)
(***************************************************************************)
EXTENDS Integers, SequencesExt

(* total = 0; for each element x of f: total += x                          *)
SumSeq(f) == FoldLeft(LAMBDA a, b : a + b, 0, f)

(* The elements of s at the positions in P: for each position i of s:      *)
(* if (i in P) kept.push_back(s[i])                                        *)
Selected(s, P) ==
  LET kept[n \in 0..Len(s)] ==
        IF n = 0 THEN << >>
        ELSE IF n \in P THEN Append(kept[n - 1], s[n]) ELSE kept[n - 1]
  IN  kept[Len(s)]

(* The elements that pass a test.  It is SelectSeq in a form the proofs    *)
(* can expand.                                                             *)
Keep(s, Test(_)) == Selected(s, {i \in DOMAIN s : Test(s[i])})

(* The numbers of a finite set in ascending order.                         *)
Ascending(S) ==
  [k \in 1..Cardinality(S) |-> CHOOSE x \in S : Cardinality({y \in S : y < x}) = k - 1]
=============================================================================
