----------------------------- MODULE Selections -----------------------------
(***************************************************************************)
(* The elements of a sequence that are in a given set, in their order.     *)
(* This is SelectSeq of module Sequences with a set for the test, defined  *)
(* by a recursive function so that it can be reasoned about.               *)
(***************************************************************************)
EXTENDS Naturals, Sequences

Select(s, S) ==
  LET first[n \in 0 .. Len(s)] ==
        IF n = 0 THEN <<>>
        ELSE IF s[n] \in S THEN Append(first[n - 1], s[n])
        ELSE first[n - 1]
  IN  first[Len(s)]
=============================================================================
