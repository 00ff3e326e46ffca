------------------------------ MODULE Arrange -------------------------------
(***************************************************************************)
(* Sequences with elements left out, in another order, and put together:   *)
(* what Vec::retain, filter, sort_by and extend of the standard library    *)
(* make of them. The elements, and the order, are given as sets.           *)
(***************************************************************************)
EXTENDS Integers, Sequences, FiniteSets

\* The elements that are in S, in their order.
Filtered(s, S) ==
  LET upto[n \in 0 .. Len(s)] ==
        IF n = 0 THEN <<>>
        ELSE IF s[n] \in S THEN Append(upto[n - 1], s[n]) ELSE upto[n - 1]
  IN  upto[Len(s)]

\* One sequence behind the other.
Joined(ss) ==
  LET upto[n \in 0 .. Len(ss)] == IF n = 0 THEN <<>> ELSE upto[n - 1] \o ss[n]
  IN  upto[Len(ss)]

\* How many of I come before i; Before is a set of pairs.
Place(I, Before, i) == Cardinality({j \in I : <<j, i>> \in Before})

\* What s has at the indices I, those first that come before.
Arranged(s, I, Before) ==
  [n \in 1 .. Cardinality(I) |-> s[CHOOSE i \in I : Place(I, Before, i) = n - 1]]
=============================================================================
