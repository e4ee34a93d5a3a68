------------------------------- MODULE Ordered -------------------------------
(***************************************************************************)
(* Sorting and filtering, as sort and filter of an array do it. A strict   *)
(* order is given as a set of pairs.                                       *)
(***************************************************************************)
EXTENDS Integers, FiniteSets

\* The elements of a finite set in order: each stands behind those that come
\* before it.
SortedBy(S, order) ==
  [k \in 1 .. Cardinality(S) |->
     CHOOSE x \in S : Cardinality({y \in S : <<y, x>> \in order}) = k - 1]

\* Numbers from the lowest to the highest.
Ascending(S) == SortedBy(S, {p \in S \X S : p[1] < p[2]})

\* The entries of a sequence at the given places, one after the other.
PickedAt(s, places) ==
  LET picked == Ascending(places) IN [k \in 1 .. Cardinality(places) |-> s[picked[k]]]
=============================================================================
