------------------------------- MODULE Sorting -------------------------------
(***************************************************************************)
(* Python's sorted() and its comprehensions over a list, as functions of   *)
(* the ranks of the elements: an element stands where as many others are   *)
(* ahead of it as places come before.  Nothing here is recursive, so that  *)
(* the modules that use it can be reasoned about.                          *)
(***************************************************************************)
EXTENDS Naturals, FiniteSets, Sequences

\* An order is the set of its pairs: <<s, r>> where s is ahead of r.
Ahead(R, S, r) == {s \in S : <<s, r>> \in R}
Rank(R, S, r) == Cardinality(Ahead(R, S, r))

\* The elements of a finite set, in an order that is total on it.
Sorted(R, S) ==
    [k \in 1..Cardinality(S) |-> CHOOSE r \in S : Rank(R, S, r) = k - 1]

\* Numbers, the smallest first.
Smaller(S) == {p \in S \X S : p[1] < p[2]}
InOrder(S) == Sorted(Smaller(S), S)

\* The rows at some places of a list, and the rows that are in a set.
RowsAt(rows, places) ==
    [k \in 1..Cardinality(places) |-> rows[InOrder(places)[k]]]
Only(rows, S) == RowsAt(rows, {i \in DOMAIN rows : rows[i] \in S})
=============================================================================
