------------------------------ MODULE Selection ------------------------------
(***************************************************************************)
(* The elements of an array or a list that a loop keeps, moved together in  *)
(* the order they have: what std::remove_if, or a loop with an index to     *)
(* read and one to write, leaves.  Given by the set of indices that are     *)
(* kept, so that it can be reasoned about without recursion.                *)
(***************************************************************************)
EXTENDS Integers, Sequences, FiniteSets

(* How many of the indices in S are not above i. *)
Rank(S, i) == Cardinality({j \in S : j <= i})

(* The k-th of the indices in S. *)
Nth(S, k) == CHOOSE i \in S : Rank(S, i) = k

Selected(t, S) == [k \in 1 .. Cardinality(S) |-> t[Nth(S, k)]]
=============================================================================
