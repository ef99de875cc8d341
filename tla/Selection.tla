----------------------------- MODULE Selection ------------------------------
(***************************************************************************)
(* What a filter leaves of a list: the entries at some of its places, in   *)
(* their order.                                                            *)
(***************************************************************************)
EXTENDS Naturals, Sequences, FiniteSets

Below(S, i) == {j \in S : j < i}

(* The k-th of a set of places. *)
Nth(S, k) == CHOOSE i \in S : Cardinality(Below(S, i)) = k - 1

Selected(seq, S) == [k \in 1..Cardinality(S) |-> seq[Nth(S, k)]]

=============================================================================
