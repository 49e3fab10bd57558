------------------------------- MODULE MCQueue -------------------------------
(***************************************************************************)
(* A small instance of ReviewQueue: the decisions are interchangeable.     *)
(***************************************************************************)
EXTENDS ReviewQueue, TLC

Symmetry == Permutations(Ballots)

=============================================================================
