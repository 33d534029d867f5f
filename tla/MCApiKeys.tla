----------------------------- MODULE MCApiKeys ------------------------------
(***************************************************************************)
(* A small instance of ApiKeys for TLC, with an offset on either side of   *)
(* UTC.  Keys and workers are told apart only by equality.                 *)
(***************************************************************************)
EXTENDS ApiKeys, TLC

MCOffset == {-1, 0, 1}

Symmetry == Permutations(Key) \cup Permutations(Worker)

=============================================================================
