----------------------------- MODULE MCSessions -----------------------------
(***************************************************************************)
(* Small instances of Sessions for TLC.  Accounts, rows and workers are    *)
(* told apart only by equality, so permuting them is a symmetry; every     *)
(* property checked with it is a safety property.                          *)
(***************************************************************************)
EXTENDS Sessions, TLC

(* All but the history "ended", which no step and no property of the run    *)
(* with overlapping requests reads (but for its type): states that differ   *)
(* in it only are one state there.                                          *)
WithoutEnded == <<clock, active, sessions, accessUntil, request, lineage>>

Symmetry ==
  Permutations(User) \cup Permutations(Session) \cup Permutations(Worker)

=============================================================================
