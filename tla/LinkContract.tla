---------------------------- MODULE LinkContract ----------------------------
(***************************************************************************)
(* What linking promises, with no rows, ids or requests: users and Discord *)
(* identities are linked one to one, and a link is never moved: its user   *)
(* gets another identity, or its identity another user, only after it is   *)
(* deleted.                                                                *)
(***************************************************************************)

CONSTANTS
  User,    \* accounts
  Discord  \* Discord identities

VARIABLE linked  \* the pairs of a user and its Discord identity

Init == linked = {}

Join(u, d) ==
  /\ \A pair \in linked : pair[1] # u /\ pair[2] # d
  /\ linked' = linked \cup {<<u, d>>}

Part(pair) == linked' = linked \ {pair}

Next ==
  \/ \E u \in User, d \in Discord : Join(u, d)
  \/ \E pair \in linked : Part(pair)

Spec == Init /\ [][Next]_linked

=============================================================================
