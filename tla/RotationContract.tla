-------------------------- MODULE RotationContract --------------------------
(***************************************************************************)
(* What refresh-token rotation promises, with no threads, no clock and no  *)
(* database: a token is granted at login, exchanged for exactly one         *)
(* successor or revoked, and never honoured again afterwards.               *)
(***************************************************************************)

CONSTANTS
  User,     \* accounts
  Session,  \* refresh tokens, one for each row of user_sessions
  None      \* "no user" and "no successor"

VARIABLES
  owner,    \* owner[s]: the account s was granted to, None before that
  state,    \* state[s]: "absent", then "open", then "revoked"
  next      \* next[s]: the token s was exchanged for, None if it never was

contractVars == <<owner, state, next>>

Init ==
  /\ owner = [s \in Session |-> None]
  /\ state = [s \in Session |-> "absent"]
  /\ next  = [s \in Session |-> None]

(* A login hands u a token that was never used before.                      *)
Grant(u, s) ==
  /\ state[s] = "absent"
  /\ owner' = [owner EXCEPT ![s] = u]
  /\ state' = [state EXCEPT ![s] = "open"]
  /\ UNCHANGED next

(* The holder of an open token s trades it for t: s closes as t opens.      *)
Exchange(s, t) ==
  /\ state[s] = "open"
  /\ state[t] = "absent"
  /\ owner' = [owner EXCEPT ![t] = owner[s]]
  /\ state' = [state EXCEPT ![s] = "revoked", ![t] = "open"]
  /\ next'  = [next EXCEPT ![s] = t]

(* A logout closes the open tokens S, all of one account.                   *)
Revoke(S) ==
  /\ \A s \in S : state[s] = "open"
  /\ \A s, t \in S : owner[s] = owner[t]
  /\ state' = [s \in Session |-> IF s \in S THEN "revoked" ELSE state[s]]
  /\ UNCHANGED <<owner, next>>

Next ==
  \/ \E u \in User, s \in Session : Grant(u, s)
  \/ \E s, t \in Session : Exchange(s, t)
  \/ \E S \in SUBSET Session : Revoke(S)

Spec == Init /\ [][Next]_contractVars

=============================================================================
