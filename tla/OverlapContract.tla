-------------------------- MODULE OverlapContract ---------------------------
(***************************************************************************)
(* What refresh-token rotation promises while requests overlap: no clock,  *)
(* no database, but requests that look at a token and use it later.  A     *)
(* request claims a token it finds open, and exchanges it without looking  *)
(* again; so a token is exchanged once for each claim, by a successor of   *)
(* the same account and the same login, and a claim is used up.            *)
(***************************************************************************)

CONSTANTS
  User,     \* accounts
  Session,  \* refresh tokens, one for each row of user_sessions
  Worker,   \* requests in progress at the same time
  None      \* "no user", "no token"

VARIABLES
  owner,    \* owner[s]: the account s was granted to, None before that
  state,    \* state[s]: "absent", then "open", then "revoked"
  next,     \* next[s]: the last token s was exchanged for, None if it never was
  family,   \* family[s]: the token of the login that s descends from
  claim     \* claim[w]: the token request w may exchange, None if it may not

overlapVars == <<owner, state, next, family, claim>>

Init ==
  /\ owner = [s \in Session |-> None]
  /\ state = [s \in Session |-> "absent"]
  /\ next = [s \in Session |-> None]
  /\ family = [s \in Session |-> None]
  /\ claim = [w \in Worker |-> None]

(* A login hands u a token that was never used before.                      *)
Grant(w, u, s) ==
  /\ claim[w] = None
  /\ state[s] = "absent"
  /\ owner' = [owner EXCEPT ![s] = u]
  /\ state' = [state EXCEPT ![s] = "open"]
  /\ family' = [family EXCEPT ![s] = s]
  /\ UNCHANGED <<next, claim>>

Claim(w, s) ==
  /\ claim[w] = None
  /\ state[s] = "open"
  /\ claim' = [claim EXCEPT ![w] = s]
  /\ UNCHANGED <<owner, state, next, family>>

(* The request ends without using its claim.                                *)
Drop(w) ==
  /\ claim' = [claim EXCEPT ![w] = None]
  /\ UNCHANGED <<owner, state, next, family>>

(* What was claimed is closed as t opens, whatever became of it meanwhile.  *)
Exchange(w, t) ==
  LET s == claim[w] IN
  /\ s # None
  /\ state[t] = "absent"
  /\ owner' = [owner EXCEPT ![t] = owner[s]]
  /\ state' = [state EXCEPT ![s] = "revoked", ![t] = "open"]
  /\ next' = [next EXCEPT ![s] = t]
  /\ family' = [family EXCEPT ![t] = family[s]]
  /\ claim' = [claim EXCEPT ![w] = None]

(* A logout closes tokens of one account, some perhaps closed already.      *)
Revoke(w, S) ==
  /\ claim[w] = None
  /\ \A s \in S : state[s] # "absent"
  /\ \A s, t \in S : owner[s] = owner[t]
  /\ state' = [s \in Session |-> IF s \in S THEN "revoked" ELSE state[s]]
  /\ UNCHANGED <<owner, next, family, claim>>

Next ==
  \E w \in Worker :
    \/ \E u \in User, s \in Session : Grant(w, u, s)
    \/ \E s \in Session : Claim(w, s) \/ Exchange(w, s)
    \/ Drop(w)
    \/ \E S \in SUBSET Session : Revoke(w, S)

Spec == Init /\ [][Next]_overlapVars

-----------------------------------------------------------------------------
(* What follows from the contract.                                          *)

(* Every token is in a state its history can have led to.                   *)
ContractTypeOK ==
  /\ owner \in [Session -> User \cup {None}]
  /\ state \in [Session -> {"absent", "open", "revoked"}]
  /\ next \in [Session -> Session \cup {None}]
  /\ family \in [Session -> Session \cup {None}]
  /\ claim \in [Worker -> Session \cup {None}]

(* A token that was exchanged is closed, and the successor it names was     *)
(* granted to the same account and descends from the same login.            *)
SuccessorsFollow ==
  \A s \in Session : next[s] # None =>
    /\ state[s] = "revoked"
    /\ state[next[s]] # "absent"
    /\ owner[next[s]] = owner[s]
    /\ family[next[s]] = family[s]

(* All tokens of a login are closed, and no request has a claim on one.     *)
Over(f) ==
  /\ state[f] # "absent"
  /\ \A s \in Session : family[s] = f => state[s] # "open"
  /\ \A w \in Worker : claim[w] # None => family[claim[w]] # f

(* A login that is over is over for good.                                   *)
StaysOver == [][\A f \in Session : Over(f) => Over(f)']_overlapVars

(* With one request at a time, a token is exchanged once and while open.    *)
Alone == INSTANCE RotationContract

=============================================================================
