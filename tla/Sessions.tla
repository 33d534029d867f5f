------------------------------ MODULE Sessions ------------------------------
(***************************************************************************)
(* Login, refresh-token rotation, logout and logout-all, as the requests   *)
(* of a thread pool run them against the user_sessions table.              *)
(*                                                                         *)
(* A request is a sequence of statements of its own database session.  A   *)
(* SELECT is one step and sees what is committed; a flush and its commit   *)
(* are one step too, since the rows it updates stay locked in between.     *)
(* The ORM updates the columns it changed WHERE id = ..., with no version  *)
(* check, so what was read may be stale by the time it is written.         *)
(*                                                                         *)
(* A row and the refresh token whose hash it holds are one and the same    *)
(* Session: secrets.token_urlsafe(48) is assumed never to repeat.          *)
(***************************************************************************)
EXTENDS Naturals, FiniteSets

CONSTANTS
  User,         \* accounts, registered before the behaviour begins
  Session,      \* rows of user_sessions, bounding how many are ever made
  Worker,       \* requests in progress at the same time
  AccessLife,   \* access_token_expire_minutes
  RefreshLife,  \* refresh_token_expire_days, in the same unit
  MaxTime,      \* where the clock stops: a bound on the model only
  None          \* "no value"

ASSUME SessionsAssumption ==
  /\ AccessLife \in Nat \ {0}
  /\ RefreshLife \in Nat \ {0}
  /\ MaxTime \in Nat
  /\ None \notin User \cup Session \cup Worker

VARIABLES
  clock,        \* datetime.now(UTC)
  active,       \* users.is_active
  sessions,     \* the table user_sessions
  accessUntil,  \* "exp" of the latest access token each user was handed
  request,      \* what each worker is doing
  lineage,      \* history: how each row came to be
  ended         \* history: logins that a logout, or logout-all, took effect on

vars == <<clock, active, sessions, accessUntil, request, lineage, ended>>

-----------------------------------------------------------------------------
(* Rows.  "open" is a row whose revoked_at is NULL, "used" one whose        *)
(* last_used_at is set.                                                     *)

Row == [state : {"absent", "open", "revoked"},
        user : User \cup {None},
        expires : Nat,
        used : BOOLEAN,
        replacedBy : Session \cup {None}]

NoRow == [state |-> "absent", user |-> None, expires |-> 0,
          used |-> FALSE, replacedBy |-> None]

NewRowOfNobody(u, at) ==  \* mutant
  [NoRow EXCEPT !.state = "open", !.expires = at + RefreshLife]

NewRow(u, at) == [state |-> "open", user |-> u, expires |-> at + RefreshLife,
                  used |-> FALSE, replacedBy |-> None]

Revoked(row) == [row EXCEPT !.state = "revoked"]

RotatedStaysOpen(row, t) ==  \* mutant
  [row EXCEPT !.used = TRUE, !.replacedBy = t]

RotatedAsRead(row, t) ==  \* mutant: writes back revoked_at as it was read
  [row EXCEPT !.state = "open", !.used = TRUE, !.replacedBy = t]

RotatedBeforeFlush(row, t) ==  \* mutant: the successor has no id yet
  [Revoked(row) EXCEPT !.used = TRUE]

(* rotate_refresh_token assigns three columns of the row it read.           *)
Rotated(row, t) == [Revoked(row) EXCEPT !.used = TRUE, !.replacedBy = t]

UnrevokedOrUsed(row) == row.state # "absent"  \* mutant

Unrevoked(row) == row.state = "open"

NotExpiredInclusive(row) == clock <= row.expires  \* mutant

NotExpired(row) == clock < row.expires

(* The decoder accepts an access token up to and including its "exp".       *)
HasAccess(u) == accessUntil[u] > 0 /\ clock <= accessUntil[u]

(* History.  A login roots a family of rows; each rotation adds a child.    *)
Birth == [parent : Session \cup {None},
          worker : Worker \cup {None},
          root : Session \cup {None}]

Unborn == [parent |-> None, worker |-> None, root |-> None]

Ending == {"logout", "logoutAll"}

End(how, rows) ==
  ended' = [ended EXCEPT ![how] = @ \cup {lineage[s].root : s \in rows}]

Children(s) == {t \in Session : lineage[t].parent = s}

-----------------------------------------------------------------------------
(* Requests.                                                                *)

Phase == {"idle", "login", "create", "refresh", "rotate", "answer",
          "logout", "revoke", "logoutAll", "sweep"}

Request == [pc : Phase,
            user : User \cup {None},      \* whom it acts for
            token : Session \cup {None},  \* the row it looked up
            rows : SUBSET Session,        \* the rows it is about to revoke
            at : Nat]                     \* when it last looked at the clock

Starting(pc, u, s) ==
  [pc |-> pc, user |-> u, token |-> s, rows |-> {}, at |-> 0]

Idle == Starting("idle", None, None)

Become(w, r) == request' = [request EXCEPT ![w] = r]

At(w, pc) == request[w].pc = pc

Init ==
  /\ clock = 0
  /\ active = [u \in User |-> TRUE]
  /\ sessions = [s \in Session |-> NoRow]
  /\ accessUntil = [u \in User |-> 0]
  /\ request = [w \in Worker |-> Idle]
  /\ lineage = [s \in Session |-> Unborn]
  /\ ended = [how \in Ending |-> {}]

(* authenticate_user found the user and the password is right.  Its         *)
(* db.refresh re-reads is_active, and login will go by what it read.        *)
Authenticate(w, u) ==
  /\ At(w, "idle")
  /\ active[u]
  /\ Become(w, Starting("login", u, None))
  /\ UNCHANGED <<clock, active, sessions, accessUntil, lineage, ended>>

(* One more SELECT, which leaves the is_active it holds alone; then         *)
(* create_session dates the row it is about to insert.                      *)
CheckLogin(w) ==
  /\ At(w, "login")
  /\ Become(w, [request[w] EXCEPT !.pc = "create", !.at = clock])
  /\ UNCHANGED <<clock, active, sessions, accessUntil, lineage, ended>>

(* The INSERT commits.                                                      *)
CreateSession(w) ==
  LET r == request[w] IN
  /\ At(w, "create")
  /\ \E s \in Session :
       /\ sessions[s].state = "absent"
       /\ sessions' = [sessions EXCEPT ![s] = NewRow(r.user, r.at)]
       /\ lineage' = [lineage EXCEPT
                        ![s] = [parent |-> None, worker |-> w, root |-> s]]
  /\ Become(w, Starting("answer", r.user, None))
  /\ UNCHANGED <<clock, active, accessUntil, ended>>

(* create_access_token reads the clock once more, after the commit of the   *)
(* login or of the rotation.                                                *)
CreateAccessToken(w) ==
  /\ At(w, "answer")
  /\ accessUntil' = [accessUntil EXCEPT ![request[w].user] = clock + AccessLife]
  /\ Become(w, Idle)
  /\ UNCHANGED <<clock, active, sessions, lineage, ended>>

SelectAnySession(w, s, op) ==  \* mutant: revoked_at is not tested
  /\ At(w, "idle")
  /\ UnrevokedOrUsed(sessions[s])
  /\ Become(w, Starting(op, None, s))
  /\ UNCHANGED <<clock, active, sessions, accessUntil, lineage, ended>>

(* The first SELECT of get_active_session_by_refresh_token, for a refresh   *)
(* or for a logout.  A row already revoked ends the request on the spot.    *)
SelectSession(w, s, op) ==
  /\ At(w, "idle")
  /\ Unrevoked(sessions[s])
  /\ Become(w, Starting(op, None, s))
  /\ UNCHANGED <<clock, active, sessions, accessUntil, lineage, ended>>

CheckSessionOfAnyone(w, op, next) ==  \* mutant: is_active is not tested
  /\ At(w, op)
  /\ IF NotExpired(sessions[request[w].token])
       THEN Become(w, [request[w] EXCEPT !.pc = next, !.at = clock])
       ELSE Become(w, Idle)
  /\ UNCHANGED <<clock, active, sessions, accessUntil, lineage, ended>>

(* Its second SELECT loads the user; then the expiry, by a first reading of *)
(* the clock, and is_active are tested.                                     *)
CheckSession(w, op, next) ==
  LET row == sessions[request[w].token] IN
  /\ At(w, op)
  /\ IF NotExpired(row) /\ active[row.user]
       THEN Become(w, [request[w] EXCEPT !.pc = next, !.at = clock])
       ELSE Become(w, Idle)
  /\ UNCHANGED <<clock, active, sessions, accessUntil, lineage, ended>>

(* The UPDATEs and the INSERT commit together.  The row the request holds   *)
(* may have been revoked, or even replaced, since it was read.  The         *)
(* successor is dated by a second reading of the clock, at some time        *)
(* between the check and the commit: by then the token may have expired.    *)
RotateRefreshToken(w) ==
  LET r == request[w]
      s == r.token
      u == sessions[s].user
  IN
  /\ At(w, "rotate")
  /\ \E t \in Session, now \in r.at .. clock :
       /\ sessions[t].state = "absent"
       /\ sessions' = [sessions EXCEPT ![s] = Rotated(@, t),
                                       ![t] = NewRow(u, now)]
       /\ lineage' = [lineage EXCEPT
                        ![t] = [parent |-> s, worker |-> w,
                                root |-> lineage[s].root]]
  /\ Become(w, Starting("answer", u, None))
  /\ UNCHANGED <<clock, active, accessUntil, ended>>

RevokeWithoutCommit(w) ==  \* mutant
  /\ At(w, "revoke")
  /\ End("logout", {request[w].token})
  /\ Become(w, Idle)
  /\ UNCHANGED <<clock, active, sessions, accessUntil, lineage>>

RevokeRefreshToken(w) ==
  LET s == request[w].token IN
  /\ At(w, "revoke")
  /\ sessions' = [sessions EXCEPT ![s] = Revoked(@)]
  /\ End("logout", {s})
  /\ Become(w, Idle)
  /\ UNCHANGED <<clock, active, accessUntil, lineage>>

(* get_current_user of logout-all.                                          *)
AuthorizeLogoutAll(w, u) ==
  /\ At(w, "idle")
  /\ HasAccess(u)
  /\ active[u]
  /\ Become(w, Starting("logoutAll", u, None))
  /\ UNCHANGED <<clock, active, sessions, accessUntil, lineage, ended>>

SelectEveryonesSessions(w) ==  \* mutant: not filtered by user_id
  LET open == {s \in Session : Unrevoked(sessions[s])} IN
  /\ At(w, "logoutAll")
  /\ Become(w, [request[w] EXCEPT !.pc = "sweep", !.rows = open])
  /\ UNCHANGED <<clock, active, sessions, accessUntil, lineage, ended>>

SelectOpenSessions(w) ==
  LET open == {s \in Session : /\ sessions[s].user = request[w].user
                               /\ Unrevoked(sessions[s])}
  IN
  /\ At(w, "logoutAll")
  /\ Become(w, [request[w] EXCEPT !.pc = "sweep", !.rows = open])
  /\ UNCHANGED <<clock, active, sessions, accessUntil, lineage, ended>>

RevokeAllSessions(w) ==
  LET rows == request[w].rows IN
  /\ At(w, "sweep")
  /\ sessions' = [s \in Session |-> IF s \in rows THEN Revoked(sessions[s])
                                                  ELSE sessions[s]]
  /\ End("logoutAll", rows)
  /\ Become(w, Idle)
  /\ UNCHANGED <<clock, active, accessUntil, lineage>>

(* A statement fails, the process dies or the client's answer is lost       *)
(* before the commit: get_db closes the session, which rolls back.          *)
Abort(w) ==
  /\ ~ At(w, "idle")
  /\ Become(w, Idle)
  /\ UNCHANGED <<clock, active, sessions, accessUntil, lineage, ended>>

(* PATCH /admin/users/{id} with a new is_active.                            *)
UpdateUser(u) ==
  /\ active' = [active EXCEPT ![u] = ~ @]
  /\ UNCHANGED <<clock, sessions, accessUntil, request, lineage, ended>>

Tick ==
  /\ clock < MaxTime
  /\ clock' = clock + 1
  /\ UNCHANGED <<active, sessions, accessUntil, request, lineage, ended>>

Login(w) ==
  \/ \E u \in User : Authenticate(w, u)
  \/ CheckLogin(w)
  \/ CreateSession(w)
  \/ CreateAccessToken(w)

Refresh(w) ==
  \/ \E s \in Session : SelectSession(w, s, "refresh")
  \/ CheckSession(w, "refresh", "rotate")
  \/ RotateRefreshToken(w)

Logout(w) ==
  \/ \E s \in Session : SelectSession(w, s, "logout")
  \/ CheckSession(w, "logout", "revoke")
  \/ RevokeRefreshToken(w)

LogoutAll(w) ==
  \/ \E u \in User : AuthorizeLogoutAll(w, u)
  \/ SelectOpenSessions(w)
  \/ RevokeAllSessions(w)

Next ==
  \/ \E w \in Worker : Login(w) \/ Refresh(w) \/ Logout(w) \/ LogoutAll(w) \/ Abort(w)
  \/ \E u \in User : UpdateUser(u)
  \/ Tick

Spec == Init /\ [][Next]_vars

-----------------------------------------------------------------------------
(* Properties that hold however many requests run at once.                  *)

(* Every variable holds what its column or local can hold.                  *)
TypeOK ==
  /\ clock \in 0 .. MaxTime
  /\ active \in [User -> BOOLEAN]
  /\ sessions \in [Session -> Row]
  /\ \A s \in Session : sessions[s].state # "absent" => sessions[s].user \in User
  /\ accessUntil \in [User -> Nat]
  /\ request \in [Worker -> Request]
  /\ lineage \in [Session -> Birth]
  /\ ended \in [Ending -> SUBSET Session]

(* rotate_refresh_token tests revoked_at long before it commits, so one     *)
(* token can be exchanged several times, but only by requests that          *)
(* overlapped: no worker ever exchanges the same token twice.               *)
ForkBounded ==
  \A t1, t2 \in Session :
    /\ lineage[t1].parent # None
    /\ lineage[t1].parent = lineage[t2].parent
    /\ lineage[t1].worker = lineage[t2].worker
    => t1 = t2

(* replaced_by_session_id survives racing logouts and racing rotations: it  *)
(* is set exactly on the rows that have successors, which are closed and    *)
(* marked used, and names a successor of the same account that expires no   *)
(* earlier.                                                                 *)
SuccessorLink ==
  \A s \in Session :
    LET next == sessions[s].replacedBy IN
    /\ (Children(s) # {}) <=> (next # None)
    /\ sessions[s].used <=> (next # None)
    /\ next # None =>
         /\ next \in Children(s)
         /\ sessions[s].state = "revoked"
         /\ sessions[next].user = sessions[s].user
         /\ sessions[s].expires <= sessions[next].expires

(* A token that has expired, and that no request found unexpired before.    *)
Lapsed(s) ==
  /\ sessions[s].state # "absent" /\ sessions[s].expires <= clock
  /\ \A w \in Worker :
       request[w].pc \in {"rotate", "revoke"} => request[w].token # s

(* expires_at is exclusive and final.  What it leaves open is the requests  *)
(* that tested it just before: once they have ended, the token is never     *)
(* exchanged, and no request but a logout-all writes its row, which it can  *)
(* only revoke.                                                             *)
ExpiryHolds ==
  [][\A s \in Session : Lapsed(s) =>
       /\ Lapsed(s)'
       /\ Children(s)' = Children(s)
       /\ sessions'[s] \in {sessions[s], Revoked(sessions[s])}]_vars

(* A row once revoked is never reopened, and never changes account or       *)
(* expiry, although requests that read it while it was open write to it.    *)
RevocationIsFinal ==
  [][\A s \in Session :
       sessions[s].state = "revoked" =>
         /\ sessions'[s].state = "revoked"
         /\ sessions'[s].user = sessions[s].user
         /\ sessions'[s].expires = sessions[s].expires]_vars

(* A request that has seen the account active and may yet write for it.     *)
Admitted(w, u) ==
  \/ /\ request[w].pc \in {"login", "create", "answer", "logoutAll", "sweep"}
     /\ request[w].user = u
  \/ /\ request[w].pc \in {"rotate", "revoke"}
     /\ sessions[request[w].token].user = u

LockedOut(u) == ~ active[u] /\ \A w \in Worker : ~ Admitted(w, u)

OwnedBy(u) == {s \in Session : sessions[s].state # "absent" /\ sessions[s].user = u}

(* Deactivating an account shuts it out as soon as the requests admitted    *)
(* before have ended: until it is active again, none of its tokens, access  *)
(* or refresh, adds, exchanges or revokes a session, not even by a logout,  *)
(* and nobody is handed a later access token for it.                        *)
DeactivationHolds ==
  [][\A u \in User : LockedOut(u) /\ ~ active'[u] =>
       /\ LockedOut(u)'
       /\ \A s \in OwnedBy(u) \cup OwnedBy(u)' : sessions'[s] = sessions[s]
       /\ accessUntil'[u] = accessUntil[u]]_vars

(* A request that found a token of login f open, and may yet exchange it.   *)
Exchanging(w, f) ==
  /\ request[w].pc \in {"refresh", "rotate"}
  /\ lineage[request[w].token].root = f

Finished(f) ==
  /\ sessions[f].state # "absent"
  /\ \A s \in Session : lineage[s].root = f => ~ Unrevoked(sessions[s])
  /\ \A w \in Worker : ~ Exchanging(w, f)

(* What is left of a logout's or a logout-all's finality when refreshes     *)
(* overlap it: as soon as no token of a login is open and the refreshes     *)
(* that had found one open have ended, no token that descends from that     *)
(* login is ever open again, whoever still presents one of them.            *)
LogoutHolds == [][\A f \in Session : Finished(f) => Finished(f)']_vars

(* Whatever rows a request read earlier, one commit closes sessions of one  *)
(* account only: a logout-all never reaches another user's rows.            *)
OneAccountPerCommit ==
  [][\A s, t \in Session :
       /\ Unrevoked(sessions[s]) /\ ~ Unrevoked(sessions'[s])
       /\ Unrevoked(sessions[t]) /\ ~ Unrevoked(sessions'[t])
       => sessions[s].user = sessions[t].user]_vars

Overlap == INSTANCE OverlapContract WITH
  owner  <- [s \in Session |-> sessions[s].user],
  state  <- [s \in Session |-> sessions[s].state],
  next   <- [s \in Session |-> sessions[s].replacedBy],
  family <- [s \in Session |-> lineage[s].root],
  claim  <- [w \in Worker |-> IF request[w].pc \in {"refresh", "rotate"}
                                THEN request[w].token ELSE None]

(* However requests overlap, the table goes through changes that the        *)
(* contract of overlapping requests allows: each refresh exchanges the      *)
(* token it found open at most once, and a commit closes tokens of one      *)
(* account only.                                                            *)
OverlapContractHolds == Overlap!Spec

-----------------------------------------------------------------------------
(* Properties that the code has only while requests do not overlap.         *)

(* A refresh token is exchanged at most once.                               *)
SingleUse ==
  \A t1, t2 \in Session :
    lineage[t1].parent # None /\ lineage[t1].parent = lineage[t2].parent
    => t1 = t2

(* Once a logout-all took effect on a login, none of the tokens that        *)
(* descend from that login is open.                                         *)
LogoutAllIsFinal ==
  \A s \in Session :
    Unrevoked(sessions[s]) => lineage[s].root \notin ended["logoutAll"]

(* The same after a logout or a logout-all.                                 *)
LogoutIsFinal ==
  \A s \in Session : \A how \in Ending :
    Unrevoked(sessions[s]) => lineage[s].root \notin ended[how]

Contract == INSTANCE RotationContract WITH
  owner <- [s \in Session |-> sessions[s].user],
  state <- [s \in Session |-> sessions[s].state],
  next  <- [s \in Session |-> sessions[s].replacedBy]

(* The table goes through exactly the changes the contract allows: grants,  *)
(* one-for-one exchanges and revocations of open tokens.                    *)
RotationContractHolds == Contract!Spec

=============================================================================
