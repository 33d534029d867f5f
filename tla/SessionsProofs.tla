--------------------------- MODULE SessionsProofs ---------------------------
(***************************************************************************)
(* Proofs about Sessions for any number of accounts, rows and workers, any *)
(* lifetimes and any clock bound.  Each invariant below is inductive       *)
(* together with those before it.                                          *)
(***************************************************************************)
EXTENDS Sessions, TLAPS

-----------------------------------------------------------------------------
(* What the row constructors return.                                        *)

(* A new row is open, of its user, and expires a lifetime after its date.   *)
LEMMA NewRowFields ==
  ASSUME NEW u \in User, NEW at \in Nat
  PROVE  /\ NewRow(u, at) \in Row
         /\ NewRow(u, at).state = "open"
         /\ NewRow(u, at).user = u
         /\ NewRow(u, at).expires = at + RefreshLife
         /\ NewRow(u, at).used = FALSE
         /\ NewRow(u, at).replacedBy = None
BY SessionsAssumption DEF NewRow, Row

(* Revoking a row changes its state only.                                   *)
LEMMA RevokedFields ==
  ASSUME NEW row \in Row
  PROVE  /\ Revoked(row) \in Row
         /\ Revoked(row).state = "revoked"
         /\ Revoked(row).user = row.user
         /\ Revoked(row).expires = row.expires
         /\ Revoked(row).used = row.used
         /\ Revoked(row).replacedBy = row.replacedBy
BY DEF Revoked, Row

(* Rotating a row revokes it and links it to its successor.                 *)
LEMMA RotatedFields ==
  ASSUME NEW row \in Row, NEW t \in Session
  PROVE  /\ Rotated(row, t) \in Row
         /\ Rotated(row, t).state = "revoked"
         /\ Rotated(row, t).user = row.user
         /\ Rotated(row, t).expires = row.expires
         /\ Rotated(row, t).used = TRUE
         /\ Rotated(row, t).replacedBy = t
BY DEF Rotated, Revoked, Row

(* What is not there is not used and has no successor.                      *)
LEMMA NoRowFields ==
  /\ NoRow \in Row
  /\ NoRow.state = "absent"
  /\ NoRow.used = FALSE
  /\ NoRow.replacedBy = None
BY DEF NoRow, Row

-----------------------------------------------------------------------------
(* The kinds of step there are, by the part of the state they change.       *)

(* A worker moves on without writing to the database.                       *)
ReadStep(w) ==
  \/ \E u \in User : Authenticate(w, u) \/ AuthorizeLogoutAll(w, u)
  \/ CheckLogin(w)
  \/ \E s \in Session : SelectSession(w, s, "refresh") \/ SelectSession(w, s, "logout")
  \/ CheckSession(w, "refresh", "rotate")
  \/ CheckSession(w, "logout", "revoke")
  \/ SelectOpenSessions(w)
  \/ CreateAccessToken(w)
  \/ Abort(w)

(* Every step is of one of these kinds.                                     *)
LEMMA StepKinds ==
  ASSUME [Next]_vars
  PROVE  \/ \E w \in Worker : \/ ReadStep(w)
                              \/ CreateSession(w)
                              \/ RotateRefreshToken(w)
                              \/ RevokeRefreshToken(w)
                              \/ RevokeAllSessions(w)
         \/ \E u \in User : UpdateUser(u)
         \/ Tick
         \/ UNCHANGED vars
BY DEF Next, Login, Refresh, Logout, LogoutAll, ReadStep

(* A worker that only reads changes no table and no history.                *)
LEMMA ReadStepUnchanged ==
  ASSUME NEW w \in Worker, ReadStep(w)
  PROVE  UNCHANGED <<clock, active, sessions, lineage, ended>>
BY DEF ReadStep, Authenticate, AuthorizeLogoutAll, CheckLogin, SelectSession,
       CheckSession, SelectOpenSessions, CreateAccessToken, Abort

-----------------------------------------------------------------------------
(* Types.  What a request holds onto exists in the table: rows are never    *)
(* deleted and never change account.                                        *)

Holds(r) ==
  /\ r.pc \in {"login", "create", "answer", "logoutAll", "sweep"} => r.user \in User
  /\ r.pc \in {"refresh", "rotate", "logout", "revoke"} =>
       /\ r.token \in Session
       /\ sessions[r.token].state # "absent"
  /\ r.pc = "sweep" =>
       \A s \in r.rows : /\ sessions[s].state # "absent"
                         /\ sessions[s].user = r.user

RequestsHold == \A w \in Worker : Holds(request[w])

(* Every row descends from some login.                                      *)
Rooted ==
  \A s \in Session : sessions[s].state # "absent" => lineage[s].root \in Session

TypeInv == TypeOK /\ RequestsHold /\ Rooted

(* The tables are empty and the workers idle at first.                      *)
LEMMA TypeInit == Init => TypeInv
BY SessionsAssumption
   DEF Init, TypeInv, TypeOK, RequestsHold, Holds, Rooted, Row, NoRow, Birth, Unborn,
       Request, Idle, Starting, Phase

(* Nothing a row promises to a request is taken back.                       *)
LEMMA HoldsKept ==
  ASSUME TypeInv, NEW w \in Worker,
         request'[w] = request[w],
         \A s \in Session : sessions[s].state # "absent" =>
           /\ sessions'[s].state # "absent"
           /\ sessions'[s].user = sessions[s].user
  PROVE  Holds(request[w])'
BY DEF TypeInv, TypeOK, RequestsHold, Holds, Request

(* A request that passes its check keeps what it looked up.                 *)
LEMMA RequestFields ==
  ASSUME NEW r \in Request, NEW pc \in Phase, NEW n \in Nat
  PROVE  LET next == [r EXCEPT !.pc = pc, !.at = n]
         IN  /\ next \in Request
             /\ next.pc = pc
             /\ next.at = n
             /\ next.user = r.user
             /\ next.token = r.token
             /\ next.rows = r.rows
BY DEF Request

(* A worker that only reads takes hold of rows that exist.                  *)
LEMMA ReadStepHolds ==
  ASSUME TypeInv, NEW w \in Worker, ReadStep(w)
  PROVE  /\ request' \in [Worker -> Request]
         /\ Holds(request[w])'
         /\ \A v \in Worker \ {w} : request'[v] = request[v]
<1> DEFINE Moved == /\ request' \in [Worker -> Request]
                    /\ Holds(request[w])'
                    /\ \A v \in Worker \ {w} : request'[v] = request[v]
<1> USE DEF TypeInv, TypeOK, Become, At
<1>0. clock \in Nat /\ request[w] \in Request
  BY SessionsAssumption
<1>1. UNCHANGED sessions
  BY ReadStepUnchanged
<1>2. Idle \in Request /\ Holds(Idle)'
  BY DEF Idle, Starting, Request, Phase, Holds
<1>3. CASE request' = [request EXCEPT ![w] = Idle]
  BY <1>2, <1>3 DEF Holds
<1>4. ASSUME NEW u \in User, Authenticate(w, u) \/ AuthorizeLogoutAll(w, u)
      PROVE  Moved
  BY <1>4 DEF Authenticate, AuthorizeLogoutAll, Starting, Request, Phase, Holds
<1>5. ASSUME CheckLogin(w)
      PROVE  Moved
  <2>1. request' = [request EXCEPT ![w] = [request[w] EXCEPT !.pc = "create", !.at = clock]]
    BY <1>5 DEF CheckLogin
  <2>2. [request[w] EXCEPT !.pc = "create", !.at = clock] \in Request
    BY <1>0, RequestFields DEF Phase
  <2> QED
    BY <1>5, <2>1, <2>2 DEF CheckLogin, Request, Holds, RequestsHold
<1>6. ASSUME NEW s \in Session, NEW op \in {"refresh", "logout"}, SelectSession(w, s, op)
      PROVE  Moved
  BY <1>1, <1>6 DEF SelectSession, Unrevoked, Starting, Request, Phase, Holds
<1>7. ASSUME NEW op \in {"refresh", "logout"}, NEW next \in {"rotate", "revoke"},
             CheckSession(w, op, next)
      PROVE  Moved
  <2>1. CASE request' = [request EXCEPT ![w] = [request[w] EXCEPT !.pc = next, !.at = clock]]
    <3>1. PICK r \in Request :
            /\ r.pc = next /\ r.token = request[w].token
            /\ request' = [request EXCEPT ![w] = r]
      <4> DEFINE moved == [request[w] EXCEPT !.pc = next, !.at = clock]
      <4>1. next \in Phase
        BY DEF Phase
      <4>2. moved \in Request
        BY ONLY <1>0, <4>1, RequestFields
      <4>3. moved.pc = next /\ moved.token = request[w].token
        BY ONLY <1>0 DEF Request
      <4> HIDE DEF moved
      <4>4. request' = [request EXCEPT ![w] = moved]
        BY <2>1 DEF moved
      <4> QED
        BY <4>2, <4>3, <4>4
    <3>2. r.token \in Session /\ sessions'[r.token].state # "absent"
      BY <1>1, <1>7, <3>1 DEF CheckSession, Holds, RequestsHold
    <3>3. request'[w] = r
      BY <3>1
    <3>4. Holds(request[w])'
      BY <3>1, <3>2, <3>3 DEF Holds
    <3> QED
      BY <3>1, <3>4
  <2> QED
    BY <1>3, <1>7, <2>1 DEF CheckSession
<1>8. ASSUME SelectOpenSessions(w)
      PROVE  Moved
  <2> DEFINE open == {s \in Session : /\ sessions[s].user = request[w].user
                                      /\ Unrevoked(sessions[s])}
  <2>1. PICK r \in Request :
          /\ r.pc = "sweep" /\ r.user = request[w].user /\ r.rows = open
          /\ request' = [request EXCEPT ![w] = r]
    <3>1. [request[w] EXCEPT !.pc = "sweep", !.rows = open] \in Request
      BY <1>0 DEF Request, Phase
    <3> QED
      BY <1>0, <1>8, <3>1 DEF SelectOpenSessions, Request
  <2>2. r.user \in User
    BY <1>8, <2>1 DEF SelectOpenSessions, Holds, RequestsHold
  <2>3. \A s \in r.rows : sessions'[s].state # "absent" /\ sessions'[s].user = r.user
    BY <1>1, <2>1 DEF Unrevoked
  <2>4. request'[w] = r
    BY <2>1
  <2>5. Holds(request[w])'
    BY <2>1, <2>2, <2>3, <2>4 DEF Holds
  <2> QED
    BY <2>1, <2>5
<1>9. ASSUME Abort(w) \/ CreateAccessToken(w)
      PROVE  Moved
  BY <1>3, <1>9 DEF Abort, CreateAccessToken
<1> QED
  BY <1>4, <1>5, <1>6, <1>7, <1>8, <1>9 DEF ReadStep

(* Only a user whose login or rotation has committed gets an access token.  *)
LEMMA ReadStepAccess ==
  ASSUME TypeInv, NEW w \in Worker, ReadStep(w)
  PROVE  /\ accessUntil' \in [User -> Nat]
         /\ \A u \in User : accessUntil'[u] # accessUntil[u] =>
              At(w, "answer") /\ request[w].user = u
<1>1. CASE CreateAccessToken(w)
  <2>1. At(w, "answer") /\ request[w].user \in User
    BY <1>1 DEF CreateAccessToken, At, TypeInv, RequestsHold, Holds
  <2>2. clock + AccessLife \in Nat
    BY SessionsAssumption DEF TypeInv, TypeOK
  <2> QED
    BY <1>1, <2>1, <2>2 DEF CreateAccessToken, TypeInv, TypeOK
<1>2. CASE ~ CreateAccessToken(w)
  <2>1. UNCHANGED accessUntil
    BY <1>2 DEF ReadStep, Authenticate, AuthorizeLogoutAll, CheckLogin, SelectSession,
                CheckSession, SelectOpenSessions, Abort
  <2> QED
    BY <2>1 DEF TypeInv, TypeOK
<1> QED
  BY <1>1, <1>2

(* A worker that has committed is idle, or has yet to date an access token. *)
Ends(w) ==
  \/ Become(w, Idle)
  \/ \E u \in User : Become(w, Starting("answer", u, None))

(* A worker that has committed holds on to no row.                          *)
LEMMA EndsHolds ==
  ASSUME TypeInv, NEW w \in Worker, Ends(w)
  PROVE  /\ request' \in [Worker -> Request]
         /\ request'[w].pc \in {"idle", "answer"}
         /\ Holds(request[w])'
         /\ \A v \in Worker \ {w} : request'[v] = request[v]
<1>0. /\ Idle \in Request /\ Idle.pc = "idle"
      /\ \A u \in User : /\ Starting("answer", u, None) \in Request
                        /\ Starting("answer", u, None).pc = "answer"
                        /\ Starting("answer", u, None).user = u
  BY DEF Idle, Starting, Request, Phase
<1>1. PICK r \in Request :
        /\ Become(w, r)
        /\ r.pc \in {"idle", "answer"}
        /\ r.pc = "answer" => r.user \in User
  <2>1. CASE Become(w, Idle)
    BY <1>0, <2>1
  <2>2. ASSUME NEW u \in User, Become(w, Starting("answer", u, None))
        PROVE  \E r \in Request : /\ Become(w, r)
                                  /\ r.pc \in {"idle", "answer"}
                                  /\ r.pc = "answer" => r.user \in User
    BY <1>0, <2>2
  <2> QED
    BY <2>1, <2>2 DEF Ends
<1> QED
  BY <1>1 DEF TypeInv, TypeOK, Become, Holds

(* Commits to the table keep every row's account and expiry, and reopen or  *)
(* remove none.                                                             *)
RowsKept ==
  \A s \in Session : sessions[s].state # "absent" =>
    /\ sessions'[s].state # "absent"
    /\ sessions'[s].user = sessions[s].user
    /\ sessions'[s].expires = sessions[s].expires
    /\ sessions[s].state = "revoked" => sessions'[s].state = "revoked"

TableOK ==
  /\ sessions \in [Session -> Row]
  /\ \A s \in Session : sessions[s].state # "absent" => sessions[s].user \in User
  /\ accessUntil \in [User -> Nat]
  /\ lineage \in [Session -> Birth]
  /\ ended \in [Ending -> SUBSET Session]
  /\ Rooted

(* A login inserts a well-formed row and changes no other.                  *)
LEMMA CreateTypes ==
  ASSUME TypeInv, NEW w \in Worker, CreateSession(w)
  PROVE  TableOK' /\ RowsKept
<1> DEFINE u == request[w].user
           at == request[w].at
<1>1. u \in User /\ at \in Nat
  BY DEF TypeInv, TypeOK, RequestsHold, Holds, Request, CreateSession, At
<1>2. PICK s \in Session :
        /\ sessions[s].state = "absent"
        /\ sessions' = [sessions EXCEPT ![s] = NewRow(u, at)]
        /\ lineage' = [lineage EXCEPT
                         ![s] = [parent |-> None, worker |-> w, root |-> s]]
  BY DEF CreateSession
<1>3. NewRow(u, at) \in Row /\ NewRow(u, at).user = u
  BY <1>1, NewRowFields
<1>4. /\ sessions' \in [Session -> Row]
      /\ \A q \in Session : sessions'[q].state # "absent" => sessions'[q].user \in User
      /\ RowsKept
  BY <1>1, <1>2, <1>3 DEF TypeInv, TypeOK, RowsKept
<1>5. lineage' \in [Session -> Birth] /\ Rooted'
  BY <1>2 DEF TypeInv, TypeOK, Birth, Rooted
<1>6. accessUntil' \in [User -> Nat] /\ ended' \in [Ending -> SUBSET Session]
  BY DEF CreateSession, TypeInv, TypeOK
<1> QED
  BY <1>4, <1>5, <1>6 DEF TableOK

(* A rotation dates the successor somewhere between its check and now.      *)
LEMMA Rotation ==
  ASSUME TypeInv, NEW w \in Worker, RotateRefreshToken(w)
  PROVE  LET s == request[w].token
             u == sessions[s].user
         IN  /\ request[w].pc = "rotate"
             /\ s \in Session /\ sessions[s].state # "absent" /\ u \in User
             /\ \E t \in Session, now \in Nat :
                  /\ request[w].at <= now /\ now <= clock
                  /\ sessions[t].state = "absent"
                  /\ sessions' = [sessions EXCEPT ![s] = Rotated(@, t),
                                                  ![t] = NewRow(u, now)]
                  /\ lineage' = [lineage EXCEPT
                                   ![t] = [parent |-> s, worker |-> w,
                                           root |-> lineage[s].root]]
<1>1. /\ request[w].pc = "rotate"
      /\ request[w].token \in Session
      /\ sessions[request[w].token].state # "absent"
      /\ sessions[request[w].token].user \in User
  BY DEF TypeInv, TypeOK, RequestsHold, Holds, RotateRefreshToken, At
<1>2. \A now \in request[w].at .. clock :
        now \in Nat /\ request[w].at <= now /\ now <= clock
  BY SessionsAssumption DEF TypeInv, TypeOK, Request
<1> QED
  BY <1>1, <1>2 DEF RotateRefreshToken

(* A rotation keeps every row's account and expiry, and adds one.           *)
LEMMA RotateTypes ==
  ASSUME TypeInv, NEW w \in Worker, RotateRefreshToken(w)
  PROVE  TableOK' /\ RowsKept
<1> DEFINE s == request[w].token
           u == sessions[s].user
<1>1. s \in Session /\ sessions[s].state # "absent" /\ u \in User
  BY Rotation
<1>2. PICK t \in Session, now \in Nat :
        /\ sessions[t].state = "absent"
        /\ sessions' = [sessions EXCEPT ![s] = Rotated(@, t), ![t] = NewRow(u, now)]
        /\ lineage' = [lineage EXCEPT
                         ![t] = [parent |-> s, worker |-> w, root |-> lineage[s].root]]
  BY Rotation
<1>3. NewRow(u, now) \in Row /\ NewRow(u, now).user = u
  BY <1>1, NewRowFields
<1>4. sessions[s] \in Row /\ s # t
  BY <1>1, <1>2 DEF TypeInv, TypeOK
<1>5. /\ Rotated(sessions[s], t) \in Row
      /\ Rotated(sessions[s], t).state = "revoked"
      /\ Rotated(sessions[s], t).user = u
      /\ Rotated(sessions[s], t).expires = sessions[s].expires
  BY <1>4, RotatedFields
<1>6. /\ sessions' \in [Session -> Row]
      /\ sessions'[s] = Rotated(sessions[s], t)
      /\ sessions'[t] = NewRow(u, now)
      /\ \A q \in Session \ {s, t} : sessions'[q] = sessions[q]
  BY <1>1, <1>2, <1>3, <1>4, <1>5 DEF TypeInv, TypeOK
<1>7. /\ \A q \in Session : sessions'[q].state # "absent" => sessions'[q].user \in User
      /\ RowsKept
  BY <1>1, <1>2, <1>3, <1>5, <1>6 DEF TypeInv, TypeOK, RowsKept
<1>8. lineage' \in [Session -> Birth] /\ Rooted'
  BY <1>1, <1>2, <1>6 DEF TypeInv, TypeOK, Birth, Rooted
<1>9. accessUntil' \in [User -> Nat] /\ ended' \in [Ending -> SUBSET Session]
  BY DEF RotateRefreshToken, TypeInv, TypeOK
<1> QED
  BY <1>6, <1>7, <1>8, <1>9 DEF TableOK

(* A revocation, of one row or of many, keeps accounts and expiries.        *)
LEMMA RevokeTypes ==
  ASSUME TypeInv, NEW w \in Worker, NEW how \in Ending, NEW rows \in SUBSET Session,
         \A s \in rows : sessions[s].state # "absent",
         sessions' = [s \in Session |-> IF s \in rows THEN Revoked(sessions[s])
                                                      ELSE sessions[s]],
         End(how, rows),
         UNCHANGED <<accessUntil, lineage>>
  PROVE  TableOK' /\ RowsKept
<1>1. {lineage[s].root : s \in rows} \in SUBSET Session
  BY DEF TypeInv, Rooted
<1>2. ended' \in [Ending -> SUBSET Session]
  BY <1>1 DEF TypeInv, TypeOK, End
<1>3. \A s \in Session :
        /\ Revoked(sessions[s]) \in Row
        /\ Revoked(sessions[s]).state = "revoked"
        /\ Revoked(sessions[s]).user = sessions[s].user
        /\ Revoked(sessions[s]).expires = sessions[s].expires
  BY RevokedFields DEF TypeInv, TypeOK
<1>4. /\ sessions' \in [Session -> Row]
      /\ \A s \in Session : sessions'[s].state # "absent" => sessions'[s].user \in User
      /\ RowsKept
  BY <1>3 DEF TypeInv, TypeOK, RowsKept
<1>5. Rooted'
  BY <1>3 DEF TypeInv, Rooted
<1> QED
  BY <1>2, <1>4, <1>5 DEF TableOK, TypeInv, TypeOK

(* Revoking one row is revoking a set of one.                               *)
LEMMA RevokeOne ==
  ASSUME TypeInv, NEW w \in Worker, RevokeRefreshToken(w)
  PROVE  /\ request[w].token \in Session
         /\ sessions[request[w].token].state # "absent"
         /\ sessions' = [s \in Session |-> IF s \in {request[w].token}
                                             THEN Revoked(sessions[s])
                                             ELSE sessions[s]]
BY DEF TypeInv, TypeOK, RequestsHold, Holds, RevokeRefreshToken, At

(* What a commit does to the table, whichever of the four it is.            *)
LEMMA CommitTypes ==
  ASSUME TypeInv, NEW w \in Worker,
         CreateSession(w) \/ RotateRefreshToken(w) \/ RevokeRefreshToken(w)
           \/ RevokeAllSessions(w)
  PROVE  /\ TableOK'
         /\ RowsKept
         /\ Ends(w)
         /\ UNCHANGED <<clock, active, accessUntil>>
<1>1. CASE CreateSession(w)
  <2>1. request[w].user \in User
    BY <1>1 DEF CreateSession, At, TypeInv, RequestsHold, Holds
  <2> QED
    BY <1>1, <2>1, CreateTypes DEF CreateSession, Ends
<1>2. CASE RotateRefreshToken(w)
  BY <1>2, RotateTypes, Rotation DEF RotateRefreshToken, Ends
<1>3. CASE RevokeRefreshToken(w)
  <2> DEFINE rows == {request[w].token}
  <2>1. /\ rows \in SUBSET Session
        /\ \A s \in rows : sessions[s].state # "absent"
        /\ sessions' = [s \in Session |-> IF s \in rows THEN Revoked(sessions[s])
                                                         ELSE sessions[s]]
    BY <1>3, RevokeOne
  <2>2. End("logout", rows) /\ UNCHANGED <<accessUntil, lineage>>
    BY <1>3 DEF RevokeRefreshToken
  <2>3. TableOK' /\ RowsKept
    <3> HIDE DEF rows
    <3> QED
      BY <2>1, <2>2, RevokeTypes DEF Ending
  <2> QED
    BY <1>3, <2>3 DEF RevokeRefreshToken, Ends
<1>4. CASE RevokeAllSessions(w)
  <2>1. /\ request[w].rows \in SUBSET Session
        /\ \A s \in request[w].rows : sessions[s].state # "absent"
    BY <1>4 DEF RevokeAllSessions, At, TypeInv, TypeOK, Request, RequestsHold, Holds
  <2>2. TableOK' /\ RowsKept
    BY <1>4, <2>1, RevokeTypes DEF RevokeAllSessions, Ending
  <2> QED
    BY <1>4, <2>2 DEF RevokeAllSessions, Ends
<1> QED
  BY <1>1, <1>2, <1>3, <1>4

(* Every step keeps the type invariant.                                     *)
LEMMA TypeStep == TypeInv /\ [Next]_vars => TypeInv'
<1> SUFFICES ASSUME TypeInv, [Next]_vars PROVE TypeInv'
  OBVIOUS
<1>1. ASSUME NEW w \in Worker, ReadStep(w)
      PROVE  TypeInv'
  <2>1. UNCHANGED <<clock, active, sessions, lineage, ended>>
    BY <1>1, ReadStepUnchanged
  <2>4. accessUntil' \in [User -> Nat]
    BY <1>1, ReadStepAccess
  <2>2. TypeOK'
    BY <1>1, <2>1, <2>4, ReadStepHolds DEF TypeInv, TypeOK
  <2>3. RequestsHold'
    BY <1>1, <2>1, ReadStepHolds, HoldsKept DEF RequestsHold
  <2> QED
    BY <2>1, <2>2, <2>3 DEF TypeInv, Rooted
<1>2. ASSUME NEW w \in Worker,
             CreateSession(w) \/ RotateRefreshToken(w) \/ RevokeRefreshToken(w)
               \/ RevokeAllSessions(w)
      PROVE  TypeInv'
  <2>1. TableOK' /\ RowsKept /\ Ends(w) /\ UNCHANGED <<clock, active>>
    BY <1>2, CommitTypes
  <2>2. TypeOK'
    BY <2>1, EndsHolds DEF TypeInv, TypeOK, TableOK
  <2>3. ASSUME NEW v \in Worker
        PROVE  Holds(request[v])'
    <3>1. CASE v = w
      BY <1>2, <2>1, <3>1, EndsHolds
    <3>2. CASE v # w
      <4>1. request'[v] = request[v]
        BY <1>2, <2>1, <3>2, EndsHolds
      <4> QED
        BY <2>1, <4>1, HoldsKept DEF RowsKept
    <3> QED
      BY <3>1, <3>2
  <2> QED
    BY <2>1, <2>2, <2>3 DEF TypeInv, TableOK, RequestsHold
<1>3. ASSUME NEW u \in User, UpdateUser(u)
      PROVE  TypeInv'
  BY <1>3 DEF UpdateUser, TypeInv, TypeOK, RequestsHold, Holds, Rooted
<1>4. CASE Tick
  BY <1>4, SessionsAssumption DEF Tick, TypeInv, TypeOK, RequestsHold, Holds, Rooted
<1>5. CASE UNCHANGED vars
  BY <1>5 DEF vars, TypeInv, TypeOK, RequestsHold, Holds, Rooted
<1> QED
  BY <1>1, <1>2, <1>3, <1>4, <1>5, StepKinds

(* Whatever requests overlap, the rows they hold exist and keep their user. *)
THEOREM TypeInvariant == Spec => []TypeInv
BY TypeInit, TypeStep, PTL DEF Spec

(* Every row, request and log of the model is well formed, in every         *)
(* reachable state and for any number of concurrent requests.               *)
THEOREM TypeCorrect == Spec => []TypeOK
BY TypeInvariant, PTL DEF TypeInv

-----------------------------------------------------------------------------
(* Forks.  A row with successors is revoked, so only a request that read it *)
(* earlier can still exchange it, and its worker has not done so before.    *)

AbsentUnborn ==
  \A s \in Session : sessions[s].state = "absent" => lineage[s] = Unborn

ParentsRevoked ==
  \A t \in Session : lineage[t].parent # None =>
    /\ sessions[lineage[t].parent].state = "revoked"
    /\ lineage[t].worker \in Worker

FirstExchange ==
  \A w \in Worker : request[w].pc \in {"refresh", "rotate"} =>
    \A t \in Children(request[w].token) : lineage[t].worker # w

ForkInv == TypeInv /\ AbsentUnborn /\ ParentsRevoked /\ FirstExchange /\ ForkBounded

(* At first no row has successors.                                          *)
LEMMA ForkInit == Init => ForkInv
<1> SUFFICES ASSUME Init PROVE ForkInv
  OBVIOUS
<1>1. TypeInv
  BY TypeInit
<1>2. /\ \A s \in Session : lineage[s] = Unborn
      /\ \A w \in Worker : request[w].pc = "idle"
  BY DEF Init, Idle, Starting
<1> QED
  BY <1>1, <1>2 DEF ForkInv, AbsentUnborn, ParentsRevoked, FirstExchange,
                    ForkBounded, Unborn

(* A worker that starts a refresh found the row open; one that goes on with *)
(* a refresh still has the row it found.                                    *)
LEMMA ReadStepToken ==
  ASSUME TypeInv, NEW w \in Worker, ReadStep(w),
         request'[w].pc \in {"refresh", "rotate"}
  PROVE  \/ /\ request[w].pc = "idle"
            /\ request'[w].token \in Session
            /\ sessions[request'[w].token].state = "open"
         \/ /\ request[w].pc \in {"refresh", "rotate"}
            /\ request'[w].token = request[w].token
<1> USE DEF TypeInv, TypeOK, Become, At
<1>1. request[w] \in Request /\ clock \in Nat
  BY SessionsAssumption
<1>2. ASSUME NEW r, Become(w, r)
      PROVE  request'[w] = r
  BY <1>2
<1>3. Idle.pc = "idle"
  BY DEF Idle, Starting
<1> DEFINE Checked(pc) == [request[w] EXCEPT !.pc = pc, !.at = clock]
<1>0. \A pc \in Phase : Checked(pc).pc = pc /\ Checked(pc).token = request[w].token
  <2> TAKE pc \in Phase
  <2> QED
    BY <1>1 DEF Request
<1> HIDE DEF Checked
<1>4. ASSUME NEW u \in User, Authenticate(w, u) \/ AuthorizeLogoutAll(w, u)
      PROVE  FALSE
  BY <1>2, <1>4 DEF Authenticate, AuthorizeLogoutAll, Starting
<1>5. ASSUME CheckLogin(w)
      PROVE  FALSE
  <2>1. request'[w] = Checked("create")
    BY <1>2, <1>5 DEF CheckLogin, Checked
  <2> QED
    BY <1>3, <1>0, <2>1 DEF Phase
<1>6. ASSUME NEW s \in Session, NEW op \in {"refresh", "logout"}, SelectSession(w, s, op)
      PROVE  /\ request[w].pc = "idle"
             /\ request'[w].token = s /\ sessions[s].state = "open"
  BY <1>2, <1>6 DEF SelectSession, Unrevoked, Starting
<1>7. ASSUME CheckSession(w, "refresh", "rotate")
      PROVE  request[w].pc = "refresh" /\ request'[w].token = request[w].token
  <2>1. request'[w] = Idle \/ request'[w] = Checked("rotate")
    BY <1>2, <1>7 DEF CheckSession, Checked
  <2> QED
    BY <1>3, <1>0, <1>7, <2>1 DEF CheckSession, Phase
<1>8. ASSUME CheckSession(w, "logout", "revoke")
      PROVE  FALSE
  <2>1. request'[w] = Idle \/ request'[w] = Checked("revoke")
    BY <1>2, <1>8 DEF CheckSession, Checked
  <2> QED
    BY <1>3, <1>0, <2>1 DEF Phase
<1>9. ASSUME SelectOpenSessions(w)
      PROVE  FALSE
  BY <1>1, <1>2, <1>9 DEF SelectOpenSessions, Request
<1>10. ASSUME Abort(w) \/ CreateAccessToken(w)
       PROVE  FALSE
  BY <1>2, <1>3, <1>10 DEF Abort, CreateAccessToken
<1> QED
  BY <1>4, <1>5, <1>6, <1>7, <1>8, <1>9, <1>10 DEF ReadStep

(* The exchange itself: the new row has no sibling by the same worker.      *)
LEMMA RotateFork ==
  ASSUME ForkInv, NEW w \in Worker, RotateRefreshToken(w)
  PROVE  AbsentUnborn' /\ ParentsRevoked' /\ FirstExchange' /\ ForkBounded'
<1> DEFINE s == request[w].token
           u == sessions[s].user
<1>1. /\ s \in Session /\ sessions[s].state # "absent" /\ u \in User
      /\ request[w].pc = "rotate"
  BY Rotation DEF ForkInv
<1>2. PICK t \in Session, now \in Nat :
        /\ sessions[t].state = "absent"
        /\ sessions' = [sessions EXCEPT ![s] = Rotated(@, t), ![t] = NewRow(u, now)]
        /\ lineage' = [lineage EXCEPT
                         ![t] = [parent |-> s, worker |-> w, root |-> lineage[s].root]]
  BY Rotation DEF ForkInv
<1>3. /\ s # t /\ sessions[s] \in Row
      /\ sessions \in [Session -> Row] /\ lineage \in [Session -> Birth]
  BY <1>1, <1>2 DEF ForkInv, TypeInv, TypeOK
<1>4. /\ sessions'[s].state = "revoked"
      /\ sessions'[t].state = "open"
      /\ \A q \in Session \ {s, t} : sessions'[q] = sessions[q]
  <2>1. Rotated(sessions[s], t).state = "revoked"
    BY <1>3, RotatedFields
  <2>2. /\ sessions'[s] = Rotated(sessions[s], t)
        /\ sessions'[t] = NewRow(u, now)
        /\ \A q \in Session \ {s, t} : sessions'[q] = sessions[q]
    BY <1>1, <1>2, <1>3
  <2>3. NewRow(u, now).state = "open"
    BY <1>1, NewRowFields
  <2> QED
    BY <2>1, <2>2, <2>3
<1>5. /\ lineage'[t].parent = s /\ lineage'[t].worker = w
      /\ \A q \in Session \ {t} : lineage'[q] = lineage[q]
  BY <1>2, <1>3
<1>6. \A q \in Session : lineage[q].parent # t /\ (lineage[q].parent = s => lineage[q].worker # w)
  BY <1>1, <1>2, <1>3, SessionsAssumption
     DEF ForkInv, ParentsRevoked, FirstExchange, Children
<1>7. AbsentUnborn'
  BY <1>1, <1>4, <1>5 DEF ForkInv, AbsentUnborn
<1>8. ParentsRevoked'
  BY <1>1, <1>3, <1>4, <1>5, <1>6 DEF ForkInv, ParentsRevoked, Birth
<1>9. FirstExchange'
  <2> SUFFICES ASSUME NEW v \in Worker, request'[v].pc \in {"refresh", "rotate"},
                      NEW q \in Session, lineage'[q].parent = request'[v].token
               PROVE  lineage'[q].worker # v
    BY DEF FirstExchange, Children
  <2>1. v # w /\ request'[v] = request[v]
    <3>1. Ends(w) /\ TypeInv
      BY CommitTypes DEF ForkInv
    <3> QED
      BY <3>1, EndsHolds
  <2> QED
    BY <1>5, <2>1 DEF ForkInv, FirstExchange, Children
<1>10. ForkBounded'
  BY <1>1, <1>5, <1>6 DEF ForkInv, ForkBounded
<1> QED
  BY <1>7, <1>8, <1>9, <1>10

(* Every step keeps the fork invariant.                                     *)
LEMMA ForkStep == ForkInv /\ [Next]_vars => ForkInv'
<1> SUFFICES ASSUME ForkInv, [Next]_vars PROVE ForkInv'
  OBVIOUS
<1>0. TypeInv /\ TypeInv'
  BY TypeStep DEF ForkInv
<1>1. ASSUME NEW w \in Worker, ReadStep(w)
      PROVE  ForkInv'
  <2>1. UNCHANGED <<sessions, lineage>>
    BY <1>1, ReadStepUnchanged
  <2>2. AbsentUnborn' /\ ParentsRevoked' /\ ForkBounded'
    BY <2>1 DEF ForkInv, AbsentUnborn, ParentsRevoked, ForkBounded
  <2>3. FirstExchange'
    <3> SUFFICES ASSUME NEW v \in Worker, request'[v].pc \in {"refresh", "rotate"},
                        NEW t \in Session, lineage[t].parent = request'[v].token
                 PROVE  lineage[t].worker # v
      BY <2>1 DEF FirstExchange, Children
    <3>1. CASE v = w
      BY <1>0, <1>1, <3>1, ReadStepToken, SessionsAssumption
         DEF ForkInv, FirstExchange, ParentsRevoked, Children
    <3>2. CASE v # w
      BY <1>0, <1>1, <3>2, ReadStepHolds DEF ForkInv, FirstExchange, Children
    <3> QED
      BY <3>1, <3>2
  <2> QED
    BY <1>0, <2>2, <2>3 DEF ForkInv
<1>2. ASSUME NEW w \in Worker, CreateSession(w)
      PROVE  ForkInv'
  <2>1. PICK s \in Session :
          /\ sessions[s].state = "absent"
          /\ sessions' = [sessions EXCEPT ![s] = NewRow(request[w].user, request[w].at)]
          /\ lineage' = [lineage EXCEPT
                           ![s] = [parent |-> None, worker |-> w, root |-> s]]
    BY <1>2 DEF CreateSession
  <2>2. /\ sessions'[s].state = "open"
        /\ lineage'[s].parent = None
        /\ \A q \in Session \ {s} : sessions'[q] = sessions[q] /\ lineage'[q] = lineage[q]
    BY <1>0, <2>1 DEF TypeInv, TypeOK, NewRow
  <2>3. \A q \in Session : lineage[q].parent # s
    BY <2>1, SessionsAssumption DEF ForkInv, ParentsRevoked
  <2>4. AbsentUnborn' /\ ForkBounded'
    BY <2>2 DEF ForkInv, AbsentUnborn, ForkBounded
  <2>6. ParentsRevoked'
    <3> SUFFICES ASSUME NEW q \in Session, lineage'[q].parent # None
                 PROVE  /\ sessions'[lineage'[q].parent].state = "revoked"
                        /\ lineage'[q].worker \in Worker
      BY DEF ParentsRevoked
    <3>1. lineage'[q] = lineage[q] /\ lineage[q].parent \in Session \ {s}
      BY <1>0, <2>2, <2>3 DEF TypeInv, TypeOK, Birth
    <3> QED
      BY <2>2, <3>1 DEF ForkInv, ParentsRevoked
  <2>5. FirstExchange'
    <3> SUFFICES ASSUME NEW v \in Worker, request'[v].pc \in {"refresh", "rotate"},
                        NEW q \in Session, lineage'[q].parent = request'[v].token
                 PROVE  lineage'[q].worker # v
      BY DEF FirstExchange, Children
    <3>1. v # w /\ request'[v] = request[v]
      BY <1>0, <1>2, CommitTypes, EndsHolds
    <3>2. request[v].token \in Session
      BY <1>0, <3>1 DEF TypeInv, RequestsHold, Holds
    <3> QED
      BY <2>2, <3>1, <3>2, SessionsAssumption DEF ForkInv, FirstExchange, Children
  <2> QED
    BY <1>0, <2>4, <2>5, <2>6 DEF ForkInv
<1>3. ASSUME NEW w \in Worker, RotateRefreshToken(w)
      PROVE  ForkInv'
  BY <1>0, <1>3, RotateFork DEF ForkInv
<1>4. ASSUME NEW w \in Worker, RevokeRefreshToken(w) \/ RevokeAllSessions(w)
      PROVE  ForkInv'
  <2>1. RowsKept /\ Ends(w)
    BY <1>0, <1>4, CommitTypes
  <2>2. UNCHANGED lineage
    BY <1>4 DEF RevokeRefreshToken, RevokeAllSessions
  <2>3. \A s \in Session : sessions[s].state = "absent" => sessions'[s] = sessions[s]
    BY <1>0, <1>4, RevokeOne
       DEF TypeInv, TypeOK, RequestsHold, Holds, RevokeAllSessions, At
  <2>4. AbsentUnborn' /\ ParentsRevoked' /\ ForkBounded'
    BY <1>0, <2>1, <2>2, <2>3
       DEF ForkInv, RowsKept, AbsentUnborn, ParentsRevoked, ForkBounded,
           TypeInv, TypeOK, Birth
  <2>5. FirstExchange'
    <3> SUFFICES ASSUME NEW v \in Worker, request'[v].pc \in {"refresh", "rotate"}
                 PROVE  request'[v] = request[v]
      BY <2>2 DEF ForkInv, FirstExchange, Children
    <3> QED
      BY <1>0, <2>1, EndsHolds
  <2> QED
    BY <1>0, <2>4, <2>5 DEF ForkInv
<1>5. CASE \/ \E u \in User : UpdateUser(u)
           \/ Tick
           \/ UNCHANGED vars
  <2>1. UNCHANGED <<sessions, lineage, request>>
    BY <1>5 DEF UpdateUser, Tick, vars
  <2> QED
    BY <1>0, <2>1 DEF ForkInv, AbsentUnborn, ParentsRevoked, FirstExchange,
                      ForkBounded, Children
<1> QED
  BY <1>1, <1>2, <1>3, <1>4, <1>5, StepKinds

(* A worker about to rotate a token has not exchanged that token before.    *)
THEOREM ForkInvariant == Spec => []ForkInv
BY ForkInit, ForkStep, PTL DEF Spec

(* Racing refreshes of one token can yield several successors, but never    *)
(* two from one worker: a fork is at most as wide as the thread pool.       *)
THEOREM ForksAreBounded == Spec => []ForkBounded
BY ForkInvariant, PTL DEF ForkInv

-----------------------------------------------------------------------------
(* Revocation.                                                              *)

(* No step takes back a revocation, an account or an expiry.                *)
LEMMA RowsKeptStep ==
  ASSUME TypeInv, [Next]_vars
  PROVE  RowsKept
<1>1. ASSUME NEW w \in Worker, ReadStep(w)
      PROVE  RowsKept
  BY <1>1, ReadStepUnchanged DEF RowsKept
<1>2. ASSUME NEW w \in Worker,
             CreateSession(w) \/ RotateRefreshToken(w) \/ RevokeRefreshToken(w)
               \/ RevokeAllSessions(w)
      PROVE  RowsKept
  BY <1>2, CommitTypes
<1>3. CASE (\E u \in User : UpdateUser(u)) \/ Tick \/ UNCHANGED vars
  BY <1>3 DEF UpdateUser, Tick, vars, RowsKept
<1> QED
  BY <1>1, <1>2, <1>3, StepKinds

(* No commit, whatever its request read and when, reopens a revoked row or  *)
(* moves it to another account or expiry.                                   *)
THEOREM RevocationHolds == Spec => RevocationIsFinal
<1>1. TypeInv /\ [Next]_vars =>
        [\A s \in Session :
           sessions[s].state = "revoked" =>
             /\ sessions'[s].state = "revoked"
             /\ sessions'[s].user = sessions[s].user
             /\ sessions'[s].expires = sessions[s].expires]_vars
  BY RowsKeptStep DEF RowsKept
<1> QED
  BY <1>1, TypeInvariant, PTL DEF Spec, RevocationIsFinal

(* One commit closes the rows of one account.                               *)
ClosesOneAccount ==
  \A s, t \in Session :
    /\ Unrevoked(sessions[s]) /\ ~ Unrevoked(sessions'[s])
    /\ Unrevoked(sessions[t]) /\ ~ Unrevoked(sessions'[t])
    => sessions[s].user = sessions[t].user

(* No step revokes rows of two accounts.                                    *)
LEMMA ClosesOneAccountStep ==
  ASSUME TypeInv, [Next]_vars
  PROVE  ClosesOneAccount
<1>1. ASSUME UNCHANGED sessions
      PROVE  ClosesOneAccount
  BY <1>1 DEF ClosesOneAccount
<1>2. ASSUME NEW w \in Worker, ReadStep(w)
      PROVE  ClosesOneAccount
  BY <1>1, <1>2, ReadStepUnchanged
<1>3. ASSUME NEW w \in Worker, CreateSession(w)
      PROVE  ClosesOneAccount
  BY <1>3 DEF CreateSession, ClosesOneAccount, Unrevoked, TypeInv, TypeOK
<1>4. ASSUME NEW w \in Worker, RotateRefreshToken(w)
      PROVE  ClosesOneAccount
  BY <1>4 DEF RotateRefreshToken, ClosesOneAccount, Unrevoked, TypeInv, TypeOK
<1>5. ASSUME NEW w \in Worker, RevokeRefreshToken(w)
      PROVE  ClosesOneAccount
  BY <1>5, RevokeOne DEF ClosesOneAccount, TypeInv, TypeOK
<1>6. ASSUME NEW w \in Worker, RevokeAllSessions(w)
      PROVE  ClosesOneAccount
  BY <1>6 DEF RevokeAllSessions, At, ClosesOneAccount, TypeInv, TypeOK, RequestsHold, Holds
<1>7. CASE (\E u \in User : UpdateUser(u)) \/ Tick \/ UNCHANGED vars
  BY <1>1, <1>7 DEF UpdateUser, Tick, vars
<1> QED
  BY <1>2, <1>3, <1>4, <1>5, <1>6, <1>7, StepKinds

(* Rotation, logout and logout-all only ever close rows of the account they *)
(* act for.                                                                 *)
THEOREM OneAccountHolds == Spec => OneAccountPerCommit
<1>1. TypeInv /\ [Next]_vars => [ClosesOneAccount]_vars
  BY ClosesOneAccountStep
<1>2. (ClosesOneAccount <=>
         \A s, t \in Session :
           /\ Unrevoked(sessions[s]) /\ ~ Unrevoked(sessions'[s])
           /\ Unrevoked(sessions[t]) /\ ~ Unrevoked(sessions'[t])
           => sessions[s].user = sessions[t].user)
  BY DEF ClosesOneAccount
<1> QED
  BY <1>1, <1>2, TypeInvariant, PTL DEF Spec, OneAccountPerCommit

-----------------------------------------------------------------------------
(* Deactivation.                                                            *)

(* What a locked-out account keeps, in a step that does not reactivate it.  *)
StaysOut(u) ==
  /\ LockedOut(u)'
  /\ \A s \in OwnedBy(u) \cup OwnedBy(u)' : sessions'[s] = sessions[s]
  /\ accessUntil'[u] = accessUntil[u]

(* A commit of a request that works for others touches no row of u, and     *)
(* leaves its request working for others.                                   *)
LEMMA CommitElsewhere ==
  ASSUME TypeInv, NEW u \in User, NEW w \in Worker, ~ Admitted(w, u),
         \/ CreateSession(w) \/ RotateRefreshToken(w)
         \/ RevokeRefreshToken(w) \/ RevokeAllSessions(w)
  PROVE  /\ \A s \in OwnedBy(u) \cup OwnedBy(u)' : sessions'[s] = sessions[s]
         /\ ~ Admitted(w, u)'
<1>0. \A v : request' = [request EXCEPT ![w] = Starting("answer", v, None)] =>
        /\ request'[w].pc = "answer"
        /\ request'[w].user = v
  BY DEF TypeInv, TypeOK, Starting
<1>1. CASE CreateSession(w)
  <2> DEFINE r == request[w]
  <2>1. r.user \in User /\ r.user # u /\ r.at \in Nat
    BY <1>1 DEF CreateSession, At, Admitted, TypeInv, TypeOK, RequestsHold, Holds, Request
  <2>2. PICK s \in Session : /\ sessions[s].state = "absent"
                             /\ sessions' = [sessions EXCEPT ![s] = NewRow(r.user, r.at)]
    BY <1>1 DEF CreateSession
  <2>3. NewRow(r.user, r.at).user # u
    BY <2>1, NewRowFields
  <2>4. \A q \in Session : q # s => sessions'[q] = sessions[q]
    BY <2>2 DEF TypeInv, TypeOK
  <2>5. sessions'[s].user # u
    BY <2>2, <2>3 DEF TypeInv, TypeOK
  <2>6. ~ Admitted(w, u)'
    BY <1>0, <1>1, <2>1 DEF CreateSession, Become, Admitted
  <2> QED
    BY <2>2, <2>4, <2>5, <2>6 DEF OwnedBy
<1>2. CASE RotateRefreshToken(w)
  <2> DEFINE s == request[w].token
             v == sessions[s].user
  <2>1. s \in Session /\ sessions[s] \in Row /\ v \in User /\ v # u
    BY <1>2, Rotation DEF Admitted, TypeInv, TypeOK
  <2>2. PICK t \in Session, now \in Nat :
          /\ sessions[t].state = "absent"
          /\ sessions' = [sessions EXCEPT ![s] = Rotated(@, t), ![t] = NewRow(v, now)]
    BY <1>2, Rotation
  <2>3. Rotated(sessions[s], t).user # u /\ NewRow(v, now).user # u
    <3>1. NewRow(v, now).user = v
      BY <2>1, NewRowFields
    <3>2. Rotated(sessions[s], t).user = v
      BY <2>1, RotatedFields
    <3> QED
      BY <2>1, <3>1, <3>2
  <2>4. \A q \in Session : q # s /\ q # t => sessions'[q] = sessions[q]
    BY <2>2 DEF TypeInv, TypeOK
  <2>5. sessions'[s].user # u /\ sessions'[t].user # u
    BY <2>1, <2>2, <2>3 DEF TypeInv, TypeOK
  <2>6. ~ Admitted(w, u)'
    BY <1>0, <1>2, <2>1 DEF RotateRefreshToken, Become, Admitted
  <2> QED
    BY <2>1, <2>2, <2>4, <2>5, <2>6 DEF OwnedBy
<1>3. CASE RevokeRefreshToken(w)
  <2>1. sessions[request[w].token].user # u
    BY <1>3 DEF RevokeRefreshToken, At, Admitted
  <2>2. \A q \in Session : q # request[w].token => sessions'[q] = sessions[q]
    BY <1>3, RevokeOne
  <2>3. sessions'[request[w].token].user # u
    BY <1>3, <2>1, RevokeOne, RevokedFields DEF TypeInv, TypeOK
  <2>4. ~ Admitted(w, u)'
    BY <1>3 DEF RevokeRefreshToken, Become, Idle, Starting, Admitted, TypeInv, TypeOK
  <2> QED
    BY <2>1, <2>2, <2>3, <2>4 DEF OwnedBy
<1>4. CASE RevokeAllSessions(w)
  <2>1. \A q \in request[w].rows : q \in Session => sessions[q].user # u
    BY <1>4 DEF RevokeAllSessions, At, Admitted, TypeInv, RequestsHold, Holds
  <2>2. \A q \in Session : q \notin request[w].rows => sessions'[q] = sessions[q]
    BY <1>4 DEF RevokeAllSessions
  <2>3. \A q \in Session : q \in request[w].rows => sessions'[q].user # u
    BY <1>4, <2>1, RevokedFields DEF RevokeAllSessions, TypeInv, TypeOK
  <2>4. ~ Admitted(w, u)'
    BY <1>4 DEF RevokeAllSessions, Become, Idle, Starting, Admitted, TypeInv, TypeOK
  <2> QED
    BY <2>1, <2>2, <2>3, <2>4 DEF OwnedBy
<1> QED
  BY <1>1, <1>2, <1>3, <1>4

(* A step that only reads admits nobody to an inactive account.             *)
LEMMA ReadStepAdmits ==
  ASSUME TypeInv, NEW u \in User, ~ active[u],
         NEW w \in Worker, ReadStep(w), ~ Admitted(w, u)
  PROVE  ~ Admitted(w, u)'
<1> USE DEF TypeInv, TypeOK, Become, At
<1>1. UNCHANGED sessions /\ request[w] \in Request
  BY ReadStepUnchanged
<1>2. CASE request' = [request EXCEPT ![w] = Idle]
  BY <1>2 DEF Idle, Starting, Admitted
<1>3. ASSUME NEW v \in User, Authenticate(w, v) \/ AuthorizeLogoutAll(w, v)
      PROVE  ~ Admitted(w, u)'
  BY <1>3 DEF Authenticate, AuthorizeLogoutAll, Starting, Admitted
<1>4. CASE CheckLogin(w)
  <2>1. request'[w].user = request[w].user /\ request'[w].pc = "create"
    BY <1>1, <1>4 DEF CheckLogin, Request
  <2> QED
    BY <1>4, <2>1 DEF CheckLogin, Admitted
<1>5. ASSUME NEW s \in Session, NEW op \in {"refresh", "logout"}, SelectSession(w, s, op)
      PROVE  ~ Admitted(w, u)'
  BY <1>5 DEF SelectSession, Starting, Admitted
<1>6. ASSUME NEW op \in {"refresh", "logout"}, NEW next \in {"rotate", "revoke"},
             CheckSession(w, op, next)
      PROVE  ~ Admitted(w, u)'
  <2>1. CASE active[sessions[request[w].token].user]
    <3>1. \/ request' = [request EXCEPT ![w] = Idle]
          \/ request'[w] = [request[w] EXCEPT !.pc = next, !.at = clock]
      BY <1>6 DEF CheckSession
    <3>2. CASE request'[w] = [request[w] EXCEPT !.pc = next, !.at = clock]
      <4>1. request'[w].pc = next /\ request'[w].token = request[w].token
        BY <1>1, <3>2 DEF Request
      <4> QED
        BY <1>1, <2>1, <4>1 DEF Admitted
    <3> QED
      BY <1>2, <3>1, <3>2
  <2> QED
    BY <1>2, <1>6, <2>1 DEF CheckSession
<1>7. CASE SelectOpenSessions(w)
  <2>1. request'[w].user = request[w].user /\ request'[w].pc = "sweep"
    BY <1>1, <1>7 DEF SelectOpenSessions, Request
  <2> QED
    BY <1>7, <2>1 DEF SelectOpenSessions, Admitted
<1> QED
  BY <1>2, <1>3, <1>4, <1>5, <1>6, <1>7 DEF ReadStep, CreateAccessToken, Abort

(* Of rows that exist, and so of all that requests hold, the account stays. *)
LEMMA AdmittedKept ==
  ASSUME TypeInv, RowsKept, NEW u \in User, NEW w \in Worker,
         request'[w] = request[w], ~ Admitted(w, u)
  PROVE  ~ Admitted(w, u)'
BY DEF Admitted, RowsKept, TypeInv, RequestsHold, Holds

(* No step lets a locked-out account back in but one that reactivates it.   *)
LEMMA StaysOutStep ==
  ASSUME TypeInv, [Next]_vars, NEW u \in User, LockedOut(u), ~ active'[u]
  PROVE  StaysOut(u)
<1>1. ~ active[u] /\ \A w \in Worker : ~ Admitted(w, u)
  BY DEF LockedOut
<1>2. RowsKept
  BY RowsKeptStep
<1>3. ASSUME NEW w \in Worker, ReadStep(w)
      PROVE  StaysOut(u)
  <2>1. UNCHANGED sessions /\ accessUntil'[u] = accessUntil[u]
    BY <1>1, <1>3, ReadStepUnchanged, ReadStepAccess DEF Admitted, At
  <2>2. \A v \in Worker : ~ Admitted(v, u)'
    BY <1>1, <1>2, <1>3, ReadStepHolds, ReadStepAdmits, AdmittedKept
  <2> QED
    BY <2>1, <2>2 DEF StaysOut, LockedOut
<1>4. ASSUME NEW w \in Worker,
             \/ CreateSession(w) \/ RotateRefreshToken(w)
             \/ RevokeRefreshToken(w) \/ RevokeAllSessions(w)
      PROVE  StaysOut(u)
  <2>1. /\ \A s \in OwnedBy(u) \cup OwnedBy(u)' : sessions'[s] = sessions[s]
        /\ ~ Admitted(w, u)'
    BY <1>1, <1>4, CommitElsewhere
  <2>2. Ends(w) /\ UNCHANGED <<active, accessUntil>>
    BY <1>4, CommitTypes
  <2>3. \A v \in Worker : v # w => ~ Admitted(v, u)'
    BY <1>1, <1>2, <2>2, EndsHolds, AdmittedKept
  <2> QED
    BY <2>1, <2>2, <2>3 DEF StaysOut, LockedOut
<1>5. CASE (\E v \in User : UpdateUser(v)) \/ Tick \/ UNCHANGED vars
  <2>1. UNCHANGED <<sessions, request, accessUntil>>
    BY <1>5 DEF UpdateUser, Tick, vars
  <2> QED
    BY <1>1, <2>1 DEF StaysOut, LockedOut, Admitted
<1> QED
  BY <1>3, <1>4, <1>5, StepKinds

(* An account that was deactivated, and for which no request is under way,  *)
(* keeps its sessions as they are, and is handed no access token, until it  *)
(* is activated again.                                                      *)
THEOREM DeactivationIsFinal == Spec => DeactivationHolds
<1> DEFINE Out == \A u \in User : LockedOut(u) /\ ~ active'[u] =>
                    /\ LockedOut(u)'
                    /\ \A s \in OwnedBy(u) \cup OwnedBy(u)' : sessions'[s] = sessions[s]
                    /\ accessUntil'[u] = accessUntil[u]
<1>1. TypeInv /\ [Next]_vars => [Out]_vars
  BY StaysOutStep DEF StaysOut
<1> QED
  BY <1>1, TypeInvariant, PTL DEF Spec, DeactivationHolds

-----------------------------------------------------------------------------
(* Successors.                                                              *)

AbsentBlank ==
  \A s \in Session : sessions[s].state = "absent" =>
    sessions[s].used = FALSE /\ sessions[s].replacedBy = None

(* No row outlives a full lifetime from now, and what a request took from   *)
(* the clock still relates to its row as it did then.                       *)
Dated ==
  /\ \A s \in Session : sessions[s].state # "absent" =>
       sessions[s].expires <= clock + RefreshLife
  /\ \A w \in Worker :
       /\ request[w].pc \in {"create", "rotate"} => request[w].at <= clock
       /\ request[w].pc = "rotate" =>
            sessions[request[w].token].expires <= request[w].at + RefreshLife

LinkInv == ForkInv /\ AbsentBlank /\ Dated /\ SuccessorLink

(* At first nothing is linked and nothing dated.                            *)
LEMMA LinkInit == Init => LinkInv
<1> SUFFICES ASSUME Init PROVE LinkInv
  OBVIOUS
<1>1. /\ \A s \in Session : lineage[s].parent = None
      /\ \A w \in Worker : request[w].pc = "idle"
      /\ \A s \in Session : /\ sessions[s].state = "absent"
                             /\ sessions[s].used = FALSE
                             /\ sessions[s].replacedBy = None
  BY NoRowFields DEF Init, Idle, Starting, Unborn
<1>2. \A s \in Session : Children(s) = {}
  BY <1>1, SessionsAssumption DEF Children
<1> QED
  BY <1>1, <1>2, ForkInit DEF LinkInv, AbsentBlank, Dated, SuccessorLink

(* Steps that exchange nothing leave the links as they are.                 *)
LEMMA LinksKept ==
  ASSUME LinkInv,
         UNCHANGED lineage,
         \A s \in Session : /\ sessions'[s].user = sessions[s].user
                            /\ sessions'[s].expires = sessions[s].expires
                            /\ sessions'[s].used = sessions[s].used
                            /\ sessions'[s].replacedBy = sessions[s].replacedBy
                            /\ sessions[s].state = "revoked" => sessions'[s].state = "revoked"
                            /\ sessions'[s].state = "absent" => sessions[s].state = "absent"
  PROVE  AbsentBlank' /\ SuccessorLink'
<1>1. \A s \in Session : Children(s)' = Children(s)
  BY DEF Children
<1>2. AbsentBlank'
  BY DEF LinkInv, AbsentBlank
<1>3. SuccessorLink'
  <2> SUFFICES ASSUME NEW s \in Session
               PROVE  LET next == sessions'[s].replacedBy IN
                      /\ (Children(s)' # {}) <=> (next # None)
                      /\ sessions'[s].used <=> (next # None)
                      /\ next # None =>
                           /\ next \in Children(s)'
                           /\ sessions'[s].state = "revoked"
                           /\ sessions'[next].user = sessions'[s].user
                           /\ sessions'[s].expires <= sessions'[next].expires
    BY DEF SuccessorLink
  <2>1. sessions'[s].replacedBy # None => sessions'[s].replacedBy \in Session
    BY DEF LinkInv, ForkInv, TypeInv, TypeOK, Row
  <2> QED
    BY <1>1, <2>1 DEF LinkInv, SuccessorLink
<1> QED
  BY <1>2, <1>3

(* A row that is absent has no successors, and is nobody's successor.       *)
LEMMA AbsentChildless ==
  ASSUME LinkInv, NEW s \in Session, sessions[s].state = "absent"
  PROVE  /\ Children(s) = {}
         /\ \A q \in Session : s \notin Children(q)
BY SessionsAssumption
   DEF LinkInv, ForkInv, ParentsRevoked, AbsentUnborn, Unborn, Children

(* A commit that adds row t leaves the links of every other row alone.      *)
LEMMA OtherLinksKept ==
  ASSUME LinkInv, NEW t \in Session, NEW s \in Session,
         sessions[t].state = "absent",
         s # t,
         sessions'[s] = sessions[s],
         RowsKept,
         Children(s)' = Children(s)
  PROVE  LET next == sessions'[s].replacedBy IN
         /\ (Children(s)' # {}) <=> (next # None)
         /\ sessions'[s].used <=> (next # None)
         /\ next # None =>
              /\ next \in Children(s)'
              /\ sessions'[s].state = "revoked"
              /\ sessions'[next].user = sessions'[s].user
              /\ sessions'[s].expires <= sessions'[next].expires
<1> DEFINE next == sessions[s].replacedBy
<1>1. CASE next = None
  BY <1>1 DEF LinkInv, SuccessorLink
<1>2. CASE next # None
  <2>1. next \in Children(s) /\ next \in Session
    BY <1>2 DEF LinkInv, SuccessorLink, Children
  <2>2. sessions[next].state # "absent"
    BY <2>1, AbsentChildless
  <2>3. /\ sessions'[next].user = sessions[next].user
        /\ sessions'[next].expires = sessions[next].expires
    BY <2>1, <2>2 DEF RowsKept
  <2> QED
    BY <1>2, <2>1, <2>3 DEF LinkInv, SuccessorLink
<1> QED
  BY <1>1, <1>2

(* The row of a login starts with no link to or from it.                    *)
LEMMA CreateLinks ==
  ASSUME LinkInv, NEW w \in Worker, CreateSession(w)
  PROVE  AbsentBlank' /\ SuccessorLink'
<1> DEFINE u == request[w].user
           at == request[w].at
<1>1. TypeInv /\ RowsKept /\ u \in User /\ at \in Nat
  BY CommitTypes
     DEF LinkInv, ForkInv, TypeInv, TypeOK, RequestsHold, Holds, Request, CreateSession, At
<1>2. PICK t \in Session :
        /\ sessions[t].state = "absent"
        /\ sessions' = [sessions EXCEPT ![t] = NewRow(u, at)]
        /\ lineage' = [lineage EXCEPT
                         ![t] = [parent |-> None, worker |-> w, root |-> t]]
  BY DEF CreateSession
<1>3. /\ sessions'[t].state = "open"
      /\ sessions'[t].used = FALSE
      /\ sessions'[t].replacedBy = None
      /\ \A q \in Session \ {t} : sessions'[q] = sessions[q]
  BY <1>1, <1>2, NewRowFields DEF TypeInv, TypeOK
<1>4. \A q \in Session : Children(q)' = Children(q)
  <2>1. lineage[t].parent = None /\ lineage'[t].parent = None
    BY <1>1, <1>2 DEF LinkInv, ForkInv, AbsentUnborn, Unborn, TypeInv, TypeOK
  <2>2. \A q \in Session : lineage'[q].parent = lineage[q].parent
    BY <1>1, <1>2, <2>1 DEF TypeInv, TypeOK
  <2> QED
    BY <2>2 DEF Children
<1>5. AbsentBlank'
  BY <1>3 DEF LinkInv, AbsentBlank
<1>6. SuccessorLink'
  <2>1. Children(t)' = {}
    BY <1>2, <1>4, AbsentChildless
  <2> QED
    BY <1>1, <1>2, <1>3, <1>4, <2>1, OtherLinksKept DEF SuccessorLink
<1> QED
  BY <1>5, <1>6

(* A rotation links its row to the successor, over an older link perhaps.   *)
LEMMA RotateLinks ==
  ASSUME LinkInv, NEW w \in Worker, RotateRefreshToken(w)
  PROVE  AbsentBlank' /\ SuccessorLink'
<1>0. PICK s \in Session : s = request[w].token
  BY Rotation DEF LinkInv, ForkInv
<1> DEFINE u == sessions[s].user
<1>1. /\ sessions[s].state # "absent" /\ u \in User
      /\ sessions[s].expires <= request[w].at + RefreshLife
      /\ sessions[s].expires \in Nat /\ request[w].at \in Nat
  BY <1>0, Rotation DEF LinkInv, ForkInv, TypeInv, TypeOK, Request, Row, Dated
<1>2. TypeInv /\ RowsKept
  BY CommitTypes DEF LinkInv, ForkInv
<1>3. PICK t \in Session, now \in Nat :
        /\ request[w].at <= now
        /\ sessions[t].state = "absent"
        /\ sessions' = [sessions EXCEPT ![s] = Rotated(@, t), ![t] = NewRow(u, now)]
        /\ lineage' = [lineage EXCEPT
                         ![t] = [parent |-> s, worker |-> w, root |-> lineage[s].root]]
  BY <1>0, <1>2, Rotation
<1>4. /\ s # t /\ sessions[s] \in Row
      /\ sessions \in [Session -> Row] /\ lineage \in [Session -> Birth]
  BY <1>1, <1>2, <1>3 DEF TypeInv, TypeOK
<1>5. /\ sessions'[s] = Rotated(sessions[s], t)
      /\ sessions'[t] = NewRow(u, now)
      /\ \A q \in Session \ {s, t} : sessions'[q] = sessions[q]
  BY <1>1, <1>3, <1>4
<1>6. /\ sessions'[s].state = "revoked" /\ sessions'[s].used = TRUE
      /\ sessions'[s].replacedBy = t /\ sessions'[s].user = u
      /\ sessions'[s].expires = sessions[s].expires
  <2>1. /\ Rotated(sessions[s], t).state = "revoked"
        /\ Rotated(sessions[s], t).used = TRUE
        /\ Rotated(sessions[s], t).replacedBy = t
        /\ Rotated(sessions[s], t).user = u
        /\ Rotated(sessions[s], t).expires = sessions[s].expires
    BY <1>4, RotatedFields
  <2> QED
    BY <1>5, <2>1
<1>7. /\ sessions'[t].state = "open" /\ sessions'[t].used = FALSE
      /\ sessions'[t].replacedBy = None /\ sessions'[t].user = u
      /\ sessions'[t].expires = now + RefreshLife
  <2>1. u \in User /\ now \in Nat
    BY <1>1
  <2> HIDE DEF u
  <2>2. /\ NewRow(u, now).state = "open" /\ NewRow(u, now).used = FALSE
        /\ NewRow(u, now).replacedBy = None /\ NewRow(u, now).user = u
        /\ NewRow(u, now).expires = now + RefreshLife
    BY <2>1, NewRowFields
  <2> QED
    BY <1>5, <2>2
<1>8. /\ Children(s)' = Children(s) \cup {t}
      /\ \A q \in Session \ {s} : Children(q)' = Children(q)
  <2>1. lineage[t].parent = None
    BY <1>3 DEF LinkInv, ForkInv, AbsentUnborn, Unborn
  <2>2. /\ lineage'[t].parent = s
        /\ \A q \in Session \ {t} : lineage'[q] = lineage[q]
    BY <1>3, <1>4
  <2>3. \A c, q \in Session :
          lineage'[c].parent = q <=> (lineage[c].parent = q \/ (c = t /\ q = s))
    BY <1>1, <2>1, <2>2, SessionsAssumption
  <2>4. Children(s)' = Children(s) \cup {t}
    BY <1>1, <2>3 DEF Children
  <2>5. ASSUME NEW q \in Session \ {s}
        PROVE  Children(q)' = Children(q)
    BY <2>3, <2>5 DEF Children
  <2> QED
    BY <2>4, <2>5
<1>9. AbsentBlank'
  BY <1>5, <1>6, <1>7 DEF LinkInv, AbsentBlank
<1>10. SuccessorLink'
  <2>1. Children(t)' = {}
    BY <1>3, <1>4, <1>8, AbsentChildless
  <2> SUFFICES ASSUME NEW q \in Session
               PROVE  LET next == sessions'[q].replacedBy IN
                      /\ (Children(q)' # {}) <=> (next # None)
                      /\ sessions'[q].used <=> (next # None)
                      /\ next # None =>
                           /\ next \in Children(q)'
                           /\ sessions'[q].state = "revoked"
                           /\ sessions'[next].user = sessions'[q].user
                           /\ sessions'[q].expires <= sessions'[next].expires
    BY DEF SuccessorLink
  <2>2. CASE q = s
    <3>1. t # None /\ t \in Children(s)'
      BY <1>8, SessionsAssumption
    <3>2. sessions'[s].expires <= sessions'[t].expires
      BY <1>1, <1>3, <1>6, <1>7, SessionsAssumption
    <3> QED
      BY <1>6, <1>7, <2>2, <3>1, <3>2 DEF Children
  <2>3. CASE q = t
    BY <1>7, <2>1, <2>3
  <2>4. CASE q \notin {s, t}
    BY <1>2, <1>3, <1>5, <1>8, <2>4, OtherLinksKept
  <2> QED
    BY <2>2, <2>3, <2>4
<1> QED
  BY <1>9, <1>10

(* What each kind of step does to the dates.                                *)
LEMMA ReadStepDated ==
  ASSUME LinkInv, NEW w \in Worker, ReadStep(w)
  PROVE  Dated'
<1>1. TypeInv /\ UNCHANGED <<clock, sessions>> /\ clock \in Nat /\ request[w] \in Request
  BY ReadStepUnchanged, SessionsAssumption DEF LinkInv, ForkInv, TypeInv, TypeOK
<1> DEFINE Checked(pc) == [request[w] EXCEPT !.pc = pc, !.at = clock]
<1>2. \A pc \in Phase : /\ Checked(pc).pc = pc
                        /\ Checked(pc).at = clock
                        /\ Checked(pc).token = request[w].token
  <2> TAKE pc \in Phase
  <2> QED
    BY <1>1 DEF Request
<1> HIDE DEF Checked
<1>3. Idle.pc = "idle"
  BY DEF Idle, Starting
<1>4. ASSUME NEW r, Become(w, r)
      PROVE  request'[w] = r
  BY <1>1, <1>4 DEF Become, TypeInv, TypeOK
<1>5. \/ request'[w].pc \notin {"create", "rotate"}
      \/ request'[w].pc = "create" /\ request'[w].at = clock
      \/ /\ request'[w].pc = "rotate"
         /\ request'[w].at = clock
         /\ request'[w].token = request[w].token
         /\ request[w].pc = "refresh"
  <2>1. ASSUME NEW u \in User, Authenticate(w, u) \/ AuthorizeLogoutAll(w, u)
        PROVE  request'[w].pc \notin {"create", "rotate"}
    BY <1>4, <2>1 DEF Authenticate, AuthorizeLogoutAll, Starting
  <2>2. ASSUME CheckLogin(w)
        PROVE  request'[w] = Checked("create")
    BY <1>4, <2>2 DEF CheckLogin, Checked
  <2>3. ASSUME NEW s \in Session, NEW op \in {"refresh", "logout"}, SelectSession(w, s, op)
        PROVE  request'[w].pc \notin {"create", "rotate"}
    BY <1>4, <2>3 DEF SelectSession, Starting
  <2>4. ASSUME CheckSession(w, "refresh", "rotate")
        PROVE  \/ request'[w] = Idle
               \/ /\ request'[w] = Checked("rotate")
                  /\ request[w].pc = "refresh"
    BY <1>4, <2>4 DEF CheckSession, At, Checked
  <2>5. ASSUME CheckSession(w, "logout", "revoke")
        PROVE  request'[w] = Idle \/ request'[w] = Checked("revoke")
    BY <1>4, <2>5 DEF CheckSession, Checked
  <2>6. ASSUME SelectOpenSessions(w)
        PROVE  request'[w].pc = "sweep"
    BY <1>1, <1>4, <2>6 DEF SelectOpenSessions, Request
  <2>7. ASSUME Abort(w) \/ CreateAccessToken(w)
        PROVE  request'[w] = Idle
    BY <1>4, <2>7 DEF Abort, CreateAccessToken
  <2> QED
    BY <1>2, <1>3, <2>1, <2>2, <2>3, <2>4, <2>5, <2>6, <2>7 DEF ReadStep, Phase
<1>6. request[w].pc = "refresh" =>
        sessions[request[w].token].expires <= clock + RefreshLife
  BY <1>1 DEF LinkInv, Dated, TypeInv, RequestsHold, Holds
<1>7. \A v \in Worker \ {w} : request'[v] = request[v]
  BY <1>1, ReadStepHolds
<1>8. /\ request'[w].pc \in {"create", "rotate"} => request'[w].at <= clock
      /\ request'[w].pc = "rotate" =>
           sessions[request'[w].token].expires <= request'[w].at + RefreshLife
  BY <1>1, <1>5, <1>6
<1> QED
  BY <1>1, <1>7, <1>8 DEF LinkInv, Dated

(* A commit dates its row with a time already past.                         *)
LEMMA CommitDated ==
  ASSUME LinkInv, NEW w \in Worker,
         CreateSession(w) \/ RotateRefreshToken(w) \/ RevokeRefreshToken(w)
           \/ RevokeAllSessions(w)
  PROVE  Dated'
<1>1. TypeInv /\ RowsKept /\ Ends(w) /\ UNCHANGED clock
  BY CommitTypes DEF LinkInv, ForkInv
<1>2. clock \in Nat /\ sessions \in [Session -> Row]
  BY <1>1, SessionsAssumption DEF TypeInv, TypeOK
<1>3. \A s \in Session : sessions[s].state = "absent" =>
        \/ sessions'[s].state = "absent"
        \/ \E now \in Nat : now <= clock /\ sessions'[s].expires = now + RefreshLife
  <2> TAKE s \in Session
  <2> HAVE sessions[s].state = "absent"
  <2>1. CASE CreateSession(w)
    <3>1. request[w].at \in Nat /\ request[w].at <= clock
      BY <1>1, <2>1 DEF CreateSession, At, LinkInv, Dated, TypeInv, TypeOK, Request
    <3> QED
      BY <1>2, <2>1, <3>1 DEF CreateSession, NewRow
  <2>2. CASE RotateRefreshToken(w)
    <3>1. PICK t \in Session, now \in Nat :
            /\ now <= clock
            /\ sessions' = [sessions EXCEPT
                              ![request[w].token] = Rotated(@, t),
                              ![t] = NewRow(sessions[request[w].token].user, now)]
      BY <1>1, <2>2, Rotation
    <3>2. s # request[w].token
      BY <1>1, <2>2, Rotation
    <3> QED
      BY <1>2, <3>1, <3>2 DEF NewRow
  <2>3. CASE RevokeRefreshToken(w)
    BY <1>1, <2>3, RevokeOne
  <2>4. CASE RevokeAllSessions(w)
    BY <1>1, <2>4 DEF RevokeAllSessions, At, TypeInv, RequestsHold, Holds
  <2> QED
    BY <2>1, <2>2, <2>3, <2>4
<1>4. \A s \in Session : sessions'[s].state # "absent" =>
        sessions'[s].expires <= clock + RefreshLife
  <2> TAKE s \in Session
  <2> HAVE sessions'[s].state # "absent"
  <2>1. CASE sessions[s].state # "absent"
    BY <1>1, <2>1 DEF LinkInv, Dated, RowsKept
  <2>2. CASE sessions[s].state = "absent"
    <3>1. PICK now \in Nat : now <= clock /\ sessions'[s].expires = now + RefreshLife
      BY <1>3, <2>2
    <3> QED
      BY <1>2, <3>1, SessionsAssumption
  <2> QED
    BY <2>1, <2>2
<1>5. /\ request'[w].pc \in {"idle", "answer"}
      /\ \A v \in Worker \ {w} : request'[v] = request[v]
  BY <1>1, EndsHolds
<1>6. \A v \in Worker : request[v].pc = "rotate" =>
        sessions'[request[v].token].expires = sessions[request[v].token].expires
  BY <1>1 DEF TypeInv, RequestsHold, Holds, RowsKept
<1> QED
  BY <1>1, <1>4, <1>5, <1>6 DEF LinkInv, Dated

(* Every step keeps links and dates.                                        *)
LEMMA LinkStep == LinkInv /\ [Next]_vars => LinkInv'
<1> SUFFICES ASSUME LinkInv, [Next]_vars PROVE LinkInv'
  OBVIOUS
<1>0. ForkInv /\ ForkInv' /\ TypeInv /\ TypeInv'
  BY ForkStep, TypeStep DEF LinkInv, ForkInv
<1>1. ASSUME NEW w \in Worker, ReadStep(w)
      PROVE  LinkInv'
  BY <1>0, <1>1, ReadStepUnchanged, ReadStepDated, LinksKept DEF LinkInv
<1>2. ASSUME NEW w \in Worker, CreateSession(w)
      PROVE  LinkInv'
  BY <1>0, <1>2, CreateLinks, CommitDated DEF LinkInv
<1>3. ASSUME NEW w \in Worker, RotateRefreshToken(w)
      PROVE  LinkInv'
  BY <1>0, <1>3, RotateLinks, CommitDated DEF LinkInv
<1>4. ASSUME NEW w \in Worker, RevokeRefreshToken(w) \/ RevokeAllSessions(w)
      PROVE  LinkInv'
  <2>1. PICK rows \in SUBSET Session :
          /\ \A s \in rows : sessions[s].state # "absent"
          /\ sessions' = [s \in Session |-> IF s \in rows THEN Revoked(sessions[s])
                                                           ELSE sessions[s]]
    <3>1. CASE RevokeRefreshToken(w)
      BY <1>0, <3>1, RevokeOne
    <3>2. CASE RevokeAllSessions(w)
      BY <1>0, <3>2
         DEF RevokeAllSessions, At, TypeInv, TypeOK, Request, RequestsHold, Holds
    <3> QED
      BY <1>4, <3>1, <3>2
  <2>2. \A s \in Session : /\ Revoked(sessions[s]).state = "revoked"
                           /\ Revoked(sessions[s]).user = sessions[s].user
                           /\ Revoked(sessions[s]).expires = sessions[s].expires
                           /\ Revoked(sessions[s]).used = sessions[s].used
                           /\ Revoked(sessions[s]).replacedBy = sessions[s].replacedBy
    BY <1>0, RevokedFields DEF TypeInv, TypeOK
  <2>3. UNCHANGED lineage
    BY <1>4 DEF RevokeRefreshToken, RevokeAllSessions
  <2>4. AbsentBlank' /\ SuccessorLink'
    BY <2>1, <2>2, <2>3, LinksKept
  <2> QED
    BY <1>0, <1>4, <2>4, CommitDated DEF LinkInv
<1>5. CASE (\E u \in User : UpdateUser(u)) \/ Tick \/ UNCHANGED vars
  <2>1. /\ UNCHANGED <<sessions, lineage, request>>
        /\ clock' = clock \/ clock' = clock + 1
    BY <1>5 DEF UpdateUser, Tick, vars
  <2>2. AbsentBlank' /\ SuccessorLink'
    BY <2>1, LinksKept
  <2>3. Dated'
    BY <1>0, <2>1, SessionsAssumption
       DEF LinkInv, Dated, TypeInv, TypeOK, Request, Row, RequestsHold, Holds
  <2> QED
    BY <1>0, <2>2, <2>3 DEF LinkInv
<1> QED
  BY <1>1, <1>2, <1>3, <1>4, <1>5, StepKinds

(* Links and dates agree however long a request waits before it commits.    *)
THEOREM LinkInvariant == Spec => []LinkInv
BY LinkInit, LinkStep, PTL DEF Spec

(* replaced_by_session_id always names a later row of the same account that *)
(* the token really was exchanged for.                                      *)
THEOREM SuccessorsLinked == Spec => []SuccessorLink
BY LinkInvariant, PTL DEF LinkInv

-----------------------------------------------------------------------------
(* Expiry.                                                                  *)

(* A request about to commit an exchange or a logout has just tested its    *)
(* token against the clock, or did so before this step.                     *)
LEMMA ReadStepTested ==
  ASSUME TypeInv, NEW w \in Worker, ReadStep(w),
         request'[w].pc \in {"rotate", "revoke"}
  PROVE  /\ request'[w].token = request[w].token
         /\ NotExpired(sessions[request[w].token])
<1> USE DEF TypeInv, TypeOK, Become, At
<1>1. request[w] \in Request /\ clock \in Nat
  BY SessionsAssumption
<1>2. ASSUME NEW r, Become(w, r)
      PROVE  request'[w] = r
  BY <1>2
<1>3. Idle.pc = "idle"
  BY DEF Idle, Starting
<1> DEFINE Checked(pc) == [request[w] EXCEPT !.pc = pc, !.at = clock]
<1>4. \A pc \in Phase : Checked(pc).pc = pc /\ Checked(pc).token = request[w].token
  <2> TAKE pc \in Phase
  <2> QED
    BY <1>1 DEF Request
<1> HIDE DEF Checked
<1>5. ASSUME NEW u \in User, Authenticate(w, u) \/ AuthorizeLogoutAll(w, u)
      PROVE  FALSE
  BY <1>2, <1>5 DEF Authenticate, AuthorizeLogoutAll, Starting
<1>6. ASSUME CheckLogin(w)
      PROVE  FALSE
  <2>1. request'[w] = Checked("create")
    BY <1>2, <1>6 DEF CheckLogin, Checked
  <2> QED
    BY <1>4, <2>1 DEF Phase
<1>7. ASSUME NEW s \in Session, NEW op \in {"refresh", "logout"}, SelectSession(w, s, op)
      PROVE  FALSE
  BY <1>2, <1>7 DEF SelectSession, Starting
<1>8. ASSUME NEW op \in {"refresh", "logout"}, NEW next \in {"rotate", "revoke"},
             CheckSession(w, op, next)
      PROVE  /\ request'[w].token = request[w].token
             /\ NotExpired(sessions[request[w].token])
  <2>1. CASE NotExpired(sessions[request[w].token])
    <3>1. request'[w] = Idle \/ request'[w] = Checked(next)
      BY <1>2, <1>8 DEF CheckSession, Checked
    <3> QED
      BY <1>3, <1>4, <2>1, <3>1 DEF Phase
  <2>2. CASE ~ NotExpired(sessions[request[w].token])
    BY <1>2, <1>3, <1>8, <2>2 DEF CheckSession
  <2> QED
    BY <2>1, <2>2
<1>9. ASSUME SelectOpenSessions(w)
      PROVE  FALSE
  BY <1>1, <1>2, <1>9 DEF SelectOpenSessions, Request
<1>10. ASSUME Abort(w) \/ CreateAccessToken(w)
       PROVE  FALSE
  BY <1>2, <1>3, <1>10 DEF Abort, CreateAccessToken
<1> QED
  BY <1>5, <1>6, <1>7, <1>8, <1>9, <1>10 DEF ReadStep

(* What a lapsed token keeps in any step.                                   *)
StaysLapsed(s) ==
  /\ Lapsed(s)'
  /\ Children(s)' = Children(s)
  /\ sessions'[s] \in {sessions[s], Revoked(sessions[s])}

(* A row that is there has its successors but for what a rotation adds.     *)
LEMMA CommitChildren ==
  ASSUME ForkInv, NEW w \in Worker, NEW s \in Session,
         NEW t \in Session, sessions[t].state = "absent",
         NEW b, lineage' = [lineage EXCEPT ![t] = b], b.parent # s
  PROVE  Children(s)' = Children(s)
<1>1. lineage[t].parent # s
  BY SessionsAssumption DEF ForkInv, AbsentUnborn, Unborn
<1>2. \A q \in Session : lineage'[q].parent = s <=> lineage[q].parent = s
  BY <1>1 DEF ForkInv, TypeInv, TypeOK
<1> QED
  BY <1>2 DEF Children

(* No step exchanges a lapsed token, and only a logout-all writes its row.  *)
LEMMA LapsedStep ==
  ASSUME ForkInv, [Next]_vars, NEW s \in Session, Lapsed(s)
  PROVE  StaysLapsed(s)
<1>1. /\ TypeInv /\ RowsKept /\ clock \in Nat
      /\ sessions[s].state # "absent" /\ sessions[s] \in Row
      /\ sessions[s].expires \in Nat /\ sessions[s].expires <= clock
  BY RowsKeptStep, SessionsAssumption DEF ForkInv, TypeInv, TypeOK, Row, Lapsed
<1>2. ASSUME NEW w \in Worker, ReadStep(w)
      PROVE  StaysLapsed(s)
  <2>1. UNCHANGED <<clock, sessions, lineage>>
    BY <1>2, ReadStepUnchanged
  <2>2. \A v \in Worker : request'[v].pc \in {"rotate", "revoke"} => request'[v].token # s
    <3> SUFFICES ASSUME NEW v \in Worker, request'[v].pc \in {"rotate", "revoke"}
                 PROVE  request'[v].token # s
      OBVIOUS
    <3>1. CASE v = w
      BY <1>1, <1>2, <3>1, ReadStepTested DEF NotExpired
    <3>2. CASE v # w
      BY <1>1, <1>2, <3>2, ReadStepHolds DEF Lapsed
    <3> QED
      BY <3>1, <3>2
  <2> QED
    BY <1>1, <2>1, <2>2 DEF StaysLapsed, Lapsed, Children
<1>3. ASSUME NEW w \in Worker,
             \/ CreateSession(w) \/ RotateRefreshToken(w)
             \/ RevokeRefreshToken(w) \/ RevokeAllSessions(w)
      PROVE  StaysLapsed(s)
  <2>1. Ends(w) /\ UNCHANGED clock
    BY <1>1, <1>3, CommitTypes
  <2>2. \A v \in Worker : request'[v].pc \in {"rotate", "revoke"} => request'[v].token # s
    BY <1>1, <2>1, EndsHolds DEF Lapsed
  <2>3. sessions'[s].state # "absent" /\ sessions'[s].expires = sessions[s].expires
    BY <1>1 DEF RowsKept
  <2>4. Lapsed(s)'
    BY <1>1, <2>1, <2>2, <2>3 DEF Lapsed
  <2>5. CASE CreateSession(w)
    <3>1. PICK t \in Session :
            /\ sessions[t].state = "absent"
            /\ sessions' = [sessions EXCEPT ![t] = NewRow(request[w].user, request[w].at)]
            /\ lineage' = [lineage EXCEPT
                             ![t] = [parent |-> None, worker |-> w, root |-> t]]
      BY <2>5 DEF CreateSession
    <3>2. sessions'[s] = sessions[s]
      BY <1>1, <3>1 DEF TypeInv, TypeOK
    <3>3. Children(s)' = Children(s)
      BY <3>1, CommitChildren, SessionsAssumption
    <3> QED
      BY <2>4, <3>2, <3>3 DEF StaysLapsed
  <2>6. CASE RotateRefreshToken(w)
    <3> DEFINE o == request[w].token
    <3>1. PICK t \in Session, now \in Nat :
            /\ sessions[t].state = "absent"
            /\ sessions' = [sessions EXCEPT ![o] = Rotated(@, t),
                                            ![t] = NewRow(sessions[o].user, now)]
            /\ lineage' = [lineage EXCEPT
                             ![t] = [parent |-> o, worker |-> w, root |-> lineage[o].root]]
      BY <1>1, <2>6, Rotation
    <3>2. o # s
      BY <1>1, <2>6, Rotation DEF Lapsed
    <3>3. sessions'[s] = sessions[s]
      BY <1>1, <3>1, <3>2 DEF TypeInv, TypeOK
    <3>4. Children(s)' = Children(s)
      BY <3>1, <3>2, CommitChildren
    <3> QED
      BY <2>4, <3>3, <3>4 DEF StaysLapsed
  <2>7. CASE RevokeRefreshToken(w)
    <3>1. request[w].token # s
      BY <2>7 DEF RevokeRefreshToken, At, Lapsed
    <3>2. sessions'[s] = sessions[s] /\ UNCHANGED lineage
      BY <1>1, <2>7, <3>1, RevokeOne DEF RevokeRefreshToken
    <3> QED
      BY <2>4, <3>2 DEF StaysLapsed, Children
  <2>8. CASE RevokeAllSessions(w)
    BY <2>4, <2>8 DEF RevokeAllSessions, StaysLapsed, Children
  <2> QED
    BY <1>3, <2>5, <2>6, <2>7, <2>8
<1>4. CASE (\E u \in User : UpdateUser(u)) \/ Tick \/ UNCHANGED vars
  <2>1. UNCHANGED <<sessions, lineage, request>> /\ (clock' = clock \/ clock' = clock + 1)
    BY <1>4 DEF UpdateUser, Tick, vars
  <2> QED
    BY <1>1, <2>1 DEF StaysLapsed, Lapsed, Children
<1> QED
  BY <1>2, <1>3, <1>4, StepKinds

(* Once the requests that tested it in time have ended, an expired token    *)
(* never has another successor, and its row is only ever revoked.           *)
THEOREM ExpiryIsFinal == Spec => ExpiryHolds
<1> DEFINE Final == \A s \in Session : Lapsed(s) =>
                      /\ Lapsed(s)'
                      /\ Children(s)' = Children(s)
                      /\ sessions'[s] \in {sessions[s], Revoked(sessions[s])}
<1>1. ForkInv /\ [Next]_vars => [Final]_vars
  BY LapsedStep DEF StaysLapsed
<1> QED
  BY <1>1, ForkInvariant, PTL DEF Spec, ExpiryHolds

-----------------------------------------------------------------------------
(* Refinement of the contract of overlapping requests.                      *)

(* The token a request may exchange, and what one that ends may not.        *)
ClaimOf(r) == IF r.pc \in {"refresh", "rotate"} THEN r.token ELSE None

Claims == [w \in Worker |-> ClaimOf(request[w])]

(* The mapping of Sessions to the contract, with the claims named.          *)
LEMMA OverlapClaims ==
  [w \in Worker |-> IF request[w].pc \in {"refresh", "rotate"}
                      THEN request[w].token ELSE None] = Claims
BY DEF Claims, ClaimOf

(* The empty table and idle workers are the contract's initial state.       *)
LEMMA OverlapInit == Init => Overlap!Init
BY DEF Init, Overlap!Init, NoRow, Unborn, Idle, Starting

(* A request that reads takes a claim on an open token, keeps the one it    *)
(* has, or ends up with none.                                               *)
LEMMA ReadClaims ==
  ASSUME TypeInv, NEW w \in Worker, ReadStep(w)
  PROVE  Overlap!Next \/ UNCHANGED Overlap!overlapVars
<1> DEFINE c == ClaimOf(request'[w])
<1>1. UNCHANGED <<sessions, lineage>>
  BY ReadStepUnchanged
<1>2. \A v \in Worker \ {w} : request'[v] = request[v]
  BY ReadStepHolds
<1>3. Claims' = [Claims EXCEPT ![w] = c]
  BY <1>2 DEF Claims
<1> HIDE DEF c
<1>4. \/ c = None
      \/ c = ClaimOf(request[w])
      \/ /\ ClaimOf(request[w]) = None
         /\ c \in Session
         /\ sessions[c].state = "open"
  BY ReadStepToken DEF ClaimOf, c
<1>5. CASE c = None
  <2>1. Overlap!Drop(w)
    BY <1>1, <1>3, <1>5, OverlapClaims DEF Overlap!Drop, Claims, ClaimOf
  <2> QED
    BY <2>1 DEF Overlap!Next
<1>6. CASE c = ClaimOf(request[w])
  <2>1. Claims' = Claims
    BY <1>3, <1>6 DEF Claims
  <2> QED
    BY <1>1, <2>1 DEF Overlap!overlapVars, Claims, ClaimOf
<1>7. CASE /\ ClaimOf(request[w]) = None
           /\ c \in Session
           /\ sessions[c].state = "open"
  <2>1. PICK s \in Session : s = c
    BY <1>7
  <2>2. Overlap!Claim(w, s)
    BY <1>1, <1>3, <1>7, <2>1 DEF Overlap!Claim, Claims, ClaimOf
  <2> QED
    BY <2>2 DEF Overlap!Next
<1> QED
  BY <1>4, <1>5, <1>6, <1>7

(* A request that commits anything but an exchange has no claim, and none   *)
(* afterwards.                                                              *)
LEMMA NoClaims ==
  ASSUME TypeInv, NEW w \in Worker, Ends(w)
  PROVE  /\ Claims' = [Claims EXCEPT ![w] = None]
         /\ request[w].pc \notin {"refresh", "rotate"} =>
              Claims[w] = None /\ Claims' = Claims
<1>1. /\ request'[w].pc \in {"idle", "answer"}
      /\ \A v \in Worker \ {w} : request'[v] = request[v]
  BY EndsHolds
<1>2. ClaimOf(request'[w]) = None
  BY <1>1 DEF ClaimOf
<1>3. Claims' = [Claims EXCEPT ![w] = None]
  BY <1>1, <1>2 DEF Claims
<1>4. request[w].pc \notin {"refresh", "rotate"} => Claims[w] = None
  BY DEF Claims, ClaimOf
<1> QED
  BY <1>3, <1>4 DEF Claims

(* A login is a grant.                                                      *)
LEMMA CreateIsGrant ==
  ASSUME LinkInv, NEW w \in Worker, CreateSession(w)
  PROVE  Overlap!Next
<1>1. TypeInv /\ AbsentBlank
  BY DEF LinkInv, ForkInv
<1>2. PICK u \in User : u = request[w].user
  BY <1>1 DEF TypeInv, RequestsHold, Holds, CreateSession, At
<1>3. PICK t \in Session :
        /\ sessions[t].state = "absent"
        /\ sessions' = [sessions EXCEPT ![t] = NewRow(u, request[w].at)]
        /\ lineage' = [lineage EXCEPT
                         ![t] = [parent |-> None, worker |-> w, root |-> t]]
  BY <1>2 DEF CreateSession
<1>4. sessions[t].replacedBy = None
  BY <1>1, <1>3 DEF AbsentBlank
<1>5. /\ sessions'[t].state = "open"
      /\ sessions'[t].user = u
      /\ sessions'[t].replacedBy = None
      /\ \A q \in Session \ {t} : sessions'[q] = sessions[q]
  BY <1>1, <1>3 DEF NewRow, TypeInv, TypeOK
<1>6. /\ lineage'[t].root = t
      /\ \A q \in Session \ {t} : lineage'[q] = lineage[q]
  BY <1>1, <1>3 DEF TypeInv, TypeOK
<1>7. Claims[w] = None /\ Claims' = Claims
  BY <1>1, CommitTypes, NoClaims DEF CreateSession, At
<1>8. [s \in Session |-> sessions'[s].user] =
        [[s \in Session |-> sessions[s].user] EXCEPT ![t] = u]
  BY <1>5
<1>9. [s \in Session |-> sessions'[s].state] =
        [[s \in Session |-> sessions[s].state] EXCEPT ![t] = "open"]
  BY <1>5
<1>10. [s \in Session |-> sessions'[s].replacedBy] = [s \in Session |-> sessions[s].replacedBy]
  BY <1>4, <1>5
<1>11. [s \in Session |-> lineage'[s].root] =
         [[s \in Session |-> lineage[s].root] EXCEPT ![t] = t]
  BY <1>6
<1>12. Overlap!Grant(w, u, t)
  BY <1>3, <1>7, <1>8, <1>9, <1>10, <1>11 DEF Overlap!Grant, Claims, ClaimOf
<1> QED
  BY <1>12 DEF Overlap!Next

(* A rotation is an exchange of the token its request has a claim on,       *)
(* whatever has become of that token.                                       *)
LEMMA RotateIsExchange ==
  ASSUME LinkInv, NEW w \in Worker, RotateRefreshToken(w)
  PROVE  Overlap!Next
<1>1. TypeInv /\ AbsentBlank
  BY DEF LinkInv, ForkInv
<1>2. PICK s \in Session : s = request[w].token /\ sessions[s].state # "absent"
  BY <1>1, Rotation
<1>3. PICK t \in Session, now \in Nat :
        /\ sessions[t].state = "absent"
        /\ sessions' = [sessions EXCEPT ![s] = Rotated(@, t),
                                        ![t] = NewRow(sessions[s].user, now)]
        /\ lineage' = [lineage EXCEPT
                         ![t] = [parent |-> s, worker |-> w, root |-> lineage[s].root]]
  BY <1>1, <1>2, Rotation
<1>4. /\ s # t /\ sessions[s] \in Row /\ sessions[t].replacedBy = None
      /\ sessions \in [Session -> Row] /\ lineage \in [Session -> Birth]
  BY <1>1, <1>2, <1>3 DEF TypeInv, TypeOK, AbsentBlank
<1>5. /\ Rotated(sessions[s], t).state = "revoked"
      /\ Rotated(sessions[s], t).user = sessions[s].user
      /\ Rotated(sessions[s], t).replacedBy = t
  BY <1>4, RotatedFields
<1>6. /\ sessions'[s] = Rotated(sessions[s], t)
      /\ sessions'[t].state = "open"
      /\ sessions'[t].user = sessions[s].user
      /\ sessions'[t].replacedBy = None
      /\ \A q \in Session \ {s, t} : sessions'[q] = sessions[q]
  BY <1>2, <1>3, <1>4 DEF NewRow
<1>7. /\ lineage'[t].root = lineage[s].root
      /\ \A q \in Session \ {t} : lineage'[q] = lineage[q]
  BY <1>3, <1>4
<1>8. Claims[w] = s /\ s # None /\ Claims' = [Claims EXCEPT ![w] = None]
  BY <1>1, <1>2, CommitTypes, NoClaims, SessionsAssumption
     DEF RotateRefreshToken, At, Claims, ClaimOf
<1>9. [q \in Session |-> sessions'[q].user] =
        [[q \in Session |-> sessions[q].user] EXCEPT ![t] = sessions[s].user]
  BY <1>4, <1>5, <1>6
<1>10. [q \in Session |-> sessions'[q].state] =
         [[q \in Session |-> sessions[q].state] EXCEPT ![s] = "revoked", ![t] = "open"]
  BY <1>4, <1>5, <1>6
<1>11. [q \in Session |-> sessions'[q].replacedBy] =
         [[q \in Session |-> sessions[q].replacedBy] EXCEPT ![s] = t]
  BY <1>4, <1>5, <1>6
<1>12. [q \in Session |-> lineage'[q].root] =
         [[q \in Session |-> lineage[q].root] EXCEPT ![t] = lineage[s].root]
  BY <1>7
<1>13. Overlap!Exchange(w, t)
  BY <1>2, <1>3, <1>8, <1>9, <1>10, <1>11, <1>12
     DEF Overlap!Exchange, Claims, ClaimOf
<1> QED
  BY <1>13 DEF Overlap!Next

(* A logout or a logout-all revokes rows of one account.                    *)
LEMMA RevokeIsRevoke ==
  ASSUME TypeInv, NEW w \in Worker, NEW rows \in SUBSET Session, NEW u \in User,
         request[w].pc \notin {"refresh", "rotate"}, Ends(w), UNCHANGED lineage,
         \A s \in rows : sessions[s].state # "absent" /\ sessions[s].user = u,
         sessions' = [s \in Session |-> IF s \in rows THEN Revoked(sessions[s])
                                                      ELSE sessions[s]]
  PROVE  Overlap!Next
<1>1. \A s \in Session : /\ Revoked(sessions[s]).state = "revoked"
                         /\ Revoked(sessions[s]).user = sessions[s].user
                         /\ Revoked(sessions[s]).replacedBy = sessions[s].replacedBy
  BY RevokedFields DEF TypeInv, TypeOK
<1>2. Claims[w] = None /\ Claims' = Claims
  BY NoClaims
<1>3. Overlap!Revoke(w, rows)
  BY <1>1, <1>2 DEF Overlap!Revoke, Claims, ClaimOf
<1> QED
  BY <1>3 DEF Overlap!Next

(* Every step is a step of the contract of overlapping requests, or none.   *)
LEMMA OverlapStep ==
  ASSUME LinkInv, [Next]_vars
  PROVE  [Overlap!Next]_Overlap!overlapVars
<1>1. TypeInv
  BY DEF LinkInv, ForkInv
<1>2. ASSUME NEW w \in Worker, RevokeRefreshToken(w)
      PROVE  Overlap!Next
  <2> DEFINE rows == {request[w].token}
             u == sessions[request[w].token].user
  <2>1. /\ rows \in SUBSET Session /\ u \in User
        /\ request[w].pc \notin {"refresh", "rotate"}
        /\ Ends(w) /\ UNCHANGED lineage
        /\ \A s \in rows : sessions[s].state # "absent" /\ sessions[s].user = u
        /\ sessions' = [s \in Session |-> IF s \in rows THEN Revoked(sessions[s])
                                                         ELSE sessions[s]]
    BY <1>1, <1>2, RevokeOne DEF RevokeRefreshToken, Ends, At, TypeInv, TypeOK
  <2> HIDE DEF rows, u
  <2> QED
    BY <1>1, <2>1, RevokeIsRevoke
<1>3. ASSUME NEW w \in Worker, RevokeAllSessions(w)
      PROVE  Overlap!Next
  <2> DEFINE rows == request[w].rows
             u == request[w].user
  <2>1. /\ rows \in SUBSET Session /\ u \in User
        /\ request[w].pc \notin {"refresh", "rotate"}
        /\ Ends(w) /\ UNCHANGED lineage
        /\ \A s \in rows : sessions[s].state # "absent" /\ sessions[s].user = u
        /\ sessions' = [s \in Session |-> IF s \in rows THEN Revoked(sessions[s])
                                                         ELSE sessions[s]]
    BY <1>1, <1>3 DEF RevokeAllSessions, Ends, At, TypeInv, TypeOK, Request,
                      RequestsHold, Holds
  <2> HIDE DEF rows, u
  <2> QED
    BY <1>1, <2>1, RevokeIsRevoke
<1>4. CASE (\E u \in User : UpdateUser(u)) \/ Tick \/ UNCHANGED vars
  BY <1>4 DEF UpdateUser, Tick, vars, Overlap!overlapVars
<1> QED
  BY <1>1, <1>2, <1>3, <1>4, ReadClaims, CreateIsGrant, RotateIsExchange, StepKinds

(* However many requests overlap, the table implements the contract of      *)
(* overlapping refreshes: each exchanges the token it found open at most    *)
(* once, for a token of the same account and login.                         *)
THEOREM OverlapRefinement == Spec => OverlapContractHolds
BY OverlapInit, OverlapStep, LinkInvariant, PTL
   DEF Spec, OverlapContractHolds, Overlap!Spec

-----------------------------------------------------------------------------
(* What the contract promises, said of the table.                           *)

Promised == INSTANCE OverlapContractProofs WITH
  owner  <- [s \in Session |-> sessions[s].user],
  state  <- [s \in Session |-> sessions[s].state],
  next   <- [s \in Session |-> sessions[s].replacedBy],
  family <- [s \in Session |-> lineage[s].root],
  claim  <- [w \in Worker |-> IF request[w].pc \in {"refresh", "rotate"}
                                THEN request[w].token ELSE None]

(* The proofs about the contract are about the contract implemented.        *)
LEMMA PromisedSpec == OverlapContractHolds => Promised!Spec
<1>1. Overlap!Init => Promised!Init
  BY DEF Overlap!Init, Promised!Init
<1>2. [Overlap!Next]_Overlap!overlapVars => [Promised!Next]_Promised!overlapVars
  BY DEF Overlap!Next, Promised!Next, Overlap!overlapVars, Promised!overlapVars,
         Overlap!Grant, Promised!Grant, Overlap!Claim, Promised!Claim,
         Overlap!Drop, Promised!Drop, Overlap!Exchange, Promised!Exchange,
         Overlap!Revoke, Promised!Revoke
<1> QED
  BY <1>1, <1>2, PTL DEF OverlapContractHolds, Overlap!Spec, Promised!Spec

(* A login is finished when the contract calls it over.                     *)
LEMMA FinishedIsOver ==
  ASSUME TypeInv, NEW f \in Session
  PROVE  Finished(f) <=> Promised!Over(f)
<1>1. \A s \in Session : sessions[s].state # "open" <=> ~ Unrevoked(sessions[s])
  BY DEF Unrevoked
<1>2. \A w \in Worker : request[w].pc \in {"refresh", "rotate"} =>
        request[w].token \in Session /\ request[w].token # None
  BY SessionsAssumption DEF TypeInv, RequestsHold, Holds
<1> QED
  BY <1>1, <1>2 DEF Finished, Exchanging, Promised!Over

(* Once the tokens of a login are closed, as by a logout, and the refreshes *)
(* that had found one open have ended, none is ever open again.             *)
THEOREM LogoutIsHeld == Spec => LogoutHolds
<1> DEFINE Stays == \A f \in Session : Finished(f) => Finished(f)'
           Over  == \A f \in Session : Promised!Over(f) => Promised!Over(f)'
           Agree == \A f \in Session : Finished(f) <=> Promised!Over(f)
<1>1. Spec => Promised!StaysOver
  <2>1. Promised!Distinct
    BY SessionsAssumption DEF Promised!Distinct
  <2> QED
    BY <2>1, OverlapRefinement, PromisedSpec, Promised!LoginsStayOver, PTL
<1>2. TypeInv => Agree
  BY FinishedIsOver
<1>3. Agree /\ Agree' /\ [Next]_vars /\ [Over]_Promised!overlapVars => [Stays]_vars
  <2> SUFFICES ASSUME Agree, Agree', [Over]_Promised!overlapVars, NEW f \in Session
               PROVE  Finished(f) => Finished(f)'
    OBVIOUS
  <2>1. (Finished(f) <=> Promised!Over(f)) /\ (Finished(f)' <=> Promised!Over(f)')
    OBVIOUS
  <2> HIDE DEF Agree
  <2>2. CASE Over
    BY <2>1, <2>2
  <2>3. CASE UNCHANGED Promised!overlapVars
    <3>1. Promised!Over(f) => Promised!Over(f)'
      BY <2>3 DEF Promised!Over, Promised!overlapVars
    <3> QED
      BY <2>1, <3>1
  <2> QED
    BY <2>2, <2>3
<1> HIDE DEF Agree, Over, Stays
<1>4. []TypeInv => []Agree
  BY <1>2, PTL
<1> QED
  BY <1>1, <1>3, <1>4, TypeInvariant, PTL
     DEF Spec, LogoutHolds, Promised!StaysOver, Stays, Over

-----------------------------------------------------------------------------
(* Requests that do not overlap.  With one worker, what a request read is   *)
(* still true when it commits.                                              *)

Serial == \A v, w \in Worker : v = w

(* Exchanged at most once: forks need two workers.                          *)
THEOREM SerialSingleUse ==
  ASSUME Serial
  PROVE  Spec => []SingleUse
<1>1. ForkInv => SingleUse
  BY DEF Serial, ForkInv, ForkBounded, ParentsRevoked, SingleUse
<1> QED
  BY <1>1, ForkInvariant, PTL

StillOpen ==
  \A w \in Worker :
    /\ request[w].pc \in {"refresh", "rotate", "logout", "revoke"} =>
         sessions[request[w].token].state = "open"
    /\ request[w].pc = "sweep" =>
         \A s \in request[w].rows : sessions[s].state = "open"

OneOpenPerLogin ==
  \A s, t \in Session :
    /\ sessions[s].state = "open" /\ sessions[t].state = "open"
    /\ lineage[s].root = lineage[t].root
    => s = t

(* Roots, and with them the logins that ended, are rows that exist.         *)
RootsExist ==
  /\ \A s \in Session : sessions[s].state # "absent" =>
       sessions[lineage[s].root].state # "absent"
  /\ \A how \in Ending : \A s \in ended[how] : sessions[s].state # "absent"

SerialInv == LinkInv /\ StillOpen /\ OneOpenPerLogin /\ RootsExist /\ LogoutIsFinal

(* At first nothing is open and no login has ended.                         *)
LEMMA SerialInit == Init => SerialInv
<1> SUFFICES ASSUME Init PROVE SerialInv
  OBVIOUS
<1>1. /\ \A s \in Session : sessions[s].state = "absent"
      /\ \A w \in Worker : request[w].pc = "idle"
      /\ \A how \in Ending : ended[how] = {}
  BY NoRowFields DEF Init, Idle, Starting
<1> QED
  BY <1>1, LinkInit DEF SerialInv, StillOpen, OneOpenPerLogin, RootsExist,
                        LogoutIsFinal, Unrevoked

(* The rows the only worker reads are open when it reads them.              *)
LEMMA ReadStepStillOpen ==
  ASSUME Serial, SerialInv, NEW w \in Worker, ReadStep(w)
  PROVE  StillOpen'
<1>1. TypeInv /\ UNCHANGED sessions /\ request[w] \in Request /\ clock \in Nat
  BY ReadStepUnchanged, SessionsAssumption
     DEF SerialInv, LinkInv, ForkInv, TypeInv, TypeOK
<1> DEFINE Checked(pc) == [request[w] EXCEPT !.pc = pc, !.at = clock]
<1>2. \A pc \in Phase : Checked(pc).pc = pc /\ Checked(pc).token = request[w].token
  <2> TAKE pc \in Phase
  <2> QED
    BY <1>1 DEF Request
<1> HIDE DEF Checked
<1>3. Idle.pc = "idle"
  BY DEF Idle, Starting
<1>4. ASSUME NEW r, Become(w, r)
      PROVE  request'[w] = r
  BY <1>1, <1>4 DEF Become, TypeInv, TypeOK
<1> DEFINE OpenInHand ==
             /\ request'[w].pc \in {"refresh", "rotate", "logout", "revoke"} =>
                  sessions[request'[w].token].state = "open"
             /\ request'[w].pc = "sweep" =>
                  \A s \in request'[w].rows : sessions[s].state = "open"
<1>5. ASSUME NEW u \in User, Authenticate(w, u) \/ AuthorizeLogoutAll(w, u)
      PROVE  OpenInHand
  BY <1>4, <1>5 DEF Authenticate, AuthorizeLogoutAll, Starting
<1>6. ASSUME CheckLogin(w)
      PROVE  OpenInHand
  <2>1. request'[w] = Checked("create")
    BY <1>4, <1>6 DEF CheckLogin, Checked
  <2> QED
    BY <1>2, <1>3, <2>1 DEF Phase
<1>7. ASSUME NEW s \in Session, NEW op \in {"refresh", "logout"}, SelectSession(w, s, op)
      PROVE  OpenInHand
  BY <1>4, <1>7 DEF SelectSession, Unrevoked, Starting
<1>8. ASSUME NEW op \in {"refresh", "logout"}, NEW next \in {"rotate", "revoke"},
             CheckSession(w, op, next)
      PROVE  OpenInHand
  <2>1. request'[w] = Idle \/ request'[w] = Checked(next)
    BY <1>4, <1>8 DEF CheckSession, Checked
  <2>2. sessions[request[w].token].state = "open"
    BY <1>8 DEF CheckSession, At, SerialInv, StillOpen
  <2> QED
    BY <1>2, <1>3, <2>1, <2>2 DEF Phase
<1>9. ASSUME SelectOpenSessions(w)
      PROVE  OpenInHand
  <2> DEFINE open == {s \in Session : /\ sessions[s].user = request[w].user
                                      /\ Unrevoked(sessions[s])}
  <2>1. request'[w] = [request[w] EXCEPT !.pc = "sweep", !.rows = open]
    BY <1>4, <1>9 DEF SelectOpenSessions
  <2>2. request'[w].pc = "sweep" /\ request'[w].rows = open
    <3> HIDE DEF open
    <3> QED
      BY <1>1, <2>1 DEF Request
  <2> QED
    BY <2>2 DEF Unrevoked
<1>10. ASSUME Abort(w) \/ CreateAccessToken(w)
       PROVE  OpenInHand
  BY <1>3, <1>4, <1>10 DEF Abort, CreateAccessToken
<1>11. OpenInHand
  BY <1>5, <1>6, <1>7, <1>8, <1>9, <1>10 DEF ReadStep
<1> QED
  BY <1>1, <1>11 DEF Serial, StillOpen

(* The rest of the invariant across the four commits.                       *)
LEMMA CreateSerial ==
  ASSUME SerialInv, NEW w \in Worker, CreateSession(w)
  PROVE  OneOpenPerLogin' /\ RootsExist' /\ LogoutIsFinal'
<1>1. TypeInv /\ RowsKept
  BY CommitTypes DEF SerialInv, LinkInv, ForkInv
<1>2. PICK t \in Session :
        /\ sessions[t].state = "absent"
        /\ sessions' = [sessions EXCEPT ![t] = NewRow(request[w].user, request[w].at)]
        /\ lineage' = [lineage EXCEPT
                         ![t] = [parent |-> None, worker |-> w, root |-> t]]
  BY DEF CreateSession
<1>3. /\ sessions'[t].state = "open" /\ lineage'[t].root = t
      /\ \A q \in Session \ {t} : sessions'[q] = sessions[q] /\ lineage'[q] = lineage[q]
  BY <1>1, <1>2 DEF TypeInv, TypeOK, NewRow
<1>4. \A q \in Session : sessions[q].state # "absent" => lineage[q].root \in Session \ {t}
  BY <1>1, <1>2 DEF TypeInv, Rooted, SerialInv, RootsExist
<1>5. UNCHANGED ended /\ \A how \in Ending : t \notin ended[how] /\ ended[how] \subseteq Session
  BY <1>1, <1>2 DEF CreateSession, SerialInv, RootsExist, TypeInv, TypeOK
<1>6. OneOpenPerLogin'
  BY <1>3, <1>4 DEF SerialInv, OneOpenPerLogin
<1>7. RootsExist'
  BY <1>3, <1>4, <1>5 DEF SerialInv, RootsExist
<1>8. LogoutIsFinal'
  BY <1>3, <1>5 DEF SerialInv, LogoutIsFinal, Unrevoked
<1> QED
  BY <1>6, <1>7, <1>8

(* A lone rotation closes the one open row of its login and opens one.      *)
LEMMA RotateSerial ==
  ASSUME SerialInv, NEW w \in Worker, RotateRefreshToken(w)
  PROVE  OneOpenPerLogin' /\ RootsExist' /\ LogoutIsFinal'
<1>1. TypeInv /\ RowsKept
  BY CommitTypes DEF SerialInv, LinkInv, ForkInv
<1>2. PICK s \in Session : s = request[w].token /\ sessions[s].state = "open"
  BY <1>1, Rotation DEF SerialInv, StillOpen
<1>3. PICK t \in Session, now \in Nat :
        /\ sessions[t].state = "absent"
        /\ sessions' = [sessions EXCEPT ![s] = Rotated(@, t),
                                        ![t] = NewRow(sessions[s].user, now)]
        /\ lineage' = [lineage EXCEPT
                         ![t] = [parent |-> s, worker |-> w, root |-> lineage[s].root]]
  BY <1>1, <1>2, Rotation
<1>4. /\ s # t /\ sessions[s] \in Row
      /\ sessions \in [Session -> Row] /\ lineage \in [Session -> Birth]
  BY <1>1, <1>2, <1>3 DEF TypeInv, TypeOK
<1>5. /\ sessions'[s] = Rotated(sessions[s], t)
      /\ sessions'[t].state = "open" /\ lineage'[t].root = lineage[s].root
      /\ \A q \in Session \ {s, t} : sessions'[q] = sessions[q]
      /\ \A q \in Session \ {t} : lineage'[q] = lineage[q]
  BY <1>2, <1>3, <1>4 DEF NewRow
<1>6. Rotated(sessions[s], t).state = "revoked"
  BY <1>4, RotatedFields
<1>7. UNCHANGED ended
  BY DEF RotateRefreshToken
<1>8. OneOpenPerLogin'
  BY <1>2, <1>5, <1>6 DEF SerialInv, OneOpenPerLogin
<1>9. \A q \in Session : sessions[q].state # "absent" => lineage[q].root \in Session
  BY <1>1 DEF TypeInv, Rooted
<1>10. \A how \in Ending : ended[how] \subseteq Session
  BY <1>1 DEF TypeInv, TypeOK
<1>11. RootsExist'
  <2>1. \A q \in Session : sessions[q].state # "absent" => sessions'[q].state # "absent"
    BY <1>1 DEF RowsKept
  <2> QED
    BY <1>2, <1>5, <1>7, <1>9, <1>10, <2>1 DEF SerialInv, RootsExist
<1>12. LogoutIsFinal'
  BY <1>2, <1>5, <1>6, <1>7 DEF SerialInv, LogoutIsFinal, Unrevoked
<1> QED
  BY <1>8, <1>11, <1>12

(* A lone revocation leaves no open row of the logins it ends.              *)
LEMMA RevokeSerial ==
  ASSUME SerialInv, NEW w \in Worker, NEW how \in Ending, NEW rows \in SUBSET Session,
         \A s \in rows : sessions[s].state = "open",
         sessions' = [s \in Session |-> IF s \in rows THEN Revoked(sessions[s])
                                                      ELSE sessions[s]],
         End(how, rows),
         UNCHANGED lineage
  PROVE  OneOpenPerLogin' /\ RootsExist' /\ LogoutIsFinal'
<1>1. TypeInv
  BY DEF SerialInv, LinkInv, ForkInv
<1>2. \A s \in Session : Revoked(sessions[s]).state = "revoked"
  BY <1>1, RevokedFields DEF TypeInv, TypeOK
<1>3. \A s \in Session :
        /\ s \in rows => sessions'[s].state = "revoked"
        /\ s \notin rows => sessions'[s] = sessions[s]
  BY <1>2
<1>4. \A e \in Ending : \A r \in ended'[e] :
        r \in ended[e] \/ \E s \in rows : r = lineage[s].root
  BY <1>1 DEF End, TypeInv, TypeOK
<1>5. OneOpenPerLogin'
  BY <1>3 DEF SerialInv, OneOpenPerLogin
<1>6. RootsExist'
  <2>1. \A s \in Session : sessions[s].state # "absent" =>
          sessions'[s].state # "absent" /\ lineage[s].root \in Session
    BY <1>1, <1>3 DEF TypeInv, Rooted
  <2>2. \A s \in Session : sessions'[s].state # "absent" => sessions[s].state # "absent"
    BY <1>3
  <2>3. \A e \in Ending : ended[e] \subseteq Session
    BY <1>1 DEF TypeInv, TypeOK
  <2> QED
    BY <1>4, <2>1, <2>2, <2>3 DEF SerialInv, RootsExist
<1>7. LogoutIsFinal'
  <2> SUFFICES ASSUME NEW s \in Session, NEW e \in Ending, sessions'[s].state = "open",
                      lineage[s].root \in ended'[e]
               PROVE  FALSE
    BY DEF LogoutIsFinal, Unrevoked
  <2>1. s \notin rows /\ sessions[s].state = "open"
    BY <1>3
  <2>2. lineage[s].root \notin ended[e]
    BY <2>1 DEF SerialInv, LogoutIsFinal, Unrevoked
  <2>3. PICK r \in rows : lineage[r].root = lineage[s].root
    BY <1>4, <2>2
  <2> QED
    BY <2>1, <2>3 DEF SerialInv, OneOpenPerLogin
<1> QED
  BY <1>5, <1>6, <1>7

(* Every step of a lone worker keeps the serial invariant.                  *)
LEMMA SerialStep ==
  ASSUME Serial
  PROVE  SerialInv /\ [Next]_vars => SerialInv'
<1> SUFFICES ASSUME SerialInv, [Next]_vars PROVE SerialInv'
  OBVIOUS
<1>1. LinkInv' /\ TypeInv
  BY LinkStep DEF SerialInv, LinkInv, ForkInv
<1>2. ASSUME NEW w \in Worker, ReadStep(w)
      PROVE  SerialInv'
  <2>1. UNCHANGED <<sessions, lineage, ended>>
    BY <1>2, ReadStepUnchanged
  <2>2. StillOpen'
    BY <1>2, ReadStepStillOpen
  <2> QED
    BY <1>1, <2>1, <2>2
       DEF SerialInv, OneOpenPerLogin, RootsExist, LogoutIsFinal
<1>3. ASSUME NEW w \in Worker,
             CreateSession(w) \/ RotateRefreshToken(w) \/ RevokeRefreshToken(w)
               \/ RevokeAllSessions(w)
      PROVE  SerialInv'
  <2>1. Ends(w)
    BY <1>1, <1>3, CommitTypes
  <2>2. request'[w].pc \in {"idle", "answer"}
    BY <1>1, <2>1, EndsHolds
  <2>3. StillOpen'
    BY <2>2 DEF Serial, StillOpen
  <2>4. OneOpenPerLogin' /\ RootsExist' /\ LogoutIsFinal'
    <3>1. CASE CreateSession(w)
      BY <3>1, CreateSerial
    <3>2. CASE RotateRefreshToken(w)
      BY <3>2, RotateSerial
    <3>3. CASE RevokeRefreshToken(w)
      <4> DEFINE rows == {request[w].token}
      <4>1. /\ rows \in SUBSET Session
            /\ sessions' = [s \in Session |-> IF s \in rows THEN Revoked(sessions[s])
                                                             ELSE sessions[s]]
        BY <1>1, <3>3, RevokeOne
      <4>2. /\ \A s \in rows : sessions[s].state = "open"
            /\ End("logout", rows) /\ UNCHANGED lineage
        BY <3>3 DEF RevokeRefreshToken, At, SerialInv, StillOpen
      <4> HIDE DEF rows
      <4> QED
        BY <4>1, <4>2, RevokeSerial DEF Ending
    <3>4. CASE RevokeAllSessions(w)
      <4> DEFINE rows == request[w].rows
      <4>1. /\ rows \in SUBSET Session
            /\ sessions' = [s \in Session |-> IF s \in rows THEN Revoked(sessions[s])
                                                             ELSE sessions[s]]
            /\ \A s \in rows : sessions[s].state = "open"
            /\ End("logoutAll", rows) /\ UNCHANGED lineage
        BY <1>1, <3>4 DEF RevokeAllSessions, At, TypeInv, TypeOK, Request,
                          SerialInv, StillOpen
      <4> HIDE DEF rows
      <4> QED
        BY <4>1, RevokeSerial DEF Ending
    <3> QED
      BY <1>3, <3>1, <3>2, <3>3, <3>4
  <2> QED
    BY <1>1, <2>3, <2>4 DEF SerialInv
<1>4. CASE (\E u \in User : UpdateUser(u)) \/ Tick \/ UNCHANGED vars
  <2>1. UNCHANGED <<sessions, lineage, ended, request>>
    BY <1>4 DEF UpdateUser, Tick, vars
  <2> QED
    BY <1>1, <2>1
       DEF SerialInv, StillOpen, OneOpenPerLogin, RootsExist, LogoutIsFinal
<1> QED
  BY <1>2, <1>3, <1>4, StepKinds

(* With one request at a time, the row it acts on is open until it commits. *)
THEOREM SerialInvariant ==
  ASSUME Serial
  PROVE  Spec => []SerialInv
BY SerialInit, SerialStep, PTL DEF Spec

(* When requests do not overlap, a logout or logout-all closes every token  *)
(* of the logins it took effect on, and none is ever open again.            *)
THEOREM SerialLogout ==
  ASSUME Serial
  PROVE  Spec => []LogoutIsFinal
BY SerialInvariant, PTL DEF SerialInv

-----------------------------------------------------------------------------
(* Refinement of the contract.                                              *)

(* The empty table is the contract's initial state.                         *)
LEMMA ContractInit == Init => Contract!Init
BY DEF Init, Contract!Init, NoRow

(* A login is a grant.                                                      *)
LEMMA CreateGrants ==
  ASSUME SerialInv, NEW w \in Worker, CreateSession(w)
  PROVE  Contract!Next
<1>1. TypeInv /\ request[w].user \in User
  BY DEF SerialInv, LinkInv, ForkInv, TypeInv, RequestsHold, Holds, CreateSession, At
<1>2. PICK t \in Session :
        /\ sessions[t].state = "absent"
        /\ sessions' = [sessions EXCEPT ![t] = NewRow(request[w].user, request[w].at)]
  BY DEF CreateSession
<1>3. sessions[t].replacedBy = None
  BY <1>2 DEF SerialInv, LinkInv, AbsentBlank
<1>4. /\ sessions'[t].state = "open"
      /\ sessions'[t].user = request[w].user
      /\ sessions'[t].replacedBy = None
      /\ \A q \in Session \ {t} : sessions'[q] = sessions[q]
  BY <1>1, <1>2 DEF NewRow, TypeInv, TypeOK
<1>5. PICK u \in User : u = request[w].user
  BY <1>1
<1>6. [s \in Session |-> sessions'[s].user] =
        [[s \in Session |-> sessions[s].user] EXCEPT ![t] = u]
  BY <1>4, <1>5
<1>7. [s \in Session |-> sessions'[s].state] =
        [[s \in Session |-> sessions[s].state] EXCEPT ![t] = "open"]
  BY <1>4
<1>8. [s \in Session |-> sessions'[s].replacedBy] = [s \in Session |-> sessions[s].replacedBy]
  BY <1>3, <1>4
<1>9. Contract!Grant(u, t)
  BY <1>2, <1>6, <1>7, <1>8 DEF Contract!Grant
<1> QED
  BY <1>9 DEF Contract!Next

(* A lone rotation is an exchange of an open token.                         *)
LEMMA RotateExchanges ==
  ASSUME SerialInv, NEW w \in Worker, RotateRefreshToken(w)
  PROVE  Contract!Next
<1>1. TypeInv
  BY DEF SerialInv, LinkInv, ForkInv
<1>2. PICK s \in Session : s = request[w].token /\ sessions[s].state = "open"
  BY <1>1, Rotation DEF SerialInv, StillOpen
<1>3. PICK t \in Session, now \in Nat :
        /\ sessions[t].state = "absent"
        /\ sessions' = [sessions EXCEPT ![s] = Rotated(@, t),
                                        ![t] = NewRow(sessions[s].user, now)]
  BY <1>1, <1>2, Rotation
<1>4. /\ s # t /\ sessions[s] \in Row /\ sessions \in [Session -> Row]
      /\ sessions[t].replacedBy = None
  BY <1>1, <1>2, <1>3 DEF TypeInv, TypeOK, SerialInv, LinkInv, AbsentBlank
<1>5. /\ Rotated(sessions[s], t).state = "revoked"
      /\ Rotated(sessions[s], t).user = sessions[s].user
      /\ Rotated(sessions[s], t).replacedBy = t
  BY <1>4, RotatedFields
<1>6. /\ sessions'[s] = Rotated(sessions[s], t)
      /\ sessions'[t].state = "open"
      /\ sessions'[t].user = sessions[s].user
      /\ sessions'[t].replacedBy = None
      /\ \A q \in Session \ {s, t} : sessions'[q] = sessions[q]
  BY <1>2, <1>3, <1>4 DEF NewRow
<1>7. Contract!Exchange(s, t)
  BY <1>2, <1>3, <1>4, <1>5, <1>6 DEF Contract!Exchange
<1> QED
  BY <1>7 DEF Contract!Next

(* Revoking open rows of one account is a revocation of the contract.       *)
LEMMA RevokeRevokes ==
  ASSUME TypeInv, NEW rows \in SUBSET Session, NEW u \in User,
         \A s \in rows : sessions[s].state = "open" /\ sessions[s].user = u,
         sessions' = [s \in Session |-> IF s \in rows THEN Revoked(sessions[s])
                                                      ELSE sessions[s]]
  PROVE  Contract!Next
<1>1. \A s \in Session : /\ Revoked(sessions[s]).state = "revoked"
                         /\ Revoked(sessions[s]).user = sessions[s].user
                         /\ Revoked(sessions[s]).replacedBy = sessions[s].replacedBy
  BY RevokedFields DEF TypeInv, TypeOK
<1>2. Contract!Revoke(rows)
  BY <1>1 DEF Contract!Revoke
<1> QED
  BY <1>2 DEF Contract!Next

(* Every step of a lone worker is a step of the contract, or none.          *)
LEMMA ContractStep ==
  ASSUME SerialInv, [Next]_vars
  PROVE  [Contract!Next]_Contract!contractVars
<1>1. ASSUME UNCHANGED sessions
      PROVE  UNCHANGED Contract!contractVars
  BY <1>1 DEF Contract!contractVars
<1>2. TypeInv
  BY DEF SerialInv, LinkInv, ForkInv
<1>3. ASSUME NEW w \in Worker, ReadStep(w)
      PROVE  UNCHANGED sessions
  BY <1>3, ReadStepUnchanged
<1>4. ASSUME NEW w \in Worker, CreateSession(w)
      PROVE  Contract!Next
  BY <1>4, CreateGrants
<1>5. ASSUME NEW w \in Worker, RotateRefreshToken(w)
      PROVE  Contract!Next
  BY <1>5, RotateExchanges
<1>6. ASSUME NEW w \in Worker, RevokeRefreshToken(w)
      PROVE  Contract!Next
  <2> DEFINE rows == {request[w].token}
             u == sessions[request[w].token].user
  <2>1. sessions[request[w].token].state = "open"
    BY <1>6 DEF RevokeRefreshToken, At, SerialInv, StillOpen
  <2>2. /\ rows \in SUBSET Session /\ u \in User
        /\ \A s \in rows : sessions[s].state = "open" /\ sessions[s].user = u
        /\ sessions' = [s \in Session |-> IF s \in rows THEN Revoked(sessions[s])
                                                         ELSE sessions[s]]
    BY <1>2, <1>6, <2>1, RevokeOne DEF TypeInv, TypeOK
  <2> HIDE DEF rows, u
  <2> QED
    BY <1>2, <2>2, RevokeRevokes
<1>7. ASSUME NEW w \in Worker, RevokeAllSessions(w)
      PROVE  Contract!Next
  <2> DEFINE rows == request[w].rows
             u == request[w].user
  <2>1. \A s \in rows : sessions[s].state = "open"
    BY <1>2, <1>7 DEF RevokeAllSessions, At, SerialInv, StillOpen
  <2>2. /\ rows \in SUBSET Session /\ u \in User
        /\ \A s \in rows : sessions[s].user = u
        /\ sessions' = [s \in Session |-> IF s \in rows THEN Revoked(sessions[s])
                                                         ELSE sessions[s]]
    BY <1>2, <1>7 DEF RevokeAllSessions, At, TypeInv, TypeOK, Request, RequestsHold, Holds
  <2> HIDE DEF rows, u
  <2> QED
    BY <1>2, <2>1, <2>2, RevokeRevokes
<1>8. CASE (\E u \in User : UpdateUser(u)) \/ Tick \/ UNCHANGED vars
  BY <1>1, <1>8 DEF UpdateUser, Tick, vars
<1> QED
  BY <1>1, <1>3, <1>4, <1>5, <1>6, <1>7, <1>8, StepKinds

(* While requests do not overlap, the table implements the contract: tokens *)
(* are granted once, exchanged one for one and revoked while open, whatever *)
(* the clock, the aborted requests and the deactivations do.                *)
THEOREM SerialRefinement ==
  ASSUME Serial
  PROVE  Spec => RotationContractHolds
BY ContractInit, ContractStep, SerialInvariant, PTL
   DEF Spec, RotationContractHolds, Contract!Spec

=============================================================================
