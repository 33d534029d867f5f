------------------------------ MODULE RowLocks ------------------------------
(***************************************************************************)
(* The transactions that Sessions takes in one step, statement by          *)
(* statement.  An UPDATE waits until no other transaction holds the row,   *)
(* writes a version that only its own transaction sees, and holds the row  *)
(* until it commits or rolls back; PostgreSQL runs it READ COMMITTED, so   *)
(* it starts from the row as last committed.  Rotation flushes, writes one *)
(* more column, and commits; logout-all updates several rows.              *)
(*                                                                         *)
(* Primary keys are random uuids, compared as text: here, rows are         *)
(* numbers in any order at all.  Within a flush SQLAlchemy updates rows in *)
(* the order of their primary keys.                                        *)
(***************************************************************************)
EXTENDS Sessions

CONSTANT MaxKey   \* the largest primary key

ASSUME RowLocksAssumption == MaxKey \in Nat /\ Session \subseteq 0 .. MaxKey

VARIABLE
  draft  \* uncommitted versions: which rows each transaction wrote, and what

lockVars == <<vars, draft>>

NoDraft == [s \in Session |-> NoRow]

Drafted(w) == {s \in Session : draft[w][s].state # "absent"}

Free(s) == \A w \in Worker : s \notin Drafted(w)

-----------------------------------------------------------------------------
(* The rows a request has to update, those it has yet to, and the next.     *)

Targets(w) ==
  IF At(w, "sweep") THEN request[w].rows
  ELSE IF request[w].pc \in {"rotate", "revoke"} THEN {request[w].token}
  ELSE {}

Remaining(w) == Targets(w) \ Drafted(w)

WantedInAnyOrder(w) == Remaining(w)  \* mutant: flushed as the SELECT returned them

Wanted(w) == {s \in Remaining(w) : \A t \in Remaining(w) : s <= t}

(* db.flush() of rotate_refresh_token: the UPDATE of the old row, which may *)
(* wait, and the INSERT of its successor, which never does and carries the  *)
(* clock as it was read between the check and the flush.                    *)
FlushRotation(w) ==
  /\ At(w, "rotate")
  /\ \E s \in Wanted(w), t \in Session, now \in request[w].at .. clock :
       /\ Free(s)
       /\ sessions[t].state = "absent" /\ Free(t)
       /\ draft' = [draft EXCEPT
                      ![w] = [@ EXCEPT
                        ![s] = [Revoked(sessions[s]) EXCEPT !.used = TRUE],
                        ![t] = NewRow(sessions[s].user, now)]]
  /\ UNCHANGED vars

(* The row a rotation adds, beside the one it holds.                        *)
Inserted(w) == Drafted(w) \ {request[w].token}

(* replaced_by_session_id, known once the successor has its id: the UPDATE  *)
(* of a row this transaction holds already.                                 *)
LinkSuccessor(w) ==
  /\ At(w, "rotate")
  /\ Remaining(w) = {}
  /\ draft[w][request[w].token].replacedBy \notin Inserted(w)
  /\ \E t \in Inserted(w) :
       draft' = [draft EXCEPT ![w][request[w].token].replacedBy = t]
  /\ UNCHANGED vars

(* The UPDATEs of revoke_refresh_token and revoke_all_sessions.             *)
UpdateRow(w) ==
  /\ request[w].pc \in {"revoke", "sweep"}
  /\ \E s \in Wanted(w) :
       /\ Free(s)
       /\ draft' = [draft EXCEPT ![w][s] = Revoked(sessions[s])]
  /\ UNCHANGED vars

-----------------------------------------------------------------------------
(* The end of a transaction.                                                *)

CommitKeepingDrafts(w, next) ==  \* mutant: the rows stay locked
  /\ sessions' = [s \in Session |-> IF s \in Drafted(w) THEN draft[w][s]
                                                        ELSE sessions[s]]
  /\ Become(w, next)
  /\ UNCHANGED <<clock, active, accessUntil, draft>>

Commit(w, next) ==
  /\ sessions' = [s \in Session |-> IF s \in Drafted(w) THEN draft[w][s]
                                                        ELSE sessions[s]]
  /\ draft' = [draft EXCEPT ![w] = NoDraft]
  /\ Become(w, next)
  /\ UNCHANGED <<clock, active, accessUntil>>

CommitBeforeLinking(w) ==  \* mutant: db.commit() right after db.flush()
  LET s == request[w].token IN
  /\ At(w, "rotate")
  /\ Remaining(w) = {}
  /\ Commit(w, Starting("answer", sessions[s].user, None))
  /\ \E t \in Inserted(w) :
       lineage' = [lineage EXCEPT
                     ![t] = [parent |-> s, worker |-> w,
                             root |-> lineage[s].root]]
  /\ UNCHANGED ended

CommitRotation(w) ==
  LET s == request[w].token
      t == draft[w][s].replacedBy
  IN
  /\ At(w, "rotate")
  /\ Remaining(w) = {}
  /\ t \in Inserted(w)
  /\ Commit(w, Starting("answer", sessions[s].user, None))
  /\ lineage' = [lineage EXCEPT
                   ![t] = [parent |-> s, worker |-> w,
                           root |-> lineage[s].root]]
  /\ UNCHANGED ended

CommitRevocations(w) ==
  /\ request[w].pc \in {"revoke", "sweep"}
  /\ Remaining(w) = {}
  /\ Commit(w, Idle)
  /\ End(IF At(w, "sweep") THEN "logoutAll" ELSE "logout", Drafted(w))
  /\ UNCHANGED lineage

AbortWithoutRollback(w) ==  \* mutant: the connection is never closed
  Abort(w) /\ UNCHANGED draft

(* get_db closes the session: what it wrote is gone, its rows are free.     *)
Rollback(w) == Abort(w) /\ draft' = [draft EXCEPT ![w] = NoDraft]

(* The steps Sessions has already: SELECTs and clock readings, the one-row  *)
(* INSERT of a login, which takes a row no transaction has inserted, and    *)
(* the user's own row.                                                      *)
Read(w) ==
  \/ \E u \in User : Authenticate(w, u) \/ AuthorizeLogoutAll(w, u)
  \/ CheckLogin(w)
  \/ \E s \in Session, op \in {"refresh", "logout"} : SelectSession(w, s, op)
  \/ CheckSession(w, "refresh", "rotate")
  \/ CheckSession(w, "logout", "revoke")
  \/ SelectOpenSessions(w)
  \/ CreateAccessToken(w)

InsertSession(w) ==
  /\ CreateSession(w)
  /\ \A s \in Session : sessions'[s] # sessions[s] => Free(s)

Write(w) ==
  \/ FlushRotation(w) \/ LinkSuccessor(w) \/ CommitRotation(w)
  \/ UpdateRow(w) \/ CommitRevocations(w)

LockInit == Init /\ draft = [w \in Worker |-> NoDraft]

LockNext ==
  \/ \E w \in Worker :
       \/ (Read(w) \/ InsertSession(w)) /\ UNCHANGED draft
       \/ Write(w)
       \/ Rollback(w)
  \/ ((\E u \in User : UpdateUser(u)) \/ Tick) /\ UNCHANGED draft

LockSpec == LockInit /\ [][LockNext]_lockVars

(* A thread goes on to its next statement, and a transaction whose row is   *)
(* freed time and again is served: PostgreSQL queues those that wait.       *)
Fairness ==
  \A w \in Worker :
    /\ WF_lockVars(LinkSuccessor(w) \/ CommitRotation(w) \/ CommitRevocations(w))
    /\ SF_lockVars(UpdateRow(w))

FairLockSpec == LockSpec /\ Fairness

-----------------------------------------------------------------------------
(* Properties.                                                              *)

(* Every variable holds what its column or local can hold, and a request    *)
(* that is not writing has nothing uncommitted.                             *)
LockTypeOK ==
  /\ TypeOK
  /\ draft \in [Worker -> [Session -> Row]]
  /\ \A w \in Worker :
       Drafted(w) # {} => request[w].pc \in {"rotate", "revoke", "sweep"}

(* A transaction that waits, that rolls back after some of its statements,  *)
(* or whose rows others wait for still commits as if it had run in one      *)
(* step on the rows as they are when it commits: each behaviour is one of   *)
(* Sessions, and its properties hold of this detail too.                    *)
CommitsAreAtomic == Spec

WaitsFor(w, v) == w # v /\ Wanted(w) \cap Drafted(v) # {}

(* No set of transactions waits for one another in a circle, whatever rows  *)
(* concurrent logouts, logout-alls and rotations of one account want: among *)
(* any of them one waits for none of them.  PostgreSQL never has to kill    *)
(* one of them as deadlocked.                                               *)
NoCircularWait ==
  \A W \in SUBSET Worker : W # {} =>
    \E w \in W : \A v \in W : ~ WaitsFor(w, v)

(* A logout or a logout-all that found its rows ends, however many rows it  *)
(* has to wait for and whoever rolls back meanwhile.                        *)
LogoutsEnd ==
  \A w \in Worker :
    request[w].pc \in {"revoke", "sweep"} ~> request[w].pc \notin {"revoke", "sweep"}

=============================================================================
