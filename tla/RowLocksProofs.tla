--------------------------- MODULE RowLocksProofs ---------------------------
(***************************************************************************)
(* Proofs about RowLocks for any number of accounts, rows and workers, and *)
(* any assignment of primary keys.  What a transaction has written is what *)
(* its one-step counterpart in Sessions would write now, because nobody    *)
(* else can change the rows it holds; so every commit is a step of         *)
(* Sessions, and every theorem about Sessions holds of this detail too.    *)
(***************************************************************************)
EXTENDS RowLocks, SessionsProofs, WellFoundedInduction

(* Primary keys are numbers.                                                *)
LEMMA KeysAreNaturals == \A s \in Session : s \in Nat
BY RowLocksAssumption

(* Every nonempty set of rows has one with the largest key.                 *)
LEMMA LargestKey ==
  ASSUME NEW S \in SUBSET Session, S # {}
  PROVE  \E s \in S : \A t \in S : t <= s
<1> DEFINE Below == {MaxKey - s : s \in S}
<1>0. \A s \in S : s \in Nat /\ MaxKey - s \in Nat
  BY RowLocksAssumption
<1>1. Below \subseteq Nat /\ Below # {}
  BY <1>0
<1> HIDE DEF Below
<1>2. PICK m \in Below : \A n \in Below : ~ (<<n, m>> \in OpToRel(<, Nat))
  BY <1>1, NatLessThanWellFounded, WFMin
<1>3. \A n \in Below : ~ (n < m)
  BY <1>1, <1>2 DEF OpToRel
<1>4. PICK s \in S : m = MaxKey - s
  BY DEF Below
<1>5. \A t \in S : MaxKey - t \in Below
  BY DEF Below
<1> QED
  BY <1>0, <1>3, <1>4, <1>5, RowLocksAssumption

-----------------------------------------------------------------------------
(* The invariant.  What a rotation and a revocation have written so far.    *)

Exclusive ==
  \A v, w \in Worker : v # w => Drafted(v) \cap Drafted(w) = {}

RotationDrafts(w) ==
  LET s == request[w].token IN
  \E t \in Session, now \in Nat :
    /\ request[w].at <= now /\ now <= clock
    /\ t # s
    /\ Drafted(w) = {s, t}
    /\ sessions[t].state = "absent"
    /\ draft[w][t] = NewRow(sessions[s].user, now)
    /\ \/ draft[w][s] = [Revoked(sessions[s]) EXCEPT !.used = TRUE]
       \/ draft[w][s] = Rotated(sessions[s], t)

RevocationDrafts(w) ==
  /\ Drafted(w) \subseteq Targets(w)
  /\ \A s \in Drafted(w) : draft[w][s] = Revoked(sessions[s])
  /\ \A s \in Drafted(w), t \in Remaining(w) : s < t

(* A request has drafts only while it writes, and then these.               *)
Drafts(w) ==
  Drafted(w) # {} =>
    \/ At(w, "rotate") /\ RotationDrafts(w)
    \/ request[w].pc \in {"revoke", "sweep"} /\ RevocationDrafts(w)

DraftTypes == draft \in [Worker -> [Session -> Row]]

LockInv ==
  /\ TypeInv
  /\ DraftTypes
  /\ Exclusive
  /\ \A w \in Worker : Drafts(w)

(* Nothing is uncommitted at first.                                         *)
LEMMA LockInitInv == LockInit => LockInv
<1> SUFFICES ASSUME LockInit PROVE LockInv
  OBVIOUS
<1>1. TypeInv
  BY TypeInit DEF LockInit
<1>2. DraftTypes
  BY NoRowFields DEF LockInit, DraftTypes, NoDraft
<1>3. \A w \in Worker : Drafted(w) = {}
  BY NoRowFields DEF LockInit, Drafted, NoDraft
<1> QED
  BY <1>1, <1>2, <1>3 DEF LockInv, Exclusive, Drafts

-----------------------------------------------------------------------------
(* Workers that a step leaves alone, and workers it leaves with nothing.    *)

(* Time only passes.                                                        *)
LEMMA ClockAdvances ==
  ASSUME TypeInv, [Next]_vars
  PROVE  clock \in Nat /\ clock' \in Nat /\ clock <= clock'
<1>1. clock \in Nat
  BY SessionsAssumption DEF TypeInv, TypeOK
<1>2. clock' = clock \/ clock' = clock + 1
  BY DEF Next, vars, Login, Refresh, Logout, LogoutAll, Authenticate, CheckLogin,
         CreateSession, CreateAccessToken, SelectSession, CheckSession,
         RotateRefreshToken, RevokeRefreshToken, AuthorizeLogoutAll,
         SelectOpenSessions, RevokeAllSessions, Abort, UpdateUser, Tick
<1> QED
  BY <1>1, <1>2

(* What a request wrote stays right while the rows it holds do.             *)
LEMMA DraftsKept ==
  ASSUME NEW v \in Worker, Drafts(v),
         clock \in Nat /\ clock' \in Nat /\ clock <= clock',
         request[v] \in Request,
         request'[v] = request[v],
         draft'[v] = draft[v],
         \A s \in Drafted(v) : sessions'[s] = sessions[s]
  PROVE  Drafts(v)'
<1>1. Drafted(v)' = Drafted(v)
  BY DEF Drafted
<1>2. Remaining(v)' = Remaining(v) /\ Targets(v)' = Targets(v)
  BY <1>1 DEF Remaining, Targets, At
<1> SUFFICES ASSUME Drafted(v) # {} PROVE Drafts(v)'
  BY <1>1 DEF Drafts
<1>3. CASE At(v, "rotate") /\ RotationDrafts(v)
  <2>1. PICK t \in Session, now \in Nat :
          /\ request[v].at <= now /\ now <= clock
          /\ t # request[v].token
          /\ Drafted(v) = {request[v].token, t}
          /\ sessions[t].state = "absent"
          /\ draft[v][t] = NewRow(sessions[request[v].token].user, now)
          /\ \/ draft[v][request[v].token] =
                  [Revoked(sessions[request[v].token]) EXCEPT !.used = TRUE]
             \/ draft[v][request[v].token] = Rotated(sessions[request[v].token], t)
    BY <1>3 DEF RotationDrafts
  <2>2. sessions'[t] = sessions[t]
        /\ sessions'[request[v].token] = sessions[request[v].token]
    BY <2>1
  <2>3. now <= clock'
    BY <2>1
  <2>4. RotationDrafts(v)'
    BY <1>1, <2>1, <2>2, <2>3 DEF RotationDrafts
  <2> QED
    BY <1>3, <2>4 DEF Drafts, At
<1>4. CASE request[v].pc \in {"revoke", "sweep"} /\ RevocationDrafts(v)
  <2>1. RevocationDrafts(v)'
    BY <1>1, <1>2, <1>4 DEF RevocationDrafts
  <2> QED
    BY <1>4, <2>1 DEF Drafts
<1> QED
  BY <1>3, <1>4 DEF Drafts

(* A request with nothing uncommitted satisfies the invariant at once.      *)
LEMMA NothingDrafted ==
  ASSUME NEW w \in Worker, draft'[w] = NoDraft
  PROVE  Drafted(w)' = {} /\ Drafts(w)'
<1>1. Drafted(w)' = {}
  BY NoRowFields DEF Drafted, NoDraft
<1> QED
  BY <1>1 DEF Drafts

(* A step of one request that adds to what it holds only rows that were     *)
(* free, and changes no row that another holds.                             *)
LEMMA OneMoves ==
  ASSUME LockInv, NEW w \in Worker, [Next]_vars,
         DraftTypes', Drafts(w)',
         \A v \in Worker \ {w} : request'[v] = request[v] /\ draft'[v] = draft[v],
         \A s \in Drafted(w)' : s \in Drafted(w) \/ Free(s),
         \A v \in Worker \ {w} : \A s \in Drafted(v) : sessions'[s] = sessions[s]
  PROVE  LockInv'
<1>1. TypeInv'
  BY TypeStep DEF LockInv
<1>2. \A v \in Worker \ {w} : Drafts(v)' /\ Drafted(v)' = Drafted(v)
  <2> TAKE v \in Worker \ {w}
  <2>1. Drafts(v)'
    BY ClockAdvances, DraftsKept DEF LockInv, TypeInv, TypeOK
  <2> QED
    BY <2>1 DEF Drafted
<1>3. \A v \in Worker \ {w} : Drafted(v)' \cap Drafted(w)' = {}
  BY <1>2 DEF LockInv, Exclusive, Free
<1>4. Exclusive'
  BY <1>2, <1>3 DEF LockInv, Exclusive
<1> QED
  BY <1>1, <1>2, <1>4 DEF LockInv

-----------------------------------------------------------------------------
(* Steps that write nothing yet.                                            *)

(* A request that only reads, or inserts its one row, has nothing           *)
(* uncommitted before or after.                                             *)
LEMMA ReadsHoldNothing ==
  ASSUME LockInv, NEW w \in Worker, Read(w) \/ InsertSession(w)
  PROVE  Drafted(w) = {} /\ [Next]_vars
<1>1. request[w].pc \notin {"rotate", "revoke", "sweep"}
  BY DEF Read, InsertSession, Authenticate, AuthorizeLogoutAll, CheckLogin,
         SelectSession, CheckSession, SelectOpenSessions, CreateAccessToken,
         CreateSession, At
<1>2. Drafted(w) = {}
  BY <1>1 DEF LockInv, Drafts, At
<1>3. Next
  BY DEF Read, InsertSession, Next, Login, Refresh, Logout, LogoutAll
<1> QED
  BY <1>2, <1>3

(* A request only ever moves itself.                                        *)
LEMMA OthersStay ==
  ASSUME TypeInv, NEW w \in Worker, NEW r, Become(w, r)
  PROVE  \A v \in Worker \ {w} : request'[v] = request[v]
BY DEF TypeInv, TypeOK, Become

(* Reads and the INSERT of a login keep the invariant.                      *)
LEMMA ReadLockInv ==
  ASSUME LockInv, NEW w \in Worker, Read(w) \/ InsertSession(w), UNCHANGED draft
  PROVE  LockInv'
<1>1. Drafted(w) = {} /\ [Next]_vars
  BY ReadsHoldNothing
<1>2. Drafted(w)' = {} /\ Drafts(w)'
  BY <1>1 DEF Drafted, Drafts
<1>3. \A v \in Worker \ {w} : request'[v] = request[v]
  BY OthersStay
     DEF LockInv, Read, InsertSession, Authenticate, AuthorizeLogoutAll, CheckLogin,
         SelectSession, CheckSession, SelectOpenSessions, CreateAccessToken,
         CreateSession
<1>4. \A v \in Worker \ {w} : \A s \in Drafted(v) : sessions'[s] = sessions[s]
  <2>1. CASE Read(w)
    BY <2>1 DEF Read, Authenticate, AuthorizeLogoutAll, CheckLogin, SelectSession,
                CheckSession, SelectOpenSessions, CreateAccessToken
  <2>2. CASE InsertSession(w)
    <3>1. \A v \in Worker : Drafted(v) \subseteq Session
      BY DEF Drafted
    <3> QED
      BY <2>2, <3>1 DEF InsertSession, Free
  <2> QED
    BY <2>1, <2>2
<1>5. DraftTypes'
  BY DEF LockInv, DraftTypes
<1> QED
  BY <1>1, <1>2, <1>3, <1>4, <1>5, OneMoves

(* An administrator or the clock keep it too.                               *)
LEMMA OutsideLockInv ==
  ASSUME LockInv, (\E u \in User : UpdateUser(u)) \/ Tick \/ UNCHANGED vars,
         UNCHANGED draft
  PROVE  LockInv' /\ [Next]_vars
<1>1. [Next]_vars
  BY DEF Next
<1>2. TypeInv'
  BY <1>1, TypeStep DEF LockInv
<1>3. UNCHANGED <<sessions, request>>
  BY DEF UpdateUser, Tick, vars
<1>4. \A w \in Worker : Drafts(w)' /\ Drafted(w)' = Drafted(w)
  <2> TAKE w \in Worker
  <2>1. Drafts(w)'
    BY <1>1, <1>3, ClockAdvances, DraftsKept DEF LockInv, TypeInv, TypeOK
  <2> QED
    BY <2>1 DEF Drafted
<1> QED
  BY <1>1, <1>2, <1>4 DEF LockInv, Exclusive, DraftTypes

-----------------------------------------------------------------------------
(* Statements.                                                              *)

(* What a statement does to the rows its transaction holds.                 *)
LEMMA DraftOne ==
  ASSUME DraftTypes, NEW w \in Worker, NEW s \in Session, NEW row \in Row,
         row.state # "absent",
         draft' = [draft EXCEPT ![w][s] = row]
  PROVE  /\ DraftTypes'
         /\ draft'[w][s] = row
         /\ \A t \in Session \ {s} : draft'[w][t] = draft[w][t]
         /\ Drafted(w)' = Drafted(w) \cup {s}
         /\ \A v \in Worker \ {w} : draft'[v] = draft[v]
<1>1. /\ DraftTypes'
      /\ draft'[w][s] = row
      /\ \A t \in Session \ {s} : draft'[w][t] = draft[w][t]
      /\ \A v \in Worker \ {w} : draft'[v] = draft[v]
  BY DEF DraftTypes
<1> QED
  BY <1>1 DEF Drafted

(* A wanted row is one the request has yet to update.                       *)
LEMMA WantedRows ==
  ASSUME LockInv, NEW w \in Worker, NEW s \in Wanted(w)
  PROVE  /\ s \in Session
         /\ s \in Targets(w) /\ s \notin Drafted(w)
         /\ \A t \in Remaining(w) : s <= t
         /\ sessions[s] \in Row /\ sessions[s].state # "absent"
<1>1. s \in Remaining(w) /\ \A t \in Remaining(w) : s <= t
  BY DEF Wanted
<1>2. s \in Session /\ sessions[s].state # "absent"
  BY <1>1 DEF Remaining, Targets, At, LockInv, TypeInv, TypeOK, RequestsHold, Holds,
              Request
<1> QED
  BY <1>1, <1>2 DEF Remaining, LockInv, TypeInv, TypeOK

(* revoke_refresh_token and revoke_all_sessions update in key order.        *)
LEMMA UpdateRowInv ==
  ASSUME LockInv, NEW w \in Worker, UpdateRow(w)
  PROVE  LockInv'
<1>1. PICK s \in Wanted(w) : /\ Free(s)
                             /\ draft' = [draft EXCEPT ![w][s] = Revoked(sessions[s])]
                             /\ UNCHANGED vars
  BY DEF UpdateRow
<1>2. /\ s \in Session
      /\ s \in Targets(w) /\ s \notin Drafted(w)
      /\ \A t \in Remaining(w) : s <= t
      /\ sessions[s] \in Row
  BY WantedRows
<1>3. Revoked(sessions[s]) \in Row /\ Revoked(sessions[s]).state # "absent"
  BY <1>2, RevokedFields
<1>4. /\ DraftTypes'
      /\ draft'[w][s] = Revoked(sessions[s])
      /\ \A t \in Session \ {s} : draft'[w][t] = draft[w][t]
      /\ Drafted(w)' = Drafted(w) \cup {s}
      /\ \A v \in Worker \ {w} : draft'[v] = draft[v]
  BY <1>1, <1>2, <1>3, DraftOne DEF LockInv
<1>5. UNCHANGED <<sessions, request>>
  BY <1>1 DEF vars
<1>6. Targets(w)' = Targets(w)
  BY <1>5 DEF Targets, At
<1>7. Remaining(w)' = Remaining(w) \ {s}
  BY <1>4, <1>6 DEF Remaining
<1>8. request[w].pc \in {"revoke", "sweep"}
  BY DEF UpdateRow
<1>9. Drafted(w) # {} => RevocationDrafts(w)
  BY <1>8 DEF LockInv, Drafts, At
<1>10. RevocationDrafts(w)'
  <2>1. Drafted(w)' \subseteq Targets(w)'
    BY <1>2, <1>4, <1>6, <1>9 DEF RevocationDrafts
  <2>2. \A t \in Drafted(w)' : draft'[w][t] = Revoked(sessions'[t])
    BY <1>4, <1>5, <1>9 DEF RevocationDrafts, Drafted
  <2>3. \A t \in Remaining(w)' : s < t
    <3>1. Remaining(w) \subseteq Session
      BY <1>8 DEF Remaining, Targets, At, LockInv, TypeInv, TypeOK, RequestsHold, Holds, Request
    <3>2. s \in Nat /\ \A t \in Remaining(w) : t \in Nat
      BY <1>2, <3>1, KeysAreNaturals
    <3>3. \A t \in Remaining(w) \ {s} : s < t
      BY <1>2, <3>2
    <3> QED
      BY <1>7, <3>3
  <2>4. \A t1 \in Drafted(w)', t2 \in Remaining(w)' : t1 < t2
    BY <1>4, <1>7, <1>9, <2>3 DEF RevocationDrafts
  <2> QED
    BY <2>1, <2>2, <2>4 DEF RevocationDrafts
<1>11. Drafts(w)'
  BY <1>5, <1>8, <1>10 DEF Drafts
<1> QED
  BY <1>1, <1>4, <1>5, <1>11, OneMoves

(* db.flush() of a rotation: the revoked row and its successor.             *)
LEMMA FlushInv ==
  ASSUME LockInv, NEW w \in Worker, FlushRotation(w)
  PROVE  LockInv'
<1> DEFINE old(s) == [Revoked(sessions[s]) EXCEPT !.used = TRUE]
           new(s, now) == NewRow(sessions[s].user, now)
<1>0. /\ clock \in Nat /\ request[w].at \in Nat
      /\ \A now \in request[w].at .. clock :
           now \in Nat /\ request[w].at <= now /\ now <= clock
  BY SessionsAssumption DEF LockInv, TypeInv, TypeOK, Request
<1>1. PICK s \in Wanted(w), t \in Session, now \in request[w].at .. clock :
        /\ Free(s) /\ sessions[t].state = "absent" /\ Free(t)
        /\ draft' = [draft EXCEPT
                       ![w] = [@ EXCEPT ![s] = old(s), ![t] = new(s, now)]]
  BY DEF FlushRotation
<1>2. At(w, "rotate") /\ UNCHANGED <<clock, sessions, request>> /\ [Next]_vars
  BY DEF FlushRotation, vars
<1>3. /\ s \in Session /\ s = request[w].token
      /\ sessions[s] \in Row /\ sessions[s].state # "absent"
  BY <1>2, WantedRows DEF Targets, At
<1>4. s # t
  BY <1>1, <1>3
<1>5. old(s) \in Row /\ old(s).state # "absent"
  <2>1. Revoked(sessions[s]) \in Row /\ Revoked(sessions[s]).state = "revoked"
    BY <1>3, RevokedFields
  <2> QED
    BY <2>1 DEF Row
<1>6. new(s, now) \in Row /\ new(s, now).state # "absent"
  <2>1. sessions[s].user \in User /\ now \in Nat
    BY <1>0, <1>3 DEF LockInv, TypeInv, TypeOK
  <2> QED
    BY <2>1, NewRowFields
<1>7. Drafted(w) = {}
  <2>1. s \notin Drafted(w)
    BY <1>1 DEF Free
  <2> QED
    BY <1>2, <1>3, <2>1 DEF LockInv, Drafts, RotationDrafts, At
<1> HIDE DEF old, new
<1>8. /\ DraftTypes'
      /\ draft'[w][s] = old(s) /\ draft'[w][t] = new(s, now)
      /\ \A x \in Session \ {s, t} : draft'[w][x] = draft[w][x]
      /\ \A v \in Worker \ {w} : draft'[v] = draft[v]
  BY <1>1, <1>3, <1>4, <1>5, <1>6 DEF LockInv, DraftTypes
<1>9. Drafted(w)' = {s, t}
  BY <1>3, <1>5, <1>6, <1>7, <1>8 DEF Drafted
<1>10. RotationDrafts(w)'
  BY <1>0, <1>1, <1>2, <1>3, <1>4, <1>8, <1>9 DEF RotationDrafts, old, new
<1>11. Drafts(w)'
  BY <1>2, <1>10 DEF Drafts, At
<1> QED
  BY <1>1, <1>2, <1>8, <1>9, <1>11, OneMoves

(* The rows a rotation holds once it has flushed.                           *)
LEMMA FlushedRotation ==
  ASSUME LockInv, NEW w \in Worker, At(w, "rotate"), Remaining(w) = {}
  PROVE  LET s == request[w].token IN
         /\ s \in Session /\ sessions[s] \in Row /\ sessions[s].state # "absent"
         /\ \E t \in Session, now \in Nat :
              /\ request[w].at <= now /\ now <= clock
              /\ t # s
              /\ Drafted(w) = {s, t}
              /\ Inserted(w) = {t}
              /\ sessions[t].state = "absent"
              /\ draft[w][t] = NewRow(sessions[s].user, now)
              /\ \/ draft[w][s] = [Revoked(sessions[s]) EXCEPT !.used = TRUE]
                 \/ draft[w][s] = Rotated(sessions[s], t)
<1>1. /\ request[w].token \in Session
      /\ sessions[request[w].token] \in Row
      /\ sessions[request[w].token].state # "absent"
  BY DEF LockInv, TypeInv, TypeOK, RequestsHold, Holds, At, Request
<1>2. request[w].token \in Drafted(w)
  BY DEF Remaining, Targets, At
<1>3. RotationDrafts(w)
  BY <1>2 DEF LockInv, Drafts, At
<1> QED
  BY <1>1, <1>3 DEF RotationDrafts, Inserted

(* Naming the successor on the row that is already held.                    *)
LEMMA LinkSuccessorInv ==
  ASSUME LockInv, NEW w \in Worker, LinkSuccessor(w)
  PROVE  LockInv'
<1> DEFINE s == request[w].token
<1>1. /\ s \in Session /\ sessions[s] \in Row
      /\ draft[w][s].replacedBy \notin Inserted(w)
      /\ At(w, "rotate")
      /\ UNCHANGED <<clock, sessions, request>> /\ [Next]_vars
  BY FlushedRotation DEF LinkSuccessor, vars
<1>2. PICK t \in Session, now \in Nat :
        /\ request[w].at <= now /\ now <= clock
        /\ t # s
        /\ Drafted(w) = {s, t}
        /\ Inserted(w) = {t}
        /\ sessions[t].state = "absent"
        /\ draft[w][t] = NewRow(sessions[s].user, now)
        /\ \/ draft[w][s] = [Revoked(sessions[s]) EXCEPT !.used = TRUE]
           \/ draft[w][s] = Rotated(sessions[s], t)
  BY FlushedRotation DEF LinkSuccessor
<1>3. draft' = [draft EXCEPT ![w][s].replacedBy = t]
  BY <1>2 DEF LinkSuccessor
<1>4. Rotated(sessions[s], t) \in Row /\ Rotated(sessions[s], t).replacedBy = t
      /\ Rotated(sessions[s], t).state # "absent"
  BY <1>1, RotatedFields
<1>5. draft[w][s] = [Revoked(sessions[s]) EXCEPT !.used = TRUE]
  BY <1>1, <1>2, <1>4
<1>6. [draft[w][s] EXCEPT !.replacedBy = t] = Rotated(sessions[s], t)
  BY <1>1, <1>5 DEF Rotated, Revoked, Row
<1> HIDE DEF s
<1>7. draft' = [draft EXCEPT ![w][s] = Rotated(sessions[s], t)]
  BY <1>3, <1>6
<1>8. /\ DraftTypes'
      /\ draft'[w][s] = Rotated(sessions[s], t)
      /\ \A x \in Session \ {s} : draft'[w][x] = draft[w][x]
      /\ Drafted(w)' = Drafted(w) \cup {s}
      /\ \A v \in Worker \ {w} : draft'[v] = draft[v]
  BY <1>1, <1>4, <1>7, DraftOne DEF LockInv
<1>9. RotationDrafts(w)'
  BY <1>1, <1>2, <1>8 DEF RotationDrafts, s
<1>10. Drafts(w)'
  BY <1>1, <1>9 DEF Drafts, At
<1> QED
  BY <1>1, <1>2, <1>8, <1>10, OneMoves

-----------------------------------------------------------------------------
(* Commits and rollbacks.                                                   *)

(* A transaction that ends keeps the invariant when what it commits is a    *)
(* step of Sessions.                                                        *)
LEMMA EndInv ==
  ASSUME LockInv, NEW w \in Worker, NEW r, [Next]_vars,
         draft' = [draft EXCEPT ![w] = NoDraft],
         Become(w, r),
         \A s \in Session : s \notin Drafted(w) => sessions'[s] = sessions[s]
  PROVE  LockInv'
<1>1. draft'[w] = NoDraft /\ \A v \in Worker \ {w} : draft'[v] = draft[v]
  BY DEF LockInv, DraftTypes
<1>2. DraftTypes'
  BY NoRowFields DEF LockInv, DraftTypes, NoDraft
<1>3. Drafted(w)' = {} /\ Drafts(w)'
  BY <1>1, NothingDrafted
<1>4. \A v \in Worker \ {w} : request'[v] = request[v]
  BY OthersStay DEF LockInv
<1>5. \A v \in Worker \ {w} : \A s \in Drafted(v) : sessions'[s] = sessions[s]
  <2> TAKE v \in Worker \ {w}
  <2> TAKE s \in Drafted(v)
  <2>1. s \in Session /\ s \notin Drafted(w)
    BY DEF LockInv, Exclusive, Drafted
  <2> QED
    BY <2>1
<1> QED
  BY <1>1, <1>2, <1>3, <1>4, <1>5, OneMoves

(* A rollback is an abort.                                                  *)
LEMMA RollbackInv ==
  ASSUME LockInv, NEW w \in Worker, Rollback(w)
  PROVE  [Next]_vars /\ LockInv'
<1>1. [Next]_vars
  BY DEF Rollback, Next
<1> QED
  BY <1>1, EndInv DEF Rollback, Abort

(* A rotation commits what RotateRefreshToken does in one step.             *)
LEMMA CommitRotationStep ==
  ASSUME LockInv, NEW w \in Worker, CommitRotation(w)
  PROVE  [Next]_vars /\ LockInv'
<1> DEFINE s == request[w].token
           u == sessions[s].user
<1>1. s \in Session /\ sessions[s] \in Row
  BY FlushedRotation DEF CommitRotation
<1>2. PICK t \in Session, now \in Nat :
        /\ request[w].at <= now /\ now <= clock
        /\ t # s
        /\ Drafted(w) = {s, t}
        /\ Inserted(w) = {t}
        /\ sessions[t].state = "absent"
        /\ draft[w][t] = NewRow(u, now)
        /\ \/ draft[w][s] = [Revoked(sessions[s]) EXCEPT !.used = TRUE]
           \/ draft[w][s] = Rotated(sessions[s], t)
  BY FlushedRotation DEF CommitRotation
<1>3. /\ At(w, "rotate") /\ draft[w][s].replacedBy = t
      /\ sessions' = [x \in Session |-> IF x \in Drafted(w) THEN draft[w][x]
                                                            ELSE sessions[x]]
      /\ draft' = [draft EXCEPT ![w] = NoDraft]
      /\ Become(w, Starting("answer", u, None))
      /\ UNCHANGED <<clock, active, accessUntil, ended>>
      /\ lineage' = [lineage EXCEPT
                       ![t] = [parent |-> s, worker |-> w, root |-> lineage[s].root]]
  BY <1>2 DEF CommitRotation, Commit
<1>4. draft[w][s] = Rotated(sessions[s], t)
  <2>1. CASE draft[w][s] = [Revoked(sessions[s]) EXCEPT !.used = TRUE]
    BY <1>1, <1>3, <2>1 DEF Rotated, Revoked, Row
  <2> QED
    BY <1>2, <2>1
<1>5. sessions \in [Session -> Row]
  BY DEF LockInv, TypeInv, TypeOK
<1>6. sessions' = [sessions EXCEPT ![s] = Rotated(@, t), ![t] = NewRow(u, now)]
  BY <1>1, <1>2, <1>3, <1>4, <1>5
<1>7. RotateRefreshToken(w)
  <2>1. now \in request[w].at .. clock
    BY <1>2, SessionsAssumption DEF LockInv, TypeInv, TypeOK, Request
  <2> QED
    BY <1>2, <1>3, <1>6, <2>1 DEF RotateRefreshToken
<1>8. [Next]_vars
  BY <1>7 DEF Next, Refresh
<1> QED
  BY <1>3, <1>8, EndInv

(* A logout commits one revoked row and a logout-all all of its rows.       *)
LEMMA CommitRevocationsStep ==
  ASSUME LockInv, NEW w \in Worker, CommitRevocations(w)
  PROVE  [Next]_vars /\ LockInv'
<1>1. /\ request[w].pc \in {"revoke", "sweep"}
      /\ sessions' = [x \in Session |-> IF x \in Drafted(w) THEN draft[w][x]
                                                            ELSE sessions[x]]
      /\ draft' = [draft EXCEPT ![w] = NoDraft]
      /\ Become(w, Idle)
      /\ UNCHANGED <<clock, active, accessUntil, lineage>>
      /\ End(IF At(w, "sweep") THEN "logoutAll" ELSE "logout", Drafted(w))
  BY DEF CommitRevocations, Commit
<1>2. Drafted(w) = Targets(w) /\ \A s \in Drafted(w) : draft[w][s] = Revoked(sessions[s])
  BY DEF CommitRevocations, LockInv, Drafts, RevocationDrafts, Remaining, At
<1>3. sessions \in [Session -> Row] /\ request[w] \in Request
  BY DEF LockInv, TypeInv, TypeOK
<1>4. ASSUME At(w, "sweep")
      PROVE  [Next]_vars
  <2>1. Drafted(w) = request[w].rows
    BY <1>2, <1>4 DEF Targets
  <2>2. sessions' = [s \in Session |-> IF s \in request[w].rows THEN Revoked(sessions[s])
                                                                ELSE sessions[s]]
    BY <1>1, <1>2, <2>1
  <2>3. RevokeAllSessions(w)
    BY <1>1, <1>4, <2>1, <2>2 DEF RevokeAllSessions
  <2> QED
    BY <2>3 DEF Next, LogoutAll
<1>5. ASSUME At(w, "revoke")
      PROVE  [Next]_vars
  <2>1. Drafted(w) = {request[w].token} /\ request[w].token \in Session
    BY <1>2, <1>5 DEF Targets, At, LockInv, TypeInv, RequestsHold, Holds
  <2>2. sessions' = [sessions EXCEPT ![request[w].token] = Revoked(@)]
    BY <1>1, <1>2, <1>3, <2>1
  <2>3. RevokeRefreshToken(w)
    BY <1>1, <1>5, <2>1, <2>2 DEF RevokeRefreshToken, At
  <2> QED
    BY <2>3 DEF Next, Logout
<1>6. [Next]_vars
  BY <1>1, <1>4, <1>5 DEF At
<1> QED
  BY <1>1, <1>6, EndInv

-----------------------------------------------------------------------------
(* The theorems.                                                            *)

(* Every step keeps the invariant and is a step of Sessions or none.        *)
LEMMA LockStep == LockInv /\ [LockNext]_lockVars => LockInv' /\ [Next]_vars
<1> SUFFICES ASSUME LockInv, [LockNext]_lockVars PROVE LockInv' /\ [Next]_vars
  OBVIOUS
<1>1. ASSUME NEW w \in Worker, Read(w) \/ InsertSession(w), UNCHANGED draft
      PROVE  LockInv' /\ [Next]_vars
  BY <1>1, ReadLockInv, ReadsHoldNothing
<1>2. ASSUME NEW w \in Worker, Write(w)
      PROVE  LockInv' /\ [Next]_vars
  <2>1. CASE FlushRotation(w)
    BY <2>1, FlushInv DEF FlushRotation
  <2>2. CASE LinkSuccessor(w)
    BY <2>2, LinkSuccessorInv DEF LinkSuccessor
  <2>3. CASE UpdateRow(w)
    BY <2>3, UpdateRowInv DEF UpdateRow
  <2>4. CASE CommitRotation(w)
    BY <2>4, CommitRotationStep
  <2>5. CASE CommitRevocations(w)
    BY <2>5, CommitRevocationsStep
  <2> QED
    BY <1>2, <2>1, <2>2, <2>3, <2>4, <2>5 DEF Write
<1>3. ASSUME NEW w \in Worker, Rollback(w)
      PROVE  LockInv' /\ [Next]_vars
  BY <1>3, RollbackInv
<1>4. ASSUME (\E u \in User : UpdateUser(u)) \/ Tick \/ UNCHANGED vars, UNCHANGED draft
      PROVE  LockInv' /\ [Next]_vars
  BY <1>4, OutsideLockInv
<1> QED
  BY <1>1, <1>2, <1>3, <1>4 DEF LockNext, lockVars

(* What each transaction has written so far, in every reachable state.      *)
THEOREM LockInvariant == LockSpec => []LockInv
BY LockInitInv, LockStep, PTL DEF LockSpec

(* Every variable is well formed however many transactions wait, and only   *)
(* requests that write have anything uncommitted.                           *)
THEOREM LockTypes == LockSpec => []LockTypeOK
<1>1. LockInv => LockTypeOK
  <2> SUFFICES ASSUME LockInv PROVE LockTypeOK
    OBVIOUS
  <2>1. \A w \in Worker : Drafted(w) # {} => request[w].pc \in {"rotate", "revoke", "sweep"}
    BY DEF LockInv, Drafts, At
  <2> QED
    BY <2>1 DEF LockInv, TypeInv, DraftTypes, LockTypeOK
<1> QED
  BY <1>1, LockInvariant, PTL

(* Waiting for row locks, writing statement by statement and rolling back   *)
(* half-way show nothing that Sessions, where commits are single steps,     *)
(* does not: the theorems about Sessions hold of this detail too.           *)
THEOREM LockRefinement == LockSpec => CommitsAreAtomic
<1>1. LockInit => Init
  BY DEF LockInit
<1> QED
  BY <1>1, LockInvariant, LockStep, PTL DEF LockSpec, CommitsAreAtomic, Spec

(* What was proved of commits that are single steps is true of commits that *)
(* wait, roll back and are written row by row: forks stay bounded, the      *)
(* successor links hold, no expiry and no revocation is undone, a           *)
(* deactivation and a finished logout stay in force, and overlapping        *)
(* refreshes keep their contract.                                           *)
THEOREM DetailKeepsPromises ==
  LockSpec => /\ []ForkBounded
              /\ []SuccessorLink
              /\ ExpiryHolds
              /\ RevocationIsFinal
              /\ DeactivationHolds
              /\ LogoutHolds
              /\ OverlapContractHolds
<1>1. LockSpec => Spec
  BY LockRefinement DEF CommitsAreAtomic
<1> QED
  BY <1>1, ForksAreBounded, SuccessorsLinked, ExpiryIsFinal, RevocationHolds,
     DeactivationIsFinal, LogoutIsHeld, OverlapRefinement

(* Among requests that each wait for another, the one that waits for the    *)
(* largest key waits for nobody, since who holds that row is past it.       *)
THEOREM DeadlockFree == LockSpec => []NoCircularWait
<1>1. LockInv => NoCircularWait
  <2> SUFFICES ASSUME LockInv, NEW W \in SUBSET Worker, W # {},
                      \A w \in W : \E v \in W : WaitsFor(w, v)
               PROVE  FALSE
    BY DEF NoCircularWait
  <2> DEFINE Waited == {s \in Session : \E w \in W : s \in Wanted(w)}
  <2>1. \A w \in W : Wanted(w) # {} /\ Wanted(w) \subseteq Waited
    <3> TAKE w \in W
    <3>1. Wanted(w) # {}
      BY DEF WaitsFor
    <3>2. Wanted(w) \subseteq Session
      BY WantedRows
    <3> QED
      BY <3>1, <3>2
  <2>2. Waited # {}
    BY <2>1
  <2> HIDE DEF Waited
  <2>3. PICK m \in Waited : \A s \in Waited : s <= m
    <3>1. Waited \in SUBSET Session
      BY DEF Waited
    <3> QED
      BY <2>2, <3>1, LargestKey
  <2>4. PICK w \in W : m \in Wanted(w)
    BY <2>3 DEF Waited
  <2>5. PICK v \in W : WaitsFor(w, v)
    BY <2>4
  <2>6. \A s \in Wanted(w) : s = m
    <3> TAKE s \in Wanted(w)
    <3>1. s \in Nat /\ m \in Nat /\ s \in Remaining(w) /\ m \in Remaining(w)
      BY <2>4, WantedRows, KeysAreNaturals DEF Wanted
    <3>2. s <= m /\ m <= s
      BY <2>4, <3>1 DEF Wanted
    <3> QED
      BY <3>1, <3>2
  <2>7. m \in Drafted(v)
    BY <2>5, <2>6 DEF WaitsFor
  <2>8. PICK n \in Wanted(v) : n <= m
    BY <2>1, <2>3
  <2>9. n \in Remaining(v) /\ n \in Nat /\ m \in Nat
    BY <2>4, <2>8, WantedRows, KeysAreNaturals DEF Wanted
  <2>10. CASE At(v, "rotate") /\ RotationDrafts(v)
    BY <2>9, <2>10 DEF RotationDrafts, Remaining, Targets, At
  <2>11. CASE RevocationDrafts(v)
    <3>1. m < n
      BY <2>7, <2>9, <2>11 DEF RevocationDrafts
    <3> QED
      BY <2>8, <2>9, <3>1
  <2> QED
    BY <2>7, <2>10, <2>11 DEF LockInv, Drafts
<1> QED
  BY <1>1, LockInvariant, PTL

=============================================================================
