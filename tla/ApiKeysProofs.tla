---------------------------- MODULE ApiKeysProofs ----------------------------
(***************************************************************************)
(* Proofs, for any numbers of keys and workers and any offsets, of the     *)
(* properties of ApiKeys.  The invariant behind them says what a request   *)
(* that accepted a key may still commit: a time earlier than the key's     *)
(* expiry, which the check and the commit do not read again.               *)
(***************************************************************************)
EXTENDS ApiKeys, TLAPS

(* The expiry stored is the one asked for.                                  *)
ColumnsKept ==
  \A k \in Key : keys[k] # None => keys[k].expiresAt = Stored(asked[k])

(* A request between its SELECT and its commit holds an existing key.       *)
HoldsKey ==
  \A w \in Worker : ~ At(w, "idle") =>
    request[w].key \in Key /\ keys[request[w].key] # None

(* What a request that accepted a key will write is a time it was good at.  *)
PendingUse ==
  \A w \in Worker : \A k \in Key :
    At(w, "touch") /\ request[w].key = k /\ asked[k] # None =>
      request[w].at < Instant(asked[k])

IInv ==
  /\ TypeOK
  /\ FlagsAgree
  /\ UsedBeforeExpiry
  /\ ColumnsKept
  /\ HoldsKey
  /\ PendingUse

-----------------------------------------------------------------------------
(* Times are integers, so none of them is NULL.                             *)
LEMMA TimeFacts ==
  /\ Time \subseteq Int
  /\ None \notin Int
  /\ None \notin Key
  /\ None \notin Time
  BY ApiKeysAssumption DEF Time

(* An expiry at an offset is an instant.                                    *)
LEMMA InstantIsInt == \A e \in Expiry : Instant(e) \in Int
  <1> TAKE e \in Expiry
  <1>1. e.wall \in Int /\ e.offset \in Int
    BY ApiKeysAssumption, TimeFacts DEF Expiry
  <1> QED BY <1>1 DEF Instant

(* What the three writes put in a row.                                      *)
LEMMA NewKeyFields ==
  ASSUME NEW e \in Expiry \cup {None}
  PROVE  /\ NewKey(e) \in Row
         /\ NewKey(e).isActive = TRUE
         /\ NewKey(e).revokedAt = None
         /\ NewKey(e).expiresAt = Stored(e)
         /\ NewKey(e).lastUsed = None
  <1>1. Stored(e) \in Int \cup {None} BY InstantIsInt DEF Stored
  <1> QED BY <1>1 DEF NewKey, Row

(* Of a row a use changes last_used_at only.                                *)
LEMMA TouchedFields ==
  ASSUME NEW row \in Row, NEW t \in Time
  PROVE  /\ Touched(row, t) \in Row
         /\ Touched(row, t).isActive = row.isActive
         /\ Touched(row, t).revokedAt = row.revokedAt
         /\ Touched(row, t).expiresAt = row.expiresAt
         /\ Touched(row, t).lastUsed = t
  BY DEF Touched, Row

(* A revocation sets both columns that say so, and no other.                *)
LEMMA RevokedFields ==
  ASSUME NEW row \in Row, NEW t \in Time
  PROVE  /\ Revoked(row, t) \in Row
         /\ Revoked(row, t).isActive = FALSE
         /\ Revoked(row, t).revokedAt = t
         /\ Revoked(row, t).expiresAt = row.expiresAt
         /\ Revoked(row, t).lastUsed = row.lastUsed
  BY DEF Revoked, Row

(* An empty table and idle workers satisfy the invariant.                   *)
LEMMA InitIInv == Init => IInv
  BY ApiKeysAssumption, TimeFacts
  DEF Init, IInv, TypeOK, FlagsAgree, UsedBeforeExpiry, ColumnsKept, HoldsKey,
      PendingUse, Exists, Idle, Request, Time, At

-----------------------------------------------------------------------------
(* The INSERT of a key: nobody holds a key that did not exist.              *)
LEMMA CreateIInv ==
  ASSUME IInv, NEW k \in Key, CreateApiKey(k)
  PROVE  IInv'
  <1> USE TimeFacts
  <1>1. PICK e \in Expiry \cup {None} :
          /\ keys' = [keys EXCEPT ![k] = NewKey(e)]
          /\ asked' = [asked EXCEPT ![k] = e]
    BY DEF CreateApiKey
  <1>2. keys[k] = None /\ UNCHANGED <<clock, request>>
    BY DEF CreateApiKey, Exists
  <1>3. /\ NewKey(e) \in Row
        /\ NewKey(e).isActive = TRUE
        /\ NewKey(e).revokedAt = None
        /\ NewKey(e).expiresAt = Stored(e)
        /\ NewKey(e).lastUsed = None
    BY NewKeyFields
  <1>4. PICK row \in Row :
          /\ row.isActive = TRUE /\ row.revokedAt = None
          /\ row.expiresAt = Stored(e) /\ row.lastUsed = None
          /\ keys' = [keys EXCEPT ![k] = row]
    BY <1>1, <1>3
  <1>5. /\ \A j \in Key : keys'[j] = IF j = k THEN row ELSE keys[j]
        /\ \A j \in Key : asked'[j] = IF j = k THEN e ELSE asked[j]
    BY <1>1, <1>4 DEF IInv, TypeOK
  <1>6. TypeOK' BY <1>1, <1>2, <1>4 DEF IInv, TypeOK
  <1>7. FlagsAgree' BY <1>4, <1>5 DEF IInv, FlagsAgree, Exists
  <1>8. UsedBeforeExpiry' BY <1>4, <1>5 DEF IInv, UsedBeforeExpiry, Exists
  <1>9. ColumnsKept'
    <2>1. \A j \in Key : Stored(asked[j])' = Stored(asked'[j])
      BY DEF Stored
    <2> QED BY <2>1, <1>4, <1>5, NoneIsNoRow DEF IInv, ColumnsKept, Stored
  <1>10. HoldsKey' BY <1>2, <1>5 DEF IInv, HoldsKey, At
  <1>11. PendingUse' BY <1>2, <1>5 DEF IInv, PendingUse, HoldsKey, At
  <1> QED BY <1>6, <1>7, <1>8, <1>9, <1>10, <1>11 DEF IInv

(* A request that only moves, to a request that holds a key it may use.     *)
LEMMA MoveIInv ==
  ASSUME IInv, NEW w \in Worker, NEW r \in Request, Become(w, r),
         UNCHANGED <<clock, keys, asked>>,
         r.pc # "idle" => r.key \in Key /\ keys[r.key] # None,
         \A k \in Key : r.pc = "touch" /\ r.key = k /\ asked[k] # None =>
           r.at < Instant(asked[k])
  PROVE  IInv'
  <1>1. \A v \in Worker : request'[v] = IF v = w THEN r ELSE request[v]
    BY DEF Become, IInv, TypeOK
  <1>2. TypeOK' BY DEF IInv, TypeOK, Become
  <1>3. FlagsAgree' /\ UsedBeforeExpiry'
    BY DEF IInv, FlagsAgree, UsedBeforeExpiry, Exists
  <1>4. ColumnsKept' BY DEF IInv, ColumnsKept, Stored
  <1>5. HoldsKey' BY <1>1 DEF IInv, HoldsKey, At
  <1>6. PendingUse' BY <1>1 DEF IInv, PendingUse, At
  <1> QED BY <1>2, <1>3, <1>4, <1>5, <1>6 DEF IInv

(* The SELECTs of authenticate_api_key and of revoke_api_key.               *)
LEMMA SelectIInv ==
  ASSUME IInv, NEW w \in Worker, NEW k \in Key,
         SelectApiKey(w, k) \/ LoadApiKey(w, k)
  PROVE  IInv'
  <1>1. PICK r \in Request :
          r.pc \in {"check", "revoke"} /\ r.key = k /\ Become(w, r)
    <2>1. \A pc \in {"check", "revoke"} :
            /\ Doing(pc, k) \in Request
            /\ Doing(pc, k).pc = pc /\ Doing(pc, k).key = k
      BY DEF Doing, Request, IInv, TypeOK
    <2>2. PICK pc \in {"check", "revoke"} : Become(w, Doing(pc, k))
      BY DEF SelectApiKey, LoadApiKey
    <2> QED BY <2>1, <2>2
  <1>2. keys[k] # None /\ UNCHANGED <<clock, keys, asked>>
    BY DEF SelectApiKey, LoadApiKey, Exists
  <1> QED BY <1>1, <1>2, MoveIInv

(* What authenticate_api_key finds unexpired was good just then.            *)
LEMMA CheckIInv ==
  ASSUME IInv, NEW w \in Worker, CheckApiKey(w)
  PROVE  IInv'
  <1> USE TimeFacts
  <1>1. PICK k \in Key : k = request[w].key /\ keys[k] # None
    BY DEF CheckApiKey, IInv, HoldsKey, At
  <1>2. keys[k] \in Row /\ clock \in Time BY <1>1 DEF IInv, TypeOK
  <1>3. UNCHANGED <<clock, keys, asked>> BY DEF CheckApiKey
  <1>4. CASE Become(w, Idle)
    <2>1. Idle \in Request /\ Idle.pc = "idle"
      BY ApiKeysAssumption DEF Idle, Request, Time
    <2> QED BY <2>1, <1>3, <1>4, MoveIInv
  <1>5. CASE Unexpired(keys[k]) /\ Become(w, Doing("touch", k))
    <2>1. PICK r \in Request :
            r.pc = "touch" /\ r.key = k /\ r.at = clock /\ Become(w, r)
      <3>1. Doing("touch", k) \in Request BY <1>2 DEF Doing, Request
      <3> QED BY <3>1, <1>5 DEF Doing
    <2>2. asked[k] # None => clock < Instant(asked[k])
      <3>1. keys[k].expiresAt = Stored(asked[k]) BY <1>1 DEF IInv, ColumnsKept
      <3>2. asked[k] # None => Instant(asked[k]) \in Int
        BY InstantIsInt DEF IInv, TypeOK
      <3> QED BY <3>1, <3>2, <1>5 DEF Stored, Unexpired
    <2> QED BY <2>1, <2>2, <1>1, <1>3, MoveIInv
  <1> QED BY <1>1, <1>4, <1>5 DEF CheckApiKey

(* A request that gives up.                                                 *)
LEMMA AbortIInv ==
  ASSUME IInv, NEW w \in Worker, Abort(w)
  PROVE  IInv'
  <1>1. Idle \in Request /\ Idle.pc = "idle"
    BY ApiKeysAssumption DEF Idle, Request, Time
  <1> QED BY <1>1, MoveIInv DEF Abort

(* The UPDATE of one row by a request that ends: what is left to show of    *)
(* the invariant is the two properties that the columns it wrote decide.    *)
LEMMA WriteIInv ==
  ASSUME IInv, NEW w \in Worker, NEW k \in Key, NEW row \in Row,
         keys[k] # None, row.expiresAt = keys[k].expiresAt,
         keys' = [keys EXCEPT ![k] = row],
         Become(w, Idle), UNCHANGED <<clock, asked>>,
         FlagsAgree', UsedBeforeExpiry'
  PROVE  IInv'
  <1>1. \A j \in Key : keys'[j] = IF j = k THEN row ELSE keys[j]
    BY DEF IInv, TypeOK
  <1>2. Idle \in Request /\ Idle.pc = "idle"
    BY ApiKeysAssumption DEF Idle, Request, Time
  <1>3. \A v \in Worker : request'[v] = IF v = w THEN Idle ELSE request[v]
    BY DEF Become, IInv, TypeOK
  <1>4. TypeOK' BY <1>2 DEF IInv, TypeOK, Become
  <1>5. ColumnsKept' BY <1>1, NoneIsNoRow DEF IInv, ColumnsKept, Stored
  <1>6. HoldsKey' BY <1>1, <1>2, <1>3, NoneIsNoRow DEF IInv, HoldsKey, At
  <1>7. PendingUse' BY <1>2, <1>3 DEF IInv, PendingUse, At, Instant
  <1> QED BY <1>4, <1>5, <1>6, <1>7 DEF IInv

(* The commit of last_used_at, possibly after the key was revoked.          *)
LEMMA TouchIInv ==
  ASSUME IInv, NEW w \in Worker, TouchApiKey(w)
  PROVE  IInv'
  <1> USE TimeFacts
  <1>1. PICK k \in Key, at \in Time :
          k = request[w].key /\ at = request[w].at
    BY DEF TouchApiKey, IInv, TypeOK, HoldsKey, Request, At
  <1>2. keys[k] \in Row /\ keys[k] # None
    BY <1>1 DEF TouchApiKey, IInv, TypeOK, HoldsKey, At
  <1>3. asked[k] # None => at < Instant(asked[k])
    BY <1>1 DEF TouchApiKey, IInv, PendingUse
  <1>4. PICK row \in Row :
          /\ row.isActive = keys[k].isActive
          /\ row.revokedAt = keys[k].revokedAt
          /\ row.expiresAt = keys[k].expiresAt
          /\ row.lastUsed = at
          /\ keys' = [keys EXCEPT ![k] = row]
    <2>1. keys' = [keys EXCEPT ![k] = Touched(keys[k], at)]
      BY <1>1 DEF TouchApiKey
    <2> QED BY <2>1, <1>2, TouchedFields
  <1>5. Become(w, Idle) /\ UNCHANGED <<clock, asked>>
    BY DEF TouchApiKey
  <1>6. \A j \in Key : keys'[j] = IF j = k THEN row ELSE keys[j]
    BY <1>4 DEF IInv, TypeOK
  <1>7. FlagsAgree' BY <1>2, <1>4, <1>6 DEF IInv, FlagsAgree, Exists
  <1>8. UsedBeforeExpiry'
    BY <1>3, <1>4, <1>5, <1>6 DEF IInv, UsedBeforeExpiry, Exists, Instant
  <1> QED BY <1>2, <1>4, <1>5, <1>7, <1>8, WriteIInv

(* The commit of a revocation, perhaps not the first.                       *)
LEMMA RevokeIInv ==
  ASSUME IInv, NEW w \in Worker, RevokeApiKey(w)
  PROVE  IInv'
  <1> USE TimeFacts
  <1>1. PICK k \in Key, at \in Time :
          /\ k = request[w].key
          /\ keys' = [keys EXCEPT ![k] = Revoked(@, at)]
    <2>1. request[w].at .. clock \subseteq Time
      BY ApiKeysAssumption DEF IInv, TypeOK, Request, Time
    <2> QED BY <2>1 DEF RevokeApiKey, IInv, HoldsKey, At
  <1>2. keys[k] \in Row /\ keys[k] # None
    BY <1>1 DEF RevokeApiKey, IInv, TypeOK, HoldsKey, At
  <1>3. PICK row \in Row :
          /\ row.isActive = FALSE
          /\ row.revokedAt = at
          /\ row.expiresAt = keys[k].expiresAt
          /\ row.lastUsed = keys[k].lastUsed
          /\ keys' = [keys EXCEPT ![k] = row]
    <2>1. keys' = [keys EXCEPT ![k] = Revoked(keys[k], at)] BY <1>1
    <2> QED BY <2>1, <1>2, RevokedFields
  <1>4. Become(w, Idle) /\ UNCHANGED <<clock, asked>>
    BY DEF RevokeApiKey
  <1>5. \A j \in Key : keys'[j] = IF j = k THEN row ELSE keys[j]
    BY <1>3 DEF IInv, TypeOK
  <1>6. FlagsAgree' BY <1>3, <1>5 DEF IInv, FlagsAgree, Exists
  <1>7. UsedBeforeExpiry'
    BY <1>2, <1>3, <1>4, <1>5 DEF IInv, UsedBeforeExpiry, Exists, Instant
  <1> QED BY <1>2, <1>3, <1>4, <1>6, <1>7, WriteIInv

(* Time passes: nothing the invariant relates is compared with the clock.   *)
LEMMA TickIInv ==
  ASSUME IInv, Tick
  PROVE  IInv'
  <1>1. clock' \in Time /\ UNCHANGED <<keys, request, asked>>
    BY ApiKeysAssumption DEF Tick, IInv, TypeOK, Time
  <1> QED
    BY <1>1
    DEF IInv, TypeOK, FlagsAgree, UsedBeforeExpiry, ColumnsKept, HoldsKey,
        PendingUse, Exists, At, Stored, Instant

-----------------------------------------------------------------------------
(* Every step keeps the invariant.                                          *)
LEMMA StepIInv == IInv /\ [Next]_vars => IInv'
  <1> SUFFICES ASSUME IInv, [Next]_vars PROVE IInv'
    OBVIOUS
  <1>1. ASSUME NEW k \in Key, CreateApiKey(k) PROVE IInv'
    BY <1>1, CreateIInv
  <1>2. ASSUME NEW w \in Worker, NEW k \in Key,
               SelectApiKey(w, k) \/ LoadApiKey(w, k)
        PROVE  IInv'
    BY <1>2, SelectIInv
  <1>3. ASSUME NEW w \in Worker, CheckApiKey(w) PROVE IInv'
    BY <1>3, CheckIInv
  <1>4. ASSUME NEW w \in Worker, TouchApiKey(w) PROVE IInv'
    BY <1>4, TouchIInv
  <1>5. ASSUME NEW w \in Worker, RevokeApiKey(w) PROVE IInv'
    BY <1>5, RevokeIInv
  <1>6. ASSUME NEW w \in Worker, Abort(w) PROVE IInv'
    BY <1>6, AbortIInv
  <1>7. CASE Tick BY <1>7, TickIInv
  <1>8. CASE UNCHANGED vars
    BY <1>8
    DEF vars, IInv, TypeOK, FlagsAgree, UsedBeforeExpiry, ColumnsKept, HoldsKey,
        PendingUse, Exists, At, Stored, Instant
  <1> QED BY <1>1, <1>2, <1>3, <1>4, <1>5, <1>6, <1>7, <1>8 DEF Next, Serve

(* In every behaviour, what a request that accepted a key still holds is    *)
(* harmless to commit: it dates from before the key's expiry.               *)
THEOREM KeyInvariant == Spec => []IInv
  <1>1. Init => IInv BY InitIInv
  <1>2. IInv /\ [Next]_vars => IInv' BY StepIInv
  <1> QED BY <1>1, <1>2, PTL DEF Spec

(* However authentications and revocations interleave, every variable keeps *)
(* its type.                                                                *)
THEOREM TypeCorrect == Spec => []TypeOK
  <1>1. IInv => TypeOK BY DEF IInv
  <1> QED BY <1>1, KeyInvariant, PTL

(* is_active and revoked_at always agree on whether a key was revoked.      *)
THEOREM FlagsStayTogether == Spec => []FlagsAgree
  <1>1. IInv => FlagsAgree BY DEF IInv
  <1> QED BY <1>1, KeyInvariant, PTL

(* last_used_at never reaches the instant the creator gave, at whatever      *)
(* offset.                                                                  *)
THEOREM NoUseAtExpiry == Spec => []UsedBeforeExpiry
  <1>1. IInv => UsedBeforeExpiry BY DEF IInv
  <1> QED BY <1>1, KeyInvariant, PTL

(* What RevocationIsFinal says of one step.                                 *)
RevokedFinalStep ==
  \A k \in Key : Exists(k) /\ keys[k].revokedAt # None =>
    keys'[k].revokedAt # None /\ ~ keys'[k].isActive

(* A revoked row is left as it is, dated anew or revoked once more.         *)
LEMMA RevokedFinal ==
  ASSUME IInv, [Next]_vars
  PROVE  RevokedFinalStep
  <1> SUFFICES ASSUME NEW k \in Key, Exists(k), keys[k].revokedAt # None
               PROVE  keys'[k].revokedAt # None /\ ~ keys'[k].isActive
    BY DEF RevokedFinalStep
  <1>1. keys[k] \in Row /\ ~ keys[k].isActive
    BY DEF IInv, TypeOK, FlagsAgree, Exists
  <1>2. CASE keys' = keys BY <1>1, <1>2
  <1>3. ASSUME NEW j \in Key, CreateApiKey(j)
        PROVE  keys'[k].revokedAt # None /\ ~ keys'[k].isActive
    <2>1. j # k /\ \E row : keys' = [keys EXCEPT ![j] = row]
      BY <1>3 DEF CreateApiKey, Exists
    <2> QED BY <2>1, <1>1 DEF IInv, TypeOK
  <1>4. ASSUME NEW w \in Worker, TouchApiKey(w)
        PROVE  keys'[k].revokedAt # None /\ ~ keys'[k].isActive
    <2>1. request[w].at \in Time BY DEF IInv, TypeOK, Request
    <2>2. PICK t \in Time :
            keys'[k] = keys[k] \/ keys'[k] = Touched(keys[k], t)
      BY <2>1, <1>4 DEF TouchApiKey, IInv, TypeOK
    <2> QED BY <2>2, <1>1, TouchedFields
  <1>5. ASSUME NEW w \in Worker, RevokeApiKey(w)
        PROVE  keys'[k].revokedAt # None /\ ~ keys'[k].isActive
    <2>1. request[w].at .. clock \subseteq Time
      BY ApiKeysAssumption DEF IInv, TypeOK, Request, Time
    <2>2. PICK t \in Time :
            keys'[k] = keys[k] \/ keys'[k] = Revoked(keys[k], t)
      BY <2>1, <1>5, TimeFacts DEF RevokeApiKey, IInv, TypeOK
    <2>3. /\ Revoked(keys[k], t).revokedAt = t
          /\ Revoked(keys[k], t).isActive = FALSE
      BY <1>1, RevokedFields
    <2>4. t # None BY TimeFacts
    <2>5. CASE keys'[k] = keys[k] BY <2>5, <1>1
    <2>6. CASE keys'[k] = Revoked(keys[k], t)
      <3>1. keys'[k].revokedAt # None BY <2>3, <2>4, <2>6
      <3>2. keys'[k].isActive = FALSE BY <2>3, <2>6
      <3> QED BY <3>1, <3>2
    <2> QED BY <2>2, <2>5, <2>6
  <1> QED
    BY <1>2, <1>3, <1>4, <1>5
    DEF Next, Serve, SelectApiKey, LoadApiKey, CheckApiKey, Abort, Tick, vars

(* No commit makes a revoked key active again.                              *)
THEOREM RevocationHolds == Spec => RevocationIsFinal
  <1>1. IInv /\ [Next]_vars => [RevokedFinalStep]_vars BY RevokedFinal
  <1> QED BY <1>1, KeyInvariant, PTL DEF Spec, RevocationIsFinal, RevokedFinalStep

(* No row is ever deleted.                                                  *)
LEMMA KeysStay ==
  ASSUME IInv, Next, NEW k \in Key, keys[k] # None
  PROVE  keys'[k] # None
  <1>1. ASSUME NEW j \in Key, CreateApiKey(j) PROVE keys'[k] # None
    <2>1. PICK e \in Expiry \cup {None} : keys' = [keys EXCEPT ![j] = NewKey(e)]
      BY <1>1 DEF CreateApiKey
    <2> QED BY <2>1, NewKeyFields, NoneIsNoRow DEF IInv, TypeOK
  <1>2. ASSUME NEW w \in Worker, TouchApiKey(w) PROVE keys'[k] # None
    <2>1. request[w].at \in Time BY DEF IInv, TypeOK, Request
    <2> QED BY <1>2, <2>1, TouchedFields, NoneIsNoRow DEF TouchApiKey, IInv, TypeOK
  <1>3. ASSUME NEW w \in Worker, RevokeApiKey(w) PROVE keys'[k] # None
    <2>1. request[w].at .. clock \subseteq Time
      BY ApiKeysAssumption DEF IInv, TypeOK, Request, Time
    <2>2. PICK t \in Time :
            keys'[k] = keys[k] \/ keys'[k] = Revoked(keys[k], t)
      BY <1>3, <2>1, TimeFacts DEF RevokeApiKey, IInv, TypeOK
    <2>3. Revoked(keys[k], t) \in Row BY RevokedFields DEF IInv, TypeOK
    <2> QED BY <2>2, <2>3, NoneIsNoRow
  <1>4. CASE UNCHANGED keys BY <1>4
  <1> QED
    BY <1>1, <1>2, <1>3, <1>4
    DEF Next, Serve, SelectApiKey, LoadApiKey, CheckApiKey, Abort, Tick

(* The only requests that get further with a revoked key, or date its use,  *)
(* are those that had read it before.                                       *)
LEMMA ShutOutStep ==
  ASSUME IInv, Next, RevokedFinalStep, NEW k \in Key, ShutOut(k)
  PROVE  ShutOut(k)' /\ keys'[k].lastUsed = keys[k].lastUsed
  <1>1. /\ keys[k] \in Row /\ ~ keys[k].isActive
        /\ keys'[k] # None /\ keys'[k].revokedAt # None
    BY KeysStay DEF ShutOut, RevokedFinalStep, IInv, TypeOK, FlagsAgree, Exists
  <1>2. \A w \in Worker : request[w].pc \in {"check", "touch"} => request[w].key # k
    BY DEF ShutOut
  <1> SUFFICES /\ \A w \in Worker :
                    request'[w].pc \in {"check", "touch"} => request'[w].key # k
               /\ keys'[k].lastUsed = keys[k].lastUsed
    BY <1>1 DEF ShutOut, Exists
  <1>3. CASE UNCHANGED <<keys, request>> BY <1>2, <1>3
  <1>4. ASSUME NEW j \in Key, CreateApiKey(j)
        PROVE  keys'[k] = keys[k] /\ UNCHANGED request
    <2>1. j # k /\ \E row : keys' = [keys EXCEPT ![j] = row]
      BY <1>1, <1>4, NoneIsNoRow DEF CreateApiKey, Exists
    <2> QED BY <2>1, <1>4 DEF CreateApiKey, IInv, TypeOK
  <1>5. ASSUME NEW w \in Worker, Serve(w)
        PROVE  /\ \A v \in Worker \ {w} : request'[v] = request[v]
               /\ request'[w].pc \in {"check", "touch"} => request'[w].key # k
               /\ keys'[k].lastUsed = keys[k].lastUsed
    <2>1. request \in [Worker -> Request] /\ Idle.pc = "idle"
      BY DEF IInv, TypeOK, Idle
    <2>2. \A v \in Worker \ {w} : request'[v] = request[v]
      BY <2>1, <1>5
      DEF Serve, SelectApiKey, LoadApiKey, CheckApiKey, TouchApiKey, RevokeApiKey,
          Abort, Become
    <2>3. request'[w].pc \in {"check", "touch"} => request'[w].key # k
      <3>1. ASSUME NEW j \in Key, SelectApiKey(w, j)
            PROVE  request'[w].key # k
        BY <3>1, <2>1, <1>1 DEF SelectApiKey, InForce, Become, Doing
      <3>2. ASSUME NEW j \in Key, LoadApiKey(w, j)
            PROVE  request'[w].pc = "revoke"
        BY <3>2, <2>1 DEF LoadApiKey, Become, Doing
      <3>3. ASSUME CheckApiKey(w)
            PROVE  request'[w].pc = "idle" \/ request'[w].key # k
        <4>1. request[w].key # k BY <3>3, <1>2 DEF CheckApiKey, At
        <4>2. CASE Become(w, Doing("touch", request[w].key))
          BY <4>1, <4>2, <2>1 DEF Become, Doing
        <4>3. CASE Become(w, Idle) BY <4>3, <2>1 DEF Become
        <4> QED BY <4>2, <4>3, <3>3 DEF CheckApiKey
      <3>4. ASSUME TouchApiKey(w) \/ RevokeApiKey(w) \/ Abort(w)
            PROVE  request'[w].pc = "idle"
        BY <3>4, <2>1 DEF TouchApiKey, RevokeApiKey, Abort, Become
      <3> QED BY <1>5, <3>1, <3>2, <3>3, <3>4 DEF Serve
    <2>4. keys'[k].lastUsed = keys[k].lastUsed
      <3>1. CASE TouchApiKey(w)
        <4>1. request[w].key # k BY <3>1, <1>2 DEF TouchApiKey, At
        <4> QED BY <3>1, <4>1 DEF TouchApiKey, IInv, TypeOK
      <3>2. CASE RevokeApiKey(w)
        <4>1. request[w].at .. clock \subseteq Time
          BY ApiKeysAssumption DEF IInv, TypeOK, Request, Time
        <4>2. PICK t \in Time :
                keys'[k] = keys[k] \/ keys'[k] = Revoked(keys[k], t)
          BY <4>1, <3>2, TimeFacts DEF RevokeApiKey, IInv, TypeOK
        <4>3. Revoked(keys[k], t).lastUsed = keys[k].lastUsed
          BY <1>1, RevokedFields
        <4> QED BY <4>2, <4>3
      <3>3. CASE UNCHANGED keys BY <3>3
      <3> QED
        BY <1>5, <3>1, <3>2, <3>3
        DEF Serve, SelectApiKey, LoadApiKey, CheckApiKey, Abort
    <2> QED BY <2>2, <2>3, <2>4
  <1> QED BY <1>2, <1>3, <1>4, <1>5 DEF Next, Tick

(* Once the requests that had read a key before its revocation have ended,  *)
(* the key is never used again.                                             *)
THEOREM RevokedKeysStayOut == Spec => RevokedIsShutOut
  <1> DEFINE Out ==
        \A k \in Key : ShutOut(k) =>
          /\ ShutOut(k)'
          /\ keys'[k].lastUsed = keys[k].lastUsed
  <1>1. ASSUME IInv, [Next]_vars PROVE [Out]_vars
    <2>1. RevokedFinalStep BY <1>1, RevokedFinal
    <2> QED BY <1>1, <2>1, ShutOutStep
  <1>2. IInv /\ [Next]_vars => [Out]_vars BY <1>1
  <1> QED BY <1>2, KeyInvariant, PTL DEF Spec, RevokedIsShutOut

=============================================================================
