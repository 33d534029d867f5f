------------------------------ MODULE ApiKeys -------------------------------
(***************************************************************************)
(* Service API keys: creation, authentication by other services, and       *)
(* revocation by an administrator, as concurrent requests against the      *)
(* api_keys table.  An UPDATE writes only the columns its request changed. *)
(***************************************************************************)
EXTENDS Integers

CONSTANTS
  Key,      \* rows of api_keys, each standing for its secret too
  Worker,   \* requests in progress at the same time
  Offset,   \* UTC offsets an administrator may give an expiry time in
  MaxTime,  \* where the clock stops: a bound on the model only
  None      \* NULL

ASSUME ApiKeysAssumption ==
  /\ Offset \subseteq Int
  /\ MaxTime \in Nat
  /\ None \notin Int \cup Key

VARIABLES
  clock,    \* datetime.now(UTC)
  keys,     \* the table api_keys; None where a key was not created yet
  request,  \* what each worker is doing
  asked     \* history: the expiry each key was created with

vars == <<clock, keys, request, asked>>

-----------------------------------------------------------------------------
Time == 0 .. MaxTime

(* An expiry as it arrives: the time on the wall at some offset.            *)
Expiry == [wall : Time, offset : Offset]

Instant(e) == e.wall - e.offset

Row == [isActive : BOOLEAN,
        revokedAt : Time \cup {None},
        expiresAt : Int \cup {None},
        lastUsed : Time \cup {None}]

ASSUME NoneIsNoRow == None \notin Row

(* A timestamptz column keeps the instant; as_utc then leaves it alone.     *)
Stored(e) == IF e = None THEN None ELSE Instant(e)

NewKeyUnflagged(e) ==  \* mutant: is_active left for the database to fill in
  [isActive |-> None, revokedAt |-> None,
   expiresAt |-> Stored(e), lastUsed |-> None]

NewKey(e) == [isActive |-> TRUE, revokedAt |-> None,
              expiresAt |-> Stored(e), lastUsed |-> None]

Revoked(row, at) == [row EXCEPT !.isActive = FALSE, !.revokedAt = at]

TouchedAsRead(row, at) ==  \* mutant: the whole row, as it was when read
  [row EXCEPT !.isActive = TRUE, !.revokedAt = None, !.lastUsed = at]

Touched(row, at) == [row EXCEPT !.lastUsed = at]

Exists(k) == keys[k] # None

(* authenticate_api_key's conditions, on the row as it was read.            *)
InForceOrRevoked(row) == row # None  \* mutant: neither column is tested

InForce(row) == row.isActive /\ row.revokedAt = None

UnexpiredInclusive(row) ==  \* mutant
  row.expiresAt # None => clock <= row.expiresAt

Unexpired(row) == row.expiresAt # None => clock < row.expiresAt

Request == [pc : {"idle", "check", "touch", "revoke"},
            key : Key \cup {None},
            at : Time]  \* when it last looked at the clock, or could have

Doing(pc, k) == [pc |-> pc, key |-> k, at |-> clock]

Idle == [pc |-> "idle", key |-> None, at |-> 0]

Become(w, r) == request' = [request EXCEPT ![w] = r]

At(w, pc) == request[w].pc = pc

Init ==
  /\ clock = 0
  /\ keys = [k \in Key |-> None]
  /\ request = [w \in Worker |-> Idle]
  /\ asked = [k \in Key |-> None]

-----------------------------------------------------------------------------
(* POST /admin/api-keys: one INSERT, with or without an expiry, which may   *)
(* already be past.                                                         *)
CreateApiKey(k) ==
  /\ ~ Exists(k)
  /\ \E e \in Expiry \cup {None} :
       /\ keys' = [keys EXCEPT ![k] = NewKey(e)]
       /\ asked' = [asked EXCEPT ![k] = e]
  /\ UNCHANGED <<clock, request>>

(* The SELECT of authenticate_api_key.  A key that is not in force as it is *)
(* read is rejected, which writes nothing.                                  *)
SelectApiKey(w, k) ==
  /\ At(w, "idle")
  /\ Exists(k)
  /\ InForce(keys[k])
  /\ Become(w, Doing("check", k))
  /\ UNCHANGED <<clock, keys, asked>>

(* Then it reads the clock, tests the expiry, which no request changes, and *)
(* will record that very time.  A revocation may have committed meanwhile.  *)
CheckApiKey(w) ==
  LET k == request[w].key IN
  /\ At(w, "check")
  /\ Become(w, IF Unexpired(keys[k]) THEN Doing("touch", k) ELSE Idle)
  /\ UNCHANGED <<clock, keys, asked>>

(* last_used_at is committed and the request goes ahead.                    *)
TouchApiKey(w) ==
  LET r == request[w] IN
  /\ At(w, "touch")
  /\ keys' = [keys EXCEPT ![r.key] = Touched(@, r.at)]
  /\ Become(w, Idle)
  /\ UNCHANGED <<clock, asked>>

(* revoke_api_key reads the row; one already revoked is answered 404.       *)
LoadApiKey(w, k) ==
  /\ At(w, "idle")
  /\ Exists(k)
  /\ keys[k].revokedAt = None
  /\ Become(w, Doing("revoke", k))
  /\ UNCHANGED <<clock, keys, asked>>

(* It reads the clock at some time between the SELECT and the commit.       *)
RevokeApiKey(w) ==
  LET r == request[w] IN
  /\ At(w, "revoke")
  /\ \E at \in r.at .. clock : keys' = [keys EXCEPT ![r.key] = Revoked(@, at)]
  /\ Become(w, Idle)
  /\ UNCHANGED <<clock, asked>>

(* A statement fails or the process stops before the commit.                *)
Abort(w) ==
  /\ ~ At(w, "idle")
  /\ Become(w, Idle)
  /\ UNCHANGED <<clock, keys, asked>>

Tick ==
  /\ clock < MaxTime
  /\ clock' = clock + 1
  /\ UNCHANGED <<keys, request, asked>>

Serve(w) ==
  \/ \E k \in Key : SelectApiKey(w, k) \/ LoadApiKey(w, k)
  \/ CheckApiKey(w)
  \/ TouchApiKey(w)
  \/ RevokeApiKey(w)
  \/ Abort(w)

Next ==
  \/ \E k \in Key : CreateApiKey(k)
  \/ \E w \in Worker : Serve(w)
  \/ Tick

Spec == Init /\ [][Next]_vars

-----------------------------------------------------------------------------
(* Every variable holds what its column or local can hold.                  *)
TypeOK ==
  /\ clock \in Time
  /\ keys \in [Key -> Row \cup {None}]
  /\ request \in [Worker -> Request]
  /\ asked \in [Key -> Expiry \cup {None}]

(* The two columns that say a key is revoked never disagree, although       *)
(* requests that read the key before it was revoked write to its row after. *)
FlagsAgree ==
  \A k \in Key : Exists(k) => (keys[k].isActive <=> keys[k].revokedAt = None)

(* A revoked key that no request is left using of those that read it        *)
(* before.                                                                  *)
ShutOut(k) ==
  /\ Exists(k) /\ keys[k].revokedAt # None
  /\ \A w \in Worker : request[w].pc \in {"check", "touch"} => request[w].key # k

(* authenticate_api_key reads the row once and commits last_used_at later,  *)
(* perhaps later than a revocation and dated after it.  But that is all: as *)
(* soon as the requests that had read the key before have ended, no service *)
(* gets any further with it, and its row records no further use.            *)
RevokedIsShutOut ==
  [][\A k \in Key : ShutOut(k) =>
       /\ ShutOut(k)'
       /\ keys'[k].lastUsed = keys[k].lastUsed]_vars

(* A key is only ever used before the instant its creator meant, whatever   *)
(* offset the expiry was given in.                                          *)
UsedBeforeExpiry ==
  \A k \in Key : Exists(k) /\ asked[k] # None /\ keys[k].lastUsed # None =>
    keys[k].lastUsed < Instant(asked[k])

(* Revocation is for good: no commit makes a revoked key active again.      *)
RevocationIsFinal ==
  [][\A k \in Key : Exists(k) /\ keys[k].revokedAt # None =>
       keys'[k].revokedAt # None /\ ~ keys'[k].isActive]_vars

=============================================================================
