------------------------ MODULE ServiceRegistryProofs ------------------------
(***************************************************************************)
(* Proofs, for any numbers of services, slugs, defaults and workers, of    *)
(* the properties of ServiceRegistry.  They follow from what a request     *)
(* holds: an id that was issued, so that no later row can have it, and the *)
(* row as it was loaded, so that the columns its UPDATE sets are those of  *)
(* the patch.                                                              *)
(***************************************************************************)
EXTENDS ServiceRegistry, TLAPS

PresentWasIssued == \A s \in Service : Present(s) => s \in issued

HoldsIssued ==
  \A w \in Worker : request[w].service # None => request[w].service \in issued

(* A request about to write has what it writes, and where.                  *)
BusyHolds ==
  \A w \in Worker :
    /\ At(w, "create") => request[w].columns # None
    /\ At(w, "update") => request[w].service # None /\ request[w].loaded # None
    /\ At(w, "delete") => request[w].service # None

IInv ==
  /\ TypeOK
  /\ PresentWasIssued
  /\ HoldsIssued
  /\ BusyHolds
  /\ SlugsUnique

-----------------------------------------------------------------------------
(* What the ORM's UPDATE makes of a row: a row, whose columns are as they   *)
(* are in the table or as the patch asked.                                  *)
LEMMA WrittenFromPatch ==
  ASSUME NEW now \in Columns, NEW loaded \in Columns, NEW patch \in Patch
  PROVE  /\ Written(now, loaded, patch) \in Columns
         /\ \A c \in {"slug", "required"} :
              Written(now, loaded, patch)[c] # now[c] =>
                patch[c] = Written(now, loaded, patch)[c]
  BY DEF Written, Patched, Columns, Patch

(* The rows that a seeding inserts are defaults with slugs of their own.    *)
LEMMA SeedsDiffer ==
  ASSUME TypeOK, NEW w \in Worker
  PROVE  /\ Seeds(w) \subseteq Columns
         /\ \A c, d \in Seeds(w) : c.slug = d.slug => c = d
  <1>1. request[w].missing \subseteq DOMAIN Defaults
    BY RegistryAssumption DEF TypeOK, Request
  <1>2. \A i \in DOMAIN Defaults : Defaults[i] \in Columns
    BY RegistryAssumption
  <1> QED BY <1>1, <1>2, RegistryAssumption DEF Seeds

(* An idle request is well formed and holds nothing.                        *)
LEMMA IdleTyped ==
  /\ Idle \in Request
  /\ Idle.pc = "idle" /\ Idle.next = 1 /\ Idle.missing = {} /\ Idle.columns = None
  /\ Idle.service = None /\ Idle.loaded = None /\ Idle.patch = NoPatch
  <1>1. Len(Defaults) \in Nat BY RegistryAssumption
  <1> QED BY <1>1 DEF Idle, Request, Patch, NoPatch

(* The tables as they were left, and idle workers, satisfy the invariant.   *)
LEMMA InitIInv == Init => IInv
  <1> SUFFICES ASSUME Init PROVE IInv OBVIOUS
  <1>0. PICK there \in SUBSET Service, rows \in [Service -> Columns] :
          /\ \A s, t \in there : rows[s].slug = rows[t].slug => s = t
          /\ services = [s \in Service |-> IF s \in there THEN rows[s] ELSE None]
          /\ issued = there
    BY DEF Init
  <1>1. \A w \in Worker : request[w] = Idle BY DEF Init
  <1>2. TypeOK BY <1>0, IdleTyped DEF Init, TypeOK
  <1>3. \A s \in Service : Present(s) => s \in there /\ services[s] = rows[s]
    BY <1>0 DEF Present
  <1>4. PresentWasIssued BY <1>0, <1>3 DEF PresentWasIssued
  <1>5. HoldsIssued /\ BusyHolds BY <1>1, IdleTyped DEF HoldsIssued, BusyHolds, At
  <1>6. SlugsUnique BY <1>0, <1>3 DEF SlugsUnique, Named
  <1> QED BY <1>2, <1>4, <1>5, <1>6 DEF IInv

(* A step that leaves the table alone and moves one request to one that     *)
(* is well formed keeps the invariant.                                      *)
LEMMA MoveIInv ==
  ASSUME IInv, NEW w \in Worker, NEW r \in Request,
         Become(w, r), UNCHANGED <<services, issued>>,
         r.service # None => r.service \in issued,
         r.pc = "create" => r.columns # None,
         r.pc = "update" => r.service # None /\ r.loaded # None,
         r.pc = "delete" => r.service # None
  PROVE  IInv'
  <1>1. \A v \in Worker : request'[v] = IF v = w THEN r ELSE request[v]
    BY DEF Become, IInv, TypeOK
  <1>2. TypeOK' BY DEF IInv, TypeOK, Become
  <1>3. PresentWasIssued' /\ SlugsUnique'
    BY DEF IInv, PresentWasIssued, SlugsUnique, Named, Present
  <1>4. HoldsIssued' BY <1>1 DEF IInv, HoldsIssued
  <1>5. BusyHolds' BY <1>1 DEF IInv, BusyHolds, At
  <1> QED BY <1>2, <1>3, <1>4, <1>5 DEF IInv

(* A worker that goes idle, whatever ended its request.                     *)
LEMMA StopIInv ==
  ASSUME IInv, NEW w \in Worker, Become(w, Idle), UNCHANGED <<services, issued>>
  PROVE  IInv'
  BY IdleTyped, MoveIInv

-----------------------------------------------------------------------------
(* The insertion of rows with new slugs, at ids never issued.               *)
LEMMA InsertIInv ==
  ASSUME IInv, NEW w \in Worker, NEW inserted \in SUBSET Columns,
         \A c, d \in inserted : c.slug = d.slug => c = d,
         Unique({c.slug : c \in inserted}), Insert(inserted), Become(w, Idle)
  PROVE  IInv'
  <1> USE RegistryAssumption
  <1>i. PICK ids \in SUBSET (Service \ issued) : \E of \in [ids -> inserted] :
          /\ \A s, t \in ids : of[s] = of[t] => s = t
          /\ services' = [s \in Service |-> IF s \in ids THEN of[s] ELSE services[s]]
          /\ issued' = issued \cup ids
    BY DEF Insert
  <1>0. PICK of \in [ids -> inserted] :
          /\ \A s, t \in ids : of[s] = of[t] => s = t
          /\ services' = [s \in Service |-> IF s \in ids THEN of[s] ELSE services[s]]
          /\ issued' = issued \cup ids
    BY <1>i
  <1>1. TypeOK'
    <2>1. services' \in [Service -> Columns \cup {None}] BY <1>0 DEF IInv, TypeOK
    <2>2. issued' \in SUBSET Service BY <1>0 DEF IInv, TypeOK
    <2>3. request' \in [Worker -> Request]
      BY IdleTyped DEF IInv, TypeOK, Become
    <2> QED BY <2>1, <2>2, <2>3 DEF TypeOK
  <1>2. PresentWasIssued' BY <1>0 DEF IInv, PresentWasIssued, Present
  <1>3. \A v \in Worker : request'[v] = IF v = w THEN Idle ELSE request[v]
    BY DEF Become, IInv, TypeOK
  <1>4. HoldsIssued' BY <1>0, <1>3, IdleTyped DEF IInv, HoldsIssued
  <1>5. BusyHolds' BY <1>3, IdleTyped DEF IInv, BusyHolds, At
  <1>6. SlugsUnique'
    <2> SUFFICES ASSUME NEW s \in Service, NEW t \in Service,
                        Present(s)', Present(t)',
                        services'[s].slug = services'[t].slug
                 PROVE  s = t
      BY DEF SlugsUnique, Named
    <2>1. CASE s \in ids /\ t \in ids BY <2>1, <1>0
    <2>2. CASE s \notin ids /\ t \notin ids
      <3>1. services'[s] = services[s] /\ services'[t] = services[t]
        BY <2>2, <1>0
      <3>2. Present(s) /\ Present(t) BY <3>1 DEF Present
      <3>3. services[s] \in Columns
        BY <3>2 DEF IInv, TypeOK, Present
      <3>4. services[s].slug \in Slug BY <3>3 DEF Columns
      <3> QED BY <3>1, <3>2, <3>4 DEF IInv, SlugsUnique, Named
    <2>3. ASSUME NEW i \in ids, NEW j \in Service \ ids, Present(j)',
                 services'[i].slug = services'[j].slug
          PROVE  FALSE
      <3>1. services'[i] = of[i] /\ of[i] \in inserted BY <1>0
      <3>2. services'[j] = services[j] BY <1>0
      <3>3. Present(j) BY <3>2, <2>3 DEF Present
      <3>4. Named(of[i].slug) = {} BY <3>1 DEF Unique
      <3> QED BY <3>1, <3>2, <3>3, <3>4, <2>3 DEF Named
    <2> QED BY <2>1, <2>2, <2>3
  <1> QED BY <1>1, <1>2, <1>4, <1>5, <1>6 DEF IInv

(* A turn of the seeding's loop.                                            *)
LEMMA SelectDefaultIInv ==
  ASSUME IInv, NEW w \in Worker, SelectDefault(w)
  PROVE  IInv'
  <1> DEFINE r == request[w]
             q == [r EXCEPT !.next = @ + 1,
                     !.missing = IF Named(Defaults[r.next].slug) = {}
                                 THEN @ \cup {r.next} ELSE @]
  <1>1. r \in Request /\ Len(Defaults) \in Nat
    BY RegistryAssumption DEF IInv, TypeOK
  <1>2. r.pc = "seed" /\ r.next <= Len(Defaults) BY DEF SelectDefault, At
  <1>3. q \in Request
    <2> DEFINE more == IF Named(Defaults[r.next].slug) = {}
                       THEN r.missing \cup {r.next} ELSE r.missing
    <2>1. r.next \in 1 .. Len(Defaults) /\ r.next + 1 \in 1 .. Len(Defaults) + 1
      BY <1>1, <1>2 DEF Request
    <2>2. r.missing \in SUBSET (1 .. Len(Defaults)) BY <1>1 DEF Request
    <2>3. more \in SUBSET (1 .. Len(Defaults)) BY <2>1, <2>2
    <2>4. q = [r EXCEPT !.next = r.next + 1, !.missing = more]
      BY <1>1 DEF Request
    <2> HIDE DEF more
    <2> QED BY <1>1, <2>1, <2>3, <2>4 DEF Request
  <1>4. q.pc = "seed" /\ q.service = r.service BY <1>1, <1>2 DEF Request
  <1>5. r.service # None => r.service \in issued BY DEF IInv, HoldsIssued
  <1>6. Become(w, q) /\ UNCHANGED <<services, issued>> BY DEF SelectDefault
  <1> HIDE DEF r, q
  <1> QED BY <1>3, <1>4, <1>5, <1>6, MoveIInv

(* The patch of a row that is there.                                        *)
LEMMA UpdateServiceIInv ==
  ASSUME IInv, NEW w \in Worker, UpdateService(w)
  PROVE  IInv'
  <1> DEFINE r == request[w]
             s == r.service
             row == Written(services[s], r.loaded, r.patch)
             q == [r EXCEPT !.pc = "reread"]
  <1>1. r \in Request /\ r.service # None /\ r.loaded # None
    BY DEF UpdateService, IInv, TypeOK, BusyHolds
  <1>2. s \in Service /\ r.loaded \in Columns /\ r.patch \in Patch
    BY <1>1 DEF Request
  <1>3. services[s] \in Columns
    BY <1>2 DEF UpdateService, Present, IInv, TypeOK
  <1>4. row \in Columns BY <1>2, <1>3, WrittenFromPatch
  <1>5. /\ services' = [services EXCEPT ![s] = row]
        /\ SlugFree(s, row) /\ Become(w, q) /\ issued' = issued
    BY DEF UpdateService
  <1>6. q \in Request /\ q.pc = "reread" /\ q.service = s
    BY <1>1 DEF Request
  <1>7. s \in issued BY <1>1 DEF IInv, HoldsIssued
  <1>8. row # None BY <1>4, RegistryAssumption
  <1> HIDE DEF r, s, row, q
  <1>9. \A v \in Worker : request'[v] = IF v = w THEN q ELSE request[v]
    BY <1>5 DEF Become, IInv, TypeOK
  <1>10. \A t \in Service : services'[t] = IF t = s THEN row ELSE services[t]
    BY <1>5 DEF IInv, TypeOK
  <1>11. TypeOK'
    <2>1. services' \in [Service -> Columns \cup {None}]
      BY <1>4, <1>5 DEF IInv, TypeOK
    <2>2. request' \in [Worker -> Request]
      BY <1>5, <1>6 DEF IInv, TypeOK, Become
    <2> QED BY <2>1, <2>2, <1>5 DEF IInv, TypeOK
  <1>12. PresentWasIssued'
    BY <1>5, <1>7, <1>10 DEF IInv, PresentWasIssued, Present
  <1>13. HoldsIssued' BY <1>5, <1>6, <1>7, <1>9 DEF IInv, HoldsIssued
  <1>14. BusyHolds' BY <1>6, <1>9 DEF IInv, BusyHolds, At
  <1>15. SlugsUnique'
    <2> SUFFICES ASSUME NEW t \in Service, NEW u \in Service,
                        Present(t)', Present(u)',
                        services'[t].slug = services'[u].slug
                 PROVE  t = u
      BY DEF SlugsUnique, Named
    <2>1. ASSUME NEW v \in Service, v # s, Present(v)',
                 services'[v].slug = row.slug
          PROVE  FALSE
      <3>1. Present(v) /\ services[v].slug = row.slug
        BY <2>1, <1>10 DEF Present
      <3> QED BY <3>1, <2>1, <1>5 DEF SlugFree, Named
    <2>2. CASE t # s /\ u # s
      <3>1. services'[t] = services[t] /\ services'[u] = services[u]
        BY <2>2, <1>10
      <3>2. Present(t) /\ Present(u) BY <3>1 DEF Present
      <3>3. services[t] \in Columns BY <3>2 DEF IInv, TypeOK, Present
      <3>4. services[t].slug \in Slug BY <3>3 DEF Columns
      <3> QED BY <3>1, <3>2, <3>4 DEF IInv, SlugsUnique, Named
    <2> QED BY <2>1, <2>2, <1>10
  <1> QED BY <1>11, <1>12, <1>13, <1>14, <1>15 DEF IInv

(* The deletion takes a row away and adds none.                             *)
LEMMA DeleteServiceIInv ==
  ASSUME IInv, NEW w \in Worker, DeleteService(w)
  PROVE  IInv'
  <1>1. /\ services' = [services EXCEPT ![request[w].service] = None]
        /\ Become(w, Idle) /\ issued' = issued
    BY DEF DeleteService
  <1>2. TypeOK'
    BY <1>1, IdleTyped DEF IInv, TypeOK, Become
  <1>3. \A s \in Service : Present(s)' => Present(s) /\ services'[s] = services[s]
    BY <1>1 DEF IInv, TypeOK, Present
  <1>4. PresentWasIssued' BY <1>1, <1>3 DEF IInv, PresentWasIssued
  <1>5. \A v \in Worker : request'[v] = IF v = w THEN Idle ELSE request[v]
    BY <1>1 DEF Become, IInv, TypeOK
  <1>6. HoldsIssued' BY <1>1, <1>5, IdleTyped DEF IInv, HoldsIssued
  <1>7. BusyHolds' BY <1>5, IdleTyped DEF IInv, BusyHolds, At
  <1>8. SlugsUnique' BY <1>3 DEF IInv, SlugsUnique, Named
  <1> QED BY <1>2, <1>4, <1>6, <1>7, <1>8 DEF IInv

-----------------------------------------------------------------------------
(* Each step of a starting replica keeps the invariant.                     *)
LEMMA SeedingIInv ==
  ASSUME IInv, NEW w \in Worker, EnsureDefaultServices(w)
  PROVE  IInv'
  <1>1. CASE StartUp(w)
    <2> DEFINE q == [Idle EXCEPT !.pc = "seed"]
    <2>1. q \in Request /\ q.pc = "seed" /\ q.service = None
      BY IdleTyped DEF Request
    <2>2. Become(w, q) /\ UNCHANGED <<services, issued>> BY <1>1 DEF StartUp
    <2> HIDE DEF q
    <2> QED BY <2>1, <2>2, MoveIInv
  <1>2. CASE SelectDefault(w) BY <1>2, SelectDefaultIInv
  <1>3. CASE CommitDefaults(w)
    <2>1. TypeOK BY DEF IInv
    <2> QED BY <1>3, <2>1, SeedsDiffer, InsertIInv DEF CommitDefaults
  <1>4. CASE CommitFails(w) BY <1>4, StopIInv DEF CommitFails
  <1> QED BY <1>1, <1>2, <1>3, <1>4 DEF EnsureDefaultServices

(* Each step of an administrator's request keeps the invariant.             *)
LEMMA AdministerIInv ==
  ASSUME IInv, NEW w \in Worker, Administer(w)
  PROVE  IInv'
  <1> USE RegistryAssumption
  <1>1. ASSUME NEW c \in Columns, CheckSlug(w, c) PROVE IInv'
    <2> DEFINE q == [Idle EXCEPT !.pc = "create", !.columns = c]
    <2>1. q \in Request /\ q.pc = "create" /\ q.service = None /\ q.columns = c
      BY IdleTyped DEF Request
    <2>2. Become(w, q) /\ UNCHANGED <<services, issued>> BY <1>1 DEF CheckSlug
    <2> HIDE DEF q
    <2> QED BY <2>1, <2>2, MoveIInv
  <1>2. CASE CreateService(w)
    <2> DEFINE c == request[w].columns
    <2>1. c # None BY <1>2 DEF CreateService, IInv, BusyHolds
    <2>2. c \in Columns BY <2>1 DEF IInv, TypeOK, Request
    <2>3. Unique({c.slug}) /\ Insert({c}) /\ Become(w, Idle)
      BY <1>2 DEF CreateService
    <2> HIDE DEF c
    <2>4. {d.slug : d \in {c}} = {c.slug} OBVIOUS
    <2>5. Unique({d.slug : d \in {c}}) BY <2>3, <2>4
    <2>6. \A d, e \in {c} : d.slug = e.slug => d = e OBVIOUS
    <2>7. {c} \in SUBSET Columns BY <2>2
    <2> QED BY <2>3, <2>5, <2>6, <2>7, InsertIInv
  <1>3. CASE CreateFails(w) BY <1>3, StopIInv DEF CreateFails
  <1>4. ASSUME NEW s \in Service, NEW patch \in Patch, LoadForUpdate(w, s, patch)
        PROVE  IInv'
    <2> DEFINE q == [Idle EXCEPT !.pc = "update", !.service = s,
                                 !.loaded = services[s], !.patch = patch]
    <2>1. services[s] \in Columns /\ s \in issued
      BY <1>4 DEF LoadForUpdate, Present, IInv, TypeOK, PresentWasIssued
    <2>2. q \in Request BY <2>1, IdleTyped DEF Request
    <2>3. q.pc = "update" /\ q.service = s /\ q.loaded # None
      BY <2>1, IdleTyped DEF Request
    <2>4. Become(w, q) /\ UNCHANGED <<services, issued>>
      BY <1>4 DEF LoadForUpdate
    <2> HIDE DEF q
    <2> QED BY <2>1, <2>2, <2>3, <2>4, MoveIInv
  <1>5. ASSUME NEW s \in Service, LoadForDelete(w, s) PROVE IInv'
    <2> DEFINE q == [Idle EXCEPT !.pc = "delete", !.service = s]
    <2>1. s \in issued BY <1>5 DEF LoadForDelete, IInv, PresentWasIssued
    <2>2. q \in Request /\ q.pc = "delete" /\ q.service = s
      BY IdleTyped DEF Request
    <2>3. Become(w, q) /\ UNCHANGED <<services, issued>>
      BY <1>5 DEF LoadForDelete
    <2> HIDE DEF q
    <2> QED BY <2>1, <2>2, <2>3, MoveIInv
  <1>6. CASE UpdateService(w) BY <1>6, UpdateServiceIInv
  <1>7. CASE UpdateFails(w) BY <1>7, StopIInv DEF UpdateFails
  <1>8. CASE Reread(w) BY <1>8, StopIInv DEF Reread
  <1>9. CASE DeleteService(w) BY <1>9, DeleteServiceIInv
  <1> QED BY <1>1, <1>2, <1>3, <1>4, <1>5, <1>6, <1>7, <1>8, <1>9 DEF Administer

(* Every step keeps the invariant.                                          *)
LEMMA NextIInv == IInv /\ [Next]_vars => IInv'
  <1> SUFFICES ASSUME IInv, [Next]_vars PROVE IInv' OBVIOUS
  <1>1. ASSUME NEW w \in Worker, Abort(w) PROVE IInv'
    BY <1>1, StopIInv DEF Abort
  <1>2. CASE UNCHANGED vars
    BY <1>2 DEF vars, IInv, TypeOK, PresentWasIssued, HoldsIssued, BusyHolds,
                SlugsUnique, Named, Present, At
  <1> QED BY <1>1, <1>2, SeedingIInv, AdministerIInv DEF Next

(* What a request of the registry holds was issued, and slugs are unique,   *)
(* at every step of every behaviour.                                        *)
THEOREM RegistryInvariant == Spec => []IInv
  BY InitIInv, NextIInv, PTL DEF Spec

(* Every variable of the registry keeps its type.                           *)
THEOREM TypeCorrect == Spec => []TypeOK
  <1>1. IInv => TypeOK BY DEF IInv
  <1> QED BY <1>1, RegistryInvariant, PTL

(* No two services ever have one slug: whatever creations, patches and      *)
(* seedings looked up, the unique index decides.                            *)
THEOREM SlugsStayUnique == Spec => []SlugsUnique
  <1>1. IInv => SlugsUnique BY DEF IInv
  <1> QED BY <1>1, RegistryInvariant, PTL

-----------------------------------------------------------------------------
(* What a step of each kind does to the row of a service.                   *)
LEMMA RowChanges ==
  ASSUME IInv, Next, NEW s \in Service, services'[s] # services[s]
  PROVE  \/ s \notin issued
         \/ services'[s] = None
         \/ \E w \in Worker :
              /\ At(w, "update") /\ request[w].service = s /\ Present(s)
              /\ services'[s] = Written(services[s], request[w].loaded, request[w].patch)
  <1>0. services \in [Service -> Columns \cup {None}] BY DEF IInv, TypeOK
  <1>1. ASSUME NEW inserted, Insert(inserted) PROVE s \notin issued
    BY <1>1 DEF Insert
  <1>2. ASSUME NEW w \in Worker, UpdateService(w)
        PROVE  /\ At(w, "update") /\ request[w].service = s /\ Present(s)
               /\ services'[s] =
                    Written(services[s], request[w].loaded, request[w].patch)
    BY <1>0, <1>2 DEF UpdateService
  <1>3. ASSUME NEW w \in Worker, DeleteService(w) PROVE services'[s] = None
    BY <1>0, <1>3 DEF DeleteService
  <1>4. PICK w \in Worker : EnsureDefaultServices(w) \/ Administer(w) \/ Abort(w)
    BY DEF Next
  <1>5. \/ \E inserted : Insert(inserted)
        \/ UpdateService(w) \/ DeleteService(w)
    <2>1. CASE EnsureDefaultServices(w)
      BY <2>1 DEF EnsureDefaultServices, StartUp, SelectDefault, CommitDefaults,
                  CommitFails
    <2>2. CASE Administer(w)
      BY <2>2 DEF Administer, CheckSlug, CreateService, CreateFails,
                  LoadForUpdate, LoadForDelete, UpdateFails, Reread
    <2>3. CASE Abort(w) BY <2>3 DEF Abort
    <2> QED BY <1>4, <2>1, <2>2, <2>3
  <1> QED BY <1>1, <1>2, <1>3, <1>5

(* A column of a service only changes to what a patch of that service asks  *)
(* for, whatever was read and seeded before.                                *)
THEOREM EditsStayApart == Spec => OnlyAskedChanges
  <1> DEFINE Asked ==
        \A s \in Service, c \in {"slug", "required"} :
          Present(s) /\ services'[s] # None /\ services'[s][c] # services[s][c]
          => \E w \in Worker : /\ At(w, "update")
                               /\ request[w].service = s
                               /\ request[w].patch[c] = services'[s][c]
  <1>1. IInv /\ [Next]_vars => [Asked]_vars
    <2> SUFFICES ASSUME IInv, Next,
                        NEW s \in Service, NEW c \in {"slug", "required"},
                        Present(s), services'[s] # None,
                        services'[s][c] # services[s][c]
                 PROVE  \E w \in Worker : /\ At(w, "update")
                                          /\ request[w].service = s
                                          /\ request[w].patch[c] = services'[s][c]
      OBVIOUS
    <2>1. s \in issued BY DEF IInv, PresentWasIssued
    <2>2. PICK w \in Worker :
            /\ At(w, "update") /\ request[w].service = s
            /\ services'[s] = Written(services[s], request[w].loaded, request[w].patch)
      BY <2>1, RowChanges
    <2>3. /\ services[s] \in Columns
          /\ request[w].loaded \in Columns
          /\ request[w].patch \in Patch
      BY <2>2 DEF IInv, TypeOK, BusyHolds, Present, Request
    <2> DEFINE row == Written(services[s], request[w].loaded, request[w].patch)
    <2>4. row[c] # services[s][c] => request[w].patch[c] = row[c]
      BY <2>3, WrittenFromPatch
    <2>5. services'[s] = row BY <2>2
    <2> HIDE DEF row
    <2>6. request[w].patch[c] = services'[s][c] BY <2>4, <2>5
    <2> QED BY <2>2, <2>6
  <1> QED BY <1>1, RegistryInvariant, PTL DEF Spec, OnlyAskedChanges

(* A deleted service does not come back under its id: an update of a row    *)
(* that is gone fails, and ids are not issued twice.                        *)
THEOREM DeletionHolds == Spec => DeletedStaysDeleted
  <1>1. IInv /\ [Next]_vars =>
          [\A s \in issued : ~ Present(s) => services'[s] = None]_vars
    <2> SUFFICES ASSUME IInv, Next, NEW s \in issued, ~ Present(s)
                 PROVE  services'[s] = None
      OBVIOUS
    <2>1. s \in Service BY DEF IInv, TypeOK
    <2> QED BY <2>1, RowChanges DEF Present
  <1> QED BY <1>1, RegistryInvariant, PTL DEF Spec, DeletedStaysDeleted

-----------------------------------------------------------------------------
(* Refinement of the contract.                                              *)

(* The services of a table.                                                 *)
Catalogue == {services[s] : s \in {s \in Service : Present(s)}}

DefaultRows == {Defaults[i] : i \in DOMAIN Defaults}

(* A slug no row has is free in the catalogue.                              *)
LEMMA UnnamedIsFree ==
  ASSUME NEW slug, Named(slug) = {}
  PROVE  Contract!Free(slug)
  BY DEF Named, Contract!Free

(* Rows inserted at ids never issued add themselves and disturb nothing.    *)
LEMMA InsertAdds ==
  ASSUME IInv, NEW inserted \in SUBSET Columns, Insert(inserted)
  PROVE  Catalogue' = Catalogue \cup inserted
  <1> USE RegistryAssumption
  <1>i. PICK ids \in SUBSET (Service \ issued) : \E of \in [ids -> inserted] :
          /\ \A c \in inserted : \E s \in ids : of[s] = c
          /\ services' = [s \in Service |-> IF s \in ids THEN of[s] ELSE services[s]]
    BY DEF Insert
  <1>0. PICK of \in [ids -> inserted] :
          /\ \A c \in inserted : \E s \in ids : of[s] = c
          /\ services' = [s \in Service |-> IF s \in ids THEN of[s] ELSE services[s]]
    BY <1>i
  <1>1. \A s \in ids : s \in Service /\ ~ Present(s)
    BY DEF IInv, PresentWasIssued
  <1>2. \A s \in Service : services'[s] = IF s \in ids THEN of[s] ELSE services[s]
    BY <1>0
  <1>3. \A s \in ids : of[s] \in inserted /\ of[s] # None BY <1>0
  <1>4. \A s \in Service : Present(s)' <=> s \in ids \/ Present(s)
    BY <1>2, <1>3 DEF Present
  <1>5. Catalogue' \subseteq Catalogue \cup inserted
    BY <1>2, <1>3, <1>4 DEF Catalogue
  <1>6. ASSUME NEW c \in inserted PROVE c \in Catalogue'
    <2>1. PICK s \in ids : of[s] = c BY <1>0
    <2> QED BY <2>1, <1>1, <1>2, <1>4 DEF Catalogue
  <1>7. ASSUME NEW s \in Service, Present(s) PROVE services[s] \in Catalogue'
    BY <1>7, <1>1, <1>2, <1>4 DEF Catalogue
  <1> QED BY <1>5, <1>6, <1>7 DEF Catalogue

(* The commit of a seeding adds defaults with free slugs.                   *)
LEMMA CommitIsSeed ==
  ASSUME IInv, NEW w \in Worker, CommitDefaults(w)
  PROVE  Contract!Next
  <1>1. PICK missing : missing = Seeds(w) OBVIOUS
  <1>2. missing \in SUBSET Columns /\ missing \subseteq DefaultRows
    <2>1. request[w].missing \subseteq DOMAIN Defaults
      BY RegistryAssumption DEF IInv, TypeOK, Request
    <2>2. TypeOK BY DEF IInv
    <2> QED BY <1>1, <2>1, <2>2, SeedsDiffer DEF Seeds, DefaultRows
  <1>3. Unique({c.slug : c \in missing}) /\ Insert(missing)
    BY <1>1 DEF CommitDefaults
  <1>4. \A c \in missing : Contract!Free(c.slug)
    BY <1>3, UnnamedIsFree DEF Unique
  <1>5. Contract!Seed(missing)
    BY <1>2, <1>3, <1>4, InsertAdds DEF Contract!Seed, Catalogue
  <1> QED BY <1>2, <1>5 DEF Contract!Next, DefaultRows

(* The INSERT of an administrator adds the service asked for.               *)
LEMMA CreateIsCreate ==
  ASSUME IInv, NEW w \in Worker, CreateService(w)
  PROVE  Contract!Next
  <1>1. request[w].columns # None BY DEF CreateService, IInv, BusyHolds
  <1>2. PICK c \in Columns : c = request[w].columns
    BY <1>1 DEF IInv, TypeOK, Request
  <1>3. Unique({c.slug}) /\ Insert({c}) BY <1>2 DEF CreateService
  <1>4. Contract!Free(c.slug) BY <1>3, UnnamedIsFree DEF Unique
  <1>5. {c} \in SUBSET Columns OBVIOUS
  <1>6. Contract!Create(c)
    BY <1>3, <1>4, <1>5, InsertAdds DEF Contract!Create, Catalogue
  <1> QED BY <1>6 DEF Contract!Next

(* Taking the row of s out of the table takes its service out, and only it, *)
(* since no other row has its slug.                                         *)
LEMMA OthersOf ==
  ASSUME IInv, NEW s \in Service, Present(s)
  PROVE  {services[t] : t \in {t \in Service \ {s} : Present(t)}}
           = Catalogue \ {services[s]}
  <1>1. \A t \in Service : Present(t) => services[t] \in Columns
    BY DEF IInv, TypeOK, Present
  <1>2. \A t \in Service \ {s} : Present(t) => services[t] # services[s]
    BY <1>1 DEF IInv, SlugsUnique, Named, Columns
  <1> QED BY <1>2 DEF Catalogue

(* The UPDATE, however old what it loaded, edits the service as it is now.  *)
LEMMA UpdateIsEdit ==
  ASSUME IInv, NEW w \in Worker, UpdateService(w)
  PROVE  Contract!Next
  <1>1. /\ request[w] \in Request
        /\ request[w].service # None /\ request[w].loaded # None
    BY DEF UpdateService, IInv, TypeOK, BusyHolds
  <1>2. PICK s \in Service : s = request[w].service BY <1>1 DEF Request
  <1>3. request[w].loaded \in Columns /\ request[w].patch \in Patch
    BY <1>1 DEF Request
  <1>4. Present(s) BY <1>2 DEF UpdateService
  <1>5. PICK c \in Columns : c = services[s]
    BY <1>4 DEF Present, IInv, TypeOK
  <1>6. PICK d \in Columns : d = Written(c, request[w].loaded, request[w].patch)
    BY <1>3, WrittenFromPatch
  <1>7. services' = [services EXCEPT ![s] = d] /\ SlugFree(s, d)
    BY <1>2, <1>5, <1>6 DEF UpdateService
  <1>8. \A t \in Service : services'[t] = IF t = s THEN d ELSE services[t]
    BY <1>7 DEF IInv, TypeOK
  <1>9. d # None BY RegistryAssumption
  <1>10. Catalogue' = {services[t] : t \in {t \in Service \ {s} : Present(t)}} \cup {d}
    BY <1>8, <1>9 DEF Catalogue, Present
  <1>11. Catalogue' = (Catalogue \ {c}) \cup {d}
    BY <1>4, <1>5, <1>10, OthersOf
  <1>12. Contract!Free(d.slug) \/ d.slug = c.slug
    BY <1>5, <1>7 DEF Contract!Free, SlugFree, Named
  <1>13. Contract!Edit(c, d)
    BY <1>11, <1>12 DEF Contract!Edit, Catalogue
  <1>14. c \in Catalogue BY <1>4, <1>5 DEF Catalogue
  <1> QED BY <1>13, <1>14 DEF Contract!Next, Catalogue

(* The DELETE removes the service, or finds it gone.                        *)
LEMMA DeleteIsRemove ==
  ASSUME IInv, NEW w \in Worker, DeleteService(w)
  PROVE  Contract!Next \/ Catalogue' = Catalogue
  <1>1. request[w] \in Request /\ request[w].service # None
    BY DEF DeleteService, IInv, TypeOK, BusyHolds
  <1>2. PICK s \in Service : s = request[w].service BY <1>1 DEF Request
  <1>3. \A t \in Service : services'[t] = IF t = s THEN None ELSE services[t]
    BY <1>2 DEF DeleteService, IInv, TypeOK
  <1>4. Catalogue' = {services[t] : t \in {t \in Service \ {s} : Present(t)}}
    BY <1>3 DEF Catalogue, Present
  <1>5. CASE Present(s)
    <2>1. PICK c : c = services[s] OBVIOUS
    <2>2. Catalogue' = Catalogue \ {c} BY <1>4, <1>5, <2>1, OthersOf
    <2>3. Contract!Remove(c) BY <2>2 DEF Contract!Remove, Catalogue
    <2>4. c \in Catalogue BY <1>5, <2>1 DEF Catalogue
    <2> QED BY <2>3, <2>4 DEF Contract!Next, Catalogue
  <1>6. CASE ~ Present(s) BY <1>4, <1>6 DEF Catalogue
  <1> QED BY <1>5, <1>6

(* The registry keeps the contract of a catalogue whose slugs are unique,   *)
(* whatever replicas and administrators read before they write.             *)
THEOREM RegistryRefinement == Spec => RegistryContractHolds
  <1>1. Init => Contract!Init
    <2> SUFFICES ASSUME Init PROVE Contract!Init OBVIOUS
    <2>1. IInv BY InitIInv
    <2>2. \A s \in Service : Present(s) => services[s] \in Columns
      BY <2>1 DEF IInv, TypeOK, Present
    <2>3. \A s, t \in Service : Present(s) /\ Present(t) =>
            (services[s].slug = services[t].slug => s = t)
      BY <2>1, <2>2 DEF IInv, SlugsUnique, Named, Columns
    <2> QED BY <2>2, <2>3 DEF Contract!Init
  <1>2. IInv /\ [Next]_vars => [Contract!Next]_Catalogue
    <2> SUFFICES ASSUME IInv, [Next]_vars PROVE [Contract!Next]_Catalogue
      OBVIOUS
    <2>1. CASE services' = services BY <2>1 DEF Catalogue, Present
    <2>2. services' = services \/ \E w \in Worker :
            \/ CommitDefaults(w) \/ CreateService(w)
            \/ UpdateService(w) \/ DeleteService(w)
      BY DEF Next, EnsureDefaultServices, StartUp, SelectDefault, CommitFails,
             Administer, CheckSlug, CreateFails, LoadForUpdate, LoadForDelete,
             UpdateFails, Reread, Abort, vars
    <2> QED BY <2>1, <2>2, CommitIsSeed, CreateIsCreate, UpdateIsEdit, DeleteIsRemove
  <1> QED BY <1>1, <1>2, RegistryInvariant, PTL
          DEF Spec, RegistryContractHolds, Contract!Spec, Catalogue

=============================================================================
