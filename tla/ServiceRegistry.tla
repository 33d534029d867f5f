--------------------------- MODULE ServiceRegistry ---------------------------
(***************************************************************************)
(* The registry of services: its seeding by replicas as they start, and    *)
(* the administrators' creations, patches and deletions, as concurrent     *)
(* requests against the table services.  slug stands for the columns that  *)
(* a patch sets by setattr, required for required_permissions.             *)
(***************************************************************************)
EXTENDS Integers, Sequences

CONSTANTS
  Service,   \* rows of services: a bound on the model only
  Slug,      \* what a service may be called in a URL
  Required,  \* lists of permissions a service may require
  Defaults,  \* DEFAULT_SERVICES: a sequence of [slug, required]
  Worker,    \* requests, and starting replicas, in progress at a time
  None       \* no row; in a patch, a field that is not set

Columns == [slug : Slug, required : Required]

ASSUME RegistryAssumption ==
  /\ Defaults \in Seq(Columns)
  /\ \A i, j \in DOMAIN Defaults : Defaults[i].slug = Defaults[j].slug => i = j
  /\ None \notin Service \cup Slug \cup Required
  /\ None \notin Columns

VARIABLES
  services,  \* the table services; None where there is no row
  issued,    \* ids its sequence has handed out
  request    \* what each worker is doing

vars == <<services, issued, request>>

-----------------------------------------------------------------------------
Present(s) == services[s] # None

Named(slug) == {s \in Service : Present(s) /\ services[s].slug = slug}

(* ServiceUpdate: None is a field the administrator left out, or required   *)
(* permissions set to null.  A null slug is refused when it is committed,   *)
(* as any other failure (Abort).                                            *)
Patch == [slug : Slug \cup {None}, required : Required \cup {None}]

NoPatch == [slug |-> None, required |-> None]

PatchedUnset(row, patch) == patch  \* mutant: model_dump() with unset fields

(* The columns a row has once it is patched.                                *)
Patched(row, patch) ==
  [c \in {"slug", "required"} |-> IF patch[c] = None THEN row[c] ELSE patch[c]]

(* What an UPDATE does to the row as it is now: it sets the columns whose   *)
(* value differs from the one that was loaded.                              *)
WrittenWhole(now, loaded, patch) == Patched(loaded, patch)  \* mutant

Written(now, loaded, patch) ==
  [c \in {"slug", "required"} |->
     IF Patched(loaded, patch)[c] = loaded[c] THEN now[c] ELSE Patched(loaded, patch)[c]]

Request == [pc : {"idle", "seed", "create", "update", "reread", "delete"},
            next : 1 .. Len(Defaults) + 1,    \* where the seeding has got to
            missing : SUBSET (1 .. Len(Defaults)), \* defaults it found no row for
            columns : Columns \cup {None},    \* the service to create
            service : Service \cup {None},    \* the row object it holds, if any
            loaded : Columns \cup {None},     \* that row as it was read
            patch : Patch]                    \* the update asked for

Idle == [pc |-> "idle", next |-> 1, missing |-> {}, columns |-> None,
         service |-> None, loaded |-> None, patch |-> NoPatch]

Become(w, r) == request' = [request EXCEPT ![w] = r]

At(w, pc) == request[w].pc = pc

(* Rows may be left from earlier runs; their slugs are unique.              *)
Init ==
  /\ \E there \in SUBSET Service, rows \in [Service -> Columns] :
       /\ \A s, t \in there : rows[s].slug = rows[t].slug => s = t
       /\ services = [s \in Service |-> IF s \in there THEN rows[s] ELSE None]
       /\ issued = there
  /\ request = [w \in Worker |-> Idle]

(* unique=True on slug, when the rows of inserted are added to the table.   *)
NothingUnique(inserted) == TRUE  \* mutant

Unique(inserted) == \A slug \in inserted : Named(slug) = {}

(* One transaction inserts a row for each of the columns in inserted, whose *)
(* slugs differ.                                                            *)
Insert(inserted) ==
  \E ids \in SUBSET (Service \ issued) : \E of \in [ids -> inserted] :
    /\ \A c \in inserted : \E s \in ids : of[s] = c
    /\ \A s, t \in ids : of[s] = of[t] => s = t
    /\ services' = [s \in Service |-> IF s \in ids THEN of[s] ELSE services[s]]
    /\ issued' = issued \cup ids

-----------------------------------------------------------------------------
(* ensure_default_services, called when a replica starts.                   *)

StartUp(w) ==
  /\ At(w, "idle")
  /\ Become(w, [Idle EXCEPT !.pc = "seed"])
  /\ UNCHANGED <<services, issued>>

(* One turn of the loop: SELECT by slug; add the default if it is missing.  *)
SelectDefault(w) ==
  LET r == request[w] IN
  /\ At(w, "seed")
  /\ r.next <= Len(Defaults)
  /\ Become(w, [r EXCEPT
       !.next = @ + 1,
       !.missing = IF Named(Defaults[r.next].slug) = {} THEN @ \cup {r.next} ELSE @])
  /\ UNCHANGED <<services, issued>>

Seeds(w) == {Defaults[i] : i \in request[w].missing}

(* The commit inserts what was missing, or nothing if any slug was taken    *)
(* meanwhile; the replica then does not start.                              *)
CommitDefaults(w) ==
  /\ At(w, "seed")
  /\ request[w].next > Len(Defaults)
  /\ Unique({c.slug : c \in Seeds(w)})
  /\ Insert(Seeds(w))
  /\ Become(w, Idle)

CommitFails(w) ==
  /\ At(w, "seed")
  /\ request[w].next > Len(Defaults)
  /\ ~ Unique({c.slug : c \in Seeds(w)})
  /\ Become(w, Idle)
  /\ UNCHANGED <<services, issued>>

-----------------------------------------------------------------------------
(* POST /admin/services.                                                    *)

(* The look-up of the slug; a known one is answered 409.                    *)
CheckSlug(w, c) ==
  /\ At(w, "idle")
  /\ Named(c.slug) = {}
  /\ Become(w, [Idle EXCEPT !.pc = "create", !.columns = c])
  /\ UNCHANGED <<services, issued>>

CreateService(w) ==
  LET c == request[w].columns IN
  /\ At(w, "create")
  /\ Unique({c.slug})
  /\ Insert({c})
  /\ Become(w, Idle)

CreateFails(w) ==
  /\ At(w, "create")
  /\ ~ Unique({request[w].columns.slug})
  /\ Become(w, Idle)
  /\ UNCHANGED <<services, issued>>

-----------------------------------------------------------------------------
(* PATCH and DELETE /admin/services/{service_id}.                           *)

(* db.get loads the row, for an update or a deletion.                       *)
LoadForUpdate(w, s, patch) ==
  /\ At(w, "idle")
  /\ Present(s)
  /\ Become(w, [Idle EXCEPT !.pc = "update", !.service = s,
                            !.loaded = services[s], !.patch = patch])
  /\ UNCHANGED <<services, issued>>

LoadForDelete(w, s) ==
  /\ At(w, "idle")
  /\ Present(s)
  /\ Become(w, [Idle EXCEPT !.pc = "delete", !.service = s])
  /\ UNCHANGED <<services, issued>>

SlugUnchecked(s, row) == TRUE  \* mutant: no unique index

(* A new slug is not looked up: the unique index alone refuses a taken one. *)
SlugFree(s, row) == Named(row.slug) \subseteq {s}

MergeService(w) ==  \* mutant: as with Session.merge, a missing row is inserted
  LET r == request[w] IN
  /\ At(w, "update")
  /\ SlugFree(r.service, Patched(r.loaded, r.patch))
  /\ services' = [services EXCEPT ![r.service] = Patched(r.loaded, r.patch)]
  /\ Become(w, [r EXCEPT !.pc = "reread"])
  /\ UNCHANGED issued

UpdateService(w) ==
  LET r == request[w]
      row == Written(services[r.service], r.loaded, r.patch)
  IN
  /\ At(w, "update")
  /\ Present(r.service)
  /\ SlugFree(r.service, row)
  /\ services' = [services EXCEPT ![r.service] = row]
  /\ Become(w, [r EXCEPT !.pc = "reread"])
  /\ UNCHANGED issued

(* The slug was taken, or the row is gone: to update or to refresh.         *)
UpdateFails(w) ==
  LET r == request[w] IN
  /\ At(w, "update")
  /\ Present(r.service) =>
       ~ SlugFree(r.service, Written(services[r.service], r.loaded, r.patch))
  /\ Become(w, Idle)
  /\ UNCHANGED <<services, issued>>

(* db.refresh reads the row back for the answer, or fails if it is gone.    *)
Reread(w) ==
  /\ At(w, "reread")
  /\ Become(w, Idle)
  /\ UNCHANGED <<services, issued>>

(* A DELETE that matches no row is only a warning.                          *)
DeleteService(w) ==
  /\ At(w, "delete")
  /\ services' = [services EXCEPT ![request[w].service] = None]
  /\ Become(w, Idle)
  /\ UNCHANGED issued

(* A statement fails or the process stops before the commit.                *)
Abort(w) ==
  /\ ~ At(w, "idle")
  /\ Become(w, Idle)
  /\ UNCHANGED <<services, issued>>

EnsureDefaultServices(w) ==
  StartUp(w) \/ SelectDefault(w) \/ CommitDefaults(w) \/ CommitFails(w)

Administer(w) ==
  \/ \E c \in Columns : CheckSlug(w, c)
  \/ CreateService(w) \/ CreateFails(w)
  \/ \E s \in Service :
       \/ \E patch \in Patch : LoadForUpdate(w, s, patch)
       \/ LoadForDelete(w, s)
  \/ UpdateService(w) \/ UpdateFails(w) \/ Reread(w)
  \/ DeleteService(w)

Next == \E w \in Worker : EnsureDefaultServices(w) \/ Administer(w) \/ Abort(w)

Spec == Init /\ [][Next]_vars

-----------------------------------------------------------------------------
(* Every variable holds what its column or local can hold.                  *)
TypeOK ==
  /\ services \in [Service -> Columns \cup {None}]
  /\ issued \in SUBSET Service
  /\ request \in [Worker -> Request]

(* A creation's look-up, a seeding's look-ups and a patch that looks        *)
(* nothing up may all race: still no slug names two services.               *)
SlugsUnique == \A slug \in Slug : \A s, t \in Named(slug) : s = t

(* A column of an existing service changes only to what a patch of that     *)
(* service asked for: no patch undoes a concurrent one of another column,   *)
(* and no start-up undoes an administrator's edit.                          *)
OnlyAskedChanges ==
  [][\A s \in Service, c \in {"slug", "required"} :
       Present(s) /\ services'[s] # None /\ services'[s][c] # services[s][c]
       => \E w \in Worker : /\ At(w, "update")
                            /\ request[w].service = s
                            /\ request[w].patch[c] = services'[s][c]]_vars

(* A deleted service does not come back under its id, though a patch that   *)
(* loaded it before commits after; a default one gets a new id at the next  *)
(* start.                                                                   *)
DeletedStaysDeleted ==
  [][\A s \in issued : ~ Present(s) => services'[s] = None]_vars

(* Whatever rows requests read before others changed them, and whichever    *)
(* replicas and administrators race or fail, the table is a catalogue with  *)
(* one service a slug that changes by one whole creation, edit, removal or  *)
(* seeding at a time; a seeding adds free defaults only.                    *)
Contract == INSTANCE RegistryContract WITH
  catalogue <- {services[s] : s \in {s \in Service : Present(s)}},
  Default   <- {Defaults[i] : i \in DOMAIN Defaults}

RegistryContractHolds == Contract!Spec

=============================================================================
