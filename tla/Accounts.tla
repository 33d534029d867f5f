------------------------------ MODULE Accounts -------------------------------
(***************************************************************************)
(* Registration of accounts, and the seeding of roles and permissions that *)
(* a registration or a starting replica performs, as concurrent requests   *)
(* against the tables users, roles, role_permissions and permissions.      *)
(* Default permissions and roles are numbered in the order in which        *)
(* ensure_default_roles goes through them.                                 *)
(***************************************************************************)
EXTENDS Integers

CONSTANTS
  User,      \* ids of accounts
  Name,      \* usernames; the schema allows no "@" in them
  Address,   \* e-mail addresses as they are spelled, with an "@"
  Lower,     \* str.lower
  NumCodes,  \* how many permissions DEFAULT_PERMISSIONS has
  NumRoles,  \* how many roles DEFAULT_ROLES has
  Default,   \* DEFAULT_ROLES: the permissions of each default role
  Worker,    \* requests, and starting replicas, in progress at a time
  None       \* NULL

Login == Name \cup Address

Code == 1 .. NumCodes
Role == 1 .. NumRoles

UserRole == 1  \* "User" is the first of DEFAULT_ROLES

ASSUME AccountsAssumption ==
  /\ NumCodes \in Nat /\ NumRoles \in Nat \ {0}
  /\ Default \in [Role -> SUBSET Code]
  /\ Name \cap Address = {}
  /\ Lower \in [Login -> Login]
  /\ \A n \in Name : Lower[n] \in Name
  /\ \A a \in Address : Lower[a] \in Address
  /\ \A x \in Login : Lower[Lower[x]] = Lower[x]
  /\ None \notin User \cup Login \cup Role
  /\ \A codes \in SUBSET Code : None # codes
  /\ None \notin [name : Name, email : Address, role : Role]

VARIABLES
  permissions,  \* codes in the table permissions
  roles,        \* each default role's permissions; None: no such row
  users,        \* the table users, with the role of user_roles
  request,      \* what each worker is doing
  seeded        \* history: ensure_default_roles has committed

vars == <<permissions, roles, users, request, seeded>>

-----------------------------------------------------------------------------
Row == [name : Name, email : Address, role : Role]

Present(u) == users[u] # None

(* get_user_by_username_or_email's condition for the row of u.              *)
Matches(u, x) ==
  Present(u) /\ (users[u].name = x \/ users[u].email = Lower[x])

Known(x) == \E u \in User : Matches(u, x)

StoredEmail(a) == Lower[a]

(* unique=True on username and on email.                                    *)
NothingUnique(n, e) == TRUE  \* mutant

Unique(n, e) ==
  \A u \in User : Present(u) => users[u].name # n /\ users[u].email # e

Request == [pc : {"idle", "email", "role", "codes", "roles", "again", "insert"},
            name : Name \cup {None},       \* the payload; None: a start-up
            email : Address \cup {None},
            next : 1 .. NumCodes + NumRoles + 1, \* where the loop has got to
            missing : SUBSET Code,         \* permissions it found no row for
            read : [Role -> {None} \cup SUBSET Code], \* roles as it read them
            role : Role \cup {None}]       \* the role the account will have

Idle == [pc |-> "idle", name |-> None, email |-> None, next |-> 1,
         missing |-> {}, read |-> [r \in Role |-> None], role |-> None]

Become(w, r) == request' = [request EXCEPT ![w] = r]

At(w, pc) == request[w].pc = pc

(* The tables as an earlier release or an operator's edits left them, empty *)
(* at first.  Foreign keys hold.                                            *)
Init ==
  /\ permissions \in SUBSET Code
  /\ \E there \in SUBSET Role, grants \in [Role -> SUBSET permissions] :
       roles = [k \in Role |-> IF k \in there THEN grants[k] ELSE None]
  /\ users = [u \in User |-> None]
  /\ request = [w \in Worker |-> Idle]
  /\ seeded = FALSE

-----------------------------------------------------------------------------
(* ensure_default_roles: r is the request that has called it.               *)
EnterSeeding(r) == [r EXCEPT !.pc = "codes", !.next = 1]

(* A replica starts, with AUTO_CREATE_TABLES.                               *)
StartUp(w) ==
  /\ At(w, "idle")
  /\ Become(w, EnterSeeding(Idle))
  /\ UNCHANGED <<permissions, roles, users, seeded>>

(* One turn of the first loop: SELECT the permission; add it if missing.    *)
SelectPermission(w) ==
  LET r == request[w] IN
  /\ At(w, "codes")
  /\ r.next <= NumCodes
  /\ Become(w, [r EXCEPT !.next = @ + 1, !.missing = @ \cup ({r.next} \ permissions)])
  /\ UNCHANGED <<permissions, roles, users, seeded>>

(* Rows that were flushed and are not committed.  Whoever inserts the same  *)
(* codes waits for that transaction to end.                                 *)
FlushedEarly(w) == request[w].missing  \* mutant: held from the first loop on

Flushed(w) == IF At(w, "roles") THEN request[w].missing ELSE {}

Blocked(w) == \E v \in Worker \ {w} : Flushed(v) \cap request[w].missing # {}

FlushAndCommit(w) ==  \* mutant: db.commit() for db.flush()
  LET r == request[w] IN
  /\ At(w, "codes")
  /\ r.next > NumCodes
  /\ ~ Blocked(w)
  /\ r.missing \cap permissions = {}
  /\ Become(w, [r EXCEPT !.pc = "roles", !.next = 1])
  /\ permissions' = permissions \cup r.missing
  /\ UNCHANGED <<roles, users, seeded>>

FlushPermissions(w) ==
  LET r == request[w] IN
  /\ At(w, "codes")
  /\ r.next > NumCodes
  /\ ~ Blocked(w)
  /\ r.missing \cap permissions = {}
  /\ Become(w, [r EXCEPT !.pc = "roles", !.next = 1])
  /\ UNCHANGED <<permissions, roles, users, seeded>>

(* Another's row was committed first: IntegrityError.                       *)
FlushFails(w) ==
  LET r == request[w] IN
  /\ At(w, "codes")
  /\ r.next > NumCodes
  /\ r.missing \cap permissions # {}
  /\ Become(w, Idle)
  /\ UNCHANGED <<permissions, roles, users, seeded>>

(* One turn of the second loop: SELECT the role and, for the assignment,    *)
(* its permissions.                                                         *)
SelectRole(w) ==
  LET r == request[w] IN
  /\ At(w, "roles")
  /\ r.next <= NumRoles
  /\ Become(w, [r EXCEPT !.next = @ + 1, !.read[r.next] = roles[r.next]])
  /\ UNCHANGED <<permissions, roles, users, seeded>>

(* The rows of role_permissions the assignment adds and removes are the     *)
(* difference from what was read.                                           *)
Added(read, k)   == Default[k] \ (IF read[k] = None THEN {} ELSE read[k])
Removed(read, k) == (IF read[k] = None THEN {} ELSE read[k]) \ Default[k]

(* A row to be inserted is there, or one to be deleted is not.              *)
Conflict(read) ==
  \E k \in Role : roles[k] # None /\
    \/ read[k] = None
    \/ Added(read, k) \cap roles[k] # {}
    \/ ~ (Removed(read, k) \subseteq roles[k])

OnlyAdding(read, k) ==  \* mutant: permissions appended, none taken away
  (IF roles[k] = None THEN {} ELSE roles[k]) \cup Added(read, k)

Assigned(read, k) ==
  ((IF roles[k] = None THEN {} ELSE roles[k]) \cup Added(read, k)) \ Removed(read, k)

(* The commit.  A registration goes back to get_default_user_role.          *)
CommitRoles(w) ==
  LET r == request[w] IN
  /\ At(w, "roles")
  /\ r.next > NumRoles
  /\ ~ Conflict(r.read)
  /\ permissions' = permissions \cup r.missing
  /\ roles' = [k \in Role |-> Assigned(r.read, k)]
  /\ seeded' = TRUE
  /\ Become(w, IF r.name = None THEN Idle
               ELSE [Idle EXCEPT !.pc = "again", !.name = r.name, !.email = r.email])
  /\ UNCHANGED users

CommitFails(w) ==
  /\ At(w, "roles")
  /\ request[w].next > NumRoles
  /\ Conflict(request[w].read)
  /\ Become(w, Idle)
  /\ UNCHANGED <<permissions, roles, users, seeded>>

-----------------------------------------------------------------------------
(* POST /auth/register.                                                     *)

(* The look-up by username; a known one is answered 409.                    *)
LookUpName(w, n, a) ==
  /\ At(w, "idle")
  /\ ~ Known(n)
  /\ Become(w, [Idle EXCEPT !.pc = "email", !.name = n, !.email = a])
  /\ UNCHANGED <<permissions, roles, users, seeded>>

(* The look-up by e-mail.                                                   *)
LookUpEmail(w) ==
  LET r == request[w] IN
  /\ At(w, "email")
  /\ Become(w, IF Known(Lower[r.email]) THEN Idle ELSE [r EXCEPT !.pc = "role"])
  /\ UNCHANGED <<permissions, roles, users, seeded>>

FindRoleOnce(w) ==  \* mutant: not looked up again after the seeding
  LET r == request[w] IN
  /\ \/ /\ At(w, "role")
        /\ Become(w, IF roles[UserRole] # None
                     THEN [r EXCEPT !.pc = "insert", !.role = UserRole]
                     ELSE EnterSeeding(r))
     \/ /\ At(w, "again")
        /\ Become(w, [r EXCEPT !.pc = "insert"])
  /\ UNCHANGED <<permissions, roles, users, seeded>>

(* get_default_user_role, before and after it seeds.  The RuntimeError      *)
(* after a seeding that left no role ends the request.                      *)
FindRole(w) ==
  LET r == request[w]
      found == [r EXCEPT !.pc = "insert", !.role = UserRole]
  IN
  /\ \/ /\ At(w, "role")
        /\ Become(w, IF roles[UserRole] # None THEN found ELSE EnterSeeding(r))
     \/ /\ At(w, "again")
        /\ Become(w, IF roles[UserRole] # None THEN found ELSE Idle)
  /\ UNCHANGED <<permissions, roles, users, seeded>>

(* INSERT into users and user_roles, and commit; or the IntegrityError.     *)
InsertUser(w) ==
  LET r == request[w] IN
  /\ At(w, "insert")
  /\ Unique(r.name, StoredEmail(r.email))
  /\ \E u \in User :
       /\ ~ Present(u)
       /\ users' = [users EXCEPT ![u] = [name |-> r.name, role |-> r.role,
                                         email |-> StoredEmail(r.email)]]
  /\ Become(w, Idle)
  /\ UNCHANGED <<permissions, roles, seeded>>

InsertFails(w) ==
  LET r == request[w] IN
  /\ At(w, "insert")
  /\ ~ Unique(r.name, StoredEmail(r.email))
  /\ Become(w, Idle)
  /\ UNCHANGED <<permissions, roles, users, seeded>>

-----------------------------------------------------------------------------
(* A statement fails or the process stops: the open transaction rolls back, *)
(* and a seeding already committed stays.                                   *)
Abort(w) ==
  /\ ~ At(w, "idle")
  /\ Become(w, Idle)
  /\ UNCHANGED <<permissions, roles, users, seeded>>

Seed(w) ==
  \/ SelectPermission(w)
  \/ FlushPermissions(w) \/ FlushFails(w)
  \/ SelectRole(w)
  \/ CommitRoles(w) \/ CommitFails(w)

Register(w) ==
  \/ LookUpEmail(w)
  \/ FindRole(w)
  \/ InsertUser(w) \/ InsertFails(w)

Next ==
  \E w \in Worker :
    \/ StartUp(w)
    \/ \E n \in Name, a \in Address : LookUpName(w, n, a)
    \/ Seed(w) \/ Register(w) \/ Abort(w)

Spec == Init /\ [][Next]_vars

(* The thread pool runs every thread that can go on, and a lock that comes  *)
(* free again and again is granted at last.                                 *)
Fairness ==
  \A w \in Worker : WF_vars(Seed(w) \/ Register(w)) /\ SF_vars(FlushPermissions(w))

FairSpec == Spec /\ Fairness

-----------------------------------------------------------------------------
(* Every variable holds what its column or local can hold.                  *)
TypeOK ==
  /\ permissions \in SUBSET Code
  /\ roles \in [Role -> {None} \cup SUBSET Code]
  /\ users \in [User -> {None} \cup Row]
  /\ request \in [Worker -> Request]
  /\ seeded \in BOOLEAN

(* Although both look-ups may be out of date when a registration inserts,   *)
(* an account is found, and it alone, by its username and by its e-mail     *)
(* address in any spelling.                                                 *)
LoginFindsOne ==
  \A u \in User, x \in Login :
    /\ Present(u)
    /\ \/ x = users[u].name
       \/ x \in Address /\ Lower[x] = Lower[users[u].email]
    => {v \in User : Matches(v, x)} = {u}

(* No account is there before its role is: the seeding in the middle of a   *)
(* registration is committed, in whole, before the account.                 *)
AccountHasRole ==
  \A u \in User : Present(u) => roles[users[u].role] # None

(* Once any seeding has committed, every default role has its default       *)
(* permissions and no other, whatever other seedings read or began before.  *)
SeededIsWhole ==
  seeded => permissions = Code /\ roles = Default

(* A registration or start-up that loses a race of seedings has lost it to  *)
(* one that is complete, so that a retry finds every role.                  *)
LosesToSeeded ==
  [][\A w \in Worker : FlushFails(w) \/ CommitFails(w) => seeded]_vars

(* However requests overlap, lose races or are aborted half-way, the tables *)
(* change only as if each seeding and each registration ran alone: one      *)
(* seeding, whole, whatever others read or began before, and accounts added *)
(* one by one, their role there, under logins of their own.                 *)
Contract == INSTANCE AccountsContract WITH
  logins <- [u \in User |-> IF Present(u) THEN {users[u].name, users[u].email}
                                         ELSE {}]

AccountsContractHolds == Contract!Spec

(* No registration and no start-up waits for ever on another's seeding.     *)
RequestsEnd ==
  \A w \in Worker : ~ At(w, "idle") ~> At(w, "idle")

=============================================================================
