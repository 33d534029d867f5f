-------------------------- MODULE AccountsContract ---------------------------
(***************************************************************************)
(* What registration and seeding promise, with no requests that overlap or *)
(* fail half-way: the default roles are written in one step, once, and an  *)
(* account appears in one step, after them, under logins nobody else has.  *)
(***************************************************************************)

CONSTANTS
  User,      \* ids of accounts
  Name,      \* usernames
  Address,   \* e-mail addresses
  Lower,     \* the spelling an address is kept in
  Code,      \* the default permissions
  Role,      \* the default roles
  UserRole,  \* the role of a new account
  Default,   \* the permissions of each default role
  None       \* no such role

VARIABLES
  permissions,  \* the permissions there are
  roles,        \* each default role's permissions, None where it is missing
  logins,       \* logins[u]: what account u is found by, {} before it exists
  seeded        \* the default roles were written

accountsVars == <<permissions, roles, logins, seeded>>

(* What an earlier release left may be anything.                            *)
Init ==
  /\ permissions \in SUBSET Code
  /\ roles \in [Role -> {None} \cup SUBSET permissions]
  /\ logins = [u \in User |-> {}]
  /\ seeded = FALSE

Seed ==
  /\ ~ seeded
  /\ seeded' = TRUE
  /\ permissions' = Code
  /\ roles' = Default
  /\ UNCHANGED logins

Taken(x) == \E u \in User : x \in logins[u]

Register(u, n, a) ==
  /\ logins[u] = {}
  /\ ~ Taken(n) /\ ~ Taken(Lower[a])
  /\ roles[UserRole] # None
  /\ logins' = [logins EXCEPT ![u] = {n, Lower[a]}]
  /\ UNCHANGED <<permissions, roles, seeded>>

Next ==
  \/ Seed
  \/ \E u \in User, n \in Name, a \in Address : Register(u, n, a)

Spec == Init /\ [][Next]_accountsVars

=============================================================================
