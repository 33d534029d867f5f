--------------------------- MODULE AccountsProofs ----------------------------
(***************************************************************************)
(* Proofs, for any numbers of accounts, permissions, roles and workers, of *)
(* the safety properties of Accounts.  Until a seeding commits, the tables *)
(* stay as every seeding in progress has read them, so the first one to    *)
(* commit writes the defaults; after it, the tables are the defaults, and  *)
(* a seeding that read anything else conflicts with them.                  *)
(***************************************************************************)
EXTENDS Accounts, TLAPS

(* What is true of a request r, whichever worker serves it.                 *)
Fine(r) ==
  /\ r.name = None <=> r.email = None
  /\ r.pc \in {"email", "role", "again", "insert"} => r.name # None
  /\ r.pc = "insert" => r.role = UserRole /\ roles[UserRole] # None
  /\ r.pc = "codes" =>
       \A c \in Code : c < r.next => c \in r.missing \cup permissions
  /\ r.pc = "roles" => Code \subseteq r.missing \cup permissions
  /\ ~ seeded => r.missing \cap permissions = {}
  /\ ~ seeded /\ r.pc = "roles" =>
       \A k \in Role : k < r.next => r.read[k] = roles[k]

(* Usernames, and stored addresses, which are in lower case, are unique.    *)
Apart ==
  \A u, v \in User : Present(u) /\ Present(v) =>
    /\ users[u].name = users[v].name => u = v
    /\ users[u].email = users[v].email => u = v

Lowered == \A u \in User : Present(u) => Lower[users[u].email] = users[u].email

IInv ==
  /\ TypeOK
  /\ SeededIsWhole
  /\ AccountHasRole
  /\ Apart
  /\ Lowered
  /\ \A w \in Worker : Fine(request[w])

-----------------------------------------------------------------------------
(* Arithmetic of the loops, and the type of an idle request.                *)
LEMMA IdleTyped ==
  /\ Idle \in Request
  /\ Idle.pc = "idle" /\ Idle.name = None /\ Idle.email = None
  /\ Idle.next = 1 /\ Idle.missing = {}
  <1>1. 1 \in 1 .. NumCodes + NumRoles + 1 BY AccountsAssumption
  <1>2. [k \in Role |-> None] \in [Role -> {None} \cup SUBSET Code] OBVIOUS
  <1> QED BY <1>1, <1>2 DEF Idle, Request

(* The User role is among the default roles.                                *)
LEMMA UserRoleIsDefault == UserRole \in Role
  BY AccountsAssumption DEF UserRole, Role

(* An idle request holds nothing that could be out of date.                 *)
LEMMA IdleIsFine == Fine(Idle)
  BY IdleTyped DEF Fine

(* The tables as they were left, and idle workers, satisfy the invariant.   *)
LEMMA InitIInv == Init => IInv
  <1> SUFFICES ASSUME Init PROVE IInv OBVIOUS
  <1>1. \A w \in Worker : request[w] = Idle BY DEF Init
  <1>2. TypeOK
    <2>1. roles \in [Role -> {None} \cup SUBSET Code]
      <3>1. PICK there \in SUBSET Role :
              \E grants \in [Role -> SUBSET permissions] :
                roles = [k \in Role |-> IF k \in there THEN grants[k] ELSE None]
        BY DEF Init
      <3>2. PICK grants \in [Role -> SUBSET permissions] :
              roles = [k \in Role |-> IF k \in there THEN grants[k] ELSE None]
        BY <3>1
      <3> QED BY <3>2 DEF Init
    <2> QED BY <2>1, IdleTyped DEF Init, TypeOK
  <1>3. SeededIsWhole BY DEF Init, SeededIsWhole
  <1>4. \A u \in User : ~ Present(u) BY DEF Init, Present
  <1>5. AccountHasRole /\ Apart /\ Lowered
    BY <1>4 DEF AccountHasRole, Apart, Lowered
  <1>6. \A w \in Worker : Fine(request[w]) BY <1>1, IdleIsFine
  <1> QED BY <1>2, <1>3, <1>5, <1>6 DEF IInv

(* A step that leaves the tables alone and moves one request to a fine one. *)
LEMMA MoveIInv ==
  ASSUME IInv, NEW w \in Worker, NEW r \in Request, Fine(r), Become(w, r),
         UNCHANGED <<permissions, roles, users, seeded>>
  PROVE  IInv'
  <1>1. \A v \in Worker : request'[v] = IF v = w THEN r ELSE request[v]
    BY DEF Become, IInv, TypeOK
  <1>2. TypeOK' BY DEF IInv, TypeOK, Become
  <1>3. SeededIsWhole' /\ AccountHasRole' /\ Apart' /\ Lowered'
    BY DEF IInv, SeededIsWhole, AccountHasRole, Apart, Lowered, Present
  <1>4. ASSUME NEW v \in Worker PROVE Fine(request[v])'
    <2>1. CASE v = w BY <2>1, <1>1 DEF Fine
    <2>2. CASE v # w
      <3>1. Fine(request[v]) BY DEF IInv
      <3>2. request'[v] = request[v] BY <2>2, <1>1
      <3> QED BY <3>1, <3>2 DEF Fine
    <2> QED BY <2>1, <2>2
  <1> QED BY <1>2, <1>3, <1>4 DEF IInv

(* A worker that goes idle, whatever ended its request.                     *)
LEMMA StopIInv ==
  ASSUME IInv, NEW w \in Worker, Become(w, Idle),
         UNCHANGED <<permissions, roles, users, seeded>>
  PROVE  IInv'
  BY IdleTyped, IdleIsFine, MoveIInv

-----------------------------------------------------------------------------
(* ensure_default_roles.                                                    *)

(* A request that calls ensure_default_roles has read nothing yet.          *)
LEMMA EnterSeedingFine ==
  ASSUME NEW r \in Request, Fine(r)
  PROVE  EnterSeeding(r) \in Request /\ Fine(EnterSeeding(r))
  <1> DEFINE q == EnterSeeding(r)
  <1>1. 1 \in 1 .. NumCodes + NumRoles + 1 BY AccountsAssumption
  <1>2. q \in Request BY <1>1 DEF EnterSeeding, Request
  <1>3. /\ q.pc = "codes" /\ q.next = 1 /\ q.missing = r.missing
        /\ q.name = r.name /\ q.email = r.email
    BY DEF EnterSeeding, Request
  <1>4. \A c \in Code : ~ (c < 1) BY AccountsAssumption DEF Code
  <1> HIDE DEF q
  <1>5. Fine(q) BY <1>3, <1>4 DEF Fine
  <1> QED BY <1>2, <1>5 DEF q

(* A turn of the first loop leaves one more code found or missing.          *)
LEMMA SelectPermissionIInv ==
  ASSUME IInv, NEW w \in Worker, SelectPermission(w)
  PROVE  IInv'
  <1> DEFINE r == request[w]
             q == [r EXCEPT !.next = @ + 1,
                            !.missing = @ \cup ({r.next} \ permissions)]
  <1>1. r \in Request /\ Fine(r) BY DEF IInv, TypeOK
  <1>2. r.pc = "codes" /\ r.next <= NumCodes BY DEF SelectPermission, At
  <1>3. r.next \in Code /\ r.next + 1 \in 1 .. NumCodes + NumRoles + 1
    BY <1>1, <1>2, AccountsAssumption DEF Request, Code
  <1>4. /\ q.pc = "codes" /\ q.name = r.name /\ q.email = r.email
        /\ q.next = r.next + 1
        /\ q.missing = r.missing \cup ({r.next} \ permissions)
    BY <1>1, <1>2 DEF Request
  <1>5. q \in Request
    <2>1. r.missing \cup ({r.next} \ permissions) \in SUBSET Code
      BY <1>1, <1>3 DEF Request
    <2> QED BY <1>1, <1>3, <2>1 DEF Request
  <1>6. Become(w, q) /\ UNCHANGED <<permissions, roles, users, seeded>>
    BY DEF SelectPermission
  <1>7. ASSUME NEW c \in Code, c < q.next PROVE c \in q.missing \cup permissions
    <2>1. c < r.next \/ c = r.next BY <1>3, <1>4, <1>7 DEF Code
    <2>2. c < r.next => c \in r.missing \cup permissions BY <1>1, <1>2 DEF Fine
    <2> QED BY <2>1, <2>2, <1>4
  <1>8. ~ seeded => q.missing \cap permissions = {} BY <1>1, <1>4 DEF Fine
  <1>9. r.name = None <=> r.email = None BY <1>1 DEF Fine
  <1> HIDE DEF r, q
  <1>10. Fine(q) BY <1>4, <1>7, <1>8, <1>9 DEF Fine
  <1> QED BY <1>5, <1>6, <1>10, MoveIInv

(* After the first loop every code is found or missing.                     *)
LEMMA FlushPermissionsIInv ==
  ASSUME IInv, NEW w \in Worker, FlushPermissions(w)
  PROVE  IInv'
  <1> DEFINE r == request[w]
             q == [r EXCEPT !.pc = "roles", !.next = 1]
  <1>1. r \in Request /\ Fine(r) BY DEF IInv, TypeOK
  <1>2. r.pc = "codes" /\ r.next > NumCodes BY DEF FlushPermissions, At
  <1>3. 1 \in 1 .. NumCodes + NumRoles + 1 BY AccountsAssumption
  <1>4. q \in Request BY <1>1, <1>3 DEF Request
  <1>5. /\ q.pc = "roles" /\ q.name = r.name /\ q.email = r.email
        /\ q.next = 1 /\ q.missing = r.missing
    BY <1>1 DEF Request
  <1>6. Become(w, q) /\ UNCHANGED <<permissions, roles, users, seeded>>
    BY DEF FlushPermissions
  <1>7. Code \subseteq r.missing \cup permissions
    <2>1. \A c \in Code : c < r.next
      BY <1>1, <1>2, AccountsAssumption DEF Code, Request
    <2> QED BY <2>1, <1>1, <1>2 DEF Fine
  <1>8. \A k \in Role : ~ (k < 1) BY AccountsAssumption DEF Role
  <1>9. r.name = None <=> r.email = None BY <1>1 DEF Fine
  <1>10. ~ seeded => r.missing \cap permissions = {} BY <1>1 DEF Fine
  <1> HIDE DEF r, q
  <1>11. Fine(q) BY <1>5, <1>7, <1>8, <1>9, <1>10 DEF Fine
  <1> QED BY <1>4, <1>6, <1>11, MoveIInv

(* A turn of the second loop reads one more role as it is now.              *)
LEMMA SelectRoleIInv ==
  ASSUME IInv, NEW w \in Worker, SelectRole(w)
  PROVE  IInv'
  <1> DEFINE r == request[w]
             k == r.next
             q == [r EXCEPT !.next = @ + 1, !.read[r.next] = roles[r.next]]
  <1>1. r \in Request /\ Fine(r) BY DEF IInv, TypeOK
  <1>2. r.pc = "roles" /\ k <= NumRoles BY DEF SelectRole, At
  <1>3. k \in Role /\ k + 1 \in 1 .. NumCodes + NumRoles + 1
    BY <1>1, <1>2, AccountsAssumption DEF Request, Role
  <1>4. roles[k] \in {None} \cup SUBSET Code BY <1>3 DEF IInv, TypeOK
  <1>5. r.read \in [Role -> {None} \cup SUBSET Code] BY <1>1 DEF Request
  <1>6. /\ q.pc = "roles" /\ q.name = r.name /\ q.email = r.email
        /\ q.next = k + 1 /\ q.missing = r.missing
        /\ q.read = [r.read EXCEPT ![k] = roles[k]]
    BY <1>1, <1>2 DEF Request
  <1>7. q \in Request
    <2>1. [r.read EXCEPT ![k] = roles[k]] \in [Role -> {None} \cup SUBSET Code]
      BY <1>3, <1>4, <1>5
    <2>2. q = [r EXCEPT !.next = k + 1, !.read = [r.read EXCEPT ![k] = roles[k]]]
      BY <1>1 DEF Request
    <2> HIDE DEF q
    <2> QED BY <1>1, <1>3, <2>1, <2>2 DEF Request
  <1>8. Become(w, q) /\ UNCHANGED <<permissions, roles, users, seeded>>
    BY DEF SelectRole
  <1>9. ASSUME ~ seeded, NEW j \in Role, j < q.next PROVE q.read[j] = roles[j]
    <2>1. j < k \/ j = k BY <1>3, <1>6, <1>9 DEF Role
    <2>2. j < k => r.read[j] = roles[j] BY <1>1, <1>2, <1>9 DEF Fine
    <2> QED BY <2>1, <2>2, <1>5, <1>6
  <1>10. /\ r.name = None <=> r.email = None
         /\ Code \subseteq r.missing \cup permissions
         /\ ~ seeded => r.missing \cap permissions = {}
    BY <1>1, <1>2 DEF Fine
  <1> HIDE DEF r, q, k
  <1>11. Fine(q) BY <1>6, <1>9, <1>10 DEF Fine
  <1> QED BY <1>7, <1>8, <1>11, MoveIInv

-----------------------------------------------------------------------------
(* The first commit of a seeding is of what it read, and any later one that *)
(* does not conflict changes nothing: either way the roles become Default.  *)
LEMMA AssignedIsDefault ==
  ASSUME IInv, NEW w \in Worker, At(w, "roles"), request[w].next > NumRoles,
         ~ Conflict(request[w].read), NEW k \in Role
  PROVE  Assigned(request[w].read, k) = Default[k]
  <1> DEFINE read == request[w].read
  <1>1. Fine(request[w]) /\ request[w] \in Request BY DEF IInv, TypeOK
  <1>2. CASE ~ seeded
    <2>1. k < request[w].next
      BY <1>1, AccountsAssumption DEF Role, Request
    <2>2. read[k] = roles[k] BY <1>1, <1>2, <2>1 DEF Fine, At
    <2> HIDE DEF read
    <2>3. Assigned(read, k) = Default[k]
      <3>1. CASE roles[k] = None BY <2>2, <3>1 DEF Assigned, Added, Removed
      <3>2. CASE roles[k] # None BY <2>2, <3>2 DEF Assigned, Added, Removed
      <3> QED BY <3>1, <3>2
    <2> QED BY <2>3 DEF read
  <1>3. CASE seeded
    <2>1. roles[k] = Default[k] BY <1>3 DEF IInv, SeededIsWhole
    <2>2. roles[k] # None BY <2>1, AccountsAssumption
    <2>3. /\ Added(read, k) \cap roles[k] = {}
          /\ Removed(read, k) \subseteq roles[k]
      BY <2>2 DEF Conflict
    <2> HIDE DEF read
    <2>4. Added(read, k) = {} BY <2>1, <2>3 DEF Added
    <2>5. Removed(read, k) = {} BY <2>1, <2>3 DEF Removed
    <2>6. Assigned(read, k) = Default[k]
      BY <2>1, <2>2, <2>4, <2>5 DEF Assigned
    <2> QED BY <2>6 DEF read
  <1> QED BY <1>2, <1>3

(* So a commit leaves the default permissions and roles, and no others.     *)
LEMMA CommitWritesDefaults ==
  ASSUME IInv, NEW w \in Worker, CommitRoles(w)
  PROVE  permissions' = Code /\ roles' = Default
  <1> DEFINE r == request[w]
  <1>1. r \in Request /\ Fine(r) BY DEF IInv, TypeOK
  <1>2. /\ At(w, "roles") /\ r.next > NumRoles /\ ~ Conflict(r.read)
        /\ permissions' = permissions \cup r.missing
        /\ roles' = [k \in Role |-> Assigned(r.read, k)]
    BY DEF CommitRoles
  <1>3. permissions' = Code
    <2>1. Code \subseteq r.missing \cup permissions BY <1>1, <1>2 DEF Fine, At
    <2>2. r.missing \subseteq Code /\ permissions \subseteq Code
      BY <1>1 DEF Request, IInv, TypeOK
    <2> QED BY <1>2, <2>1, <2>2
  <1>4. roles' = Default
    <2>1. \A k \in Role : Assigned(r.read, k) = Default[k]
      BY <1>2, AssignedIsDefault
    <2> QED BY <1>2, <2>1, AccountsAssumption
  <1> QED BY <1>3, <1>4

(* The commit of a seeding.                                                 *)
LEMMA CommitRolesIInv ==
  ASSUME IInv, NEW w \in Worker, CommitRoles(w)
  PROVE  IInv'
  <1> DEFINE r == request[w]
             q == IF r.name = None THEN Idle
                  ELSE [Idle EXCEPT !.pc = "again", !.name = r.name, !.email = r.email]
  <1>1. r \in Request /\ Fine(r) BY DEF IInv, TypeOK
  <1>2. /\ At(w, "roles") /\ r.next > NumRoles /\ ~ Conflict(r.read)
        /\ permissions' = permissions \cup r.missing
        /\ roles' = [k \in Role |-> Assigned(r.read, k)]
        /\ seeded' = TRUE /\ users' = users
    BY DEF CommitRoles
  <1>3. Become(w, q) BY DEF CommitRoles
  <1>4. permissions' = Code BY CommitWritesDefaults
  <1>5. roles' = Default BY CommitWritesDefaults
  <1>6. \A k \in Role : roles'[k] # None BY <1>5, AccountsAssumption
  <1>7. /\ q \in Request /\ q.missing = {} /\ q.pc \in {"idle", "again"}
        /\ q.name = None <=> q.email = None
        /\ q.pc = "again" => q.name # None
    <2>1. CASE r.name = None
      <3>1. q = Idle BY <2>1
      <3> HIDE DEF q
      <3> QED BY <3>1, IdleTyped
    <2>2. CASE r.name # None
      <3> DEFINE p == [Idle EXCEPT !.pc = "again", !.name = r.name, !.email = r.email]
      <3>1. r.name \in Name \cup {None} /\ r.email \in Address \cup {None}
        BY <1>1 DEF Request
      <3>2. p \in Request BY <3>1, IdleTyped DEF Request
      <3>3. /\ p.pc = "again" /\ p.name = r.name /\ p.email = r.email
            /\ p.missing = {}
        BY IdleTyped DEF Request
      <3>4. r.email # None BY <2>2, <1>1 DEF Fine
      <3>5. q = p BY <2>2
      <3> HIDE DEF r, p, q
      <3> QED BY <2>2, <3>2, <3>3, <3>4, <3>5
    <2> QED BY <2>1, <2>2
  <1> HIDE DEF q
  <1>8. PICK s \in Request : s = q BY <1>7
  <1>9. Fine(s)' BY <1>7, <1>8 DEF Fine
  <1>10. \A v \in Worker : request'[v] = IF v = w THEN s ELSE request[v]
    BY <1>3, <1>8 DEF Become, IInv, TypeOK
  <1>11. TypeOK'
    <2>1. request' \in [Worker -> Request] BY <1>3, <1>7 DEF Become, IInv, TypeOK
    <2>2. roles' \in [Role -> {None} \cup SUBSET Code]
      BY <1>5, AccountsAssumption
    <2> QED BY <2>1, <2>2, <1>2, <1>4 DEF IInv, TypeOK
  <1>12. SeededIsWhole' BY <1>4, <1>5 DEF SeededIsWhole
  <1>13. AccountHasRole'
    BY <1>2, <1>6 DEF IInv, TypeOK, AccountHasRole, Present, Row
  <1>14. Apart' /\ Lowered' BY <1>2 DEF IInv, Apart, Lowered, Present
  <1>15. ASSUME NEW v \in Worker PROVE Fine(request[v])'
    <2>1. CASE v = w BY <2>1, <1>9, <1>10 DEF Fine
    <2>2. CASE v # w
      <3>1. request'[v] = request[v] BY <2>2, <1>10
      <3>2. Fine(request[v]) BY DEF IInv
      <3>3. roles'[UserRole] # None BY <1>6, UserRoleIsDefault
      <3> HIDE DEF r
      <3> QED BY <3>1, <3>2, <3>3, <1>2, <1>4 DEF Fine
    <2> QED BY <2>1, <2>2
  <1> QED BY <1>11, <1>12, <1>13, <1>14, <1>15 DEF IInv

-----------------------------------------------------------------------------
(* POST /auth/register.                                                     *)

(* The look-up by username that lets a registration begin.                  *)
LEMMA LookUpNameIInv ==
  ASSUME IInv, NEW w \in Worker, NEW n \in Name, NEW a \in Address,
         LookUpName(w, n, a)
  PROVE  IInv'
  <1> DEFINE q == [Idle EXCEPT !.pc = "email", !.name = n, !.email = a]
  <1>1. q \in Request BY IdleTyped DEF Request
  <1>2. q.pc = "email" /\ q.name = n /\ q.email = a /\ q.missing = {}
    BY IdleTyped DEF Request
  <1>3. n # None /\ a # None BY AccountsAssumption DEF Login
  <1>4. Become(w, q) /\ UNCHANGED <<permissions, roles, users, seeded>>
    BY DEF LookUpName
  <1> HIDE DEF q
  <1>5. Fine(q) BY <1>2, <1>3 DEF Fine
  <1> QED BY <1>1, <1>4, <1>5, MoveIInv

(* The look-up by e-mail.                                                   *)
LEMMA LookUpEmailIInv ==
  ASSUME IInv, NEW w \in Worker, LookUpEmail(w)
  PROVE  IInv'
  <1> DEFINE r == request[w]
             q == [r EXCEPT !.pc = "role"]
  <1>1. r \in Request /\ Fine(r) /\ r.pc = "email"
    BY DEF IInv, TypeOK, LookUpEmail, At
  <1>2. q \in Request BY <1>1 DEF Request
  <1>3. /\ q.pc = "role" /\ q.name = r.name /\ q.email = r.email
        /\ q.missing = r.missing
    BY <1>1 DEF Request
  <1>4. UNCHANGED <<permissions, roles, users, seeded>> BY DEF LookUpEmail
  <1>5. Become(w, Idle) \/ Become(w, q) BY DEF LookUpEmail
  <1> HIDE DEF r, q
  <1>6. Fine(q) BY <1>1, <1>3 DEF Fine
  <1> QED BY <1>2, <1>4, <1>5, <1>6, MoveIInv, StopIInv

(* get_default_user_role, before the seeding and after it.                  *)
LEMMA FindRoleIInv ==
  ASSUME IInv, NEW w \in Worker, FindRole(w)
  PROVE  IInv'
  <1> DEFINE r == request[w]
             q == [r EXCEPT !.pc = "insert", !.role = UserRole]
  <1>1. r \in Request /\ Fine(r) /\ r.pc \in {"role", "again"}
    BY DEF IInv, TypeOK, FindRole, At
  <1>2. q \in Request BY <1>1, UserRoleIsDefault DEF Request
  <1>3. /\ q.pc = "insert" /\ q.name = r.name /\ q.email = r.email
        /\ q.missing = r.missing /\ q.role = UserRole
    BY <1>1 DEF Request
  <1>4. UNCHANGED <<permissions, roles, users, seeded>> BY DEF FindRole
  <1>5. \/ roles[UserRole] # None /\ Become(w, q)
        \/ Become(w, EnterSeeding(r))
        \/ Become(w, Idle)
    BY DEF FindRole
  <1> HIDE DEF r, q
  <1>6. roles[UserRole] # None => Fine(q) BY <1>1, <1>3 DEF Fine
  <1> QED BY <1>1, <1>2, <1>4, <1>5, <1>6, EnterSeedingFine, MoveIInv, StopIInv

(* The INSERT of the account: the unique indexes keep it apart from others. *)
LEMMA InsertUserIInv ==
  ASSUME IInv, NEW w \in Worker, InsertUser(w)
  PROVE  IInv'
  <1> DEFINE r == request[w]
             e == Lower[r.email]
  <1>1. r \in Request /\ Fine(r) /\ r.pc = "insert"
    BY DEF IInv, TypeOK, InsertUser, At
  <1>2. r.name # None /\ r.email # None /\ r.role = UserRole /\ roles[UserRole] # None
    BY <1>1 DEF Fine
  <1>3. r.name \in Name /\ r.email \in Address BY <1>1, <1>2 DEF Request
  <1>4. e \in Address /\ Lower[e] = e BY <1>3, AccountsAssumption DEF Login
  <1> DEFINE row == [name |-> r.name, role |-> r.role, email |-> e]
  <1>5. PICK u \in User : ~ Present(u) /\ users' = [users EXCEPT ![u] = row]
    BY DEF InsertUser, StoredEmail
  <1>6. /\ Unique(r.name, e) /\ Become(w, Idle)
        /\ UNCHANGED <<permissions, roles, seeded>>
    BY DEF InsertUser, StoredEmail
  <1>7. row \in Row /\ row # None
    <2>1. row \in Row BY <1>2, <1>3, <1>4, UserRoleIsDefault DEF Row
    <2> QED BY <2>1, AccountsAssumption DEF Row
  <1>8. row.name = r.name /\ row.email = e /\ row.role = UserRole BY <1>2
  <1> HIDE DEF r, e, row
  <1>9. \A v \in User : users'[v] = IF v = u THEN row ELSE users[v]
    BY <1>5 DEF IInv, TypeOK
  <1>10. \A v \in Worker : request'[v] = IF v = w THEN Idle ELSE request[v]
    BY <1>6 DEF Become, IInv, TypeOK
  <1>11. TypeOK'
    <2>1. users' \in [User -> {None} \cup Row] BY <1>5, <1>7 DEF IInv, TypeOK
    <2>2. request' \in [Worker -> Request]
      BY <1>6, IdleTyped DEF Become, IInv, TypeOK
    <2> QED BY <2>1, <2>2, <1>6 DEF IInv, TypeOK
  <1>12. SeededIsWhole' BY <1>6 DEF IInv, SeededIsWhole
  <1>13. AccountHasRole'
    BY <1>2, <1>6, <1>8, <1>9 DEF IInv, AccountHasRole, Present
  <1>14. Lowered' BY <1>4, <1>8, <1>9 DEF IInv, Lowered, Present
  <1>15. Apart'
    <2>1. ASSUME NEW v \in User, v # u, Present(v)'
          PROVE  users'[v].name # row.name /\ users'[v].email # row.email
      BY <2>1, <1>6, <1>8, <1>9 DEF Unique, Present
    <2> QED BY <2>1, <1>9 DEF IInv, Apart, Present
  <1>16. ASSUME NEW v \in Worker PROVE Fine(request[v])'
    <2>1. CASE v = w BY <2>1, <1>10, IdleTyped DEF Fine
    <2>2. CASE v # w
      <3>1. Fine(request[v]) /\ request'[v] = request[v]
        BY <2>2, <1>10 DEF IInv
      <3> QED BY <3>1, <1>6 DEF Fine
    <2> QED BY <2>1, <2>2
  <1> QED BY <1>11, <1>12, <1>13, <1>14, <1>15, <1>16 DEF IInv

-----------------------------------------------------------------------------
(* Every step keeps the invariant.                                          *)
LEMMA NextIInv == IInv /\ [Next]_vars => IInv'
  <1> SUFFICES ASSUME IInv, [Next]_vars PROVE IInv' OBVIOUS
  <1>1. ASSUME NEW w \in Worker, StartUp(w) PROVE IInv'
    BY <1>1, IdleTyped, IdleIsFine, EnterSeedingFine, MoveIInv DEF StartUp
  <1>2. ASSUME NEW w \in Worker, Seed(w) PROVE IInv'
    <2>1. CASE SelectPermission(w) BY <2>1, SelectPermissionIInv
    <2>2. CASE FlushPermissions(w) BY <2>2, FlushPermissionsIInv
    <2>3. CASE FlushFails(w) BY <2>3, StopIInv DEF FlushFails
    <2>4. CASE SelectRole(w) BY <2>4, SelectRoleIInv
    <2>5. CASE CommitRoles(w) BY <2>5, CommitRolesIInv
    <2>6. CASE CommitFails(w) BY <2>6, StopIInv DEF CommitFails
    <2> QED BY <1>2, <2>1, <2>2, <2>3, <2>4, <2>5, <2>6 DEF Seed
  <1>3. ASSUME NEW w \in Worker, Register(w) PROVE IInv'
    <2>1. CASE LookUpEmail(w) BY <2>1, LookUpEmailIInv
    <2>2. CASE FindRole(w) BY <2>2, FindRoleIInv
    <2>3. CASE InsertUser(w) BY <2>3, InsertUserIInv
    <2>4. CASE InsertFails(w) BY <2>4, StopIInv DEF InsertFails
    <2> QED BY <1>3, <2>1, <2>2, <2>3, <2>4 DEF Register
  <1>4. ASSUME NEW w \in Worker, Abort(w) PROVE IInv'
    BY <1>4, StopIInv DEF Abort
  <1>5. CASE UNCHANGED vars
    BY <1>5 DEF vars, IInv, TypeOK, SeededIsWhole, AccountHasRole, Apart, Lowered,
                Present, Fine
  <1> QED BY <1>1, <1>2, <1>3, <1>4, <1>5, LookUpNameIInv DEF Next

(* The invariant of registrations and seedings.                             *)
THEOREM AccountsInvariant == Spec => []IInv
  BY InitIInv, NextIInv, PTL DEF Spec

(* Every variable of Accounts keeps its type.                               *)
THEOREM TypeCorrect == Spec => []TypeOK
  <1>1. IInv => TypeOK BY DEF IInv
  <1> QED BY <1>1, AccountsInvariant, PTL

(* Whatever registrations race, a login by username or by e-mail address in *)
(* any spelling finds the one account it belongs to.                        *)
THEOREM LoginsFindOne == Spec => []LoginFindsOne
  <1>1. IInv => LoginFindsOne
    <2> SUFFICES ASSUME IInv, NEW u \in User, NEW x \in Login, Present(u),
                        \/ x = users[u].name
                        \/ x \in Address /\ Lower[x] = Lower[users[u].email]
                 PROVE  {v \in User : Matches(v, x)} = {u}
      BY DEF LoginFindsOne
    <2>1. \A v \in User : Present(v) =>
            /\ users[v].name \in Name /\ users[v].email \in Address
            /\ Lower[users[v].email] = users[v].email
      BY DEF IInv, TypeOK, Present, Row, Lowered
    <2>2. \A v \in User : Present(v) =>
            /\ users[u].name = users[v].name => u = v
            /\ users[u].email = users[v].email => u = v
      BY DEF IInv, Apart
    <2>3. CASE x = users[u].name
      <3>1. x \in Name /\ Lower[x] \in Name
        BY <2>1, <2>3, AccountsAssumption
      <3>2. \A v \in User : Matches(v, x) <=> Present(v) /\ users[v].name = x
        BY <2>1, <3>1, AccountsAssumption DEF Matches
      <3> QED BY <2>2, <2>3, <3>2
    <2>4. CASE x \in Address /\ Lower[x] = Lower[users[u].email]
      <3>1. Lower[x] = users[u].email BY <2>1, <2>4
      <3>2. \A v \in User :
              Matches(v, x) <=> Present(v) /\ users[v].email = users[u].email
        BY <2>1, <2>4, <3>1, AccountsAssumption DEF Matches
      <3> QED BY <2>2, <3>2
    <2> QED BY <2>3, <2>4
  <1> QED BY <1>1, AccountsInvariant, PTL

(* No account is ever there without its role.                               *)
THEOREM AccountsHaveRoles == Spec => []AccountHasRole
  <1>1. IInv => AccountHasRole BY DEF IInv
  <1> QED BY <1>1, AccountsInvariant, PTL

(* After the first seeding that commits, roles and permissions are the      *)
(* defaults for good.                                                       *)
THEOREM SeedingIsWhole == Spec => []SeededIsWhole
  <1>1. IInv => SeededIsWhole BY DEF IInv
  <1> QED BY <1>1, AccountsInvariant, PTL

(* A seeding fails on a row of another only after one has committed, so a   *)
(* retry finds the defaults complete.                                       *)
THEOREM LosersCanRetry == Spec => LosesToSeeded
  <1>1. IInv => \A w \in Worker : FlushFails(w) \/ CommitFails(w) => seeded
    <2> SUFFICES ASSUME IInv, NEW w \in Worker, ~ seeded
                 PROVE  ~ FlushFails(w) /\ ~ CommitFails(w)
      OBVIOUS
    <2>1. Fine(request[w]) /\ request[w] \in Request BY DEF IInv, TypeOK
    <2>2. ~ FlushFails(w) BY <2>1 DEF Fine, FlushFails
    <2>3. ASSUME At(w, "roles"), request[w].next > NumRoles
          PROVE  ~ Conflict(request[w].read)
      <3> DEFINE read == request[w].read
      <3>1. \A k \in Role : k < request[w].next
        BY <2>1, <2>3, AccountsAssumption DEF Role, Request
      <3>2. \A k \in Role : read[k] = roles[k] BY <2>1, <2>3, <3>1 DEF Fine, At
      <3> HIDE DEF read
      <3>3. ~ Conflict(read) BY <3>2 DEF Conflict, Added, Removed
      <3> QED BY <3>3 DEF read
    <2> QED BY <2>2, <2>3 DEF CommitFails
  <1>2. IInv /\ [Next]_vars =>
          [\A w \in Worker : FlushFails(w) \/ CommitFails(w) => seeded]_vars
    BY <1>1
  <1> QED BY <1>2, AccountsInvariant, PTL DEF Spec, LosesToSeeded

-----------------------------------------------------------------------------
(* Refinement of the contract.                                              *)

(* What the tables hold at first is something an earlier release left.      *)
LEMMA ContractInit == Init => Contract!Init
  <1> SUFFICES ASSUME Init PROVE Contract!Init OBVIOUS
  <1>1. PICK there \in SUBSET Role :
          \E grants \in [Role -> SUBSET permissions] :
            roles = [k \in Role |-> IF k \in there THEN grants[k] ELSE None]
    BY DEF Init
  <1>2. PICK grants \in [Role -> SUBSET permissions] :
          roles = [k \in Role |-> IF k \in there THEN grants[k] ELSE None]
    BY <1>1
  <1>3. roles \in [Role -> {None} \cup SUBSET permissions] BY <1>2
  <1>4. \A u \in User : ~ Present(u) BY DEF Init, Present
  <1> QED BY <1>3, <1>4 DEF Init, Contract!Init

(* The first seeding that commits is the contract's; others change nothing. *)
LEMMA CommitSeedsOnce ==
  ASSUME IInv, NEW w \in Worker, CommitRoles(w)
  PROVE  Contract!Seed \/ UNCHANGED Contract!accountsVars
  <1>1. permissions' = Code /\ roles' = Default BY CommitWritesDefaults
  <1>2. seeded' = TRUE /\ users' = users BY DEF CommitRoles
  <1>3. CASE seeded
    <2>1. permissions = Code /\ roles = Default
      BY <1>3 DEF IInv, SeededIsWhole
    <2> QED BY <1>1, <1>2, <1>3, <2>1 DEF Contract!accountsVars, Present
  <1>4. CASE ~ seeded
    BY <1>1, <1>2, <1>4 DEF Contract!Seed, Present
  <1> QED BY <1>3, <1>4

(* The INSERT of an account registers it under logins that nobody has.      *)
LEMMA InsertRegisters ==
  ASSUME IInv, NEW w \in Worker, InsertUser(w)
  PROVE  Contract!Next
  <1>1. request[w] \in Request /\ Fine(request[w]) /\ request[w].pc = "insert"
    BY DEF IInv, TypeOK, InsertUser, At
  <1>2. /\ request[w].name # None /\ request[w].email # None
        /\ request[w].role = UserRole /\ roles[UserRole] # None
    BY <1>1 DEF Fine
  <1>3. PICK n \in Name, a \in Address : request[w].name = n /\ request[w].email = a
    BY <1>1, <1>2 DEF Request
  <1> DEFINE row == [name |-> n, role |-> UserRole, email |-> Lower[a]]
  <1>4. Lower[a] \in Address BY <1>3, AccountsAssumption
  <1>5. PICK u \in User : ~ Present(u) /\ users' = [users EXCEPT ![u] = row]
    BY <1>2, <1>3 DEF InsertUser, StoredEmail
  <1>6. Unique(n, Lower[a]) /\ UNCHANGED <<permissions, roles, seeded>>
    BY <1>3 DEF InsertUser, StoredEmail
  <1>7. row \in Row /\ row # None
    <2>1. row \in Row BY <1>2, <1>3, <1>4, UserRoleIsDefault DEF Row
    <2> QED BY <2>1, AccountsAssumption DEF Row
  <1>8. row.name = n /\ row.email = Lower[a] OBVIOUS
  <1> HIDE DEF row
  <1>9. \A v \in User : users'[v] = IF v = u THEN row ELSE users[v]
    BY <1>5 DEF IInv, TypeOK
  <1> DEFINE Logins == [v \in User |-> IF Present(v) THEN {users[v].name, users[v].email}
                                                    ELSE {}]
  <1>10. Logins' = [Logins EXCEPT ![u] = {n, Lower[a]}]
    BY <1>7, <1>8, <1>9 DEF Present
  <1>11. \A v \in User : n \notin Logins[v] /\ Lower[a] \notin Logins[v]
    <2>1. \A v \in User : Present(v) => users[v].name \in Name /\ users[v].email \in Address
      BY DEF IInv, TypeOK, Present, Row
    <2>2. \A v \in User : Present(v) =>
            n # users[v].email /\ Lower[a] # users[v].name
      BY <2>1, <1>3, <1>4, AccountsAssumption
    <2> QED BY <2>2, <1>6 DEF Unique
  <1>12. Logins[u] = {} BY <1>5
  <1>13. Contract!Register(u, n, a)
    BY <1>2, <1>6, <1>10, <1>11, <1>12 DEF Contract!Register, Contract!Taken
  <1> QED BY <1>13 DEF Contract!Next

(* Every step is a step of the contract, or leaves the tables alone.        *)
LEMMA ContractStep == IInv /\ [Next]_vars => [Contract!Next]_Contract!accountsVars
  <1> SUFFICES ASSUME IInv, [Next]_vars PROVE [Contract!Next]_Contract!accountsVars
    OBVIOUS
  <1>1. ASSUME NEW w \in Worker, CommitRoles(w)
        PROVE  Contract!Next \/ UNCHANGED Contract!accountsVars
    BY <1>1, CommitSeedsOnce DEF Contract!Next
  <1>2. ASSUME NEW w \in Worker, InsertUser(w) PROVE Contract!Next
    BY <1>2, InsertRegisters
  <1>3. CASE UNCHANGED <<permissions, roles, users, seeded>>
    BY <1>3 DEF Contract!accountsVars, Present
  <1>4. \/ \E w \in Worker : CommitRoles(w) \/ InsertUser(w)
        \/ UNCHANGED <<permissions, roles, users, seeded>>
    BY DEF Next, vars, StartUp, LookUpName, Seed, SelectPermission, FlushPermissions,
           FlushFails, SelectRole, CommitFails, Register, LookUpEmail, FindRole,
           InsertFails, Abort
  <1> QED BY <1>1, <1>2, <1>3, <1>4

(* Registrations and seedings that overlap, race and fail half-way change   *)
(* the tables as if each ran alone, and the seeding only once.              *)
THEOREM AccountsRefinement == Spec => AccountsContractHolds
  BY ContractInit, ContractStep, AccountsInvariant, PTL
     DEF Spec, AccountsContractHolds, Contract!Spec

=============================================================================
