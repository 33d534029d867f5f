# A verification project for the OrvenCore API

TLA+ models of the OrvenCore API (FastAPI, SQLAlchemy, PostgreSQL), model-checked
with TLC and proved about with TLAPS. Paths below are relative to the repository;
`services/sessions.py` means `app/services/sessions.py`, and so on.

## 1. The system

Every endpoint is a synchronous function that the server runs in a thread pool,
with a database session of its own (`database.py:18`). Threads share nothing but
the database. A handler reads rows, decides in Python and writes later, with no
`SELECT ... FOR UPDATE`, no version column and the database's default isolation
(READ COMMITTED). The hard behaviours of the system come from there: what a
request read may be stale when it writes.

| Component | State | Operations | Interacts with | Hard | Correct when |
|---|---|---|---|---|---|
| Sessions, refresh-token rotation (`services/sessions.py`, `routes/auth.py`) | `user_sessions` | login, refresh, logout, logout-all, list | `users.is_active`; access tokens | overlapping refreshes, logout racing refresh, expiry while waiting | a token is exchanged once; a logout is final; no effect on other accounts |
| Access tokens (`auth/jwt.py`, `dependencies/auth.py`) | none: signed, with `exp` | issue, decode | sessions; every authorised route | `exp` is inclusive, `expires_at` exclusive | rejected after expiry or deactivation |
| Discord links (`services/discord.py`, `routes/discord.py`, `auth/discord_link.py`) | `discord_accounts` | link or update, resolve, admin list and delete | users; API keys guard the resolver | check-then-insert, update of a deleted row, id reuse | one link per user and per identity; writes hit the owner's row |
| Service API keys (`services/api_keys.py`) | `api_keys` | create, authenticate, revoke, list | guards `/discord/users/{id}` | revocation racing use; offsets of expiry times | a revoked or expired key is never accepted; revocation holds |
| Accounts (`services/users.py`, `/auth/register`) | `users`, `user_roles` | register, authenticate, admin update | roles (seeded lazily) | check-then-insert, partial failure | user name and e-mail unique; every account has a role |
| Roles, permissions (`services/permissions.py`) | `roles`, `permissions`, `role_permissions` | seed, summarise | start-up, registration | concurrent seeding | seeding is idempotent |
| Service registry (`services/registry.py`, `routes/services.py`, `routes/admin.py`) | `services` | seed, create, patch, delete, list with access | permissions | slug races, re-seeding | slugs unique; access follows permissions |
| Browser client (`frontend/app.js`) | `localStorage`, page state | restore, refresh, link, logout | all of the above over HTTP | two tabs on one storage, lost answers | a late answer brings no old token back; a good token goes only with a reason |
| Start-up, configuration, health, schemas, migrations | settings | | | two replicas seeding | |

`PROJECT.json` lists every hazard with its line, and the properties that cover it.

## 2. Modelling conventions

* **Steps.** A step is one database call and the local code up to the next one.
  A `flush` and the `commit` after it are one step: the rows they update stay
  locked in between, and inserted rows are invisible to others. What this merges
  away is waiting for a lock; `RowLocks` takes the transactions of `Sessions`
  apart and shows that nothing is lost by it.
  `Accounts` keeps them apart: the seeding of roles reads between its flush and
  its commit, and others wait for what it inserted.
* **Reads** see what is committed. **Writes** go by primary key and set only the
  columns the handler changed. An object a handler holds is not re-read
  (`expire_on_commit=False`, `database.py:15`), except by `db.refresh`.
* **Failure.** `Abort` ends a request before its commit, as an exception, a
  killed process or a closed connection does. Nothing of it stays: `get_db`
  closes the session and the transaction rolls back.
* **Time** is a bounded counter, and may pass between any two steps. Every reading
  of `datetime.now(UTC)` that a decision or a stored date comes from is a reading
  of its own: `rotate_refresh_token` tests the expiry with one
  (`services/sessions.py:48`) and dates the successor with a later one (`:66`), and
  `authenticate_api_key` reads the clock after its SELECT. Where the second
  reading needs no step of its own, the commit takes any time between the step
  before and now (`now \in r.at .. clock`).
* **Identity.** A token, key or secret stands for its hash and its row: random
  secrets are taken never to repeat. The password is right or the request ends.
* **Database.** PostgreSQL, which production must use (`config.py:55`): ids of a
  sequence are not issued twice (`FreshId`) and `timestamptz` keeps the instant
  (`Stored`). SQLite, the default in development (`README.md:15`, `config.py:15`)
  and in the tests, does neither, and what rests on them does not hold there: of
  links and services what is said of a row by its id, such as `WrittenByOwner`,
  `DeleteHitsTarget` and `DeletedStaysDeleted`; of keys `UsedBeforeExpiry`. The
  mutant `FreeId` is what SQLite does with ids. An expiry time with no
  offset, which the server would read in the time zone of the connection, is
  left out.
* **Requests that change nothing** (an unknown token, a wrong password, a 404)
  are not steps, unless they end a request that had already begun.
* **History variables** (`lineage`, `ended`, `writer`, `asked`,
  `seeded`) record what happened for the properties to speak of; no guard reads them.
* Definitions marked `\* mutant` are plausible bugs; the module itself does not
  use them. Each property has one that it rules out.

## 3. Modules

| Module | What it is |
|---|---|
| `RotationContract` | what rotation promises to one request at a time: grant, exchange one for one, revoke within one account; no threads, no clock |
| `OverlapContract`, `OverlapContractProofs` | what it promises to requests that overlap: a token is exchanged once for each request that found it open |
| `Sessions` | the requests of `services/sessions.py` and `routes/auth.py`, statement by statement |
| `MCSessions` | its symmetry sets for TLC |
| `SessionsProofs` | theorems about `Sessions` |
| `RowLocks`, `MCRowLocks`, `RowLocksProofs` | the transactions of `Sessions` with row locks, uncommitted versions and separate UPDATEs; implements `Sessions` |
| `BrowserClient`, `MCBrowserClient`, `BrowserClientProofs` | `frontend/app.js` in several tabs, with the part of the session service a browser can observe |
| `LinkContract` | what linking promises: a one-to-one map whose links are added and taken, never moved |
| `DiscordLinks`, `MCDiscordLinks`, `DiscordLinksProofs` | `PUT /discord/me`, `DELETE /admin/discord/links/{id}` and `GET /discord/users/{id}` |
| `ApiKeys`, `MCApiKeys`, `ApiKeysProofs` | service keys: create, authenticate, revoke |
| `AccountsContract` | what registration and seeding promise: the defaults in one step, once; an account in one step, under logins nobody has |
| `Accounts`, `MCAccounts`, `AccountsProofs` | `POST /auth/register`, and the seeding of roles by it and by starting replicas |
| `RegistryContract` | what the registry promises: a catalogue with one service a slug, changed by one whole operation at a time |
| `ServiceRegistry`, `MCServiceRegistry`, `ServiceRegistryProofs` | the seeding of services, and `POST`, `PATCH`, `DELETE /admin/services` |

### Sessions

`sessions` is the table, `active` the column `users.is_active`, `accessUntil` the
`exp` of the latest access token a user was handed (older ones expire sooner, and
any accepted token does the same), `request[w]` the locals of the request that
thread `w` serves, with `at` the time by its latest look at the clock. A row's `state` is `absent`, `open` (`revoked_at IS NULL`) or
`revoked`; `used` says whether `last_used_at` is set.

| Action | Code |
|---|---|
| `Authenticate`, `CheckLogin`, `CreateSession` | `authenticate_user`, whose `db.refresh` reads `is_active`; the check of `login`; `create_session` |
| `SelectSession(_, _, op)`, `CheckSession(_, op, _)` | the two SELECTs of `get_active_session_by_refresh_token`, row and user, for a refresh or a logout |
| `RotateRefreshToken`, `RevokeRefreshToken` | the commits of the functions of those names; a successor is dated at any time between the check and the commit |
| `CreateAccessToken` | the access token made for the answer, after the commit and from a clock of its own |
| `AuthorizeLogoutAll`, `SelectOpenSessions`, `RevokeAllSessions` | `get_current_user`; the SELECT and the commit of `revoke_all_sessions` |
| `UpdateUser` | `PATCH /admin/users/{id}` with a new `is_active` (an unchanged one writes nothing) |
| `Abort`, `Tick` | failure, time |

The decoding of the access token and the SELECT of the user in `get_current_user`
are one step; no property relates what happens in between. A logout of a token
that is no longer good is answered 200 and does nothing, so
`ended` only records the logouts that took effect. `LockedOut(u)` of
`DeactivationHolds` is an account that is inactive and for which no request is
under way that saw it active; nothing then touches its rows or hands out an
access token for it. `Lapsed(s)` of `ExpiryHolds` is a token past its expiry that no request
found in time and still holds; a request that did may exchange it after it
expired, and give the successor a full life from then. `Finished(f)` of `LogoutHolds` is a login none of whose
tokens is open, or in the hands of a refresh that had found it open.

The two contracts see a table row as owner, state and successor (`Contract`,
`Overlap` in `Sessions`). In `OverlapContract` a request claims a token it finds
open and exchanges it later without looking again, which is what the code does
between its SELECT and its commit; `family` is the login a token descends from.

### RowLocks

It extends `Sessions` by one variable: `draft[w]`, the row versions that the
transaction of request `w` has written and not committed. A row somebody has a
draft of is locked. READ COMMITTED makes an UPDATE that waited start from the
row as last committed, so a draft is made from `sessions`, not from what the
request read. SQLAlchemy sends the UPDATEs of a flush in the order of primary
keys, which are random; rows are therefore numbers in an arbitrary order
(`Session \subseteq 0 .. MaxKey`), and `Wanted` is the next one in it.

| Action | Code |
|---|---|
| `FlushRotation`, `LinkSuccessor`, `CommitRotation` | `db.flush()`, the UPDATE of `replaced_by_session_id`, `db.commit()` of `rotate_refresh_token` |
| `UpdateRow`, `CommitRevocations` | the UPDATEs, one by one, and the commit of `revoke_refresh_token` and `revoke_all_sessions` |
| `Rollback` | `db.close()` with anything uncommitted |
| `Read`, `InsertSession` | the actions of `Sessions` that need no lock, or take a new row only |

### BrowserClient

`store` is `localStorage`, `tab[b]` what tab `b`'s script is doing: the call it
waits for (operation, token sent, answer once there is one), or the access to the
storage it makes next (`status` "none"). Browsers give `localStorage` no lock
between tabs, so each `getItem`, `setItem` and `removeItem` is an action of its
own; `half` says that the access token is written and the refresh token is not
yet. An answer stays with its tab (`got`) until both are, and other tabs may act
at every point before that. `Fail` loses a call or its answer before or after the
server's commit. The server is `Sessions` cut down: `Check` is what a handler
reads before it writes (for a logout-all, the rows its SELECT returns), `Grant`
and `Revoke` are the commits, so two refreshes of one token may both succeed and
a logout-all may miss a successor; `Expire` stands for expiry, other browsers and
administrators.

| Action | Code in `app.js` |
|---|---|
| `Load`, `HasRefresh`, `SendRefresh` | `restoreSession` reads the access token, the refresh token, and the refresh token again to send it |
| `HaveServices`, `Ask`, `NoServices` | `refreshState` after `/services`, the calls with the access token as stored by then, and when `/services` fails outside the `try` |
| `HaveAccount`, `NoAccount` | after the four calls with the access token, and the `catch` they share with `autoLinkDiscord` |
| `Linked`, `HaveLinkedAccount` | `autoLinkDiscord` after its PUT and after reading the account again |
| `Login`, `Logout`, `LogoutAll`, `Unchanged` | the form and the buttons, and when they come to nothing |
| `KeepTokens` | the two `setItem` after a refresh (`Restored`) and after a login (`LoggedIn`) |
| `DropTokens` | the two `removeItem` after a failed refresh (`NotRestored`), a logout (`LoggedOut`) and a logout-all (`LoggedOutAll`) |
| `Close` | the tab is closed or reloaded, while a call is under way or between two writes |

What the storage may then hold (one token without the other, or tokens of two
sessions) is what the script allows; no property says otherwise.

A `Tab` is a running script: a user who clicks twice while the page waits starts
a second one on the same page, which is a second `Tab` here. The registration
call before a login, the account a page shows and which view offers which button
are left out; none of them touches the stored tokens.

### DiscordLinks

`links` is the table, `issued` the ids its sequence handed out, `request[w]` the
request's locals: `account` is `user.discord_account` as `get_current_user`
loaded it and `loaded` its profile then (the ORM sends no UPDATE for values that
did not change). `profile` is the pair of `username` and `avatar_url`, and each
identity has one profile, named by the identity. The INSERT and the UPDATE either
succeed or, on a unique constraint or a missing row, fail with nothing written.
The signed link token only says which identity is meant, and is not distinguished.
`FindUser` and `LoadAccount` are the two SELECTs of `get_user_by_discord_id`, a join
and the `selectinload` of the user's link; a deletion and a new link may come between.
`LinkContract` sees the table as the set of pairs of a user and an identity.

### ApiKeys

`keys` is the table. An expiry arrives as a wall-clock time at an offset and is
stored as an instant, which no request changes afterwards. `SelectApiKey` is the
SELECT of `authenticate_api_key`, with the conditions on the row it returns;
`CheckApiKey` the reading of the clock after it, and the test of the expiry;
`TouchApiKey` the commit of `last_used_at`. A revocation may commit between any
two of them. `LoadApiKey` and `RevokeApiKey` are the SELECT and the commit of a
revocation. `asked` remembers the expiry asked for. `ShutOut(k)` of
`RevokedIsShutOut` is a key that is revoked and that no request that read it
before is still using: what a revocation promises is that it stays so. That a use
is dated before the revocation is not so, and not stated.

### Accounts

`permissions` and `users` are tables; `roles[k]` is the row of the k-th default
role with its rows of `role_permissions`. Defaults are numbered in the order of
the code's loops. A worker is a registration or a replica whose `lifespan` seeds
(`AUTO_CREATE_TABLES`); both run `ensure_default_roles`, which is six actions: a
turn of each loop, the flush, the commit, and the failures of those two on a
unique index or primary key. The tables start in any state that an earlier
release or an operator may have left. `Blocked` is the wait for rows another
transaction has inserted and not yet committed. `Lower` is `str.lower`; usernames
and addresses are disjoint, because the schema allows no `@` in a username. The
row of `users` and that of `user_roles` are one commit. `AccountsContract` sees
the same tables without requests, and an account as the set of its logins, so a
read made in one transaction and written in another leaves no trace in it.

### ServiceRegistry

`services` is the table, with two columns: `slug` stands for those a patch sets
with `setattr`, `required` for `required_permissions`, whose null means "leave
it". `Written` is what the ORM's UPDATE does: it sets the columns whose value
differs from the one loaded, and leaves the others as they are in the database by
then. Seeding reads slug by slug and inserts in one transaction (autoflush is
off). The permission check before each request reads other tables and is left out.
`RegistryContract` sees the rows as a set, with no ids: a patch of a row that
changed since it was read must still be one edit of a service as it is now.

## 4. Runs

| Run | Instance | Shows |
|---|---|---|
| `sessions_concurrent` | 1 user, 3 rows, 2 requests, 3 instants | `ForkBounded`, `SuccessorLink`, `ExpiryHolds`, `RevocationIsFinal`, `DeactivationHolds`, `LogoutHolds` under every interleaving, and that `Sessions` implements `OverlapContract` |
| `sessions_serial` | 2 users, 4 rows, 1 request at a time | `SingleUse`, `LogoutIsFinal`, and that `Sessions` implements `RotationContract`, in which a revocation stays within one account |
| `double_rotation` | 1 user, 3 rows, 2 requests | **violated** `SingleUse`: both requests select the row before either commits |
| `logout_all_race` | the same | **violated** `LogoutAllIsFinal`: logout-all selects, revokes and answers before the successor it missed commits |
| `discord_links` | 2 users, 2 identities, 4 ids, 3 requests | links stay one to one, writes and deletions hit their rows, deleted links stay deleted, look-ups resolve what they were asked; implements `LinkContract` |
| `discord_relink` | 1 user, 2 identities, 1 request | **violated** `LinkedAsAsked`: a linked user keeps the old identity |
| `api_keys` | 1 key, 3 requests, 4 instants, offsets -1, 0, 1 | `RevokedIsShutOut` (a revoked key is of no use once the requests that had read it end), no use at or after expiry, revocation is final |
| `accounts` | 3 workers, 2 usernames, 2 mailboxes (one spelled in two ways), 2 permissions, 2 roles | `LoginFindsOne`, `LosesToSeeded` and that `Accounts` implements `AccountsContract`, from all 47 states of the tables |
| `accounts_progress` | 2 workers, 1 username, 1 mailbox | `RequestsEnd`: seedings that wait for one another all end |
| `service_registry` | 2 workers, 3 rows, 3 slugs, 2 of them defaults | slugs unique, patches of different columns both survive, deletions final; implements `RegistryContract` |
| `row_locks` | 1 user, 3 rows in a fixed order, 2 requests | `CommitsAreAtomic` (implements `Sessions`), `NoCircularWait`, `LogoutsEnd` |
| `browser_tabs` | 2 users, 3 rows, 2 tabs | `AnswersAreFresh` (an answer brings only tokens the browser never held), and the few ways in which `KeepsGoodRefreshToken` and `KeepsGoodAccessToken` let a good token go |

**Why the bounds are enough to be interesting.** Three rows hold a login, and
either a fork (two successors of one row) or a chain of two rotations; the serial
run's fourth row lets a second account interfere with such a chain. With
`RefreshLife` 2 and instants 0..2 a row expires, exactly at the last instant,
within a behaviour, and an access token (`AccessLife` 1) expires before a row
does. Two requests are enough for every pairwise race of two of these
operations. In `discord_links` the third request is the administrator's, between
two users' requests; four ids let a deleted link be made again twice. In
`api_keys` keys do not interact, so one is enough; three requests are a use, a
revocation and another of either. `MaxTime`, `Session`, `Link` and `Key` bound
only the model: when rows or ids run out, no more are made, and no action of the
code depends on that. In `accounts` two
permissions and two roles are enough for a seeding to be overtaken inside either
loop, and the third worker waits while two others race; two ids of accounts are
as many as the unique indexes admit. In `service_registry` a patch, a seeding or
a creation races any other, with a row to delete and make again. In `row_locks`
three open rows of one account let two logout-alls want several of the same rows,
and a rotation or a logout want one of them; a circle of waits needs two requests
and two rows. Its clock stands still (expiry is checked before any lock is taken),
and behaviours are followed until the account is deactivated (`AccountsActive`),
which only turns requests away before they write. The proofs have no such bound.
In `browser_tabs` two tabs with three rows make every race on the storage: a
refresh of one token by both, a logout of one under the other's calls, a login to
a second account, each write of one between any two of the other. The two
`KeepsGood` properties are modest: they excuse a failed call and a token that
another tab replaced, because there the script does drop good tokens. What they
leave is that `/services`, a refused access token and the calls of a page at rest
cost nothing that is still good.

`sessions_concurrent` tells states apart by everything but `ended`
(`VIEW WithoutEnded`): no action reads that history, and none of the properties of
this run does but for its type, so states that differ in nothing else have the
same future. Symmetry is used
for sets told apart by equality only, and only in runs without liveness.

`api_keys` turns the deadlock check off, because the clock stops at `MaxTime` and
a revoked key has nothing left to do. The other runs keep it, and it shows less
than it seems to: an account can always be toggled and an identity looked up.

**Fairness.** `accounts_progress` and `row_locks` assume some. `FairSpec` is weakly fair to
the steps of each worker, since the thread pool runs every thread that can go on
and the database answers. It is strongly fair to `FlushPermissions`: PostgreSQL
wakes those who wait for a transaction when it ends, but others may be quicker,
and without the assumption TLC finds a request that waits for ever while others
keep seeding and failing before their commit. Nothing is assumed of arrivals or
of failures. The run has no symmetry. `FairLockSpec` is weakly fair to the
statements of a transaction that need no lock, as a thread goes on to its next
statement, and strongly fair to `UpdateRow`: PostgreSQL queues the transactions
that wait for a row, so one is not passed over for ever. A transaction that holds
a row commits by that same fairness or rolls back. Nothing is assumed of rotations
that have not flushed. `BrowserClient` states no fairness: between two calls
its script is straight-line code, and a call may stay unanswered for ever.

## 5. What the violations mean

* **Two refreshes of one token** (`services/sessions.py:62`). `rotate_refresh_token`
  tests `revoked_at` on a row read without a lock, and its UPDATE tests nothing.
  `tests/test_auth_flow.py:94-98` asserts that an exchanged token is refused,
  which holds when requests do not overlap (`sessions_serial`, `SerialSingleUse`).
  When they do, both get a pair. The damage is bounded: only requests that
  overlap can share a token (`ForkBounded`), and the row's successor link names
  one of the successors and stays consistent (`SuccessorLink`). `OverlapContract`
  is the whole of it: it is proved to be what the code does, and to be the
  promise of single use as soon as requests do not overlap (`OneAtATime`).
* **Logout-all and a refresh in flight** (`services/sessions.py:96`). The SELECT
  does not see an uncommitted successor. `routes/auth.py:86` says "Revoke all
  current user sessions" and the page "Logout all devices" (`frontend/app.js:274`).
  What is left is `LogoutHolds`: once the refreshes that were in flight have ended
  and no token of a login is open, none of that login is ever open again.
* **Linking another identity** (`services/discord.py:20-25`). `routes/discord.py:18`
  says "Link or update the current user's Discord account". The update of an
  existing link sets user name and avatar, never `discord_user_id`, and answers 200.
  Only this case does: the theorem `FirstLinksAreAsAsked` says that whoever had no
  link when the request began is linked to the identity that was asked for.

## 6. What is proved

The assumptions are those of the modules: lifetimes are positive, `None` is not a
user, row, worker, id, key, time or row of a table, offsets are integers, and
`str.lower` is idempotent and keeps a user name one and an address one. Sets of
users, rows, workers and names are arbitrary, finite or not; there may be any
number of default permissions, roles and services.

The theorems about sessions form a chain: `RowLocks` implements `Sessions`,
`Sessions` implements `OverlapContract`, and with one request at a time
`OverlapContract` implements `RotationContract`. A property proved at one level
therefore holds below it.

* **`OverlapContractProofs`.** The contract without a clock or a database:
  what is claimed exists, what was never granted is blank, an exchanged token is
  closed and its successor has its owner and login (`ContractInv`). From it,
  `LoginsStayOver`: a step opens a token only by a grant, which begins a login, or
  by an exchange of a claimed token, and a claim is only made on an open token; so
  a login with neither has none ever after. `OneAtATime` assumes one request
  (`OneRequest`): a claim is then still open when it is used.
* **`SessionsProofs`.** Four invariants, each inductive together with the one
  before it. `TypeInv`: `TypeOK`, the rows a request holds exist and keep their
  user (`Holds`), and every row has a root. `ForkInv` adds that a row with
  children is revoked and that a worker busy with a token has not exchanged it
  (`FirstExchange`), which is what makes `ForkBounded` inductive: a worker drops
  the token in the step that adds a child, and the next SELECT finds it revoked.
  `LinkInv` adds `SuccessorLink` and `Dated`: no row expires later than a full life
  from now, nor a row in the hands of a rotation later than a full life from its
  first reading of the clock. Whatever the second reading gives, the successor
  therefore expires no earlier than its parent. `ExpiryIsFinal` needs
  `ForkInv` only: a lapsed token fails every later check. `RevocationIsFinal`,
  `OneAccountPerCommit` and `DeactivationHolds` are step properties of `TypeInv`: a request acts for the account of the row it holds, and
  that row exists, so commits of others touch no row of a locked-out account and
  hand out no access token for it.
  `OverlapRefinement` maps every step to a step of `OverlapContract` or a stutter:
  the SELECT of a refresh is the claim, its commit the exchange, an `Abort` or a
  failed check drops the claim. `LogoutHolds` is then not proved again from the
  code: it is `LoginsStayOver` of the contract, read through the mapping
  (`LogoutIsHeld`).
  The serial theorems assume `Serial`, that is `\A v, w \in Worker : v = w`;
  `SerialInv` adds that the row in the only request's hands is still open
  (`StillOpen`) and that a login has one open row at most, so the writes of the
  code are the writes of the contract. `SerialRefinement` maps every step to a
  step of `RotationContract` or a stutter.
* **`RowLocksProofs`.** `LockInv` says that no two transactions have a draft of one
  row, and that each draft is what the one-step action of `Sessions` would write
  from the row as it is now, dated at some time since the check. Nobody else can commit to a locked row, so this stays
  true until the commit, which is then that action: `LockRefinement`.
  `DetailKeepsPromises` draws the conclusion: `ForkBounded`, `SuccessorLink`,
  `ExpiryHolds`, `RevocationIsFinal`, `DeactivationHolds`, `LogoutHolds` and `OverlapContract` hold of transactions that wait, write row by row and roll
  back half-way. `DeadlockFree`:
  a revocation holds only rows with smaller keys than it still wants, and a
  rotation that holds rows wants none. If each of some requests waited for
  another, take the largest key waited for: whoever holds that row wants only
  larger ones, or none, which nobody can.
* **`DiscordLinksProofs`.** The inductive invariant is `HoldsOwnLink`: a row id
  held by a request was issued, and if the row still exists it belongs to that
  request's user. It is inductive because ids are never issued twice. With
  `HoldsFoundLink` (the row a look-up found still names the identity, for no UPDATE
  changes it) the six properties of the table and of look-ups follow. `AskInv` adds
  what a request knows of the identity it asks for, and with it
  `FirstLinksAreAsAsked`. `LinkRefinement`: the unique constraints make an INSERT a
  `Join`, `HoldsOwnLink` makes an UPDATE a stutter, and a DELETE takes one pair or
  nothing.
* **`BrowserClientProofs`.** `Fine` says what a waiting script may rely on: tokens
  sent and answered are of rows that were made, a token refused to an exchange is
  revoked, and an access token refused is no longer valid. With
  `AnswersAreFresh` it is inductive, although a tab's two writes are separate: what
  a tab stores is its own answer, until both are written nobody else presents the
  refresh token, and whoever reads the access token in between never presents it
  as one. The two step properties about good tokens follow from `Fine`.
* **`ApiKeysProofs`.** The invariant is `FlagsAgree` and `PendingUse`: the time a
  request is about to write as `last_used_at` is before the expiry asked for,
  because the clock was read, and tested, after the SELECT and the expiry is
  never changed (`ColumnsKept`). A use and a revocation may commit in either order,
  and both keep it. `RevokedKeysStayOut`: a revoked key passes no SELECT, so when
  nobody who read it before is left, nobody comes to use it or to write its use.
* **`AccountsProofs`.** `IInv` says of every request (`Fine`) that, until a seeding
  commits, the tables are still as it read them; so the first commit writes the
  defaults. After it they are the defaults, and whoever read anything else
  conflicts with them (`AssignedIsDefault`): `SeededIsWhole` and `LosesToSeeded`
  follow. `Fine` also says that a registration about to insert has seen its role,
  which nothing removes: `AccountHasRole`. With `Apart` (user names, and stored
  addresses, are unique) and `Lowered` (stored addresses are in lower case) a
  login finds one account (`LoginFindsOne`). `AccountsRefinement`: by `Fine` a
  commit that succeeds before any other writes exactly the defaults
  (`CommitWritesDefaults`), one that succeeds later writes nothing, and an INSERT is a
  `Register` because the indexes refuse a taken login; every other step stutters.
* **`ServiceRegistryProofs`.** `IInv` says that ids requests hold, and those of
  rows there are, were issued, so that no row made later has them; that a request
  about to write has looked up what it writes to; and that slugs are unique. With
  it, `WrittenFromPatch` (an UPDATE leaves a column as it is now, or sets it as the
  patch asked) gives the step properties. `RegistryRefinement`: rows with unique
  slugs form a set without losing any, so an INSERT of free slugs is a `Create` or
  a `Seed` of what was missing, and an UPDATE, whatever was read before, an `Edit` of
  the row as it is now.

Some theorems state what no run checks, because another property of the run
says more or the run would grow too long: `FlagsAgree` (the two flags of a key),
`OneAccountPerCommit`, `AccountHasRole` and `SeededIsWhole`, `FirstLinkAsAsked`. Each was
checked by TLC on the instance of its module's run before it was proved.

Only model-checked: the violations, which are TLC's counterexamples, and the two
liveness properties, `RequestsEnd` and `LogoutsEnd`. Fairness, liveness and
`ENABLED` are beyond the prover and stay with TLC. No recursive definition is
used, so nothing waits for an induction over data.

## 7. Plan

Written so far: the modules above, in the order `Sessions` with its first
contract, `DiscordLinks`, `ApiKeys`, `Accounts`, `ServiceRegistry`, `RowLocks`,
`BrowserClient`, then the other contracts. What would come next:

1. A contract for `ApiKeys` (a key is open, then closed, and accepted only while
   open), and for the server that `BrowserClient` observes: that it does nothing
   `OverlapContract` does not allow, so that the browser's view of the server
   rests on the model of the code.
2. `PATCH /admin/users/{id}` in `Accounts`, with `is_superuser` and the permission
   check of the administrator's request: two administrators who demote each other.
3. The account a page shows, in `BrowserClient`, to state that an automatic link
   goes to the account that was on the screen.

## 8. Not modelled, and why

* Signing and hashing (`auth/jwt.py`, `auth/passwords.py`, `utils/security.py`):
  pure, and taken to be injective and unforgeable.
* Read-only endpoints (`/auth/me`, session, key and service lists, `/health`):
  one SELECT and no decision. `/services/me` decides access in one function from
  one user and one row: `has_access` and `missing_permissions` differ exactly for
  superusers, whatever runs at the same time.
* User agent, address, key name and prefix, creation times: written, never read
  by a decision. `last_login_at` and `last_used_at` of keys are informational.
* Field validation (`schemas/`), CORS, static files, migrations, Docker files.
* Deleting users: no endpoint does it, so the `ON DELETE CASCADE`s never run.
* Liveness of pages ("a page that restores settles"): a script is straight-line
  between its calls, so it settles if every call is answered, which nothing
  guarantees.
* In the browser, the account shown and the views; on the server, the columns of
  `PATCH /admin/users/{id}` other than `is_active`.
* Hazards that no property covers are in `PROJECT.json` with the reason.

## 9. Running

    tlc -config sessions_concurrent.cfg MCSessions    # some three minutes
    tlc -config sessions_serial.cfg     MCSessions
    tlc -config double_rotation.cfg     MCSessions    # a counterexample
    tlc -config logout_all_race.cfg     MCSessions    # a counterexample
    tlc -config discord_links.cfg       MCDiscordLinks
    tlc -config discord_relink.cfg      MCDiscordLinks  # a counterexample
    tlc -config api_keys.cfg            MCApiKeys
    tlc -config accounts.cfg            MCAccounts     # about a minute
    tlc -config accounts_progress.cfg   MCAccounts
    tlc -config service_registry.cfg    MCServiceRegistry
    tlc -config row_locks.cfg           MCRowLocks     # some three minutes
    tlc -config browser_tabs.cfg        MCBrowserClient   # some two minutes
    tlapm OverlapContractProofs.tla; tlapm RowLocksProofs.tla; tlapm BrowserClientProofs.tla
    tlapm SessionsProofs.tla; tlapm DiscordLinksProofs.tla; tlapm ApiKeysProofs.tla
    tlapm AccountsProofs.tla; tlapm ServiceRegistryProofs.tla
