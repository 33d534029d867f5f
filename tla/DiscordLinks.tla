---------------------------- MODULE DiscordLinks ----------------------------
(***************************************************************************)
(* Linking an account to a Discord identity, an administrator deleting     *)
(* links, and services resolving identities to accounts, as concurrent     *)
(* requests against the discord_accounts table.                            *)
(*                                                                         *)
(* Requests read in one statement and write in a later one.  The table's   *)
(* unique constraints are the last check: an INSERT that breaks one, or an *)
(* UPDATE that finds its row gone, fails the request with nothing written. *)
(***************************************************************************)
EXTENDS Naturals

CONSTANTS
  User,     \* accounts
  Discord,  \* Discord identities; each has one current profile, named alike
  Link,     \* ids of discord_accounts rows, in no particular order
  Worker,   \* requests in progress at the same time
  None      \* "no value"

ASSUME DiscordLinksAssumption == None \notin User \cup Discord \cup Link \cup Worker

VARIABLES
  links,    \* the table discord_accounts
  issued,   \* ids its sequence has handed out
  request,  \* what each worker is doing
  writer    \* history: whose request last wrote each row

vars == <<links, issued, request, writer>>

-----------------------------------------------------------------------------
(* profile is the pair username and avatar_url, named by whose it is.       *)
Row == [user : User \cup {None},
        discord : Discord \cup {None},
        profile : Discord \cup {None}]

NoRow == [user |-> None, discord |-> None, profile |-> None]

Present(l) == links[l].user # None

(* user.discord_account, loaded along with the user.                        *)
LinksOf(u) == {l \in Link : Present(l) /\ links[l].user = u}

LinksTo(d) == {l \in Link : Present(l) /\ links[l].discord = d}

(* unique=True on user_id and on discord_user_id.                           *)
NothingUnique(u, d) == TRUE  \* mutant

Unique(u, d) == LinksOf(u) = {} /\ LinksTo(d) = {}

(* The id column is a sequence: ids of deleted rows are not given again.    *)
FreeId(l) == ~ Present(l)  \* mutant: what SQLite does with its last rowid

FreshId(l) == l \notin issued

Phase == {"idle", "check", "write", "reread", "delete", "resolve", "answer"}

Request == [pc : Phase,
            user : User \cup {None},       \* whose link it read or writes
            discord : Discord \cup {None}, \* the identity it was asked about
            account : Link \cup {None},    \* the row object it holds, if any; of
                                          \* "resolve", the row the join matched
            loaded : Discord \cup {None}]  \* the profile that row had when read

Swapped(pc, u, d, l) ==  \* mutant
  [pc |-> pc, user |-> u, discord |-> l, account |-> d, loaded |-> None]

Doing(pc, u, d, l) ==
  [pc |-> pc, user |-> u, discord |-> d, account |-> l,
   loaded |-> IF l = None THEN None ELSE links[l].profile]

Idle == [pc |-> "idle", user |-> None, discord |-> None, account |-> None,
         loaded |-> None]

Become(w, r) == request' = [request EXCEPT ![w] = r]

At(w, pc) == request[w].pc = pc

Init ==
  /\ links = [l \in Link |-> NoRow]
  /\ issued = {}
  /\ request = [w \in Worker |-> Idle]
  /\ writer = [l \in Link |-> None]

-----------------------------------------------------------------------------
(* PUT /discord/me.                                                         *)

(* get_current_user loads the user and the link it has now; the payload, or *)
(* the signed token in it, names d.                                         *)
LoadUser(w, u, d) ==
  /\ At(w, "idle")
  /\ \/ /\ LinksOf(u) = {}
        /\ Become(w, Doing("check", u, d, None))
     \/ \E l \in LinksOf(u) : Become(w, Doing("check", u, d, l))
  /\ UNCHANGED <<links, issued, writer>>

(* upsert_discord_account looks d up; another user's link ends in a 409.    *)
CheckDiscord(w) ==
  LET r == request[w] IN
  /\ At(w, "check")
  /\ IF \A l \in LinksTo(r.discord) : links[l].user = r.user
       THEN Become(w, [r EXCEPT !.pc = "write"])
       ELSE Become(w, Idle)
  /\ UNCHANGED <<links, issued, writer>>

(* The user had no link when loaded: INSERT and commit.                     *)
InsertLink(w) ==
  LET r == request[w] IN
  /\ At(w, "write")
  /\ r.account = None
  /\ Unique(r.user, r.discord)
  /\ \E l \in Link :
       /\ FreshId(l)
       /\ links' = [links EXCEPT ![l] = [user |-> r.user, discord |-> r.discord,
                                         profile |-> r.discord]]
       /\ issued' = issued \cup {l}
       /\ writer' = [writer EXCEPT ![l] = r.user]
       /\ Become(w, [r EXCEPT !.pc = "reread", !.account = l])

(* Somebody was quicker: IntegrityError, answered as a server error.        *)
InsertFails(w) ==
  /\ At(w, "write")
  /\ request[w].account = None
  /\ ~ Unique(request[w].user, request[w].discord)
  /\ Become(w, Idle)
  /\ UNCHANGED <<links, issued, writer>>

(* As with Session.merge: a row that is gone is inserted again.             *)
MergeLink(w) ==  \* mutant
  LET r == request[w] IN
  /\ At(w, "write")
  /\ r.account # None
  /\ links' = [links EXCEPT ![r.account] = [user |-> r.user, discord |-> r.discord,
                                            profile |-> r.discord]]
  /\ writer' = [writer EXCEPT ![r.account] = r.user]
  /\ Become(w, [r EXCEPT !.pc = "reread"])
  /\ UNCHANGED issued

(* As if a second link replaced the identity of the first.                  *)
RelinkInPlace(w) ==  \* mutant
  LET r == request[w] IN
  /\ At(w, "write")
  /\ r.account # None
  /\ Present(r.account)
  /\ LinksTo(r.discord) \subseteq {r.account}
  /\ links' = [links EXCEPT ![r.account].profile = r.discord,
                            ![r.account].discord = r.discord]
  /\ writer' = [writer EXCEPT ![r.account] = r.user]
  /\ Become(w, [r EXCEPT !.pc = "reread"])
  /\ UNCHANGED issued

(* The user had a link: the profile of that row is overwritten, unless it   *)
(* equals what was read, when no UPDATE is sent.  The row's discord_user_id *)
(* is left as it was, whatever identity was asked for.                      *)
UpdateLink(w) ==
  LET r == request[w] IN
  /\ At(w, "write")
  /\ r.account # None
  /\ Present(r.account)
  /\ links' = [links EXCEPT ![r.account].profile =
                              IF r.loaded = r.discord THEN @ ELSE r.discord]
  /\ writer' = [writer EXCEPT ![r.account] = r.user]
  /\ Become(w, [r EXCEPT !.pc = "reread"])
  /\ UNCHANGED issued

(* The row was deleted meanwhile: StaleDataError, or no row to refresh.     *)
UpdateFails(w) ==
  /\ At(w, "write")
  /\ request[w].account # None
  /\ ~ Present(request[w].account)
  /\ Become(w, Idle)
  /\ UNCHANGED <<links, issued, writer>>

(* db.refresh reads the row back, to answer with it or to fail if it is     *)
(* already deleted.                                                         *)
Reread(w) ==
  /\ At(w, "reread")
  /\ Become(w, Idle)
  /\ UNCHANGED <<links, issued, writer>>

-----------------------------------------------------------------------------
(* DELETE /admin/discord/links/{link_id}.                                   *)

LoadLink(w, l) ==
  /\ At(w, "idle")
  /\ Present(l)
  /\ Become(w, Doing("delete", links[l].user, None, l))
  /\ UNCHANGED <<links, issued, writer>>

(* A DELETE that matches no row is only a warning.                          *)
DeleteLink(w) ==
  LET l == request[w].account IN
  /\ At(w, "delete")
  /\ links' = [links EXCEPT ![l] = NoRow]
  /\ writer' = [writer EXCEPT ![l] = None]
  /\ Become(w, Idle)
  /\ UNCHANGED issued

-----------------------------------------------------------------------------
(* GET /discord/users/{discord_user_id}, by a service.                      *)

(* The join finds the user linked to the identity; if none is, 404.         *)
FindUser(w, l) ==
  /\ At(w, "idle")
  /\ Present(l)
  /\ Become(w, [Idle EXCEPT !.pc = "resolve", !.user = links[l].user,
                            !.discord = links[l].discord, !.account = l])
  /\ UNCHANGED <<links, issued, writer>>

(* selectinload reads the user's link in a statement of its own: the answer *)
(* holds what is there now, or is a 404.                                    *)
LoadAccount(w) ==
  LET r == request[w] IN
  /\ At(w, "resolve")
  /\ \/ /\ LinksOf(r.user) = {}
        /\ Become(w, Idle)
     \/ \E l \in LinksOf(r.user) :
          Become(w, [r EXCEPT !.pc = "answer", !.account = l])
  /\ UNCHANGED <<links, issued, writer>>

AnswerLookup(w) ==
  /\ At(w, "answer")
  /\ Become(w, Idle)
  /\ UNCHANGED <<links, issued, writer>>

-----------------------------------------------------------------------------
(* A statement fails or the process stops before the commit.                *)
Abort(w) ==
  /\ ~ At(w, "idle")
  /\ Become(w, Idle)
  /\ UNCHANGED <<links, issued, writer>>

LinkMyDiscord(w) ==
  \/ \E u \in User, d \in Discord : LoadUser(w, u, d)
  \/ CheckDiscord(w)
  \/ InsertLink(w) \/ InsertFails(w)
  \/ UpdateLink(w) \/ UpdateFails(w)
  \/ Reread(w)

DeleteDiscordLink(w) ==
  \/ \E l \in Link : LoadLink(w, l)
  \/ DeleteLink(w)

ResolveDiscordUser(w) ==
  \/ \E l \in Link : FindUser(w, l)
  \/ LoadAccount(w)
  \/ AnswerLookup(w)

Next ==
  \E w \in Worker :
    LinkMyDiscord(w) \/ DeleteDiscordLink(w) \/ ResolveDiscordUser(w) \/ Abort(w)

Spec == Init /\ [][Next]_vars

-----------------------------------------------------------------------------
(* Every variable holds what its column or local can hold.                  *)
TypeOK ==
  /\ links \in [Link -> Row]
  /\ issued \subseteq Link
  /\ request \in [Worker -> Request]
  /\ writer \in [Link -> User \cup {None}]

(* Between the two checks and the INSERT others may link: still no user has *)
(* two links and no Discord identity two users.                             *)
OneLinkEach ==
  \A l, m \in Link :
    /\ Present(l) /\ Present(m)
    /\ links[l].user = links[m].user \/ links[l].discord = links[m].discord
    => l = m

(* However long ago a request loaded the link it updates, the row it writes *)
(* is the link of the user who asked.                                       *)
WrittenByOwner ==
  \A l \in Link : Present(l) => writer[l] = links[l].user

(* When an administrator's DELETE runs, its id still belongs to the user    *)
(* whose link was looked up, or to nobody.                                  *)
DeleteHitsTarget ==
  \A w \in Worker : At(w, "delete") /\ Present(request[w].account) =>
    links[request[w].account].user = request[w].user

(* A deleted link is not brought back by a request that loaded it before.   *)
DeletedStaysDeleted ==
  [][\A l \in Link : l \in issued /\ ~ Present(l) => links'[l] = NoRow]_vars

(* Links come and go between the two SELECTs of a look-up.  The link it     *)
(* answers with is of the user the first one found, and names the identity  *)
(* asked for unless the link first found was deleted in between.            *)
ResolvedAsAsked ==
  [][\A w \in Worker : At(w, "resolve") /\ request'[w].pc = "answer" =>
       LET found == request[w].account
           answered == links[request'[w].account]
       IN  /\ answered.user = request[w].user
           /\ answered.discord = request[w].discord \/ ~ Present(found)]_vars

(* Whatever rows come and go under which ids, and however stale the objects *)
(* are that requests write back, the table is a one-to-one map of users and *)
(* identities to which whole links are added and from which whole links are *)
(* taken: no step moves a link to another user or identity.                 *)
Map == INSTANCE LinkContract WITH
  linked <- {<<links[l].user, links[l].discord>> : l \in {l \in Link : Present(l)}}

LinkContractHolds == Map!Spec

(* When PUT /discord/me answers with the row it reads back, that row links  *)
(* the identity it was asked to link.                                       *)
LinkedAsAsked ==
  \A w \in Worker : At(w, "reread") /\ Present(request[w].account) =>
    links[request[w].account].discord = request[w].discord

=============================================================================
