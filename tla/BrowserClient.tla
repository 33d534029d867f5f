--------------------------- MODULE BrowserClient ---------------------------
(***************************************************************************)
(* The script of the web page (frontend/app.js), running in several tabs   *)
(* of one browser.  They share localStorage, which keeps one access token  *)
(* and one refresh token and has no lock: each getItem, setItem and        *)
(* removeItem is a step, and the scripts of other tabs may get in between. *)
(*                                                                         *)
(* The two tokens of one answer are named by the row of user_sessions the  *)
(* refresh token belongs to.  The server is Sessions cut down to what a    *)
(* browser can tell apart: a call is checked, then committed, so that      *)
(* calls overlap there as they do in Sessions, and tokens end at any time. *)
(***************************************************************************)
EXTENDS FiniteSets

CONSTANTS
  User,     \* accounts
  Session,  \* rows of user_sessions, bounding how many are ever made
  Tab,      \* running scripts: one per tab, or more where a user clicks on
            \* while the page still waits
  None      \* "no value"

ASSUME BrowserAssumption == None \notin User \cup Session

VARIABLES
  store,  \* localStorage: tokenKey and refreshKey
  tab,    \* what each tab's script waits for
  row,    \* the server's rows
  owner,  \* the user of each row
  valid   \* rows whose access token is still accepted

vars == <<store, tab, row, owner, valid>>

server == <<row, owner, valid>>

-----------------------------------------------------------------------------
(* A tab makes one call at a time: the four of refreshState, each with the  *)
(* token as it reads it, count as the one that decides.  A tab that is      *)
(* closed leaves its call to the server.                                    *)

Op == {"none", "restore", "present", "refresh", "load", "services",
       "ask", "me", "link", "again", "login", "logout", "logoutAll"}

TabState == [page   : {"closed", "idle", "busy"},
             op     : Op,                    \* what it is doing
             sent   : Session \cup {None},   \* the token it presents
             status : {"none", "sent", "checked", "ok", "refused", "failed"},
             rows   : SUBSET Session,        \* those the server found to revoke
             got    : Session \cup {None},   \* the tokens it is answered
             half   : BOOLEAN]               \* access token written, refresh not

Doing(op, status, token) ==
  [page |-> "busy", op |-> op, sent |-> token, status |-> status,
   rows |-> {}, got |-> None, half |-> FALSE]

Resting(page) == [Doing("none", "none", None) EXCEPT !.page = page]

Waiting(op, token) == Doing(op, "sent", token)

Become(b, state) == tab' = [tab EXCEPT ![b] = state]

Call(b, op, token) == Become(b, Waiting(op, token))

(* Its script is between two accesses to the storage, and calls nobody.     *)
Think(b, op) == Become(b, Doing(op, "none", None))

Settle(b) == Become(b, Resting("idle"))

Idle(b) == tab[b].page = "idle"

Busy(b, ops) == tab[b].page = "busy" /\ tab[b].op \in ops

Thinking(b, op) == Busy(b, {op}) /\ tab[b].status = "none"

Answered(b, ops) == Busy(b, ops) /\ tab[b].status = "ok"

Failed(b, ops) == Busy(b, ops) /\ tab[b].status \in {"refused", "failed"}

NoTokens == [access |-> None, refresh |-> None]

Init ==
  /\ store = NoTokens
  /\ tab = [b \in Tab |-> Resting("closed")]
  /\ row = [s \in Session |-> "absent"]
  /\ owner = [s \in Session |-> None]
  /\ valid = {}

-----------------------------------------------------------------------------
(* Loading the page.                                                        *)

(* restoreSession, on a page just opened or reloaded, reads tokenKey.       *)
Load(b) ==
  /\ tab[b].page # "busy"
  /\ tab[b].status = "none"
  /\ IF store.access = None THEN Think(b, "restore") ELSE Call(b, "load", None)
  /\ UNCHANGED <<store, server>>

(* It reads refreshKey.                                                     *)
HasRefresh(b) ==
  /\ Thinking(b, "restore")
  /\ IF store.refresh # None THEN Think(b, "present") ELSE Call(b, "load", None)
  /\ UNCHANGED <<store, server>>

(* And once more, to present it; by now it may be gone.                     *)
SendRefresh(b) ==
  /\ Thinking(b, "present")
  /\ Call(b, "refresh", store.refresh)
  /\ UNCHANGED <<store, server>>

(* Closed, or reloaded, while its script waits or is between two steps.     *)
Close(b) ==
  /\ tab[b].page = "busy"
  /\ IF tab[b].status \in {"sent", "checked"}
       THEN Become(b, [tab[b] EXCEPT !.page = "closed"])
       ELSE Become(b, Resting("closed"))
  /\ UNCHANGED <<store, server>>

(* refreshState: /services answered, then the stored token is looked at.    *)
HaveServices(b) ==
  /\ Answered(b, {"load", "services"})
  /\ IF store.access = None THEN Settle(b) ELSE Think(b, "ask")
  /\ UNCHANGED <<store, server>>

(* Each call for the account reads it again.                                *)
Ask(b) ==
  /\ Thinking(b, "ask")
  /\ Call(b, "me", store.access)
  /\ UNCHANGED <<store, server>>

NoServicesNoAccess(b) ==  \* mutant: /services inside the try block
  /\ Failed(b, {"load", "services"})
  /\ store' = [store EXCEPT !.access = None]
  /\ Settle(b)
  /\ UNCHANGED server

(* /services is outside the try: a page being loaded says so and is dead,   *)
(* a page in use goes on showing what it showed.                            *)
NoServices(b) ==
  /\ Failed(b, {"load", "services"})
  /\ IF tab[b].op = "load" THEN Become(b, Resting("closed"))
                           ELSE Settle(b)
  /\ UNCHANGED <<store, server>>

(* The account is known; autoLinkDiscord goes on only when the page was     *)
(* opened for a Discord identity and the account has none.  Its PUT reads   *)
(* the stored token anew.                                                   *)
HaveAccount(b) ==
  /\ Answered(b, {"me"})
  /\ Settle(b) \/ Call(b, "link", store.access)
  /\ UNCHANGED <<store, server>>

Linked(b) ==
  /\ Answered(b, {"link"})
  /\ Call(b, "again", store.access)
  /\ UNCHANGED <<store, server>>

HaveLinkedAccount(b) ==
  /\ Answered(b, {"again"})
  /\ Settle(b)
  /\ UNCHANGED <<store, server>>

NoAccountNoTokens(b) ==  \* mutant: signs out altogether
  /\ Failed(b, {"me", "link", "again"})
  /\ store' = NoTokens
  /\ Settle(b)
  /\ UNCHANGED server

(* One catch for the account's own calls and for the automatic link.        *)
NoAccount(b) ==
  /\ Failed(b, {"me", "link", "again"})
  /\ store' = [store EXCEPT !.access = None]
  /\ Settle(b)
  /\ UNCHANGED server

-----------------------------------------------------------------------------
(* The form and the buttons.  Which pages offer them is left out: any page  *)
(* at rest may.                                                             *)

Login(b) ==
  /\ Idle(b)
  /\ Call(b, "login", None)
  /\ UNCHANGED <<store, server>>

(* logout(): without a refresh token there is nobody to tell.               *)
Logout(b) ==
  /\ Idle(b)
  /\ IF store.refresh # None THEN Call(b, "logout", store.refresh)
                             ELSE Think(b, "logout")
  /\ UNCHANGED <<store, server>>

LogoutAll(b) ==
  /\ Idle(b)
  /\ Call(b, "logoutAll", store.access)
  /\ UNCHANGED <<store, server>>

(* A toast, or nothing at all.                                              *)
Unchanged(b) ==
  /\ Failed(b, {"login", "logoutAll"})
  /\ Settle(b)
  /\ UNCHANGED <<store, server>>

-----------------------------------------------------------------------------
(* What the tokens come to.  Access token first, refresh token second, each *)
(* is stored or removed by a call of its own.                               *)

Restored(b) == Answered(b, {"refresh"})

(* The catch takes a network error or a 500 for a refusal.                  *)
NotRestored(b) == Failed(b, {"refresh"})

LoggedIn(b) == Answered(b, {"login"})

(* Whatever came of the call, and if none was made.                         *)
LoggedOut(b) ==
  Thinking(b, "logout") \/ Answered(b, {"logout"}) \/ Failed(b, {"logout"})

LoggedOutAll(b) == Answered(b, {"logoutAll"})

Keeps(b) == Restored(b) \/ LoggedIn(b)

Drops(b) == NotRestored(b) \/ LoggedOut(b) \/ LoggedOutAll(b)

WriteAccess(b, token) ==
  /\ ~ tab[b].half
  /\ store' = [store EXCEPT !.access = token]
  /\ Become(b, [tab[b] EXCEPT !.half = TRUE])
  /\ UNCHANGED server

(* With the second write done the page loads what it shows.                 *)
WriteRefresh(b, token) ==
  /\ tab[b].half
  /\ store' = [store EXCEPT !.refresh = token]
  /\ Call(b, IF tab[b].op = "refresh" THEN "load" ELSE "services", None)
  /\ UNCHANGED server

KeepTokens(b) ==
  Keeps(b) /\ (WriteAccess(b, tab[b].got) \/ WriteRefresh(b, tab[b].got))

DropTokens(b) ==
  Drops(b) /\ (WriteAccess(b, None) \/ WriteRefresh(b, None))

-----------------------------------------------------------------------------
(* The server, and the network before and after it.                         *)

(* The answer to a page that was closed meanwhile goes nowhere.             *)
Answer(b, status, tokens) ==
  Become(b, IF tab[b].page = "closed"
              THEN Resting("closed")
              ELSE [tab[b] EXCEPT !.status = status, !.rows = {}, !.got = tokens])

GoOn(b, rows) == Become(b, [tab[b] EXCEPT !.status = "checked", !.rows = rows])

Open == {s \in Session : row[s] = "open"}

(* What the handler reads before it writes.  A logout of a token that is no *)
(* longer good is answered like any other; no token at all is refused.      *)
Check(b) ==
  LET op == tab[b].op
      s  == tab[b].sent
  IN
  /\ tab[b].status = "sent"
  /\ \/ op \in {"load", "services"} /\ Answer(b, "ok", None)
     \/ op = "login" /\ GoOn(b, {})
     \/ op = "refresh" /\ s \in Open /\ GoOn(b, {})
     \/ op = "refresh" /\ s \notin Open /\ Answer(b, "refused", None)
     \/ op = "logout" /\ s \in Open /\ GoOn(b, {s})
     \/ op = "logout" /\ s \notin Open /\ Answer(b, "ok", None)
     \/ /\ op = "logoutAll" /\ s \in valid
        /\ GoOn(b, {t \in Open : owner[t] = owner[s]})
     \/ op \in {"me", "link", "again"} /\ s \in valid /\ Answer(b, "ok", None)
     \/ /\ op \in {"me", "link", "again", "logoutAll"} /\ s \notin valid
        /\ Answer(b, "refused", None)
  /\ UNCHANGED <<store, server>>

GrantWithoutCommit(b) ==  \* mutant: answered, and rolled back by get_db
  LET s == tab[b].sent IN
  /\ tab[b].status = "checked" /\ tab[b].op \in {"login", "refresh"}
  /\ \E t \in Session : row[t] = "absent" /\ Answer(b, "ok", t)
  /\ UNCHANGED <<store, server>>

GrantOfferedAgain(b) ==  \* mutant: a repeated refresh gets the same answer
  LET s == tab[b].sent IN
  /\ tab[b].status = "checked" /\ tab[b].op \in {"login", "refresh"}
  /\ \E t \in Session, u \in User :
       /\ \/ row[t] = "absent"
          \/ tab[b].op = "refresh" /\ s \notin Open /\ row[t] = "open"
       /\ tab[b].op = "refresh" => u = owner[s]
       /\ row' = [x \in Session |-> IF x = t THEN "open"
                                    ELSE IF x = s THEN "revoked" ELSE row[x]]
       /\ owner' = [owner EXCEPT ![t] = u]
       /\ valid' = valid \cup {t}
       /\ Answer(b, "ok", t)
  /\ UNCHANGED store

(* A login or a rotation commits.  Rotations that overlapped both do.       *)
Grant(b) ==
  LET s == tab[b].sent IN
  /\ tab[b].status = "checked" /\ tab[b].op \in {"login", "refresh"}
  /\ \E t \in Session, u \in User :
       /\ row[t] = "absent"
       /\ tab[b].op = "refresh" => u = owner[s]
       /\ row' = [x \in Session |-> IF x = t THEN "open"
                                    ELSE IF x = s THEN "revoked" ELSE row[x]]
       /\ owner' = [owner EXCEPT ![t] = u]
       /\ valid' = valid \cup {t}
       /\ Answer(b, "ok", t)
  /\ UNCHANGED store

(* A logout, or a logout-all of the rows its SELECT returned.               *)
Revoke(b) ==
  /\ tab[b].status = "checked" /\ tab[b].op \in {"logout", "logoutAll"}
  /\ row' = [s \in Session |-> IF s \in tab[b].rows THEN "revoked" ELSE row[s]]
  /\ Answer(b, "ok", None)
  /\ UNCHANGED <<store, owner, valid>>

(* The call or its answer is lost, the handler fails, the account is just   *)
(* now deactivated, or what was sent along is refused: a wrong password, a  *)
(* Discord account that is another's, a link token that expired.            *)
Fail(b) ==
  /\ tab[b].status \in {"sent", "checked", "ok"} /\ ~ tab[b].half
  /\ Answer(b, "failed", None)
  /\ UNCHANGED <<store, server>>

(* A token expires, or another browser or an administrator ends it.         *)
Expire ==
  /\ \E s \in Session :
       \/ /\ row[s] = "open"
          /\ row' = [row EXCEPT ![s] = "revoked"]
          /\ UNCHANGED valid
       \/ /\ s \in valid
          /\ valid' = valid \ {s}
          /\ UNCHANGED row
  /\ UNCHANGED <<store, tab, owner>>

(* The script goes on, or does when its call has ended one way or the       *)
(* other.                                                                   *)
Continue(b) ==
  \/ HasRefresh(b) \/ SendRefresh(b) \/ HaveServices(b) \/ NoServices(b)
  \/ Ask(b) \/ HaveAccount(b) \/ Linked(b) \/ HaveLinkedAccount(b)
  \/ NoAccount(b) \/ KeepTokens(b) \/ DropTokens(b) \/ Unchanged(b)

Serve(b) == Check(b) \/ Grant(b) \/ Revoke(b) \/ Fail(b)

Next ==
  \/ \E b \in Tab :
       \/ Load(b) \/ Close(b) \/ Login(b) \/ Logout(b) \/ LogoutAll(b)
       \/ Continue(b)
       \/ Serve(b)
  \/ Expire

Spec == Init /\ [][Next]_vars

-----------------------------------------------------------------------------
(* Properties.                                                              *)

(* The storage and the tabs hold what the script puts there, the tokens     *)
(* stored are of rows that were made, and a page at rest waits for nothing. *)
TypeOK ==
  /\ store \in [access : Session \cup {None}, refresh : Session \cup {None}]
  /\ tab \in [Tab -> TabState]
  /\ row \in [Session -> {"absent", "open", "revoked"}]
  /\ owner \in [Session -> User \cup {None}]
  /\ valid \in SUBSET Session
  /\ \A s \in {store.access, store.refresh} \ {None} : row[s] # "absent"
  /\ \A b \in Tab : Idle(b) => tab[b].op = "none"

(* A stored token is gone, by a tab's doing, from under a key.              *)
Gone(key, s) == store[key] = s /\ store'[key] # s

Acts(b) == tab'[b] # tab[b]

AsksToChange(b) == Busy(b, {"login", "logout", "logoutAll"})

(* Its call failed for no fault of the token, or was about another token.   *)
BadLuck(b, s) == tab[b].status = "failed" \/ tab[b].sent # s

(* The browser loses a refresh token that is still good only because its    *)
(* user logs in or out, because the call to exchange it failed, or because  *)
(* a tab hears about a token that another tab has replaced since; never     *)
(* because an access token was refused, or because the server refused or    *)
(* exchanged the token itself.                                              *)
KeepsGoodRefreshToken ==
  [][\A s \in Session :
       Gone("refresh", s) /\ row[s] = "open" =>
         \E b \in Tab :
           /\ Acts(b)
           /\ AsksToChange(b) \/ (Busy(b, {"refresh"}) /\ BadLuck(b, s))]_vars

(* It loses an access token that is still good only because its user logs   *)
(* in or out, because a page that had found none stored restores its        *)
(* session, or because a call that presented it failed, or one about        *)
(* another token; never because /services failed, or because the server     *)
(* refused the token itself.                                                *)
KeepsGoodAccessToken ==
  [][\A s \in Session :
       Gone("access", s) /\ s \in valid =>
         \E b \in Tab :
           /\ Acts(b)
           /\ \/ AsksToChange(b) \/ Busy(b, {"refresh"})
              \/ Busy(b, {"me", "link", "again"}) /\ BadLuck(b, s)]_vars

(* However often tabs ask for the same thing, and whenever the answers      *)
(* come, an answer is one tab's alone: until this tab has stored it, its    *)
(* refresh token is neither stored nor presented nor on its way to another  *)
(* tab, and its access token neither before this tab has stored that one.   *)
(* So a late answer may overwrite what the storage holds, but never with    *)
(* tokens it held before.                                                   *)
AnswersAreFresh ==
  \A b \in Tab :
    LET s == tab[b].got IN
    s # None =>
      /\ store.refresh # s
      /\ store.access = s => tab[b].half
      /\ \A c \in Tab :
           /\ tab[c].sent = s => tab[b].half /\ tab[c].op \notin {"refresh", "logout"}
           /\ tab[c].got = s => c = b

=============================================================================
