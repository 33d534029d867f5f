------------------------ MODULE BrowserClientProofs ------------------------
(***************************************************************************)
(* Proofs about BrowserClient for any number of accounts, rows and tabs.   *)
(* The invariant says what each waiting script may rely on: where the      *)
(* tokens it presents and is answered can and cannot be, and that a token  *)
(* that was refused, or exchanged, is no longer good.                      *)
(***************************************************************************)
EXTENDS BrowserClient, TLAPS

-----------------------------------------------------------------------------
(* Records.                                                                 *)

(* A page at rest waits for nothing.                                        *)
LEMMA RestingFields ==
  ASSUME NEW page \in {"closed", "idle"}
  PROVE  /\ Resting(page) \in TabState
         /\ Resting(page).page = page
         /\ Resting(page).op = "none"
         /\ Resting(page).sent = None
         /\ Resting(page).got = None
BY DEF Resting, Doing, TabState, Op

-----------------------------------------------------------------------------
(* The invariant.                                                           *)

Made(s) == s # None => row[s] # "absent"

(* What is known of the call of a script.                                   *)
Fine(r) ==
  /\ Made(r.sent) /\ Made(r.got)
  /\ r.op = "refresh" /\ r.status \in {"ok", "refused"} /\ r.sent # None =>
       row[r.sent] = "revoked"
  /\ r.op \in {"me", "link", "again"} /\ r.status = "refused" => r.sent \notin valid

Inv ==
  /\ TypeOK
  /\ AnswersAreFresh
  /\ \A b \in Tab : Fine(tab[b])

(* Every tab is closed and the storage empty at first.                      *)
LEMMA InitInv == Init => Inv
<1> SUFFICES ASSUME Init PROVE Inv
  OBVIOUS
<1>1. TypeOK
  BY RestingFields DEF Init, TypeOK, NoTokens, Idle
<1>2. \A b \in Tab : tab[b] = Resting("closed")
  BY DEF Init
<1> QED
  BY <1>1, <1>2, RestingFields DEF Init, Inv, AnswersAreFresh, Fine, Made, NoTokens

-----------------------------------------------------------------------------
(* What every step does to the server, and one tab's step to the rest.      *)

(* Rows are made once and end for good, and tokens that ended stay so.      *)
ServerKept ==
  /\ row' \in [Session -> {"absent", "open", "revoked"}]
  /\ owner' \in [Session -> User \cup {None}]
  /\ valid' \in SUBSET Session
  /\ \A s \in Session : row[s] # "absent" => row'[s] # "absent"
  /\ \A s \in Session : row[s] = "revoked" => row'[s] = "revoked"
  /\ \A s \in Session : row[s] # "absent" /\ s \notin valid => s \notin valid'

(* A script presents nothing but what is stored, and an access token never  *)
(* as a refresh token.                                                      *)
Presents(b, r) ==
  \/ r.sent = None
  \/ r.sent = tab[b].sent /\ r.op = tab[b].op
  \/ r.sent = store.refresh
  \/ r.sent = store.access /\ r.op \notin {"refresh", "logout"}

(* It is answered with nothing but a row that is new, and holds on to the   *)
(* answer until it has stored both tokens.                                  *)
Holds(b, r) ==
  r.got # None =>
    /\ store'.refresh = store.refresh
    /\ r.sent = tab[b].sent /\ r.op = tab[b].op
    /\ \/ row[r.got] = "absent" /\ store' = store
       \/ /\ r.got = tab[b].got
          /\ tab[b].half => r.half
          /\ store'.access = store.access \/ r.half

(* One tab's script moves on to r, and stores nothing but its answer.       *)
Move(b, r) ==
  /\ r \in TabState
  /\ Become(b, r)
  /\ store' \in [access : Session \cup {None}, refresh : Session \cup {None}]
  /\ store'.access \in {None, store.access, tab[b].got}
  /\ store'.refresh \in {None, store.refresh, tab[b].got}
  /\ Presents(b, r)
  /\ Holds(b, r)
  /\ r.page = "idle" => r.op = "none"

(* What stays known of a script that does not move.                         *)
LEMMA FineKept ==
  ASSUME Inv, NEW c \in Tab, tab'[c] = tab[c], ServerKept
  PROVE  Fine(tab[c])'
<1> DEFINE r == tab[c]
<1>1. r \in TabState /\ Fine(r)
  BY DEF Inv, TypeOK
<1>2. r.sent \in Session \cup {None} /\ r.got \in Session \cup {None}
  BY <1>1 DEF TabState
<1>3. None \notin Session
  BY BrowserAssumption
<1>4. Made(r.sent)' /\ Made(r.got)'
  BY <1>1, <1>2 DEF Fine, Made, ServerKept
<1>5. r.op = "refresh" /\ r.status \in {"ok", "refused"} /\ r.sent # None =>
        row'[r.sent] = "revoked"
  BY <1>1, <1>2 DEF Fine, ServerKept
<1>6. r.op \in {"me", "link", "again"} /\ r.status = "refused" => r.sent \notin valid'
  <2>1. r.sent = None => r.sent \notin valid'
    BY <1>3 DEF ServerKept
  <2>2. r.sent # None => row[r.sent] # "absent"
    BY <1>1 DEF Fine, Made
  <2> QED
    BY <1>1, <1>2, <2>1, <2>2 DEF Fine, ServerKept
<1> QED
  BY <1>4, <1>5, <1>6 DEF Fine, Made

(* A step of one tab leaves the answers of the others fresh, and its own.   *)
LEMMA MoveFresh ==
  ASSUME Inv, NEW b \in Tab, NEW r, Move(b, r)
  PROVE  AnswersAreFresh'
<1>1. /\ tab'[b] = r
      /\ \A c \in Tab \ {b} : tab'[c] = tab[c]
  BY DEF Inv, TypeOK, Move, Become
<1>2. \A c \in Tab : Made(tab[c].sent) /\ Made(tab[c].got)
  BY DEF Inv, Fine
<1>3. Made(store.access) /\ Made(store.refresh)
  BY DEF Inv, TypeOK, Made
<1>4. ASSUME NEW c \in Tab \ {b}, tab[c].got # None
      PROVE  LET s == tab[c].got IN
             /\ store'.refresh # s
             /\ store'.access = s => tab[c].half
             /\ \A d \in Tab :
                  /\ tab'[d].sent = s =>
                       tab[c].half /\ tab'[d].op \notin {"refresh", "logout"}
                  /\ tab'[d].got = s => d = c
  <2> DEFINE s == tab[c].got
  <2>1. /\ store.refresh # s
        /\ store.access = s => tab[c].half
        /\ \A d \in Tab :
             /\ tab[d].sent = s => tab[c].half /\ tab[d].op \notin {"refresh", "logout"}
             /\ tab[d].got = s => d = c
    BY <1>4 DEF Inv, AnswersAreFresh
  <2> HIDE DEF s
  <2>2. s # None /\ tab[b].got # s /\ row[s] # "absent"
    BY <1>2, <1>4, <2>1 DEF Made, s
  <2>3. store'.refresh # s /\ (store'.access = s => tab[c].half)
    BY <2>1, <2>2 DEF Move
  <2>4. r.sent = s => tab[c].half /\ r.op \notin {"refresh", "logout"}
    BY <2>1, <2>2 DEF Move, Presents
  <2>5. r.got # s
    BY <2>2 DEF Move, Holds
  <2> QED
    BY <1>1, <2>1, <2>3, <2>4, <2>5 DEF s
<1>5. ASSUME r.got # None
      PROVE  /\ store'.refresh # r.got
             /\ store'.access = r.got => r.half
             /\ \A d \in Tab :
                  /\ tab'[d].sent = r.got =>
                       r.half /\ tab'[d].op \notin {"refresh", "logout"}
                  /\ tab'[d].got = r.got => d = b
  <2>1. store'.refresh = store.refresh /\ r.sent = tab[b].sent /\ r.op = tab[b].op
    BY <1>5 DEF Move, Holds
  <2>2. CASE row[r.got] = "absent" /\ store' = store
    BY <1>1, <1>2, <1>3, <1>5, <2>1, <2>2 DEF Made
  <2>3. CASE /\ r.got = tab[b].got
             /\ tab[b].half => r.half
             /\ store'.access = store.access \/ r.half
    <3>1. /\ store.refresh # r.got
          /\ store.access = r.got => tab[b].half
          /\ \A d \in Tab :
               /\ tab[d].sent = r.got =>
                    tab[b].half /\ tab[d].op \notin {"refresh", "logout"}
               /\ tab[d].got = r.got => d = b
      BY <1>5, <2>3 DEF Inv, AnswersAreFresh
    <3>2. \A d \in Tab : tab'[d].sent = tab[d].sent /\ tab'[d].op = tab[d].op
      BY <1>1, <2>1
    <3>3. \A d \in Tab \ {b} : tab'[d].got = tab[d].got
      BY <1>1
    <3> QED
      BY <2>1, <2>3, <3>1, <3>2, <3>3
  <2> QED
    BY <1>5, <2>2, <2>3 DEF Move, Holds
<1> QED
  BY <1>1, <1>4, <1>5 DEF AnswersAreFresh

(* A step of one tab keeps the invariant when what it leaves is fine.       *)
LEMMA MoveInv ==
  ASSUME Inv, NEW b \in Tab, NEW r, Move(b, r), ServerKept, Fine(tab[b])'
  PROVE  Inv'
<1>1. /\ tab' \in [Tab -> TabState]
      /\ tab'[b] = r
      /\ \A c \in Tab \ {b} : tab'[c] = tab[c]
  BY DEF Inv, TypeOK, Move, Become
<1>2. \A c \in Tab : Fine(tab[c])'
  BY <1>1, FineKept
<1>3. TypeOK'
  <2>1. \A s \in {store'.access, store'.refresh} \ {None} : row'[s] # "absent"
    <3>1. Made(tab[b].got)
      BY DEF Inv, Fine
    <3>2. tab[b].got \in Session \cup {None}
      BY DEF Inv, TypeOK, TabState
    <3> QED
      BY <3>1, <3>2 DEF Inv, TypeOK, Made, Move, ServerKept
  <2>2. \A c \in Tab : tab'[c].page = "idle" => tab'[c].op = "none"
    BY <1>1 DEF Inv, TypeOK, Idle, Move
  <2> QED
    BY <1>1, <2>1, <2>2 DEF TypeOK, Idle, Move, ServerKept
<1> QED
  BY <1>2, <1>3, MoveFresh DEF Inv

-----------------------------------------------------------------------------
(* Steps of the script.                                                     *)

(* The ways in which a script leaves the storage.                           *)
StoreStep(b) ==
  \/ store' = store
  \/ \E token \in {None, tab[b].got} :
       \/ store' = [store EXCEPT !.access = token]
       \/ store' = [store EXCEPT !.refresh = token]

(* It stores nothing but what it was answered.                              *)
LEMMA StoreStepFields ==
  ASSUME Inv, NEW b \in Tab, StoreStep(b)
  PROVE  /\ store' \in [access : Session \cup {None}, refresh : Session \cup {None}]
         /\ store'.access \in {None, store.access, tab[b].got}
         /\ store'.refresh \in {None, store.refresh, tab[b].got}
<1>1. tab[b].got \in Session \cup {None}
  BY DEF Inv, TypeOK, TabState
<1>2. store \in [access : Session \cup {None}, refresh : Session \cup {None}]
  BY DEF Inv, TypeOK
<1> QED
  BY <1>1, <1>2 DEF StoreStep

(* The script alone changes nothing on the server.                          *)
LEMMA SameServer ==
  ASSUME Inv, UNCHANGED server
  PROVE  ServerKept
BY DEF Inv, TypeOK, ServerKept, server

(* A script that stops keeps the invariant.                                 *)
LEMMA RestInv ==
  ASSUME Inv, NEW b \in Tab, NEW page \in {"closed", "idle"},
         Become(b, Resting(page)), UNCHANGED server, StoreStep(b)
  PROVE  Inv'
<1>1. ServerKept
  BY SameServer
<1>2. Move(b, Resting(page))
  BY StoreStepFields, RestingFields DEF Move, Presents, Holds
<1>3. tab'[b] = Resting(page)
  BY DEF Inv, TypeOK, Become
<1>4. Fine(tab[b])'
  BY <1>3, RestingFields DEF Fine, Made
<1> QED
  BY <1>1, <1>2, <1>4, MoveInv

(* A script that goes on to something else, with a token it finds stored or *)
(* with none, keeps it.                                                     *)
LEMMA DoInv ==
  ASSUME Inv, NEW b \in Tab, NEW op \in Op, NEW status \in {"none", "sent"}, NEW token,
         Become(b, Doing(op, status, token)), UNCHANGED server, StoreStep(b),
         \/ token \in {None, store.refresh}
         \/ token = store.access /\ op \notin {"refresh", "logout"}
  PROVE  Inv'
<1>1. ServerKept
  BY SameServer
<1>2. token \in Session \cup {None} /\ Made(token)
  BY DEF Inv, TypeOK, Made
<1>3. PICK r \in TabState :
        /\ Become(b, r)
        /\ r.page = "busy" /\ r.op = op /\ r.sent = token
        /\ r.status = status /\ r.got = None
  <2> DEFINE next == Doing(op, status, token)
  <2>1. next \in TabState /\ next.page = "busy" /\ next.op = op /\ next.sent = token
        /\ next.status = status /\ next.got = None
    BY <1>2 DEF Doing, TabState
  <2>2. Become(b, next)
    OBVIOUS
  <2> HIDE DEF next
  <2> QED
    BY <2>1, <2>2
<1>4. Move(b, r)
  BY <1>3, StoreStepFields DEF Move, Presents, Holds
<1>5. tab'[b] = r
  BY <1>3 DEF Inv, TypeOK, Become
<1>6. Made(token)'
  BY <1>1, <1>2 DEF Made, ServerKept
<1>7. Fine(tab[b])'
  BY <1>3, <1>5, <1>6 DEF Fine, Made
<1> QED
  BY <1>1, <1>4, <1>7, MoveInv

(* The user and the script, whatever they do.                               *)
Script(b) == Load(b) \/ Close(b) \/ Login(b) \/ Logout(b) \/ LogoutAll(b) \/ Continue(b)

(* A script that is where it was, but for the page it belongs to, or for    *)
(* the write of an access token it has just made.                           *)
LEMMA SameCallInv ==
  ASSUME Inv, NEW b \in Tab, NEW r \in TabState, Become(b, r), UNCHANGED server,
         StoreStep(b), store'.refresh = store.refresh,
         r.page \in {"closed", "busy"},
         r.op = tab[b].op, r.sent = tab[b].sent, r.status = tab[b].status,
         r.got = tab[b].got, tab[b].half => r.half,
         store'.access = store.access \/ r.half
  PROVE  Inv'
<1>1. ServerKept
  BY SameServer
<1>2. Move(b, r)
  BY StoreStepFields DEF Move, Presents, Holds
<1>3. tab'[b] = r /\ Fine(tab[b])
  BY DEF Inv, TypeOK, Become
<1>4. Fine(tab[b])'
  BY <1>3 DEF Fine, Made, server
<1> QED
  BY <1>1, <1>2, <1>4, MoveInv

(* A page closed while the server works leaves its call behind.             *)
LEMMA CloseInv ==
  ASSUME Inv, NEW b \in Tab, Close(b)
  PROVE  Inv'
<1>1. UNCHANGED server /\ store' = store
  BY DEF Close
<1>2. CASE Become(b, Resting("closed"))
  BY <1>1, <1>2, RestInv DEF StoreStep
<1>3. CASE Become(b, [tab[b] EXCEPT !.page = "closed"])
  <2> DEFINE r == [tab[b] EXCEPT !.page = "closed"]
  <2>1. tab[b] \in TabState
    BY DEF Inv, TypeOK
  <2>2. /\ r \in TabState /\ r.page = "closed"
        /\ r.op = tab[b].op /\ r.sent = tab[b].sent
        /\ r.status = tab[b].status /\ r.got = tab[b].got /\ r.half = tab[b].half
    BY <2>1 DEF TabState
  <2>3. Become(b, r)
    BY <1>3
  <2> HIDE DEF r
  <2> QED
    BY <1>1, <2>2, <2>3, SameCallInv DEF StoreStep
<1> QED
  BY <1>2, <1>3 DEF Close

(* The first of the two writes, and the second.                             *)
LEMMA WriteInv ==
  ASSUME Inv, NEW b \in Tab, NEW token \in {None, tab[b].got}, tab[b].page = "busy",
         WriteAccess(b, token) \/ WriteRefresh(b, token)
  PROVE  Inv'
<1>1. UNCHANGED server /\ StoreStep(b)
  BY DEF WriteAccess, WriteRefresh, StoreStep
<1>2. CASE WriteAccess(b, token)
  <2> DEFINE r == [tab[b] EXCEPT !.half = TRUE]
  <2>1. tab[b] \in TabState
    BY DEF Inv, TypeOK
  <2>2. /\ r \in TabState /\ r.page = "busy"
        /\ r.op = tab[b].op /\ r.sent = tab[b].sent
        /\ r.status = tab[b].status /\ r.got = tab[b].got /\ r.half = TRUE
    BY <2>1 DEF TabState
  <2>3. Become(b, r) /\ store'.refresh = store.refresh
    BY <1>2 DEF WriteAccess, Inv, TypeOK
  <2> HIDE DEF r
  <2> QED
    BY <1>1, <2>2, <2>3, SameCallInv
<1>3. CASE WriteRefresh(b, token)
  <2>1. PICK op \in {"load", "services"} : Become(b, Doing(op, "sent", None))
    BY <1>3 DEF WriteRefresh, Call, Waiting
  <2> QED
    BY <1>1, <2>1, DoInv DEF Op
<1> QED
  BY <1>2, <1>3

(* Every step of the script keeps the invariant.                            *)
LEMMA ScriptInv ==
  ASSUME Inv, NEW b \in Tab, Script(b)
  PROVE  Inv'
<1> USE DEF StoreStep
<1>1. CASE Load(b) \/ HasRefresh(b)
  BY <1>1, DoInv DEF Load, HasRefresh, Think, Call, Waiting, Op
<1>2. CASE SendRefresh(b) \/ Ask(b)
  BY <1>2, DoInv DEF SendRefresh, Ask, Call, Waiting, Op
<1>3. CASE Close(b)
  BY <1>3, CloseInv
<1>4. CASE Login(b) \/ LogoutAll(b)
  BY <1>4, DoInv DEF Login, LogoutAll, Call, Waiting, Op
<1>5. CASE Logout(b)
  BY <1>5, DoInv DEF Logout, Think, Call, Waiting, Op
<1>6. CASE KeepTokens(b) \/ DropTokens(b)
  <2>1. tab[b].page = "busy"
    BY <1>6 DEF KeepTokens, DropTokens, Keeps, Drops, Restored, NotRestored, LoggedIn,
                LoggedOut, LoggedOutAll, Answered, Failed, Thinking, Busy
  <2> QED
    BY <1>6, <2>1, WriteInv DEF KeepTokens, DropTokens
<1>7. CASE HaveServices(b)
  BY <1>7, DoInv, RestInv DEF HaveServices, Settle, Think, Op
<1>8. CASE NoServices(b) \/ HaveLinkedAccount(b) \/ NoAccount(b) \/ Unchanged(b)
  BY <1>8, RestInv DEF NoServices, HaveLinkedAccount, NoAccount, Unchanged, Settle
<1>9. CASE HaveAccount(b) \/ Linked(b)
  BY <1>9, DoInv, RestInv DEF HaveAccount, Linked, Settle, Call, Waiting, Op
<1> QED
  BY <1>1, <1>2, <1>3, <1>4, <1>5, <1>6, <1>7, <1>8, <1>9 DEF Script, Continue

-----------------------------------------------------------------------------
(* Steps of the server and the network.                                     *)

(* An answer, or going on, keeps the invariant when what it says of the     *)
(* token is so, and the tokens in it are new.                               *)
LEMMA AnswerInv ==
  ASSUME Inv, NEW b \in Tab, NEW status \in {"checked", "ok", "refused", "failed"},
         NEW tokens \in Session \cup {None}, NEW rows \in SUBSET Session,
         \/ Answer(b, status, tokens) /\ rows = {}
         \/ status = "checked" /\ GoOn(b, rows) /\ tokens = tab[b].got,
         UNCHANGED store, ServerKept,
         tokens # None => /\ tokens = tab[b].got \/ row[tokens] = "absent"
                          /\ row'[tokens] # "absent",
         tab[b].op = "refresh" /\ status \in {"ok", "refused"} /\ tab[b].sent # None =>
           row'[tab[b].sent] = "revoked",
         tab[b].op \in {"me", "link", "again"} /\ status = "refused" =>
           tab[b].sent \notin valid'
  PROVE  Inv'
<1>0. store' = store /\ StoreStep(b)
  BY DEF StoreStep
<1>1. tab[b] \in TabState /\ Fine(tab[b]) /\ (tab[b].page = "idle" => tab[b].op = "none")
  BY DEF Inv, TypeOK, Idle
<1>2. PICK r \in TabState :
        /\ r = [tab[b] EXCEPT !.status = status, !.rows = rows, !.got = tokens]
        /\ r.page = tab[b].page /\ r.op = tab[b].op /\ r.sent = tab[b].sent
        /\ r.status = status /\ r.got = tokens /\ r.half = tab[b].half
  <2>1. status \in {"none", "sent", "checked", "ok", "refused", "failed"}
    OBVIOUS
  <2> DEFINE next == [tab[b] EXCEPT !.status = status, !.rows = rows, !.got = tokens]
  <2>2. /\ next \in TabState
        /\ next.page = tab[b].page /\ next.op = tab[b].op /\ next.sent = tab[b].sent
        /\ next.status = status /\ next.got = tokens /\ next.half = tab[b].half
    BY <1>1, <2>1 DEF TabState
  <2>3. next = [tab[b] EXCEPT !.status = status, !.rows = rows, !.got = tokens]
    OBVIOUS
  <2> HIDE DEF next
  <2> QED
    BY <2>2, <2>3
<1>3. Become(b, r) \/ Become(b, Resting("closed"))
  <2>1. tokens = tab[b].got => r = [tab[b] EXCEPT !.status = status, !.rows = rows]
    BY <1>1, <1>2 DEF TabState
  <2> QED
    BY <1>2, <2>1 DEF Answer, GoOn
<1>4. CASE Become(b, r)
  <2>1. Move(b, r)
    BY <1>0, <1>1, <1>2, <1>4, StoreStepFields DEF Move, Presents, Holds
  <2>2. tab'[b] = r
    BY <1>4 DEF Inv, TypeOK, Become
  <2>3. Made(r.sent)' /\ Made(r.got)'
    BY <1>1, <1>2, BrowserAssumption DEF Fine, Made, ServerKept, TabState
  <2>4. Fine(r)'
    BY <1>0, <1>1, <1>2, <2>3 DEF Fine, Made
  <2>5. Fine(tab[b])'
    BY <2>2, <2>4 DEF Fine, Made
  <2> QED
    BY <2>1, <2>5, MoveInv
<1>5. CASE Become(b, Resting("closed"))
  <2>1. Move(b, Resting("closed"))
    BY <1>0, <1>5, StoreStepFields, RestingFields DEF Move, Presents, Holds
  <2>2. tab'[b] = Resting("closed")
    BY <1>5 DEF Inv, TypeOK, Become
  <2>3. Fine(tab[b])'
    BY <2>2, RestingFields DEF Fine, Made
  <2> QED
    BY <2>1, <2>3, MoveInv
<1> QED
  BY <1>3, <1>4, <1>5

(* The same for an answer.                                                  *)
LEMMA RepliedInv ==
  ASSUME Inv, NEW b \in Tab, NEW status \in {"ok", "refused", "failed"},
         NEW tokens \in Session \cup {None}, Answer(b, status, tokens),
         UNCHANGED store, ServerKept,
         tokens # None => row[tokens] = "absent" /\ row'[tokens] # "absent",
         tab[b].op = "refresh" /\ status \in {"ok", "refused"} /\ tab[b].sent # None =>
           row'[tab[b].sent] = "revoked",
         tab[b].op \in {"me", "link", "again"} /\ status = "refused" =>
           tab[b].sent \notin valid'
  PROVE  Inv'
<1>1. PICK rows \in SUBSET Session : rows = {}
  OBVIOUS
<1>2. status \in {"checked", "ok", "refused", "failed"}
  OBVIOUS
<1> QED
  BY <1>1, <1>2, AnswerInv

(* What the server finds out about a token stays true of it.                *)
LEMMA CheckInv ==
  ASSUME Inv, NEW b \in Tab, Check(b)
  PROVE  Inv'
<1> DEFINE op == tab[b].op
           s  == tab[b].sent
<1>1. UNCHANGED <<store, row, valid>> /\ ServerKept
  BY SameServer DEF Check, server
<1>2. tab[b] \in TabState /\ Fine(tab[b])
  BY DEF Inv, TypeOK
<1>3. s \notin Open /\ s # None => row[s] = "revoked"
  BY <1>2 DEF Open, Fine, Made, Inv, TypeOK, TabState
<1>4. ASSUME NEW rows \in SUBSET Session, GoOn(b, rows)
      PROVE  Inv'
  <2>1. tab[b].got \in Session \cup {None}
    BY <1>2 DEF TabState
  <2>2. tab[b].got # None => row'[tab[b].got] # "absent"
    BY <1>1, <1>2 DEF Fine, Made
  <2> QED
    BY <1>1, <1>4, <2>1, <2>2, AnswerInv
<1>5. CASE Answer(b, "ok", None) /\ op # "refresh"
  BY <1>1, <1>5, RepliedInv
<1>6. CASE Answer(b, "refused", None) /\ op = "refresh" /\ s \notin Open
  BY <1>1, <1>3, <1>6, RepliedInv
<1>7. CASE Answer(b, "refused", None) /\ op # "refresh" /\ s \notin valid
  BY <1>1, <1>7, RepliedInv
<1> QED
  BY <1>4, <1>5, <1>6, <1>7 DEF Check, Open

(* A new row is in nobody's hands yet.                                      *)
LEMMA GrantInv ==
  ASSUME Inv, NEW b \in Tab, Grant(b)
  PROVE  Inv'
<1> DEFINE s == tab[b].sent
<1>1. PICK t \in Session, u \in User :
        /\ row[t] = "absent"
        /\ row' = [x \in Session |-> IF x = t THEN "open"
                                     ELSE IF x = s THEN "revoked" ELSE row[x]]
        /\ owner' = [owner EXCEPT ![t] = u]
        /\ valid' = valid \cup {t}
        /\ Answer(b, "ok", t)
  BY DEF Grant
<1>2. ServerKept
  BY <1>1 DEF Inv, TypeOK, ServerKept
<1>3. s # None => s \in Session /\ row[s] # "absent"
  BY DEF Inv, TypeOK, TabState, Fine, Made
<1>4. s # None => row'[s] = "revoked"
  BY <1>1, <1>3
<1>5. UNCHANGED store /\ row'[t] # "absent"
  BY <1>1 DEF Grant
<1> QED
  BY <1>1, <1>2, <1>4, <1>5, RepliedInv DEF Grant

(* Logouts end rows, and a call that fails says nothing of its token.       *)
LEMMA RevokeInv ==
  ASSUME Inv, NEW b \in Tab, Revoke(b)
  PROVE  Inv'
<1>1. ServerKept
  <2>1. UNCHANGED <<owner, valid>>
    BY DEF Revoke
  <2>2. row' \in [Session -> {"absent", "open", "revoked"}]
        /\ \A s \in Session : row'[s] = row[s] \/ row'[s] = "revoked"
    BY DEF Revoke, Inv, TypeOK
  <2> QED
    BY <2>1, <2>2 DEF Inv, TypeOK, ServerKept
<1>2. Answer(b, "ok", None) /\ UNCHANGED store /\ tab[b].op \in {"logout", "logoutAll"}
  BY DEF Revoke
<1> QED
  BY <1>1, <1>2, RepliedInv

LEMMA FailInv ==
  ASSUME Inv, NEW b \in Tab, Fail(b)
  PROVE  Inv'
BY SameServer, RepliedInv DEF Fail

(* Tokens that end were good before; nothing relied on it.                  *)
LEMMA ExpireInv ==
  ASSUME Inv, Expire
  PROVE  Inv'
<1>1. UNCHANGED <<store, tab, owner>>
  BY DEF Expire
<1>2. ServerKept
  BY DEF Expire, Inv, TypeOK, ServerKept
<1>3. \A c \in Tab : Fine(tab[c])'
  BY <1>1, <1>2, FineKept
<1>4. TypeOK'
  BY <1>1, <1>2 DEF Inv, TypeOK, Idle, ServerKept
<1> QED
  BY <1>1, <1>3, <1>4 DEF Inv, AnswersAreFresh

(* Every step keeps the invariant.                                          *)
LEMMA NextInv == Inv /\ [Next]_vars => Inv'
<1> SUFFICES ASSUME Inv, [Next]_vars PROVE Inv'
  OBVIOUS
<1>1. ASSUME NEW b \in Tab, Script(b) PROVE Inv'
  BY <1>1, ScriptInv
<1>2. ASSUME NEW b \in Tab, Serve(b) PROVE Inv'
  BY <1>2, CheckInv, GrantInv, RevokeInv, FailInv DEF Serve
<1>3. CASE Expire
  BY <1>3, ExpireInv
<1>4. CASE UNCHANGED vars
  BY <1>4 DEF vars, server, Inv, TypeOK, AnswersAreFresh, Fine, Made, Idle
<1> QED
  BY <1>1, <1>2, <1>3, <1>4 DEF Next, Script

-----------------------------------------------------------------------------
(* The theorems.                                                            *)

(* What every waiting script may rely on, in every reachable state.         *)
THEOREM BrowserInvariant == Spec => []Inv
BY InitInv, NextInv, PTL DEF Spec

(* The storage and the tabs are well formed however many tabs there are.    *)
THEOREM BrowserTypes == Spec => []TypeOK
BY BrowserInvariant, PTL DEF Inv

(* Tokens on their way to a tab have never been in the browser.             *)
THEOREM FreshAnswers == Spec => []AnswersAreFresh
BY BrowserInvariant, PTL DEF Inv

(* A server step leaves the storage alone, so only a script drops a token,  *)
(* and then it is no longer where it was.                                   *)
LEMMA StoreKept ==
  ASSUME Inv, [Next]_vars, store' # store
  PROVE  \E b \in Tab : Acts(b) /\ (NoAccount(b) \/ KeepTokens(b) \/ DropTokens(b))
<1>1. ~ Expire /\ ~ UNCHANGED vars
  BY DEF Expire, vars
<1>2. \A b \in Tab : ~ Serve(b)
  BY DEF Serve, Check, Grant, Revoke, Fail
<1>3. \A b \in Tab : /\ ~ Load(b) /\ ~ Close(b) /\ ~ Login(b) /\ ~ Logout(b)
                     /\ ~ LogoutAll(b) /\ ~ HasRefresh(b) /\ ~ SendRefresh(b)
  BY DEF Load, Close, Login, Logout, LogoutAll, HasRefresh, SendRefresh
<1>4. \A b \in Tab : /\ ~ HaveServices(b) /\ ~ NoServices(b) /\ ~ Ask(b)
                     /\ ~ HaveAccount(b) /\ ~ Linked(b) /\ ~ HaveLinkedAccount(b)
                     /\ ~ Unchanged(b)
  BY DEF HaveServices, NoServices, Ask, HaveAccount, Linked, HaveLinkedAccount, Unchanged
<1>5. PICK b \in Tab : NoAccount(b) \/ KeepTokens(b) \/ DropTokens(b)
  BY <1>1, <1>2, <1>3, <1>4 DEF Next, Continue
<1>6. tab \in [Tab -> TabState]
  BY DEF Inv, TypeOK
<1>7. CASE NoAccount(b)
  <2>1. tab'[b] = Resting("idle") /\ tab[b].page = "busy"
    BY <1>6, <1>7 DEF NoAccount, Settle, Become, Failed, Busy
  <2> QED
    BY <1>7, <2>1, RestingFields DEF Acts
<1>8. CASE KeepTokens(b) \/ DropTokens(b)
  <2>1. PICK token : WriteAccess(b, token) \/ WriteRefresh(b, token)
    BY <1>8 DEF KeepTokens, DropTokens
  <2>2. CASE WriteAccess(b, token)
    BY <1>6, <1>8, <2>2 DEF WriteAccess, Become, Acts, TabState
  <2>3. CASE WriteRefresh(b, token)
    <3>1. PICK op \in {"load", "services"} : tab'[b] = Doing(op, "sent", None)
      BY <1>6, <2>3 DEF WriteRefresh, Call, Waiting, Become
    <3>2. tab[b].half /\ ~ Doing(op, "sent", None).half
      BY <2>3 DEF WriteRefresh, Doing
    <3> QED
      BY <1>8, <3>1, <3>2 DEF Acts
  <2> QED
    BY <2>1, <2>2, <2>3
<1> QED
  BY <1>5, <1>7, <1>8

(* Who stores or drops the tokens is a user who logs in or out, or a page   *)
(* that tried to restore its session.                                       *)
LEMMA WhoWrites ==
  ASSUME NEW b \in Tab, KeepTokens(b) \/ DropTokens(b)
  PROVE  \/ AsksToChange(b)
         \/ Busy(b, {"refresh"}) /\ tab[b].status \in {"ok", "refused", "failed"}
BY DEF KeepTokens, DropTokens, Keeps, Drops, Restored, NotRestored, LoggedIn, LoggedOut,
       LoggedOutAll, Answered, Failed, Thinking, AsksToChange, Busy

(* A refused refresh token was no longer good, and neither is one that was  *)
(* exchanged: who drops it drops nothing of worth.                          *)
THEOREM RefreshTokensKept == Spec => KeepsGoodRefreshToken
<1>1. Inv /\ [Next]_vars =>
        [\A s \in Session :
           Gone("refresh", s) /\ row[s] = "open" =>
             \E b \in Tab :
               /\ Acts(b)
               /\ AsksToChange(b) \/ (Busy(b, {"refresh"}) /\ BadLuck(b, s))]_vars
  <2> SUFFICES ASSUME Inv, [Next]_vars, NEW s \in Session,
                      Gone("refresh", s), row[s] = "open"
               PROVE  \E b \in Tab :
                        /\ Acts(b)
                        /\ AsksToChange(b) \/ (Busy(b, {"refresh"}) /\ BadLuck(b, s))
    OBVIOUS
  <2>1. store' # store /\ store.refresh = s /\ s # None
    BY BrowserAssumption DEF Gone
  <2>2. PICK b \in Tab : Acts(b) /\ (NoAccount(b) \/ KeepTokens(b) \/ DropTokens(b))
    BY <2>1, StoreKept
  <2>3. ~ NoAccount(b)
    BY <2>1 DEF NoAccount, Inv, TypeOK, Gone
  <2>4. CASE Busy(b, {"refresh"}) /\ tab[b].status \in {"ok", "refused", "failed"}
    <3>1. BadLuck(b, s)
      BY <2>1, <2>4 DEF Inv, Fine, Busy, BadLuck
    <3> QED
      BY <2>2, <2>4, <3>1
  <2> QED
    BY <2>2, <2>3, <2>4, WhoWrites
<1> QED
  BY <1>1, BrowserInvariant, PTL DEF Spec, KeepsGoodRefreshToken

(* A refused access token had expired, and /services is asked without one.  *)
THEOREM AccessTokensKept == Spec => KeepsGoodAccessToken
<1>1. Inv /\ [Next]_vars =>
        [\A s \in Session :
           Gone("access", s) /\ s \in valid =>
             \E b \in Tab :
               /\ Acts(b)
               /\ \/ AsksToChange(b) \/ Busy(b, {"refresh"})
                  \/ Busy(b, {"me", "link", "again"}) /\ BadLuck(b, s)]_vars
  <2> SUFFICES ASSUME Inv, [Next]_vars, NEW s \in Session,
                      Gone("access", s), s \in valid
               PROVE  \E b \in Tab :
                        /\ Acts(b)
                        /\ \/ AsksToChange(b) \/ Busy(b, {"refresh"})
                           \/ Busy(b, {"me", "link", "again"}) /\ BadLuck(b, s)
    OBVIOUS
  <2>1. store' # store
    BY DEF Gone
  <2>2. PICK b \in Tab : Acts(b) /\ (NoAccount(b) \/ KeepTokens(b) \/ DropTokens(b))
    BY <2>1, StoreKept
  <2>3. CASE NoAccount(b)
    <3>1. Busy(b, {"me", "link", "again"}) /\ tab[b].status \in {"refused", "failed"}
      BY <2>3 DEF NoAccount, Failed
    <3>2. BadLuck(b, s)
      BY <3>1 DEF Inv, Fine, Busy, BadLuck
    <3> QED
      BY <2>2, <3>1, <3>2
  <2> QED
    BY <2>2, <2>3, WhoWrites
<1> QED
  BY <1>1, BrowserInvariant, PTL DEF Spec, KeepsGoodAccessToken

=============================================================================
