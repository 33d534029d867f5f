------------------------- MODULE DiscordLinksProofs -------------------------
(***************************************************************************)
(* Proofs, for any numbers of users, identities, rows and workers, of the  *)
(* properties of DiscordLinks.  All follow from one invariant: a request   *)
(* that holds a row object holds an id that was issued, and if that row    *)
(* still exists it is the row of the user the request works for, and, for  *)
(* a look-up, of the identity it was asked about.                          *)
(***************************************************************************)
EXTENDS DiscordLinks, TLAPS

(* A row that is not there holds nothing at all.                            *)
AbsentIsEmpty == \A l \in Link : ~ Present(l) => links[l] = NoRow

PresentWasIssued == \A l \in Link : Present(l) => l \in issued

(* A request at work has a user, and one that deletes or resolves a row.    *)
BusyForUser ==
  \A w \in Worker : /\ At(w, "idle") \/ request[w].user # None
                    /\ At(w, "delete") \/ At(w, "resolve") => request[w].account # None

(* What a request holds was issued, and is still its user's if it exists.   *)
HoldsOwnLink ==
  \A w \in Worker : request[w].account # None =>
    /\ request[w].account \in issued
    /\ Present(request[w].account) =>
         links[request[w].account].user = request[w].user

(* No row changes its identity: the row a look-up matched still matches.    *)
HoldsFoundLink ==
  \A w \in Worker : At(w, "resolve") /\ Present(request[w].account) =>
    links[request[w].account].discord = request[w].discord

IInv ==
  /\ TypeOK
  /\ AbsentIsEmpty
  /\ PresentWasIssued
  /\ BusyForUser
  /\ HoldsOwnLink
  /\ HoldsFoundLink
  /\ OneLinkEach
  /\ WrittenByOwner

-----------------------------------------------------------------------------
(* The initial tables and idle workers satisfy the invariant.               *)
LEMMA InitIInv == Init => IInv
  BY DiscordLinksAssumption
  DEF Init, IInv, TypeOK, AbsentIsEmpty, PresentWasIssued, BusyForUser,
      HoldsOwnLink, HoldsFoundLink, OneLinkEach, WrittenByOwner, Present, NoRow,
      Row, Request,
      Phase, Idle, At

(* A step that leaves the tables alone and moves one request keeps the      *)
(* invariant, when the request it moves to is well formed and holds its     *)
(* own user's row.                                                          *)
LEMMA MoveIInv ==
  ASSUME IInv, NEW w \in Worker, NEW r \in Request,
         Become(w, r), UNCHANGED <<links, issued, writer>>,
         r.pc = "idle" \/ r.user # None,
         r.pc = "delete" \/ r.pc = "resolve" => r.account # None,
         r.account # None =>
           /\ r.account \in issued
           /\ Present(r.account) => links[r.account].user = r.user,
         r.pc = "resolve" /\ Present(r.account) =>
           links[r.account].discord = r.discord
  PROVE  IInv'
  <1>1. TypeOK' BY DEF IInv, TypeOK, Become
  <1>2. /\ AbsentIsEmpty' /\ PresentWasIssued' /\ OneLinkEach' /\ WrittenByOwner'
    BY DEF IInv, AbsentIsEmpty, PresentWasIssued, OneLinkEach, WrittenByOwner,
           Present
  <1>3. \A v \in Worker : request'[v] = IF v = w THEN r ELSE request[v]
    BY DEF Become, IInv, TypeOK
  <1>4. BusyForUser' BY <1>3 DEF IInv, BusyForUser, At
  <1>5. HoldsOwnLink' BY <1>3 DEF IInv, HoldsOwnLink, Present
  <1>6. HoldsFoundLink' BY <1>3 DEF IInv, HoldsFoundLink, Present, At
  <1> QED BY <1>1, <1>2, <1>4, <1>5, <1>6 DEF IInv

(* A worker that goes idle keeps the invariant.                             *)
LEMMA StopIInv ==
  ASSUME IInv, NEW w \in Worker, Become(w, Idle),
         UNCHANGED <<links, issued, writer>>
  PROVE  IInv'
  <1>1. Idle \in Request /\ Idle.pc = "idle" /\ Idle.account = None
    BY DEF Idle, Request, Phase
  <1> QED BY <1>1, MoveIInv

(* Requests built by Doing are well formed.                                 *)
LEMMA DoingTyped ==
  ASSUME TypeOK, NEW pc \in Phase, NEW u \in User \cup {None},
         NEW d \in Discord \cup {None}, NEW l \in Link \cup {None}
  PROVE  /\ Doing(pc, u, d, l) \in Request
         /\ Doing(pc, u, d, l).pc = pc
         /\ Doing(pc, u, d, l).user = u
         /\ Doing(pc, u, d, l).account = l
  <1>1. (IF l = None THEN None ELSE links[l].profile) \in Discord \cup {None}
    BY DEF TypeOK, Row
  <1> QED BY <1>1 DEF Doing, Request

-----------------------------------------------------------------------------
(* Loading a user along with the link it has now.                           *)
LEMMA LoadUserIInv ==
  ASSUME IInv, NEW w \in Worker, NEW u \in User, NEW d \in Discord,
         LoadUser(w, u, d)
  PROVE  IInv'
  <1> USE DiscordLinksAssumption
  <1>t. TypeOK /\ "check" \in Phase /\ u # None BY DEF IInv, Phase
  <1>1. CASE Become(w, Doing("check", u, d, None))
    <2>1. /\ Doing("check", u, d, None) \in Request
          /\ Doing("check", u, d, None).pc = "check"
          /\ Doing("check", u, d, None).user = u
          /\ Doing("check", u, d, None).account = None
      BY <1>t, DoingTyped
    <2>2. UNCHANGED <<links, issued, writer>> BY DEF LoadUser
    <2> QED BY <1>1, <1>t, <2>1, <2>2, MoveIInv
  <1>2. ASSUME NEW l \in LinksOf(u), Become(w, Doing("check", u, d, l))
        PROVE  IInv'
    <2>0. l \in Link /\ Present(l) /\ links[l].user = u BY DEF LinksOf
    <2>1. /\ Doing("check", u, d, l) \in Request
          /\ Doing("check", u, d, l).pc = "check"
          /\ Doing("check", u, d, l).user = u
          /\ Doing("check", u, d, l).account = l
      BY <1>t, <2>0, DoingTyped
    <2>2. l \in issued BY <2>0 DEF IInv, PresentWasIssued
    <2>3. UNCHANGED <<links, issued, writer>> BY DEF LoadUser
    <2> QED BY <1>2, <1>t, <2>0, <2>1, <2>2, <2>3, MoveIInv
  <1> QED BY <1>1, <1>2 DEF LoadUser

(* The look-up of the Discord identity.                                     *)
LEMMA CheckDiscordIInv ==
  ASSUME IInv, NEW w \in Worker, CheckDiscord(w)
  PROVE  IInv'
  <1> DEFINE r == request[w]
  <1>1. r \in Request /\ "write" \in Phase BY DEF IInv, TypeOK, Phase
  <1>2. r.user # None BY DEF CheckDiscord, IInv, BusyForUser, At
  <1>3. r.account # None =>
          /\ r.account \in issued
          /\ Present(r.account) => links[r.account].user = r.user
    BY DEF IInv, HoldsOwnLink
  <1>4. CASE Become(w, [r EXCEPT !.pc = "write"])
    <2>1. /\ [r EXCEPT !.pc = "write"] \in Request
          /\ [r EXCEPT !.pc = "write"].pc = "write"
          /\ [r EXCEPT !.pc = "write"].user = r.user
          /\ [r EXCEPT !.pc = "write"].account = r.account
      BY <1>1 DEF Request
    <2>2. UNCHANGED <<links, issued, writer>> BY DEF CheckDiscord
    <2> HIDE DEF r
    <2> QED BY <1>2, <1>3, <1>4, <2>1, <2>2, MoveIInv
  <1>5. CASE Become(w, Idle)
    BY <1>5, StopIInv DEF CheckDiscord
  <1> QED BY <1>4, <1>5 DEF CheckDiscord

(* The INSERT: its id is fresh, so nobody holds it, and the unique          *)
(* constraints keep both sides of the link unique.                          *)
LEMMA InsertLinkIInv ==
  ASSUME IInv, NEW w \in Worker, InsertLink(w)
  PROVE  IInv'
  <1> USE DiscordLinksAssumption
  <1> DEFINE r == request[w]
  <1>1. /\ r \in Request
        /\ r.user \in User
        /\ r.discord \in Discord \cup {None}
        /\ Unique(r.user, r.discord)
    BY DEF InsertLink, IInv, TypeOK, BusyForUser, At, Request
  <1>2. PICK l \in Link :
          /\ FreshId(l)
          /\ links' = [links EXCEPT ![l] = [user |-> r.user, discord |-> r.discord,
                                            profile |-> r.discord]]
          /\ issued' = issued \cup {l}
          /\ writer' = [writer EXCEPT ![l] = r.user]
          /\ Become(w, [r EXCEPT !.pc = "reread", !.account = l])
    BY DEF InsertLink
  <1>3. PICK q \in Request :
          /\ q.pc = "reread" /\ q.user = r.user /\ q.account = l
          /\ request' = [request EXCEPT ![w] = q]
    <2> DEFINE q0 == [r EXCEPT !.pc = "reread", !.account = l]
    <2>1. "reread" \in Phase BY DEF Phase
    <2>2. q0 \in Request /\ q0.pc = "reread" /\ q0.user = r.user /\ q0.account = l
      BY <1>1, <2>1 DEF Request
    <2>3. request' = [request EXCEPT ![w] = q0] BY <1>2 DEF Become
    <2> HIDE DEF q0
    <2> QED BY <2>2, <2>3
  <1>4. PICK row \in Row :
          /\ row.user = r.user /\ row.discord = r.discord
          /\ links' = [links EXCEPT ![l] = row]
    BY <1>1, <1>2 DEF Row
  <1> HIDE DEF r
  <1>5. l \notin issued /\ ~ Present(l)
    BY <1>2 DEF FreshId, IInv, PresentWasIssued
  <1>6. \A m \in Link : links'[m] = IF m = l THEN row ELSE links[m]
    BY <1>4 DEF IInv, TypeOK
  <1>7. \A m \in Link : Present(m)' <=> (m = l \/ Present(m))
    BY <1>1, <1>4, <1>6 DEF Present
  <1>8. TypeOK'
    BY <1>1, <1>2, <1>3, <1>4 DEF IInv, TypeOK
  <1>9. AbsentIsEmpty' BY <1>6, <1>7 DEF IInv, AbsentIsEmpty, NoRow
  <1>10. PresentWasIssued' BY <1>2, <1>7 DEF IInv, PresentWasIssued
  <1>11. \A v \in Worker : request'[v] = IF v = w THEN q ELSE request[v]
    BY <1>3 DEF IInv, TypeOK
  <1>12. BusyForUser' BY <1>1, <1>3, <1>11 DEF IInv, BusyForUser, At
  <1>13. HoldsOwnLink'
    <2> SUFFICES ASSUME NEW v \in Worker, request'[v].account # None
                 PROVE  /\ request'[v].account \in issued'
                        /\ links'[request'[v].account].user # None =>
                             links'[request'[v].account].user = request'[v].user
      BY DEF HoldsOwnLink, Present
    <2>1. CASE v = w
      BY <2>1, <1>2, <1>3, <1>4, <1>6, <1>11
    <2>2. CASE v # w
      <3>1. request'[v] = request[v] BY <2>2, <1>11
      <3>2. request[v].account \in Link
        BY <3>1 DEF IInv, TypeOK, Request
      <3>3. request[v].account \in issued /\ request[v].account # l
        BY <3>1, <1>5 DEF IInv, HoldsOwnLink
      <3> QED BY <3>1, <3>2, <3>3, <1>2, <1>6, <1>7 DEF IInv, HoldsOwnLink, Present
    <2> QED BY <2>1, <2>2
  <1>14. OneLinkEach'
    <2>1. \A m \in Link : Present(m) => /\ links[m].user # row.user
                                        /\ links[m].discord # row.discord
      BY <1>1, <1>4 DEF Unique, LinksOf, LinksTo
    <2> QED BY <2>1, <1>6, <1>7 DEF IInv, OneLinkEach
  <1>15. HoldsFoundLink'
    <2> SUFFICES ASSUME NEW v \in Worker, request'[v].pc = "resolve",
                        links'[request'[v].account].user # None
                 PROVE  links'[request'[v].account].discord = request'[v].discord
      BY DEF HoldsFoundLink, Present, At
    <2>1. v # w /\ request'[v] = request[v] BY <1>3, <1>11
    <2>2. request[v].account \in Link
      BY <2>1 DEF IInv, TypeOK, Request, BusyForUser, At
    <2>3. request[v].account # l BY <2>1, <1>5 DEF IInv, HoldsOwnLink
    <2> QED BY <2>1, <2>2, <2>3, <1>6, <1>7 DEF IInv, HoldsFoundLink, Present, At
  <1>16. WrittenByOwner'
    <2>1. \A m \in Link : writer'[m] = IF m = l THEN r.user ELSE writer[m]
      BY <1>2 DEF IInv, TypeOK
    <2> QED BY <2>1, <1>4, <1>6, <1>7 DEF IInv, WrittenByOwner
  <1> QED
    BY <1>8, <1>9, <1>10, <1>12, <1>13, <1>14, <1>15, <1>16 DEF IInv

(* The UPDATE: only the profile changes, in the row of the request's user.  *)
LEMMA UpdateLinkIInv ==
  ASSUME IInv, NEW w \in Worker, UpdateLink(w)
  PROVE  IInv'
  <1> USE DiscordLinksAssumption
  <1> DEFINE r == request[w]
             l == r.account
             p == IF r.loaded = r.discord THEN links[l].profile ELSE r.discord
  <1>1. r \in Request /\ l \in Link /\ Present(l) /\ r.user \in User
    BY DEF UpdateLink, IInv, TypeOK, BusyForUser, At, Request
  <1>2. links[l].user = r.user /\ l \in issued
    BY <1>1 DEF UpdateLink, IInv, HoldsOwnLink
  <1>3. p \in Discord \cup {None} BY <1>1 DEF IInv, TypeOK, Row, Request
  <1>4. /\ links' = [links EXCEPT ![l].profile = p]
        /\ writer' = [writer EXCEPT ![l] = r.user]
        /\ issued' = issued
    BY DEF UpdateLink
  <1>5. PICK q \in Request :
          /\ q.pc = "reread" /\ q.user = r.user /\ q.account = l
          /\ request' = [request EXCEPT ![w] = q]
    <2>1. [r EXCEPT !.pc = "reread"] \in Request
      BY <1>1 DEF Request, Phase
    <2> QED BY <1>1, <2>1 DEF UpdateLink, Become, Request
  <1>6. PICK u \in User, id \in Link : u = r.user /\ id = l BY <1>1
  <1>7. PICK s \in Discord \cup {None} : s = p BY <1>3
  <1>8. /\ links' = [links EXCEPT ![id].profile = s]
        /\ writer' = [writer EXCEPT ![id] = u]
        /\ q.user = u /\ q.account = id
        /\ Present(id) /\ links[id].user = u /\ id \in issued
    BY <1>1, <1>2, <1>4, <1>5, <1>6, <1>7
  <1> HIDE DEF r, l, p
  <1>9. \A m \in Link : /\ links'[m] \in Row
                        /\ links'[m].user = links[m].user
                        /\ links'[m].discord = links[m].discord
                        /\ m # id => links'[m] = links[m]
    BY <1>8 DEF IInv, TypeOK, Row
  <1>10. \A m \in Link : Present(m)' <=> Present(m) BY <1>9 DEF Present
  <1>11. TypeOK'
    <2>1. links' \in [Link -> Row] BY <1>8, <1>9 DEF IInv, TypeOK
    <2> QED BY <2>1, <1>4, <1>5, <1>8 DEF IInv, TypeOK
  <1>12. AbsentIsEmpty'
    BY <1>8, <1>9, <1>10 DEF IInv, AbsentIsEmpty, NoRow
  <1>13. PresentWasIssued' BY <1>4, <1>10 DEF IInv, PresentWasIssued
  <1>14. \A v \in Worker : request'[v] = IF v = w THEN q ELSE request[v]
    BY <1>5 DEF IInv, TypeOK
  <1>15. BusyForUser' BY <1>8, <1>14 DEF IInv, BusyForUser, At
  <1>16. HoldsOwnLink'
    <2> SUFFICES ASSUME NEW v \in Worker, request'[v].account # None
                 PROVE  /\ request'[v].account \in issued'
                        /\ links'[request'[v].account].user # None =>
                             links'[request'[v].account].user = request'[v].user
      BY DEF HoldsOwnLink, Present
    <2>1. CASE v = w
      BY <2>1, <1>4, <1>8, <1>9, <1>14
    <2>2. CASE v # w
      <3>1. request'[v] = request[v] BY <2>2, <1>14
      <3>2. request[v].account \in Link BY <3>1 DEF IInv, TypeOK, Request
      <3> QED BY <3>1, <3>2, <1>4, <1>9, <1>10 DEF IInv, HoldsOwnLink, Present
    <2> QED BY <2>1, <2>2
  <1>17. OneLinkEach' BY <1>9, <1>10 DEF IInv, OneLinkEach
  <1>18. HoldsFoundLink'
    <2> SUFFICES ASSUME NEW v \in Worker, request'[v].pc = "resolve",
                        links'[request'[v].account].user # None
                 PROVE  links'[request'[v].account].discord = request'[v].discord
      BY DEF HoldsFoundLink, Present, At
    <2>1. v # w /\ request'[v] = request[v] BY <1>5, <1>14
    <2>2. request[v].account \in Link
      BY <2>1 DEF IInv, TypeOK, Request, BusyForUser, At
    <2> QED BY <2>1, <2>2, <1>9, <1>10 DEF IInv, HoldsFoundLink, Present, At
  <1>19. WrittenByOwner'
    <2>1. \A m \in Link : writer'[m] = IF m = id THEN u ELSE writer[m]
      BY <1>8 DEF IInv, TypeOK
    <2> QED BY <2>1, <1>8, <1>9, <1>10 DEF IInv, WrittenByOwner
  <1> QED
    BY <1>11, <1>12, <1>13, <1>15, <1>16, <1>17, <1>18, <1>19 DEF IInv

(* The administrator's SELECT.                                              *)
LEMMA LoadLinkIInv ==
  ASSUME IInv, NEW w \in Worker, NEW l \in Link, LoadLink(w, l)
  PROVE  IInv'
  <1> USE DiscordLinksAssumption
  <1>1. /\ TypeOK /\ "delete" \in Phase /\ Present(l) /\ l \in issued
        /\ links[l].user \in User
    BY DEF IInv, Phase, LoadLink, PresentWasIssued, Present, TypeOK, Row
  <1>2. PICK u \in User : u = links[l].user BY <1>1
  <1>3. /\ Doing("delete", u, None, l) \in Request
        /\ Doing("delete", u, None, l).pc = "delete"
        /\ Doing("delete", u, None, l).user = u
        /\ Doing("delete", u, None, l).account = l
    BY <1>1, DoingTyped
  <1>4. /\ Become(w, Doing("delete", u, None, l))
        /\ UNCHANGED <<links, issued, writer>>
    BY <1>2 DEF LoadLink
  <1>5. u # None OBVIOUS
  <1> QED BY <1>1, <1>2, <1>3, <1>4, <1>5, MoveIInv

(* The DELETE.                                                              *)
LEMMA DeleteLinkIInv ==
  ASSUME IInv, NEW w \in Worker, DeleteLink(w)
  PROVE  IInv'
  <1> USE DiscordLinksAssumption
  <1> DEFINE l == request[w].account
  <1>1. /\ links' = [links EXCEPT ![l] = NoRow]
        /\ writer' = [writer EXCEPT ![l] = None]
        /\ request' = [request EXCEPT ![w] = Idle]
        /\ issued' = issued
    BY DEF DeleteLink, Become
  <1> HIDE DEF l
  <1>2. \A m \in Link : links'[m] = IF m = l THEN NoRow ELSE links[m]
    BY <1>1 DEF IInv, TypeOK
  <1>3. \A m \in Link : Present(m)' <=> (m # l /\ Present(m))
    BY <1>2 DEF Present, NoRow
  <1>4. NoRow \in Row /\ Idle \in Request /\ Idle.pc = "idle" /\ Idle.account = None
    BY DEF NoRow, Row, Idle, Request, Phase
  <1>5. TypeOK' BY <1>1, <1>4 DEF IInv, TypeOK
  <1>6. AbsentIsEmpty' BY <1>2, <1>3 DEF IInv, AbsentIsEmpty
  <1>7. PresentWasIssued' BY <1>1, <1>3 DEF IInv, PresentWasIssued
  <1>8. \A v \in Worker : request'[v] = IF v = w THEN Idle ELSE request[v]
    BY <1>1 DEF IInv, TypeOK
  <1>9. BusyForUser' BY <1>4, <1>8 DEF IInv, BusyForUser, At
  <1>10. HoldsOwnLink'
    <2> SUFFICES ASSUME NEW v \in Worker, request'[v].account # None
                 PROVE  /\ request'[v].account \in issued'
                        /\ links'[request'[v].account].user # None =>
                             links'[request'[v].account].user = request'[v].user
      BY DEF HoldsOwnLink, Present
    <2>1. v # w /\ request'[v] = request[v] BY <1>4, <1>8
    <2>2. request[v].account \in Link BY <2>1 DEF IInv, TypeOK, Request
    <2> QED BY <2>1, <2>2, <1>1, <1>2, <1>3 DEF IInv, HoldsOwnLink, Present
  <1>11. OneLinkEach' BY <1>2, <1>3 DEF IInv, OneLinkEach
  <1>12. HoldsFoundLink'
    <2> SUFFICES ASSUME NEW v \in Worker, request'[v].pc = "resolve",
                        links'[request'[v].account].user # None
                 PROVE  links'[request'[v].account].discord = request'[v].discord
      BY DEF HoldsFoundLink, Present, At
    <2>1. v # w /\ request'[v] = request[v] BY <1>4, <1>8
    <2>2. request[v].account \in Link
      BY <2>1 DEF IInv, TypeOK, Request, BusyForUser, At
    <2> QED BY <2>1, <2>2, <1>2, <1>3 DEF IInv, HoldsFoundLink, Present, At
  <1>13. WrittenByOwner'
    <2>1. \A m \in Link : m # l => writer'[m] = writer[m]
      BY <1>1 DEF IInv, TypeOK
    <2> QED BY <2>1, <1>2, <1>3 DEF IInv, WrittenByOwner
  <1> QED
    BY <1>5, <1>6, <1>7, <1>9, <1>10, <1>11, <1>12, <1>13 DEF IInv

(* The join of a look-up: it holds the row it matched.                      *)
LEMMA FindUserIInv ==
  ASSUME IInv, NEW w \in Worker, NEW l \in Link, FindUser(w, l)
  PROVE  IInv'
  <1> USE DiscordLinksAssumption
  <1> DEFINE q == [Idle EXCEPT !.pc = "resolve", !.user = links[l].user,
                               !.discord = links[l].discord, !.account = l]
  <1>1. /\ Present(l) /\ l \in issued /\ links[l] \in Row /\ links[l].user # None
    BY DEF IInv, FindUser, PresentWasIssued, Present, TypeOK
  <1>2. /\ q \in Request
        /\ q.pc = "resolve" /\ q.user = links[l].user /\ q.account = l
        /\ q.discord = links[l].discord
    BY <1>1 DEF Row, Request, Phase, Idle
  <1>3. PICK r \in Request : r = q BY <1>2
  <1>4. Become(w, r) /\ UNCHANGED <<links, issued, writer>> BY <1>3 DEF FindUser
  <1>5. /\ r.pc = "resolve" /\ r.user = links[l].user /\ r.account = l
        /\ r.discord = links[l].discord
    BY <1>2, <1>3
  <1> HIDE DEF q
  <1> QED BY <1>1, <1>4, <1>5, MoveIInv

(* The second SELECT of a look-up: it holds the user's link as it is now.   *)
LEMMA LoadAccountIInv ==
  ASSUME IInv, NEW w \in Worker, LoadAccount(w)
  PROVE  IInv'
  <1> USE DiscordLinksAssumption
  <1> DEFINE r == request[w]
  <1>1. r \in Request /\ r.user # None /\ UNCHANGED <<links, issued, writer>>
    BY DEF IInv, TypeOK, BusyForUser, LoadAccount, At
  <1>2. CASE Become(w, Idle) BY <1>1, <1>2, StopIInv
  <1>3. ASSUME NEW l \in LinksOf(r.user),
               Become(w, [r EXCEPT !.pc = "answer", !.account = l])
        PROVE  IInv'
    <2>1. l \in Link /\ Present(l) /\ links[l].user = r.user BY DEF LinksOf
    <2>2. l \in issued BY <2>1 DEF IInv, PresentWasIssued
    <2>3. PICK q \in Request : /\ q.pc = "answer" /\ q.user = r.user /\ q.account = l
                               /\ q = [r EXCEPT !.pc = "answer", !.account = l]
      BY <1>1, <2>1 DEF Request, Phase
    <2>4. Become(w, q) BY <1>3, <2>3
    <2> HIDE DEF r
    <2> QED BY <1>1, <2>1, <2>2, <2>3, <2>4, MoveIInv
  <1> QED BY <1>2, <1>3 DEF LoadAccount

-----------------------------------------------------------------------------
(* Every step keeps the invariant.                                          *)
LEMMA StepIInv == IInv /\ [Next]_vars => IInv'
  <1> SUFFICES ASSUME IInv, [Next]_vars PROVE IInv'
    OBVIOUS
  <1>1. ASSUME NEW w \in Worker, NEW u \in User, NEW d \in Discord,
               LoadUser(w, u, d)
        PROVE  IInv'
    BY <1>1, LoadUserIInv
  <1>2. ASSUME NEW w \in Worker, CheckDiscord(w) PROVE IInv'
    BY <1>2, CheckDiscordIInv
  <1>3. ASSUME NEW w \in Worker, InsertLink(w) PROVE IInv'
    BY <1>3, InsertLinkIInv
  <1>4. ASSUME NEW w \in Worker, UpdateLink(w) PROVE IInv'
    BY <1>4, UpdateLinkIInv
  <1>5. ASSUME NEW w \in Worker,
               \/ InsertFails(w) \/ UpdateFails(w) \/ Reread(w)
               \/ AnswerLookup(w) \/ Abort(w)
        PROVE  IInv'
    BY <1>5, StopIInv DEF InsertFails, UpdateFails, Reread, AnswerLookup, Abort
  <1>6. ASSUME NEW w \in Worker, NEW l \in Link, LoadLink(w, l) PROVE IInv'
    BY <1>6, LoadLinkIInv
  <1>7. ASSUME NEW w \in Worker, DeleteLink(w) PROVE IInv'
    BY <1>7, DeleteLinkIInv
  <1>8. ASSUME NEW w \in Worker, NEW l \in Link, FindUser(w, l) PROVE IInv'
    BY <1>8, FindUserIInv
  <1>9. ASSUME NEW w \in Worker, LoadAccount(w) PROVE IInv'
    BY <1>9, LoadAccountIInv
  <1>10. CASE UNCHANGED vars
    BY <1>10
    DEF vars, IInv, TypeOK, AbsentIsEmpty, PresentWasIssued, BusyForUser,
        HoldsOwnLink, HoldsFoundLink, OneLinkEach, WrittenByOwner, Present, At
  <1> QED
    BY <1>1, <1>2, <1>3, <1>4, <1>5, <1>6, <1>7, <1>8, <1>9, <1>10
    DEF Next, LinkMyDiscord, DeleteDiscordLink, ResolveDiscordUser

(* In every behaviour, requests hold their own user's link or none.         *)
THEOREM LinkInvariant == Spec => []IInv
  <1>1. Init => IInv BY InitIInv
  <1>2. IInv /\ [Next]_vars => IInv' BY StepIInv
  <1> QED BY <1>1, <1>2, PTL DEF Spec

(* However PUT /discord/me and admin deletions interleave, every variable   *)
(* keeps its type.                                                          *)
THEOREM TypeCorrect == Spec => []TypeOK
  <1>1. IInv => TypeOK BY DEF IInv
  <1> QED BY <1>1, LinkInvariant, PTL

(* Whatever links are made between a request's checks and its INSERT, users *)
(* and Discord identities are linked one to one.                            *)
THEOREM LinksAreOneToOne == Spec => []OneLinkEach
  <1>1. IInv => OneLinkEach BY DEF IInv
  <1> QED BY <1>1, LinkInvariant, PTL

(* An update only ever writes the row of the user who asked, however stale  *)
(* the object it was loaded into.                                           *)
THEOREM OwnersWrite == Spec => []WrittenByOwner
  <1>1. IInv => WrittenByOwner BY DEF IInv
  <1> QED BY <1>1, LinkInvariant, PTL

(* DELETE /admin/discord/links/{id} hits the link it looked up, or nothing. *)
THEOREM DeletesHitTheirTarget == Spec => []DeleteHitsTarget
  <1>1. IInv => DeleteHitsTarget
    BY DiscordLinksAssumption
    DEF IInv, DeleteHitsTarget, HoldsOwnLink, BusyForUser
  <1> QED BY <1>1, LinkInvariant, PTL

(* No request that loaded a link before it was deleted brings it back.      *)
THEOREM DeletionHolds == Spec => DeletedStaysDeleted
  <1> DEFINE Stays == \A l \in Link : l \in issued /\ ~ Present(l) => links'[l] = NoRow
  <1>1. ASSUME IInv, [Next]_vars PROVE Stays
    <2> SUFFICES ASSUME NEW l \in Link, l \in issued, ~ Present(l)
                 PROVE  links'[l] = NoRow
      OBVIOUS
    <2>1. links[l] = NoRow BY <1>1 DEF IInv, AbsentIsEmpty
    <2>2. links' = links \/ \E w \in Worker :
            InsertLink(w) \/ UpdateLink(w) \/ DeleteLink(w)
      BY <1>1 DEF Next, LinkMyDiscord, DeleteDiscordLink, ResolveDiscordUser,
                  LoadUser, CheckDiscord, InsertFails, UpdateFails, Reread,
                  LoadLink, FindUser, LoadAccount, AnswerLookup, Abort, vars
    <2>3. ASSUME NEW w \in Worker, InsertLink(w) PROVE links'[l] = NoRow
      <3>1. PICK m \in Link : /\ m \notin issued
                              /\ \E row : links' = [links EXCEPT ![m] = row]
        BY <2>3 DEF InsertLink, FreshId
      <3> QED BY <3>1, <2>1, <1>1 DEF IInv, TypeOK
    <2>4. ASSUME NEW w \in Worker, UpdateLink(w) PROVE links'[l] = NoRow
      <3>1. PICK m : /\ Present(m)
                     /\ \E p : links' = [links EXCEPT ![m].profile = p]
        BY <2>4 DEF UpdateLink
      <3> QED BY <3>1, <2>1, <1>1 DEF IInv, TypeOK
    <2>5. ASSUME NEW w \in Worker, DeleteLink(w) PROVE links'[l] = NoRow
      <3>1. PICK m : links' = [links EXCEPT ![m] = NoRow]
        BY <2>5 DEF DeleteLink
      <3> QED BY <3>1, <2>1, <1>1 DEF IInv, TypeOK
    <2> QED BY <2>1, <2>2, <2>3, <2>4, <2>5
  <1>2. IInv /\ [Next]_vars => [Stays]_vars BY <1>1
  <1> QED BY <1>2, LinkInvariant, PTL DEF Spec, DeletedStaysDeleted

-----------------------------------------------------------------------------
(* Only the second SELECT of a look-up turns "resolve" into "answer".       *)
LEMMA AnswersFromLoad ==
  ASSUME IInv, Next, NEW w \in Worker,
         At(w, "resolve"), request'[w].pc = "answer"
  PROVE  LoadAccount(w)
  <1>1. ASSUME NEW v \in Worker, v # w, NEW q, Become(v, q) PROVE FALSE
    BY <1>1 DEF Become, IInv, TypeOK, At
  <1>2. \A q : Become(w, q) => request'[w] = q BY DEF Become, IInv, TypeOK
  <1>3. ~ Become(w, Idle) BY <1>2 DEF Idle
  <1>4. PICK v \in Worker :
          LinkMyDiscord(v) \/ DeleteDiscordLink(v) \/ ResolveDiscordUser(v) \/ Abort(v)
    BY DEF Next
  <1>5. v = w
    BY <1>1, <1>4
    DEF LinkMyDiscord, DeleteDiscordLink, ResolveDiscordUser, Abort, LoadUser,
        CheckDiscord, InsertLink, InsertFails, UpdateLink, UpdateFails, Reread,
        LoadLink, DeleteLink, FindUser, LoadAccount, AnswerLookup
  <1> QED
    BY <1>3, <1>4, <1>5
    DEF LinkMyDiscord, DeleteDiscordLink, ResolveDiscordUser, Abort, LoadUser,
        CheckDiscord, InsertLink, InsertFails, UpdateLink, UpdateFails, Reread,
        LoadLink, DeleteLink, FindUser, AnswerLookup, At

(* GET /discord/users/{id} answers with the identity it was asked about,    *)
(* unless the link it found was deleted before its second SELECT.           *)
THEOREM LookupsResolve == Spec => ResolvedAsAsked
  <1> USE DiscordLinksAssumption
  <1> DEFINE Good(w) ==
               LET found == request[w].account
                   answered == links[request'[w].account]
               IN  /\ answered.user = request[w].user
                   /\ answered.discord = request[w].discord \/ ~ Present(found)
             Resolves ==
               \A w \in Worker :
                 At(w, "resolve") /\ request'[w].pc = "answer" => Good(w)
  <1>1. ASSUME IInv, Next, NEW w \in Worker,
               At(w, "resolve"), request'[w].pc = "answer"
        PROVE  Good(w)
    <2> DEFINE r == request[w]
    <2>1. LoadAccount(w) BY <1>1, AnswersFromLoad
    <2>2. r \in Request /\ r.account \in Link
      BY <1>1 DEF IInv, TypeOK, BusyForUser, Request
    <2>3. ~ Become(w, Idle) BY <1>1 DEF Become, Idle, IInv, TypeOK
    <2>4. PICK l \in LinksOf(r.user) : Become(w, [r EXCEPT !.pc = "answer", !.account = l])
      BY <2>1, <2>3 DEF LoadAccount
    <2>5. request'[w] = [r EXCEPT !.pc = "answer", !.account = l]
      BY <1>1, <2>4 DEF Become, IInv, TypeOK
    <2>6. l \in Link /\ Present(l) /\ links[l].user = r.user /\ request'[w].account = l
      BY <2>2, <2>5, <2>4 DEF LinksOf, Request
    <2>7. CASE Present(r.account)
      <3>1. /\ links[r.account].user = r.user
            /\ links[r.account].discord = r.discord
        BY <1>1, <2>2, <2>7 DEF IInv, HoldsOwnLink, HoldsFoundLink, Request
      <3>2. r.account = l BY <1>1, <2>2, <2>6, <2>7, <3>1 DEF IInv, OneLinkEach
      <3> QED BY <2>6, <3>1, <3>2
    <2> QED BY <2>6, <2>7
  <1>2. IInv /\ [Next]_vars => [Resolves]_vars BY <1>1
  <1> QED BY <1>2, LinkInvariant, PTL DEF Spec, ResolvedAsAsked

-----------------------------------------------------------------------------
(* What PUT /discord/me answers with.                                       *)

(* A request on its way to a write knows the identity it is to link, and    *)
(* has read the profile of the row it holds.                                *)
KnowsIdentity ==
  \A w \in Worker : At(w, "check") \/ At(w, "write") =>
    /\ request[w].discord # None
    /\ request[w].account # None => request[w].loaded # None

ProfilesKnown == \A l \in Link : Present(l) => links[l].profile # None

(* Of a user who had no link when the request began, PUT /discord/me makes  *)
(* the link it was asked to make: the answer names another identity only if *)
(* the user was linked before.                                              *)
FirstLinkAsAsked ==
  \A w \in Worker :
    /\ At(w, "reread") /\ request[w].loaded = None
    /\ Present(request[w].account)
    => links[request[w].account].discord = request[w].discord

AskInv == KnowsIdentity /\ ProfilesKnown /\ FirstLinkAsAsked

(* A step that leaves the table alone and writes no answer.                 *)
LEMMA MoveAsks ==
  ASSUME IInv, AskInv, NEW w \in Worker, NEW r, Become(w, r), UNCHANGED links,
         r.pc \in {"check", "write"} =>
           r.discord # None /\ (r.account # None => r.loaded # None),
         r.pc # "reread"
  PROVE  AskInv'
  <1>1. \A v \in Worker : request'[v] = IF v = w THEN r ELSE request[v]
    BY DEF Become, IInv, TypeOK
  <1>2. KnowsIdentity' BY <1>1 DEF AskInv, KnowsIdentity, At
  <1>3. ProfilesKnown' BY DEF AskInv, ProfilesKnown, Present
  <1>4. FirstLinkAsAsked' BY <1>1 DEF AskInv, FirstLinkAsAsked, At, Present
  <1> QED BY <1>2, <1>3, <1>4 DEF AskInv

(* Loading the user: the row held, if any, has a profile.                   *)
LEMMA LoadUserAsks ==
  ASSUME IInv, AskInv, NEW w \in Worker, NEW u \in User, NEW d \in Discord,
         LoadUser(w, u, d)
  PROVE  AskInv'
  <1> USE DiscordLinksAssumption
  <1>1. PICK l \in LinksOf(u) \cup {None} : Become(w, Doing("check", u, d, l))
    BY DEF LoadUser
  <1>2. /\ Doing("check", u, d, l).pc = "check"
        /\ Doing("check", u, d, l).discord = d
        /\ Doing("check", u, d, l).account = l
        /\ Doing("check", u, d, l).loaded = IF l = None THEN None ELSE links[l].profile
    BY DEF Doing
  <1>3. l # None => links[l].profile # None
    BY DEF LinksOf, AskInv, ProfilesKnown
  <1>4. d # None /\ links' = links BY DEF LoadUser
  <1> QED BY <1>1, <1>2, <1>3, <1>4, MoveAsks

(* The INSERT links what was asked, under an id that nobody else holds.     *)
LEMMA InsertAsks ==
  ASSUME IInv, AskInv, NEW w \in Worker, InsertLink(w)
  PROVE  AskInv'
  <1> USE DiscordLinksAssumption
  <1> DEFINE r == request[w]
  <1>1. r \in Request /\ r.discord # None
    BY DEF InsertLink, IInv, TypeOK, AskInv, KnowsIdentity
  <1>2. PICK l \in Link :
          /\ FreshId(l)
          /\ links' = [links EXCEPT ![l] = [user |-> r.user, discord |-> r.discord,
                                            profile |-> r.discord]]
          /\ Become(w, [r EXCEPT !.pc = "reread", !.account = l])
    BY DEF InsertLink
  <1>3. PICK q : /\ q = [r EXCEPT !.pc = "reread", !.account = l]
                 /\ q.pc = "reread" /\ q.account = l /\ q.discord = r.discord
    <2> DEFINE q0 == [r EXCEPT !.pc = "reread", !.account = l]
    <2>1. q0.pc = "reread" /\ q0.account = l /\ q0.discord = r.discord
      BY <1>1 DEF Request
    <2> QED BY <2>1
  <1>4. \A m \in Link : m # l => links'[m] = links[m]
    BY <1>2 DEF IInv, TypeOK
  <1>5. links'[l].discord = r.discord /\ links'[l].profile = r.discord
    BY <1>2 DEF IInv, TypeOK
  <1>6. \A v \in Worker : request'[v] = IF v = w THEN q ELSE request[v]
    BY <1>2, <1>3 DEF Become, IInv, TypeOK
  <1>7. \A v \in Worker : request[v].account # l
    BY <1>2 DEF FreshId, IInv, HoldsOwnLink
  <1> HIDE DEF r
  <1>8. KnowsIdentity' BY <1>3, <1>6 DEF AskInv, KnowsIdentity, At
  <1>9. ProfilesKnown' BY <1>1, <1>4, <1>5 DEF AskInv, ProfilesKnown, Present
  <1>10. FirstLinkAsAsked'
    <2> SUFFICES ASSUME NEW v \in Worker, request'[v].pc = "reread",
                        request'[v].loaded = None,
                        links'[request'[v].account].user # None
                 PROVE  links'[request'[v].account].discord = request'[v].discord
      BY DEF FirstLinkAsAsked, At, Present
    <2>1. CASE v = w BY <2>1, <1>3, <1>5, <1>6
    <2>2. CASE v # w
      <3>1. request'[v] = request[v] BY <2>2, <1>6
      <3>2. request[v].account \in Link \cup {None}
        BY DEF IInv, TypeOK, Request
      <3>3. CASE request[v].account \in Link
        <4>1. links'[request[v].account] = links[request[v].account]
          BY <3>3, <1>4, <1>7
        <4> QED BY <3>1, <4>1 DEF AskInv, FirstLinkAsAsked, At, Present
      <3>4. CASE request[v].account = None
        BY <3>1, <3>4, <1>2 DEF IInv, TypeOK, AskInv, FirstLinkAsAsked, At, Present
      <3> QED BY <3>2, <3>3, <3>4
    <2> QED BY <2>1, <2>2
  <1> QED BY <1>8, <1>9, <1>10 DEF AskInv

(* The UPDATE is not of a first link; no other row changes its identity.    *)
LEMMA UpdateAsks ==
  ASSUME IInv, AskInv, NEW w \in Worker, UpdateLink(w)
  PROVE  AskInv'
  <1> DEFINE r == request[w]
  <1>1. /\ r \in Request /\ r.discord # None /\ r.account \in Link
        /\ r.loaded # None /\ Present(r.account)
    BY DEF UpdateLink, IInv, TypeOK, AskInv, KnowsIdentity, Request
  <1>2. PICK l, p : /\ l \in Link /\ l = r.account /\ Present(l)
                   /\ links' = [links EXCEPT ![l].profile = p]
                   /\ p # None
    BY <1>1 DEF UpdateLink, AskInv, ProfilesKnown
  <1>3. PICK q : /\ Become(w, q) /\ q.pc = "reread" /\ q.loaded # None
    <2>1. [r EXCEPT !.pc = "reread"].loaded # None
      BY <1>1 DEF Request
    <2>2. [r EXCEPT !.pc = "reread"].pc = "reread" BY <1>1 DEF Request
    <2>3. Become(w, [r EXCEPT !.pc = "reread"]) BY DEF UpdateLink
    <2> QED BY <2>1, <2>2, <2>3
  <1> HIDE DEF r
  <1>4. \A m : /\ links'[m].user = links[m].user
               /\ links'[m].discord = links[m].discord
    BY <1>2 DEF IInv, TypeOK, Row
  <1>5. \A m \in Link : Present(m) => links'[m].profile # None
    BY <1>2 DEF IInv, TypeOK, Row, AskInv, ProfilesKnown
  <1>6. \A v \in Worker : request'[v] = IF v = w THEN q ELSE request[v]
    BY <1>3 DEF Become, IInv, TypeOK
  <1>7. KnowsIdentity' BY <1>3, <1>6 DEF AskInv, KnowsIdentity, At
  <1>8. ProfilesKnown' BY <1>4, <1>5 DEF ProfilesKnown, Present
  <1>9. FirstLinkAsAsked'
    BY <1>3, <1>4, <1>6 DEF AskInv, FirstLinkAsAsked, At, Present
  <1> QED BY <1>7, <1>8, <1>9 DEF AskInv

(* The DELETE only takes rows away.                                         *)
LEMMA DeleteAsks ==
  ASSUME IInv, AskInv, NEW w \in Worker, DeleteLink(w)
  PROVE  AskInv'
  <1>1. PICK l : links' = [links EXCEPT ![l] = NoRow] /\ Become(w, Idle)
    BY DEF DeleteLink
  <1>2. \A m : links'[m].user # None => links'[m] = links[m]
    BY <1>1 DEF IInv, TypeOK, NoRow
  <1>3. \A v \in Worker : request'[v] = IF v = w THEN Idle ELSE request[v]
    BY <1>1 DEF Become, IInv, TypeOK
  <1>4. Idle.pc = "idle" BY DEF Idle
  <1>5. KnowsIdentity' BY <1>3, <1>4 DEF AskInv, KnowsIdentity, At
  <1>6. ProfilesKnown' BY <1>2 DEF AskInv, ProfilesKnown, Present
  <1>7. FirstLinkAsAsked'
    BY <1>2, <1>3, <1>4 DEF AskInv, FirstLinkAsAsked, At, Present
  <1> QED BY <1>5, <1>6, <1>7 DEF AskInv

(* Every step keeps what requests know and what first links are.            *)
LEMMA AskStep ==
  ASSUME IInv, AskInv, [Next]_vars
  PROVE  AskInv'
  <1> USE DiscordLinksAssumption
  <1>1. Idle.pc = "idle" BY DEF Idle
  <1>2. ASSUME NEW w \in Worker, CheckDiscord(w) PROVE AskInv'
    <2> DEFINE q == [request[w] EXCEPT !.pc = "write"]
    <2>1. /\ request[w].discord # None
          /\ request[w].account # None => request[w].loaded # None
      BY <1>2 DEF CheckDiscord, AskInv, KnowsIdentity
    <2>2. /\ q.pc = "write" /\ q.discord = request[w].discord
          /\ q.account = request[w].account /\ q.loaded = request[w].loaded
      BY DEF IInv, TypeOK, Request
    <2>3. (Become(w, q) \/ Become(w, Idle)) /\ links' = links
      BY <1>2 DEF CheckDiscord
    <2> HIDE DEF q
    <2> QED BY <1>1, <2>1, <2>2, <2>3, MoveAsks
  <1>3. ASSUME NEW w \in Worker, NEW l \in Link, LoadLink(w, l) PROVE AskInv'
    <2>1. Doing("delete", links[l].user, None, l).pc = "delete" BY DEF Doing
    <2> QED BY <1>3, <2>1, MoveAsks DEF LoadLink
  <1>4. ASSUME NEW w \in Worker, NEW l \in Link, FindUser(w, l) PROVE AskInv'
    <2>1. [Idle EXCEPT !.pc = "resolve", !.user = links[l].user,
                       !.discord = links[l].discord, !.account = l].pc = "resolve"
      BY DEF Idle
    <2> QED BY <1>4, <2>1, MoveAsks DEF FindUser
  <1>5. ASSUME NEW w \in Worker, LoadAccount(w) PROVE AskInv'
    <2>1. \A l : [request[w] EXCEPT !.pc = "answer", !.account = l].pc = "answer"
      BY DEF IInv, TypeOK, Request
    <2>2. CASE Become(w, Idle) BY <1>1, <1>5, <2>2, MoveAsks DEF LoadAccount
    <2>3. ASSUME NEW l, Become(w, [request[w] EXCEPT !.pc = "answer", !.account = l])
          PROVE  AskInv'
      BY <1>5, <2>1, <2>3, MoveAsks DEF LoadAccount
    <2> QED BY <1>5, <2>2, <2>3 DEF LoadAccount
  <1>6. ASSUME NEW w \in Worker,
               \/ InsertFails(w) \/ UpdateFails(w) \/ Reread(w)
               \/ AnswerLookup(w) \/ Abort(w)
        PROVE  AskInv'
    BY <1>1, <1>6, MoveAsks DEF InsertFails, UpdateFails, Reread, AnswerLookup, Abort
  <1>7. CASE UNCHANGED vars
    BY <1>7 DEF vars, AskInv, KnowsIdentity, ProfilesKnown, FirstLinkAsAsked, At, Present
  <1> QED
    BY <1>2, <1>3, <1>4, <1>5, <1>6, <1>7, LoadUserAsks, InsertAsks, UpdateAsks, DeleteAsks
    DEF Next, LinkMyDiscord, DeleteDiscordLink, ResolveDiscordUser

(* In every behaviour, what is about to be inserted is a whole link.        *)
LEMMA AskInvariant == Spec => []AskInv
  <1>1. Init => AskInv
    BY DEF Init, AskInv, KnowsIdentity, ProfilesKnown, FirstLinkAsAsked, At, Idle,
           Present, NoRow
  <1> QED BY <1>1, AskStep, LinkInvariant, PTL DEF Spec

(* A user without a link who asks for one gets the one asked for: a request *)
(* is answered with another identity only when its user was linked before.  *)
THEOREM FirstLinksAreAsAsked == Spec => []FirstLinkAsAsked
  <1>1. AskInv => FirstLinkAsAsked BY DEF AskInv
  <1> QED BY <1>1, AskInvariant, PTL

-----------------------------------------------------------------------------
(* Refinement of the contract.                                              *)

(* The pairs of a table.                                                    *)
Pairs == {<<links[l].user, links[l].discord>> : l \in {l \in Link : Present(l)}}

(* An INSERT links a user and an identity neither of which was linked.      *)
LEMMA InsertLinks ==
  ASSUME IInv, AskInv, NEW w \in Worker, InsertLink(w)
  PROVE  Map!Next
  <1> USE DiscordLinksAssumption
  <1>1. /\ request[w] \in Request /\ request[w].user # None
        /\ request[w].discord # None
    BY DEF InsertLink, IInv, TypeOK, BusyForUser, AskInv, KnowsIdentity, At
  <1>2. PICK u \in User, d \in Discord : request[w].user = u /\ request[w].discord = d
    BY <1>1 DEF Request
  <1>3. Unique(u, d) BY <1>2 DEF InsertLink
  <1>4. PICK l \in Link :
          /\ FreshId(l)
          /\ links' = [links EXCEPT ![l] = [user |-> u, discord |-> d, profile |-> d]]
    BY <1>2 DEF InsertLink
  <1>5. ~ Present(l) BY <1>4 DEF FreshId, IInv, PresentWasIssued
  <1>6. \A m \in Link : links'[m] = IF m = l THEN [user |-> u, discord |-> d, profile |-> d]
                                            ELSE links[m]
    BY <1>4 DEF IInv, TypeOK
  <1>7. u # None OBVIOUS
  <1>8. Pairs' = Pairs \cup {<<u, d>>}
    BY <1>5, <1>6, <1>7 DEF Pairs, Present
  <1>9. \A pair \in Pairs : pair[1] # u /\ pair[2] # d
    BY <1>3 DEF Pairs, Unique, LinksOf, LinksTo
  <1>10. Map!Join(u, d) BY <1>8, <1>9 DEF Map!Join, Pairs
  <1> QED BY <1>10 DEF Map!Next

(* An UPDATE leaves the pairs as they are.                                  *)
LEMMA UpdateLinksNothing ==
  ASSUME IInv, NEW w \in Worker, UpdateLink(w)
  PROVE  Pairs' = Pairs
  <1>1. PICK l, p : links' = [links EXCEPT ![l].profile = p]
    BY DEF UpdateLink
  <1>2. \A m \in Link : /\ links'[m].user = links[m].user
                        /\ links'[m].discord = links[m].discord
    BY <1>1 DEF IInv, TypeOK, Row
  <1> QED BY <1>2 DEF Pairs, Present

(* A DELETE takes the one pair its row stood for, if the row is there.      *)
LEMMA DeleteUnlinks ==
  ASSUME IInv, NEW w \in Worker, DeleteLink(w)
  PROVE  Map!Next \/ Pairs' = Pairs
  <1>1. PICK l : links' = [links EXCEPT ![l] = NoRow]
    BY DEF DeleteLink
  <1>2. \A m \in Link : Present(m)' <=> Present(m) /\ m # l
    BY <1>1 DEF IInv, TypeOK, Present, NoRow
  <1>3. \A m \in Link : m # l => links'[m] = links[m]
    BY <1>1 DEF IInv, TypeOK
  <1>4. CASE l \in Link /\ Present(l)
    <2>1. PICK pair : pair = <<links[l].user, links[l].discord>> OBVIOUS
    <2>2. pair \in Pairs BY <1>4, <2>1 DEF Pairs
    <2>3. \A m \in Link : Present(m) /\ <<links[m].user, links[m].discord>> = pair => m = l
      BY <1>4, <2>1 DEF IInv, OneLinkEach
    <2>4. Pairs' = Pairs \ {pair}
      BY <1>2, <1>3, <2>3, <2>1 DEF Pairs
    <2>5. Map!Part(pair) BY <2>4 DEF Map!Part, Pairs
    <2> QED BY <2>2, <2>5 DEF Map!Next, Pairs
  <1>5. CASE ~ (l \in Link /\ Present(l))
    BY <1>2, <1>3, <1>5 DEF Pairs
  <1> QED BY <1>4, <1>5

(* The table keeps the contract of linking: users and identities are linked *)
(* one to one, whole links come and go, and none is ever moved.             *)
THEOREM LinkRefinement == Spec => LinkContractHolds
  <1>1. Init => Map!Init BY DEF Init, Map!Init, Present, NoRow
  <1>2. IInv /\ AskInv /\ [Next]_vars => [Map!Next]_Pairs
    <2> SUFFICES ASSUME IInv, AskInv, [Next]_vars PROVE [Map!Next]_Pairs
      OBVIOUS
    <2>1. CASE links' = links BY <2>1 DEF Pairs, Present
    <2>2. links' = links \/ \E w \in Worker :
            InsertLink(w) \/ UpdateLink(w) \/ DeleteLink(w)
      BY DEF Next, LinkMyDiscord, DeleteDiscordLink, ResolveDiscordUser,
             LoadUser, CheckDiscord, InsertFails, UpdateFails, Reread,
             LoadLink, FindUser, LoadAccount, AnswerLookup, Abort, vars
    <2> QED BY <2>1, <2>2, InsertLinks, UpdateLinksNothing, DeleteUnlinks
  <1> QED BY <1>1, <1>2, LinkInvariant, AskInvariant, PTL
          DEF Spec, LinkContractHolds, Map!Spec, Pairs

=============================================================================
