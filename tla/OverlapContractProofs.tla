----------------------- MODULE OverlapContractProofs ------------------------
(***************************************************************************)
(* What the contract of overlapping refreshes implies, for any numbers of  *)
(* accounts, tokens and requests: whatever implements it has this too.     *)
(***************************************************************************)
EXTENDS OverlapContract, TLAPS

(* Claims are on tokens that exist, and what was never granted is blank.    *)
ClaimsHold ==
  \A w \in Worker : claim[w] # None => state[claim[w]] # "absent"

AbsentBlank ==
  \A s \in Session : state[s] = "absent" =>
    owner[s] = None /\ next[s] = None /\ family[s] = None

ContractInv == ContractTypeOK /\ ClaimsHold /\ AbsentBlank /\ SuccessorsFollow

(* None is neither an account nor a token.                                  *)
Distinct == None \notin User \cup Session

(* Nothing is granted, claimed or exchanged at first.                       *)
LEMMA InitContractInv == Init => ContractInv
BY DEF Init, ContractInv, ContractTypeOK, ClaimsHold, AbsentBlank, SuccessorsFollow

(* What an exchange does to the tokens, spelled out.                        *)
LEMMA ExchangeEffect ==
  ASSUME Distinct, ContractInv, NEW w \in Worker, NEW t \in Session, Exchange(w, t)
  PROVE  \E s \in Session :
           /\ s = claim[w] /\ s # t
           /\ state[s] # "absent" /\ state[t] = "absent"
           /\ state'[s] = "revoked" /\ state'[t] = "open"
           /\ next'[s] = t /\ next'[t] = None
           /\ owner'[t] = owner[s] /\ owner'[s] = owner[s]
           /\ family'[t] = family[s] /\ family'[s] = family[s]
           /\ \A q \in Session \ {s, t} :
                /\ state'[q] = state[q] /\ next'[q] = next[q]
                /\ owner'[q] = owner[q] /\ family'[q] = family[q]
           /\ claim'[w] = None
           /\ \A v \in Worker \ {w} : claim'[v] = claim[v]
<1>1. claim[w] # None /\ state[t] = "absent"
  BY DEF Exchange
<1>2. claim[w] \in Session /\ state[claim[w]] # "absent"
  BY <1>1 DEF ContractInv, ContractTypeOK, ClaimsHold
<1>3. next[t] = None
  BY <1>1 DEF ContractInv, AbsentBlank
<1> QED
  BY <1>1, <1>2, <1>3 DEF Exchange, ContractInv, ContractTypeOK

(* Every step keeps the tokens that exist, with their account and login.    *)
Kept ==
  \A s \in Session : state[s] # "absent" =>
    /\ state'[s] # "absent"
    /\ owner'[s] = owner[s]
    /\ family'[s] = family[s]
    /\ state[s] = "revoked" => state'[s] = "revoked"

LEMMA NextKept ==
  ASSUME Distinct, ContractInv, [Next]_overlapVars
  PROVE  Kept
<1> USE DEF Kept, ContractInv, ContractTypeOK
<1>1. ASSUME NEW w \in Worker, NEW u \in User, NEW s \in Session, Grant(w, u, s)
      PROVE  Kept
  BY <1>1 DEF Grant
<1>2. ASSUME NEW w \in Worker, NEW s \in Session, Claim(w, s)
      PROVE  Kept
  BY <1>2 DEF Claim
<1>3. ASSUME NEW w \in Worker, NEW t \in Session, Exchange(w, t)
      PROVE  Kept
  BY <1>3, ExchangeEffect
<1>4. ASSUME NEW w \in Worker, Drop(w)
      PROVE  Kept
  BY <1>4 DEF Drop
<1>5. ASSUME NEW w \in Worker, NEW S \in SUBSET Session, Revoke(w, S)
      PROVE  Kept
  BY <1>5 DEF Revoke
<1>6. CASE UNCHANGED overlapVars
  BY <1>6 DEF overlapVars
<1> QED
  BY <1>1, <1>2, <1>3, <1>4, <1>5, <1>6 DEF Next

(* The invariant is inductive.                                              *)
LEMMA NextContractInv ==
  ASSUME Distinct, ContractInv, [Next]_overlapVars
  PROVE  ContractInv'
<1> USE DEF ContractInv, ContractTypeOK, ClaimsHold, AbsentBlank, SuccessorsFollow
<1>1. ASSUME NEW w \in Worker, NEW u \in User, NEW s \in Session, Grant(w, u, s)
      PROVE  ContractInv'
  <2>1. /\ state'[s] = "open" /\ owner'[s] = u /\ family'[s] = s
        /\ \A q \in Session \ {s} : /\ state'[q] = state[q] /\ owner'[q] = owner[q]
                                    /\ family'[q] = family[q]
        /\ state[s] = "absent"
        /\ next' = next /\ claim' = claim
    BY <1>1 DEF Grant
  <2>2. ContractTypeOK'
    BY <1>1 DEF Grant
  <2>3. ClaimsHold' /\ AbsentBlank'
    BY <2>1
  <2>4. SuccessorsFollow'
    BY <2>1
  <2> QED
    BY <2>2, <2>3, <2>4
<1>2. ASSUME NEW w \in Worker, NEW s \in Session, Claim(w, s)
      PROVE  ContractInv'
  BY <1>2 DEF Claim
<1>3. ASSUME NEW w \in Worker, NEW t \in Session, Exchange(w, t)
      PROVE  ContractInv'
  <2>1. PICK s \in Session :
           /\ s = claim[w] /\ s # t
           /\ state[s] # "absent" /\ state[t] = "absent"
           /\ state'[s] = "revoked" /\ state'[t] = "open"
           /\ next'[s] = t /\ next'[t] = None
           /\ owner'[t] = owner[s] /\ owner'[s] = owner[s]
           /\ family'[t] = family[s] /\ family'[s] = family[s]
           /\ \A q \in Session \ {s, t} :
                /\ state'[q] = state[q] /\ next'[q] = next[q]
                /\ owner'[q] = owner[q] /\ family'[q] = family[q]
           /\ claim'[w] = None
           /\ \A v \in Worker \ {w} : claim'[v] = claim[v]
    BY <1>3, ExchangeEffect
  <2>2. ContractTypeOK'
    <3>1. s # None
      BY <1>3, <2>1 DEF Exchange
    <3> QED
      BY <1>3, <2>1, <3>1 DEF Exchange
  <2>3. ClaimsHold' /\ AbsentBlank'
    BY <2>1
  <2>4. SuccessorsFollow'
    BY <2>1 DEF Distinct
  <2> QED
    BY <2>2, <2>3, <2>4
<1>4. ASSUME NEW w \in Worker, Drop(w)
      PROVE  ContractInv'
  BY <1>4 DEF Drop
<1>5. ASSUME NEW w \in Worker, NEW S \in SUBSET Session, Revoke(w, S)
      PROVE  ContractInv'
  BY <1>5 DEF Revoke
<1>6. CASE UNCHANGED overlapVars
  BY <1>6 DEF overlapVars
<1> QED
  BY <1>1, <1>2, <1>3, <1>4, <1>5, <1>6 DEF Next

(* In any behaviour the contract allows, tokens keep account and login, and *)
(* exchanged tokens are closed and name a successor of the same login.      *)
THEOREM ContractInvariant ==
  ASSUME Distinct
  PROVE  Spec => []ContractInv
BY InitContractInv, NextContractInv, PTL DEF Spec

(* The successor a closed token names is of its account and its login,      *)
(* whatever other requests did with claims on the same token.               *)
THEOREM ContractSuccessors ==
  ASSUME Distinct
  PROVE  Spec => []SuccessorsFollow
BY ContractInvariant, PTL DEF ContractInv

-----------------------------------------------------------------------------
(* Logins that are over.                                                    *)

(* No step reopens a login whose tokens are closed and unclaimed: a claim   *)
(* needs an open token, and an exchange a claim.                            *)
LEMMA OverStep ==
  ASSUME Distinct, ContractInv, [Next]_overlapVars, NEW f \in Session, Over(f)
  PROVE  Over(f)'
<1>1. state'[f] # "absent"
  BY NextKept DEF Kept, Over
<1>2. ASSUME NEW w \in Worker, NEW u \in User, NEW s \in Session, Grant(w, u, s)
      PROVE  Over(f)'
  <2>1. /\ family'[s] = s /\ state[s] = "absent"
        /\ \A q \in Session \ {s} : state'[q] = state[q] /\ family'[q] = family[q]
        /\ claim' = claim
    BY <1>2 DEF Grant, ContractInv, ContractTypeOK
  <2>2. s # f
    BY <2>1 DEF Over
  <2>3. \A v \in Worker : claim[v] # None => claim[v] \in Session \ {s}
    BY <2>1 DEF ContractInv, ContractTypeOK, ClaimsHold
  <2> QED
    BY <1>1, <2>1, <2>2, <2>3 DEF Over
<1>3. ASSUME NEW w \in Worker, NEW s \in Session, Claim(w, s)
      PROVE  Over(f)'
  <2>1. /\ claim'[w] = s /\ family[s] # f
        /\ \A v \in Worker \ {w} : claim'[v] = claim[v]
        /\ UNCHANGED <<state, family>>
    BY <1>3 DEF Claim, Over, ContractInv, ContractTypeOK
  <2> QED
    BY <1>1, <2>1 DEF Over
<1>4. ASSUME NEW w \in Worker, NEW t \in Session, Exchange(w, t)
      PROVE  Over(f)'
  <2>1. PICK s \in Session :
           /\ s = claim[w] /\ s # t
           /\ state[s] # "absent" /\ state[t] = "absent"
           /\ state'[s] = "revoked" /\ state'[t] = "open"
           /\ family'[t] = family[s] /\ family'[s] = family[s]
           /\ \A q \in Session \ {s, t} :
                state'[q] = state[q] /\ family'[q] = family[q]
           /\ claim'[w] = None
           /\ \A v \in Worker \ {w} : claim'[v] = claim[v]
    BY <1>4, ExchangeEffect
  <2>2. family[s] # f
    BY <2>1 DEF Over, Distinct
  <2>3. \A v \in Worker : claim[v] # None => claim[v] \in Session \ {t}
    BY <2>1 DEF ContractInv, ContractTypeOK, ClaimsHold
  <2>4. \A v \in Worker : claim'[v] # None => family'[claim'[v]] # f
    BY <2>1, <2>3 DEF Over
  <2> QED
    BY <1>1, <2>1, <2>2, <2>4 DEF Over
<1>5. ASSUME NEW w \in Worker, Drop(w)
      PROVE  Over(f)'
  BY <1>1, <1>5 DEF Drop, Over, ContractInv, ContractTypeOK
<1>6. ASSUME NEW w \in Worker, NEW S \in SUBSET Session, Revoke(w, S)
      PROVE  Over(f)'
  BY <1>1, <1>6 DEF Revoke, Over
<1>7. CASE UNCHANGED overlapVars
  BY <1>7 DEF overlapVars, Over
<1> QED
  BY <1>2, <1>3, <1>4, <1>5, <1>6, <1>7 DEF Next

(* A login all of whose tokens are closed and unclaimed never has an open   *)
(* token again: what a logout comes to when refreshes overlap it.           *)
THEOREM LoginsStayOver ==
  ASSUME Distinct
  PROVE  Spec => StaysOver
<1>1. ContractInv /\ [Next]_overlapVars =>
        [\A f \in Session : Over(f) => Over(f)']_overlapVars
  BY OverStep
<1> QED
  BY <1>1, ContractInvariant, PTL DEF Spec, StaysOver

-----------------------------------------------------------------------------
(* One request at a time.                                                   *)

OneRequest == \A v, w \in Worker : v = w

(* Nobody else closes what the only request has a claim on.                 *)
ClaimsOpen == \A w \in Worker : claim[w] # None => state[claim[w]] = "open"

(* A step of the only request keeps its claim on an open token.             *)
LEMMA ClaimsOpenStep ==
  ASSUME Distinct, OneRequest, ContractInv, ClaimsOpen, [Next]_overlapVars
  PROVE  ClaimsOpen'
<1> USE DEF OneRequest, ClaimsOpen, ContractInv, ContractTypeOK
<1>1. ASSUME NEW w \in Worker, NEW u \in User, NEW s \in Session, Grant(w, u, s)
      PROVE  ClaimsOpen'
  BY <1>1 DEF Grant
<1>2. ASSUME NEW w \in Worker, NEW s \in Session, Claim(w, s)
      PROVE  ClaimsOpen'
  BY <1>2 DEF Claim
<1>3. ASSUME NEW w \in Worker, NEW t \in Session, Exchange(w, t)
      PROVE  ClaimsOpen'
  BY <1>3 DEF Exchange
<1>4. ASSUME NEW w \in Worker, Drop(w)
      PROVE  ClaimsOpen'
  BY <1>4 DEF Drop
<1>5. ASSUME NEW w \in Worker, NEW S \in SUBSET Session, Revoke(w, S)
      PROVE  ClaimsOpen'
  BY <1>5 DEF Revoke
<1>6. CASE UNCHANGED overlapVars
  BY <1>6 DEF overlapVars
<1> QED
  BY <1>1, <1>2, <1>3, <1>4, <1>5, <1>6 DEF Next

(* A step of the only request is a step of RotationContract or none; it     *)
(* revokes the tokens that were open yet.                                   *)
LEMMA AloneStep ==
  ASSUME Distinct, OneRequest, ContractInv, ClaimsOpen, [Next]_overlapVars
  PROVE  [Alone!Next]_Alone!contractVars
<1> USE DEF ContractInv, ContractTypeOK
<1>1. ASSUME NEW w \in Worker, NEW u \in User, NEW s \in Session, Grant(w, u, s)
      PROVE  Alone!Next
  BY <1>1 DEF Grant, Alone!Next, Alone!Grant
<1>2. ASSUME NEW w \in Worker, (\E s \in Session : Claim(w, s)) \/ Drop(w)
      PROVE  UNCHANGED Alone!contractVars
  BY <1>2 DEF Claim, Drop, Alone!contractVars
<1>3. ASSUME NEW w \in Worker, NEW t \in Session, Exchange(w, t)
      PROVE  Alone!Next
  <2>1. PICK s \in Session : s = claim[w] /\ s # None /\ state[s] = "open"
    BY <1>3 DEF Exchange, ClaimsOpen
  <2>2. Alone!Exchange(s, t)
    BY <1>3, <2>1 DEF Exchange, Alone!Exchange
  <2> QED
    BY <2>2 DEF Alone!Next
<1>4. ASSUME NEW w \in Worker, NEW S \in SUBSET Session, Revoke(w, S)
      PROVE  Alone!Next
  <2> DEFINE Yet == {s \in S : state[s] = "open"}
  <2>1. \A s \in Session : s \in S /\ s \notin Yet => state[s] = "revoked"
    BY <1>4 DEF Revoke
  <2>2. state' = [s \in Session |-> IF s \in Yet THEN "revoked" ELSE state[s]]
    BY <1>4, <2>1 DEF Revoke
  <2>3. Yet \in SUBSET Session /\ Alone!Revoke(Yet)
    BY <1>4, <2>2 DEF Revoke, Alone!Revoke
  <2> QED
    BY <2>3 DEF Alone!Next
<1>5. CASE UNCHANGED overlapVars
  BY <1>5 DEF overlapVars, Alone!contractVars
<1> QED
  BY <1>1, <1>2, <1>3, <1>4, <1>5 DEF Next

(* Without overlap the contract is the plain one: every token is exchanged  *)
(* once, and while open.  Overlap is all that tells the two apart.          *)
THEOREM OneAtATime ==
  ASSUME Distinct, OneRequest
  PROVE  Spec => Alone!Spec
<1>1. Init => ClaimsOpen /\ Alone!Init
  BY DEF Init, ClaimsOpen, Alone!Init
<1>2. ContractInv /\ ClaimsOpen /\ [Next]_overlapVars =>
        ClaimsOpen' /\ [Alone!Next]_Alone!contractVars
  BY ClaimsOpenStep, AloneStep
<1> QED
  BY <1>1, <1>2, ContractInvariant, PTL DEF Spec, Alone!Spec

=============================================================================
