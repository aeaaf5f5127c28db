--------------------------- MODULE WebClientProofs ---------------------------
(***************************************************************************)
(* Proofs about WebClient, for any number of calls, accounts and versions  *)
(* and any life of a token.  Each call is checked, served or shown long    *)
(* after it was asked for; what makes the checks sound is that all that    *)
(* can have happened in between is that the record has moved on and that   *)
(* accounts have been seen with their roles later (MovesOn).  So what the  *)
(* tab knows stays a past of the record, and a token stays issued; a step  *)
(* only has to establish this for what it changes itself.                  *)
(***************************************************************************)
EXTENDS WebClient, TLAPS

-----------------------------------------------------------------------------
(* Graphs and ranks. *)

\* The graphs are closed, their statuses are all there are, and the client's
\* copy agrees with the server's.
LEMMA GraphsAgree ==
  ASSUME NEW p \in DOMAIN Graph
  PROVE  /\ DOMAIN Graph[p] \subseteq Status
         /\ InitialStatus[p] \in DOMAIN Graph[p]
         /\ \A s \in DOMAIN Graph[p] :
              Graph[p][s] \subseteq DOMAIN Graph[p] /\ transitions[p][s] = Graph[p][s]
<1>1. p \in {"bridgeAsset", "inspectionRound", "defectFinding", "priorityDecision"}
  BY DEF Graph
<1>2. DOMAIN Graph[p] \subseteq Status
  BY DEF Status
<1>3. CASE p = "bridgeAsset"
  <2>1. Graph[p] = BridgeAssetTransitions /\ transitions[p] = BridgeAssetTransitions
    BY <1>3 DEF Graph, transitions, BridgeAssetTransitions
  <2> QED BY <1>2, <1>3, <2>1 DEF BridgeAssetTransitions, InitialStatus, BridgeAssetInitialStatus
<1>4. CASE p = "inspectionRound"
  <2>1. Graph[p] = InspectionRoundTransitions /\ transitions[p] = InspectionRoundTransitions
    BY <1>4 DEF Graph, transitions, InspectionRoundTransitions
  <2> QED BY <1>2, <1>4, <2>1
          DEF InspectionRoundTransitions, InitialStatus, InspectionRoundInitialStatus
<1>5. CASE p = "defectFinding"
  <2>1. Graph[p] = DefectFindingTransitions /\ transitions[p] = DefectFindingTransitions
    BY <1>5 DEF Graph, transitions, DefectFindingTransitions
  <2> QED BY <1>2, <1>5, <2>1
          DEF DefectFindingTransitions, InitialStatus, DefectFindingInitialStatus
<1>6. CASE p = "priorityDecision"
  <2>1. Graph[p] = PriorityDecisionTransitions /\ transitions[p] = PriorityDecisionTransitions
    BY <1>6 DEF Graph, transitions, PriorityDecisionTransitions
  <2> QED BY <1>2, <1>6, <2>1
          DEF PriorityDecisionTransitions, InitialStatus, PriorityDecisionInitialStatus
<1> QED BY <1>1, <1>3, <1>4, <1>5, <1>6

LEMMA Ranks ==
  ASSUME NEW r \in Role
  PROVE  /\ roleRank[r] \in Nat
         /\ roleRank[r] >= roleRank["reviewer"] => r \in {"reviewer", "admin"}
         /\ roleRank[r] >= roleRank["reviewer"] => roleRank[r] >= roleRank["operator"]
         /\ roleRank[r] < roleRank["operator"] <=> ~(roleRank[r] >= roleRank["operator"])
  BY DEF Role, roleRank

-----------------------------------------------------------------------------
(* Sessions. *)

LEMMA SessionStart == SessionInit => SessionInv
<1> SUFFICES ASSUME SessionInit PROVE SessionInv
  OBVIOUS
<1>1. now \in Nat \ {Never} /\ account \in [User -> Account]
  BY RolesAssumption DEF SessionInit, Account, Never
<1>2. held \in [User -> [Role -> Nat]]
  BY DEF SessionInit, Never
<1>3. \A u \in User, r \in Role : held[u][r] <= now
  BY DEF SessionInit, Never
<1>4. \A u \in User : account[u].active => held[u][account[u].role] = now
  BY RolesAssumption DEF SessionInit
<1> QED BY <1>1, <1>2, <1>3, <1>4 DEF SessionInv

\* Time and changes of accounts only make what was held be held later.
HeldOn == \A u \in User, r \in Role : held[u][r] # Never => held'[u][r] # Never /\ held'[u][r] >= held[u][r]

LEMMA Remembered ==
  ASSUME SessionInv, now' \in Nat, now' >= now, account' \in [User -> Account], Remember
  PROVE  SessionInv' /\ HeldOn
<1>1. now' \in Nat \ {Never}
  BY DEF SessionInv, Never
<1>2. held' \in [User -> [Role -> Nat]]
  BY DEF SessionInv, Remember
<1>3. ASSUME NEW u \in User, NEW r \in Role
      PROVE  held'[u][r] = now' \/ held'[u][r] = held[u][r]
  BY DEF Remember
<1>4. ASSUME NEW u \in User, NEW r \in Role
      PROVE  /\ held'[u][r] <= now'
             /\ held[u][r] # Never => held'[u][r] # Never /\ held'[u][r] >= held[u][r]
  <2>1. held[u][r] \in Nat /\ held[u][r] <= now /\ now \in Nat
    BY DEF SessionInv
  <2> QED BY <1>1, <1>3, <2>1
<1>5. ASSUME NEW u \in User, account'[u].active
      PROVE  held'[u][account'[u].role] = now'
  <2>1. account'[u] \in Account
    OBVIOUS
  <2>2. account'[u].role \in Role /\ account'[u].active = TRUE
    BY <1>5, <2>1 DEF Account
  <2>3. account'[u] = [role |-> account'[u].role, active |-> TRUE]
    BY <2>1, <2>2 DEF Account
  <2> QED BY <2>2, <2>3 DEF Remember
<1> QED BY <1>1, <1>2, <1>4, <1>5 DEF SessionInv, HeldOn

LEMMA SessionMoves ==
  ASSUME SessionInv, Tick \/ \E u \in User, a \in GivenAccount : Administer(u, a)
  PROVE  SessionInv' /\ HeldOn
<1>1. CASE Tick
  BY <1>1, Remembered DEF Tick, SessionInv
<1>2. ASSUME NEW u \in User, NEW a \in GivenAccount, Administer(u, a)
      PROVE  SessionInv' /\ HeldOn
  <2>1. account' \in [User -> Account] /\ now' = now /\ Remember
    BY <1>2, WebClientAssumption DEF Administer, SessionInv
  <2> QED BY <2>1, Remembered DEF SessionInv
<1> QED BY <1>1, <1>2

LEMMA SessionStays ==
  ASSUME SessionInv, UNCHANGED sessionVars
  PROVE  SessionInv' /\ HeldOn
<1>1. now' = now /\ account' = account /\ held' = held
  BY DEF sessionVars
<1>2. SessionInv'
  BY <1>1 DEF SessionInv
<1>3. HeldOn
  BY <1>1 DEF SessionInv, HeldOn
<1> QED BY <1>2, <1>3

\* The token of a login is issued.
LEMMA LoginIsIssued ==
  ASSUME SessionInv, NEW u \in User
  PROVE  Login(u) \in Token \cup {NoToken} /\ IsIssued(Login(u))
<1>1. CASE account[u].active
  <2>1. account[u].role \in Role /\ now \in Nat /\ now # Never
    BY DEF SessionInv, Account
  <2>2. Login(u) = [user |-> u, role |-> account[u].role, exp |-> now + TokenTTL]
    BY <1>1 DEF Login
  <2>3. Login(u) \in Token
    BY <2>1, <2>2, SessionAssumption DEF Token
  <2>4. held[u][account[u].role] = now
    BY <1>1 DEF SessionInv
  <2>5. IsIssued(Login(u))
    BY <2>1, <2>2, <2>4, SessionAssumption DEF IsIssued
  <2> QED BY <2>3, <2>5
<1>2. CASE ~account[u].active
  BY <1>2 DEF Login, IsIssued
<1> QED BY <1>1, <1>2

-----------------------------------------------------------------------------
(* What a step leaves of what was known before. *)

LEMMA Kinds ==
  ASSUME NEW r \in {Idle} \cup LoadCall \cup TransitionCall
  PROVE  /\ r.op \in {"load", "reload"} => r \in LoadCall /\ r # Idle
         /\ r.op = "transition" => r \in TransitionCall /\ r # Idle
         /\ r # Idle => r.op \in {"load", "reload", "transition"}
                        /\ r.answer \in Answer /\ r.token \in Token \cup {NoToken}
<1>1. CASE r = Idle
  BY <1>1 DEF Idle
<1>2. CASE r \in LoadCall
  BY <1>2 DEF LoadCall, Idle
<1>3. CASE r \in TransitionCall
  BY <1>3 DEF TransitionCall, Idle
<1> QED BY <1>1, <1>2, <1>3

\* The record is changed to a later version or stays as it is.
RecordMoves == record' = record \/ record'.version > record.version

MovesOn == page' = page /\ HeldOn /\ RecordMoves /\ TypeOK /\ TypeOK' /\ SessionInv /\ SessionInv'

LEMMA PastOn ==
  ASSUME MovesOn, NEW i \in Record \cup {NoItem}, IsPast(i)
  PROVE  IsPast(i)'
<1>1. record.version \in Nat /\ record'.version \in Nat
  BY WebClientAssumption DEF MovesOn, TypeOK, Record
<1>2. i # NoItem => i.version \in Nat
  BY WebClientAssumption DEF Record
<1> QED BY <1>1, <1>2 DEF MovesOn, RecordMoves, IsPast

LEMMA IssuedOn ==
  ASSUME MovesOn, NEW t \in Token \cup {NoToken}, IsIssued(t)
  PROVE  IsIssued(t)'
<1>1. CASE t = NoToken
  BY <1>1 DEF IsIssued
<1>2. CASE t # NoToken
  <2>1. t.user \in User /\ t.role \in Role /\ t.exp \in Nat
    BY <1>2 DEF Token
  <2>2. held[t.user][t.role] \in Nat /\ held'[t.user][t.role] \in Nat
    BY <2>1 DEF MovesOn, SessionInv
  <2>3. held'[t.user][t.role] # Never /\ held'[t.user][t.role] >= held[t.user][t.role]
    BY <1>2, <2>1 DEF MovesOn, HeldOn, IsIssued
  <2> QED BY <1>2, <2>1, <2>2, <2>3, SessionAssumption DEF IsIssued
<1> QED BY <1>1, <1>2

LEMMA OfferedOn ==
  ASSUME page' = page, NEW t, NEW d, IsOffered(t, d)
  PROVE  IsOffered(t, d)'
  BY DEF IsOffered

\* What is behind the record stays behind it.
LEMMA BehindOn ==
  ASSUME MovesOn, NEW i \in Record, i.version < record.version
  PROVE  i.version < record'.version
<1>1. record.version \in Nat /\ record'.version \in Nat /\ i.version \in Nat
  BY WebClientAssumption DEF MovesOn, TypeOK, Record
<1> QED BY <1>1 DEF MovesOn, RecordMoves

LEMMA CallOn ==
  ASSUME MovesOn, NEW r \in LoadCall \cup TransitionCall, CallInv(r)
  PROVE  CallInv(r)'
<1>1. r.token \in Token \cup {NoToken}
  BY DEF LoadCall, TransitionCall
<1>2. IsIssued(r.token)'
  BY <1>1, IssuedOn DEF CallInv
<1>3. CASE r \in TransitionCall
  <2>1. r.op = "transition" /\ r.confirmed.item \in Record
    BY <1>3 DEF TransitionCall, Dialog
  <2>2. IsConfirmed(r)
    BY <2>1 DEF CallInv
  <2>3. IsPast(r.confirmed.item)'
    BY <2>1, <2>2, PastOn DEF IsConfirmed
  <2>4. r.own => IsOffered(r.token, r.confirmed)'
    BY <2>2, OfferedOn DEF IsConfirmed, MovesOn
  <2>5. r.answer = "ok" => r.confirmed.item.version < record'.version
    BY <2>1, <2>2, BehindOn DEF IsConfirmed
  <2>6. IsConfirmed(r)'
    BY <2>2, <2>3, <2>4, <2>5 DEF IsConfirmed
  <2> QED BY <1>2, <2>1, <2>6 DEF CallInv
<1>4. CASE r \in LoadCall
  <2>1. r.op # "transition" /\ r.seen \in Record \cup {NoItem} /\ r.confirmed \in Dialog \cup {NoDialog}
    BY <1>4 DEF LoadCall
  <2>2. IsPast(r.seen)'
    BY <2>1, PastOn DEF CallInv
  <2>3. ASSUME r.op = "reload" PROVE IsAfter(r)'
    <3>1. IsAfter(r)
      BY <2>3 DEF CallInv
    <3>2. r.confirmed.item \in Record
      BY <2>1, <3>1 DEF IsAfter, Dialog
    <3>3. r.confirmed.item.version < record'.version
      BY <3>1, <3>2, BehindOn DEF IsAfter
    <3> QED BY <3>1, <3>3 DEF IsAfter
  <2> QED BY <1>2, <2>1, <2>2, <2>3 DEF CallInv
<1> QED BY <1>3, <1>4

\* All of the invariant that a step does not touch.
LEMMA Kept ==
  ASSUME IInv, MovesOn
  PROVE  /\ stored' = stored => IsIssued(stored)'
         /\ session' = session => IsIssued(session)'
         /\ item' = item => IsPast(item)'
         /\ pending' = pending /\ session' = session =>
              (pending # NoDialog => IsPast(pending.item) /\ IsOffered(session, pending))'
         /\ \A c \in Call : call'[c] = call[c] /\ call'[c] # Idle => CallInv(call[c])'
<1>1. ASSUME stored' = stored PROVE IsIssued(stored)'
  <2>1. PICK t : t = stored
    OBVIOUS
  <2>2. t \in Token \cup {NoToken} /\ IsIssued(t)
    BY <2>1 DEF IInv, TypeOK
  <2>3. IsIssued(t)'
    BY <2>2, IssuedOn
  <2> QED BY <1>1, <2>1, <2>3 DEF IsIssued
<1>2. ASSUME session' = session PROVE IsIssued(session)'
  <2>1. PICK t : t = session
    OBVIOUS
  <2>2. t \in Token \cup {NoToken} /\ IsIssued(t)
    BY <2>1 DEF IInv, TypeOK
  <2>3. IsIssued(t)'
    BY <2>2, IssuedOn
  <2> QED BY <1>2, <2>1, <2>3 DEF IsIssued
<1>3. ASSUME item' = item PROVE IsPast(item)'
  <2>1. PICK i : i = item
    OBVIOUS
  <2>2. i \in Record \cup {NoItem} /\ IsPast(i)
    BY <2>1 DEF IInv, TypeOK
  <2>3. IsPast(i)'
    BY <2>2, PastOn
  <2> QED BY <1>3, <2>1, <2>3 DEF IsPast
<1>4. ASSUME pending' = pending, session' = session, pending' # NoDialog
      PROVE  IsPast(pending.item)' /\ IsOffered(session, pending)'
  <2>1. PICK d, t : d = pending /\ t = session
    OBVIOUS
  <2>2. d \in Dialog /\ IsPast(d.item) /\ IsOffered(t, d)
    BY <1>4, <2>1 DEF IInv, TypeOK
  <2>3. d.item \in Record
    BY <2>2 DEF Dialog
  <2>4. IsPast(d.item)' /\ IsOffered(t, d)'
    BY <2>2, <2>3, PastOn, OfferedOn DEF MovesOn
  <2> QED BY <1>4, <2>1, <2>4 DEF IsPast, IsOffered
<1>5. ASSUME NEW c \in Call, call'[c] = call[c], call'[c] # Idle
      PROVE  CallInv(call[c])'
  <2>1. PICK r : r = call[c]
    OBVIOUS
  <2>2. r \in LoadCall \cup TransitionCall /\ CallInv(r)
    BY <1>5, <2>1 DEF IInv, TypeOK, Open
  <2>3. CallInv(r)'
    BY <2>2, CallOn
  <2> QED BY <1>5, <2>1, <2>3
<1> QED BY <1>1, <1>2, <1>3, <1>4, <1>5

-----------------------------------------------------------------------------
(* One step of the tab, of the server, or of somebody else. *)

LEMMA OneCallTyped ==
  ASSUME TypeOK, NEW c \in Call, NEW r \in {Idle} \cup LoadCall \cup TransitionCall,
         call' = [call EXCEPT ![c] = r]
  PROVE  /\ call' \in [Call -> {Idle} \cup LoadCall \cup TransitionCall]
         /\ call'[c] = r
         /\ \A d \in Call \ {c} : call'[d] = call[d]
  BY DEF TypeOK

LEMMA OneCall ==
  ASSUME IInv, MovesOn, NEW c \in Call, NEW r \in {Idle} \cup LoadCall \cup TransitionCall,
         call' = [call EXCEPT ![c] = r], r # Idle => CallInv(r)'
  PROVE  (\A d \in Open : CallInv(call[d]))' /\ (r # Idle => Open' # {})
<1>1. call'[c] = r /\ \A d \in Call \ {c} : call'[d] = call[d]
  BY OneCallTyped DEF IInv
<1>2. ASSUME NEW d \in Call, call'[d] # Idle PROVE CallInv(call[d])'
  <2>1. CASE d = c
    <3>1. r # Idle /\ CallInv(r)'
      BY <1>1, <1>2, <2>1
    <3> QED BY <1>1, <2>1, <3>1
  <2>2. CASE d # c
    BY <1>1, <1>2, <2>2, Kept
  <2> QED BY <2>1, <2>2
<1>3. (\A d \in Open : CallInv(call[d]))'
  BY <1>2 DEF Open
<1> QED BY <1>1, <1>3 DEF Open

LEMMA NoCall ==
  ASSUME IInv, MovesOn, call' = call
  PROVE  (\A d \in Open : CallInv(call[d]))' /\ Open' = Open
<1>1. \A d \in Call : call'[d] # Idle => CallInv(call[d])'
  BY Kept
<1> QED BY <1>1 DEF Open

LEMMA LoadKeeps ==
  ASSUME IInv, NEW c \in Call, Load(c)
  PROVE  IInv'
<1>1. PICK r : r = LoadRequest("load", NoDialog)
  OBVIOUS
<1>2. c \notin Open /\ call' = [call EXCEPT ![c] = r] /\ events' = events + 1
  BY <1>1 DEF Load, Send, Event
<1>3. r \in LoadCall /\ r # Idle /\ r.op = "load" /\ r.token = stored /\ r.seen = NoItem
  BY <1>1 DEF LoadRequest, LoadCall, Idle, Answer, IInv, TypeOK
<1>4. call' \in [Call -> {Idle} \cup LoadCall \cup TransitionCall]
  BY <1>2, <1>3, OneCallTyped DEF IInv
<1>5. TypeOK'
  <2>1. events' \in Nat
    BY <1>2 DEF IInv, TypeOK
  <2> QED BY <1>4, <2>1 DEF IInv, TypeOK, Load
<1>6. SessionInv' /\ MovesOn
  BY <1>5, SessionStays DEF Load, MovesOn, RecordMoves, IInv
<1>7. IsIssued(r.token)'
  BY <1>3, <1>6, IssuedOn DEF IInv, TypeOK
<1>8. CallInv(r)'
  BY <1>3, <1>7 DEF CallInv, IsPast
<1>9. (\A d \in Open : CallInv(call[d]))' /\ Open' # {}
  <2>1. r \in {Idle} \cup LoadCall \cup TransitionCall
    BY <1>3
  <2> QED BY <1>2, <1>3, <1>6, <1>8, <2>1, OneCall
<1> QED BY <1>5, <1>6, <1>9, Kept DEF IInv, Load

LEMMA ConfirmKeeps ==
  ASSUME IInv, NEW c \in Call, Confirm(c)
  PROVE  IInv'
<1>1. PICK r : r = TransitionRequest(pending, expectedVersion)
  OBVIOUS
<1>2. c \notin Open /\ call' = [call EXCEPT ![c] = r] /\ events' = events + 1
  BY <1>1 DEF Confirm, Send, Event
<1>3. pending \in Dialog /\ pending.item \in Record /\ pending.item.version \in 1..MaxVersion
  BY DEF Confirm, IInv, TypeOK, Dialog, Record
<1>4. /\ r.op = "transition" /\ r.answer = "none" /\ r.token = stored
      /\ r.expected = pending.item.version /\ r.status = pending.status /\ r.confirmed = pending
      /\ r.own = (session = stored)
  BY <1>1 DEF TransitionRequest, expectedVersion
<1>5. r \in TransitionCall /\ r # Idle
  BY <1>1, <1>3 DEF TransitionRequest, expectedVersion, TransitionCall, Idle, Answer, Dialog, IInv, TypeOK
<1>6. call' \in [Call -> {Idle} \cup LoadCall \cup TransitionCall]
  BY <1>2, <1>5, OneCallTyped DEF IInv
<1>7. TypeOK'
  <2>1. events' \in Nat
    BY <1>2 DEF IInv, TypeOK
  <2> QED BY <1>6, <2>1 DEF IInv, TypeOK, Confirm
<1>8. SessionInv' /\ MovesOn
  BY <1>7, SessionStays DEF Confirm, MovesOn, RecordMoves, IInv
<1>9. IsPast(pending.item) /\ IsOffered(session, pending)
  BY DEF Confirm, IInv
<1>10. CallInv(r)
  <2>1. r.own => IsOffered(r.token, r.confirmed)
    BY <1>4, <1>9
  <2>2. IsConfirmed(r)
    BY <1>4, <1>9, <2>1 DEF IsConfirmed
  <2> QED BY <1>4, <2>2 DEF CallInv, IInv
<1>11. CallInv(r)'
  BY <1>5, <1>8, <1>10, CallOn
<1>12. (\A d \in Open : CallInv(call[d]))' /\ Open' # {}
  <2>1. r \in {Idle} \cup LoadCall \cup TransitionCall
    BY <1>5
  <2> QED BY <1>2, <1>5, <1>8, <1>11, <2>1, OneCall
<1> QED BY <1>7, <1>8, <1>12, Kept DEF IInv, Confirm

LEMMA ServeLoadKeeps ==
  ASSUME IInv, NEW c \in Call, ServeLoad(c)
  PROVE  IInv'
<1>1. PICK q : q = call[c]
  OBVIOUS
<1>2. q \in LoadCall /\ CallInv(q) /\ q.op \in {"load", "reload"} /\ q.answer = "none"
  BY <1>1, Kinds DEF ServeLoad, Unserved, IInv, TypeOK, Open
<1>3. PICK a \in {"ok", "unauthorized"} : call' = [call EXCEPT ![c].answer = a, ![c].seen = record]
  BY DEF ServeLoad
<1>4. PICK i : i = record
  OBVIOUS
<1>5. PICK r : r = [q EXCEPT !.answer = a, !.seen = i]
  OBVIOUS
<1>6. call' = [call EXCEPT ![c] = r]
  BY <1>1, <1>3, <1>4, <1>5 DEF IInv, TypeOK
<1>7. i \in Record /\ i # NoItem
  BY <1>4, NothingAssumption DEF IInv, TypeOK
<1>8. r \in LoadCall
  BY <1>2, <1>5, <1>7 DEF LoadCall, Answer, Refusal
<1>9. /\ r.op = q.op /\ r.token = q.token /\ r.confirmed = q.confirmed
      /\ r.seen = i /\ r.answer = a /\ r # Idle
  BY <1>2, <1>5 DEF LoadCall, Idle
<1>10. call' \in [Call -> {Idle} \cup LoadCall \cup TransitionCall]
  BY <1>6, <1>8, OneCallTyped DEF IInv
<1>11. TypeOK'
  BY <1>10 DEF IInv, TypeOK, ServeLoad, vars, tabVars
<1>12. SessionInv' /\ MovesOn
  BY <1>11, SessionStays DEF ServeLoad, MovesOn, RecordMoves, IInv
<1>13. CallInv(r)
  <2>1. IsIssued(r.token)
    BY <1>2, <1>9 DEF CallInv
  <2>2. IsPast(r.seen)
    BY <1>4, <1>9 DEF IsPast, IInv, TypeOK, Record
  <2>3. r.op = "reload" => IsAfter(r)
    BY <1>2, <1>4, <1>7, <1>9 DEF CallInv, IsAfter
  <2> QED BY <1>2, <1>9, <2>1, <2>2, <2>3 DEF CallInv
<1>14. CallInv(r)'
  BY <1>8, <1>12, <1>13, CallOn
<1>15. (\A d \in Open : CallInv(call[d]))' /\ Open' # {}
  <2>1. r \in {Idle} \cup LoadCall \cup TransitionCall
    BY <1>8
  <2> QED BY <1>6, <1>8, <1>9, <1>12, <1>14, <2>1, OneCall
<1> QED BY <1>11, <1>12, <1>15, Kept DEF IInv, ServeLoad, tabVars

LEMMA Verdicts ==
  ASSUME NEW r
  PROVE  /\ Verdict(r) \in {"ok"} \cup Refusal
         /\ Verdict(r) # "unauthorized" => Authenticate(r.token)
         /\ Verdict(r) = "ok" =>
              CanTransition(Graph[page], record.status, r.status) /\ record.version = r.expected
  BY DEF Verdict, Refusal

\* A transition takes the record on.
LEMMA Transitioned ==
  ASSUME IInv, NEW c \in Call, ServeTransition(c), Verdict(call[c]) = "ok"
  PROVE  /\ record' \in Record /\ record'.version = record.version + 1
         /\ record'.status = call[c].status /\ record'.status \in DOMAIN Graph[page]
<1>1. record \in Record /\ record.version \in Nat /\ page \in DOMAIN Graph
  BY WebClientAssumption DEF IInv, TypeOK, Record
<1>2. record.version + 1 \in 1..MaxVersion
  BY <1>1, WebClientAssumption DEF ServeTransition, Record
<1>3. call[c].status \in DOMAIN Graph[page] /\ call[c].status \in Status
  BY <1>1, GraphsAgree, Verdicts DEF CanTransition
<1>4. record' = [record EXCEPT !.version = @ + 1, !.status = call[c].status]
  BY DEF ServeTransition
<1> QED BY <1>1, <1>2, <1>3, <1>4 DEF Record

LEMMA ServeTransitionKeeps ==
  ASSUME IInv, NEW c \in Call, ServeTransition(c)
  PROVE  IInv'
<1>1. PICK q, a : q = call[c] /\ a = Verdict(call[c])
  OBVIOUS
<1>2. q \in TransitionCall /\ q.op = "transition" /\ CallInv(q)
  BY <1>1, Kinds DEF ServeTransition, Unserved, IInv, TypeOK, Open
<1>3. a \in {"ok"} \cup Refusal
  BY <1>1, Verdicts
<1>4. PICK r : r = [q EXCEPT !.answer = a]
  OBVIOUS
<1>5. call' = [call EXCEPT ![c] = r]
  BY <1>1, <1>4 DEF ServeTransition, IInv, TypeOK
<1>6. r \in TransitionCall
  BY <1>2, <1>3, <1>4 DEF TransitionCall, Answer
<1>7. /\ r.op = q.op /\ r.token = q.token /\ r.expected = q.expected /\ r.status = q.status
      /\ r.confirmed = q.confirmed /\ r.own = q.own /\ r.answer = a /\ r # Idle
  BY <1>2, <1>4 DEF TransitionCall, Idle
<1>8. /\ record' \in Record /\ RecordMoves /\ record'.status \in DOMAIN Graph[page]
      /\ a = "ok" => record'.version = record.version + 1
  <2>1. CASE a = "ok"
    <3>1. record.version \in Nat
      BY WebClientAssumption DEF IInv, TypeOK, Record
    <3>2. Verdict(call[c]) = "ok"
      BY <1>1, <2>1
    <3>3. record' \in Record /\ record'.version = record.version + 1 /\ record'.status \in DOMAIN Graph[page]
      BY <3>2, Transitioned
    <3>4. RecordMoves
      BY <3>1, <3>3 DEF RecordMoves
    <3> QED BY <3>3, <3>4
  <2>2. CASE a # "ok"
    BY <1>1, <2>2 DEF ServeTransition, IInv, TypeOK, RecordMoves
  <2> QED BY <2>1, <2>2
<1>9. call' \in [Call -> {Idle} \cup LoadCall \cup TransitionCall]
  BY <1>5, <1>6, OneCallTyped DEF IInv
<1>10. TypeOK'
  BY <1>8, <1>9 DEF IInv, TypeOK, ServeTransition, tabVars
<1>11. SessionInv' /\ MovesOn
  BY <1>8, <1>10, SessionStays DEF ServeTransition, MovesOn, IInv
<1>12. CallInv(r)'
  <2>1. CallInv(q)'
    BY <1>2, <1>11, CallOn
  <2>2. IsConfirmed(q)' /\ IsConfirmed(q)
    BY <1>2, <2>1 DEF CallInv
  <2>3. a = "ok" => r.confirmed.item.version < record'.version
    <3>1. ASSUME a = "ok" PROVE record.version = q.expected
      BY <1>1, <3>1, Verdicts
    <3>2. q.expected = q.confirmed.item.version
      BY <2>2 DEF IsConfirmed
    <3>3. record.version \in Nat
      BY WebClientAssumption DEF IInv, TypeOK, Record
    <3> QED BY <1>7, <1>8, <3>1, <3>2, <3>3
  <2>4. IsConfirmed(r)'
    BY <1>7, <2>2, <2>3 DEF IsConfirmed
  <2> QED BY <1>2, <1>7, <2>1, <2>4 DEF CallInv
<1>13. (\A d \in Open : CallInv(call[d]))' /\ Open' # {}
  <2>1. r \in {Idle} \cup LoadCall \cup TransitionCall
    BY <1>6
  <2> QED BY <1>5, <1>7, <1>11, <1>12, <2>1, OneCall
<1>14. (record.status \in DOMAIN Graph[page])'
  BY <1>8 DEF ServeTransition
<1> QED BY <1>10, <1>11, <1>13, <1>14, Kept DEF IInv, ServeTransition, tabVars

LEMMA OthersKeep ==
  ASSUME IInv, Others
  PROVE  IInv'
<1>1. record \in Record /\ record.version \in Nat /\ page \in DOMAIN Graph /\ record.status \in DOMAIN Graph[page]
  BY WebClientAssumption DEF IInv, TypeOK, Record
<1>2. PICK s \in Graph[page][record.status] \cup {record.status} :
        record' = [record EXCEPT !.version = @ + 1, !.status = s]
  BY DEF Others
<1>3. s \in DOMAIN Graph[page] /\ s \in Status
  BY <1>1, GraphsAgree
<1>4. record.version + 1 \in 1..MaxVersion
  BY <1>1, WebClientAssumption DEF Others
<1>5. record' \in Record /\ record'.version = record.version + 1 /\ record'.status = s
  BY <1>1, <1>2, <1>3, <1>4 DEF Record
<1>6. TypeOK'
  BY <1>5 DEF IInv, TypeOK, Others, tabVars
<1>7. RecordMoves
  BY <1>1, <1>5 DEF RecordMoves
<1>8. SessionInv' /\ MovesOn
  BY <1>6, <1>7, SessionStays DEF Others, MovesOn, IInv
<1>9. (\A d \in Open : CallInv(call[d]))' /\ Open' = Open
  BY <1>8, NoCall DEF Others
<1> QED BY <1>3, <1>5, <1>6, <1>8, <1>9, Kept DEF IInv, Others, tabVars

\* When call c is over, or was never heard of.
LEMMA Finished ==
  ASSUME IInv, MovesOn, NEW c \in Call, Finish(c)
  PROVE  (\A d \in Open : CallInv(call[d]))'
<1>1. call' = [call EXCEPT ![c] = Idle]
  BY DEF Finish
<1>2. Idle \in {Idle} \cup LoadCall \cup TransitionCall
  OBVIOUS
<1> QED BY <1>1, <1>2, OneCall

LEMMA ReceiveLoadKeeps ==
  ASSUME IInv, NEW c \in Call, ReceiveLoad(c)
  PROVE  IInv'
<1>1. PICK q : q = call[c]
  OBVIOUS
<1>2. q \in LoadCall /\ CallInv(q) /\ q.op # "transition"
  BY <1>1, Kinds DEF ReceiveLoad, Heard, IInv, TypeOK, Open
<1>3. q.seen \in Record \cup {NoItem} /\ IsPast(q.seen)
  BY <1>2 DEF LoadCall, CallInv
<1>4. PICK i \in Record \cup {NoItem} : item' = i /\ IsPast(i)
  <2>1. item' \in {q.seen, item, NoItem}
    BY <1>1 DEF ReceiveLoad, Listed
  <2>2. IsPast(item) /\ IsPast(NoItem) /\ item \in Record \cup {NoItem}
    BY DEF IInv, TypeOK, IsPast
  <2> QED BY <1>3, <2>1, <2>2
<1>5. error' \in BOOLEAN
  BY DEF ReceiveLoad
<1>6. call' \in [Call -> {Idle} \cup LoadCall \cup TransitionCall]
  BY DEF ReceiveLoad, Finish, IInv, TypeOK
<1>7. pending' \in Dialog \cup {NoDialog} /\ (pending' = pending \/ pending' = NoDialog)
  BY DEF ReceiveLoad, IInv, TypeOK
<1>8. TypeOK'
  BY <1>4, <1>5, <1>6, <1>7 DEF IInv, TypeOK, ReceiveLoad
<1>9. SessionInv' /\ MovesOn
  BY <1>8, SessionStays DEF ReceiveLoad, MovesOn, RecordMoves, IInv
<1>10. (\A d \in Open : CallInv(call[d]))'
  BY <1>9, Finished DEF ReceiveLoad
<1>11. IsPast(item)'
  <2>1. IsPast(i)'
    BY <1>4, <1>9, PastOn
  <2> QED BY <1>4, <2>1 DEF IsPast
<1>12. (pending # NoDialog => IsPast(pending.item) /\ IsOffered(session, pending))'
  BY <1>7, <1>9, Kept DEF ReceiveLoad
<1> QED BY <1>8, <1>9, <1>10, <1>11, <1>12, Kept DEF IInv, ReceiveLoad

\* What is heard of a transition is that it is made, or it is an error.
LEMMA Heards ==
  ASSUME TypeOK, NEW c \in Call, NEW op, NEW answer \in Heard(c, op)
  PROVE  call[c].op \in op /\ call[c] # Idle /\ (answer = "ok" => call[c].answer = "ok")
  BY DEF Heard, Open

LEMMA ReceiveTransitionKeeps ==
  ASSUME IInv, NEW c \in Call, ReceiveTransition(c)
  PROVE  IInv'
<1>1. PICK q : q = call[c]
  OBVIOUS
<1>2. PICK answer \in Heard(c, {"transition"}) :
        \/ /\ answer = "ok"
           /\ loading' = TRUE /\ error' = FALSE
           /\ call' = [call EXCEPT ![c] = LoadRequest("reload", @.confirmed)]
        \/ /\ answer # "ok"
           /\ loading' = FALSE /\ error' = TRUE
           /\ Finish(c)
  BY DEF ReceiveTransition
<1>3. q \in TransitionCall /\ q.op = "transition" /\ CallInv(q) /\ (answer = "ok" => q.answer = "ok")
  <2>1. call[c].op = "transition" /\ call[c] # Idle /\ (answer = "ok" => call[c].answer = "ok")
    BY Heards DEF IInv
  <2> QED BY <1>1, <2>1, Kinds DEF IInv, TypeOK, Open
<1>4. UNCHANGED <<sessionVars, page, record, stored, session, item, pending, events>>
  BY DEF ReceiveTransition
<1>5. CASE answer # "ok"
  <2>1. loading' = FALSE /\ error' = TRUE /\ Finish(c)
    BY <1>2, <1>5
  <2>2. call' \in [Call -> {Idle} \cup LoadCall \cup TransitionCall]
    BY <2>1 DEF Finish, IInv, TypeOK
  <2>3. TypeOK'
    BY <1>4, <2>1, <2>2 DEF IInv, TypeOK
  <2>4. SessionInv' /\ MovesOn
    BY <1>4, <2>3, SessionStays DEF MovesOn, RecordMoves, IInv
  <2>5. (\A d \in Open : CallInv(call[d]))'
    BY <2>1, <2>4, Finished
  <2> QED BY <1>4, <2>1, <2>3, <2>4, <2>5, Kept DEF IInv
<1>6. CASE answer = "ok"
  <2>1. PICK r : r = LoadRequest("reload", q.confirmed)
    OBVIOUS
  <2>2. loading' = TRUE /\ error' = FALSE /\ call' = [call EXCEPT ![c] = r]
    BY <1>1, <1>2, <1>6, <2>1 DEF IInv, TypeOK
  <2>3. q.confirmed \in Dialog /\ q.confirmed # NoDialog
    BY <1>3, NothingAssumption DEF TransitionCall
  <2>4. /\ r.op = "reload" /\ r.answer = "none" /\ r.token = stored
        /\ r.seen = NoItem /\ r.confirmed = q.confirmed /\ r # Idle
    BY <2>1 DEF LoadRequest, Idle
  <2>5. r \in LoadCall
    BY <2>1, <2>3 DEF LoadRequest, LoadCall, Answer, IInv, TypeOK
  <2>6. call' \in [Call -> {Idle} \cup LoadCall \cup TransitionCall]
    BY <2>2, <2>5, OneCallTyped DEF IInv
  <2>7. TypeOK'
    BY <1>4, <2>2, <2>6 DEF IInv, TypeOK
  <2>8. SessionInv' /\ MovesOn
    BY <1>4, <2>7, SessionStays DEF MovesOn, RecordMoves, IInv
  <2>9. CallInv(r)
    <3>1. q.confirmed.item.version < record.version
      BY <1>3, <1>6 DEF CallInv, IsConfirmed
    <3>2. IsAfter(r)
      BY <2>3, <2>4, <3>1 DEF IsAfter
    <3> QED BY <2>4, <3>2 DEF CallInv, IsPast, IInv
  <2>10. CallInv(r)'
    BY <2>5, <2>8, <2>9, CallOn
  <2>11. (\A d \in Open : CallInv(call[d]))' /\ Open' # {}
    <3>1. r \in {Idle} \cup LoadCall \cup TransitionCall
      BY <2>5
    <3> QED BY <2>2, <2>4, <2>8, <2>10, <3>1, OneCall
  <2> QED BY <1>4, <2>7, <2>8, <2>11, Kept DEF IInv
<1> QED BY <1>5, <1>6

LEMMA SignInKeeps ==
  ASSUME IInv, NEW u \in User, SignIn(u)
  PROVE  IInv'
<1>1. PICK t : t = Login(u)
  OBVIOUS
<1>2. t \in Token \cup {NoToken} /\ IsIssued(t)
  BY <1>1, LoginIsIssued DEF IInv
<1>3. stored' = t /\ session' = t /\ events' = events + 1
  BY <1>1 DEF SignIn, Event
<1>4. pending = NoDialog
  BY DEF SignIn, IInv, IsOffered
<1>5. events' \in Nat
  BY <1>3 DEF IInv, TypeOK
<1>6. TypeOK'
  BY <1>2, <1>3, <1>5 DEF IInv, TypeOK, SignIn
<1>7. SessionInv' /\ MovesOn
  BY <1>6, SessionStays DEF SignIn, MovesOn, RecordMoves, IInv
<1>8. IsIssued(stored)' /\ IsIssued(session)'
  <2>1. IsIssued(t)'
    BY <1>2, <1>7, IssuedOn
  <2> QED BY <1>3, <2>1 DEF IsIssued
<1>9. (\A d \in Open : CallInv(call[d]))' /\ Open' = Open
  BY <1>7, NoCall DEF SignIn
<1> QED BY <1>4, <1>6, <1>7, <1>8, <1>9, Kept DEF IInv, SignIn

LEMMA SignOutKeeps ==
  ASSUME IInv, SignOut
  PROVE  IInv'
<1>1. TypeOK'
  BY DEF IInv, TypeOK, SignOut
<1>2. SessionInv' /\ MovesOn
  BY <1>1, SessionStays DEF SignOut, MovesOn, RecordMoves, IInv
<1>3. IsIssued(stored)' /\ IsIssued(session)'
  BY DEF SignOut, IsIssued
<1>4. (\A d \in Open : CallInv(call[d]))' /\ Open' = Open
  BY <1>2, NoCall DEF SignOut
<1> QED BY <1>1, <1>2, <1>3, <1>4, Kept DEF IInv, SignOut

LEMMA ChooseKeeps ==
  ASSUME IInv, Choose
  PROVE  IInv'
<1>1. item \in Record /\ IsPast(item) /\ item.status \in DOMAIN Graph[page] /\ page \in DOMAIN Graph
  BY DEF Choose, IInv, TypeOK, IsPast
<1>2. PICK s \in targetsFor(item) : pending' = [item |-> item, status |-> s]
  BY DEF Choose
<1>3. s \in transitions[page][item.status] /\ s \in Status
  BY <1>1, <1>2, GraphsAgree DEF targetsFor
<1>4. pending' \in Dialog /\ pending'.item = item /\ pending'.status = s
  BY <1>1, <1>2, <1>3 DEF Dialog
<1>5. TypeOK'
  BY <1>4 DEF IInv, TypeOK, Choose
<1>6. SessionInv' /\ MovesOn
  BY <1>5, SessionStays DEF Choose, MovesOn, RecordMoves, IInv
<1>7. IsPast(pending.item)'
  BY <1>1, <1>4 DEF Choose, IsPast
<1>8. IsOffered(session, pending)'
  BY <1>2, <1>3, <1>4 DEF Choose, IsOffered, targetsFor, canAtLeast
<1>9. (\A d \in Open : CallInv(call[d]))' /\ Open' = Open
  BY <1>6, NoCall DEF Choose
<1> QED BY <1>5, <1>6, <1>7, <1>8, <1>9, Kept DEF IInv, Choose

LEMMA CancelKeeps ==
  ASSUME IInv, Cancel
  PROVE  IInv'
<1>1. TypeOK'
  BY DEF IInv, TypeOK, Cancel
<1>2. SessionInv' /\ MovesOn
  BY <1>1, SessionStays DEF Cancel, MovesOn, RecordMoves, IInv
<1>3. (\A d \in Open : CallInv(call[d]))' /\ Open' = Open
  BY <1>2, NoCall DEF Cancel
<1> QED BY <1>1, <1>2, <1>3, Kept DEF IInv, Cancel

LEMMA ReopenKeeps ==
  ASSUME IInv, Reopen
  PROVE  IInv'
<1>1. TypeOK'
  BY DEF IInv, TypeOK, Reopen
<1>2. SessionInv' /\ MovesOn
  BY <1>1, SessionStays DEF Reopen, MovesOn, RecordMoves, IInv
<1>3. \A c \in Call : call'[c] = Idle
  BY DEF Reopen
<1>4. IsIssued(session)'
  BY <1>2, Kept DEF Reopen, IsIssued
<1> QED BY <1>1, <1>2, <1>3, <1>4, Kept DEF IInv, Reopen, Open, IsPast

LEMMA ElsewhereKeeps ==
  ASSUME IInv, Elsewhere
  PROVE  IInv'
<1>1. PICK t \in {NoToken} \cup {Login(u) : u \in User} : stored' = t
  BY DEF Elsewhere
<1>2. t \in Token \cup {NoToken} /\ IsIssued(t)
  BY LoginIsIssued DEF IInv, IsIssued
<1>3. events' \in Nat
  BY DEF Elsewhere, Event, IInv, TypeOK
<1>4. TypeOK'
  BY <1>1, <1>2, <1>3 DEF IInv, TypeOK, Elsewhere
<1>5. SessionInv' /\ MovesOn
  BY <1>4, SessionStays DEF Elsewhere, MovesOn, RecordMoves, IInv
<1>6. IsIssued(stored)'
  <2>1. IsIssued(t)'
    BY <1>2, <1>5, IssuedOn
  <2> QED BY <1>1, <2>1 DEF IsIssued
<1>7. (\A d \in Open : CallInv(call[d]))' /\ Open' = Open
  BY <1>5, NoCall DEF Elsewhere
<1> QED BY <1>4, <1>5, <1>6, <1>7, Kept DEF IInv, Elsewhere

LEMMA AccountsKeep ==
  ASSUME IInv, Tick \/ \E u \in User, a \in GivenAccount : Administer(u, a),
         Event, UNCHANGED <<page, record, tabVars, call>>
  PROVE  IInv'
<1>1. events' \in Nat
  BY DEF Event, IInv, TypeOK
<1>2. TypeOK'
  BY <1>1 DEF IInv, TypeOK, tabVars
<1>3. SessionInv' /\ MovesOn
  BY <1>2, SessionMoves DEF MovesOn, RecordMoves, IInv
<1>4. (\A d \in Open : CallInv(call[d]))' /\ Open' = Open
  BY <1>3, NoCall
<1> QED BY <1>2, <1>3, <1>4, Kept DEF IInv, tabVars

-----------------------------------------------------------------------------
(* The invariant. *)

LEMMA InvInit == Init => IInv
<1> SUFFICES ASSUME Init PROVE IInv
  OBVIOUS
<1>1. page \in DOMAIN Graph
  BY DEF Init
<1>2. InitialStatus[page] \in DOMAIN Graph[page] /\ InitialStatus[page] \in Status
  BY <1>1, GraphsAgree
<1>3. record \in Record /\ record.status = InitialStatus[page]
  BY <1>2, WebClientAssumption DEF Init, Record
<1>4. TypeOK
  BY <1>1, <1>3 DEF Init, TypeOK
<1>5. Open = {}
  BY DEF Init, Open
<1> QED BY <1>2, <1>3, <1>4, <1>5, SessionStart DEF Init, IInv, IsIssued, IsPast

LEMMA InvStep == IInv /\ [Next]_vars => IInv'
<1> SUFFICES ASSUME IInv, [Next]_vars PROVE IInv'
  OBVIOUS
<1>1. ASSUME NEW c \in Call, Load(c) \/ Confirm(c) PROVE IInv'
  BY <1>1, LoadKeeps, ConfirmKeeps
<1>2. ASSUME NEW c \in Call, Serve(c) PROVE IInv'
  BY <1>2, ServeLoadKeeps, ServeTransitionKeeps DEF Serve
<1>3. ASSUME NEW c \in Call, Receive(c) PROVE IInv'
  BY <1>3, ReceiveLoadKeeps, ReceiveTransitionKeeps DEF Receive
<1>4. ASSUME NEW u \in User, SignIn(u) PROVE IInv'
  BY <1>4, SignInKeeps
<1>5. CASE SignOut \/ Choose \/ Cancel
  BY <1>5, SignOutKeeps, ChooseKeeps, CancelKeeps
<1>6. CASE Reopen \/ Elsewhere \/ Others
  BY <1>6, ReopenKeeps, ElsewhereKeeps, OthersKeep
<1>7. CASE /\ Tick \/ \E u \in User, a \in GivenAccount : Administer(u, a)
           /\ Event
           /\ UNCHANGED <<page, record, tabVars, call>>
  BY <1>7, AccountsKeep
<1>8. CASE UNCHANGED vars
  <2>1. TypeOK'
    BY <1>8 DEF IInv, TypeOK, vars, tabVars
  <2>2. SessionInv' /\ MovesOn
    BY <1>8, <2>1, SessionStays DEF MovesOn, RecordMoves, IInv, vars
  <2>3. (\A d \in Open : CallInv(call[d]))' /\ Open' = Open
    BY <1>8, <2>2, NoCall DEF vars
  <2> QED BY <1>8, <2>1, <2>2, <2>3, Kept DEF IInv, vars, tabVars
<1> QED BY <1>1, <1>2, <1>3, <1>4, <1>5, <1>6, <1>7, <1>8 DEF Next

\* What the tab has loaded is a past of the record, what it asks for is what
\* was confirmed, and every token was issued, at every moment and whatever
\* happens elsewhere; the table is veiled only while a call is under way.
THEOREM Invariance == Spec => []IInv
<1> QED BY InvInit, InvStep, PTL DEF Spec

-----------------------------------------------------------------------------
(* What a step may not do. *)

\* The server answers a call in a step of its own only.
LEMMA OnlyServed ==
  ASSUME IInv, [Next]_vars, NEW c \in Call, call[c].answer = "none", call'[c].answer # "none",
         call[c] # Idle, call'[c] # Idle
  PROVE  Serve(c)
<1>1. ASSUME NEW d \in Call, Load(d) \/ Confirm(d) PROVE FALSE
  <2>1. PICK r : d \notin Open /\ call' = [call EXCEPT ![d] = r]
    BY <1>1 DEF Load, Confirm, Send
  <2>2. c # d
    BY <2>1 DEF Open
  <2> QED BY <2>1, <2>2 DEF IInv, TypeOK
<1>2. ASSUME NEW d \in Call, Serve(d), d # c PROVE FALSE
  <2>1. call'[c] = call[c]
    BY <1>2 DEF Serve, ServeLoad, ServeTransition, IInv, TypeOK
  <2> QED BY <2>1
<1>3. ASSUME NEW d \in Call, ReceiveLoad(d) PROVE FALSE
  BY <1>3 DEF ReceiveLoad, Finish, IInv, TypeOK
<1>4. ASSUME NEW d \in Call, ReceiveTransition(d) PROVE FALSE
  <2>1. PICK r : call' = [call EXCEPT ![d] = r] /\ (r = Idle \/ r = LoadRequest("reload", call[d].confirmed))
    BY <1>4 DEF ReceiveTransition, Finish, IInv, TypeOK
  <2>2. call'[c] = IF c = d THEN r ELSE call[c]
    BY <2>1 DEF IInv, TypeOK
  <2>3. r # Idle => r.answer = "none"
    BY <2>1 DEF LoadRequest
  <2> QED BY <2>2, <2>3
<1>5. CASE \E u \in User : SignIn(u)
  BY <1>5 DEF SignIn
<1>6. CASE SignOut \/ Choose \/ Cancel
  BY <1>6 DEF SignOut, Choose, Cancel
<1>7. CASE Reopen \/ Elsewhere \/ Others
  BY <1>7 DEF Reopen, Elsewhere, Others
<1>8. CASE UNCHANGED call
  BY <1>8
<1> QED BY <1>1, <1>2, <1>3, <1>4, <1>5, <1>6, <1>7, <1>8 DEF Next, Receive, vars

LEMMA TransitionServed ==
  ASSUME IInv, [Next]_vars, NEW c \in Call, NEW answers, "none" \notin answers,
         Answers(c, {"transition"}, answers)
  PROVE  /\ ServeTransition(c) /\ Verdict(call[c]) \in answers
         /\ call[c] \in TransitionCall /\ IsConfirmed(call[c])
<1>1. call[c] # Idle /\ call[c].op = "transition" /\ call[c].answer = "none"
      /\ call'[c] # Idle /\ call'[c].answer \in answers
  BY DEF Answers, Open
<1>2. call[c] \in TransitionCall /\ IsConfirmed(call[c])
  BY <1>1, Kinds DEF IInv, TypeOK, Open, CallInv
<1>3. Serve(c)
  BY <1>1, OnlyServed
<1>4. ServeTransition(c)
  BY <1>1, <1>3 DEF Serve, ServeLoad, Unserved
<1>5. call'[c].answer = Verdict(call[c])
  BY <1>2, <1>4 DEF ServeTransition, IInv, TypeOK, TransitionCall
<1> QED BY <1>1, <1>2, <1>4, <1>5

\* A transition the server makes starts from the very state the dialog showed
\* and leads where it said.
THEOREM ConfirmedHappens == Spec => ConfirmedIsApplied
<1>1. ASSUME IInv, [Next]_vars, NEW c \in Call, Answers(c, {"transition"}, {"ok"})
      PROVE  call[c].confirmed = [item |-> record, status |-> record'.status]
  <2>1. /\ ServeTransition(c) /\ Verdict(call[c]) = "ok"
        /\ call[c] \in TransitionCall /\ IsConfirmed(call[c])
    <3>1. "none" \notin {"ok"}
      OBVIOUS
    <3> QED BY <1>1, <3>1, TransitionServed
  <2>2. call[c].confirmed \in Dialog /\ call[c].confirmed.item # NoItem
    BY <2>1, NothingAssumption DEF TransitionCall, Dialog
  <2>3. record.version = call[c].expected
    BY <2>1, Verdicts
  <2>4. call[c].confirmed.item = record
    BY <2>1, <2>2, <2>3 DEF IsConfirmed, IsPast
  <2>5. record'.status = call[c].confirmed.status
    BY <1>1, <2>1, Transitioned DEF IsConfirmed
  <2> QED BY <2>2, <2>4, <2>5 DEF Dialog
<1>2. IInv /\ [Next]_vars =>
        \A c \in Call : Answers(c, {"transition"}, {"ok"}) =>
          call[c].confirmed = [item |-> record, status |-> record'.status]
  BY <1>1
<1> QED BY <1>2, Invariance, PTL DEF Spec, ConfirmedIsApplied

\* What the page offers for the record as it is, the server does not refuse to
\* the session it is offered to: ranks, graphs and separation agree.
THEOREM OffersAreAccepted == Spec => OfferedIsAccepted
<1>1. ASSUME IInv, [Next]_vars, NEW c \in Call,
             Answers(c, {"transition"}, Refusal \ {"unauthorized"})
      PROVE  ~call[c].own \/ call[c].confirmed.item # record
  <2> SUFFICES ASSUME call[c].own, call[c].confirmed.item = record
               PROVE  FALSE
    OBVIOUS
  <2> DEFINE r == call[c]
  <2>1. /\ Verdict(r) \in Refusal \ {"unauthorized"} /\ r \in TransitionCall /\ IsConfirmed(r)
    <3>1. "none" \notin Refusal \ {"unauthorized"}
      BY DEF Refusal
    <3> QED BY <1>1, <3>1, TransitionServed
  <2>2. IsOffered(r.token, r.confirmed) /\ r.status = r.confirmed.status /\ r.expected = record.version
    BY <2>1 DEF IsConfirmed
  <2>3. r.token \in Token /\ r.token.role \in Role
    BY <2>1, <2>2 DEF IsOffered, TransitionCall, Token
  <2>4. CanTransition(Graph[page], record.status, r.status)
    <3>1. page \in DOMAIN Graph /\ record.status \in DOMAIN Graph[page]
      BY <1>1 DEF IInv, TypeOK
    <3> QED BY <2>2, <3>1, GraphsAgree DEF IsOffered, CanTransition
  <2>5. Verdict(r) \notin {"bad_transition", "conflict"}
    BY <2>2, <2>4 DEF Verdict
  <2>6. ~(roleRank[r.token.role] < roleRank["operator"])
    BY <2>2, <2>3, Ranks DEF IsOffered
  <2>7. page = "priorityDecision" =>
          r.token.role \in {"reviewer", "admin"} /\ r.token.user # record.preparedBy
    BY <2>2, <2>3, Ranks DEF IsOffered
  <2>8. Verdict(r) \notin {"forbidden", "separation"}
    BY <2>6, <2>7 DEF Verdict
  <2> QED BY <2>1, <2>5, <2>8 DEF Refusal
<1>2. IInv /\ [Next]_vars =>
        \A c \in Call : Answers(c, {"transition"}, Refusal \ {"unauthorized"}) =>
          ~call[c].own \/ call[c].confirmed.item # record
  BY <1>1
<1> QED BY <1>2, Invariance, PTL DEF Spec, OfferedIsAccepted

\* Whatever the server answers but "unauthorized", the role it goes by was held
\* less than the life of a token ago.
THEOREM RolesAreRecent == Spec => RoleIsRecent
<1>1. ASSUME IInv, [Next]_vars, NEW c \in Call,
             Answers(c, {"load", "reload", "transition"}, {"ok"} \cup (Refusal \ {"unauthorized"})),
             NEW t, t = call[c].token
      PROVE  held[t.user][t.role] # Never /\ now < held[t.user][t.role] + TokenTTL
  <2>1. call[c] # Idle /\ call[c].answer = "none" /\ call'[c] # Idle
        /\ call'[c].answer \in {"ok"} \cup (Refusal \ {"unauthorized"})
    BY <1>1 DEF Answers, Open
  <2>2. Serve(c)
    BY <1>1, <2>1, OnlyServed DEF Refusal
  <2>3. IsIssued(t) /\ t \in Token \cup {NoToken}
    BY <1>1, <2>1, Kinds DEF IInv, TypeOK, CallInv, Open
  <2>4. Authenticate(t)
    <3>1. CASE ServeLoad(c)
      <4>1. call[c] \in LoadCall
        BY <1>1, <3>1, Kinds DEF ServeLoad, Unserved, IInv, TypeOK
      <4>2. call'[c].answer = IF Authenticate(call[c].token) THEN "ok" ELSE "unauthorized"
        BY <1>1, <3>1, <4>1 DEF ServeLoad, IInv, TypeOK, LoadCall
      <4> QED BY <1>1, <2>1, <4>2
    <3>2. CASE ServeTransition(c)
      <4>1. call[c] \in TransitionCall
        BY <1>1, <3>2, Kinds DEF ServeTransition, Unserved, IInv, TypeOK
      <4>2. call'[c].answer = Verdict(call[c])
        BY <1>1, <3>2, <4>1 DEF ServeTransition, IInv, TypeOK, TransitionCall
      <4> QED BY <1>1, <2>1, <4>2, Verdicts
    <3> QED BY <2>2, <3>1, <3>2 DEF Serve
  <2>5. t \in Token /\ now < t.exp
    BY <2>3, <2>4 DEF Authenticate
  <2>6. held[t.user][t.role] # Never /\ t.exp <= held[t.user][t.role] + TokenTTL
    BY <2>3, <2>4 DEF Authenticate, IsIssued
  <2>7. t.exp \in Nat /\ now \in Nat /\ held[t.user][t.role] \in Nat
    BY <1>1, <2>5 DEF IInv, SessionInv, Token
  <2> QED BY <2>5, <2>6, <2>7, SessionAssumption
<1>2. IInv /\ [Next]_vars =>
        \A c \in Call :
          Answers(c, {"load", "reload", "transition"}, {"ok"} \cup (Refusal \ {"unauthorized"})) =>
            LET t == call[c].token IN
              held[t.user][t.role] # Never /\ now < held[t.user][t.role] + TokenTTL
  BY <1>1
<1> QED BY <1>2, Invariance, PTL DEF Spec, RoleIsRecent

\* A call that is over was received, or the tab was closed.
LEMMA OnlyReceived ==
  ASSUME IInv, [Next]_vars, NEW c \in Call, call[c] # Idle, call'[c] = Idle
  PROVE  Receive(c) \/ Reopen
<1>1. ASSUME NEW d \in Call, Load(d) \/ Confirm(d) PROVE FALSE
  <2>1. PICK r : d \notin Open /\ call' = [call EXCEPT ![d] = r]
    BY <1>1 DEF Load, Confirm, Send
  <2>2. c # d
    BY <2>1 DEF Open
  <2> QED BY <2>1, <2>2 DEF IInv, TypeOK
<1>2. ASSUME NEW d \in Call, Serve(d) PROVE FALSE
  <2>1. d # c => call'[c] = call[c]
    BY <1>2 DEF Serve, ServeLoad, ServeTransition, IInv, TypeOK
  <2>2. CASE d = c
    <3>1. call[c].op \in {"load", "reload", "transition"}
      BY Kinds DEF IInv, TypeOK
    <3>2. call'[c].op = call[c].op
      <4>1. CASE ServeLoad(c)
        <5>1. call[c] \in LoadCall
          BY <4>1, Kinds DEF ServeLoad, Unserved, IInv, TypeOK
        <5> QED BY <4>1, <5>1 DEF ServeLoad, IInv, TypeOK, LoadCall
      <4>2. CASE ServeTransition(c)
        <5>1. call[c] \in TransitionCall
          BY <4>2, Kinds DEF ServeTransition, Unserved, IInv, TypeOK
        <5> QED BY <4>2, <5>1 DEF ServeTransition, IInv, TypeOK, TransitionCall
      <4> QED BY <1>2, <2>2, <4>1, <4>2 DEF Serve
    <3> QED BY <3>1, <3>2 DEF Idle
  <2> QED BY <2>1, <2>2
<1>3. ASSUME NEW d \in Call, Receive(d) PROVE d = c
  <2>1. PICK r : call' = [call EXCEPT ![d] = r]
    BY <1>3 DEF Receive, ReceiveLoad, ReceiveTransition, Finish
  <2> QED BY <2>1 DEF IInv, TypeOK
<1>4. CASE \E u \in User : SignIn(u)
  BY <1>4 DEF SignIn
<1>5. CASE SignOut \/ Choose \/ Cancel
  BY <1>5 DEF SignOut, Choose, Cancel
<1>6. CASE Elsewhere \/ Others
  BY <1>6 DEF Elsewhere, Others
<1>7. CASE UNCHANGED call
  BY <1>7
<1> QED BY <1>1, <1>2, <1>3, <1>4, <1>5, <1>6, <1>7 DEF Next, vars

\* When a transition is over, the list shows it or there is an error.
THEOREM NothingIsOverUnseen == Spec => OverIsShown
<1>1. ASSUME IInv, [Next]_vars, NEW c \in Call,
             c \in Open /\ call'[c] = Idle /\ call[c].op # "load" /\ item' # NoItem
      PROVE  error' \/ item'.version > call[c].confirmed.item.version
  <2>1. call[c] # Idle
    BY <1>1 DEF Open
  <2>2. Receive(c)
    BY <1>1, <2>1, OnlyReceived DEF Reopen
  <2>3. CASE ReceiveLoad(c)
    <3>1. PICK answer \in Heard(c, {"load", "reload"}) :
            /\ item'  \in Listed(c, answer)
            /\ error' = (answer # "ok" \/ error)
      BY <2>3 DEF ReceiveLoad
    <3>2. CASE answer # "ok"
      BY <3>1, <3>2
    <3>3. CASE answer = "ok"
      <4>1. call[c].op = "reload" /\ call[c].answer = "ok"
        BY <1>1, <3>3, Heards DEF IInv
      <4>2. IsAfter(call[c])
        BY <1>1, <4>1 DEF IInv, CallInv
      <4>3. call[c].confirmed.item.version < call[c].seen.version
        BY <4>1, <4>2 DEF IsAfter
      <4>4. item' = call[c].seen
        BY <3>1, <3>3 DEF Listed
      <4> QED BY <4>3, <4>4
    <3> QED BY <3>2, <3>3
  <2>4. CASE ReceiveTransition(c)
    <3>1. PICK r : call' = [call EXCEPT ![c] = r]
                   /\ (error' = TRUE \/ r = LoadRequest("reload", call[c].confirmed))
      BY <2>4 DEF ReceiveTransition, Finish, IInv, TypeOK
    <3>2. r = Idle
      BY <1>1, <3>1 DEF IInv, TypeOK
    <3> QED BY <3>1, <3>2 DEF LoadRequest, Idle
  <2> QED BY <2>2, <2>3, <2>4 DEF Receive
<1>2. IInv /\ [Next]_vars =>
        \A c \in Call :
          c \in Open /\ call'[c] = Idle /\ call[c].op # "load" /\ item' # NoItem =>
            error' \/ item'.version > call[c].confirmed.item.version
  BY <1>1
<1> QED BY <1>2, Invariance, PTL DEF Spec, OverIsShown
-----------------------------------------------------------------------------
(* The server is the register that AggregateRecord is shown to implement. *)

\* The record is changed, its status to s.
ChangedTo(s) == record' = [record EXCEPT !.version = @ + 1, !.status = s]

\* The record only changes version by version: it is edited, or moved along the
\* graph of the page.
LEMMA RecordSteps ==
  ASSUME IInv, [Next]_vars
  PROVE  /\ page' = page
         /\ \/ record' = record
            \/ \E s \in Graph[page][record.status] \cup {record.status} : ChangedTo(s)
<1>1. ASSUME NEW c \in Call, Load(c) \/ Confirm(c) \/ Receive(c) PROVE UNCHANGED <<page, record>>
  BY <1>1 DEF Load, Confirm, Receive, ReceiveLoad, ReceiveTransition
<1>2. ASSUME NEW c \in Call, Serve(c)
      PROVE  /\ page' = page
             /\ record' # record => \E s \in Graph[page][record.status] : ChangedTo(s)
  <2>1. CASE ServeLoad(c)
    BY <2>1 DEF ServeLoad
  <2>2. CASE ServeTransition(c) /\ Verdict(call[c]) = "ok"
    <3>1. call[c].status \in Graph[page][record.status]
      BY <2>2, Verdicts DEF CanTransition
    <3>2. ChangedTo(call[c].status)
      BY <2>2 DEF ServeTransition, ChangedTo
    <3>3. page' = page
      BY <2>2 DEF ServeTransition
    <3> QED BY <3>1, <3>2, <3>3
  <2>3. CASE ServeTransition(c) /\ Verdict(call[c]) # "ok"
    <3>1. record' = record
      BY <2>3 DEF ServeTransition
    <3>2. page' = page
      BY <2>3 DEF ServeTransition
    <3> QED BY <3>1, <3>2
  <2> QED BY <1>2, <2>1, <2>2, <2>3 DEF Serve
<1>3. ASSUME NEW u \in User, SignIn(u) PROVE UNCHANGED <<page, record>>
  BY <1>3 DEF SignIn
<1>4. CASE SignOut \/ Choose \/ Cancel
  BY <1>4 DEF SignOut, Choose, Cancel
<1>5. CASE Reopen \/ Elsewhere
  BY <1>5 DEF Reopen, Elsewhere
<1>6. CASE Others
  <2>1. PICK s \in Graph[page][record.status] \cup {record.status} : ChangedTo(s)
    BY <1>6, Zenon DEF Others, ChangedTo
  <2>2. page' = page
    BY <1>6 DEF Others
  <2> QED BY <2>1, <2>2
<1>7. CASE UNCHANGED <<page, record, tabVars, call>>
  BY <1>7
<1>8. CASE UNCHANGED vars
  BY <1>8 DEF vars
<1> QED BY <1>1, <1>2, <1>3, <1>4, <1>5, <1>6, <1>7, <1>8 DEF Next

\* The instance speaks of the same graphs.
LEMMA RegisterData ==
  ASSUME NEW p \in DOMAIN KindName
  PROVE  /\ p \in DOMAIN Graph /\ KindName[p] \in Register!Kind
         /\ Register!GraphOf(KindName[p]) = Graph[p]
         /\ InitialStatus[p] \in Register!SeedStatuses(KindName[p])
         /\ DOMAIN Graph[p] \subseteq Register!Status
<1>1. p \in {"bridgeAsset", "inspectionRound", "defectFinding"}
  BY DEF KindName
<1>2. p \in DOMAIN Graph /\ KindName[p] \in Register!Kind
  BY <1>1 DEF Graph, KindName, Register!Kind
<1>3. Register!GraphOf(KindName[p]) = Graph[p]
  <2>1. CASE p = "bridgeAsset"
    BY <2>1 DEF KindName, Graph, Register!GraphOf,
           Register!BridgeAssetTransitions, BridgeAssetTransitions
  <2>2. CASE p = "inspectionRound"
    BY <2>2 DEF KindName, Graph, Register!GraphOf,
           Register!InspectionRoundTransitions, InspectionRoundTransitions
  <2>3. CASE p = "defectFinding"
    BY <2>3 DEF KindName, Graph, Register!GraphOf,
           Register!DefectFindingTransitions, DefectFindingTransitions
  <2> QED BY <1>1, <2>1, <2>2, <2>3
<1>4. InitialStatus[p] \in Register!SeedStatuses(KindName[p])
  BY <1>1 DEF KindName, InitialStatus, Register!SeedStatuses, BridgeAssetInitialStatus,
         InspectionRoundInitialStatus, DefectFindingInitialStatus
<1>5. DOMAIN Graph[p] \subseteq Register!Status
  BY <1>2, <1>3 DEF Register!Status, Register!StatusesOf
<1> QED BY <1>2, <1>3, <1>4, <1>5

LEMMA RegisterStart == Init => Register!Init
<1> SUFFICES ASSUME Init PROVE Register!Init
  OBVIOUS
<1>1. ASSUME NEW p \in DOMAIN KindName
      PROVE  registered[p] \in Register!SeedRows(KindName[p]) /\ KindName[p] \in Register!Kind
  <2>1. registered[p] = Register!NewRow(InitialStatus[p], "fields")
    BY DEF Init, registered, Register!NewRow
  <2> QED BY <2>1, RegisterData DEF Register!SeedRows
<1>2. DOMAIN registered = DOMAIN KindName
  BY DEF registered
<1>3. registered \in [DOMAIN KindName ->
                        {Register!NoRow} \cup UNION {Register!SeedRows(k) : k \in Register!Kind}]
  <2>1. \A p \in DOMAIN KindName :
          registered[p] \in UNION {Register!SeedRows(k) : k \in Register!Kind}
    BY <1>1
  <2> QED BY <1>2, <2>1 DEF registered
<1> QED BY <1>1, <1>3 DEF Register!Init, Register!SeedTables

\* A row of which one column changes, and then its version.
LEMMA RowChanged ==
  ASSUME NEW v \in Nat, NEW s, NEW t, NEW x, NEW y, NEW z,
         x = [version |-> v, status |-> s, fields |-> "fields", deleted |-> FALSE],
         \/ y = [x EXCEPT !.status = t]
         \/ y = [x EXCEPT !.fields = "fields"] /\ t = s,
         z = [y EXCEPT !.version = v + 1]
  PROVE  /\ y.version = v
         /\ z = [version |-> v + 1, status |-> t, fields |-> "fields", deleted |-> FALSE]
<1>1. y = [version |-> v, status |-> t, fields |-> "fields", deleted |-> FALSE]
  OBVIOUS
<1>2. y.version = v
  BY <1>1
<1>3. z = [version |-> v + 1, status |-> t, fields |-> "fields", deleted |-> FALSE]
  BY <1>1
<1> QED BY <1>2, <1>3

\* A change of the record is a change of its row.
LEMMA RecordStepIsRegisterStep ==
  ASSUME IInv, page \in DOMAIN KindName, page' = page,
         NEW s \in Graph[page][record.status] \cup {record.status}, ChangedTo(s)
  PROVE  Register!Next
<1> DEFINE row == registered[page]
<1>1. /\ record \in Record /\ record.version \in Nat /\ record.version > 0
      /\ record.status \in DOMAIN Graph[page]
  BY WebClientAssumption DEF IInv, TypeOK, Record
<1>2. record'.version = record.version + 1 /\ record'.status = s
  BY <1>1 DEF Record, ChangedTo
<1>3. row = [version |-> record.version, status |-> record.status,
             fields |-> "fields", deleted |-> FALSE]
  BY DEF registered
<1>4. registered' = [registered EXCEPT ![page] =
                       [version |-> record.version + 1, status |-> s,
                        fields |-> "fields", deleted |-> FALSE]]
  BY <1>2 DEF registered
<1>5. Register!Visible(row)
  BY <1>1, <1>3 DEF Register!Visible
<1>6. DOMAIN registered = DOMAIN KindName
  BY DEF registered
<1>7. CASE s \in Graph[page][record.status]
  <2>1. Register!CanTransition(Register!GraphOf(KindName[page]), row.status, s)
    BY <1>1, <1>3, <1>7, RegisterData DEF Register!CanTransition
  <2>2. registered' = [registered EXCEPT ![page].status = s, ![page].version = @ + 1]
    <3>1. PICK x, y, z, once :
            /\ x = row /\ y = [x EXCEPT !.status = s]
            /\ once = [registered EXCEPT ![page] = y]
            /\ z = [y EXCEPT !.version = record.version + 1]
      OBVIOUS
    <3>2. /\ y.version = record.version
          /\ z = [version |-> record.version + 1, status |-> s,
                  fields |-> "fields", deleted |-> FALSE]
      <4>1. PICK v, t : v = record.version /\ t = record.status
        OBVIOUS
      <4>2. v \in Nat /\ x = [version |-> v, status |-> t, fields |-> "fields", deleted |-> FALSE]
        BY <1>1, <1>3, <3>1, <4>1
      <4>3. z = [y EXCEPT !.version = v + 1]
        BY <3>1, <4>1
      <4>4. y = [x EXCEPT !.status = s] \/ (y = [x EXCEPT !.fields = "fields"] /\ s = t)
        BY <3>1, <4>1
      <4> QED BY <4>1, <4>2, <4>3, <4>4, RowChanged
    <3>3. once[page] = y
      BY <1>6, <3>1
    <3>4. [registered EXCEPT ![page].status = s, ![page].version = @ + 1]
            = [once EXCEPT ![page].version = @ + 1]
      BY <1>6, <3>1
    <3>5. [once EXCEPT ![page].version = @ + 1] = [once EXCEPT ![page] = z]
      BY <3>1, <3>2, <3>3
    <3>6. [once EXCEPT ![page] = z] = [registered EXCEPT ![page] = z]
      BY <1>6, <3>1
    <3> QED BY <1>4, <3>2, <3>4, <3>5, <3>6
  <2>3. Register!Move(page, s)
    BY <1>5, <2>1, <2>2 DEF Register!Move
  <2>4. s \in Register!Status
    BY <1>1, <1>7, GraphsAgree, RegisterData
  <2> QED BY <2>3, <2>4 DEF Register!Next
<1>8. CASE s = record.status
  <2>1. registered' = [registered EXCEPT ![page].fields = "fields", ![page].version = @ + 1]
    <3>1. PICK x, y, z, once :
            /\ x = row /\ y = [x EXCEPT !.fields = "fields"]
            /\ once = [registered EXCEPT ![page] = y]
            /\ z = [y EXCEPT !.version = record.version + 1]
      OBVIOUS
    <3>2. /\ y.version = record.version
          /\ z = [version |-> record.version + 1, status |-> s,
                  fields |-> "fields", deleted |-> FALSE]
      <4>1. PICK v, t : v = record.version /\ t = record.status
        OBVIOUS
      <4>2. v \in Nat /\ x = [version |-> v, status |-> t, fields |-> "fields", deleted |-> FALSE]
        BY <1>1, <1>3, <3>1, <4>1
      <4>3. z = [y EXCEPT !.version = v + 1]
        BY <3>1, <4>1
      <4>4. y = [x EXCEPT !.status = s] \/ (y = [x EXCEPT !.fields = "fields"] /\ s = t)
        BY <1>8, <3>1, <4>1
      <4> QED BY <4>1, <4>2, <4>3, <4>4, RowChanged
    <3>3. once[page] = y
      BY <1>6, <3>1
    <3>4. [registered EXCEPT ![page].fields = "fields", ![page].version = @ + 1]
            = [once EXCEPT ![page].version = @ + 1]
      BY <1>6, <3>1
    <3>5. [once EXCEPT ![page].version = @ + 1] = [once EXCEPT ![page] = z]
      BY <3>1, <3>2, <3>3
    <3>6. [once EXCEPT ![page] = z] = [registered EXCEPT ![page] = z]
      BY <1>6, <3>1
    <3> QED BY <1>4, <3>2, <3>4, <3>5, <3>6
  <2>2. Register!Edit(page, "fields")
    BY <1>5, <2>1 DEF Register!Edit
  <2> QED BY <2>2 DEF Register!Next
<1> QED BY <1>7, <1>8

\* What the tab takes for one step of the server is one step of the register the
\* three services are shown to implement, so nothing hides between the two models.
THEOREM ServerImplementsRegister == Spec => ImplementsRegister /\ Register!Spec
<1>1. ASSUME IInv, [Next]_vars
      PROVE  [Register!Next]_registered
  <2>1. page' = page
    BY <1>1, RecordSteps
  <2>2. CASE record' = record \/ page \notin DOMAIN KindName
    BY <2>1, <2>2 DEF registered
  <2>3. CASE record' # record /\ page \in DOMAIN KindName
    BY <1>1, <2>1, <2>3, RecordSteps, RecordStepIsRegisterStep
  <2> QED BY <2>2, <2>3
<1>2. [Register!Next]_registered => [registered' # registered => Register!Next]_registered
  OBVIOUS
<1> QED BY <1>1, <1>2, RegisterStart, Invariance, PTL DEF Spec, ImplementsRegister, Register!Spec

\* And other clients are let do whatever the register lets anybody do, but for a
\* removal: to edit or move the record is one of the things Others may do.
THEOREM OthersAreFree ==
  ASSUME IInv, page \in DOMAIN KindName, record.version < MaxVersion,
         Register!Edit(page, "fields") \/ \E s \in Register!Status : Register!Move(page, s),
         record' \in Record, record'.preparedBy = record.preparedBy,
         UNCHANGED <<sessionVars, page, tabVars, call, events>>
  PROVE  Others
<1>1. record \in Record /\ record.version \in Nat /\ record.status \in DOMAIN Graph[page]
  BY WebClientAssumption DEF IInv, TypeOK, Record
<1>2. /\ registered[page] = [version |-> record.version, status |-> record.status,
                             fields |-> "fields", deleted |-> FALSE]
      /\ registered'[page].version = record'.version
      /\ registered'[page].status = record'.status
      /\ DOMAIN registered = DOMAIN KindName
  BY DEF registered
<1>3. ASSUME NEW s, record'.version = record.version + 1, record'.status = s PROVE ChangedTo(s)
  BY <1>1, <1>3 DEF Record, ChangedTo
<1>4. \E s \in Graph[page][record.status] \cup {record.status} : ChangedTo(s)
  <2>1. CASE Register!Edit(page, "fields")
    <3>1. registered' = [registered EXCEPT ![page].fields = "fields", ![page].version = @ + 1]
      BY <2>1 DEF Register!Edit
    <3>2. registered'[page].version = record.version + 1 /\ registered'[page].status = record.status
      BY <1>2, <3>1
    <3> QED BY <1>2, <1>3, <3>2
  <2>2. CASE \E s \in Register!Status : Register!Move(page, s)
    <3>1. PICK s : Register!Move(page, s)
      BY <2>2
    <3>2. registered' = [registered EXCEPT ![page].status = s, ![page].version = @ + 1]
      BY <3>1 DEF Register!Move
    <3>3. registered'[page].version = record.version + 1 /\ registered'[page].status = s
      BY <1>2, <3>2
    <3>4. s \in Graph[page][record.status]
      <4>1. s \in Register!GraphOf(KindName[page])[registered[page].status]
        BY <3>1 DEF Register!Move, Register!CanTransition
      <4>2. registered[page].status = record.status
        BY <1>2
      <4> QED BY <4>1, <4>2, RegisterData, Zenon
    <3> QED BY <1>2, <1>3, <3>3, <3>4
  <2> QED BY <2>1, <2>2
<1>5. page # "priorityDecision"
  BY DEF KindName
<1> QED BY <1>4, <1>5, Zenon DEF Others, ChangedTo
=============================================================================
