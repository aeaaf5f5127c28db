------------------------------ MODULE WebClient ------------------------------
(***************************************************************************)
(* One tab of the browser at work on one record, with the server           *)
(* (frontend/src: EntityPage.vue, stores/factory.ts, hooks/useAuth.ts,     *)
(* api/client.ts, router/index.ts, utils/format.ts).                       *)
(*                                                                         *)
(* The session is kept twice: in the tab and in the storage all tabs share,*)
(* from which each request takes its token.  Several calls of the tab may  *)
(* be under way; each is sent, served and received, or lost on the way     *)
(* there or back.  A transition is one step of the server, which is what   *)
(* AggregateRecord and PriorityDecision show it to look like, and so is a  *)
(* login, whose loss leaves everything as it was.                          *)
(* Left out: creating records, which takes the same course as a            *)
(* transition, deletions, and the audit page, which loads once.            *)
(***************************************************************************)
EXTENDS Session, StatusGraphs

CONSTANTS Call,         \* calls the tab may have under way at once
          GivenAccount, \* what an account may be changed to
          Nobody,       \* the preparer of what is no decision
          NoItem,       \* nothing loaded yet
          NoDialog,     \* no confirmation is asked for
          MaxVersion,   \* bound: how often the record changes
          MaxEvents     \* bound: requests of the tab, logins, account changes, ticks

ASSUME WebClientAssumption ==
  GivenAccount \subseteq Account /\ MaxVersion \in Nat \ {0} /\ MaxEvents \in Nat

VARIABLES page,      \* the kind of records the page is for
          record,    \* the record, in the database
          stored,    \* localStorage: the token of the session
          session,   \* the tab's session (useAuth)
          item,      \* store.items: the record as last loaded
          loading,   \* store.loading
          error,     \* store.error: is there one?
          pending,   \* EntityPage's pending: the transition to be confirmed
          call,      \* the calls under way
          events     \* how many of what MaxEvents bounds there were

tabVars == <<stored, session, item, loading, error, pending>>
vars    == <<sessionVars, page, record, tabVars, call, events>>

\* The server's graph for each kind of page, and the status of a new record.
Graph ==
  [bridgeAsset      |-> BridgeAssetTransitions,
   inspectionRound  |-> InspectionRoundTransitions,
   defectFinding    |-> DefectFindingTransitions,
   priorityDecision |-> PriorityDecisionTransitions]

InitialStatus ==
  [bridgeAsset      |-> BridgeAssetInitialStatus,
   inspectionRound  |-> InspectionRoundInitialStatus,
   defectFinding    |-> DefectFindingInitialStatus,
   priorityDecision |-> PriorityDecisionInitialStatus]

\* The client has a copy of the graphs.
transitions ==
  [bridgeAsset |->
     [active |-> {"restricted", "closed"}, restricted |-> {"closed", "retired", "active"},
      closed |-> {"retired", "restricted"}, retired |-> {"closed"}],
   inspectionRound |->
     [planned |-> {"running", "review"}, running |-> {"review", "completed", "planned"},
      review |-> {"completed", "running"}, completed |-> {"review"}],
   defectFinding |->
     [new |-> {"verified", "monitoring"}, verified |-> {"monitoring", "mitigated", "new"},
      monitoring |-> {"mitigated", "closed", "verified"}, mitigated |-> {"closed", "monitoring"},
      closed |-> {"mitigated"}],
   priorityDecision |->
     [draft |-> {"observe", "restrict", "urgent"}, observe |-> {}, restrict |-> {}, urgent |-> {}]]

Status == UNION {DOMAIN Graph[p] : p \in DOMAIN Graph}

Record == [version : 1..MaxVersion, status : Status, preparedBy : User \cup {Nobody}]

\* What the confirmation asks for.
Dialog == [item : Record, status : Status]

\* Different from what is loaded, asked for, or signed.
ASSUME NothingAssumption == NoItem \notin Record /\ NoDialog \notin Dialog /\ NoToken \notin Token

Refusal == {"unauthorized", "forbidden", "separation", "bad_transition", "conflict"}

Answer == {"none", "ok"} \cup Refusal

Idle == [op |-> "idle"]

\* A load, or the load that follows a transition.
LoadCall ==
  [op : {"load", "reload"}, answer : Answer, token : Token \cup {NoToken},
   seen : Record \cup {NoItem}, confirmed : Dialog \cup {NoDialog}]

TransitionCall ==
  [op : {"transition"}, answer : Answer, token : Token \cup {NoToken},
   expected : 1..MaxVersion, status : Status, confirmed : Dialog, own : BOOLEAN]

Open == {c \in Call : call[c] # Idle}

TypeOK ==
  /\ page    \in DOMAIN Graph
  /\ record  \in Record
  /\ stored  \in Token \cup {NoToken} /\ session \in Token \cup {NoToken}
  /\ item    \in Record \cup {NoItem}
  /\ loading \in BOOLEAN /\ error \in BOOLEAN
  /\ pending \in Dialog \cup {NoDialog}
  /\ call    \in [Call -> {Idle} \cup LoadCall \cup TransitionCall]
  /\ events  \in Nat

Init ==
  /\ SessionInit
  /\ page    \in DOMAIN Graph
  /\ record  \in [version : {1}, status : {InitialStatus[page]},
                  preparedBy : IF page = "priorityDecision" THEN User ELSE {Nobody}]
  /\ stored  = NoToken
  /\ session = NoToken
  /\ item    = NoItem
  /\ loading = FALSE
  /\ error   = FALSE
  /\ pending = NoDialog
  /\ call    = [c \in Call |-> Idle]
  /\ events  = 0

-----------------------------------------------------------------------------
(* What the user does. *)

\* A request for the list, with the dialog it follows.  The token is read from
\* the storage whenever a request is sent.
LoadRequest(op, dialog) ==
  [op |-> op, answer |-> "none", token |-> stored, seen |-> NoItem, confirmed |-> dialog]

\* confirmed and own are history: what the dialog said, and whether the tab's
\* session is the one the token is of.
TransitionRequest(dialog, version) ==
  [op |-> "transition", answer |-> "none", token |-> stored,
   expected |-> version, status |-> dialog.status, confirmed |-> dialog, own |-> session = stored]

Event == events < MaxEvents /\ events' = events + 1

Send(c, request) == c \notin Open /\ call' = [call EXCEPT ![c] = request] /\ Event

\* useAuth authenticate, at the login page.
SignIn(u) ==
  /\ session = NoToken /\ Login(u) # NoToken
  /\ Event
  /\ stored' = Login(u) /\ session' = Login(u)
  /\ UNCHANGED <<sessionVars, page, record, item, loading, error, pending, call>>

SignOut ==
  /\ session # NoToken
  /\ stored' = NoToken /\ session' = NoToken /\ pending' = NoDialog
  /\ UNCHANGED <<sessionVars, page, record, item, loading, error, call, events>>

\* The router lets a tab with a stored session pass; a page that is open stays
\* open when another tab signs out.
PageShown == {stored, session} # {NoToken}

\* The page is opened, or searched.
Load(c) ==
  /\ PageShown
  /\ Send(c, LoadRequest("load", NoDialog))
  /\ loading' = TRUE /\ error' = FALSE
  /\ UNCHANGED <<sessionVars, page, record, stored, session, item, pending>>

canAtLeast(minimum) == session # NoToken /\ roleRank[session.role] >= roleRank[minimum]

\* Fault: the preparer is offered to decide.
targetsForPreparer(i) ==
  {s \in transitions[page][i.status] : canAtLeast(IF page = "priorityDecision" THEN "reviewer" ELSE "operator")}

\* The transitions the page offers for a record.
targetsFor(i) ==
  {s \in transitions[page][i.status] :
     IF page = "priorityDecision" THEN canAtLeast("reviewer") /\ i.preparedBy # session.user
     ELSE canAtLeast("operator")}

Choose ==
  /\ item # NoItem /\ pending = NoDialog
  /\ \E s \in targetsFor(item) : pending' = [item |-> item, status |-> s]
  /\ UNCHANGED <<sessionVars, page, record, stored, session, item, loading, error, call, events>>

Cancel ==
  /\ pending # NoDialog
  /\ pending' = NoDialog
  /\ UNCHANGED <<sessionVars, page, record, stored, session, item, loading, error, call, events>>

\* Fault: the version of the record as it is listed now.
expectedVersionNow == (IF item = NoItem THEN pending.item ELSE item).version

expectedVersion == pending.item.version

\* confirmTransition, perhaps twice.
Confirm(c) ==
  /\ pending # NoDialog
  /\ Send(c, TransitionRequest(pending, expectedVersion))
  /\ loading' = TRUE /\ error' = FALSE
  /\ UNCHANGED <<sessionVars, page, record, stored, session, item, pending>>

\* The tab is closed and opened anew, and nobody waits for what is under way.
\* (If it is served later, that is one of the things Others may do.)
Reopen ==
  /\ session' = stored
  /\ item' = NoItem /\ loading' = FALSE /\ error' = FALSE /\ pending' = NoDialog
  /\ call' = [c \in Call |-> Idle]
  /\ UNCHANGED <<sessionVars, page, record, stored, events>>

\* Another tab signs in or out.
Elsewhere ==
  /\ Event
  /\ stored' \in {NoToken} \cup {Login(u) : u \in User}
  /\ UNCHANGED <<sessionVars, page, record, session, item, loading, error, pending, call>>

-----------------------------------------------------------------------------
(* The server. *)

\* The checks of a transition, from the middleware to the compare-and-swap.
Verdict(r) ==
  IF ~Authenticate(r.token) THEN "unauthorized"
  ELSE IF roleRank[r.token.role] < roleRank["operator"] THEN "forbidden"
  ELSE IF page = "priorityDecision" /\ r.token.role \notin {"reviewer", "admin"} THEN "forbidden"
  ELSE IF page = "priorityDecision" /\ r.token.user = record.preparedBy THEN "separation"
  ELSE IF ~CanTransition(Graph[page], record.status, r.status) THEN "bad_transition"
  ELSE IF record.version # r.expected THEN "conflict"
  ELSE "ok"

Unserved(c, op) == c \in Open /\ call[c].op \in op /\ call[c].answer = "none"

\* A list is open to every role.
ServeLoad(c) ==
  /\ Unserved(c, {"load", "reload"})
  /\ LET answer == IF Authenticate(call[c].token) THEN "ok" ELSE "unauthorized" IN
       call' = [call EXCEPT ![c].answer = answer, ![c].seen = record]
  /\ UNCHANGED <<sessionVars, page, record, tabVars, events>>

\* Fault: a transition counts no version.
ServeTransitionUncounted(c) ==
  /\ Unserved(c, {"transition"})
  /\ LET verdict == Verdict(call[c]) IN
       /\ verdict = "ok" => record.version < MaxVersion
       /\ call' = [call EXCEPT ![c].answer = verdict]
       /\ record' = IF verdict = "ok" THEN [record EXCEPT !.status = call[c].status] ELSE record
  /\ UNCHANGED <<sessionVars, page, tabVars, events>>

ServeTransition(c) ==
  /\ Unserved(c, {"transition"})
  /\ LET verdict == Verdict(call[c]) IN
       /\ verdict = "ok" => record.version < MaxVersion
       /\ call' = [call EXCEPT ![c].answer = verdict]
       /\ record' = IF verdict = "ok"
                    THEN [record EXCEPT !.version = @ + 1, !.status = call[c].status] ELSE record
  /\ UNCHANGED <<sessionVars, page, tabVars, events>>

\* Somebody else changes the record, its status or something else.
Others ==
  /\ record.version < MaxVersion
  /\ \E s \in Graph[page][record.status] \cup {record.status} :
       /\ page = "priorityDecision" => record.status = InitialStatus[page]
       /\ record' = [record EXCEPT !.version = @ + 1, !.status = s]
  /\ UNCHANGED <<sessionVars, page, tabVars, call, events>>

-----------------------------------------------------------------------------
(* What the tab does with an answer. *)

\* The answer, or the error of a request that was lost there or back, which the
\* tab cannot tell apart.
Heard(c, op) ==
  IF c \in Open /\ call[c].op \in op THEN {"lost", call[c].answer} \ {"none"} ELSE {}

\* What is listed then.  A list that is cut off after its status 200 leaves none
\* (result.data is undefined), besides an error.
Listed(c, answer) ==
  IF answer = "ok" THEN {call[c].seen}
  ELSE IF call[c].answer = "ok" THEN {item, NoItem} ELSE {item}

Finish(c) == call' = [call EXCEPT ![c] = Idle]

\* Fault: only a successful load ends the loading state.
ReceiveLoadNoFinally(c) ==
  /\ \E answer \in Heard(c, {"load", "reload"}) :
       /\ item'    \in Listed(c, answer)
       /\ error'   = (answer # "ok" \/ error)
       /\ loading' = IF answer = "ok" THEN FALSE ELSE loading
  /\ pending' = IF call[c].op = "reload" THEN NoDialog ELSE pending
  /\ Finish(c)
  /\ UNCHANGED <<sessionVars, page, record, stored, session, events>>

\* Load swallows its error, so the transition before it counts as done, and
\* whatever dialog is there is closed.
ReceiveLoad(c) ==
  /\ \E answer \in Heard(c, {"load", "reload"}) :
       /\ item'  \in Listed(c, answer)
       /\ error' = (answer # "ok" \/ error)
  /\ loading' = FALSE
  /\ pending' = IF call[c].op = "reload" THEN NoDialog ELSE pending
  /\ Finish(c)
  /\ UNCHANGED <<sessionVars, page, record, stored, session, events>>

\* Fault: the list is not loaded again.
ReceiveTransitionNoLoad(c) ==
  /\ \E answer \in Heard(c, {"transition"}) :
       /\ error'   = (answer # "ok")
       /\ pending' = IF answer = "ok" THEN NoDialog ELSE pending
  /\ loading' = FALSE
  /\ Finish(c)
  /\ UNCHANGED <<sessionVars, page, record, stored, session, item, events>>

\* After a transition the list is loaded again, with the token of then.
ReceiveTransition(c) ==
  /\ \E answer \in Heard(c, {"transition"}) :
     \/ /\ answer = "ok"
        /\ loading' = TRUE /\ error' = FALSE
        /\ call' = [call EXCEPT ![c] = LoadRequest("reload", @.confirmed)]
     \/ /\ answer # "ok"
        /\ loading' = FALSE /\ error' = TRUE
        /\ Finish(c)
  /\ UNCHANGED <<sessionVars, page, record, stored, session, item, pending, events>>

Serve(c)   == ServeLoad(c) \/ ServeTransition(c)
Receive(c) == ReceiveLoad(c) \/ ReceiveTransition(c)

Next ==
  \/ \E c \in Call : Load(c) \/ Confirm(c) \/ Serve(c) \/ Receive(c)
  \/ \E u \in User : SignIn(u)
  \/ SignOut \/ Choose \/ Cancel \/ Reopen \/ Elsewhere \/ Others
  \/ /\ Tick \/ \E u \in User, a \in GivenAccount : Administer(u, a)
     /\ Event
     /\ UNCHANGED <<page, record, tabVars, call>>

Spec == Init /\ [][Next]_vars

\* Every request ends, with its answer or with an error: where the server sends
\* nothing, the read timeout of the proxy before it gives up.  Nobody has to do
\* anything.
FairSpec == Spec /\ \A c \in Call : WF_vars(Receive(c))

-----------------------------------------------------------------------------
(* Properties. *)

\* The server answers c, with an answer of those.
Answers(c, op, answer) ==
  c \in Open /\ call[c].op \in op /\ call[c].answer = "none" /\ call'[c] # Idle /\ call'[c].answer \in answer

\* What a user has confirmed is what happens: a transition starts from the very
\* state of the record the dialog showed, and leads where it said, although the
\* list may have been loaded again since, the button may be pressed twice, and
\* an answer that was lost makes the user try again (confirmTransition).
ConfirmedIsApplied ==
  [][\A c \in Call : Answers(c, {"transition"}, {"ok"}) =>
       call[c].confirmed = [item |-> record, status |-> record'.status]]_vars

\* What the page offers the server accepts, as long as the record is unchanged,
\* the token is honoured, and the tab shows the session the token is of: the
\* client's copies of graphs, ranks and the rule of separation agree with the
\* server's (targetsFor).
OfferedIsAccepted ==
  [][\A c \in Call :
       Answers(c, {"transition"}, Refusal \ {"unauthorized"}) =>
         ~call[c].own \/ call[c].confirmed.item # record]_vars

\* A role that was taken away, or one of a deactivated account, is honoured for
\* less than the life of a token (Login, Authenticate).
RoleIsRecent ==
  [][\A c \in Call :
       Answers(c, {"load", "reload", "transition"}, {"ok"} \cup (Refusal \ {"unauthorized"})) =>
         LET t == call[c].token IN
           held[t.user][t.role] # Never /\ now < held[t.user][t.role] + TokenTTL]_vars

\* When a transition is over the list shows it, or an error says that it, or the
\* load after it, has failed (transition and the load it waits for).
OverIsShown ==
  [][\A c \in Call :
       c \in Open /\ call'[c] = Idle /\ call[c].op # "load" /\ item' # NoItem =>
         error' \/ item'.version > call[c].confirmed.item.version]_vars

\* The tables of bridges, rounds and findings.
KindName ==
  [bridgeAsset |-> "BridgeAsset", inspectionRound |-> "InspectionRound",
   defectFinding |-> "DefectFinding"]

\* One record of each kind; the page is about one of them, or about a decision.
registered ==
  [p \in DOMAIN KindName |->
     [version |-> IF p = page THEN record.version ELSE 1,
      status  |-> IF p = page THEN record.status ELSE InitialStatus[p],
      fields  |-> "fields", deleted |-> FALSE]]

Register == INSTANCE RecordRegister
              WITH Record <- DOMAIN KindName, KindOf <- KindName, Seeded <- DOMAIN KindName,
                   Fields <- {"fields"}, BlankFields <- "blank", SeedFields <- "fields",
                   register <- registered

\* To this tab the server is the register the three services implement: whatever
\* the calls of the tab and the others do to the record, it is edited and moved in
\* single steps, each of which counts (ServeTransition, Others).  This is
\* Register!Spec; that most steps change nothing is asked first, to spare TLC the rest.
ImplementsRegister == Register!Init /\ [][registered' # registered => Register!Next]_registered

\* The table never stays veiled, whatever fails or overlaps (load, transition).
LoadingEnds == loading ~> ~loading

-----------------------------------------------------------------------------
(* Why they hold. *)

\* The record is, or once was, what the tab has of it.
IsPast(i) ==
  i # NoItem =>
    /\ i.version <= record.version
    /\ i.version = record.version => i = record
    /\ i.status \in DOMAIN Graph[page]

\* The role in a token was held until its login.
IsIssued(t) ==
  t # NoToken => held[t.user][t.role] # Never /\ t.exp <= held[t.user][t.role] + TokenTTL

\* With this token the page offers what the dialog asks for.
IsOffered(t, d) ==
  /\ t # NoToken /\ d.status \in transitions[page][d.item.status]
  /\ IF page = "priorityDecision"
     THEN roleRank[t.role] >= roleRank["reviewer"] /\ d.item.preparedBy # t.user
     ELSE roleRank[t.role] >= roleRank["operator"]

\* A transition asks for what was confirmed, and is behind the record once it is made.
IsConfirmed(r) ==
  /\ r.expected = r.confirmed.item.version /\ r.status = r.confirmed.status
  /\ IsPast(r.confirmed.item)
  /\ r.own => IsOffered(r.token, r.confirmed)
  /\ r.answer = "ok" => r.confirmed.item.version < record.version

\* The load after a transition sees what the transition has made of the record.
IsAfter(r) ==
  /\ r.confirmed # NoDialog /\ r.confirmed.item.version < record.version
  /\ r.answer # "none" => r.seen # NoItem /\ r.confirmed.item.version < r.seen.version

CallInv(r) ==
  /\ IsIssued(r.token)
  /\ r.op = "transition" => IsConfirmed(r)
  /\ r.op # "transition" => IsPast(r.seen)
  /\ r.op = "reload" => IsAfter(r)

\* Each of these is what some call is checked against, or answers with, when
\* other calls, tabs and clients have moved on.  The table is veiled only while
\* a call is under way.
IInv ==
  /\ TypeOK
  /\ SessionInv
  /\ record.status \in DOMAIN Graph[page]
  /\ IsIssued(stored) /\ IsIssued(session)
  /\ IsPast(item)
  /\ pending # NoDialog => IsPast(pending.item) /\ IsOffered(session, pending)
  /\ \A c \in Open : CallInv(call[c])
  /\ loading => Open # {}
=============================================================================
