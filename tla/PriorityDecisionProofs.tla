----------------------- MODULE PriorityDecisionProofs -----------------------
(***************************************************************************)
(* Proofs about PriorityDecision.tla, for every set of codes, users and    *)
(* requests, every bound on the versions, failing statements or not.       *)
(***************************************************************************)
EXTENDS PriorityDecision, TLAPS

-----------------------------------------------------------------------------
(* The pieces of the state. *)

\* From a draft every priority level, and nothing else, can be reached.
LEMMA DraftToLevel ==
  ASSUME NEW t, CanTransition(PriorityDecisionTransitions, "draft", t)
  PROVE  t \in PriorityLevel
BY DEF CanTransition, PriorityDecisionTransitions, PriorityLevel

\* A decided status leads nowhere: only a draft can be transitioned.
LEMMA OnlyFromDraft ==
  ASSUME NEW s, NEW t, CanTransition(PriorityDecisionTransitions, s, t)
  PROVE  s = "draft"
BY DEF CanTransition, PriorityDecisionTransitions

LEMMA BusyType ==
  ASSUME TypeOK, NEW p \in Request,
         req[p].pc \in {"commit", "audit", "row", "revisions", "done"}
  PROVE  req[p] \in Busy
BY DEF TypeOK, Quiet, Idle

\* What a visible row holds.
LEMMA VisibleIsStored ==
  ASSUME TypeOK, NEW c \in Code, Visible(decision[c])
  PROVE  decision[c] \in StoredRow
BY DEF TypeOK, Visible, Row, NoRow

LEMMA VersionType ==
  ASSUME TypeOK, NEW c \in Code
  PROVE  decision[c].version \in 0..MaxVersion
BY DataAssumption DEF TypeOK, Row, NoRow, StoredRow

\* A failure is a state of a request.
LEMMA FailedType == \A err : Failed(err) \in Quiet
BY DEF Failed, Quiet, Failure, handleError

\* An initial call is well formed.
LEMMA CallType ==
  ASSUME NEW op \in Op, NEW c \in Code, NEW u \in User \cup {Nobody}
  PROVE  Call(op, c, u) \in Busy
BY DataAssumption DEF Call, Busy, Row

-----------------------------------------------------------------------------
(* What a transaction writes. *)

LEMMA WrittenType ==
  ASSUME TypeOK, LoadedRowIsChecked, NEW p \in Request, At(p, "commit"),
         req[p].op \in {"create", "update", "transition"}
  PROVE  /\ Written(req[p]) \in StoredRow
         /\ RevisionOf(Written(req[p]), req[p].actor, p) \in Revision
<1> DEFINE r == req[p]
<1>1. r \in Busy
  BY BusyType DEF At
<1>2. /\ r.actor \in User
      /\ r.op # "create" => r.current \in StoredRow /\ r.current.status = "draft"
      /\ r.op \in {"create", "update"} => r.evidence \in Evidence
      /\ r.op = "transition" => r.target \in PriorityLevel
  BY <1>1 DEF LoadedRowIsChecked, IsChecked, At, Busy
<1>3. r.expected + 1 \in 1..MaxVersion
  BY <1>1, DataAssumption DEF Busy
<1>4. Written(r) \in StoredRow
  <2>1. CASE r.op = "create"
    BY <2>1, <1>2, DataAssumption
    DEF Written, NewRow, StoredRow, DecisionStatus, PriorityDecisionInitialStatus
  <2>2. CASE r.op = "update"
    BY <2>2, <1>2, <1>3 DEF Written, StoredRow
  <2>3. CASE r.op = "transition"
    BY <2>3, <1>2, <1>3 DEF Written, StoredRow, DecisionStatus
  <2> QED
    BY <2>1, <2>2, <2>3
<1> QED
  BY <1>2, <1>4 DEF RevisionOf, Revision, StoredRow

\* The guards of a write that succeeds.
LEMMA SwapGuard ==
  ASSUME TypeOK, NEW p \in Request, At(p, "commit"), CommitOutcome(req[p]) = "ok",
         req[p].op \in {"update", "transition"}
  PROVE  /\ Visible(decision[req[p].code])
         /\ decision[req[p].code] \in StoredRow
         /\ decision[req[p].code].version = req[p].expected
         /\ \A v \in revisions[req[p].code] : v.version # req[p].expected + 1
<1>1. req[p] \in Busy
  BY BusyType DEF At
<1>2. /\ Swappable(req[p], decision[req[p].code])
      /\ \A v \in revisions[req[p].code] : v.version # req[p].expected + 1
  BY DEF CommitOutcome
<1> QED
  BY <1>1, <1>2, VisibleIsStored DEF Swappable, Busy

LEMMA InsertGuard ==
  ASSUME TypeOK, NEW p \in Request, At(p, "commit"), CommitOutcome(req[p]) = "ok",
         req[p].op = "create"
  PROVE  decision[req[p].code] = NoRow
<1>1. req[p].code \in Code
  BY BusyType DEF At, Busy
<1>2. decision[req[p].code].version = 0
  BY DEF CommitOutcome
<1> QED
  BY <1>1, <1>2, DataAssumption DEF TypeOK, Row, StoredRow

LEMMA DeleteGuard ==
  ASSUME TypeOK, NEW p \in Request, At(p, "commit"), CommitOutcome(req[p]) = "ok",
         req[p].op = "delete"
  PROVE  /\ Visible(decision[req[p].code])
         /\ decision[req[p].code] \in StoredRow
<1>1. req[p].code \in Code
  BY BusyType DEF At, Busy
<1>2. Visible(decision[req[p].code])
  BY DEF CommitOutcome
<1> QED
  BY <1>1, <1>2, VisibleIsStored

\* A transaction leaves well-typed tables.
LEMMA ApplyType ==
  ASSUME TypeOK, LoadedRowIsChecked, NEW p \in Request, At(p, "commit"),
         CommitOutcome(req[p]) = "ok", Apply(p)
  PROVE  /\ decision' \in [Code -> Row]
         /\ revisions' \in [Code -> SUBSET Revision]
<1> DEFINE r == req[p]
<1>1. r \in Busy
  BY BusyType DEF At
<1>2. r.code \in Code
  BY <1>1 DEF Busy
<1>3. CASE InsertDecision(p)
  <2>1. Written(r) \in Row /\ RevisionOf(Written(r), r.actor, p) \in Revision
    BY <1>3, WrittenType DEF InsertDecision, Row
  <2> QED
    BY <1>2, <1>3, <2>1 DEF InsertDecision, TypeOK
<1>4. CASE SwapDecision(p)
  <2>1. Written(r) \in StoredRow /\ RevisionOf(Written(r), r.actor, p) \in Revision
    BY <1>4, WrittenType DEF SwapDecision
  <2>2. decision[r.code] \in StoredRow
    BY <1>4, SwapGuard DEF SwapDecision
  <2>3. [Written(r) EXCEPT !.preparedBy = decision[r.code].preparedBy,
                           !.deleted    = decision[r.code].deleted] \in Row
    BY <2>1, <2>2 DEF StoredRow, Row
  <2> QED
    BY <1>2, <1>4, <2>1, <2>3 DEF SwapDecision, TypeOK
<1>5. CASE MarkDeleted(p)
  <2>1. decision[r.code] \in StoredRow
    BY <1>5, DeleteGuard DEF MarkDeleted
  <2>2. [decision[r.code] EXCEPT !.deleted = TRUE] \in Row
    BY <2>1 DEF StoredRow, Row
  <2>3. decision' = [decision EXCEPT ![r.code] = [decision[r.code] EXCEPT !.deleted = TRUE]]
    BY <1>5 DEF MarkDeleted, TypeOK
  <2> QED
    BY <1>2, <1>5, <2>2, <2>3 DEF MarkDeleted, TypeOK
<1> QED
  BY <1>3, <1>4, <1>5 DEF Apply

-----------------------------------------------------------------------------
(* Types. *)

LEMMA ServeType ==
  ASSUME TypeOK, NEW p \in Request, NEW r \in Quiet \cup Busy, Serve(p, r)
  PROVE  req' \in [Request -> Quiet \cup Busy]
BY DEF TypeOK, Serve

LEMMA BeginType ==
  ASSUME TypeOK, NEW p \in Request, NEW r \in Busy, NEW verdict,
         Begin(p, r, verdict)
  PROVE  TypeOK'
<1>1. req' \in [Request -> Quiet \cup Busy]
  BY ServeType, FailedType DEF Begin
<1> QED
  BY <1>1 DEF Begin, TypeOK

LEMMA SendableType ==
  ASSUME NEW c \in Code, NEW v \in Sendable(c)
  PROVE  v \in 0..(MaxVersion - 1) /\ v \in 1..(MaxVersion - 1)
BY DataAssumption DEF Sendable

\* The arrival of a request.
LEMMA ArriveType ==
  ASSUME TypeOK, NEW p \in Request, Arrive(p)
  PROVE  TypeOK'
<1>1. CASE Create(p)
  <2>1. PICK c \in Code, u \in User, e \in Evidence \cup {Blank} :
          Begin(p, [Call("create", c, u) EXCEPT !.evidence = e],
                IF e = Blank THEN "invalid" ELSE "ok")
    BY <1>1 DEF Create
  <2>2. [Call("create", c, u) EXCEPT !.evidence = e] \in Busy
    BY CallType DEF Busy, Op
  <2> QED
    BY <2>1, <2>2, BeginType
<1>2. CASE Update(p)
  <2>1. PICK c \in Code, u \in User, e \in Evidence \cup {Blank} : \E v \in Sendable(c) :
          LET r == [Call("update", c, u) EXCEPT !.expected = v, !.evidence = e, !.current = decision[c]]
          IN  Begin(p, r, UpdateVerdict(r, decision[c]))
    BY <1>2 DEF Update
  <2>2. PICK v \in Sendable(c) :
          LET r == [Call("update", c, u) EXCEPT !.expected = v, !.evidence = e, !.current = decision[c]]
          IN  Begin(p, r, UpdateVerdict(r, decision[c]))
    BY <2>1
  <2>3. [Call("update", c, u) EXCEPT !.expected = v, !.evidence = e, !.current = decision[c]] \in Busy
    <3>1. Call("update", c, u) \in Busy
      BY CallType DEF Op
    <3> QED
      BY <3>1, SendableType DEF Busy, TypeOK
  <2> QED
    BY <2>2, <2>3, BeginType
<1>3. CASE Transition(p)
  <2>1. PICK c \in Code, u \in User, t \in Target : \E v \in Sendable(c) :
          LET r == [Call("transition", c, u) EXCEPT !.expected = v, !.target = t, !.current = decision[c]]
          IN  Begin(p, r, TransitionVerdict(r, decision[c]))
    BY <1>3 DEF Transition
  <2>2. PICK v \in Sendable(c) :
          LET r == [Call("transition", c, u) EXCEPT !.expected = v, !.target = t, !.current = decision[c]]
          IN  Begin(p, r, TransitionVerdict(r, decision[c]))
    BY <2>1
  <2>3. [Call("transition", c, u) EXCEPT !.expected = v, !.target = t, !.current = decision[c]] \in Busy
    <3>1. Call("transition", c, u) \in Busy
      BY CallType DEF Op
    <3> QED
      BY <3>1, SendableType DEF Busy, TypeOK
  <2> QED
    BY <2>2, <2>3, BeginType
<1>4. CASE Delete(p)
  <2>1. PICK c \in Code, u \in User :
          Begin(p, [Call("delete", c, u) EXCEPT !.current = decision[c]],
                DeleteVerdict(decision[c]))
    BY <1>4 DEF Delete
  <2>2. [Call("delete", c, u) EXCEPT !.current = decision[c]] \in Busy
    <3>1. Call("delete", c, u) \in Busy
      BY CallType DEF Op
    <3> QED
      BY <3>1 DEF Busy, TypeOK
  <2> QED
    BY <2>1, <2>2, BeginType
<1>5. CASE Get(p)
  <2>1. PICK c \in Code :
          Begin(p, [Call("get", c, Nobody) EXCEPT !.pc = "revisions", !.current = decision[c]],
                IF Visible(decision[c]) THEN "ok" ELSE "not_found")
    BY <1>5 DEF Get
  <2>2. [Call("get", c, Nobody) EXCEPT !.pc = "revisions", !.current = decision[c]] \in Busy
    <3>1. Call("get", c, Nobody) \in Busy
      BY CallType DEF Op
    <3> QED
      BY <3>1 DEF Busy, TypeOK
  <2> QED
    BY <2>1, <2>2, BeginType
<1> QED
  BY <1>1, <1>2, <1>3, <1>4, <1>5 DEF Arrive

LEMMA EntryType ==
  ASSUME TypeOK, LoadedRowIsChecked, NEW p \in Request, At(p, "audit")
  PROVE  EntryOf(p) \in AuditEntry
<1> DEFINE r == req[p]
<1>1. r \in Busy
  BY BusyType DEF At
<1>2. /\ r.op \in {"create", "update", "transition", "delete"} /\ r.actor \in User
      /\ r.op # "create" => r.current.status = "draft"
      /\ r.op = "transition" => r.target \in PriorityLevel
  BY <1>1 DEF LoadedRowIsChecked, IsChecked, At, Busy, Op
<1> QED
  BY <1>1, <1>2
  DEF EntryOf, AuditEntry, Busy, DecisionStatus, PriorityDecisionInitialStatus

LEMMA TypeStep ==
  ASSUME TypeOK, LoadedRowIsChecked, [Next]_vars
  PROVE  TypeOK'
<1>1. ASSUME NEW p \in Request, Arrive(p)
      PROVE  TypeOK'
  BY <1>1, ArriveType
<1>2. ASSUME NEW p \in Request, Commit(p)
      PROVE  TypeOK'
  <2>1. [req[p] EXCEPT !.pc = "audit"] \in Busy
    BY <1>2, BusyType DEF Commit, At, Busy
  <2>2. req' \in [Request -> Quiet \cup Busy]
    BY <1>2, <2>1, ServeType DEF Commit
  <2> QED
    BY <1>2, <2>2, ApplyType DEF Commit, TypeOK
<1>3. ASSUME NEW p \in Request, CommitUnreported(p)
      PROVE  TypeOK'
  <2>1. req' \in [Request -> Quiet \cup Busy]
    BY <1>3, FailedType, ServeType DEF CommitUnreported
  <2> QED
    BY <1>3, <2>1, ApplyType DEF CommitUnreported, TypeOK
<1>4. ASSUME NEW p \in Request, Refuse(p) \/ StatementFails(p)
      PROVE  TypeOK'
  <2>1. req' \in [Request -> Quiet \cup Busy]
    BY <1>4, FailedType, ServeType DEF Refuse, StatementFails
  <2> QED
    BY <1>4, <2>1 DEF Refuse, StatementFails, TypeOK
<1>5. ASSUME NEW p \in Request, WriteAudit(p)
      PROVE  TypeOK'
  <2>1. AfterAudit(req[p]) \in Busy
    BY <1>5, BusyType DEF WriteAudit, AfterAudit, At, Busy
  <2>2. req' \in [Request -> Quiet \cup Busy]
    BY <1>5, <2>1, ServeType DEF WriteAudit
  <2>3. audit' \in Seq(AuditEntry)
    BY <1>5, EntryType DEF WriteAudit, TypeOK
  <2> QED
    BY <1>5, <2>2, <2>3 DEF WriteAudit, TypeOK
<1>6. ASSUME NEW p \in Request, AuditFails(p)
      PROVE  TypeOK'
  <2>1. [req[p] EXCEPT !.pc = "row"] \in Busy
    BY <1>6, BusyType DEF AuditFails, At, Busy
  <2>2. req' \in [Request -> Quiet \cup Busy]
    BY <1>6, <2>1, FailedType, ServeType DEF AuditFails
  <2> QED
    BY <1>6, <2>2 DEF AuditFails, TypeOK
<1>7. ASSUME NEW p \in Request, ReadRow(p)
      PROVE  TypeOK'
  <2>1. req[p] \in Busy
    BY <1>7, BusyType DEF ReadRow, At
  <2>2. [req[p] EXCEPT !.current = decision[req[p].code], !.pc = "revisions"] \in Busy
    BY <2>1 DEF Busy, TypeOK
  <2>3. req' \in [Request -> Quiet \cup Busy]
    BY <1>7, <2>2, FailedType, ServeType DEF ReadRow
  <2> QED
    BY <1>7, <2>3 DEF ReadRow, TypeOK
<1>8. ASSUME NEW p \in Request, ReadRevisions(p)
      PROVE  TypeOK'
  <2>1. req[p] \in Busy
    BY <1>8, BusyType DEF ReadRevisions, At
  <2>2. [req[p] EXCEPT !.pc = "done", !.seen = revisions[req[p].code]] \in Busy
    BY <2>1 DEF Busy, TypeOK
  <2>3. req' \in [Request -> Quiet \cup Busy]
    BY <1>8, <2>2, ServeType DEF ReadRevisions
  <2> QED
    BY <1>8, <2>3 DEF ReadRevisions, TypeOK
<1>9. ASSUME NEW p \in Request, Deliver(p)
      PROVE  TypeOK'
  BY <1>9 DEF Deliver, Serve, Quiet, TypeOK
<1>10. CASE Crash
  BY <1>10 DEF Crash, Quiet, TypeOK
<1>11. CASE UNCHANGED vars
  BY <1>11 DEF vars, TypeOK
<1> QED
  BY <1>1, <1>2, <1>3, <1>4, <1>5, <1>6, <1>7, <1>8, <1>9, <1>10, <1>11
  DEF Next, Step, Fail

-----------------------------------------------------------------------------
(* The tables: what a transaction preserves. *)

\* The revisions written after a row of version n has been extended.
LEMMA ChainExtends ==
  ASSUME NEW n \in Nat, NEW S \in SUBSET Revision, NEW new \in Revision,
         {r.version : r \in S} = 1..n, new.version = n + 1
  PROVE  {r.version : r \in S \cup {new}} = 1..(n + 1)
<1>1. {r.version : r \in S \cup {new}} = {r.version : r \in S} \cup {new.version}
  OBVIOUS
<1>2. (1..n) \cup {n + 1} = 1..(n + 1)
  OBVIOUS
<1> QED
  BY <1>1, <1>2

\* A row and its revisions, after a write that succeeds: one row is replaced
\* by a row of the next version and one revision, which says the same, joins.
LEMMA ApplyWrites ==
  ASSUME TypeOK, RevisionChain, LoadedRowIsChecked, NEW p \in Request, At(p, "commit"),
         CommitOutcome(req[p]) = "ok", Apply(p), req[p].op # "delete"
  PROVE  LET c   == req[p].code
             new == RevisionOf(Written(req[p]), req[p].actor, p)
         IN  /\ c \in Code /\ new \in Revision /\ decision'[c] \in StoredRow
             /\ decision' = [decision EXCEPT ![c] = decision'[c]]
             /\ revisions' = [revisions EXCEPT ![c] = @ \cup {new}]
             /\ new.version = decision[c].version + 1
             /\ decision'[c].version = new.version
             /\ decision'[c].status = new.status
             /\ decision'[c].evidence = new.evidence
<1> DEFINE r   == req[p]
           c   == req[p].code
           new == RevisionOf(Written(r), r.actor, p)
<1>1. r \in Busy /\ c \in Code
  BY BusyType DEF At, Busy
<1>2. CASE r.op = "create"
  <2>1. InsertDecision(p)
    BY <1>2 DEF Apply, InsertDecision, SwapDecision, MarkDeleted
  <2>2. decision[c] = NoRow
    BY <1>2, InsertGuard
  <2>3. Written(r) \in StoredRow /\ new \in Revision
    BY <1>2, WrittenType
  <2>4. Written(r).version = 1
    BY <1>2 DEF Written, NewRow
  <2>5. decision[c].version = 0
    BY <2>2 DEF NoRow
  <2>6. decision'[c] = Written(r)
    BY <1>1, <2>1 DEF InsertDecision, TypeOK
  <2>7. /\ decision' = [decision EXCEPT ![c] = decision'[c]]
        /\ revisions' = [revisions EXCEPT ![c] = @ \cup {new}]
    BY <1>1, <2>1, <2>6 DEF InsertDecision, TypeOK
  <2> QED
    BY <1>1, <2>3, <2>4, <2>5, <2>6, <2>7 DEF RevisionOf
<1>3. CASE r.op \in {"update", "transition"}
  <2>1. SwapDecision(p)
    BY <1>3 DEF Apply, InsertDecision, SwapDecision, MarkDeleted
  <2>2. decision[c] \in StoredRow /\ decision[c].version = r.expected
    BY <1>3, SwapGuard
  <2>3. Written(r) \in StoredRow /\ new \in Revision
    BY <1>3, WrittenType
  <2>4. r.current \in StoredRow
    BY <1>3 DEF LoadedRowIsChecked, IsChecked, At
  <2>5. Written(r).version = r.expected + 1
    BY <1>3, <2>4 DEF Written, StoredRow
  <2>6. decision'[c] = [Written(r) EXCEPT !.preparedBy = decision[c].preparedBy,
                                          !.deleted    = decision[c].deleted]
    BY <1>1, <2>1 DEF SwapDecision, TypeOK
  <2>7. decision'[c] \in StoredRow /\ decision'[c].version = Written(r).version
        /\ decision'[c].status = Written(r).status /\ decision'[c].evidence = Written(r).evidence
    BY <2>2, <2>3, <2>6 DEF StoredRow
  <2>8. /\ decision' = [decision EXCEPT ![c] = decision'[c]]
        /\ revisions' = [revisions EXCEPT ![c] = @ \cup {new}]
    BY <1>1, <2>1 DEF SwapDecision, TypeOK
  <2> QED
    BY <1>1, <2>2, <2>3, <2>5, <2>7, <2>8 DEF RevisionOf
<1> QED
  BY <1>1, <1>2, <1>3 DEF Apply, InsertDecision, SwapDecision, MarkDeleted

LEMMA ApplyDeletes ==
  ASSUME TypeOK, NEW p \in Request, At(p, "commit"), CommitOutcome(req[p]) = "ok",
         Apply(p), req[p].op = "delete"
  PROVE  LET c == req[p].code
         IN  /\ c \in Code /\ decision[c] \in StoredRow
             /\ decision' = [decision EXCEPT ![c] = [decision[c] EXCEPT !.deleted = TRUE]]
             /\ revisions' = revisions
<1>1. req[p].code \in Code
  BY BusyType DEF At, Busy
<1>2. MarkDeleted(p)
  BY DEF Apply, InsertDecision, SwapDecision, MarkDeleted
<1> QED
  BY <1>1, <1>2, DeleteGuard DEF MarkDeleted, TypeOK

LEMMA ApplyChain ==
  ASSUME TypeOK, RevisionChain, LoadedRowIsChecked, NEW p \in Request, At(p, "commit"),
         CommitOutcome(req[p]) = "ok", Apply(p)
  PROVE  RevisionChain'
<1> DEFINE k == req[p].code
<1>1. CASE req[p].op = "delete"
  <2>1. /\ k \in Code /\ decision[k] \in StoredRow
        /\ decision' = [decision EXCEPT ![k] = [decision[k] EXCEPT !.deleted = TRUE]]
        /\ revisions' = revisions
    BY <1>1, ApplyDeletes
  <2>2. \A c \in Code : /\ decision'[c].version = decision[c].version
                        /\ decision'[c].status = decision[c].status
                        /\ decision'[c].evidence = decision[c].evidence
    BY <2>1 DEF StoredRow, TypeOK
  <2> QED
    BY <2>1, <2>2 DEF RevisionChain
<1>2. CASE req[p].op # "delete"
  <2> DEFINE new == RevisionOf(Written(req[p]), req[p].actor, p)
  <2>1. /\ k \in Code /\ new \in Revision /\ decision'[k] \in StoredRow
        /\ decision' = [decision EXCEPT ![k] = decision'[k]]
        /\ revisions' = [revisions EXCEPT ![k] = @ \cup {new}]
        /\ new.version = decision[k].version + 1
        /\ decision'[k].version = new.version
        /\ decision'[k].status = new.status
        /\ decision'[k].evidence = new.evidence
    BY <1>2, ApplyWrites
  <2> HIDE DEF new
  <2>2. SUFFICES ASSUME NEW c \in Code
                 PROVE  /\ {r.version : r \in revisions'[c]} = 1..decision'[c].version
                        /\ \A r, s \in revisions'[c] : r.version = s.version => r = s
                        /\ \A r \in revisions'[c] : r.version = decision'[c].version =>
                             r.status = decision'[c].status /\ r.evidence = decision'[c].evidence
    BY DEF RevisionChain
  <2>3. CASE c # k
    <3>1. decision'[c] = decision[c] /\ revisions'[c] = revisions[c]
      BY <2>1, <2>3 DEF TypeOK
    <3> QED
      BY <3>1 DEF RevisionChain
  <2>4. CASE c = k
    <3>1. revisions'[k] = revisions[k] \cup {new} /\ revisions[k] \in SUBSET Revision
      BY <2>1 DEF TypeOK
    <3>2. decision[k].version \in Nat
      BY <2>1, VersionType
    <3>3. {r.version : r \in revisions[k]} = 1..decision[k].version
      BY <2>1 DEF RevisionChain
    <3>4. {r.version : r \in revisions'[k]} = 1..decision'[k].version
      <4>1. {r.version : r \in revisions[k] \cup {new}} = 1..(decision[k].version + 1)
        BY <2>1, <3>1, <3>2, <3>3, ChainExtends
      <4>2. decision'[k].version = decision[k].version + 1
        BY <2>1
      <4> QED
        BY <3>1, <4>1, <4>2
    <3>5. \A r \in revisions[k] : r.version # new.version
      BY <2>1, <3>2, <3>3
    <3>6. \A r, s \in revisions'[k] : r.version = s.version => r = s
      BY <2>1, <3>1, <3>5 DEF RevisionChain
    <3>7. \A r \in revisions'[k] : r.version = decision'[k].version => r = new
      BY <2>1, <3>1, <3>5
    <3> QED
      BY <2>1, <2>4, <3>4, <3>6, <3>7
  <2> QED
    BY <2>3, <2>4
<1> QED
  BY <1>1, <1>2

\* Whose name a write leaves in the row, and who wrote the new revision.
LEMMA ApplyAuthor ==
  ASSUME TypeOK, RevisionChain, LoadedRowIsPast, LoadedRowIsChecked,
         NEW p \in Request, At(p, "commit"),
         CommitOutcome(req[p]) = "ok", Apply(p), req[p].op # "delete"
  PROVE  LET r   == req[p]
             c   == req[p].code
             new == RevisionOf(Written(req[p]), req[p].actor, p)
         IN  /\ new.actor = r.actor
             /\ \/ /\ revisions[c] = {} /\ new.version = 1 /\ new.status = "draft"
                   /\ decision'[c].preparedBy = r.actor
                \/ /\ new.version > 1
                   /\ decision'[c].preparedBy = decision[c].preparedBy
                   /\ \/ /\ new.status = "draft"
                         /\ r.actor = decision[c].preparedBy \/ RoleOf[r.actor] = "admin"
                      \/ /\ new.status \in PriorityLevel
                         /\ RoleOf[r.actor] \in {"reviewer", "admin"}
                         /\ r.actor # decision[c].preparedBy
<1> DEFINE r   == req[p]
           c   == req[p].code
           new == RevisionOf(Written(r), r.actor, p)
<1>1. r \in Busy /\ c \in Code
  BY BusyType DEF At, Busy
<1>2. new.actor = r.actor /\ new.status = Written(r).status /\ new.version = Written(r).version
  BY DEF RevisionOf
<1>3. CASE r.op = "create"
  <2>1. InsertDecision(p)
    BY <1>3 DEF Apply, InsertDecision, SwapDecision, MarkDeleted
  <2>2. decision[c].version = 0
    BY <1>3, InsertGuard DEF NoRow
  <2>3. revisions[c] = {}
    <3>1. {v.version : v \in revisions[c]} = {}
      BY <1>1, <2>2 DEF RevisionChain
    <3> QED
      BY <3>1
  <2>4. decision'[c] = NewRow(r.actor, r.evidence)
    BY <1>1, <1>3, <2>1 DEF InsertDecision, Written, TypeOK
  <2>5. Written(r).version = 1 /\ Written(r).status = "draft"
    BY <1>3 DEF Written, NewRow, PriorityDecisionInitialStatus
  <2> QED
    BY <1>2, <2>3, <2>4, <2>5 DEF NewRow
<1>4. CASE r.op \in {"update", "transition"}
  <2>1. SwapDecision(p)
    BY <1>4 DEF Apply, InsertDecision, SwapDecision, MarkDeleted
  <2>2. decision[c] \in StoredRow /\ decision[c].version = r.expected
    BY <1>4, SwapGuard
  <2>3. Written(r) \in StoredRow
    BY <1>4, WrittenType
  <2>4. /\ r.current \in StoredRow /\ r.current.status = "draft"
        /\ r.op = "update" => r.actor = r.current.preparedBy \/ RoleOf[r.actor] = "admin"
        /\ r.op = "transition" => /\ r.target \in PriorityLevel
                                  /\ RoleOf[r.actor] \in {"reviewer", "admin"}
                                  /\ r.actor # r.current.preparedBy
    BY <1>4 DEF LoadedRowIsChecked, IsChecked, At
  <2>5. r.current.preparedBy = decision[c].preparedBy
    BY <1>4 DEF LoadedRowIsPast, IsPast
  <2>6. decision'[c].preparedBy = decision[c].preparedBy
    <3>1. decision'[c] = [Written(r) EXCEPT !.preparedBy = decision[c].preparedBy,
                                            !.deleted    = decision[c].deleted]
      BY <1>1, <2>1 DEF SwapDecision, TypeOK
    <3> QED
      BY <2>2, <2>3, <3>1 DEF StoredRow
  <2>7. Written(r).version > 1
    BY <1>4, <2>2, <2>4 DEF Written, StoredRow
  <2>8. CASE r.op = "update"
    <3>1. Written(r).status = "draft"
      BY <2>4, <2>8 DEF Written, StoredRow
    <3> QED
      BY <1>2, <2>4, <2>5, <2>6, <2>7, <2>8, <3>1
  <2>9. CASE r.op = "transition"
    <3>1. Written(r).status \in PriorityLevel
      BY <2>4, <2>9 DEF Written, StoredRow
    <3> QED
      BY <1>2, <2>4, <2>5, <2>6, <2>7, <2>9, <3>1
  <2> QED
    BY <1>4, <2>8, <2>9
<1> QED
  BY <1>3, <1>4 DEF Apply, InsertDecision, SwapDecision, MarkDeleted

\* Separation of duty follows from who may write which revision.
LEMMA ReviewFromAuthors ==
  ASSUME DraftAuthors,
         \A c \in Code : \A r \in revisions[c] : r.status \in PriorityLevel =>
           RoleOf[r.actor] \in {"reviewer", "admin"} /\ r.actor # decision[c].preparedBy
  PROVE  IndependentReview
BY DEF DraftAuthors, IndependentReview

LEMMA LevelIsNotDraft == "draft" \notin PriorityLevel
BY DEF PriorityLevel

LEMMA ApplyReview ==
  ASSUME TypeOK, RevisionChain, DraftAuthors, IndependentReview,
         LoadedRowIsPast, LoadedRowIsChecked,
         NEW p \in Request, At(p, "commit"), CommitOutcome(req[p]) = "ok", Apply(p)
  PROVE  DraftAuthors' /\ IndependentReview'
<1> DEFINE k == req[p].code
<1>1. CASE req[p].op = "delete"
  <2>1. /\ k \in Code /\ decision[k] \in StoredRow
        /\ decision' = [decision EXCEPT ![k] = [decision[k] EXCEPT !.deleted = TRUE]]
        /\ revisions' = revisions
    BY <1>1, ApplyDeletes
  <2>2. \A c \in Code : decision'[c].preparedBy = decision[c].preparedBy
    BY <2>1 DEF StoredRow, TypeOK
  <2> QED
    BY <2>1, <2>2 DEF DraftAuthors, IndependentReview
<1>2. CASE req[p].op # "delete"
  <2> DEFINE new == RevisionOf(Written(req[p]), req[p].actor, p)
  <2>1. /\ k \in Code /\ new \in Revision
        /\ decision' = [decision EXCEPT ![k] = decision'[k]]
        /\ revisions' = [revisions EXCEPT ![k] = @ \cup {new}]
    BY <1>2, ApplyWrites
  <2>2. /\ new.actor = req[p].actor
        /\ \/ /\ revisions[k] = {} /\ new.version = 1 /\ new.status = "draft"
              /\ decision'[k].preparedBy = req[p].actor
           \/ /\ new.version > 1
              /\ decision'[k].preparedBy = decision[k].preparedBy
              /\ \/ /\ new.status = "draft"
                    /\ req[p].actor = decision[k].preparedBy \/ RoleOf[req[p].actor] = "admin"
                 \/ /\ new.status \in PriorityLevel
                    /\ RoleOf[req[p].actor] \in {"reviewer", "admin"}
                    /\ req[p].actor # decision[k].preparedBy
    BY <1>2, ApplyAuthor
  <2> HIDE DEF new
  <2>3. revisions'[k] = revisions[k] \cup {new}
    BY <2>1 DEF TypeOK
  <2>4. \A c \in Code : c # k => decision'[c] = decision[c] /\ revisions'[c] = revisions[c]
    BY <2>1 DEF TypeOK
  <2>5. \A r \in revisions'[k] :
          /\ r.version = 1 => r.actor = decision'[k].preparedBy
          /\ r.status = "draft" =>
               r.actor = decision'[k].preparedBy \/ RoleOf[r.actor] = "admin"
    BY <2>1, <2>2, <2>3, LevelIsNotDraft DEF DraftAuthors, Revision
  <2>6. \A r \in revisions'[k] : r.status \in PriorityLevel =>
          RoleOf[r.actor] \in {"reviewer", "admin"} /\ r.actor # decision'[k].preparedBy
    BY <2>1, <2>2, <2>3, LevelIsNotDraft DEF IndependentReview
  <2>7. DraftAuthors'
    BY <2>4, <2>5 DEF DraftAuthors
  <2>8. \A c \in Code : \A r \in revisions'[c] : r.status \in PriorityLevel =>
          RoleOf[r.actor] \in {"reviewer", "admin"} /\ r.actor # decision'[c].preparedBy
    BY <2>4, <2>6 DEF IndependentReview
  <2> QED
    BY <2>7, <2>8 DEF DraftAuthors, IndependentReview
<1> QED
  BY <1>1, <1>2

\* With versions clients have read, a write that succeeds found a draft.
LEMMA SwapFindsDraft ==
  ASSUME TypeOK, LoadedRowIsPast, LoadedRowIsChecked, ~PredictVersions,
         NEW p \in Request, At(p, "commit"), CommitOutcome(req[p]) = "ok",
         req[p].op \in {"update", "transition"}
  PROVE  /\ decision[req[p].code].status = "draft"
         /\ decision[req[p].code].evidence = req[p].current.evidence
<1> DEFINE r   == req[p]
           row == decision[r.code]
<1>1. row \in StoredRow /\ row.version = r.expected
  BY SwapGuard
<1>2. r.current \in StoredRow /\ r.current.status = "draft"
  BY DEF LoadedRowIsChecked, IsChecked, At
<1>3. /\ r.current.version \in 1..row.version
      /\ r.expected <= r.current.version
      /\ r.current.version = row.version =>
           r.current.status = row.status /\ r.current.evidence = row.evidence
  BY DEF LoadedRowIsPast, IsPast
<1>4. r.current.version = row.version
  BY <1>1, <1>2, <1>3 DEF StoredRow
<1> QED
  BY <1>2, <1>3, <1>4

LEMMA ApplyFinal ==
  ASSUME TypeOK, RevisionChain, FinalIsLast, LoadedRowIsPast, LoadedRowIsChecked,
         ~PredictVersions,
         NEW p \in Request, At(p, "commit"), CommitOutcome(req[p]) = "ok", Apply(p)
  PROVE  FinalIsLast'
<1> DEFINE k == req[p].code
<1>1. CASE req[p].op = "delete"
  <2>1. /\ k \in Code /\ decision[k] \in StoredRow
        /\ decision' = [decision EXCEPT ![k] = [decision[k] EXCEPT !.deleted = TRUE]]
        /\ revisions' = revisions
    BY <1>1, ApplyDeletes
  <2>2. \A c \in Code : decision'[c].version = decision[c].version
    BY <2>1 DEF StoredRow, TypeOK
  <2> QED
    BY <2>1, <2>2 DEF FinalIsLast
<1>2. CASE req[p].op # "delete"
  <2> DEFINE new == RevisionOf(Written(req[p]), req[p].actor, p)
  <2>1. /\ k \in Code
        /\ decision' = [decision EXCEPT ![k] = decision'[k]]
        /\ revisions' = [revisions EXCEPT ![k] = @ \cup {new}]
        /\ decision'[k].version = new.version
    BY <1>2, ApplyWrites
  <2> HIDE DEF new
  <2>2. \A r \in revisions[k] : r.status \notin PriorityLevel
    <3>1. CASE req[p].op = "create"
      <4>1. decision[k].version = 0
        BY <3>1, InsertGuard DEF NoRow
      <4>2. {r.version : r \in revisions[k]} = {}
        BY <2>1, <4>1 DEF RevisionChain
      <4> QED
        BY <4>2
    <3>2. CASE req[p].op \in {"update", "transition"}
      <4>1. decision[k].status = "draft"
        BY <3>2, SwapFindsDraft
      <4> QED
        BY <2>1, <4>1, LevelIsNotDraft DEF FinalIsLast, RevisionChain
    <3> QED
      BY <1>2, <3>1, <3>2 DEF Apply, InsertDecision, SwapDecision, MarkDeleted
  <2>3. revisions'[k] = revisions[k] \cup {new}
    BY <2>1 DEF TypeOK
  <2>4. \A c \in Code : c # k => decision'[c] = decision[c] /\ revisions'[c] = revisions[c]
    BY <2>1 DEF TypeOK
  <2> QED
    BY <2>1, <2>2, <2>3, <2>4 DEF FinalIsLast
<1> QED
  BY <1>1, <1>2

-----------------------------------------------------------------------------
(* The handlers' copies. *)

LEMMA ServeOthers ==
  ASSUME TypeOK, NEW p \in Request, NEW r, Serve(p, r)
  PROVE  /\ req'[p] = r
         /\ \A q \in Request : q # p => req'[q] = req[q]
BY DEF TypeOK, Serve

\* A request that arrives and may go on holds the row as it is.
LEMMA ArriveLoaded ==
  ASSUME TypeOK, NEW p \in Request, Arrive(p)
  PROVE  /\ UNCHANGED <<decision, revisions, audit>>
         /\ \A q \in Request : q # p => req'[q] = req[q]
         /\ req'[p].pc \in {"commit", "audit"} =>
              /\ IsChecked(req'[p])
              /\ req'[p].op \in {"update", "transition"} =>
                   IsPast(req'[p], decision[req'[p].code])
<1>1. CASE Create(p)
  <2>1. PICK c \in Code, u \in User, e \in Evidence \cup {Blank} :
          /\ RequireMinimumRole(u, "operator")
          /\ Begin(p, [Call("create", c, u) EXCEPT !.evidence = e],
                   IF e = Blank THEN "invalid" ELSE "ok")
    BY <1>1 DEF Create
  <2> DEFINE r == [Call("create", c, u) EXCEPT !.evidence = e]
  <2>2. r.op = "create" /\ r.actor = u /\ r.evidence = e
    BY DEF Call
  <2>3. req'[p] = IF e = Blank THEN Failed("invalid") ELSE r
    BY <2>1, ServeOthers DEF Begin
  <2>4. req'[p].pc \in {"commit", "audit"} => e # Blank
    BY <2>3 DEF Failed
  <2> HIDE DEF r
  <2> QED
    BY <2>1, <2>2, <2>3, <2>4, ServeOthers DEF Begin, IsChecked
<1>2. CASE Update(p)
  <2>1. PICK c \in Code, u \in User, e \in Evidence \cup {Blank} : \E v \in Sendable(c) :
          LET r == [Call("update", c, u) EXCEPT !.expected = v, !.evidence = e, !.current = decision[c]]
          IN  Begin(p, r, UpdateVerdict(r, decision[c]))
    BY <1>2 DEF Update
  <2>2. PICK v \in Sendable(c) :
          LET r == [Call("update", c, u) EXCEPT !.expected = v, !.evidence = e, !.current = decision[c]]
          IN  Begin(p, r, UpdateVerdict(r, decision[c]))
    BY <2>1
  <2> DEFINE r == [Call("update", c, u) EXCEPT !.expected = v, !.evidence = e, !.current = decision[c]]
  <2>3. /\ r.op = "update" /\ r.actor = u /\ r.evidence = e /\ r.expected = v
        /\ r.current = decision[c] /\ r.code = c
    BY DEF Call
  <2> HIDE DEF r
  <2>4. Begin(p, r, UpdateVerdict(r, decision[c]))
    BY <2>2 DEF r
  <2>5. req'[p] = IF UpdateVerdict(r, decision[c]) = "ok" THEN r
                  ELSE Failed(UpdateVerdict(r, decision[c]))
    BY <2>4, ServeOthers DEF Begin
  <2>6. CASE UpdateVerdict(r, decision[c]) # "ok"
    BY <2>4, <2>5, <2>6, ServeOthers DEF Begin, Failed
  <2>7. CASE UpdateVerdict(r, decision[c]) = "ok"
    <3>1. /\ Visible(decision[c]) /\ decision[c].status = "draft"
          /\ u = decision[c].preparedBy \/ RoleOf[u] = "admin"
          /\ e # Blank
      BY <2>3, <2>7 DEF UpdateVerdict, PriorityDecisionInitialStatus
    <3>2. decision[c] \in StoredRow
      BY <3>1, VisibleIsStored
    <3>3. IsChecked(r)
      BY <2>3, <3>1, <3>2 DEF IsChecked
    <3>4. decision[c].version \in 1..decision[c].version
      BY <3>2 DEF StoredRow
    <3>5. IsPast(r, decision[c])
      BY <2>3, <3>4 DEF IsPast, Sendable
    <3> QED
      BY <2>3, <2>4, <2>5, <2>7, <3>3, <3>5, ServeOthers DEF Begin
  <2> QED
    BY <2>6, <2>7
<1>3. CASE Transition(p)
  <2>1. PICK c \in Code, u \in User, t \in Target : \E v \in Sendable(c) :
          LET r == [Call("transition", c, u) EXCEPT !.expected = v, !.target = t, !.current = decision[c]]
          IN  Begin(p, r, TransitionVerdict(r, decision[c]))
    BY <1>3 DEF Transition
  <2>2. PICK v \in Sendable(c) :
          LET r == [Call("transition", c, u) EXCEPT !.expected = v, !.target = t, !.current = decision[c]]
          IN  Begin(p, r, TransitionVerdict(r, decision[c]))
    BY <2>1
  <2> DEFINE r == [Call("transition", c, u) EXCEPT !.expected = v, !.target = t, !.current = decision[c]]
  <2>3. /\ r.op = "transition" /\ r.actor = u /\ r.target = t /\ r.expected = v
        /\ r.current = decision[c] /\ r.code = c
    BY DEF Call
  <2> HIDE DEF r
  <2>4. Begin(p, r, TransitionVerdict(r, decision[c]))
    BY <2>2 DEF r
  <2>5. req'[p] = IF TransitionVerdict(r, decision[c]) = "ok" THEN r
                  ELSE Failed(TransitionVerdict(r, decision[c]))
    BY <2>4, ServeOthers DEF Begin
  <2>6. CASE TransitionVerdict(r, decision[c]) # "ok"
    BY <2>4, <2>5, <2>6, ServeOthers DEF Begin, Failed
  <2>7. CASE TransitionVerdict(r, decision[c]) = "ok"
    <3>1. /\ Visible(decision[c])
          /\ RoleOf[u] \in {"reviewer", "admin"} /\ u # decision[c].preparedBy
          /\ CanTransition(PriorityDecisionTransitions, decision[c].status, t)
      BY <2>3, <2>7 DEF TransitionVerdict
    <3>2. decision[c] \in StoredRow
      BY <3>1, VisibleIsStored
    <3>3. decision[c].status = "draft" /\ t \in PriorityLevel
      BY <3>1, OnlyFromDraft, DraftToLevel
    <3>4. IsChecked(r)
      BY <2>3, <3>1, <3>2, <3>3 DEF IsChecked
    <3>5. decision[c].version \in 1..decision[c].version
      BY <3>2 DEF StoredRow
    <3>6. IsPast(r, decision[c])
      BY <2>3, <3>5 DEF IsPast, Sendable
    <3> QED
      BY <2>3, <2>4, <2>5, <2>7, <3>4, <3>6, ServeOthers DEF Begin
  <2> QED
    BY <2>6, <2>7
<1>4. CASE Delete(p)
  <2>1. PICK c \in Code, u \in User :
          Begin(p, [Call("delete", c, u) EXCEPT !.current = decision[c]],
                DeleteVerdict(decision[c]))
    BY <1>4 DEF Delete
  <2> DEFINE r == [Call("delete", c, u) EXCEPT !.current = decision[c]]
  <2>2. r.op = "delete" /\ r.actor = u /\ r.current = decision[c]
    BY DEF Call
  <2>3. req'[p] = IF DeleteVerdict(decision[c]) = "ok" THEN r
                  ELSE Failed(DeleteVerdict(decision[c]))
    BY <2>1, ServeOthers DEF Begin
  <2> HIDE DEF r
  <2>4. req'[p].pc \in {"commit", "audit"} => DeleteVerdict(decision[c]) = "ok"
    BY <2>3 DEF Failed
  <2>5. DeleteVerdict(decision[c]) = "ok" =>
          decision[c] \in StoredRow /\ decision[c].status = "draft"
    BY VisibleIsStored DEF DeleteVerdict, PriorityDecisionInitialStatus
  <2> QED
    BY <2>1, <2>2, <2>3, <2>4, <2>5, ServeOthers DEF Begin, IsChecked
<1>5. CASE Get(p)
  <2>1. PICK c \in Code :
          Begin(p, [Call("get", c, Nobody) EXCEPT !.pc = "revisions", !.current = decision[c]],
                IF Visible(decision[c]) THEN "ok" ELSE "not_found")
    BY <1>5 DEF Get
  <2> DEFINE r == [Call("get", c, Nobody) EXCEPT !.pc = "revisions", !.current = decision[c]]
  <2>2. r.pc = "revisions"
    BY DEF Call
  <2> HIDE DEF r
  <2>3. req'[p] \in {r, Failed("not_found")}
    BY <2>1, ServeOthers DEF Begin, r
  <2>4. req'[p].pc \notin {"commit", "audit"}
    BY <2>2, <2>3 DEF Failed
  <2> QED
    BY <2>1, <2>4, ServeOthers DEF Begin
<1> QED
  BY <1>1, <1>2, <1>3, <1>4, <1>5 DEF Arrive

\* A write only moves a row forward.
LEMMA ApplyGrows ==
  ASSUME TypeOK, RevisionChain, LoadedRowIsPast, LoadedRowIsChecked,
         NEW p \in Request, At(p, "commit"), CommitOutcome(req[p]) = "ok", Apply(p),
         NEW c \in Code
  PROVE  /\ decision'[c].version \in Nat
         /\ decision[c].version <= decision'[c].version
         /\ decision'[c].version = decision[c].version =>
              /\ decision'[c].status = decision[c].status
              /\ decision'[c].evidence = decision[c].evidence
         /\ decision[c].version > 0 => decision'[c].preparedBy = decision[c].preparedBy
<1> DEFINE k == req[p].code
<1>1. decision[c].version \in Nat
  BY VersionType
<1>2. CASE req[p].op = "delete"
  <2>1. /\ k \in Code /\ decision[k] \in StoredRow
        /\ decision' = [decision EXCEPT ![k] = [decision[k] EXCEPT !.deleted = TRUE]]
    BY <1>2, ApplyDeletes
  <2> QED
    BY <1>1, <2>1 DEF StoredRow, TypeOK
<1>3. CASE req[p].op # "delete"
  <2> DEFINE new == RevisionOf(Written(req[p]), req[p].actor, p)
  <2>1. /\ k \in Code
        /\ decision' = [decision EXCEPT ![k] = decision'[k]]
        /\ new.version = decision[k].version + 1
        /\ decision'[k].version = new.version
    BY <1>3, ApplyWrites
  <2>2. \/ new.version = 1
        \/ decision'[k].preparedBy = decision[k].preparedBy
    BY <1>3, ApplyAuthor
  <2> HIDE DEF new
  <2>3. CASE c = k
    BY <1>1, <2>1, <2>2, <2>3
  <2>4. CASE c # k
    BY <1>1, <2>1, <2>4 DEF TypeOK
  <2> QED
    BY <2>3, <2>4
<1> QED
  BY <1>2, <1>3

\* The copies stay past states while other requests write.
LEMMA ApplyKeepsPast ==
  ASSUME TypeOK, RevisionChain, LoadedRowIsPast, LoadedRowIsChecked,
         NEW p \in Request, At(p, "commit"), CommitOutcome(req[p]) = "ok", Apply(p),
         NEW q \in Request, At(q, "commit"), req[q].op \in {"update", "transition"}
  PROVE  IsPast(req[q], decision'[req[q].code])
<1>1. req[q].code \in Code
  BY BusyType DEF At, Busy
<1>2. IsPast(req[q], decision[req[q].code])
  BY DEF LoadedRowIsPast
<1>3. decision[req[q].code].version \in Nat /\ req[q].current.version \in Nat
  BY <1>1, <1>2, VersionType DEF IsPast
<1> QED
  BY <1>1, <1>2, <1>3, ApplyGrows DEF IsPast

\* A step that lets no request go on to a write and leaves the rows alone.
LEMMA QuietStep ==
  ASSUME LoadedRowIsPast, LoadedRowIsChecked, UNCHANGED decision,
         \A q \in Request :
           \/ req'[q] = req[q]
           \/ req'[q].pc \notin {"commit", "audit"}
  PROVE  LoadedRowIsPast' /\ LoadedRowIsChecked'
BY DEF LoadedRowIsPast, LoadedRowIsChecked, At

\* What a committing or failing request leaves behind.
LEMMA CommitLoaded ==
  ASSUME TypeOK, RevisionChain, LoadedRowIsPast, LoadedRowIsChecked,
         NEW p \in Request, Commit(p) \/ CommitUnreported(p)
  PROVE  LoadedRowIsPast' /\ LoadedRowIsChecked'
<1>1. At(p, "commit") /\ CommitOutcome(req[p]) = "ok" /\ Apply(p)
  BY DEF Commit, CommitUnreported
<1>2. req[p] \in Busy /\ IsChecked(req[p])
  BY <1>1, BusyType DEF At, LoadedRowIsChecked
<1>3. req'[p] \in {[req[p] EXCEPT !.pc = "audit"], Failed("error")}
  BY ServeOthers DEF Commit, CommitUnreported
<1>4. \A q \in Request : q # p => req'[q] = req[q]
  BY ServeOthers DEF Commit, CommitUnreported
<1>5. req'[p].pc # "commit" /\ (req'[p].pc = "audit" => IsChecked(req'[p]))
  <2>1. CASE req'[p] = Failed("error")
    BY <2>1 DEF Failed
  <2>2. CASE req'[p] = [req[p] EXCEPT !.pc = "audit"]
    BY <1>2, <2>2 DEF IsChecked, Busy
  <2> QED
    BY <1>3, <2>1, <2>2
<1>6. LoadedRowIsChecked'
  BY <1>4, <1>5 DEF LoadedRowIsChecked
<1>7. LoadedRowIsPast'
  <2> SUFFICES ASSUME NEW q \in Request, req'[q].pc = "commit",
                      req'[q].op \in {"update", "transition"}
               PROVE  IsPast(req'[q], decision'[req'[q].code])
    BY DEF LoadedRowIsPast, IsPast, At
  <2>1. q # p /\ req'[q] = req[q]
    BY <1>4, <1>5
  <2> QED
    BY <1>1, <2>1, ApplyKeepsPast DEF At
<1> QED
  BY <1>6, <1>7

\* Where the rows do not change, neither do the invariants of the tables.
LEMMA TablesUnchanged ==
  ASSUME TablesInv, UNCHANGED <<decision, revisions>>
  PROVE  /\ RevisionChain' /\ DraftAuthors' /\ IndependentReview'
         /\ ~PredictVersions => FinalIsLast'
BY DEF TablesInv, RevisionChain, DraftAuthors, IndependentReview, FinalIsLast

LEMMA TablesWritten ==
  ASSUME TablesInv, NEW p \in Request, At(p, "commit"), CommitOutcome(req[p]) = "ok", Apply(p)
  PROVE  /\ RevisionChain' /\ DraftAuthors' /\ IndependentReview'
         /\ ~PredictVersions => FinalIsLast'
BY ApplyChain, ApplyReview, ApplyFinal DEF TablesInv

-----------------------------------------------------------------------------
(* The inductive invariant. *)

LEMMA TablesStep ==
  ASSUME TablesInv, [Next]_vars
  PROVE  TablesInv'
<1>1. TypeOK'
  BY TypeStep DEF TablesInv
<1>2. ASSUME NEW p \in Request, Commit(p) \/ CommitUnreported(p)
      PROVE  TablesInv'
  <2>1. At(p, "commit") /\ CommitOutcome(req[p]) = "ok" /\ Apply(p)
    BY <1>2 DEF Commit, CommitUnreported
  <2>2. LoadedRowIsPast' /\ LoadedRowIsChecked'
    BY <1>2, CommitLoaded DEF TablesInv
  <2> QED
    BY <1>1, <2>1, <2>2, TablesWritten DEF TablesInv
<1>3. ASSUME NEW p \in Request, Arrive(p)
      PROVE  TablesInv'
  <2>1. UNCHANGED <<decision, revisions>>
    BY <1>3, ArriveLoaded DEF TablesInv
  <2>2. LoadedRowIsChecked'
    BY <1>3, ArriveLoaded DEF TablesInv, LoadedRowIsChecked
  <2>3. LoadedRowIsPast'
    BY <1>3, <2>1, ArriveLoaded DEF TablesInv, LoadedRowIsPast, At
  <2> QED
    BY <1>1, <2>1, <2>2, <2>3, TablesUnchanged DEF TablesInv
<1>4. ASSUME NEW p \in Request, \/ Refuse(p) \/ ReadRow(p) \/ ReadRevisions(p)
                                \/ WriteAudit(p) \/ StatementFails(p)
                                \/ AuditFails(p) \/ Deliver(p)
      PROVE  TablesInv'
  <2>1. UNCHANGED <<decision, revisions>>
    BY <1>4 DEF Refuse, ReadRow, ReadRevisions, WriteAudit, StatementFails, AuditFails, Deliver
  <2>2. \A q \in Request : q # p => req'[q] = req[q]
    BY <1>4 DEF Refuse, ReadRow, ReadRevisions, WriteAudit, StatementFails, AuditFails,
                Deliver, Serve, TablesInv, TypeOK
  <2>3. req'[p].pc \in {"row", "revisions", "done", "failed", "idle"}
    <3>1. CASE Refuse(p) \/ StatementFails(p)
      BY <3>1, ServeOthers DEF Refuse, StatementFails, Failed, TablesInv
    <3>2. CASE ReadRow(p)
      <4>1. req[p] \in Busy
        BY <3>2, BusyType DEF ReadRow, TablesInv, At
      <4>2. req'[p] = IF Visible(decision[req[p].code])
                      THEN [req[p] EXCEPT !.current = decision[req[p].code], !.pc = "revisions"]
                      ELSE Failed("not_found")
        BY <3>2, ServeOthers DEF ReadRow, TablesInv
      <4> QED
        BY <4>1, <4>2 DEF Failed, Busy
    <3>3. CASE ReadRevisions(p)
      <4>1. req[p] \in Busy
        BY <3>3, BusyType DEF ReadRevisions, TablesInv, At
      <4>2. req'[p] = [req[p] EXCEPT !.pc = "done", !.seen = revisions[req[p].code]]
        BY <3>3, ServeOthers DEF ReadRevisions, TablesInv
      <4> QED
        BY <4>1, <4>2 DEF Busy
    <3>4. CASE WriteAudit(p)
      BY <3>4, ServeOthers, BusyType DEF WriteAudit, AfterAudit, TablesInv, At, Busy
    <3>5. CASE AuditFails(p)
      BY <3>5, ServeOthers, BusyType DEF AuditFails, Failed, TablesInv, At, Busy
    <3>6. CASE Deliver(p)
      BY <3>6, ServeOthers DEF Deliver, Idle, TablesInv
    <3> QED
      BY <1>4, <3>1, <3>2, <3>3, <3>4, <3>5, <3>6
  <2>4. LoadedRowIsPast' /\ LoadedRowIsChecked'
    BY <2>1, <2>2, <2>3, QuietStep DEF TablesInv
  <2> QED
    BY <1>1, <2>1, <2>4, TablesUnchanged DEF TablesInv
<1>5. CASE Crash
  <2>1. \A q \in Request : req'[q].pc = "idle"
    BY <1>5 DEF Crash, Idle
  <2>2. LoadedRowIsPast' /\ LoadedRowIsChecked'
    BY <1>5, <2>1, QuietStep DEF Crash, TablesInv
  <2> QED
    BY <1>1, <1>5, <2>2, TablesUnchanged DEF Crash, TablesInv
<1>6. CASE UNCHANGED vars
  BY <1>1, <1>6, TablesUnchanged, QuietStep DEF vars, TablesInv
<1> QED
  BY <1>2, <1>3, <1>4, <1>5, <1>6 DEF Next, Step, Fail

\* A seeded or absent row and its revisions.
LEMMA SeedRow ==
  ASSUME NEW row \in {NoRow} \cup SeedRows
  PROVE  /\ row \in Row /\ SeedRevisions(row) \in SUBSET Revision
         /\ \/ row.version = 0 /\ SeedRevisions(row) = {}
            \/ /\ row.version = 1 /\ row = SeedDraft
               /\ SeedRevisions(row) = {RevisionOf(row, SeedPreparer, SeedRequest)}
            \/ /\ row.version = 2 /\ row.status \in PriorityLevel
               /\ row.preparedBy = SeedPreparer
               /\ SeedRevisions(row) = {RevisionOf(SeedDraft, SeedPreparer, SeedRequest),
                                        RevisionOf(row, SeedReviewer, SeedRequest)}
<1>1. /\ SeedDraft \in StoredRow /\ SeedDraft.version = 1 /\ SeedDraft.status = "draft"
      /\ SeedDraft.preparedBy = SeedPreparer
  BY DataAssumption
  DEF SeedDraft, NewRow, StoredRow, DecisionStatus, PriorityDecisionInitialStatus
<1>2. RevisionOf(SeedDraft, SeedPreparer, SeedRequest) \in Revision
  BY <1>1, DataAssumption DEF RevisionOf, Revision, StoredRow
<1>3. CASE row = NoRow
  BY <1>3 DEF NoRow, Row, SeedRevisions
<1>4. CASE row = SeedDraft
  <2>1. {1} \cap 1..row.version = {1} /\ {2} \cap 1..row.version = {}
    BY <1>1, <1>4
  <2>2. SeedRevisions(row) = {RevisionOf(SeedDraft, SeedPreparer, SeedRequest)}
    BY <2>1 DEF SeedRevisions
  <2> QED
    BY <1>1, <1>2, <1>4, <2>2 DEF Row
<1>5. CASE row # NoRow /\ row # SeedDraft
  <2>1. PICK level \in {"observe", "restrict"} :
          row = [SeedDraft EXCEPT !.version = 2, !.status = level]
    BY <1>5 DEF SeedRows, SeedDecided
  <2>2. /\ row \in StoredRow /\ row.version = 2 /\ row.status \in PriorityLevel
        /\ row.preparedBy = SeedPreparer
    <3>1. 2 \in 1..MaxVersion
      BY DataAssumption
    <3>2. level \in PriorityLevel /\ level \in DecisionStatus
      BY DEF PriorityLevel, DecisionStatus
    <3> QED
      BY <1>1, <2>1, <3>1, <3>2 DEF StoredRow
  <2>3. {1} \cap 1..row.version = {1} /\ {2} \cap 1..row.version = {2}
    BY <2>2
  <2>4. SeedRevisions(row) = {RevisionOf(SeedDraft, SeedPreparer, SeedRequest),
                              RevisionOf(row, SeedReviewer, SeedRequest)}
    BY <2>3 DEF SeedRevisions
  <2>5. RevisionOf(row, SeedReviewer, SeedRequest) \in Revision
    BY <2>2, DataAssumption DEF RevisionOf, Revision, StoredRow
  <2> QED
    BY <1>2, <2>2, <2>4, <2>5 DEF Row
<1> QED
  BY <1>3, <1>4, <1>5

LEMMA TablesInit == Init => TablesInv
<1> SUFFICES ASSUME Init PROVE TablesInv
  OBVIOUS
<1>1. \A c \in Code : decision[c] \in {NoRow} \cup SeedRows
                     /\ revisions[c] = SeedRevisions(decision[c])
  BY DEF Init
<1>2. TypeOK
  <2>1. decision \in [Code -> Row] /\ revisions \in [Code -> SUBSET Revision]
    BY <1>1, SeedRow DEF Init
  <2>2. audit \in Seq(AuditEntry) /\ req \in [Request -> Quiet \cup Busy]
    BY DEF Init, Quiet
  <2> QED
    BY <2>1, <2>2 DEF TypeOK
<1>3. LoadedRowIsPast /\ LoadedRowIsChecked
  BY DEF Init, LoadedRowIsPast, LoadedRowIsChecked, Idle, At
<1>4. SeedDraft.version = 1 /\ SeedDraft.status = "draft" /\ SeedDraft.preparedBy = SeedPreparer
  BY DEF SeedDraft, NewRow, PriorityDecisionInitialStatus
<1>5. RoleOf[SeedReviewer] = "reviewer" /\ SeedReviewer # SeedPreparer
  BY DataAssumption
<1>6. ASSUME NEW c \in Code
      PROVE  LET row == decision[c]  S == revisions[c]
             IN  /\ {r.version : r \in S} = 1..row.version
                 /\ \A r, s \in S : r.version = s.version => r = s
                 /\ \A r \in S : r.version = row.version =>
                      r.status = row.status /\ r.evidence = row.evidence
                 /\ \A r \in S :
                      /\ r.version = 1 => r.actor = row.preparedBy
                      /\ r.status = "draft" => r.actor = row.preparedBy
                      /\ r.status \in PriorityLevel =>
                           r.version = row.version /\ r.actor = SeedReviewer
                 /\ S # {} => row.preparedBy = SeedPreparer
  <2> DEFINE row == decision[c]
             S   == revisions[c]
  <2>1. CASE row.version = 0 /\ S = {}
    BY <2>1
  <2>2. CASE row.version = 1 /\ row = SeedDraft
             /\ S = {RevisionOf(row, SeedPreparer, SeedRequest)}
    BY <1>4, <2>2, LevelIsNotDraft DEF RevisionOf
  <2>3. CASE /\ row.version = 2 /\ row.status \in PriorityLevel
             /\ row.preparedBy = SeedPreparer
             /\ S = {RevisionOf(SeedDraft, SeedPreparer, SeedRequest),
                     RevisionOf(row, SeedReviewer, SeedRequest)}
    <3> DEFINE a == RevisionOf(SeedDraft, SeedPreparer, SeedRequest)
               b == RevisionOf(row, SeedReviewer, SeedRequest)
    <3>1. a.version = 1 /\ a.status = "draft" /\ a.actor = SeedPreparer
      BY <1>4 DEF RevisionOf
    <3>2. /\ b.version = 2 /\ b.status = row.status /\ b.evidence = row.evidence
          /\ b.actor = SeedReviewer /\ b.status \in PriorityLevel
      BY <2>3 DEF RevisionOf
    <3>3. S = {a, b}
      BY <2>3
    <3> HIDE DEF a, b
    <3>4. {r.version : r \in S} = {1, 2}
      BY <3>1, <3>2, <3>3
    <3>5. 1..row.version = {1, 2}
      BY <2>3
    <3> QED
      BY <2>3, <3>1, <3>2, <3>3, <3>4, <3>5, LevelIsNotDraft
  <2> QED
    BY <1>1, <2>1, <2>2, <2>3, SeedRow
<1>7. RevisionChain /\ FinalIsLast /\ DraftAuthors
  BY <1>6 DEF RevisionChain, FinalIsLast, DraftAuthors
<1>8. IndependentReview
  BY <1>5, <1>6, <1>7, ReviewFromAuthors
<1> QED
  BY <1>2, <1>3, <1>7, <1>8 DEF TablesInv

-----------------------------------------------------------------------------
(* The theorems. *)

\* The inductive invariant holds of every reachable state, whatever clients
\* send and whatever fails.
THEOREM TablesInvariance == Spec => []TablesInv
BY TablesInit, TablesStep, PTL DEF Spec

\* Every variable keeps its type; in particular no accepted write ever stores
\* a blank evidence, an unknown status or a row without a preparer.
THEOREM TypeCorrect == Spec => []TypeOK
BY TablesInvariance, PTL DEF TablesInv

\* A decision's row and its append-only history never drift apart.
THEOREM HistoryIsComplete == Spec => []RevisionChain
BY TablesInvariance, PTL DEF TablesInv

\* Four eyes: no final revision by the preparer, nor by anybody but an
\* administrator who wrote a draft of it.
THEOREM SeparationOfDuty == Spec => []IndependentReview
BY TablesInvariance, PTL DEF TablesInv

\* When clients only send versions they have read, a final decision is never
\* followed by another version.
THEOREM FinalDecisionsAreImmutable == ~PredictVersions => (Spec => []FinalIsLast)
<1> SUFFICES ASSUME ~PredictVersions PROVE Spec => []FinalIsLast
  OBVIOUS
<1>1. TablesInv => FinalIsLast
  BY DEF TablesInv
<1> QED
  BY <1>1, TablesInvariance, PTL

-----------------------------------------------------------------------------
(* Steps as changes of the tables. *)

\* Only a transaction that succeeds touches the two tables.
LEMMA StepTables ==
  ASSUME [Next]_vars
  PROVE  \/ UNCHANGED <<decision, revisions>>
         \/ \E p \in Request : At(p, "commit") /\ CommitOutcome(req[p]) = "ok" /\ Apply(p)
<1>1. ASSUME NEW p \in Request, Arrive(p)
      PROVE  UNCHANGED <<decision, revisions>>
  BY <1>1 DEF Arrive, Create, Update, Transition, Delete, Get, Begin
<1>2. ASSUME NEW p \in Request, Commit(p) \/ CommitUnreported(p)
      PROVE  At(p, "commit") /\ CommitOutcome(req[p]) = "ok" /\ Apply(p)
  BY <1>2 DEF Commit, CommitUnreported
<1>3. ASSUME NEW p \in Request, \/ Refuse(p) \/ ReadRow(p) \/ ReadRevisions(p)
                                \/ WriteAudit(p) \/ StatementFails(p)
                                \/ AuditFails(p) \/ Deliver(p)
      PROVE  UNCHANGED <<decision, revisions>>
  BY <1>3 DEF Refuse, ReadRow, ReadRevisions, WriteAudit, StatementFails, AuditFails, Deliver
<1>4. CASE Crash \/ UNCHANGED vars
  BY <1>4 DEF Crash, vars
<1> QED
  BY <1>1, <1>2, <1>3, <1>4 DEF Next, Step, Fail

LEMMA AppendOnlyHolds ==
  ASSUME TablesInv, [Next]_vars
  PROVE  AppendOnlyStep
<1>1. CASE UNCHANGED <<decision, revisions>>
  BY <1>1 DEF AppendOnlyStep
<1>2. ASSUME NEW p \in Request, At(p, "commit"), CommitOutcome(req[p]) = "ok", Apply(p)
      PROVE  AppendOnlyStep
  <2> DEFINE k == req[p].code
  <2>1. CASE req[p].op = "delete"
    <3>1. /\ k \in Code /\ decision[k] \in StoredRow
          /\ decision' = [decision EXCEPT ![k] = [decision[k] EXCEPT !.deleted = TRUE]]
          /\ revisions' = revisions
      BY <1>2, <2>1, ApplyDeletes DEF TablesInv
    <3>2. ~decision[k].deleted
      BY <1>2, <2>1, DeleteGuard DEF TablesInv, Visible
    <3> QED
      BY <3>1, <3>2 DEF AppendOnlyStep, TablesInv, TypeOK
  <2>2. CASE req[p].op # "delete"
    <3> DEFINE new == RevisionOf(Written(req[p]), req[p].actor, p)
    <3>1. /\ k \in Code
          /\ decision' = [decision EXCEPT ![k] = decision'[k]]
          /\ revisions' = [revisions EXCEPT ![k] = @ \cup {new}]
          /\ new.version = decision[k].version + 1
          /\ decision'[k].version = new.version
      BY <1>2, <2>2, ApplyWrites DEF TablesInv
    <3>2. new.version = 1 \/ decision'[k].preparedBy = decision[k].preparedBy
      BY <1>2, <2>2, ApplyAuthor DEF TablesInv
    <3>3. ~decision[k].deleted
      <4>1. CASE req[p].op = "create"
        BY <1>2, <4>1, InsertGuard DEF TablesInv, NoRow
      <4>2. CASE req[p].op \in {"update", "transition"}
        BY <1>2, <4>2, SwapGuard DEF TablesInv, Visible
      <4> QED
        BY <1>2, <2>2, <4>1, <4>2 DEF Apply, InsertDecision, SwapDecision, MarkDeleted
    <3> HIDE DEF new
    <3>4. decision[k].version \in Nat
      BY <3>1, VersionType DEF TablesInv
    <3>5. revisions'[k] = revisions[k] \cup {new}
      BY <3>1 DEF TablesInv, TypeOK
    <3>6. \A c \in Code : c # k => decision'[c] = decision[c] /\ revisions'[c] = revisions[c]
      BY <3>1 DEF TablesInv, TypeOK
    <3>7. revisions[k] \subseteq revisions'[k] /\ new \in revisions'[k]
      BY <3>5
    <3>8. decision'[k].version = decision[k].version + 1
      BY <3>1
    <3>9. decision[k].version > 0 => decision'[k].preparedBy = decision[k].preparedBy
      BY <3>1, <3>2, <3>4
    <3>10. ASSUME NEW c \in Code, c = k
           PROVE  /\ revisions[c] \subseteq revisions'[c]
                  /\ decision[c].deleted => decision'[c] = decision[c]
                  /\ decision'[c].version = decision[c].version + 1
                  /\ \E n \in revisions'[c] : revisions'[c] = revisions[c] \cup {n}
                  /\ decision[c].version > 0 => decision'[c].preparedBy = decision[c].preparedBy
      BY <3>3, <3>5, <3>7, <3>8, <3>9, <3>10
    <3> QED
      BY <3>6, <3>10 DEF AppendOnlyStep
  <2> QED
    BY <2>1, <2>2
<1> QED
  BY <1>1, <1>2, StepTables

\* Nothing a client sends and nothing that fails rewrites a history, skips or
\* repeats a version, changes a preparer or revives a deleted decision.
THEOREM HistoryIsAppendOnly == Spec => AppendOnly
<1>1. TablesInv /\ [Next]_vars => [AppendOnlyStep]_vars
  BY AppendOnlyHolds
<1> QED
  BY <1>1, TablesInvariance, PTL DEF Spec, AppendOnly

-----------------------------------------------------------------------------
(* The workflow implements the ledger. *)

\* The instance speaks of the same data.
LEMMA LedgerData ==
  /\ Ledger!SeedRows = SeedRows
  /\ \A row : Ledger!SeedRevisions(row) = SeedRevisions(row)
  /\ Ledger!PriorityLevel = PriorityLevel
  /\ \A u, minimum : Ledger!RequireMinimumRole(u, minimum) = RequireMinimumRole(u, minimum)
<1>1. Ledger!SeedDraft = SeedDraft
  BY DEF Ledger!SeedDraft, SeedDraft, Ledger!NewRow, NewRow,
         Ledger!PriorityDecisionInitialStatus, PriorityDecisionInitialStatus
<1>2. \A level : Ledger!SeedDecided(level) = SeedDecided(level)
  BY <1>1 DEF Ledger!SeedDecided, SeedDecided
<1>3. Ledger!SeedRows = SeedRows
  BY <1>1, <1>2 DEF Ledger!SeedRows, SeedRows
<1>4. \A row, actor, request : Ledger!RevisionOf(row, actor, request) = RevisionOf(row, actor, request)
  BY DEF Ledger!RevisionOf, RevisionOf
<1>5. \A row : Ledger!SeedRevisions(row) = SeedRevisions(row)
  BY <1>1, <1>4 DEF Ledger!SeedRevisions, SeedRevisions
<1>6. Ledger!PriorityLevel = PriorityLevel
  BY DEF Ledger!PriorityLevel, PriorityLevel
<1>7. \A u, minimum : Ledger!RequireMinimumRole(u, minimum) = RequireMinimumRole(u, minimum)
  BY DEF Ledger!RequireMinimumRole, RequireMinimumRole, Ledger!roleRank, roleRank
<1> QED
  BY <1>3, <1>5, <1>6, <1>7

LEMMA LedgerInit == Init => Ledger!Init
<1> SUFFICES ASSUME Init PROVE Ledger!Init
  OBVIOUS
<1>1. \A c \in Code : decision[c] \in {NoRow} \cup SeedRows
                     /\ revisions[c] = SeedRevisions(decision[c])
  BY DEF Init
<1>2. \A c \in Code : revisions[c] \in {{}} \cup {SeedRevisions(row) : row \in SeedRows}
  <2> SUFFICES ASSUME NEW c \in Code
               PROVE  revisions[c] \in {{}} \cup {SeedRevisions(row) : row \in SeedRows}
    OBVIOUS
  <2>1. CASE decision[c] = NoRow
    BY <1>1, <2>1, SeedRow DEF NoRow
  <2>2. CASE decision[c] \in SeedRows
    BY <1>1, <2>2
  <2> QED
    BY <1>1, <2>1, <2>2
<1>3. \A c \in Code : ~decision[c].deleted
  <2>1. ~SeedDraft.deleted
    BY DEF SeedDraft, NewRow
  <2>2. \A level : SeedDecided(level).deleted = SeedDraft.deleted
    BY DEF SeedDecided, SeedDraft, NewRow
  <2>3. \A row \in SeedRows : ~row.deleted
    BY <2>1, <2>2 DEF SeedRows
  <2> QED
    BY <1>1, <2>3 DEF NoRow
<1>4. {c \in Code : decision[c].deleted} = {}
  BY <1>3
<1>5. {Ledger!SeedRevisions(row) : row \in Ledger!SeedRows} = {SeedRevisions(row) : row \in SeedRows}
  BY LedgerData
<1>6. revisions \in [Code -> {{}} \cup {Ledger!SeedRevisions(row) : row \in Ledger!SeedRows}]
  BY <1>2, <1>5 DEF Init
<1> QED
  BY <1>4, <1>6 DEF Ledger!Init

\* The newest revision is the one of the row's version.
LEMMA LatestRevision ==
  ASSUME TablesInv, NEW c \in Code, decision[c] \in StoredRow
  PROVE  \E last \in revisions[c] :
           /\ Ledger!Latest(c, last)
           /\ last.version = decision[c].version
           /\ last.status = decision[c].status
           /\ last.evidence = decision[c].evidence
<1>1. decision[c].version \in Nat /\ decision[c].version >= 1
  BY DEF StoredRow
<1>2. {r.version : r \in revisions[c]} = 1..decision[c].version
  BY DEF TablesInv, RevisionChain
<1>3. decision[c].version \in {r.version : r \in revisions[c]}
  BY <1>1, <1>2
<1>4. PICK last \in revisions[c] : last.version = decision[c].version
  BY <1>3
<1>5. \A r \in revisions[c] : r.version <= last.version
  BY <1>1, <1>2, <1>4
<1> QED
  BY <1>4, <1>5 DEF Ledger!Latest, TablesInv, RevisionChain

\* Whoever wrote version 1 is the preparer the row names.
LEMMA PreparerIsFirst ==
  ASSUME TablesInv, NEW c \in Code, decision[c] \in StoredRow, NEW u
  PROVE  Ledger!Preparer(c, u) <=> u = decision[c].preparedBy
<1>1. 1 \in {r.version : r \in revisions[c]}
  BY DEF TablesInv, RevisionChain, StoredRow
<1> QED
  BY <1>1 DEF Ledger!Preparer, TablesInv, DraftAuthors

\* Only a deletion deletes, and only what is live is written.
LEMMA ApplyKeepsLive ==
  ASSUME TypeOK, LoadedRowIsChecked, NEW p \in Request, At(p, "commit"),
         CommitOutcome(req[p]) = "ok", Apply(p), req[p].op # "delete"
  PROVE  /\ decision[req[p].code].deleted = FALSE
         /\ decision'[req[p].code].deleted = FALSE
<1> DEFINE r == req[p]
           c == req[p].code
<1>1. r \in Busy /\ c \in Code
  BY BusyType DEF At, Busy
<1>2. CASE r.op = "create"
  <2>1. decision[c] = NoRow /\ InsertDecision(p)
    BY <1>2, InsertGuard DEF Apply, InsertDecision, SwapDecision, MarkDeleted
  <2>2. decision'[c] = NewRow(r.actor, r.evidence)
    BY <1>1, <1>2, <2>1 DEF InsertDecision, Written, TypeOK
  <2> QED
    BY <2>1, <2>2 DEF NoRow, NewRow
<1>3. CASE r.op \in {"update", "transition"}
  <2>1. SwapDecision(p) /\ Written(r) \in StoredRow
    BY <1>3, WrittenType DEF Apply, InsertDecision, SwapDecision, MarkDeleted
  <2>2. decision'[c] = [Written(r) EXCEPT !.preparedBy = decision[c].preparedBy,
                                          !.deleted    = decision[c].deleted]
    BY <1>1, <2>1 DEF SwapDecision, TypeOK
  <2>3. decision[c].deleted = FALSE
    BY <1>1, <1>3, SwapGuard DEF Visible, StoredRow
  <2> QED
    BY <2>1, <2>2, <2>3 DEF StoredRow
<1> QED
  BY <1>2, <1>3 DEF Apply, InsertDecision, SwapDecision, MarkDeleted

LEMMA LedgerStep ==
  ASSUME TablesInv, [Next]_vars, ~PredictVersions
  PROVE  [Ledger!Next]_(Ledger!vars)
<1>1. CASE UNCHANGED <<decision, revisions>>
  BY <1>1 DEF Ledger!vars
<1>2. ASSUME NEW p \in Request, At(p, "commit"), CommitOutcome(req[p]) = "ok", Apply(p)
      PROVE  Ledger!Next
  <2> DEFINE r   == req[p]
             c   == req[p].code
             new == RevisionOf(Written(r), r.actor, p)
  <2>1. r \in Busy /\ c \in Code /\ IsChecked(r)
    BY <1>2, BusyType DEF TablesInv, At, Busy, LoadedRowIsChecked
  <2>2. CASE r.op = "delete"
    <3>1. /\ decision[c] \in StoredRow /\ revisions' = revisions
          /\ decision' = [decision EXCEPT ![c] = [decision[c] EXCEPT !.deleted = TRUE]]
      BY <1>2, <2>2, ApplyDeletes DEF TablesInv
    <3>2. ~decision[c].deleted
      BY <1>2, <2>2, DeleteGuard DEF TablesInv, Visible
    <3>3. revisions[c] # {}
      BY <2>1, <3>1, LatestRevision
    <3>4. decision'[c].deleted /\ \A d \in Code : d # c => decision'[d] = decision[d]
      BY <2>1, <3>1 DEF StoredRow, TablesInv, TypeOK
    <3>5. {d \in Code : decision'[d].deleted} = {d \in Code : decision[d].deleted} \cup {c}
      BY <2>1, <3>4
    <3>6. PICK d \in Code : d = c
      BY <2>1
    <3>7. Ledger!Withdraw(d)
      BY <3>1, <3>2, <3>3, <3>5, <3>6 DEF Ledger!Withdraw
    <3> QED
      BY <3>7 DEF Ledger!Next
  <2>3. CASE r.op # "delete"
    <3>1. /\ new \in Revision /\ decision'[c] \in StoredRow
          /\ decision' = [decision EXCEPT ![c] = decision'[c]]
          /\ revisions' = [revisions EXCEPT ![c] = @ \cup {new}]
          /\ new.version = decision[c].version + 1
      BY <1>2, <2>3, ApplyWrites DEF TablesInv
    <3>2. decision'[c].deleted = decision[c].deleted
      BY <1>2, <2>3, ApplyKeepsLive DEF TablesInv
    <3>3. {d \in Code : decision'[d].deleted} = {d \in Code : decision[d].deleted}
      BY <2>1, <3>1, <3>2 DEF TablesInv, TypeOK
    <3>4. Ledger!Append(c, new)
      BY <3>1, <3>3 DEF Ledger!Append
    <3>5. r.actor \in User
      BY <2>1 DEF IsChecked
    <3>6. CASE r.op = "create"
      <4>1. decision[c].version = 0
        BY <1>2, <3>6, InsertGuard DEF TablesInv, NoRow
      <4>2. {v.version : v \in revisions[c]} = {}
        BY <2>1, <4>1 DEF TablesInv, RevisionChain
      <4>3. revisions[c] = {}
        BY <4>2
      <4>4. r.evidence \in Evidence /\ RequireMinimumRole(r.actor, "operator")
        BY <2>1, <3>6 DEF IsChecked, Busy
      <4>5. new = [version |-> 1, status |-> "draft", evidence |-> r.evidence,
                   actor |-> r.actor, request |-> p]
        BY <3>6 DEF RevisionOf, Written, NewRow, PriorityDecisionInitialStatus
      <4>6. Ledger!Prepare(c, r.actor, r.evidence, p)
        BY <3>4, <4>3, <4>4, <4>5, LedgerData DEF Ledger!Prepare
      <4> QED
        BY <2>1, <3>5, <4>4, <4>6 DEF Ledger!Next
    <3>7. CASE r.op \in {"update", "transition"}
      <4>1. /\ Visible(decision[c]) /\ decision[c] \in StoredRow
            /\ decision[c].version = r.expected
        BY <1>2, <3>7, SwapGuard DEF TablesInv
      <4>2. decision[c].status = "draft" /\ decision[c].evidence = r.current.evidence
        BY <1>2, <3>7, SwapFindsDraft DEF TablesInv
      <4>3. PICK last \in revisions[c] :
              /\ Ledger!Latest(c, last)
              /\ last.version = decision[c].version
              /\ last.status = decision[c].status
              /\ last.evidence = decision[c].evidence
        BY <2>1, <4>1, LatestRevision
      <4>4. c \notin {d \in Code : decision[d].deleted}
        BY <4>1 DEF Visible
      <4>5. r.current.preparedBy = decision[c].preparedBy
        BY <1>2, <3>7 DEF TablesInv, LoadedRowIsPast, IsPast
      <4>6. Ledger!Preparer(c, r.actor) <=> r.actor = decision[c].preparedBy
        BY <2>1, <4>1, PreparerIsFirst
      <4>7. r.current \in StoredRow /\ r.current.status = "draft"
        BY <2>1, <3>7 DEF IsChecked
      <4>8. CASE r.op = "update"
        <5>1. r.evidence \in Evidence
              /\ (r.actor = r.current.preparedBy \/ RoleOf[r.actor] = "admin")
          BY <2>1, <4>8 DEF IsChecked, Busy
        <5>2. new = [version |-> last.version + 1, status |-> "draft",
                     evidence |-> r.evidence, actor |-> r.actor, request |-> p]
          BY <4>1, <4>3, <4>7, <4>8 DEF RevisionOf, Written, StoredRow
        <5>3. Ledger!Amend(c, r.actor, r.evidence, p)
          BY <3>4, <4>2, <4>3, <4>4, <4>5, <4>6, <5>1, <5>2 DEF Ledger!Amend
        <5> QED
          BY <2>1, <3>5, <5>1, <5>3 DEF Ledger!Next
      <4>9. CASE r.op = "transition"
        <5>1. /\ r.target \in PriorityLevel /\ RoleOf[r.actor] \in {"reviewer", "admin"}
              /\ r.actor # r.current.preparedBy
          BY <2>1, <4>9 DEF IsChecked
        <5>2. new = [version |-> last.version + 1, status |-> r.target,
                     evidence |-> last.evidence, actor |-> r.actor, request |-> p]
          BY <4>1, <4>2, <4>3, <4>7, <4>9 DEF RevisionOf, Written, StoredRow
        <5>3. Ledger!Finalize(c, r.actor, r.target, p)
          BY <3>4, <4>2, <4>3, <4>4, <4>5, <4>6, <5>1, <5>2 DEF Ledger!Finalize
        <5> QED
          BY <2>1, <3>5, <5>1, <5>3, LedgerData DEF Ledger!Next
      <4> QED
        BY <3>7, <4>8, <4>9
    <3> QED
      BY <1>2, <2>3, <3>6, <3>7 DEF Apply, InsertDecision, SwapDecision, MarkDeleted
  <2> QED
    BY <2>2, <2>3
<1> QED
  BY <1>1, <1>2, StepTables

\* When clients only send versions they have read, the interleaved and failing
\* statements of the service amount to the ledger's atomic operations.
THEOREM WorkflowImplementsLedger == ~PredictVersions => (Spec => ImplementsLedger)
<1> SUFFICES ASSUME ~PredictVersions PROVE Spec => ImplementsLedger
  OBVIOUS
<1>1. TablesInv /\ [Next]_vars => [Ledger!Next]_(Ledger!vars)
  BY LedgerStep
<1> QED
  BY <1>1, LedgerInit, TablesInvariance, PTL DEF Spec, ImplementsLedger, Ledger!Spec
=============================================================================
