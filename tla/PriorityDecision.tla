--------------------------- MODULE PriorityDecision ---------------------------
(***************************************************************************)
(* The priority decision workflow: the five operations of                  *)
(* service/priority_decision.go, reached through                           *)
(* handler/priority_decision.go, on the tables of                          *)
(* repository/priority_decision.go and the audit log of                    *)
(* repository/security.go.                                                 *)
(*                                                                         *)
(* Each request is served by a goroutine of its own.  A handler is a chain *)
(* of database statements; between two of them any statement of any other  *)
(* request may run, so a step of this specification is one statement (or   *)
(* one transaction) with the local code around it:                         *)
(*                                                                         *)
(*   idle       the request arrives, passes its role middleware, and the   *)
(*              first Get runs with the checks of the operation on it      *)
(*   commit     CreateWithRevision, UpdateWithRevision or Delete           *)
(*   audit      AppendAudit, after the transaction has committed           *)
(*   row        the row query of the final Get                             *)
(*   revisions  the separate query that preloads its revisions             *)
(*   done       the answer is on its way to the client (failed: an error)  *)
(***************************************************************************)
EXTENDS Answers, DecisionData, Sequences, FiniteSets

CONSTANTS PredictVersions,  \* may a client send a version it has not read?
          Faults            \* may statements fail and the server crash?

ASSUME PriorityDecisionAssumption ==
  /\ PredictVersions \in BOOLEAN
  /\ Faults \in BOOLEAN

VARIABLES decision,    \* table priority_decisions, by code
          revisions,   \* table priority_decision_revisions, by decision
          audit,       \* table audit_logs, in insertion order
          req          \* what the goroutine of each request is doing

vars == <<decision, revisions, audit, req>>

-----------------------------------------------------------------------------
(* The state of a request. *)

Op == {"create", "update", "transition", "delete", "get"}

Target == DecisionStatus \cup {"unknown"}

Busy ==
  [pc       : {"commit", "audit", "row", "revisions", "done"},
   op       : Op,
   code     : Code,
   actor    : User \cup {Nobody},          \* Nobody: a read asks for no actor
   expected : 0..(MaxVersion - 1),         \* 0: the operation sends no version
   evidence : Evidence \cup {Blank},
   target   : Target \cup {"none"},
   current  : Row,                         \* the handler's copy of the row
   seen     : SUBSET Revision]             \* the revisions the answer shows

AuditEntry ==
  [action  : {"create", "update", "transition", "delete"},
   code    : Code,
   before  : DecisionStatus \cup {"none"},
   after   : DecisionStatus \cup {"deleted"},
   actor   : User,
   request : Request]

Call(op, c, u) ==
  [pc |-> "commit", op |-> op, code |-> c, actor |-> u, expected |-> 0,
   evidence |-> Blank, target |-> "none", current |-> NoRow, seen |-> {}]

Serve(p, r) == req' = [req EXCEPT ![p] = r]

At(p, pc) == req[p].pc = pc

-----------------------------------------------------------------------------
TypeOK ==
  /\ decision  \in [Code -> Row]
  /\ revisions \in [Code -> SUBSET Revision]
  /\ audit     \in Seq(AuditEntry)
  /\ req       \in [Request -> Quiet \cup Busy]

\* A database that Seed has filled, and codes that are still free.
Init ==
  /\ decision  \in [Code -> {NoRow} \cup SeedRows]
  /\ \A c \in Code : decision[c] = NoRow <=> c \notin Seeded
  /\ revisions = [c \in Code |-> SeedRevisions(decision[c])]
  /\ audit     = <<>>
  /\ req       = [p \in Request |-> Idle]

-----------------------------------------------------------------------------
(* The checks of each operation, in the order the service makes them, on   *)
(* the row the first Get returned.                                         *)

\* Fault: anybody may edit a draft.
UpdateVerdictNoOwner(r, row) ==
  IF ~Visible(row) THEN "not_found"
  ELSE IF row.status # PriorityDecisionInitialStatus THEN "locked"
  ELSE IF r.evidence = Blank THEN "invalid"
  ELSE "ok"

UpdateVerdict(r, row) ==
  IF ~Visible(row) THEN "not_found"
  ELSE IF row.status # PriorityDecisionInitialStatus THEN "locked"
  ELSE IF r.actor # row.preparedBy /\ RoleOf[r.actor] # "admin" THEN "not_owner"
  ELSE IF r.evidence = Blank THEN "invalid"
  ELSE "ok"

\* Fault: the graph is consulted for the loaded status only.
TransitionVerdictAnyTarget(r, row) ==
  IF ~Visible(row) THEN "not_found"
  ELSE IF RoleOf[r.actor] \notin {"reviewer", "admin"} THEN "review_role"
  ELSE IF r.actor = row.preparedBy THEN "separation"
  ELSE IF PriorityDecisionTransitions[row.status] = {} THEN "bad_transition"
  ELSE "ok"

\* Fault: the separation of duty is dropped.
TransitionVerdictNoSeparation(r, row) ==
  IF ~Visible(row) THEN "not_found"
  ELSE IF RoleOf[r.actor] \notin {"reviewer", "admin"} THEN "review_role"
  ELSE IF ~CanTransition(PriorityDecisionTransitions, row.status, r.target) THEN "bad_transition"
  ELSE "ok"

TransitionVerdict(r, row) ==
  IF ~Visible(row) THEN "not_found"
  ELSE IF RoleOf[r.actor] \notin {"reviewer", "admin"} THEN "review_role"
  ELSE IF r.actor = row.preparedBy THEN "separation"
  ELSE IF ~CanTransition(PriorityDecisionTransitions, row.status, r.target) THEN "bad_transition"
  ELSE "ok"

DeleteVerdict(row) ==
  IF ~Visible(row) THEN "not_found"
  ELSE IF row.status # PriorityDecisionInitialStatus THEN "locked"
  ELSE "ok"

-----------------------------------------------------------------------------
(* The handlers up to their first write.  A write ignores the revisions    *)
(* its own Get loads, so only the row counts.                              *)
(*                                                                         *)
(* A client of the web application sends the version of a row it was       *)
(* shown; a version no row has had yet is sent only by a client that       *)
(* predicts it.                                                            *)

Sendable(c) == {v \in 1..(MaxVersion - 1) :
                  PredictVersions \/ v <= decision[c].version}

Begin(p, r, verdict) ==
  /\ At(p, "idle")
  /\ Serve(p, IF verdict = "ok" THEN r ELSE Failed(verdict))
  /\ UNCHANGED <<decision, revisions, audit>>

\* Create reads nothing: it validates its input and goes on to insert it.
Create(p) ==
  \E c \in Code, u \in User, e \in Evidence \cup {Blank} :
    /\ RequireMinimumRole(u, "operator")
    /\ Begin(p, [Call("create", c, u) EXCEPT !.evidence = e],
             IF e = Blank THEN "invalid" ELSE "ok")

Update(p) ==
  \E c \in Code, u \in User, e \in Evidence \cup {Blank} : \E v \in Sendable(c) :
    LET r == [Call("update", c, u) EXCEPT !.expected = v, !.evidence = e,
                                          !.current = decision[c]]
    IN  /\ RequireMinimumRole(u, "operator")
        /\ Begin(p, r, UpdateVerdict(r, decision[c]))

Transition(p) ==
  \E c \in Code, u \in User, t \in Target : \E v \in Sendable(c) :
    LET r == [Call("transition", c, u) EXCEPT !.expected = v, !.target = t,
                                              !.current = decision[c]]
    IN  /\ RequireMinimumRole(u, "operator")
        /\ Begin(p, r, TransitionVerdict(r, decision[c]))

Delete(p) ==
  \E c \in Code, u \in User :
    /\ RequireRoles(u, {"admin"})
    /\ Begin(p, [Call("delete", c, u) EXCEPT !.current = decision[c]],
             DeleteVerdict(decision[c]))

Get(p) ==
  \E c \in Code :
    Begin(p, [Call("get", c, Nobody) EXCEPT !.pc = "revisions", !.current = decision[c]],
          IF Visible(decision[c]) THEN "ok" ELSE "not_found")

-----------------------------------------------------------------------------
(* The transactions. *)

\* The row a request writes.  A transition keeps the evidence it loaded, an
\* update the status it loaded: every column but id, code, created_at,
\* deleted_at and prepared_by is written.
Written(r) ==
  CASE r.op = "create"     -> NewRow(r.actor, r.evidence)
    [] r.op = "update"     -> [r.current EXCEPT !.version = r.expected + 1,
                                                !.evidence = r.evidence]
    [] OTHER               -> [r.current EXCEPT !.version = r.expected + 1,
                                                !.status = r.target]

\* Fault: the write does not filter deleted rows.
SwappableDeleted(r, row) == row.version = r.expected

\* WHERE id = ? AND version = ? AND deleted_at IS NULL
Swappable(r, row) == Visible(row) /\ row.version = r.expected

\* Fault: the unique index on the code covers live rows only.
CommitOutcomeReuse(r) ==
  LET row == decision[r.code] IN
  CASE r.op = "create"  -> IF Visible(row) THEN "error" ELSE "ok"
    [] r.op = "delete"  -> IF Visible(row) THEN "ok" ELSE "not_found"
    [] OTHER ->
         IF ~Swappable(r, row) THEN "conflict"
         ELSE IF \E v \in revisions[r.code] : v.version = r.expected + 1 THEN "error"
         ELSE "ok"

\* What the database answers: both unique indexes count deleted rows.
CommitOutcome(r) ==
  LET row == decision[r.code] IN
  CASE r.op = "create"  -> IF row.version = 0 THEN "ok" ELSE "error"
    [] r.op = "delete"  -> IF Visible(row) THEN "ok" ELSE "not_found"
    [] OTHER ->
         IF ~Swappable(r, row) THEN "conflict"
         ELSE IF \E v \in revisions[r.code] : v.version = r.expected + 1 THEN "error"
         ELSE "ok"

\* Fault: the first version leaves no revision.
InsertDecisionOnly(p) ==
  /\ req[p].op = "create"
  /\ decision' = [decision EXCEPT ![req[p].code] = Written(req[p])]
  /\ UNCHANGED revisions

InsertDecision(p) ==
  LET r == req[p] IN
  /\ r.op = "create"
  /\ decision'  = [decision EXCEPT ![r.code] = Written(r)]
  /\ revisions' = [revisions EXCEPT ![r.code] =
                     @ \cup {RevisionOf(Written(r), r.actor, p)}]

SwapDecision(p) ==
  LET r == req[p] IN
  /\ r.op \in {"update", "transition"}
  /\ decision'  = [decision EXCEPT ![r.code] =
                     [Written(r) EXCEPT !.preparedBy = decision[r.code].preparedBy,
                                        !.deleted    = decision[r.code].deleted]]
  /\ revisions' = [revisions EXCEPT ![r.code] =
                     @ \cup {RevisionOf(Written(r), r.actor, p)}]

\* Soft delete looks at the id alone: neither status nor version is compared.
MarkDeleted(p) ==
  LET r == req[p] IN
  /\ r.op = "delete"
  /\ decision' = [decision EXCEPT ![r.code].deleted = TRUE]
  /\ UNCHANGED revisions

Apply(p) == InsertDecision(p) \/ SwapDecision(p) \/ MarkDeleted(p)

\* Fault: transitions are not audited.
CommitSkipsAudit(p) ==
  /\ At(p, "commit")
  /\ CommitOutcome(req[p]) = "ok"
  /\ Apply(p)
  /\ Serve(p, [req[p] EXCEPT !.pc = IF req[p].op = "transition" THEN "row" ELSE "audit"])
  /\ UNCHANGED audit

\* The transaction commits and its handler learns of it.
Commit(p) ==
  /\ At(p, "commit")
  /\ CommitOutcome(req[p]) = "ok"
  /\ Apply(p)
  /\ Serve(p, [req[p] EXCEPT !.pc = "audit"])
  /\ UNCHANGED audit

\* The database refuses the write and rolls it back.
Refuse(p) ==
  /\ At(p, "commit")
  /\ CommitOutcome(req[p]) # "ok"
  /\ Serve(p, Failed(CommitOutcome(req[p])))
  /\ UNCHANGED <<decision, revisions, audit>>

-----------------------------------------------------------------------------
(* The audit entry of an operation is a statement of its own, made after   *)
(* the commit.                                                             *)

\* Fault: "before" is read after the new status was assigned.
EntryOfLate(p) ==
  LET r == req[p] IN
  [action  |-> r.op,
   code    |-> r.code,
   before  |-> IF r.op = "transition" THEN r.target ELSE r.current.status,
   after   |-> IF r.op = "transition" THEN r.target ELSE r.current.status,
   actor   |-> r.actor,
   request |-> p]

EntryOf(p) ==
  LET r == req[p] IN
  [action  |-> r.op,
   code    |-> r.code,
   before  |-> IF r.op = "create" THEN "none" ELSE r.current.status,
   after   |-> CASE r.op = "create"     -> PriorityDecisionInitialStatus
                 [] r.op = "update"     -> r.current.status
                 [] r.op = "transition" -> r.target
                 [] OTHER               -> "deleted",
   actor   |-> r.actor,
   request |-> p]

\* Delete answers once it is audited, the others read the decision again.
AfterAudit(r) ==
  IF r.op = "delete" THEN [r EXCEPT !.pc = "done"] ELSE [r EXCEPT !.pc = "row"]

WriteAudit(p) ==
  /\ At(p, "audit")
  /\ audit' = Append(audit, EntryOf(p))
  /\ Serve(p, AfterAudit(req[p]))
  /\ UNCHANGED <<decision, revisions>>

\* Fault: every operation drops the error.
AuditFailsSilently(p) ==
  /\ Faults
  /\ At(p, "audit")
  /\ Serve(p, AfterAudit(req[p]))
  /\ UNCHANGED <<decision, revisions, audit>>

\* Create and Update drop the error; Transition and Delete report it.
AuditFails(p) ==
  /\ Faults
  /\ At(p, "audit")
  /\ Serve(p, IF req[p].op \in {"create", "update"} THEN [req[p] EXCEPT !.pc = "row"]
              ELSE Failed("error"))
  /\ UNCHANGED <<decision, revisions, audit>>

-----------------------------------------------------------------------------
(* The final Get: two queries, with other requests in between. *)

ReadRow(p) ==
  /\ At(p, "row")
  /\ LET r == req[p]  row == decision[r.code] IN
     Serve(p, IF Visible(row) THEN [r EXCEPT !.current = row, !.pc = "revisions"]
              ELSE Failed("not_found"))
  /\ UNCHANGED <<decision, revisions, audit>>

\* Fault: the history stops before the version the answer shows.
ReadRevisionsBefore(p) ==
  /\ At(p, "revisions")
  /\ Serve(p, [req[p] EXCEPT !.pc = "done",
                 !.seen = {v \in revisions[req[p].code] : v.version < req[p].current.version}])
  /\ UNCHANGED <<decision, revisions, audit>>

ReadRevisions(p) ==
  /\ At(p, "revisions")
  /\ Serve(p, [req[p] EXCEPT !.pc = "done", !.seen = revisions[req[p].code]])
  /\ UNCHANGED <<decision, revisions, audit>>

-----------------------------------------------------------------------------
(* What goes wrong.  A statement fails when the database is unreachable or *)
(* the client has hung up, which cancels the request's context.            *)

StatementFails(p) ==
  /\ Faults
  /\ req[p].pc \in {"idle", "commit", "row", "revisions"}
  /\ Serve(p, Failed("error"))
  /\ UNCHANGED <<decision, revisions, audit>>

\* The transaction commits, but the acknowledgement is lost on its way back: the
\* handler takes it for a failure, answers 500 and writes no audit entry.
CommitUnreported(p) ==
  /\ Faults
  /\ At(p, "commit")
  /\ CommitOutcome(req[p]) = "ok"
  /\ Apply(p)
  /\ Serve(p, Failed("error"))
  /\ UNCHANGED audit

\* The process dies and is started again; the database keeps what committed.
Crash ==
  /\ Faults
  /\ \E p \in Request : ~At(p, "idle")
  /\ req' = [p \in Request |-> Idle]
  /\ UNCHANGED <<decision, revisions, audit>>

\* The answer reaches the client.
Deliver(p) ==
  /\ req[p].pc \in {"done", "failed"}
  /\ Serve(p, Idle)
  /\ UNCHANGED <<decision, revisions, audit>>

-----------------------------------------------------------------------------
Arrive(p) == Create(p) \/ Update(p) \/ Transition(p) \/ Delete(p) \/ Get(p)

\* A step of the goroutine that serves p.
Step(p) == Commit(p) \/ Refuse(p) \/ WriteAudit(p) \/ ReadRow(p) \/ ReadRevisions(p)

Fail(p) == StatementFails(p) \/ CommitUnreported(p) \/ AuditFails(p)

Next == Crash \/ \E p \in Request : Arrive(p) \/ Step(p) \/ Fail(p) \/ Deliver(p)

Spec == Init /\ [][Next]_vars

\* The scheduler runs every goroutine, and every statement of the database
\* ends.  Nothing obliges a client to send a request.
FairSpec == Spec /\ \A p \in Request : WF_vars(Step(p))

-----------------------------------------------------------------------------
(* Properties. *)

Decided(row) == row.status \in PriorityLevel

\* The revision that records what request p has written.
HasWritten(p) ==
  LET r == req[p] IN
  \E v \in revisions[r.code] :
    /\ v.version = r.expected + 1 /\ v.actor = r.actor /\ v.request = p
    /\ r.op = "transition" => v.status = r.target
    /\ r.op # "transition" => v.evidence = r.evidence

IsAudited(p) ==
  \E i \in DOMAIN audit :
    audit[i].action = req[p].op /\ audit[i].code = req[p].code
    /\ audit[i].request = p /\ audit[i].actor = req[p].actor

\* The history reaches the row, and says of its version what the row says.
Reflects(history, row) ==
  /\ 1..row.version \subseteq {v.version : v \in history}
  /\ \E v \in history : v.version = row.version /\ v.status = row.status
                         /\ v.evidence = row.evidence

\* A transition an audit entry tells of has left a final revision of the same
\* actor and request, and followed a revision in the status it names "before".
IsTruthful(e) ==
  \E r, s \in revisions[e.code] :
    /\ r.actor = e.actor /\ r.request = e.request
    /\ r.status = e.after
    /\ s.version = r.version - 1 /\ s.status = e.before

\* The history of a decision and its row never drift apart: there is exactly
\* one revision for every version from 1 to the row's, and the newest one
\* says what the row says, whatever the two writers of it raced with
\* (UpdateWithRevision, CreateWithRevision; unique index of the revisions).
RevisionChain ==
  \A c \in Code :
    /\ {r.version : r \in revisions[c]} = 1..decision[c].version
    /\ \A r, s \in revisions[c] : r.version = s.version => r = s
    /\ \A r \in revisions[c] : r.version = decision[c].version =>
         r.status = decision[c].status /\ r.evidence = decision[c].evidence

\* A final decision is immutable: nothing is ever appended after a final
\* revision, although the check "still a draft?" and the write it protects
\* are different statements (service Update and Transition).
FinalIsLast ==
  \A c \in Code : \A r \in revisions[c] :
    r.status \in PriorityLevel => r.version = decision[c].version

\* Four eyes: whoever finalized is a reviewer or an administrator and not the
\* preparer; and unless it is an administrator, that person wrote no draft
\* of the decision (the separation of duty of Transition together with
\* the ownership rule of Update).
IndependentReview ==
  \A c \in Code : \A r \in revisions[c] : r.status \in PriorityLevel =>
    /\ RoleOf[r.actor] \in {"reviewer", "admin"}
    /\ r.actor # decision[c].preparedBy
    /\ \A s \in revisions[c] : s.status = "draft" =>
         s.actor # r.actor \/ RoleOf[r.actor] = "admin"

\* What an answer "ok" promises: the effect is in the database and stays
\* there, and a transition or a deletion has been audited, because Transition
\* and Delete, unlike Create and Update, report a failing audit.
AcknowledgedIsDurable ==
  \A p \in Request :
    LET r == req[p] IN
    At(p, "done") =>
      /\ r.op \in {"create", "update", "transition"} => HasWritten(p)
      /\ r.op = "delete" => decision[r.code].deleted
      /\ r.op \in {"transition", "delete"} => IsAudited(p)

\* An answer shows a row and its history although the two are read by two
\* queries: the history reaches at least as far as the row, and its revision
\* of the row's version says what the row says (Get and its preload).
AnswerIsCoherent ==
  \A p \in Request :
    At(p, "done") /\ req[p].op # "delete" => Reflects(req[p].seen, req[p].current)

\* The audit log does not lie: an entry of a transition stands for a final
\* revision of the same actor and request, and its "before" is the status of
\* the revision before that one, although it was read before the commit.
AuditIsTruthful ==
  \A i \in DOMAIN audit : audit[i].action = "transition" => IsTruthful(audit[i])

\* Every change of a status is audited, or about to be: README.md:42.  An entry is
\* lost when the acknowledgement of the commit is (Transition returns the error of
\* UpdateWithRevision and never comes to the audit), when its insert fails, or when
\* the process ends in between.
StatusChangesAudited ==
  \A c \in Code : \A r \in revisions[c] :
    r.status \in PriorityLevel /\ r.request \in Request =>
      \/ At(r.request, "audit") /\ req[r.request].op = "transition"
      \/ \E i \in DOMAIN audit :
           /\ audit[i].action = "transition" /\ audit[i].code = c
           /\ audit[i].actor = r.actor /\ audit[i].request = r.request

\* The entries about a decision, those still to be written, and the revisions
\* that requests have added.
Entries(c) == {i \in DOMAIN audit : audit[i].code = c}

Unaudited(c) == {p \in Request : At(p, "audit") /\ req[p].code = c}

Requested(c) == {r \in revisions[c] : r.request \in Request}

\* Every change of a decision is audited once: the entries and the requests
\* still about to write theirs match the changes one to one.
AuditIsComplete ==
  \A c \in Code :
    Cardinality(Entries(c)) + Cardinality(Unaudited(c))
      = Cardinality(Requested(c)) + (IF decision[c].deleted THEN 1 ELSE 0)

\* Once a decision is final, its deletion is refused (ErrDecisionLocked).
FinalNeverDeleted == \A c \in Code : Decided(decision[c]) => ~decision[c].deleted

\* A version only ever grows by one, with exactly one new revision; history is
\* never rewritten, a preparer never changes and a deletion is never undone.
AppendOnlyStep ==
  \A c \in Code :
    /\ revisions[c] \subseteq revisions'[c]
    /\ decision[c].deleted => decision'[c] = decision[c]
    /\ \/ /\ decision'[c].version = decision[c].version + 1
          /\ \E new \in revisions'[c] : revisions'[c] = revisions[c] \cup {new}
          /\ decision[c].version > 0 => decision'[c].preparedBy = decision[c].preparedBy
       \/ /\ decision'[c] \in {decision[c], [decision[c] EXCEPT !.deleted = TRUE]}
          /\ revisions'[c] = revisions[c]

AppendOnly == [][AppendOnlyStep]_vars

\* A finalization that was not seeded is eventually in the audit log.
FinalEventuallyAudited ==
  \A c \in Code, l \in PriorityLevel :
    (\E r \in revisions[c] : r.status = l /\ r.request \in Request)
      ~> (\E i \in DOMAIN audit : audit[i].code = c /\ audit[i].action = "transition"
                                  /\ audit[i].after = l)

-----------------------------------------------------------------------------
(* What makes the properties inductive. *)

\* Version 1 is the preparer's, and every draft is the preparer's or an
\* administrator's.
DraftAuthors ==
  \A c \in Code : \A r \in revisions[c] :
    /\ r.version = 1 => r.actor = decision[c].preparedBy
    /\ r.status = "draft" => r.actor = decision[c].preparedBy \/ RoleOf[r.actor] = "admin"

\* The row a handler holds between its Get and its write is a past state of
\* the row: if the versions still agree so does the content.
IsPast(r, row) ==
  /\ r.current.version \in 1..row.version
  /\ r.current.preparedBy = row.preparedBy
  /\ r.current.version = row.version =>
       r.current.status = row.status /\ r.current.evidence = row.evidence
  /\ ~PredictVersions => r.expected <= r.current.version

LoadedRowIsPast ==
  \A p \in Request :
    At(p, "commit") /\ req[p].op \in {"update", "transition"} =>
      IsPast(req[p], decision[req[p].code])

\* What the checks established keeps holding of the handler's copy until the
\* write it leads to is made and audited.
IsChecked(r) ==
  /\ r.op # "get" /\ r.actor \in User
  /\ r.op # "create" => r.current \in StoredRow /\ r.current.status = "draft"
  /\ r.op \in {"create", "update"} => r.evidence # Blank
  /\ r.op = "create" => RequireMinimumRole(r.actor, "operator")
  /\ r.op = "update" => r.actor = r.current.preparedBy \/ RoleOf[r.actor] = "admin"
  /\ r.op = "transition" => /\ r.target \in PriorityLevel
                            /\ RoleOf[r.actor] \in {"reviewer", "admin"}
                            /\ r.actor # r.current.preparedBy

LoadedRowIsChecked ==
  \A p \in Request : req[p].pc \in {"commit", "audit"} => IsChecked(req[p])

\* The strengthening under which RevisionChain, IndependentReview and, for
\* clients that do not predict versions, FinalIsLast are inductive.
TablesInv ==
  /\ TypeOK /\ RevisionChain /\ DraftAuthors /\ IndependentReview
  /\ LoadedRowIsPast /\ LoadedRowIsChecked
  /\ ~PredictVersions => FinalIsLast

\* What a handler has written and audited is there until its answer leaves.
IsKept(p) ==
  LET r == req[p] IN
  /\ r.op = "create" => r.expected = 0
  /\ r.pc \in {"row", "revisions"} => r.op # "delete"
  /\ r.pc # "commit" /\ r.op \in {"create", "update", "transition"} => HasWritten(p)
  /\ r.pc # "commit" /\ r.op = "delete" => decision[r.code].deleted
  /\ r.pc \in {"row", "revisions", "done"} /\ r.op \in {"transition", "delete"} => IsAudited(p)
  /\ r.pc = "revisions" => Reflects(revisions[r.code], r.current)
  /\ r.pc = "done" /\ r.op # "delete" => Reflects(r.seen, r.current)

WorkIsKept ==
  \A p \in Request :
    req[p].pc \in {"commit", "audit", "row", "revisions", "done"} => IsKept(p)

\* The entry a handler is about to insert tells the truth already.
NextEntryIsTruthful ==
  \A p \in Request : At(p, "audit") /\ req[p].op = "transition" => IsTruthful(EntryOf(p))

\* Finitely many handlers run and finitely many revisions were written.
IsCountable ==
  /\ IsFiniteSet({p \in Request : At(p, "audit")})
  /\ \A c \in Code : IsFiniteSet(revisions[c])

IInv ==
  /\ TablesInv /\ WorkIsKept
  /\ ~PredictVersions => AuditIsTruthful /\ NextEntryIsTruthful
  /\ IsCountable
  /\ ~Faults => AuditIsComplete

-----------------------------------------------------------------------------
(* The workflow implements the ledger: the history is the decision. *)

Ledger == INSTANCE DecisionLedger WITH
            ledger    <- revisions,
            withdrawn <- {c \in Code : decision[c].deleted}

\* Every step of the code is one step of the ledger or invisible in it.
ImplementsLedger == Ledger!Spec
=============================================================================
