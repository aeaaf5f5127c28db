--------------------------- MODULE AggregateRecord ---------------------------
(***************************************************************************)
(* Bridges, inspection rounds and defect findings: the operations of       *)
(* service/bridge_asset.go, inspection_round.go and defect_finding.go on   *)
(* the generic store of repository/base.go and on the audit log.           *)
(*                                                                         *)
(* As in PriorityDecision, a step is one statement of one handler:         *)
(*   idle     the request arrives and the first Get runs with the checks   *)
(*   commit   Store.Create, Store.Update or Store.Delete                   *)
(*   audit    AppendAudit, a statement of its own                          *)
(*   row      the final Get of an update or a transition                   *)
(*   done     the answer is on its way (failed: an error)                  *)
(* Which account acts is only checked, and recorded nowhere but in the     *)
(* audit entry, so it is not part of the state.                            *)
(***************************************************************************)
EXTENDS Answers, RecordData, Sequences, FiniteSets

CONSTANTS Request,          \* request ids; one handler goroutine serves each
          PredictVersions,  \* may a client send a version it has not read?
          Faults            \* may statements fail and the server crash?

ASSUME AggregateAssumption == PredictVersions \in BOOLEAN /\ Faults \in BOOLEAN

VARIABLES row,     \* the three tables, by record
          audit,   \* table audit_logs, in insertion order
          req      \* what the goroutine of each request is doing

vars == <<row, audit, req>>

-----------------------------------------------------------------------------
Op == {"create", "update", "transition", "delete", "get"}

Target == Status \cup {"unknown"}

Busy ==
  [pc       : {"commit", "audit", "row", "done"},
   op       : Op,
   record   : Record,
   expected : 0..(MaxVersion - 1),       \* 0: the operation sends no version
   fields   : Fields \cup {BlankFields},
   target   : Target \cup {"none"},
   current  : Row]                       \* the handler's copy, then the answer

AuditEntry ==
  [action  : {"create", "update", "transition", "delete"},
   record  : Record,
   before  : Status \cup {"none"},
   after   : Status \cup {"deleted"},
   request : Request]

Call(op, c) ==
  [pc |-> "commit", op |-> op, record |-> c, expected |-> 0,
   fields |-> BlankFields, target |-> "none", current |-> NoRow]

Serve(p, r) == req' = [req EXCEPT ![p] = r]

At(p, pc) == req[p].pc = pc

TypeOK ==
  /\ row   \in [Record -> Row]
  /\ audit \in Seq(AuditEntry)
  /\ req   \in [Request -> Quiet \cup Busy]

Init ==
  /\ row   \in SeedTables
  /\ audit = <<>>
  /\ req   = [p \in Request |-> Idle]

-----------------------------------------------------------------------------
(* The handlers up to their first write, with the service's checks in      *)
(* their order on the row the first Get returned.                          *)

UpdateVerdict(r) ==
  IF ~Visible(r.current) THEN "not_found"
  ELSE IF r.fields = BlankFields THEN "invalid"
  ELSE "ok"

\* Fault: any status may be asked for.
TransitionVerdictAnyTarget(r) ==
  IF ~Visible(r.current) THEN "not_found" ELSE "ok"

TransitionVerdict(r) ==
  IF ~Visible(r.current) THEN "not_found"
  ELSE IF ~CanTransition(GraphOf(KindOf[r.record]), r.current.status, r.target)
       THEN "bad_transition"
  ELSE "ok"

\* The versions a client can have been shown, or predicts.
Sendable(c) == {v \in 1..(MaxVersion - 1) : PredictVersions \/ v <= row[c].version}

Begin(p, r, verdict) ==
  /\ At(p, "idle")
  /\ Serve(p, IF verdict = "ok" THEN r ELSE Failed(verdict))
  /\ UNCHANGED <<row, audit>>

\* The route lets this user write (group.POST and group.PUT of the handlers).
Writer(u) == RequireMinimumRole(u, "operator")

Create(p) ==
  \E u \in User, c \in Record, f \in Fields \cup {BlankFields} :
    /\ Writer(u)
    /\ Begin(p, [Call("create", c) EXCEPT !.fields = f],
             IF f = BlankFields THEN "invalid" ELSE "ok")

Update(p) ==
  \E u \in User, c \in Record, f \in Fields \cup {BlankFields} : \E v \in Sendable(c) :
    LET r == [Call("update", c) EXCEPT !.expected = v, !.fields = f, !.current = row[c]]
    IN  Writer(u) /\ Begin(p, r, UpdateVerdict(r))

Transition(p) ==
  \E u \in User, c \in Record, s \in Target : \E v \in Sendable(c) :
    LET r == [Call("transition", c) EXCEPT !.expected = v, !.target = s, !.current = row[c]]
    IN  Writer(u) /\ Begin(p, r, TransitionVerdict(r))

Delete(p) ==
  \E u \in User, c \in Record :
    /\ RequireRoles(u, {"admin"})
    /\ Begin(p, [Call("delete", c) EXCEPT !.current = row[c]],
             IF Visible(row[c]) THEN "ok" ELSE "not_found")

Get(p) ==
  \E c \in Record :
    Begin(p, [Call("get", c) EXCEPT !.pc = "done", !.current = row[c]],
          IF Visible(row[c]) THEN "ok" ELSE "not_found")

-----------------------------------------------------------------------------
(* The write: one statement, a transaction of its own. *)

\* Fault: the version is not advanced.
WrittenSameVersion(r) ==
  CASE r.op = "create" -> NewRow(InitialStatusOf(KindOf[r.record]), r.fields)
    [] r.op = "update" -> [r.current EXCEPT !.fields = r.fields]
    [] OTHER           -> [r.current EXCEPT !.status = r.target]

\* Every column but id, code, created_at and deleted_at is written: an update
\* writes the status it loaded, a transition the fields.
Written(r) ==
  CASE r.op = "create" -> NewRow(InitialStatusOf(KindOf[r.record]), r.fields)
    [] r.op = "update" -> [r.current EXCEPT !.version = r.expected + 1, !.fields = r.fields]
    [] OTHER           -> [r.current EXCEPT !.version = r.expected + 1, !.status = r.target]

\* Fault: the write does not filter deleted rows.
SwappableDeleted(r) == row[r.record].version = r.expected

\* Fault: the optimistic lock is lost.
SwappableAnyVersion(r) == Visible(row[r.record])

\* WHERE id = ? AND version = ? AND deleted_at IS NULL
Swappable(r) == Visible(row[r.record]) /\ row[r.record].version = r.expected

\* The unique index on the code counts deleted rows.
CommitOutcome(r) ==
  CASE r.op = "create" -> IF row[r.record].version = 0 THEN "ok" ELSE "error"
    [] r.op = "delete" -> IF Visible(row[r.record]) THEN "ok" ELSE "not_found"
    [] OTHER           -> IF Swappable(r) THEN "ok" ELSE "conflict"

Apply(r) ==
  row' = [row EXCEPT ![r.record] =
            IF r.op = "delete" THEN [@ EXCEPT !.deleted = TRUE]
            ELSE [Written(r) EXCEPT !.deleted = row[r.record].deleted]]

\* Fault: updates are not audited.
CommitSkipsAudit(p) ==
  /\ At(p, "commit")
  /\ CommitOutcome(req[p]) = "ok"
  /\ Apply(req[p])
  /\ Serve(p, [req[p] EXCEPT !.pc = IF req[p].op = "update" THEN "row" ELSE "audit"])
  /\ UNCHANGED audit

Commit(p) ==
  /\ At(p, "commit")
  /\ CommitOutcome(req[p]) = "ok"
  /\ Apply(req[p])
  /\ Serve(p, [req[p] EXCEPT !.pc = "audit"])
  /\ UNCHANGED audit

Refuse(p) ==
  /\ At(p, "commit")
  /\ CommitOutcome(req[p]) # "ok"
  /\ Serve(p, Failed(CommitOutcome(req[p])))
  /\ UNCHANGED <<row, audit>>

-----------------------------------------------------------------------------
(* The audit entry and the answer. *)

EntryOf(p) ==
  LET r == req[p] IN
  [action  |-> r.op,
   record  |-> r.record,
   before  |-> IF r.op = "create" THEN "none" ELSE r.current.status,
   after   |-> CASE r.op = "create"     -> InitialStatusOf(KindOf[r.record])
                 [] r.op = "update"     -> r.current.status
                 [] r.op = "transition" -> r.target
                 [] OTHER               -> "deleted",
   request |-> p]

\* Create answers the row it inserted, an update and a transition read again.
AfterAudit(r) ==
  CASE r.op = "create" -> [r EXCEPT !.pc = "done", !.current = Written(r)]
    [] r.op = "delete" -> [r EXCEPT !.pc = "done"]
    [] OTHER           -> [r EXCEPT !.pc = "row"]

WriteAudit(p) ==
  /\ At(p, "audit")
  /\ audit' = Append(audit, EntryOf(p))
  /\ Serve(p, AfterAudit(req[p]))
  /\ UNCHANGED row

\* Create and Update drop the error; Transition and Delete report it.
AuditFails(p) ==
  /\ Faults
  /\ At(p, "audit")
  /\ Serve(p, IF req[p].op \in {"create", "update"} THEN AfterAudit(req[p])
              ELSE Failed("error"))
  /\ UNCHANGED <<row, audit>>

\* Fault: the answer is the handler's own copy.
ReadRowCached(p) ==
  /\ At(p, "row")
  /\ Serve(p, [req[p] EXCEPT !.pc = "done"])
  /\ UNCHANGED <<row, audit>>

ReadRow(p) ==
  /\ At(p, "row")
  /\ LET r == req[p] IN
     Serve(p, IF Visible(row[r.record]) THEN [r EXCEPT !.current = row[r.record], !.pc = "done"]
              ELSE Failed("not_found"))
  /\ UNCHANGED <<row, audit>>

StatementFails(p) ==
  /\ Faults
  /\ req[p].pc \in {"idle", "commit", "row"}
  /\ Serve(p, Failed("error"))
  /\ UNCHANGED <<row, audit>>

\* The write is durable, its acknowledgement is lost.
CommitUnreported(p) ==
  /\ Faults
  /\ At(p, "commit")
  /\ CommitOutcome(req[p]) = "ok"
  /\ Apply(req[p])
  /\ Serve(p, Failed("error"))
  /\ UNCHANGED audit

Crash ==
  /\ Faults
  /\ \E p \in Request : ~At(p, "idle")
  /\ req' = [p \in Request |-> Idle]
  /\ UNCHANGED <<row, audit>>

Deliver(p) ==
  /\ req[p].pc \in {"done", "failed"}
  /\ Serve(p, Idle)
  /\ UNCHANGED <<row, audit>>

Arrive(p) == Create(p) \/ Update(p) \/ Transition(p) \/ Delete(p) \/ Get(p)

Step(p) == Commit(p) \/ Refuse(p) \/ WriteAudit(p) \/ ReadRow(p)

Fail(p) == StatementFails(p) \/ CommitUnreported(p) \/ AuditFails(p)

Next == Crash \/ \E p \in Request : Arrive(p) \/ Step(p) \/ Fail(p) \/ Deliver(p)

Spec == Init /\ [][Next]_vars

-----------------------------------------------------------------------------
(* Properties. *)

\* No lost update: a handler whose write would be accepted holds the row as it
\* is in the table, although it read it by an earlier statement and writes
\* every column of it back (service Update and Transition, Store.Update).
NoLostUpdate ==
  \A p \in Request :
    At(p, "commit") /\ req[p].op \in {"update", "transition"} /\ Swappable(req[p]) =>
      req[p].current = row[req[p].record]

\* What an answer "ok" promises: the row it shows is the one the request wrote
\* or a later one, it was not taken back, and a transition or a deletion has
\* been audited (Create, Update, Transition, Delete).
AcknowledgedIsDurable ==
  \A p \in Request :
    LET r == req[p] IN
    At(p, "done") =>
      /\ r.current.version <= row[r.record].version
      /\ r.op \in {"create", "update", "transition"} => r.current.version > r.expected
      /\ r.op # "get" /\ r.current.version = r.expected + 1 =>
           /\ r.op = "transition" => r.current.status = r.target
           /\ r.op \in {"create", "update"} => r.current.fields = r.fields
      /\ r.op = "delete" => row[r.record].deleted
      /\ r.op \in {"transition", "delete"} =>
           \E i \in DOMAIN audit : audit[i].action = r.op /\ audit[i].record = r.record
                                   /\ audit[i].request = p

\* What an audit entry tells of its record.
Tells(e) ==
  CASE e.action = "update"     -> {<<"changed">>}
    [] e.action = "transition" -> {<<"changed">>, <<"left", e.before>>, <<"entered", e.after>>}
    [] OTHER                   -> {}

\* The entries, written or about to be, that tell it of record c.
Telling(c, what) == {i \in DOMAIN audit : audit[i].record = c /\ what \in Tells(audit[i])}

AboutToTell(c, what) ==
  {p \in Request : At(p, "audit") /\ req[p].record = c /\ what \in Tells(EntryOf(p))}

Audited(c, what) == Cardinality(Telling(c, what)) + Cardinality(AboutToTell(c, what))

\* The audit log alone tells a record's version and status, in whatever order
\* its entries were inserted: there is one entry per version, and the
\* transitions form a walk of the graph from a first status to the current
\* one, each status being entered as often as it is left but for the two ends.
AuditRetellsTheRecord ==
  \A c \in Record : row[c].version > 0 =>
    /\ row[c].version = 1 + Audited(c, <<"changed">>)
    /\ \E first \in SeedStatuses(KindOf[c]) \cup {InitialStatusOf(KindOf[c])} :
         /\ c \notin Seeded => first = InitialStatusOf(KindOf[c])
         /\ \A s \in StatusesOf(KindOf[c]) :
              Audited(c, <<"entered", s>>) + (IF s = first THEN 1 ELSE 0)
                = Audited(c, <<"left", s>>) + (IF s = row[c].status THEN 1 ELSE 0)

\* A status only ever changes along the graph of the record's kind, whatever
\* operation writes the row ("callers cannot bypass the service state machine",
\* dto/bridge_asset.go:6).
StatusFollowsGraph ==
  [][\A c \in Record : row[c].version > 0 /\ row'[c].status # row[c].status =>
       CanTransition(GraphOf(KindOf[c]), row[c].status, row'[c].status)]_vars

-----------------------------------------------------------------------------
(* What makes them inductive. *)

StatusInGraph ==
  \A c \in Record : row[c].version > 0 => row[c].status \in StatusesOf(KindOf[c])

\* A loaded row is a past state of its record; no client is ahead of it.
IsPast(r, now) ==
  /\ r.current.version \in 1..now.version
  /\ r.current.version = now.version /\ ~now.deleted => r.current = now
  /\ ~PredictVersions => r.expected <= r.current.version

LoadedRowIsPast ==
  \A p \in Request :
    At(p, "commit") /\ req[p].op \in {"update", "transition"} =>
      IsPast(req[p], row[req[p].record])

\* What the checks established of the loaded row.
IsChecked(r) ==
  /\ r.op # "get"
  /\ r.op # "create" => r.current \in StoredRow /\ ~r.current.deleted
                        /\ r.current.status \in StatusesOf(KindOf[r.record])
  /\ r.op \in {"create", "update"} => r.fields # BlankFields
  /\ r.op = "create" => r.expected = 0
  /\ r.op \in {"update", "transition"} => r.expected > 0
  /\ r.op = "transition" =>
       CanTransition(GraphOf(KindOf[r.record]), r.current.status, r.target)

LoadedRowIsChecked ==
  \A p \in Request : req[p].pc \in {"commit", "audit"} => IsChecked(req[p])

\* The row holds what r has written, or a later version.
Holds(stored, r) ==
  /\ r.expected < stored.version
  /\ stored.version = r.expected + 1 =>
       IF r.op = "transition" THEN stored.status = r.target ELSE stored.fields = r.fields

IsAudited(p) ==
  \E i \in DOMAIN audit :
    audit[i].action = req[p].op /\ audit[i].record = req[p].record /\ audit[i].request = p

\* No handler is ahead of the table.  What it has written is there until
\* somebody writes a later version, its answer shows that, and a transition
\* that reads its row again is audited.
IsKept(p) ==
  LET r == req[p]  now == row[r.record] IN
  /\ r.current.version <= now.version
  /\ r.pc # "commit" /\ r.op \in {"create", "update", "transition"} => Holds(now, r)
  /\ r.pc # "commit" /\ r.op = "delete" => now.deleted
  /\ r.pc = "row" => r.op \in {"update", "transition"}
  /\ r.pc = "done" /\ r.op \in {"create", "update", "transition"} => Holds(r.current, r)
  /\ r.pc = "row" /\ r.op = "transition" => IsAudited(p)
  /\ r.pc = "done" /\ r.op \in {"transition", "delete"} => IsAudited(p)

WriteIsKept ==
  \A p \in Request : req[p].pc \in {"commit", "audit", "row", "done"} => IsKept(p)

\* There are no entries of a record that never was.
AuditedIsStored == \A i \in DOMAIN audit : row[audit[i].record].version > 0

\* However many requests there are, only finitely many write at a time.
IsCountable == IsFiniteSet({p \in Request : At(p, "audit")})

IInv ==
  /\ TypeOK /\ StatusInGraph /\ LoadedRowIsPast /\ LoadedRowIsChecked /\ WriteIsKept
  /\ AuditedIsStored /\ IsCountable

-----------------------------------------------------------------------------
\* Every step of the code is one step of the register or invisible in it.
Register == INSTANCE RecordRegister WITH register <- row

ImplementsRegister == Register!Spec
=============================================================================
