------------------------ MODULE PriorityAnswersProofs ------------------------
(***************************************************************************)
(* More about PriorityDecision.tla: what its answers promise and what its  *)
(* audit log tells, on top of the invariants of the tables.                *)
(***************************************************************************)
EXTENDS PriorityDecisionProofs, FiniteSetTheorems

-----------------------------------------------------------------------------
(* What was written stays. *)

\* Only the audit statement touches the log, and it appends.
LEMMA AuditGrows ==
  ASSUME TypeOK, [Next]_vars
  PROVE  \A i \in DOMAIN audit : i \in DOMAIN audit' /\ audit'[i] = audit[i]
<1>1. ASSUME NEW p \in Request, WriteAudit(p)
      PROVE  \A i \in DOMAIN audit : i \in DOMAIN audit' /\ audit'[i] = audit[i]
  <2>1. audit' = Append(audit, EntryOf(p)) /\ audit \in Seq(AuditEntry)
    BY <1>1 DEF WriteAudit, TypeOK
  <2> QED
    BY <2>1
<1>2. ASSUME NEW p \in Request, Arrive(p)
      PROVE  audit' = audit
  BY <1>2 DEF Arrive, Create, Update, Transition, Delete, Get, Begin
<1>3. ASSUME NEW p \in Request, \/ Commit(p) \/ CommitUnreported(p) \/ Refuse(p)
                                \/ ReadRow(p) \/ ReadRevisions(p) \/ StatementFails(p)
                                \/ AuditFails(p) \/ Deliver(p)
      PROVE  audit' = audit
  BY <1>3 DEF Commit, CommitUnreported, Refuse, ReadRow, ReadRevisions, StatementFails,
              AuditFails, Deliver
<1>4. CASE Crash \/ UNCHANGED vars
  BY <1>4 DEF Crash, vars
<1> QED
  BY <1>1, <1>2, <1>3, <1>4 DEF Next, Step, Fail

LEMMA TablesGrow ==
  ASSUME TablesInv, [Next]_vars
  PROVE  /\ \A c \in Code : /\ revisions[c] \subseteq revisions'[c]
                            /\ decision[c].deleted => decision'[c].deleted
         /\ \A i \in DOMAIN audit : i \in DOMAIN audit' /\ audit'[i] = audit[i]
<1>1. AppendOnlyStep
  BY AppendOnlyHolds
<1>2. \A i \in DOMAIN audit : i \in DOMAIN audit' /\ audit'[i] = audit[i]
  BY AuditGrows DEF TablesInv
<1> QED
  BY <1>1, <1>2 DEF AppendOnlyStep

LEMMA ReflectsLonger ==
  ASSUME NEW S, NEW T, S \subseteq T, NEW row, Reflects(S, row)
  PROVE  Reflects(T, row)
BY DEF Reflects

\* As long as the goroutine of p works on the same call.
LEMMA WrittenStays ==
  ASSUME TablesInv, [Next]_vars, NEW p \in Request, req[p].code \in Code, HasWritten(p),
         req'[p].op = req[p].op, req'[p].code = req[p].code, req'[p].actor = req[p].actor,
         req'[p].expected = req[p].expected, req'[p].evidence = req[p].evidence,
         req'[p].target = req[p].target
  PROVE  HasWritten(p)'
<1>1. revisions[req[p].code] \subseteq revisions'[req[p].code]
  BY TablesGrow
<1> QED
  BY <1>1 DEF HasWritten

LEMMA AuditedStays ==
  ASSUME TablesInv, [Next]_vars, NEW p \in Request, IsAudited(p),
         req'[p].op = req[p].op, req'[p].code = req[p].code, req'[p].actor = req[p].actor
  PROVE  IsAudited(p)'
<1>1. \A i \in DOMAIN audit : i \in DOMAIN audit' /\ audit'[i] = audit[i]
  BY TablesGrow
<1>2. PICK i \in DOMAIN audit :
        audit[i].action = req[p].op /\ audit[i].code = req[p].code
        /\ audit[i].request = p /\ audit[i].actor = req[p].actor
  BY DEF IsAudited
<1>3. i \in DOMAIN audit' /\ audit'[i] = audit[i]
  BY <1>1
<1> QED
  BY <1>2, <1>3 DEF IsAudited

\* Other requests take nothing away from q.
LEMMA OthersKeep ==
  ASSUME TablesInv, [Next]_vars, NEW q \in Request, req[q] \in Busy, IsKept(q),
         req'[q] = req[q]
  PROVE  IsKept(q)'
<1> DEFINE c == req[q].code
<1>1. c \in Code
  BY DEF Busy
<1>2. /\ revisions[c] \subseteq revisions'[c]
      /\ decision[c].deleted => decision'[c].deleted
  BY <1>1, TablesGrow
<1>3. HasWritten(q) => HasWritten(q)'
  BY <1>1, WrittenStays
<1>4. IsAudited(q) => IsAudited(q)'
  BY AuditedStays
<1>5. Reflects(revisions[c], req[q].current) => Reflects(revisions'[c], req[q].current)
  BY <1>2, ReflectsLonger
<1> QED
  BY <1>2, <1>3, <1>4, <1>5 DEF IsKept

-----------------------------------------------------------------------------
(* Who moves. *)

\* The goroutine of a request only moves by a step of its own, or is gone.
LEMMA MovesItself ==
  ASSUME TypeOK, NEW q \in Request, [Next]_vars, req'[q] # req[q]
  PROVE  req'[q] = Idle \/ Arrive(q) \/ Step(q) \/ Fail(q)
<1>1. CASE Crash
  BY <1>1 DEF Crash
<1>2. CASE \E p \in Request : Arrive(p) \/ Step(p) \/ Fail(p) \/ Deliver(p)
  <2>1. PICK p \in Request : Arrive(p) \/ Step(p) \/ Fail(p) \/ Deliver(p)
    BY <1>2
  <2>2. p = q
    BY <2>1, ServeOthers, ArriveLoaded
    DEF Step, Fail, Commit, CommitUnreported, Refuse, WriteAudit, AuditFails, ReadRow,
        ReadRevisions, StatementFails, Deliver
  <2>3. CASE Deliver(q)
    BY <2>3, ServeOthers DEF Deliver
  <2> QED
    BY <2>1, <2>2, <2>3
<1> QED
  BY <1>1, <1>2 DEF Next, vars

LEMMA RefusedHasFailed ==
  ASSUME TypeOK, NEW q \in Request, Refuse(q) \/ StatementFails(q) \/ CommitUnreported(q)
  PROVE  req'[q].pc = "failed"
<1>1. PICK err : req'[q] = Failed(err)
  BY ServeOthers DEF Refuse, StatementFails, CommitUnreported
<1> QED
  BY <1>1 DEF Failed

-----------------------------------------------------------------------------
(* The goroutine that moves. *)

\* A row and its revisions tell the same story.
LEMMA RowReflected ==
  ASSUME TablesInv, NEW c \in Code, Visible(decision[c])
  PROVE  Reflects(revisions[c], decision[c])
<1>1. decision[c] \in StoredRow
  BY VisibleIsStored DEF TablesInv
<1>2. {r.version : r \in revisions[c]} = 1..decision[c].version
  BY DEF TablesInv, RevisionChain
<1>3. decision[c].version \in {r.version : r \in revisions[c]}
  BY <1>1, <1>2 DEF StoredRow
<1>4. PICK r \in revisions[c] : r.version = decision[c].version
  BY <1>3
<1> QED
  BY <1>2, <1>4 DEF Reflects, TablesInv, RevisionChain

\* What a request that arrives may rely on.
LEMMA ArriveKept ==
  ASSUME TablesInv, NEW p \in Request, Arrive(p)
  PROVE  /\ req'[p].pc \notin {"audit", "row", "done"}
         /\ req'[p].pc \in {"commit", "revisions"} => IsKept(p)'
<1>1. CASE Create(p)
  <2>1. PICK c \in Code, u \in User, e \in Evidence \cup {Blank} :
          Begin(p, [Call("create", c, u) EXCEPT !.evidence = e],
                IF e = Blank THEN "invalid" ELSE "ok")
    BY <1>1 DEF Create
  <2> DEFINE r == [Call("create", c, u) EXCEPT !.evidence = e]
  <2>2. r.op = "create" /\ r.pc = "commit" /\ r.expected = 0
    BY DEF Call
  <2>3. req'[p] = r \/ req'[p] = Failed("invalid")
    BY <2>1, ServeOthers DEF Begin, TablesInv
  <2> HIDE DEF r
  <2> QED
    BY <2>2, <2>3 DEF Failed, IsKept
<1>2. CASE Update(p)
  <2>1. PICK c \in Code, u \in User, e \in Evidence \cup {Blank} : \E v \in Sendable(c) :
          LET r == [Call("update", c, u) EXCEPT !.expected = v, !.evidence = e, !.current = decision[c]]
          IN  Begin(p, r, UpdateVerdict(r, decision[c]))
    BY <1>2 DEF Update
  <2>2. PICK v \in Sendable(c) :
          LET r == [Call("update", c, u) EXCEPT !.expected = v, !.evidence = e, !.current = decision[c]]
          IN  Begin(p, r, UpdateVerdict(r, decision[c]))
    BY <2>1
  <2> DEFINE r == [Call("update", c, u) EXCEPT !.expected = v, !.evidence = e, !.current = decision[c]]
  <2>3. r.op = "update" /\ r.pc = "commit"
    BY DEF Call
  <2>4. req'[p] = r \/ req'[p] = Failed(UpdateVerdict(r, decision[c]))
    BY <2>2, ServeOthers DEF Begin, TablesInv
  <2> HIDE DEF r
  <2> QED
    BY <2>3, <2>4 DEF Failed, IsKept
<1>3. CASE Transition(p)
  <2>1. PICK c \in Code, u \in User, t \in Target : \E v \in Sendable(c) :
          LET r == [Call("transition", c, u) EXCEPT !.expected = v, !.target = t, !.current = decision[c]]
          IN  Begin(p, r, TransitionVerdict(r, decision[c]))
    BY <1>3 DEF Transition
  <2>2. PICK v \in Sendable(c) :
          LET r == [Call("transition", c, u) EXCEPT !.expected = v, !.target = t, !.current = decision[c]]
          IN  Begin(p, r, TransitionVerdict(r, decision[c]))
    BY <2>1
  <2> DEFINE r == [Call("transition", c, u) EXCEPT !.expected = v, !.target = t, !.current = decision[c]]
  <2>3. r.op = "transition" /\ r.pc = "commit"
    BY DEF Call
  <2>4. req'[p] = r \/ req'[p] = Failed(TransitionVerdict(r, decision[c]))
    BY <2>2, ServeOthers DEF Begin, TablesInv
  <2> HIDE DEF r
  <2> QED
    BY <2>3, <2>4 DEF Failed, IsKept
<1>4. CASE Delete(p)
  <2>1. PICK c \in Code, u \in User :
          Begin(p, [Call("delete", c, u) EXCEPT !.current = decision[c]],
                DeleteVerdict(decision[c]))
    BY <1>4 DEF Delete
  <2> DEFINE r == [Call("delete", c, u) EXCEPT !.current = decision[c]]
  <2>2. r.op = "delete" /\ r.pc = "commit"
    BY DEF Call
  <2>3. req'[p] = r \/ req'[p] = Failed(DeleteVerdict(decision[c]))
    BY <2>1, ServeOthers DEF Begin, TablesInv
  <2> HIDE DEF r
  <2> QED
    BY <2>2, <2>3 DEF Failed, IsKept
<1>5. CASE Get(p)
  <2>1. PICK c \in Code :
          Begin(p, [Call("get", c, Nobody) EXCEPT !.pc = "revisions", !.current = decision[c]],
                IF Visible(decision[c]) THEN "ok" ELSE "not_found")
    BY <1>5 DEF Get
  <2> DEFINE r == [Call("get", c, Nobody) EXCEPT !.pc = "revisions", !.current = decision[c]]
  <2>2. r.op = "get" /\ r.pc = "revisions" /\ r.code = c /\ r.current = decision[c]
    BY DEF Call
  <2>3. req'[p] = IF Visible(decision[c]) THEN r ELSE Failed("not_found")
    BY <2>1, ServeOthers DEF Begin, TablesInv
  <2> HIDE DEF r
  <2>4. revisions' = revisions
    BY <2>1 DEF Begin
  <2>5. CASE Visible(decision[c])
    <3>1. Reflects(revisions[c], decision[c])
      BY <2>5, RowReflected
    <3> QED
      BY <2>2, <2>3, <2>4, <2>5, <3>1 DEF IsKept
  <2>6. CASE ~Visible(decision[c])
    BY <2>3, <2>6 DEF Failed
  <2> QED
    BY <2>5, <2>6
<1> QED
  BY <1>1, <1>2, <1>3, <1>4, <1>5 DEF Arrive

\* A handler that learns of its commit finds its change in the tables.
LEMMA CommitKept ==
  ASSUME TablesInv, NEW p \in Request, Commit(p), IsKept(p)
  PROVE  req'[p].pc = "audit" /\ IsKept(p)'
<1> DEFINE r   == req[p]
           c   == req[p].code
           new == RevisionOf(Written(r), r.actor, p)
<1>1. At(p, "commit") /\ CommitOutcome(r) = "ok" /\ Apply(p)
  BY DEF Commit
<1>2. r \in Busy /\ c \in Code /\ IsChecked(r)
  BY <1>1, BusyType DEF TablesInv, At, Busy, LoadedRowIsChecked
<1>3. req'[p] = [r EXCEPT !.pc = "audit"]
  BY ServeOthers DEF Commit, TablesInv
<1>4. /\ req'[p].pc = "audit" /\ req'[p].op = r.op /\ req'[p].code = c
      /\ req'[p].actor = r.actor /\ req'[p].expected = r.expected
      /\ req'[p].evidence = r.evidence /\ req'[p].target = r.target
  BY <1>2, <1>3 DEF Busy
<1>5. r.op = "create" => r.expected = 0
  BY DEF IsKept
<1>6. r.op \in {"create", "update", "transition", "delete"}
  BY <1>2 DEF IsChecked, Busy, Op
<1>7. CASE r.op = "delete"
  <2>1. /\ decision[c] \in StoredRow
        /\ decision' = [decision EXCEPT ![c] = [decision[c] EXCEPT !.deleted = TRUE]]
    BY <1>1, <1>7, ApplyDeletes DEF TablesInv
  <2>2. decision'[c].deleted
    BY <1>2, <2>1 DEF TablesInv, TypeOK, StoredRow
  <2> QED
    BY <1>4, <1>7, <2>2 DEF IsKept
<1>8. CASE r.op \in {"create", "update", "transition"}
  <2>1. new \in revisions'[c]
    <3>1. revisions' = [revisions EXCEPT ![c] = @ \cup {new}]
      BY <1>1, <1>8, ApplyWrites DEF TablesInv
    <3> QED
      BY <1>2, <3>1 DEF TablesInv, TypeOK
  <2>2. new.actor = r.actor /\ new.request = p /\ new.version = Written(r).version
        /\ new.status = Written(r).status /\ new.evidence = Written(r).evidence
    BY DEF RevisionOf
  <2>3. /\ Written(r).version = r.expected + 1
        /\ r.op = "transition" => Written(r).status = r.target
        /\ r.op # "transition" => Written(r).evidence = r.evidence
    <3>1. CASE r.op = "create"
      BY <1>5, <3>1 DEF Written, NewRow
    <3>2. CASE r.op = "update"
      BY <1>2, <3>2 DEF Written, IsChecked, StoredRow
    <3>3. CASE r.op = "transition"
      BY <1>2, <3>3 DEF Written, IsChecked, StoredRow
    <3> QED
      BY <1>8, <3>1, <3>2, <3>3
  <2> HIDE DEF new
  <2>4. HasWritten(p)'
    BY <1>4, <2>1, <2>2, <2>3 DEF HasWritten
  <2> QED
    BY <1>4, <1>5, <1>8, <2>4 DEF IsKept
<1> QED
  BY <1>4, <1>6, <1>7, <1>8

\* The entry is in the log before the handler goes on.
LEMMA WriteAuditKept ==
  ASSUME TablesInv, NEW p \in Request, WriteAudit(p), IsKept(p)
  PROVE  req'[p].pc \in {"row", "done"} /\ IsKept(p)'
<1> DEFINE r == req[p]
<1>1. r \in Busy /\ r.code \in Code /\ r.pc = "audit"
  BY BusyType DEF WriteAudit, TablesInv, At, Busy
<1>2. req'[p] = AfterAudit(r)
  BY ServeOthers DEF WriteAudit, TablesInv
<1>3. /\ req'[p].op = r.op /\ req'[p].code = r.code /\ req'[p].actor = r.actor
      /\ req'[p].expected = r.expected /\ req'[p].evidence = r.evidence
      /\ req'[p].target = r.target
      /\ r.op = "delete" => req'[p].pc = "done"
      /\ r.op # "delete" => req'[p].pc = "row"
  BY <1>1, <1>2 DEF AfterAudit, Busy
<1>4. IsAudited(p)'
  <2>1. audit' = Append(audit, EntryOf(p)) /\ audit \in Seq(AuditEntry)
    BY DEF WriteAudit, TablesInv, TypeOK
  <2>2. Len(audit) + 1 \in DOMAIN audit' /\ audit'[Len(audit) + 1] = EntryOf(p)
    BY <2>1
  <2>3. /\ EntryOf(p).action = r.op /\ EntryOf(p).code = r.code
        /\ EntryOf(p).request = p /\ EntryOf(p).actor = r.actor
    BY DEF EntryOf
  <2> QED
    BY <1>3, <2>2, <2>3 DEF IsAudited
<1>5. [Next]_vars
  BY DEF Next, Step
<1>6. HasWritten(p) => HasWritten(p)'
  BY <1>1, <1>3, <1>5, WrittenStays
<1>7. decision[r.code].deleted => decision'[r.code].deleted
  BY DEF WriteAudit
<1> QED
  BY <1>1, <1>3, <1>4, <1>6, <1>7 DEF IsKept

\* Only operations that go on without their entry drop the error.
LEMMA AuditFailsKept ==
  ASSUME TablesInv, NEW p \in Request, AuditFails(p), IsKept(p)
  PROVE  /\ req'[p].pc \in {"row", "failed"}
         /\ req'[p].pc = "row" => IsKept(p)'
<1> DEFINE r == req[p]
<1>1. r \in Busy /\ r.code \in Code /\ r.pc = "audit"
  BY BusyType DEF AuditFails, TablesInv, At, Busy
<1>2. CASE r.op \in {"create", "update"}
  <2>1. req'[p] = [r EXCEPT !.pc = "row"]
    BY <1>2, ServeOthers DEF AuditFails, TablesInv
  <2>2. /\ req'[p].op = r.op /\ req'[p].code = r.code /\ req'[p].actor = r.actor
        /\ req'[p].expected = r.expected /\ req'[p].evidence = r.evidence
        /\ req'[p].target = r.target /\ req'[p].pc = "row"
    BY <1>1, <2>1 DEF Busy
  <2>3. [Next]_vars
    BY DEF Next, Fail
  <2>4. HasWritten(p) => HasWritten(p)'
    BY <1>1, <2>2, <2>3, WrittenStays
  <2> QED
    BY <1>1, <1>2, <2>2, <2>4 DEF IsKept
<1>3. CASE r.op \notin {"create", "update"}
  <2>1. req'[p] = Failed("error")
    BY <1>3, ServeOthers DEF AuditFails, TablesInv
  <2> QED
    BY <2>1 DEF Failed
<1> QED
  BY <1>2, <1>3

\* The row the answer shows is read while its history reaches it.
LEMMA ReadRowKept ==
  ASSUME TablesInv, NEW p \in Request, ReadRow(p), IsKept(p)
  PROVE  /\ req'[p].pc \in {"revisions", "failed"}
         /\ req'[p].pc = "revisions" => IsKept(p)'
<1> DEFINE r == req[p]
<1>1. r \in Busy /\ r.code \in Code /\ r.pc = "row"
  BY BusyType DEF ReadRow, TablesInv, At, Busy
<1>2. CASE Visible(decision[r.code])
  <2>1. req'[p] = [r EXCEPT !.current = decision[r.code], !.pc = "revisions"]
    BY <1>2, ServeOthers DEF ReadRow, TablesInv
  <2>2. /\ req'[p].op = r.op /\ req'[p].code = r.code /\ req'[p].actor = r.actor
        /\ req'[p].expected = r.expected /\ req'[p].evidence = r.evidence
        /\ req'[p].target = r.target /\ req'[p].pc = "revisions"
        /\ req'[p].current = decision[r.code]
    BY <1>1, <2>1 DEF Busy
  <2>3. [Next]_vars
    BY DEF Next, Step
  <2>4. HasWritten(p) => HasWritten(p)'
    BY <1>1, <2>2, <2>3, WrittenStays
  <2>5. IsAudited(p) => IsAudited(p)'
    BY <2>2, <2>3, AuditedStays
  <2>6. Reflects(revisions'[r.code], decision[r.code])
    BY <1>1, <1>2, RowReflected DEF ReadRow
  <2> QED
    BY <1>1, <2>2, <2>4, <2>5, <2>6 DEF IsKept
<1>3. CASE ~Visible(decision[r.code])
  <2>1. req'[p] = Failed("not_found")
    BY <1>3, ServeOthers DEF ReadRow, TablesInv
  <2> QED
    BY <2>1 DEF Failed
<1> QED
  BY <1>2, <1>3

LEMMA ReadRevisionsKept ==
  ASSUME TablesInv, NEW p \in Request, ReadRevisions(p), IsKept(p)
  PROVE  req'[p].pc = "done" /\ IsKept(p)'
<1> DEFINE r == req[p]
<1>1. r \in Busy /\ r.code \in Code /\ r.pc = "revisions"
  BY BusyType DEF ReadRevisions, TablesInv, At, Busy
<1>2. req'[p] = [r EXCEPT !.pc = "done", !.seen = revisions[r.code]]
  BY ServeOthers DEF ReadRevisions, TablesInv
<1>3. /\ req'[p].op = r.op /\ req'[p].code = r.code /\ req'[p].actor = r.actor
      /\ req'[p].expected = r.expected /\ req'[p].evidence = r.evidence
      /\ req'[p].target = r.target /\ req'[p].pc = "done"
      /\ req'[p].current = r.current /\ req'[p].seen = revisions[r.code]
  BY <1>1, <1>2 DEF Busy
<1>4. [Next]_vars
  BY DEF Next, Step
<1>5. HasWritten(p) => HasWritten(p)'
  BY <1>1, <1>3, <1>4, WrittenStays
<1>6. IsAudited(p) => IsAudited(p)'
  BY <1>3, <1>4, AuditedStays
<1> QED
  BY <1>1, <1>3, <1>5, <1>6 DEF IsKept

LEMMA WorkKeptStep ==
  ASSUME TablesInv, WorkIsKept, [Next]_vars
  PROVE  WorkIsKept'
<1> DEFINE Working(pc) == pc \in {"commit", "audit", "row", "revisions", "done"}
<1>1. SUFFICES ASSUME NEW q \in Request, Working(req'[q].pc)
               PROVE  IsKept(q)'
  BY DEF WorkIsKept
<1>2. CASE req'[q] = req[q]
  <2>1. Working(req[q].pc)
    BY <1>1, <1>2
  <2>2. IsKept(q) /\ req[q] \in Busy
    BY <2>1, BusyType DEF WorkIsKept, TablesInv
  <2> QED
    BY <1>2, <2>2, OthersKeep
<1>3. CASE req'[q] # req[q]
  <2>1. req'[q] # Idle
    BY <1>1 DEF Idle
  <2>2. Arrive(q) \/ Step(q) \/ Fail(q)
    BY <1>3, <2>1, MovesItself DEF TablesInv
  <2>3. CASE Arrive(q)
    BY <1>1, <2>3, ArriveKept
  <2>4. CASE Commit(q)
    BY <2>4, CommitKept DEF Commit, At, WorkIsKept
  <2>5. CASE WriteAudit(q)
    BY <2>5, WriteAuditKept DEF WriteAudit, At, WorkIsKept
  <2>6. CASE AuditFails(q)
    BY <1>1, <2>6, AuditFailsKept DEF AuditFails, At, WorkIsKept
  <2>7. CASE ReadRow(q)
    BY <1>1, <2>7, ReadRowKept DEF ReadRow, At, WorkIsKept
  <2>8. CASE ReadRevisions(q)
    BY <2>8, ReadRevisionsKept DEF ReadRevisions, At, WorkIsKept
  <2>9. CASE Refuse(q) \/ StatementFails(q) \/ CommitUnreported(q)
    BY <1>1, <2>9, RefusedHasFailed DEF TablesInv
  <2> QED
    BY <2>2, <2>3, <2>4, <2>5, <2>6, <2>7, <2>8, <2>9 DEF Step, Fail
<1> QED
  BY <1>2, <1>3

-----------------------------------------------------------------------------
(* The audit log tells the truth. *)

LEMMA TruthStays ==
  ASSUME TablesInv, [Next]_vars, NEW e, e.code \in Code, IsTruthful(e)
  PROVE  IsTruthful(e)'
<1>1. revisions[e.code] \subseteq revisions'[e.code]
  BY TablesGrow
<1> QED
  BY <1>1 DEF IsTruthful

\* A transition that commits leaves a final revision after the draft it read:
\* nobody has written in between.
LEMMA CommitTruthful ==
  ASSUME TablesInv, ~PredictVersions, NEW p \in Request, Commit(p), req[p].op = "transition"
  PROVE  IsTruthful(EntryOf(p))'
<1> DEFINE r   == req[p]
           c   == req[p].code
           new == RevisionOf(Written(r), r.actor, p)
<1>1. At(p, "commit") /\ CommitOutcome(r) = "ok" /\ Apply(p)
  BY DEF Commit
<1>2. r \in Busy /\ c \in Code /\ IsChecked(r) /\ r.current \in StoredRow
      /\ r.current.status = "draft"
  BY <1>1, BusyType DEF TablesInv, At, Busy, LoadedRowIsChecked, IsChecked
<1>3. req'[p] = [r EXCEPT !.pc = "audit"]
  BY ServeOthers DEF Commit, TablesInv
<1>4. /\ req'[p].op = "transition" /\ req'[p].code = c /\ req'[p].actor = r.actor
      /\ req'[p].target = r.target /\ req'[p].current = r.current
  BY <1>2, <1>3 DEF Busy
<1>5. /\ decision[c].status = "draft" /\ decision[c].version \in Nat
      /\ Visible(decision[c])
  BY <1>1, <1>2, SwapFindsDraft, SwapGuard, VersionType DEF TablesInv
<1>6. /\ revisions' = [revisions EXCEPT ![c] = @ \cup {new}]
      /\ new.version = decision[c].version + 1
  BY <1>1, ApplyWrites DEF TablesInv
<1>7. new.actor = r.actor /\ new.request = p /\ new.status = Written(r).status
  BY DEF RevisionOf
<1>8. Written(r).status = r.target
  BY <1>2 DEF Written, StoredRow
<1> HIDE DEF new
<1>9. revisions'[c] = revisions[c] \cup {new}
  BY <1>2, <1>6 DEF TablesInv, TypeOK
<1>10. PICK s \in revisions[c] : s.version = decision[c].version /\ s.status = "draft"
  BY <1>2, <1>5, RowReflected DEF Reflects
<1>11. new.version - 1 = s.version
  BY <1>5, <1>6, <1>10
<1> DEFINE e == EntryOf(p)'
<1>12. /\ e.code = c /\ e.actor = r.actor /\ e.request = p
       /\ e.after = r.target /\ e.before = "draft"
  BY <1>2, <1>4 DEF EntryOf
<1> HIDE DEF e
<1>13. \E x, y \in revisions'[e.code] :
         /\ x.actor = e.actor /\ x.request = e.request
         /\ x.status = e.after
         /\ y.version = x.version - 1 /\ y.status = e.before
  BY <1>7, <1>8, <1>9, <1>10, <1>11, <1>12
<1> QED
  BY <1>13 DEF IsTruthful, e

\* Only a commit leads to an audit statement.
LEMMA OnlyCommitIsAudited ==
  ASSUME TablesInv, WorkIsKept, NEW q \in Request, [Next]_vars,
         req'[q] # req[q], req'[q].pc = "audit"
  PROVE  Commit(q)
<1>1. Arrive(q) \/ Step(q) \/ Fail(q)
  BY MovesItself DEF Idle, TablesInv
<1>2. ASSUME Arrive(q) PROVE FALSE
  BY <1>2, ArriveKept
<1>3. ASSUME WriteAudit(q) PROVE FALSE
  BY <1>3, WriteAuditKept DEF WriteAudit, At, WorkIsKept
<1>4. ASSUME AuditFails(q) PROVE FALSE
  BY <1>4, AuditFailsKept DEF AuditFails, At, WorkIsKept
<1>5. ASSUME ReadRow(q) PROVE FALSE
  BY <1>5, ReadRowKept DEF ReadRow, At, WorkIsKept
<1>6. ASSUME ReadRevisions(q) PROVE FALSE
  BY <1>6, ReadRevisionsKept DEF ReadRevisions, At, WorkIsKept
<1>7. ASSUME Refuse(q) \/ StatementFails(q) \/ CommitUnreported(q) PROVE FALSE
  BY <1>7, RefusedHasFailed DEF TablesInv
<1> QED
  BY <1>1, <1>2, <1>3, <1>4, <1>5, <1>6, <1>7 DEF Step, Fail

LEMMA NextEntryStep ==
  ASSUME TablesInv, WorkIsKept, ~PredictVersions, NextEntryIsTruthful, [Next]_vars
  PROVE  NextEntryIsTruthful'
<1>1. SUFFICES ASSUME NEW q \in Request, req'[q].pc = "audit", req'[q].op = "transition"
               PROVE  IsTruthful(EntryOf(q))'
  BY DEF NextEntryIsTruthful, At
<1>2. CASE req'[q] = req[q]
  <2>1. IsTruthful(EntryOf(q)) /\ req[q] \in Busy
    BY <1>1, <1>2, BusyType DEF NextEntryIsTruthful, At, TablesInv
  <2>2. EntryOf(q).code \in Code
    BY <2>1 DEF EntryOf, Busy
  <2>3. EntryOf(q)' = EntryOf(q)
    BY <1>2 DEF EntryOf
  <2>4. revisions[EntryOf(q).code] \subseteq revisions'[EntryOf(q).code]
    BY <2>2, TablesGrow
  <2> QED
    BY <2>1, <2>3, <2>4 DEF IsTruthful
<1>3. CASE req'[q] # req[q]
  <2>1. Commit(q)
    BY <1>1, <1>3, OnlyCommitIsAudited
  <2>2. req[q].op = "transition"
    BY <1>1, <2>1, ServeOthers, BusyType DEF Commit, TablesInv, At, Busy
  <2> QED
    BY <2>1, <2>2, CommitTruthful
<1> QED
  BY <1>2, <1>3

\* Only the audit statement makes the log longer.
LEMMA OnlyWriteAudit ==
  ASSUME [Next]_vars, NEW i \in DOMAIN audit', i \notin DOMAIN audit
  PROVE  \E p \in Request : WriteAudit(p)
<1>1. ASSUME NEW p \in Request, Arrive(p)
      PROVE  audit' = audit
  BY <1>1 DEF Arrive, Create, Update, Transition, Delete, Get, Begin
<1>2. ASSUME NEW p \in Request, \/ Commit(p) \/ CommitUnreported(p) \/ Refuse(p)
                                \/ ReadRow(p) \/ ReadRevisions(p) \/ StatementFails(p)
                                \/ AuditFails(p) \/ Deliver(p)
      PROVE  audit' = audit
  BY <1>2 DEF Commit, CommitUnreported, Refuse, ReadRow, ReadRevisions, StatementFails,
              AuditFails, Deliver
<1>3. CASE Crash \/ UNCHANGED vars
  BY <1>3 DEF Crash, vars
<1> QED
  BY <1>1, <1>2, <1>3 DEF Next, Step, Fail

LEMMA AuditTruthfulStep ==
  ASSUME TablesInv, AuditIsTruthful, NextEntryIsTruthful, [Next]_vars
  PROVE  AuditIsTruthful'
<1>1. SUFFICES ASSUME NEW i \in DOMAIN audit', audit'[i].action = "transition"
               PROVE  \E r, s \in revisions'[audit'[i].code] :
                        /\ r.actor = audit'[i].actor /\ r.request = audit'[i].request
                        /\ r.status = audit'[i].after
                        /\ s.version = r.version - 1 /\ s.status = audit'[i].before
  BY DEF AuditIsTruthful, IsTruthful
<1>2. CASE i \in DOMAIN audit
  <2>1. audit'[i] = audit[i] /\ audit[i] \in AuditEntry
    BY <1>2, TablesGrow DEF TablesInv, TypeOK
  <2>2. IsTruthful(audit[i])
    BY <1>1, <1>2, <2>1 DEF AuditIsTruthful
  <2>3. revisions[audit[i].code] \subseteq revisions'[audit[i].code]
    BY <2>1, TablesGrow DEF AuditEntry
  <2> QED
    BY <2>1, <2>2, <2>3 DEF IsTruthful
<1>3. CASE i \notin DOMAIN audit
  <2>1. PICK p \in Request : WriteAudit(p)
    BY <1>1, <1>3, OnlyWriteAudit
  <2>2. audit' = Append(audit, EntryOf(p)) /\ audit \in Seq(AuditEntry)
    BY <2>1 DEF WriteAudit, TablesInv, TypeOK
  <2>3. audit'[i] = EntryOf(p)
    BY <1>1, <1>3, <2>2
  <2>4. At(p, "audit") /\ req[p].op = "transition"
    BY <1>1, <2>1, <2>3 DEF WriteAudit, EntryOf
  <2>5. IsTruthful(EntryOf(p)) /\ revisions' = revisions
    BY <2>1, <2>4 DEF NextEntryIsTruthful, WriteAudit
  <2> QED
    BY <2>3, <2>5 DEF IsTruthful
<1> QED
  BY <1>2, <1>3

-----------------------------------------------------------------------------
(* Every change is audited once.  Without faults a request that has        *)
(* committed stands at its audit statement until the entry is written, so  *)
(* the entries and those requests are as many as the changes.              *)

\* An audit statement moves one request of its decision into the log.
LEMMA CountWriteAudit ==
  ASSUME TypeOK, IsCountable, AuditIsComplete, NEW p \in Request, WriteAudit(p)
  PROVE  AuditIsComplete'
<1> DEFINE k == req[p].code
           n == Len(audit) + 1
<1>1. k \in Code /\ req[p] \in Busy /\ At(p, "audit")
  BY BusyType DEF WriteAudit, At, Busy
<1>2. /\ audit' = Append(audit, EntryOf(p)) /\ audit \in Seq(AuditEntry)
      /\ EntryOf(p).code = k
  BY DEF WriteAudit, TypeOK, EntryOf
<1>3. /\ ~(req'[p].pc = "audit")
      /\ \A q \in Request : q # p => req'[q] = req[q]
  BY <1>1, ServeOthers DEF WriteAudit, AfterAudit, Busy
<1>4. SUFFICES ASSUME NEW c \in Code
               PROVE  Cardinality(Entries(c)') + Cardinality(Unaudited(c)')
                        = Cardinality(Entries(c)) + Cardinality(Unaudited(c))
  BY DEF WriteAudit, AuditIsComplete, Requested
<1>5. IsFiniteSet(Entries(c)) /\ IsFiniteSet(Unaudited(c))
  <2>1. DOMAIN audit = 1..Len(audit) /\ Len(audit) \in Nat
    BY <1>2
  <2>2. IsFiniteSet(DOMAIN audit)
    BY <2>1, FS_Interval
  <2>3. Entries(c) \subseteq DOMAIN audit /\ Unaudited(c) \subseteq {q \in Request : At(q, "audit")}
    BY DEF Entries, Unaudited
  <2> QED
    BY <2>2, <2>3, FS_Subset DEF IsCountable
<1>6. CASE c = k
  <2>1. Entries(c)' = Entries(c) \cup {n} /\ n \notin Entries(c)
    <3>1. /\ DOMAIN audit' = DOMAIN audit \cup {n} /\ n \notin DOMAIN audit
          /\ audit'[n] = EntryOf(p)
          /\ \A i \in DOMAIN audit : audit'[i] = audit[i]
      BY <1>2
    <3> QED
      BY <1>2, <1>6, <3>1 DEF Entries
  <2>2. Unaudited(c)' = Unaudited(c) \ {p} /\ p \in Unaudited(c)
    BY <1>1, <1>3, <1>6 DEF Unaudited, At
  <2>3. Cardinality(Entries(c)') = Cardinality(Entries(c)) + 1
    BY <1>5, <2>1, FS_AddElement
  <2>4. Cardinality(Unaudited(c)') = Cardinality(Unaudited(c)) - 1
    BY <1>5, <2>2, FS_RemoveElement
  <2>5. Cardinality(Entries(c)) \in Nat /\ Cardinality(Unaudited(c)) \in Nat
    BY <1>5, FS_CardinalityType
  <2> QED
    BY <2>3, <2>4, <2>5
<1>7. CASE c # k
  <2>1. Entries(c)' = Entries(c)
    <3>1. /\ DOMAIN audit' = DOMAIN audit \cup {n} /\ n \notin DOMAIN audit
          /\ audit'[n] = EntryOf(p)
          /\ \A i \in DOMAIN audit : audit'[i] = audit[i]
      BY <1>2
    <3> QED
      BY <1>2, <1>7, <3>1 DEF Entries
  <2>2. Unaudited(c)' = Unaudited(c)
    BY <1>1, <1>3, <1>7 DEF Unaudited, At
  <2> QED
    BY <2>1, <2>2
<1> QED
  BY <1>6, <1>7

\* A commit makes one change and leaves one request at its audit statement.
LEMMA CountCommit ==
  ASSUME TablesInv, IsCountable, AuditIsComplete, NEW p \in Request, Commit(p)
  PROVE  AuditIsComplete'
<1>0. /\ At(p, "commit") /\ CommitOutcome(req[p]) = "ok" /\ Apply(p)
      /\ req[p].code \in Code /\ req[p] \in Busy
  BY BusyType DEF Commit, TablesInv, At, Busy
<1> PICK k \in Code : k = req[p].code
  BY <1>0
<1>1. /\ At(p, "commit") /\ CommitOutcome(req[p]) = "ok" /\ Apply(p)
      /\ k \in Code /\ req[p].code = k /\ req[p] \in Busy
  BY <1>0
<1>2. /\ req'[p].pc = "audit" /\ req'[p].code = k
      /\ \A q \in Request : q # p => req'[q] = req[q]
  <2>1. req'[p] = [req[p] EXCEPT !.pc = "audit"]
    BY ServeOthers DEF Commit, TablesInv
  <2> QED
    BY <1>1, <2>1, ServeOthers DEF Commit, TablesInv, Busy
<1>3. \A c \in Code : Entries(c)' = Entries(c)
  BY DEF Commit, Entries
<1>4. ASSUME NEW c \in Code, c # k
      PROVE  /\ Unaudited(c)' = Unaudited(c) /\ Requested(c)' = Requested(c)
             /\ decision'[c].deleted = decision[c].deleted
  <2>1. Unaudited(c)' = Unaudited(c)
    BY <1>1, <1>2, <1>4 DEF Unaudited, At
  <2>2. revisions'[c] = revisions[c] /\ decision'[c] = decision[c]
    <3>1. CASE req[p].op = "delete"
      BY <1>1, <1>4, <3>1, ApplyDeletes DEF TablesInv, TypeOK
    <3>2. CASE req[p].op # "delete"
      BY <1>1, <1>4, <3>2, ApplyWrites DEF TablesInv, TypeOK
    <3> QED
      BY <3>1, <3>2
  <2> QED
    BY <2>1, <2>2 DEF Requested
<1>5. Cardinality(Unaudited(k)') = Cardinality(Unaudited(k)) + 1
  <2>1. Unaudited(k)' = Unaudited(k) \cup {p} /\ p \notin Unaudited(k)
    BY <1>1, <1>2 DEF Unaudited, At
  <2>2. IsFiniteSet(Unaudited(k))
    <3>1. Unaudited(k) \subseteq {q \in Request : At(q, "audit")}
      BY DEF Unaudited
    <3> QED
      BY <3>1, FS_Subset DEF IsCountable
  <2> QED
    BY <2>1, <2>2, FS_AddElement
<1>6. IsFiniteSet(Requested(k))
  <2>1. Requested(k) \subseteq revisions[k]
    BY DEF Requested
  <2> QED
    BY <1>1, <2>1, FS_Subset DEF IsCountable
<1>7. Cardinality(Requested(k)') + (IF decision'[k].deleted THEN 1 ELSE 0)
        = Cardinality(Requested(k)) + (IF decision[k].deleted THEN 1 ELSE 0) + 1
  <2>1. CASE req[p].op = "delete"
    <3>1. /\ decision[k] \in StoredRow /\ revisions' = revisions
          /\ decision' = [decision EXCEPT ![k] = [decision[k] EXCEPT !.deleted = TRUE]]
      BY <1>1, <2>1, ApplyDeletes DEF TablesInv
    <3>2. decision[k].deleted = FALSE
      BY <1>1, <2>1, DeleteGuard DEF TablesInv, Visible, StoredRow
    <3>3. decision'[k].deleted = TRUE
      BY <1>1, <3>1 DEF StoredRow, TablesInv, TypeOK
    <3>4. Requested(k)' = Requested(k)
      BY <3>1 DEF Requested
    <3> QED
      BY <1>6, <3>2, <3>3, <3>4, FS_CardinalityType
  <2>2. CASE req[p].op # "delete"
    <3> DEFINE new == RevisionOf(Written(req[p]), req[p].actor, p)
    <3>1. /\ revisions' = [revisions EXCEPT ![k] = @ \cup {new}]
          /\ new.version = decision[k].version + 1
      BY <1>1, <2>2, ApplyWrites DEF TablesInv
    <3>2. new.request = p
      BY DEF RevisionOf
    <3> HIDE DEF new
    <3>3. revisions'[k] = revisions[k] \cup {new}
      BY <1>1, <3>1 DEF TablesInv, TypeOK
    <3>4. new \notin revisions[k]
      <4>1. {r.version : r \in revisions[k]} = 1..decision[k].version
        BY <1>1 DEF TablesInv, RevisionChain
      <4>2. decision[k].version \in Nat
        BY <1>1, VersionType DEF TablesInv
      <4>3. \A r \in revisions[k] : r.version # new.version
        BY <3>1, <4>1, <4>2
      <4> QED
        BY <4>3
    <3>5. Requested(k)' = Requested(k) \cup {new} /\ new \notin Requested(k)
      BY <3>2, <3>3, <3>4 DEF Requested
    <3>6. Cardinality(Requested(k)') = Cardinality(Requested(k)) + 1
      BY <1>6, <3>5, FS_AddElement
    <3>7. decision[k].deleted = FALSE /\ decision'[k].deleted = FALSE
      BY <1>1, <2>2, ApplyKeepsLive DEF TablesInv
    <3> QED
      BY <1>6, <3>6, <3>7, FS_CardinalityType
  <2> QED
    BY <2>1, <2>2
<1>8. \A c \in Code : Cardinality(Entries(c)) \in Nat /\ Cardinality(Unaudited(c)) \in Nat
                      /\ Cardinality(Requested(c)) \in Nat
  <2> SUFFICES ASSUME NEW c \in Code
               PROVE  IsFiniteSet(Entries(c)) /\ IsFiniteSet(Unaudited(c))
                      /\ IsFiniteSet(Requested(c))
    BY FS_CardinalityType
  <2>1. IsFiniteSet(DOMAIN audit)
    <3>1. DOMAIN audit = 1..Len(audit) /\ Len(audit) \in Nat
      BY DEF TablesInv, TypeOK
    <3> QED
      BY <3>1, FS_Interval
  <2>2. /\ Entries(c) \subseteq DOMAIN audit
        /\ Unaudited(c) \subseteq {q \in Request : At(q, "audit")}
        /\ Requested(c) \subseteq revisions[c]
    BY DEF Entries, Unaudited, Requested
  <2> QED
    BY <2>1, <2>2, FS_Subset DEF IsCountable
<1>9. ASSUME NEW c \in Code
      PROVE  Cardinality(Entries(c)') + Cardinality(Unaudited(c)')
               = Cardinality(Requested(c)') + (IF decision'[c].deleted THEN 1 ELSE 0)
  <2>1. Cardinality(Entries(c)) + Cardinality(Unaudited(c))
          = Cardinality(Requested(c)) + (IF decision[c].deleted THEN 1 ELSE 0)
    BY DEF AuditIsComplete
  <2>2. CASE c # k
    BY <1>3, <1>4, <2>1, <2>2
  <2>3. CASE c = k
    BY <1>3, <1>5, <1>7, <1>8, <2>1, <2>3
  <2> QED
    BY <2>2, <2>3
<1> QED
  BY <1>9 DEF AuditIsComplete

\* Nothing else changes the counts as long as no statement fails.
LEMMA CountStep ==
  ASSUME TablesInv, WorkIsKept, IsCountable, AuditIsComplete, ~Faults, [Next]_vars
  PROVE  AuditIsComplete'
<1>1. CASE \E p \in Request : Commit(p) \/ WriteAudit(p)
  BY <1>1, CountCommit, CountWriteAudit DEF TablesInv
<1>2. CASE \A p \in Request : ~Commit(p) /\ ~WriteAudit(p)
  <2>1. UNCHANGED <<decision, revisions, audit>>
    <3>1. ASSUME NEW p \in Request, Arrive(p)
          PROVE  UNCHANGED <<decision, revisions, audit>>
      BY <3>1, ArriveLoaded DEF TablesInv
    <3>2. ASSUME NEW p \in Request, Refuse(p) \/ ReadRow(p) \/ ReadRevisions(p) \/ Deliver(p)
          PROVE  UNCHANGED <<decision, revisions, audit>>
      BY <3>2 DEF Refuse, ReadRow, ReadRevisions, Deliver
    <3>3. \A p \in Request : ~Fail(p)
      BY DEF Fail, StatementFails, CommitUnreported, AuditFails
    <3>4. ~Crash
      BY DEF Crash
    <3> QED
      BY <1>2, <3>1, <3>2, <3>3, <3>4 DEF Next, Step, vars
  <2>2. ASSUME NEW q \in Request, req'[q] # req[q]
        PROVE  req'[q].pc # "audit" /\ req[q].pc # "audit"
    <3>1. req'[q].pc # "audit"
      BY <1>2, <2>2, OnlyCommitIsAudited
    <3>2. CASE req[q].pc = "audit"
      <4>1. \E p \in Request : Arrive(p) \/ Step(p) \/ Deliver(p)
        BY <2>2 DEF Next, vars, Crash, Fail, StatementFails, CommitUnreported, AuditFails
      <4>2. PICK p \in Request : Arrive(p) \/ Step(p) \/ Deliver(p)
        BY <4>1
      <4>3. p = q
        BY <2>2, <4>2, ServeOthers, ArriveLoaded
        DEF Step, Commit, Refuse, WriteAudit, ReadRow, ReadRevisions, Deliver, TablesInv
      <4>4. At(q, "idle") \/ At(q, "commit") \/ At(q, "row") \/ At(q, "revisions")
              \/ req[q].pc \in {"done", "failed"}
        BY <1>2, <4>2, <4>3
        DEF Arrive, Create, Update, Transition, Delete, Get, Begin, Step, Refuse,
            ReadRow, ReadRevisions, Deliver
      <4> QED
        BY <3>2, <4>4 DEF At
    <3> QED
      BY <3>1, <3>2
  <2>3. \A c \in Code : /\ Entries(c)' = Entries(c) /\ Requested(c)' = Requested(c)
                        /\ Unaudited(c)' = Unaudited(c)
                        /\ decision'[c].deleted = decision[c].deleted
    BY <2>1, <2>2 DEF Entries, Requested, Unaudited, At
  <2> QED
    BY <2>3 DEF AuditIsComplete
<1> QED
  BY <1>1, <1>2

LEMMA CountableStep ==
  ASSUME TablesInv, WorkIsKept, IsCountable, [Next]_vars
  PROVE  IsCountable'
<1> DEFINE Pending == {p \in Request : At(p, "audit")}
<1>1. IsFiniteSet(Pending')
  <2>1. CASE \E p \in Request : Commit(p)
    <3>1. PICK p \in Request : Commit(p)
      BY <2>1
    <3>2. \A q \in Request : q # p => req'[q] = req[q]
      BY <3>1, ServeOthers DEF Commit, TablesInv
    <3>3. Pending' \subseteq Pending \cup {p}
      BY <3>2 DEF At
    <3>4. IsFiniteSet(Pending \cup {p})
      BY FS_AddElement DEF IsCountable
    <3> QED
      BY <3>3, <3>4, FS_Subset
  <2>2. CASE \A p \in Request : ~Commit(p)
    <3>1. Pending' \subseteq Pending
      BY <2>2, OnlyCommitIsAudited DEF At
    <3> QED
      BY <3>1, FS_Subset DEF IsCountable
  <2> QED
    BY <2>1, <2>2
<1>2. ASSUME NEW c \in Code
      PROVE  IsFiniteSet(revisions'[c])
  <2>1. \/ revisions'[c] = revisions[c]
        \/ \E new \in revisions'[c] : revisions'[c] = revisions[c] \cup {new}
    BY AppendOnlyHolds DEF AppendOnlyStep
  <2>2. IsFiniteSet(revisions[c])
    BY DEF IsCountable
  <2> QED
    BY <2>1, <2>2, FS_AddElement
<1> QED
  BY <1>1, <1>2 DEF IsCountable

-----------------------------------------------------------------------------
(* The inductive invariant and the theorems. *)

LEMMA IInvStep ==
  ASSUME IInv, [Next]_vars
  PROVE  IInv'
<1>1. TablesInv' /\ WorkIsKept' /\ IsCountable'
  BY TablesStep, WorkKeptStep, CountableStep DEF IInv
<1>2. ~PredictVersions => AuditIsTruthful' /\ NextEntryIsTruthful'
  BY AuditTruthfulStep, NextEntryStep DEF IInv
<1>3. ~Faults => AuditIsComplete'
  BY CountStep DEF IInv
<1> QED
  BY <1>1, <1>2, <1>3 DEF IInv

LEMMA IInvInit == Init => IInv
<1> SUFFICES ASSUME Init PROVE IInv
  OBVIOUS
<1>1. TablesInv
  BY TablesInit
<1>2. audit = <<>> /\ \A p \in Request : req[p].pc = "idle"
  BY DEF Init, Idle
<1>3. WorkIsKept /\ AuditIsTruthful /\ NextEntryIsTruthful
  BY <1>2 DEF WorkIsKept, AuditIsTruthful, NextEntryIsTruthful, At
<1>4. \A c \in Code : decision[c] \in {NoRow} \cup SeedRows
                     /\ revisions[c] = SeedRevisions(decision[c])
  BY DEF Init
<1>5. IsCountable
  <2>1. {p \in Request : At(p, "audit")} = {}
    BY <1>2 DEF At
  <2>2. ASSUME NEW c \in Code
        PROVE  IsFiniteSet(revisions[c])
    <3>1. PICK x, y : revisions[c] \subseteq {x} \cup {y}
      <4>1. revisions[c] \subseteq {RevisionOf(SeedDraft, SeedPreparer, SeedRequest)}
                                   \cup {RevisionOf(decision[c], SeedReviewer, SeedRequest)}
        BY <1>4 DEF SeedRevisions
      <4> QED
        BY <4>1
    <3>2. IsFiniteSet({x} \cup {y})
      BY FS_Singleton, FS_AddElement
    <3> QED
      BY <3>1, <3>2, FS_Subset
  <2> QED
    BY <2>1, <2>2, FS_EmptySet DEF IsCountable
<1>6. AuditIsComplete
  <2>1. SUFFICES ASSUME NEW c \in Code
                 PROVE  /\ Entries(c) = {} /\ Unaudited(c) = {} /\ Requested(c) = {}
                        /\ ~decision[c].deleted
    BY FS_EmptySet DEF AuditIsComplete
  <2>2. Entries(c) = {} /\ Unaudited(c) = {}
    BY <1>2 DEF Entries, Unaudited, At
  <2>3. Requested(c) = {}
    <3>1. \A r \in revisions[c] : r.request = SeedRequest
      BY <1>4 DEF SeedRevisions, RevisionOf
    <3> QED
      BY <3>1, DataAssumption DEF Requested
  <2>4. ~decision[c].deleted
    <3>1. ~SeedDraft.deleted
      BY DEF SeedDraft, NewRow
    <3>2. \A level : SeedDecided(level).deleted = SeedDraft.deleted
      BY DEF SeedDecided, SeedDraft, NewRow
    <3> QED
      BY <1>4, <3>1, <3>2 DEF NoRow, SeedRows
  <2> QED
    BY <2>2, <2>3, <2>4
<1> QED
  BY <1>1, <1>3, <1>5, <1>6 DEF IInv

\* The inductive invariant holds of every reachable state, whatever clients
\* send and whatever fails.
THEOREM Invariance == Spec => []IInv
BY IInvInit, IInvStep, PTL DEF Spec

\* An answer "ok" is never taken back: its revision, its deletion and the
\* audit entry of a transition or a deletion are in the database when the
\* answer leaves, through crashes, lost answers and failing statements.
THEOREM AnswersAreDurable == Spec => []AcknowledgedIsDurable
<1>1. IInv => AcknowledgedIsDurable
  BY DEF IInv, WorkIsKept, IsKept, AcknowledgedIsDurable, At
<1> QED
  BY <1>1, Invariance, PTL

\* An answer shows a row together with a history that reaches it, although
\* other requests write between the two queries.
THEOREM AnswersAreCoherent == Spec => []AnswerIsCoherent
<1>1. IInv => AnswerIsCoherent
  BY DEF IInv, WorkIsKept, IsKept, AnswerIsCoherent, At
<1> QED
  BY <1>1, Invariance, PTL

\* When clients only send versions they have read, no audit entry of a
\* transition is made up, and its "before" is what the transition replaced.
THEOREM AuditTellsTheTruth == ~PredictVersions => (Spec => []AuditIsTruthful)
<1> SUFFICES ASSUME ~PredictVersions PROVE Spec => []AuditIsTruthful
  OBVIOUS
<1>1. IInv => AuditIsTruthful
  BY DEF IInv
<1> QED
  BY <1>1, Invariance, PTL

\* Where no statement fails, every change is audited exactly once.
THEOREM AuditMissesNothing == ~Faults => (Spec => []AuditIsComplete)
<1> SUFFICES ASSUME ~Faults PROVE Spec => []AuditIsComplete
  OBVIOUS
<1>1. IInv => AuditIsComplete
  BY DEF IInv
<1> QED
  BY <1>1, Invariance, PTL
-----------------------------------------------------------------------------
(* How far the two findings about the workflow go. *)

\* The request that made final revision r of decision c is about to write its
\* entry, or has.
IsRetold(c, r) ==
  LET p == r.request IN
  \/ At(p, "audit") /\ req[p].op = "transition" /\ req[p].code = c /\ req[p].actor = r.actor
  \/ \E i \in DOMAIN audit :
       /\ audit[i].action = "transition" /\ audit[i].code = c
       /\ audit[i].actor = r.actor /\ audit[i].request = p

FinalsAreRetold ==
  \A c \in Code : \A r \in revisions[c] :
    r.status \in PriorityLevel /\ r.request \in Request => IsRetold(c, r)

\* A new revision is what a transaction has written.
LEMMA NewRevision ==
  ASSUME TablesInv, [Next]_vars, NEW c \in Code, NEW r \in revisions'[c], r \notin revisions[c]
  PROVE  \E p \in Request :
           /\ Commit(p) \/ CommitUnreported(p)
           /\ req[p].op # "delete" /\ req[p].code = c
           /\ r = RevisionOf(Written(req[p]), req[p].actor, p)
<1>1. ASSUME NEW p \in Request, Arrive(p)
      PROVE  revisions' = revisions
  BY <1>1 DEF Arrive, Create, Update, Transition, Delete, Get, Begin
<1>2. ASSUME NEW p \in Request, \/ Refuse(p) \/ WriteAudit(p) \/ AuditFails(p) \/ ReadRow(p)
                                \/ ReadRevisions(p) \/ StatementFails(p) \/ Deliver(p)
      PROVE  revisions' = revisions
  BY <1>2 DEF Refuse, WriteAudit, AuditFails, ReadRow, ReadRevisions, StatementFails, Deliver
<1>3. CASE Crash \/ UNCHANGED vars
  BY <1>3 DEF Crash, vars
<1>4. PICK p \in Request : Commit(p) \/ CommitUnreported(p)
  BY <1>1, <1>2, <1>3 DEF Next, Step, Fail
<1>5. At(p, "commit") /\ CommitOutcome(req[p]) = "ok" /\ Apply(p)
  BY <1>4 DEF Commit, CommitUnreported
<1>6. req[p].op # "delete"
  BY <1>5, ApplyDeletes DEF TablesInv
<1>7. PICK k, new : /\ k = req[p].code /\ new = RevisionOf(Written(req[p]), req[p].actor, p)
                    /\ revisions' = [revisions EXCEPT ![k] = @ \cup {new}]
  BY <1>5, <1>6, ApplyWrites DEF TablesInv
<1>8. k = c /\ r = new
  BY <1>7 DEF TablesInv, TypeOK
<1> QED
  BY <1>4, <1>6, <1>7, <1>8

\* Only a transition makes a final revision.
LEMMA FinalIsTransition ==
  ASSUME TablesInv, NEW p \in Request, At(p, "commit"), req[p].op # "delete",
         Written(req[p]).status \in PriorityLevel
  PROVE  req[p].op = "transition"
<1>1. req[p] \in Busy /\ IsChecked(req[p])
  BY BusyType DEF At, TablesInv, LoadedRowIsChecked
<1>2. ASSUME req[p].op = "create" PROVE FALSE
  BY <1>2, LevelIsNotDraft DEF Written, NewRow, PriorityDecisionInitialStatus
<1>3. ASSUME req[p].op = "update" PROVE FALSE
  <2>1. req[p].current \in StoredRow /\ req[p].current.status = "draft"
    BY <1>1, <1>3 DEF IsChecked
  <2>2. Written(req[p]).status = "draft"
    BY <1>3, <2>1 DEF Written, StoredRow
  <2> QED
    BY <2>2, LevelIsNotDraft
<1> QED
  BY <1>1, <1>2, <1>3 DEF IsChecked, Busy, Op

\* Unless it fails or the process dies, what comes after the commit is the audit
\* statement.
LEMMA AtAuditWrites ==
  ASSUME TypeOK, NEW p \in Request, At(p, "audit"), req'[p] # req[p], ~Crash, ~AuditFails(p),
         [Next]_vars
  PROVE  WriteAudit(p)
<1>1. CASE UNCHANGED vars
  BY <1>1 DEF vars
<1>2. CASE Next
  <2>1. PICK q \in Request : Arrive(q) \/ Step(q) \/ Fail(q) \/ Deliver(q)
    BY <1>2 DEF Next
  <2>2. q = p
    BY <2>1, ServeOthers, ArriveLoaded
    DEF Step, Fail, Commit, CommitUnreported, Refuse, WriteAudit, AuditFails, ReadRow,
        ReadRevisions, StatementFails, Deliver
  <2>3. ASSUME Arrive(p) PROVE FALSE
    BY <2>3 DEF Arrive, Create, Update, Transition, Delete, Get, Begin, At
  <2> QED
    BY <2>1, <2>2, <2>3
    DEF Step, Fail, Commit, CommitUnreported, Refuse, AuditFails, ReadRow, ReadRevisions,
        StatementFails, Deliver, At
<1> QED
  BY <1>1, <1>2

\* A final revision is retold from its commit on, unless one of three things happens
\* to the request that makes it.
LEMMA RetoldStep ==
  ASSUME IInv, [Next]_vars, NEW c \in Code, NEW r \in revisions'[c], r.status \in PriorityLevel,
         r.request \in Request, r \in revisions[c] => IsRetold(c, r),
         ~Crash, ~CommitUnreported(r.request), ~AuditFails(r.request)
  PROVE  IsRetold(c, r)'
<1>1. TablesInv /\ TypeOK
  BY DEF IInv, TablesInv
<1>2. PICK p \in Request : p = r.request
  OBVIOUS
<1>3. CASE r \in revisions[c]
  <2>1. IsRetold(c, r)
    BY <1>3
  <2>2. CASE \E i \in DOMAIN audit :
               /\ audit[i].action = "transition" /\ audit[i].code = c
               /\ audit[i].actor = r.actor /\ audit[i].request = r.request
    BY <1>1, <2>2, AuditGrows DEF IsRetold
  <2>3. CASE /\ At(p, "audit") /\ req[p].op = "transition" /\ req[p].code = c
             /\ req[p].actor = r.actor
    <3>1. CASE req'[p] = req[p]
      BY <1>2, <2>3, <3>1 DEF IsRetold, At
    <3>2. CASE req'[p] # req[p]
      <4>1. WriteAudit(p)
        BY <1>1, <1>2, <2>3, <3>2, AtAuditWrites
      <4>2. audit' = Append(audit, EntryOf(p)) /\ audit \in Seq(AuditEntry)
        BY <1>1, <4>1 DEF WriteAudit, TypeOK
      <4>3. /\ EntryOf(p).action = "transition" /\ EntryOf(p).code = c
            /\ EntryOf(p).actor = r.actor /\ EntryOf(p).request = p
        BY <2>3 DEF EntryOf
      <4>4. Len(audit) + 1 \in DOMAIN audit' /\ audit'[Len(audit) + 1] = EntryOf(p)
        BY <4>2
      <4> QED
        BY <1>2, <4>3, <4>4 DEF IsRetold
    <3> QED
      BY <3>1, <3>2
  <2> QED
    BY <1>2, <2>1, <2>2, <2>3 DEF IsRetold
<1>4. CASE r \notin revisions[c]
  <2>1. PICK q \in Request :
          /\ Commit(q) \/ CommitUnreported(q)
          /\ req[q].op # "delete" /\ req[q].code = c
          /\ r = RevisionOf(Written(req[q]), req[q].actor, q)
    BY <1>1, <1>4, NewRevision
  <2>2. r.request = q /\ r.actor = req[q].actor /\ r.status = Written(req[q]).status
    BY <2>1 DEF RevisionOf
  <2>3. Commit(q) /\ At(q, "commit")
    BY <2>1, <2>2 DEF Commit
  <2>4. req[q].op = "transition"
    BY <1>1, <2>1, <2>3, <2>2, FinalIsTransition
  <2>5. req'[q] = [req[q] EXCEPT !.pc = "audit"] /\ req[q] \in Busy
    BY <1>1, <2>3, ServeOthers, BusyType DEF Commit, At
  <2>6. /\ req'[q].pc = "audit" /\ req'[q].op = "transition" /\ req'[q].code = c
        /\ req'[q].actor = r.actor
    BY <2>1, <2>2, <2>4, <2>5 DEF Busy
  <2> QED
    BY <2>2, <2>6 DEF IsRetold, At
<1> QED
  BY <1>3, <1>4

\* A finalization is without its entry in the log, and without a request about to
\* write it, for one of three reasons only: the process died, the acknowledgement of
\* its commit was lost, or its audit statement failed.  No interleaving and no other
\* failing statement, of this request or of another one, has that effect.
THEOREM EntriesAreLostInThreeWays ==
  Spec => [][\A c \in Code : \A r \in revisions'[c] :
               /\ r.status \in PriorityLevel /\ r.request \in Request
               /\ r \in revisions[c] => IsRetold(c, r)
               /\ ~IsRetold(c, r)'
               => Crash \/ CommitUnreported(r.request) \/ AuditFails(r.request)]_vars
<1>1. IInv /\ [Next]_vars =>
        [\A c \in Code : \A r \in revisions'[c] :
           /\ r.status \in PriorityLevel /\ r.request \in Request
           /\ r \in revisions[c] => IsRetold(c, r)
           /\ ~IsRetold(c, r)'
           => Crash \/ CommitUnreported(r.request) \/ AuditFails(r.request)]_vars
  BY RetoldStep
<1> QED
  BY <1>1, Invariance, PTL DEF Spec

\* The missing audit entry of a finalization is the work of a fault, and of
\* nothing else: where no statement fails, no acknowledgement is lost and no process
\* dies, every status change is in the log or its request is about to write it.
THEOREM FinalizationsAreAudited == ~Faults => (Spec => []StatusChangesAudited)
<1> SUFFICES ASSUME ~Faults PROVE Spec => []StatusChangesAudited
  OBVIOUS
<1>1. Init => FinalsAreRetold
  <2> SUFFICES ASSUME Init, NEW c \in Code, NEW r \in revisions[c] PROVE r.request = SeedRequest
    BY DataAssumption DEF FinalsAreRetold
  <2> QED
    BY DEF Init, SeedRevisions, RevisionOf
<1>2. IInv /\ FinalsAreRetold /\ [Next]_vars => FinalsAreRetold'
  <2> SUFFICES ASSUME IInv, FinalsAreRetold, [Next]_vars, NEW c \in Code, NEW r \in revisions'[c],
                      r.status \in PriorityLevel, r.request \in Request
               PROVE  IsRetold(c, r)'
    BY DEF FinalsAreRetold
  <2>1. r \in revisions[c] => IsRetold(c, r)
    BY DEF FinalsAreRetold
  <2> QED
    BY <2>1, RetoldStep DEF Crash, CommitUnreported, AuditFails
<1>3. FinalsAreRetold => StatusChangesAudited
  BY DEF FinalsAreRetold, IsRetold, StatusChangesAudited
<1> QED
  BY <1>1, <1>2, <1>3, Invariance, PTL DEF Spec

\* A final decision is only ever deleted by a request that has read it as a draft:
\* the lock of final decisions is passed by that race and in no other way.
THEOREM FinalsAreDeletedInRacesOnly ==
  Spec => [][\A c \in Code :
               Decided(decision[c]) /\ ~decision[c].deleted /\ decision'[c].deleted =>
                 \E p \in Request : /\ At(p, "commit") /\ req[p].op = "delete"
                                    /\ req[p].code = c /\ req[p].current.status = "draft"]_vars
<1>1. ASSUME IInv, Next, NEW c \in Code, ~decision[c].deleted, decision'[c].deleted
      PROVE  \E p \in Request : /\ At(p, "commit") /\ req[p].op = "delete"
                                /\ req[p].code = c /\ req[p].current.status = "draft"
  <2>1. TablesInv
    BY <1>1 DEF IInv
  <2>2. ASSUME NEW p \in Request, Arrive(p)
        PROVE  decision' = decision
    BY <2>2 DEF Arrive, Create, Update, Transition, Delete, Get, Begin
  <2>3. ASSUME NEW p \in Request, \/ Refuse(p) \/ WriteAudit(p) \/ AuditFails(p) \/ ReadRow(p)
                                  \/ ReadRevisions(p) \/ StatementFails(p) \/ Deliver(p)
        PROVE  decision' = decision
    BY <2>3 DEF Refuse, WriteAudit, AuditFails, ReadRow, ReadRevisions, StatementFails, Deliver
  <2>4. ~Crash
    BY <1>1 DEF Crash
  <2>5. PICK p \in Request : Commit(p) \/ CommitUnreported(p)
    <3>1. PICK p \in Request : Arrive(p) \/ Step(p) \/ Fail(p) \/ Deliver(p)
      BY <1>1, <2>4 DEF Next
    <3>2. decision' # decision
      BY <1>1
    <3> QED
      BY <2>2, <2>3, <3>1, <3>2 DEF Step, Fail
  <2>6. At(p, "commit") /\ CommitOutcome(req[p]) = "ok" /\ Apply(p)
    BY <2>5 DEF Commit, CommitUnreported
  <2>7. req[p].op = "delete"
    <3> SUFFICES ASSUME req[p].op # "delete" PROVE FALSE
      OBVIOUS
    <3>1. CASE req[p].op = "create"
      <4>1. decision' = [decision EXCEPT ![req[p].code] = NewRow(req[p].actor, req[p].evidence)]
        BY <2>6, <3>1 DEF Apply, InsertDecision, SwapDecision, MarkDeleted, Written
      <4> QED
        BY <1>1, <2>1, <4>1 DEF NewRow, TablesInv, TypeOK
    <3>2. CASE req[p].op # "create"
      <4>1. SwapDecision(p)
        BY <2>6, <3>2 DEF Apply, InsertDecision, MarkDeleted
      <4>2. PICK k, row : /\ k = req[p].code /\ row = Written(req[p])
                          /\ decision' = [decision EXCEPT ![k] =
                                            [row EXCEPT !.preparedBy = decision[k].preparedBy,
                                                        !.deleted    = decision[k].deleted]]
        BY <4>1 DEF SwapDecision
      <4>3. row \in StoredRow
        BY <2>1, <2>6, <4>1, <4>2, WrittenType DEF TablesInv, SwapDecision
      <4>4. decision'[c].deleted = decision[c].deleted
        BY <2>1, <4>2, <4>3 DEF TablesInv, TypeOK, StoredRow
      <4> QED
        BY <1>1, <4>4
    <3> QED
      BY <3>1, <3>2
  <2>8. req[p].code = c
    BY <1>1, <2>1, <2>6, <2>7, ApplyDeletes DEF TablesInv, TypeOK
  <2>9. req[p].current.status = "draft"
    BY <2>1, <2>6, <2>7 DEF TablesInv, LoadedRowIsChecked, IsChecked, At
  <2> QED
    BY <2>6, <2>7, <2>8, <2>9
<1>2. IInv /\ [Next]_vars =>
        [\A c \in Code :
           Decided(decision[c]) /\ ~decision[c].deleted /\ decision'[c].deleted =>
             \E p \in Request : /\ At(p, "commit") /\ req[p].op = "delete"
                                /\ req[p].code = c /\ req[p].current.status = "draft"]_vars
  BY <1>1
<1> QED
  BY <1>2, Invariance, PTL DEF Spec

\* When a change has been committed and the answer is "not found" all the same, the
\* change is there and the decision was deleted before it could be read again.
THEOREM NotFoundMeansDeleted ==
  Spec => [][\A p \in Request :
               At(p, "row") /\ req[p].op # "get" /\ req'[p] = Failed("not_found") =>
                 HasWritten(p) /\ decision[req[p].code].deleted]_vars
<1>1. ASSUME IInv, Next, NEW p \in Request, At(p, "row"), req[p].op # "get",
             req'[p] = Failed("not_found")
      PROVE  HasWritten(p) /\ decision[req[p].code].deleted
  <2>1. TablesInv /\ TypeOK /\ IsKept(p) /\ req[p] \in Busy
    BY <1>1, BusyType DEF IInv, TablesInv, WorkIsKept, At
  <2>2. req'[p].answer = "404" /\ req'[p].pc = "failed"
    BY <1>1 DEF Failed, handleError
  <2>3. req'[p] # Idle /\ req'[p] # req[p]
    BY <1>1, <2>2 DEF At, Idle
  <2>4. ReadRow(p)
    <3>1. Arrive(p) \/ Step(p) \/ Fail(p)
      BY <1>1, <2>1, <2>3, MovesItself
    <3>2. ASSUME Arrive(p) PROVE FALSE
      BY <1>1, <3>2 DEF Arrive, Create, Update, Transition, Delete, Get, Begin, At
    <3>3. ASSUME StatementFails(p) PROVE FALSE
      <4>1. req'[p] = Failed("error")
        BY <2>1, <3>3, ServeOthers DEF StatementFails
      <4> QED
        BY <2>2, <4>1 DEF Failed, handleError
    <3> QED
      BY <1>1, <3>1, <3>2, <3>3
      DEF Step, Fail, Commit, CommitUnreported, Refuse, WriteAudit, AuditFails, ReadRevisions, At
  <2>5. ~Visible(decision[req[p].code])
    <3> SUFFICES ASSUME Visible(decision[req[p].code]) PROVE FALSE
      OBVIOUS
    <3>1. req'[p] = [req[p] EXCEPT !.current = decision[req[p].code], !.pc = "revisions"]
      BY <2>1, <2>4, ServeOthers DEF ReadRow
    <3>2. req'[p].pc = "revisions"
      BY <2>1, <3>1 DEF Busy
    <3> QED
      BY <2>2, <3>2
  <2>6. req[p].code \in Code /\ req[p].op # "delete"
    BY <1>1, <2>1 DEF IsKept, At, Busy
  <2>7. HasWritten(p)
    BY <1>1, <2>1, <2>6 DEF IsKept, At, Busy, Op
  <2>8. decision[req[p].code].version # 0
    <3>1. revisions[req[p].code] # {}
      BY <2>7 DEF HasWritten
    <3>2. {v.version : v \in revisions[req[p].code]} = 1..decision[req[p].code].version
      BY <2>1, <2>6 DEF TablesInv, RevisionChain
    <3> QED
      BY <3>1, <3>2
  <2>9. decision[req[p].code].version \in Nat
    BY <2>1, <2>6, VersionType, DataAssumption
  <2>10. decision[req[p].code].deleted
    BY <2>5, <2>8, <2>9 DEF Visible
  <2> QED
    BY <2>7, <2>10
<1>2. IInv /\ [Next]_vars =>
        [\A p \in Request :
           At(p, "row") /\ req[p].op # "get" /\ req'[p] = Failed("not_found") =>
             HasWritten(p) /\ decision[req[p].code].deleted]_vars
  BY <1>1
<1> QED
  BY <1>2, Invariance, PTL DEF Spec
=============================================================================
