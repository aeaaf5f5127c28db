-------------------------- MODULE AuditTrailProofs ---------------------------
(***************************************************************************)
(* The audit log of bridges, inspection rounds and defect findings tells   *)
(* each record's version and status, for every set of records, accounts    *)
(* and requests, as long as no statement fails and clients send versions   *)
(* they were shown.  The proof counts: a write leaves one request at its   *)
(* audit statement, which then makes the entry of it, and no other step    *)
(* changes what is told.                                                   *)
(***************************************************************************)
EXTENDS AggregateRecordProofs

-----------------------------------------------------------------------------
(* Counting. *)

LEMMA AuditedType ==
  ASSUME IInv, NEW c, NEW what
  PROVE  /\ IsFiniteSet(Telling(c, what)) /\ IsFiniteSet(AboutToTell(c, what))
         /\ Cardinality(Telling(c, what)) \in Nat /\ Cardinality(AboutToTell(c, what)) \in Nat
<1>1. IsFiniteSet(DOMAIN audit)
  <2>1. DOMAIN audit = 1..Len(audit) /\ Len(audit) \in Nat
    BY DEF IInv, TypeOK
  <2> QED
    BY <2>1, FS_Interval
<1>2. /\ Telling(c, what) \subseteq DOMAIN audit
      /\ AboutToTell(c, what) \subseteq {p \in Request : At(p, "audit")}
  BY DEF Telling, AboutToTell
<1> QED
  BY <1>1, <1>2, FS_Subset, FS_CardinalityType DEF IInv, IsCountable

\* An entry that is written was about to be.
LEMMA CountWriteAudit ==
  ASSUME IInv, NEW p \in Request, WriteAudit(p), NEW c \in Record, NEW what
  PROVE  Audited(c, what)' = Audited(c, what)
<1> DEFINE n == Len(audit) + 1
<1>1. /\ audit \in Seq(AuditEntry) /\ audit' = Append(audit, EntryOf(p)) /\ At(p, "audit")
      /\ EntryOf(p).record = req[p].record
  BY DEF WriteAudit, IInv, TypeOK, EntryOf
<1>2. /\ DOMAIN audit' = DOMAIN audit \cup {n} /\ n \notin DOMAIN audit
      /\ audit'[n] = EntryOf(p)
      /\ \A i \in DOMAIN audit : audit'[i] = audit[i]
  BY <1>1
<1>3. req'[p].pc # "audit" /\ \A q \in Request : q # p => req'[q] = req[q]
  <2>1. req[p] \in Busy /\ Serve(p, AfterAudit(req[p]))
    BY <1>1, BusyType DEF IInv, WriteAudit, At
  <2>2. req' = [req EXCEPT ![p] = AfterAudit(req[p])] /\ AfterAudit(req[p]).pc \in {"done", "row"}
    BY <2>1 DEF Serve, AfterAudit, Busy
  <2> QED
    BY <2>2 DEF IInv, TypeOK
<1>4. \A q \in Request : q # p => EntryOf(q)' = EntryOf(q)
  BY <1>3 DEF EntryOf
<1>5. CASE c = req[p].record /\ what \in Tells(EntryOf(p))
  <2>1. Telling(c, what)' = Telling(c, what) \cup {n} /\ n \notin Telling(c, what)
    BY <1>1, <1>2, <1>5 DEF Telling
  <2>2. AboutToTell(c, what)' = AboutToTell(c, what) \ {p} /\ p \in AboutToTell(c, what)
    BY <1>1, <1>3, <1>4, <1>5 DEF AboutToTell, At
  <2>3. Cardinality(Telling(c, what)') = Cardinality(Telling(c, what)) + 1
    BY <2>1, AuditedType, FS_AddElement
  <2>4. Cardinality(AboutToTell(c, what)') = Cardinality(AboutToTell(c, what)) - 1
    BY <2>2, AuditedType, FS_RemoveElement
  <2> QED
    BY <2>3, <2>4, AuditedType DEF Audited
<1>6. CASE ~(c = req[p].record /\ what \in Tells(EntryOf(p)))
  <2>1. Telling(c, what)' = Telling(c, what)
    BY <1>1, <1>2, <1>6 DEF Telling
  <2>2. AboutToTell(c, what)' = AboutToTell(c, what)
    BY <1>3, <1>4, <1>6 DEF AboutToTell, At
  <2> QED
    BY <2>1, <2>2 DEF Audited
<1> QED
  BY <1>5, <1>6

\* A write is about to be told.
LEMMA CountCommit ==
  ASSUME IInv, NEW p \in Request, Commit(p), NEW c \in Record, NEW what
  PROVE  Audited(c, what)'
           = Audited(c, what) + (IF c = req[p].record /\ what \in Tells(EntryOf(p)) THEN 1 ELSE 0)
<1>1. At(p, "commit") /\ req[p] \in Busy /\ audit' = audit
  BY BusyType DEF Commit, IInv, At
<1>2. req'[p] = [req[p] EXCEPT !.pc = "audit"] /\ \A q \in Request : q # p => req'[q] = req[q]
  BY DEF Commit, Serve, IInv, TypeOK
<1>3. req'[p].pc = "audit" /\ req'[p].record = req[p].record /\ EntryOf(p)' = EntryOf(p)
  BY <1>1, <1>2 DEF Busy, EntryOf
<1>4. \A q \in Request : q # p => EntryOf(q)' = EntryOf(q)
  BY <1>2 DEF EntryOf
<1>5. Telling(c, what)' = Telling(c, what)
  BY <1>1 DEF Telling
<1>6. CASE c = req[p].record /\ what \in Tells(EntryOf(p))
  <2>1. AboutToTell(c, what)' = AboutToTell(c, what) \cup {p} /\ p \notin AboutToTell(c, what)
    BY <1>1, <1>2, <1>3, <1>4, <1>6 DEF AboutToTell, At
  <2>2. Cardinality(AboutToTell(c, what)') = Cardinality(AboutToTell(c, what)) + 1
    BY <2>1, AuditedType, FS_AddElement
  <2> QED
    BY <1>5, <1>6, <2>2, AuditedType DEF Audited
<1>7. CASE ~(c = req[p].record /\ what \in Tells(EntryOf(p)))
  <2>1. AboutToTell(c, what)' = AboutToTell(c, what)
    BY <1>1, <1>2, <1>3, <1>4, <1>7 DEF AboutToTell, At
  <2> QED
    BY <1>5, <1>7, <2>1, AuditedType DEF Audited
<1> QED
  BY <1>6, <1>7

\* No other step leads to or from an audit statement.
LEMMA OthersDoNotAudit ==
  ASSUME IInv, ~Faults, [Next]_vars, \A p \in Request : ~Commit(p) /\ ~WriteAudit(p)
  PROVE  /\ row' = row /\ audit' = audit
         /\ \A q \in Request : At(q, "audit") \/ At(q, "audit")' => req'[q] = req[q]
<1>1. ASSUME NEW p \in Request, NEW r, NEW pc, Serve(p, r), r.pc # "audit", At(p, pc), pc # "audit"
      PROVE  \A q \in Request : At(q, "audit") \/ At(q, "audit")' => req'[q] = req[q]
  BY <1>1 DEF Serve, At, IInv, TypeOK
<1>2. ASSUME NEW err PROVE Failed(err).pc # "audit"
  BY DEF Failed
<1>3. ASSUME NEW p \in Request, Arrive(p)
      PROVE  /\ row' = row /\ audit' = audit
             /\ \A q \in Request : At(q, "audit") \/ At(q, "audit")' => req'[q] = req[q]
  <2>1. ASSUME NEW r, NEW verdict, Begin(p, r, verdict), r.pc # "audit"
        PROVE  /\ row' = row /\ audit' = audit
               /\ \A q \in Request : At(q, "audit") \/ At(q, "audit")' => req'[q] = req[q]
    <3>1. At(p, "idle") /\ row' = row /\ audit' = audit
      BY <2>1 DEF Begin
    <3>2. CASE verdict = "ok"
      BY <1>1, <2>1, <3>1, <3>2 DEF Begin
    <3>3. CASE verdict # "ok"
      BY <1>1, <1>2, <2>1, <3>1, <3>3 DEF Begin
    <3> QED
      BY <3>2, <3>3
  <2>2. CASE Create(p)
    <3>1. PICK c, f, verdict :
            Begin(p, [Call("create", c) EXCEPT !.fields = f], verdict)
      BY <2>2 DEF Create
    <3>2. [Call("create", c) EXCEPT !.fields = f].pc # "audit"
      BY DEF Call
    <3> QED
      BY <2>1, <3>1, <3>2
  <2>3. CASE Update(p)
    <3>1. PICK c, f, v, i, verdict :
            Begin(p, [Call("update", c) EXCEPT !.expected = v, !.fields = f, !.current = i], verdict)
      BY <2>3 DEF Update
    <3>2. [Call("update", c) EXCEPT !.expected = v, !.fields = f, !.current = i].pc # "audit"
      BY DEF Call
    <3> QED
      BY <2>1, <3>1, <3>2
  <2>4. CASE Transition(p)
    <3>1. PICK c, s, v, i, verdict :
            Begin(p, [Call("transition", c) EXCEPT !.expected = v, !.target = s, !.current = i], verdict)
      BY <2>4 DEF Transition
    <3>2. [Call("transition", c) EXCEPT !.expected = v, !.target = s, !.current = i].pc # "audit"
      BY DEF Call
    <3> QED
      BY <2>1, <3>1, <3>2
  <2>5. CASE Delete(p)
    <3>1. PICK c, i, verdict :
            Begin(p, [Call("delete", c) EXCEPT !.current = i], verdict)
      BY <2>5 DEF Delete
    <3>2. [Call("delete", c) EXCEPT !.current = i].pc # "audit"
      BY DEF Call
    <3> QED
      BY <2>1, <3>1, <3>2
  <2>6. CASE Get(p)
    <3>1. PICK c, i, verdict :
            Begin(p, [Call("get", c) EXCEPT !.pc = "done", !.current = i], verdict)
      BY <2>6 DEF Get
    <3>2. [Call("get", c) EXCEPT !.pc = "done", !.current = i].pc # "audit"
      BY DEF Call
    <3> QED
      BY <2>1, <3>1, <3>2
  <2> QED
    BY <1>3, <2>2, <2>3, <2>4, <2>5, <2>6 DEF Arrive
<1>4. ASSUME NEW p \in Request, Refuse(p)
      PROVE  /\ row' = row /\ audit' = audit
             /\ \A q \in Request : At(q, "audit") \/ At(q, "audit")' => req'[q] = req[q]
  BY <1>1, <1>2, <1>4 DEF Refuse
<1>5. ASSUME NEW p \in Request, ReadRow(p)
      PROVE  /\ row' = row /\ audit' = audit
             /\ \A q \in Request : At(q, "audit") \/ At(q, "audit")' => req'[q] = req[q]
  <2>1. req[p] \in Busy /\ At(p, "row") /\ row' = row /\ audit' = audit
    BY <1>5, BusyType DEF ReadRow, IInv, At
  <2>2. PICK r : Serve(p, r) /\ r.pc # "audit"
    <3>1. CASE Visible(row[req[p].record])
      <4>1. [req[p] EXCEPT !.current = row[req[p].record], !.pc = "done"].pc = "done"
        BY <2>1 DEF Busy
      <4> QED
        BY <1>5, <3>1, <4>1 DEF ReadRow
    <3>2. CASE ~Visible(row[req[p].record])
      BY <1>2, <1>5, <3>2 DEF ReadRow
    <3> QED
      BY <3>1, <3>2
  <2> QED
    BY <1>1, <2>1, <2>2
<1>6. ASSUME NEW p \in Request, Deliver(p)
      PROVE  /\ row' = row /\ audit' = audit
             /\ \A q \in Request : At(q, "audit") \/ At(q, "audit")' => req'[q] = req[q]
  BY <1>6 DEF Deliver, Serve, Idle, At, IInv, TypeOK
<1>7. CASE UNCHANGED vars
  BY <1>7 DEF vars
<1>8. ~Crash /\ \A p \in Request : ~Fail(p)
  BY DEF Crash, Fail, StatementFails, CommitUnreported, AuditFails
<1> QED
  BY <1>3, <1>4, <1>5, <1>6, <1>7, <1>8 DEF Next, Step

-----------------------------------------------------------------------------
(* What the entries of a request tell. *)

LEMMA ToldDiffer ==
  \A s, t : /\ <<"entered", s>> # <<"changed">> /\ <<"left", s>> # <<"changed">>
            /\ <<"entered", s>> # <<"left", t>>
            /\ (<<"entered", s>> = <<"entered", t>> <=> s = t)
            /\ (<<"left", s>> = <<"left", t>> <=> s = t)
<1> TAKE s, t
<1>1. /\ <<"entered", s>>[1] = "entered" /\ <<"left", t>>[1] = "left" /\ <<"left", s>>[1] = "left"
      /\ <<"changed">>[1] = "changed"
  OBVIOUS
<1>2. /\ <<"entered", s>>[2] = s /\ <<"entered", t>>[2] = t
      /\ <<"left", s>>[2] = s /\ <<"left", t>>[2] = t
  OBVIOUS
<1> QED
  BY <1>1, <1>2

LEMMA EntryTells ==
  ASSUME NEW p \in Request
  PROVE  /\ req[p].op \in {"create", "delete"} => Tells(EntryOf(p)) = {}
         /\ req[p].op = "update" => Tells(EntryOf(p)) = {<<"changed">>}
         /\ req[p].op = "transition" =>
              Tells(EntryOf(p)) = {<<"changed">>, <<"left", req[p].current.status>>,
                                   <<"entered", req[p].target>>}
<1>1. EntryOf(p).action = req[p].op
  BY DEF EntryOf
<1>2. CASE req[p].op = "transition"
  <2>1. EntryOf(p).before = req[p].current.status /\ EntryOf(p).after = req[p].target
    BY <1>2 DEF EntryOf
  <2> QED
    BY <1>1, <1>2, <2>1 DEF Tells
<1> QED
  BY <1>1, <1>2 DEF Tells

LEMMA NothingToldOfAbsent ==
  ASSUME IInv, NEW c \in Record, row[c].version = 0, NEW what
  PROVE  Audited(c, what) = 0
<1>1. Telling(c, what) = {}
  BY DEF Telling, IInv, AuditedIsStored
<1>2. AboutToTell(c, what) = {}
  BY WritesOfStored DEF AboutToTell
<1> QED
  BY <1>1, <1>2, FS_EmptySet DEF Audited

-----------------------------------------------------------------------------
(* The log retells each record. *)

\* The walk the entries of a record make from its first status to the current
\* one.
Walk(c, first) ==
  \A s \in StatusesOf(KindOf[c]) :
    Audited(c, <<"entered", s>>) + (IF s = first THEN 1 ELSE 0)
      = Audited(c, <<"left", s>>) + (IF s = row[c].status THEN 1 ELSE 0)

First(c, first) ==
  /\ first \in SeedStatuses(KindOf[c]) \cup {InitialStatusOf(KindOf[c])}
  /\ c \notin Seeded => first = InitialStatusOf(KindOf[c])

Retold(c) == row[c].version = 1 + Audited(c, <<"changed">>) /\ \E first : First(c, first) /\ Walk(c, first)

LEMMA RetoldRecords ==
  AuditRetellsTheRecord <=> \A c \in Record : row[c].version > 0 => Retold(c)
  BY DEF AuditRetellsTheRecord, Retold, First, Walk

\* What is told of a record stays true of it while nothing is written.
LEMMA UntouchedStaysRetold ==
  ASSUME NEW c \in Record, row'[c].version = row[c].version, row'[c].status = row[c].status,
         \A what : Audited(c, what)' = Audited(c, what), Retold(c)
  PROVE  Retold(c)'
<1>1. PICK first : First(c, first) /\ Walk(c, first)
  BY DEF Retold
<1>2. First(c, first)' /\ Walk(c, first)'
  BY <1>1 DEF First, Walk
<1> QED
  BY <1>2 DEF Retold

LEMMA CommitRetells ==
  ASSUME IInv, AuditRetellsTheRecord, ~PredictVersions, NEW p \in Request, Commit(p)
  PROVE  AuditRetellsTheRecord'
<1>1. /\ TypeOK /\ LoadedRowIsChecked /\ At(p, "commit") /\ CommitOutcome(req[p]) = "ok"
      /\ Apply(req[p])
  BY DEF IInv, Commit
<1> PICK k \in Record : k = req[p].record
  BY <1>1, ApplyWrites
<1>2. /\ req[p] \in Busy /\ row' = [row EXCEPT ![k] = row'[k]] /\ row'[k] \in StoredRow
      /\ IsChecked(req[p])
  BY <1>1, ApplyWrites DEF LoadedRowIsChecked, At
<1>3. req[p].op \in {"create", "update", "transition", "delete"}
  BY <1>2 DEF IsChecked, Busy, Op
<1>4. SUFFICES ASSUME NEW c \in Record, row'[c].version > 0
               PROVE  Retold(c)'
  BY DEF AuditRetellsTheRecord, Retold, First, Walk
<1>5. CASE c # k
  <2>1. row'[c] = row[c]
    BY <1>1, <1>2, <1>5 DEF TypeOK
  <2>2. \A what : Audited(c, what)' = Audited(c, what)
    <3> TAKE what
    <3>1. Audited(c, what) + 0 = Audited(c, what)
      BY AuditedType DEF Audited
    <3> QED
      BY <1>5, <3>1, CountCommit
  <2> QED
    BY <1>4, <2>1, <2>2, RetoldRecords, UntouchedStaysRetold
<1>6. CASE c = k /\ req[p].op = "create"
  <2>1. row[c] = NoRow /\ row'[c] = NewRow(InitialStatusOf(KindOf[c]), req[p].fields)
    BY <1>1, <1>6, ApplyWrites
  <2>2. \A what : Audited(c, what)' = 0
    <3> TAKE what
    <3>1. Audited(c, what) = 0
      BY <2>1, NothingToldOfAbsent DEF NoRow
    <3>2. Tells(EntryOf(p)) = {}
      BY <1>6, EntryTells
    <3> QED
      BY <3>1, <3>2, CountCommit
  <2>3. row'[c].version = 1 /\ row'[c].status = InitialStatusOf(KindOf[c])
    BY <2>1 DEF NewRow
  <2>4. First(c, InitialStatusOf(KindOf[c]))' /\ Walk(c, InitialStatusOf(KindOf[c]))'
    BY <2>2, <2>3 DEF First, Walk
  <2> QED
    BY <2>2, <2>3, <2>4 DEF Retold
<1>7. CASE c = k /\ req[p].op = "delete"
  <2>1. row'[c] = [row[c] EXCEPT !.deleted = TRUE] /\ row[c] \in StoredRow
    BY <1>1, <1>7, ApplyWrites
  <2>2. row'[c].version = row[c].version /\ row'[c].status = row[c].status
    BY <2>1 DEF StoredRow
  <2>3. \A what : Audited(c, what)' = Audited(c, what)
    <3> TAKE what
    <3>1. Audited(c, what) + 0 = Audited(c, what)
      BY AuditedType DEF Audited
    <3>2. Tells(EntryOf(p)) = {}
      BY <1>7, EntryTells
    <3> QED
      BY <3>1, <3>2, CountCommit
  <2> QED
    BY <1>4, <2>2, <2>3, RetoldRecords, UntouchedStaysRetold
<1>8. CASE c = k /\ req[p].op \in {"update", "transition"}
  <2>1. /\ row[c] \in StoredRow /\ row[c].version = req[p].expected
        /\ row'[c].version = row[c].version + 1
    BY <1>1, <1>8, ApplyWrites
  <2>2. req[p].current = row[c]
    BY <1>1, <1>8, SwapFindsLoaded DEF CommitOutcome
  <2>3. row[c].version \in Nat /\ row[c].version > 0
    BY <2>1, RecordAssumption DEF StoredRow
  <2>4. Retold(c)
    BY <2>3, RetoldRecords
  <2>5. \A what : Audited(c, what) \in Nat
    BY AuditedType DEF Audited
  <2>6. <<"changed">> \in Tells(EntryOf(p))
    BY <1>8, EntryTells
  <2>7. Audited(c, <<"changed">>)' = Audited(c, <<"changed">>) + 1
    BY <1>8, <2>6, CountCommit
  <2>8. row'[c].version = 1 + Audited(c, <<"changed">>)'
    BY <2>1, <2>3, <2>4, <2>5, <2>7 DEF Retold
  <2>9. PICK first : First(c, first) /\ Walk(c, first)
    BY <2>4 DEF Retold
  <2>10. First(c, first)'
    BY <2>9 DEF First
  <2>11. CASE req[p].op = "update"
    <3>1. row'[c].status = row[c].status
      <4>1. row'[c] = [version |-> req[p].expected + 1, status |-> req[p].current.status,
                       fields |-> req[p].fields, deleted |-> FALSE]
        BY <1>1, <1>8, <2>11, ApplyWrites
      <4> QED
        BY <2>2, <4>1
    <3>2. ASSUME NEW s
          PROVE  /\ Audited(c, <<"entered", s>>)' = Audited(c, <<"entered", s>>)
                 /\ Audited(c, <<"left", s>>)' = Audited(c, <<"left", s>>)
      <4>1. <<"entered", s>> \notin Tells(EntryOf(p)) /\ <<"left", s>> \notin Tells(EntryOf(p))
        BY <2>11, EntryTells, ToldDiffer
      <4>2. /\ Audited(c, <<"entered", s>>)' = Audited(c, <<"entered", s>>) + 0
            /\ Audited(c, <<"left", s>>)' = Audited(c, <<"left", s>>) + 0
        BY <4>1, CountCommit
      <4> QED
        BY <2>5, <4>2
    <3>3. Walk(c, first)'
      BY <2>9, <3>1, <3>2 DEF Walk
    <3> QED
      BY <2>8, <2>10, <3>3 DEF Retold
  <2>12. CASE req[p].op = "transition"
    <3>1. row'[c].status = req[p].target
      <4>1. row'[c] = [version |-> req[p].expected + 1, status |-> req[p].target,
                       fields |-> req[p].current.fields, deleted |-> FALSE]
        BY <1>1, <1>8, <2>12, ApplyWrites
      <4> QED
        BY <4>1
    <3>2. ASSUME NEW s \in StatusesOf(KindOf[c])
          PROVE  Audited(c, <<"entered", s>>)' + (IF s = first THEN 1 ELSE 0)
                   = Audited(c, <<"left", s>>)' + (IF s = row'[c].status THEN 1 ELSE 0)
      <4>1. /\ <<"entered", s>> \in Tells(EntryOf(p)) <=> s = req[p].target
            /\ <<"left", s>> \in Tells(EntryOf(p)) <=> s = row[c].status
        BY <2>2, <2>12, EntryTells, ToldDiffer
      <4>2. Audited(c, <<"entered", s>>)' = Audited(c, <<"entered", s>>) + (IF s = req[p].target THEN 1 ELSE 0)
        BY <1>8, <4>1, CountCommit
      <4>3. Audited(c, <<"left", s>>)' = Audited(c, <<"left", s>>) + (IF s = row[c].status THEN 1 ELSE 0)
        BY <1>8, <4>1, CountCommit
      <4>4. Audited(c, <<"entered", s>>) + (IF s = first THEN 1 ELSE 0)
              = Audited(c, <<"left", s>>) + (IF s = row[c].status THEN 1 ELSE 0)
        BY <2>9 DEF Walk
      <4>5. Audited(c, <<"entered", s>>) \in Nat /\ Audited(c, <<"left", s>>) \in Nat
        BY <2>5
      <4> QED
        BY <3>1, <4>2, <4>3, <4>4, <4>5
    <3>3. Walk(c, first)'
      BY <3>2 DEF Walk
    <3> QED
      BY <2>8, <2>10, <3>3 DEF Retold
  <2> QED
    BY <1>8, <2>11, <2>12
<1> QED
  BY <1>3, <1>5, <1>6, <1>7, <1>8

LEMMA RetellStep ==
  ASSUME IInv, AuditRetellsTheRecord, ~PredictVersions, ~Faults, [Next]_vars
  PROVE  AuditRetellsTheRecord'
<1>1. CASE \E p \in Request : Commit(p)
  BY <1>1, CommitRetells
<1>2. ASSUME row' = row, \A c \in Record : \A what : Audited(c, what)' = Audited(c, what)
      PROVE  AuditRetellsTheRecord'
  <2>1. ASSUME NEW c \in Record, row'[c].version > 0
        PROVE  Retold(c)'
    BY <1>2, <2>1, RetoldRecords, UntouchedStaysRetold
  <2> QED
    BY <2>1 DEF AuditRetellsTheRecord, Retold, First, Walk
<1>3. ASSUME NEW p \in Request, WriteAudit(p)
      PROVE  AuditRetellsTheRecord'
  <2>1. row' = row
    BY <1>3 DEF WriteAudit
  <2> QED
    BY <1>2, <1>3, <2>1, CountWriteAudit
<1>4. CASE \A p \in Request : ~Commit(p) /\ ~WriteAudit(p)
  <2>1. /\ row' = row /\ audit' = audit
        /\ \A q \in Request : At(q, "audit") \/ At(q, "audit")' => req'[q] = req[q]
    BY <1>4, OthersDoNotAudit
  <2>2. ASSUME NEW c \in Record, NEW what
        PROVE  Audited(c, what)' = Audited(c, what)
    <3>1. Telling(c, what)' = Telling(c, what)
      BY <2>1 DEF Telling
    <3>2. \A q \in Request : req'[q] = req[q] => EntryOf(q)' = EntryOf(q)
      BY DEF EntryOf
    <3>3. AboutToTell(c, what)' = AboutToTell(c, what)
      BY <2>1, <3>2 DEF AboutToTell, At
    <3> QED
      BY <3>1, <3>3 DEF Audited
  <2> QED
    BY <1>2, <2>1, <2>2
<1> QED
  BY <1>1, <1>3, <1>4

LEMMA RetellInit == Init => AuditRetellsTheRecord
<1> SUFFICES ASSUME Init, NEW c \in Record, row[c].version > 0
             PROVE  Retold(c)
  BY RetoldRecords
<1>1. \A what : Audited(c, what) = 0
  <2> TAKE what
  <2>1. Telling(c, what) = {} /\ AboutToTell(c, what) = {}
    BY DEF Init, Telling, AboutToTell, Idle, At
  <2> QED
    BY <2>1, FS_EmptySet DEF Audited
<1>2. c \in Seeded /\ row[c] \in SeedRows(KindOf[c])
  BY DEF Init, SeedTables, NoRow
<1>3. PICK first \in SeedStatuses(KindOf[c]) : row[c] = NewRow(first, SeedFields)
  BY <1>2 DEF SeedRows
<1>4. row[c].version = 1 /\ row[c].status = first
  BY <1>3 DEF NewRow
<1>5. First(c, first) /\ Walk(c, first)
  BY <1>1, <1>2, <1>3, <1>4 DEF First, Walk
<1> QED
  BY <1>1, <1>4, <1>5 DEF Retold

\* As long as no statement fails and clients send versions they were shown,
\* the log alone tells the version of each record and the walk through its
\* graph that has led to its status, in whatever order its entries came.
THEOREM TheLogTellsTheRecord == ~PredictVersions /\ ~Faults => (Spec => []AuditRetellsTheRecord)
<1> SUFFICES ASSUME ~PredictVersions, ~Faults
             PROVE  Spec => []AuditRetellsTheRecord
  OBVIOUS
<1>1. Init => AuditRetellsTheRecord
  BY RetellInit
<1>2. IInv /\ AuditRetellsTheRecord /\ [Next]_vars => AuditRetellsTheRecord'
  BY RetellStep
<1> QED
  BY <1>1, <1>2, Invariance, PTL DEF Spec
=============================================================================
