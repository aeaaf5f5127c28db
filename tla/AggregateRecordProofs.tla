------------------------ MODULE AggregateRecordProofs ------------------------
(***************************************************************************)
(* Proofs about AggregateRecord, for every set of bridges, inspection      *)
(* rounds and defect findings, every set of accounts and requests and      *)
(* every bound on the versions, with and without failures.                 *)
(***************************************************************************)
EXTENDS AggregateRecord, FiniteSetTheorems, TLAPS

-----------------------------------------------------------------------------
(* The graphs. *)

\* A transition never leaves the vocabulary of its kind.
LEMMA GraphsAreClosed ==
  ASSUME NEW kind \in Kind, NEW from, NEW to, CanTransition(GraphOf(kind), from, to)
  PROVE  from \in StatusesOf(kind) /\ to \in StatusesOf(kind)
<1>1. CASE kind = "BridgeAsset"
  BY <1>1 DEF CanTransition, GraphOf, StatusesOf, BridgeAssetTransitions
<1>2. CASE kind = "InspectionRound"
  BY <1>2 DEF CanTransition, GraphOf, StatusesOf, InspectionRoundTransitions
<1>3. CASE kind = "DefectFinding"
  BY <1>3 DEF CanTransition, GraphOf, StatusesOf, DefectFindingTransitions
<1> QED
  BY <1>1, <1>2, <1>3 DEF Kind

\* What is created, and what is seeded, has a status of its kind.
LEMMA FirstStatuses ==
  ASSUME NEW kind \in Kind
  PROVE  /\ InitialStatusOf(kind) \in StatusesOf(kind)
         /\ SeedStatuses(kind) \subseteq StatusesOf(kind)
<1>1. CASE kind = "BridgeAsset"
  BY <1>1 DEF InitialStatusOf, SeedStatuses, StatusesOf, GraphOf,
              BridgeAssetTransitions, BridgeAssetInitialStatus
<1>2. CASE kind = "InspectionRound"
  BY <1>2 DEF InitialStatusOf, SeedStatuses, StatusesOf, GraphOf,
              InspectionRoundTransitions, InspectionRoundInitialStatus
<1>3. CASE kind = "DefectFinding"
  BY <1>3 DEF InitialStatusOf, SeedStatuses, StatusesOf, GraphOf,
              DefectFindingTransitions, DefectFindingInitialStatus
<1> QED
  BY <1>1, <1>2, <1>3 DEF Kind

LEMMA StatusOfKind ==
  ASSUME NEW kind \in Kind, NEW s \in StatusesOf(kind)
  PROVE  s \in Status
BY DEF Status

-----------------------------------------------------------------------------
(* The pieces of the state. *)

LEMMA BusyType ==
  ASSUME TypeOK, NEW p \in Request, req[p].pc \in {"commit", "audit", "row", "done"}
  PROVE  req[p] \in Busy
BY DEF TypeOK, Quiet, Idle

LEMMA RowType ==
  ASSUME TypeOK, NEW c \in Record
  PROVE  /\ row[c] \in Row /\ row[c].version \in 0..MaxVersion
         /\ row[c].version > 0 => row[c] \in StoredRow
         /\ row[c].version = 0 => row[c] = NoRow
BY RecordAssumption DEF TypeOK, Row, NoRow, StoredRow

LEMMA KindType == ASSUME NEW c \in Record PROVE KindOf[c] \in Kind
BY RecordAssumption

LEMMA FailedType == \A err : Failed(err) \in Quiet
BY DEF Failed, Quiet, Failure, handleError

LEMMA CallType ==
  ASSUME NEW op \in Op, NEW c \in Record
  PROVE  Call(op, c) \in Busy
BY RecordAssumption DEF Call, Busy, Row

LEMMA SendableType ==
  ASSUME NEW c \in Record, NEW v \in Sendable(c)
  PROVE  v \in 0..(MaxVersion - 1) /\ v \in Nat /\ v > 0
BY RecordAssumption DEF Sendable

-----------------------------------------------------------------------------
(* What a write does. *)

\* The row a write that succeeds leaves, and the one it has found.
LEMMA ApplyWrites ==
  ASSUME TypeOK, LoadedRowIsChecked, NEW p \in Request, At(p, "commit"),
         CommitOutcome(req[p]) = "ok", Apply(req[p])
  PROVE  LET r == req[p]  c == r.record IN
         /\ r \in Busy /\ c \in Record
         /\ row' = [row EXCEPT ![c] = row'[c]]
         /\ row'[c] \in StoredRow
         /\ r.op = "create" => /\ row[c] = NoRow
                               /\ row'[c] = NewRow(InitialStatusOf(KindOf[c]), r.fields)
         /\ r.op # "create" => Visible(row[c]) /\ row[c] \in StoredRow
         /\ r.op \in {"update", "transition"} =>
              /\ row[c].version = r.expected /\ row'[c].version = r.expected + 1
              /\ row'[c].deleted = FALSE
         /\ r.op = "update" =>
              row'[c] = [version |-> r.expected + 1, status |-> r.current.status,
                         fields |-> r.fields, deleted |-> FALSE]
         /\ r.op = "transition" =>
              row'[c] = [version |-> r.expected + 1, status |-> r.target,
                         fields |-> r.current.fields, deleted |-> FALSE]
         /\ r.op = "delete" => row'[c] = [row[c] EXCEPT !.deleted = TRUE]
<1> DEFINE r == req[p]
           c == r.record
<1>1. r \in Busy /\ c \in Record
  BY BusyType DEF At, Busy
<1>2. r.op \in {"create", "update", "transition", "delete"}
  BY <1>1 DEF LoadedRowIsChecked, IsChecked, At, Busy, Op
<1>3. KindOf[c] \in Kind /\ row[c] \in Row
  BY <1>1, RowType, KindType
<1>4. row' = [row EXCEPT ![c] = row'[c]]
  BY <1>1 DEF Apply, TypeOK
<1>5. CASE r.op = "create"
  <2>1. row[c].version = 0
    BY <1>5 DEF CommitOutcome
  <2>2. row[c] = NoRow
    BY <1>1, <2>1, RowType
  <2>3. row'[c] = [NewRow(InitialStatusOf(KindOf[c]), r.fields) EXCEPT !.deleted = FALSE]
    BY <1>1, <1>5, <2>2 DEF Apply, TypeOK, Written, NoRow
  <2>4. row'[c] = NewRow(InitialStatusOf(KindOf[c]), r.fields)
    BY <2>3 DEF NewRow
  <2>5. r.fields \in Fields
    BY <1>1, <1>5 DEF LoadedRowIsChecked, IsChecked, At, Busy
  <2>6. InitialStatusOf(KindOf[c]) \in Status
    BY <1>3, FirstStatuses, StatusOfKind
  <2>7. row'[c] \in StoredRow
    BY <2>4, <2>5, <2>6, RecordAssumption DEF NewRow, StoredRow
  <2> QED
    BY <1>1, <1>4, <1>5, <2>2, <2>4, <2>7
<1>6. CASE r.op \in {"update", "transition"}
  <2>1. Visible(row[c]) /\ row[c].version = r.expected
    BY <1>6 DEF CommitOutcome, Swappable
  <2>2. row[c] \in StoredRow /\ row[c].deleted = FALSE
    BY <1>1, <2>1, RowType DEF Visible, StoredRow
  <2>3. /\ r.current \in StoredRow
        /\ r.op = "update" => r.fields \in Fields
        /\ r.op = "transition" => r.target \in Status
    <3>1. /\ r.op # "create" => r.current \in StoredRow
          /\ r.op = "update" => r.fields # BlankFields
          /\ r.op = "transition" =>
               CanTransition(GraphOf(KindOf[c]), r.current.status, r.target)
      BY DEF LoadedRowIsChecked, IsChecked, At
    <3>2. r.op = "transition" => r.target \in Status
      BY <1>3, <3>1, GraphsAreClosed, StatusOfKind
    <3> QED
      BY <1>1, <1>6, <3>1, <3>2 DEF Busy
  <2>4. r.expected + 1 \in 1..MaxVersion
    BY <1>1, RecordAssumption DEF Busy
  <2>5. row'[c] = [Written(r) EXCEPT !.deleted = FALSE]
    BY <1>1, <1>6, <2>2 DEF Apply, TypeOK
  <2>6. CASE r.op = "update"
    <3>1. Written(r) = [r.current EXCEPT !.version = r.expected + 1, !.fields = r.fields]
      BY <2>6 DEF Written
    <3>2. row'[c] = [version |-> r.expected + 1, status |-> r.current.status,
                     fields |-> r.fields, deleted |-> FALSE]
      BY <2>3, <2>5, <3>1 DEF StoredRow
    <3>3. row'[c] \in StoredRow
      BY <2>3, <2>4, <2>6, <3>2 DEF StoredRow
    <3> QED
      BY <1>1, <1>4, <2>1, <2>2, <2>6, <3>2, <3>3
  <2>7. CASE r.op = "transition"
    <3>1. Written(r) = [r.current EXCEPT !.version = r.expected + 1, !.status = r.target]
      BY <2>7 DEF Written
    <3>2. row'[c] = [version |-> r.expected + 1, status |-> r.target,
                     fields |-> r.current.fields, deleted |-> FALSE]
      BY <2>3, <2>5, <3>1 DEF StoredRow
    <3>3. row'[c] \in StoredRow
      BY <2>3, <2>4, <2>7, <3>2 DEF StoredRow
    <3> QED
      BY <1>1, <1>4, <2>1, <2>2, <2>7, <3>2, <3>3
  <2> QED
    BY <1>6, <2>6, <2>7
<1>7. CASE r.op = "delete"
  <2>1. Visible(row[c])
    BY <1>7 DEF CommitOutcome
  <2>2. row[c] \in StoredRow
    BY <1>1, <2>1, RowType DEF Visible
  <2>3. row'[c] = [row[c] EXCEPT !.deleted = TRUE]
    BY <1>1, <1>7 DEF Apply, TypeOK
  <2>4. row'[c] \in StoredRow
    BY <2>2, <2>3 DEF StoredRow
  <2> QED
    BY <1>1, <1>4, <1>7, <2>1, <2>2, <2>3, <2>4
<1> QED
  BY <1>2, <1>5, <1>6, <1>7


\* Every step leaves the tables alone or is one successful write.
LEMMA StepTables ==
  ASSUME [Next]_vars
  PROVE  \/ row' = row
         \/ \E p \in Request :
              At(p, "commit") /\ CommitOutcome(req[p]) = "ok" /\ Apply(req[p])
<1>1. ASSUME NEW p \in Request, Arrive(p)
      PROVE  row' = row
  BY <1>1 DEF Arrive, Create, Update, Transition, Delete, Get, Begin
<1>2. ASSUME NEW p \in Request, Refuse(p) \/ WriteAudit(p) \/ ReadRow(p) \/ Deliver(p)
                                \/ StatementFails(p) \/ AuditFails(p)
      PROVE  row' = row
  BY <1>2 DEF Refuse, WriteAudit, ReadRow, Deliver, StatementFails, AuditFails
<1>3. ASSUME NEW p \in Request, Commit(p) \/ CommitUnreported(p)
      PROVE  At(p, "commit") /\ CommitOutcome(req[p]) = "ok" /\ Apply(req[p])
  BY <1>3 DEF Commit, CommitUnreported
<1>4. CASE Crash \/ UNCHANGED vars
  BY <1>4 DEF Crash, vars
<1> QED
  BY <1>1, <1>2, <1>3, <1>4 DEF Next, Step, Fail

\* What may become of one row: it is inserted, written again or deleted.
LEMMA RowStep ==
  ASSUME TypeOK, LoadedRowIsChecked, [Next]_vars, NEW c \in Record
  PROVE  \/ row'[c] = row[c]
         \/ row[c] = NoRow /\ row'[c].version = 1 /\ row'[c] \in StoredRow
         \/ /\ Visible(row[c]) /\ row[c] \in StoredRow /\ row'[c] \in StoredRow
            /\ row'[c].version = row[c].version + 1
            /\ ~row'[c].deleted
         \/ /\ Visible(row[c]) /\ row[c] \in StoredRow
            /\ row'[c] = [row[c] EXCEPT !.deleted = TRUE]
<1>1. ASSUME NEW p \in Request, At(p, "commit"), CommitOutcome(req[p]) = "ok",
             Apply(req[p]), req[p].record = c
      PROVE  \/ row[c] = NoRow /\ row'[c].version = 1 /\ row'[c] \in StoredRow
             \/ /\ Visible(row[c]) /\ row[c] \in StoredRow /\ row'[c] \in StoredRow
                /\ row'[c].version = row[c].version + 1
                /\ ~row'[c].deleted
             \/ /\ Visible(row[c]) /\ row[c] \in StoredRow
                /\ row'[c] = [row[c] EXCEPT !.deleted = TRUE]
  <2>1. req[p].op \in {"create", "update", "transition", "delete"}
    BY <1>1, BusyType DEF LoadedRowIsChecked, IsChecked, At, Busy, Op
  <2>2. CASE req[p].op = "create"
    <3>1. /\ row[c] = NoRow /\ row'[c] \in StoredRow
          /\ row'[c] = NewRow(InitialStatusOf(KindOf[c]), req[p].fields)
      BY <1>1, <2>2, ApplyWrites
    <3> QED
      BY <3>1 DEF NewRow
  <2>3. CASE req[p].op \in {"update", "transition"}
    BY <1>1, <2>3, ApplyWrites
  <2>4. CASE req[p].op = "delete"
    BY <1>1, <2>4, ApplyWrites
  <2> QED
    BY <2>1, <2>2, <2>3, <2>4
<1>2. ASSUME NEW p \in Request, At(p, "commit"), CommitOutcome(req[p]) = "ok",
             Apply(req[p]), req[p].record # c
      PROVE  row'[c] = row[c]
  <2>1. row' = [row EXCEPT ![req[p].record] = row'[req[p].record]]
    BY <1>2, ApplyWrites
  <2> QED
    BY <1>2, <2>1 DEF TypeOK
<1> QED
  BY <1>1, <1>2, StepTables

\* So versions only grow, and deletions and, at one version, contents stay.
LEMMA RowOnlyGrows ==
  ASSUME TypeOK, LoadedRowIsChecked, [Next]_vars, NEW c \in Record
  PROVE  /\ row[c].version <= row'[c].version
         /\ row[c].deleted => row'[c].deleted
         /\ row'[c].version = row[c].version =>
              /\ row'[c].status = row[c].status /\ row'[c].fields = row[c].fields
              /\ ~row'[c].deleted => row'[c] = row[c]
<1>1. row[c].version \in Nat
  BY RowType, RecordAssumption
<1>2. CASE row[c] = NoRow /\ row'[c].version = 1
  BY <1>2 DEF NoRow
<1>3. CASE Visible(row[c]) /\ row'[c].version = row[c].version + 1
  BY <1>1, <1>3 DEF Visible
<1>4. CASE row[c] \in StoredRow /\ row'[c] = [row[c] EXCEPT !.deleted = TRUE]
  BY <1>1, <1>4 DEF StoredRow
<1> QED
  BY <1>1, <1>2, <1>3, <1>4, RowStep

-----------------------------------------------------------------------------
(* The tables. *)

LEMMA InitTables ==
  ASSUME Init
  PROVE  row \in [Record -> Row] /\ StatusInGraph
<1>1. ASSUME NEW c \in Record
      PROVE  row[c] \in Row /\ (row[c].version > 0 => row[c].status \in StatusesOf(KindOf[c]))
  <2>1. row[c] \in IF c \in Seeded THEN SeedRows(KindOf[c]) ELSE {NoRow}
    BY DEF Init, SeedTables
  <2>2. CASE row[c] = NoRow
    BY <2>2 DEF Row, NoRow
  <2>3. CASE row[c] \in SeedRows(KindOf[c])
    <3>1. PICK s \in SeedStatuses(KindOf[c]) : row[c] = NewRow(s, SeedFields)
      BY <2>3 DEF SeedRows
    <3>2. s \in StatusesOf(KindOf[c]) /\ s \in Status
      BY KindType, FirstStatuses, StatusOfKind
    <3> QED
      BY <3>1, <3>2, RecordAssumption DEF NewRow, Row, StoredRow
  <2> QED
    BY <2>1, <2>2, <2>3
<1>2. row \in [Record -> {NoRow} \cup UNION {SeedRows(kind) : kind \in Kind}]
  BY DEF Init, SeedTables
<1>3. row \in [Record -> Row]
  BY <1>1, <1>2
<1> QED
  BY <1>1, <1>3 DEF StatusInGraph

LEMMA TablesStep ==
  ASSUME TypeOK, StatusInGraph, LoadedRowIsChecked, [Next]_vars
  PROVE  row' \in [Record -> Row] /\ StatusInGraph'
<1>1. CASE row' = row
  BY <1>1 DEF TypeOK, StatusInGraph
<1>2. ASSUME NEW p \in Request, At(p, "commit"), CommitOutcome(req[p]) = "ok", Apply(req[p])
      PROVE  row' \in [Record -> Row] /\ StatusInGraph'
  <2> DEFINE r == req[p]
             c == req[p].record
  <2>1. /\ c \in Record /\ row' = [row EXCEPT ![c] = row'[c]] /\ row'[c] \in StoredRow
        /\ r \in Busy
    BY <1>2, ApplyWrites
  <2>2. row' \in [Record -> Row] /\ \A d \in Record : d # c => row'[d] = row[d]
    BY <2>1 DEF TypeOK, Row
  <2>3. row'[c].status \in StatusesOf(KindOf[c])
    <3>1. r.op \in {"create", "update", "transition", "delete"} /\ KindOf[c] \in Kind
      BY <1>2, <2>1, KindType DEF LoadedRowIsChecked, IsChecked, At, Busy, Op
    <3>2. CASE r.op = "create"
      <4>1. row'[c] = NewRow(InitialStatusOf(KindOf[c]), r.fields)
        BY <1>2, <3>2, ApplyWrites
      <4> QED
        BY <3>1, <4>1, FirstStatuses DEF NewRow
    <3>3. CASE r.op = "update"
      <4>1. row'[c] = [version |-> r.expected + 1, status |-> r.current.status,
                       fields |-> r.fields, deleted |-> FALSE]
        BY <1>2, <3>3, ApplyWrites
      <4> QED
        BY <1>2, <3>3, <4>1 DEF LoadedRowIsChecked, IsChecked, At
    <3>4. CASE r.op = "transition"
      <4>1. row'[c] = [version |-> r.expected + 1, status |-> r.target,
                       fields |-> r.current.fields, deleted |-> FALSE]
        BY <1>2, <3>4, ApplyWrites
      <4>2. CanTransition(GraphOf(KindOf[c]), r.current.status, r.target)
        BY <1>2, <3>4 DEF LoadedRowIsChecked, IsChecked, At
      <4> QED
        BY <3>1, <4>1, <4>2, GraphsAreClosed
    <3>5. CASE r.op = "delete"
      <4>1. /\ Visible(row[c]) /\ row[c] \in StoredRow
            /\ row'[c] = [row[c] EXCEPT !.deleted = TRUE]
        BY <1>2, <3>5, ApplyWrites
      <4>2. row'[c].status = row[c].status
        BY <4>1 DEF StoredRow
      <4> QED
        BY <2>1, <4>1, <4>2 DEF StatusInGraph, Visible
    <3> QED
      BY <3>1, <3>2, <3>3, <3>4, <3>5
  <2> QED
    BY <2>2, <2>3 DEF StatusInGraph
<1> QED
  BY <1>1, <1>2, StepTables

-----------------------------------------------------------------------------
(* The requests. *)

LEMMA ServeMovesOne ==
  ASSUME TypeOK, NEW p \in Request, NEW r \in Quiet \cup Busy, Serve(p, r)
  PROVE  /\ req' \in [Request -> Quiet \cup Busy]
         /\ req'[p] = r
         /\ \A q \in Request : q # p => req'[q] = req[q]
BY DEF TypeOK, Serve

\* What the invariants say of one request.
Typed(q) == req[q] \in Quiet \cup Busy

Sound(q) ==
  /\ At(q, "commit") /\ req[q].op \in {"update", "transition"} =>
       IsPast(req[q], row[req[q].record])
  /\ req[q].pc \in {"commit", "audit"} => IsChecked(req[q])
  /\ req[q].pc \in {"commit", "audit", "row", "done"} => IsKept(q)

LEMMA SoundRequests ==
  (\A q \in Request : Sound(q)) <=> LoadedRowIsPast /\ LoadedRowIsChecked /\ WriteIsKept
BY DEF Sound, LoadedRowIsPast, LoadedRowIsChecked, WriteIsKept

LEMMA QuietIsSound ==
  ASSUME NEW q \in Request, req[q] \in Quiet
  PROVE  Sound(q)
BY DEF Sound, Quiet, Idle, At

\* The audit log is only appended to.
LEMMA AuditStep ==
  ASSUME TypeOK, [Next]_vars
  PROVE  \/ audit' = audit
         \/ \E p \in Request : At(p, "audit") /\ audit' = Append(audit, EntryOf(p))
<1>1. ASSUME NEW p \in Request, Arrive(p)
      PROVE  audit' = audit
  BY <1>1 DEF Arrive, Create, Update, Transition, Delete, Get, Begin
<1> QED
  BY <1>1 DEF Next, Step, Fail, Commit, Refuse, WriteAudit, ReadRow, Deliver,
              StatementFails, CommitUnreported, AuditFails, Crash, vars

LEMMA AuditOnlyGrows ==
  ASSUME TypeOK, [Next]_vars
  PROVE  \A i \in DOMAIN audit : i \in DOMAIN audit' /\ audit'[i] = audit[i]
<1>1. audit \in Seq(AuditEntry)
  BY DEF TypeOK
<1>2. ASSUME NEW e, audit' = Append(audit, e)
      PROVE  \A i \in DOMAIN audit : i \in DOMAIN audit' /\ audit'[i] = audit[i]
  BY <1>1, <1>2
<1> QED
  BY <1>2, AuditStep

\* Whatever others do, a request that does not move stays sound.
LEMMA UnmovedStaysSound ==
  ASSUME IInv, [Next]_vars, NEW q \in Request, req'[q] = req[q]
  PROVE  Sound(q)'
<1> DEFINE r == req[q]
           c == r.record
<1>1. CASE r.pc \notin {"commit", "audit", "row", "done"}
  BY <1>1 DEF Sound, At
<1>2. CASE r.pc \in {"commit", "audit", "row", "done"}
  <2>1. TypeOK /\ LoadedRowIsChecked /\ Sound(q)
    BY SoundRequests DEF IInv
  <2>2. r \in Busy /\ c \in Record
    BY <1>2, <2>1, BusyType DEF Busy
  <2>3. /\ row[c].version <= row'[c].version
        /\ row[c].deleted => row'[c].deleted
        /\ row'[c].version = row[c].version =>
              /\ row'[c].status = row[c].status /\ row'[c].fields = row[c].fields
              /\ ~row'[c].deleted => row'[c] = row[c]
    BY <2>1, <2>2, RowOnlyGrows
  <2>4. /\ row[c].version \in Nat /\ row'[c].version \in Nat /\ r.current.version \in Nat
        /\ r.expected \in Nat
    <3>1. row'[c] \in Row
      BY <2>1, <2>2, TablesStep DEF IInv
    <3>2. \A x \in Row : x.version \in Nat
      BY RecordAssumption DEF Row, NoRow, StoredRow
    <3> QED
      BY <2>1, <2>2, <3>1, <3>2, RowType, RecordAssumption DEF Busy
  <2>5. At(q, "commit") /\ r.op \in {"update", "transition"} => IsPast(r, row'[c])
    <3> SUFFICES ASSUME At(q, "commit"), r.op \in {"update", "transition"}
                 PROVE  IsPast(r, row'[c])
      OBVIOUS
    <3>1. /\ r.current.version \in 1..row[c].version
          /\ r.current.version = row[c].version /\ ~row[c].deleted => r.current = row[c]
          /\ ~PredictVersions => r.expected <= r.current.version
      BY <2>1 DEF Sound, IsPast
    <3>2. r.current.version = row'[c].version /\ ~row'[c].deleted => r.current = row'[c]
      BY <2>3, <2>4, <3>1
    <3> QED
      BY <2>3, <2>4, <3>1, <3>2 DEF IsPast
  <2>6. IsKept(q)'
    <3>1. IsKept(q)
      BY <1>2, <2>1 DEF Sound
    <3>2. Holds(row[c], r) => Holds(row'[c], r)
      BY <2>3, <2>4 DEF Holds
    <3>3. IsAudited(q) => IsAudited(q)'
      BY <2>1, AuditOnlyGrows DEF IsAudited
    <3>4. r.current.version <= row[c].version => r.current.version <= row'[c].version
      BY <2>3, <2>4
    <3> QED
      BY <2>3, <3>1, <3>2, <3>3, <3>4 DEF IsKept
  <2> QED
    BY <2>1, <2>5, <2>6 DEF Sound, At
<1> QED
  BY <1>1, <1>2

\* One request moves and is typed and sound, the others stay as they are.
Moves(p) ==
  /\ req' \in [Request -> Quiet \cup Busy]
  /\ \A q \in Request : q # p => req'[q] = req[q]
  /\ Sound(p)'

LEMMA QuietMoves ==
  ASSUME TypeOK, NEW p \in Request, NEW r \in Quiet, Serve(p, r)
  PROVE  Moves(p)
<1>1. /\ req' \in [Request -> Quiet \cup Busy] /\ req'[p] = r
      /\ \A q \in Request : q # p => req'[q] = req[q]
  BY ServeMovesOne
<1>2. Sound(p)'
  BY <1>1 DEF Sound, Quiet, Idle, At
<1> QED
  BY <1>1, <1>2 DEF Moves

\* A request that passes its checks starts with a copy of the current row.
LEMMA BeginMoves ==
  ASSUME TypeOK, NEW p \in Request, NEW r \in Busy, NEW verdict, Begin(p, r, verdict),
         verdict = "ok" =>
           /\ r.current.version <= row[r.record].version
           /\ \/ r.pc = "done" /\ r.op = "get"
              \/ /\ r.pc = "commit" /\ IsChecked(r)
                 /\ r.op \in {"update", "transition"} => IsPast(r, row[r.record])
  PROVE  Moves(p)
<1>1. CASE verdict # "ok"
  BY <1>1, FailedType, QuietMoves DEF Begin
<1>2. CASE verdict = "ok"
  <2>1. Serve(p, r) /\ row' = row
    BY <1>2 DEF Begin
  <2>2. /\ req' \in [Request -> Quiet \cup Busy] /\ req'[p] = r
        /\ \A q \in Request : q # p => req'[q] = req[q]
    BY <2>1, ServeMovesOne
  <2>3. IsKept(p)'
    BY <1>2, <2>1, <2>2 DEF IsKept
  <2>4. Sound(p)'
    BY <1>2, <2>1, <2>2, <2>3 DEF Sound, At
  <2> QED
    BY <2>2, <2>4 DEF Moves
<1> QED
  BY <1>1, <1>2

\* A visible row is a good starting point.
LEMMA LoadedIsStored ==
  ASSUME TypeOK, StatusInGraph, NEW c \in Record, Visible(row[c])
  PROVE  /\ row[c] \in StoredRow /\ row[c].deleted = FALSE
         /\ row[c].status \in StatusesOf(KindOf[c])
         /\ row[c].version \in 1..row[c].version
BY RowType DEF Visible, StatusInGraph, StoredRow

LEMMA ArriveMoves ==
  ASSUME IInv, NEW p \in Request, Arrive(p)
  PROVE  Moves(p)
<1>0. TypeOK /\ StatusInGraph
  BY DEF IInv
<1>1. CASE Create(p)
  <2>1. PICK c \in Record, f \in Fields \cup {BlankFields} :
          Begin(p, [Call("create", c) EXCEPT !.fields = f],
                IF f = BlankFields THEN "invalid" ELSE "ok")
    BY <1>1 DEF Create
  <2> DEFINE r == [Call("create", c) EXCEPT !.fields = f]
  <2>2. r \in Busy
    BY CallType DEF Busy, Op
  <2>3. r.op = "create" /\ r.pc = "commit" /\ r.expected = 0 /\ r.fields = f /\ r.record = c
        /\ r.current = NoRow
    BY DEF Call
  <2>4. r.current.version <= row[c].version
    BY <1>0, <2>3, RowType, RecordAssumption DEF NoRow
  <2>5. f # BlankFields => IsChecked(r)
    BY <2>3 DEF IsChecked
  <2> HIDE DEF r
  <2> QED
    BY <1>0, <2>1, <2>2, <2>3, <2>4, <2>5, BeginMoves DEF r
<1>2. CASE Update(p)
  <2>1. PICK c \in Record, f \in Fields \cup {BlankFields} : \E v \in Sendable(c) :
          LET r == [Call("update", c) EXCEPT !.expected = v, !.fields = f, !.current = row[c]]
          IN  Begin(p, r, UpdateVerdict(r))
    BY <1>2 DEF Update
  <2>2. PICK v \in Sendable(c) :
          LET r == [Call("update", c) EXCEPT !.expected = v, !.fields = f, !.current = row[c]]
          IN  Begin(p, r, UpdateVerdict(r))
    BY <2>1
  <2> DEFINE r == [Call("update", c) EXCEPT !.expected = v, !.fields = f, !.current = row[c]]
  <2>3. r \in Busy
    <3>1. Call("update", c) \in Busy
      BY CallType DEF Op
    <3> QED
      BY <1>0, <3>1, SendableType, RowType DEF Busy
  <2>4. r.op = "update" /\ r.pc = "commit" /\ r.expected = v /\ r.fields = f /\ r.record = c
        /\ r.current = row[c]
    BY DEF Call
  <2>5. r.current.version <= row[c].version
    BY <1>0, <2>4, RowType, RecordAssumption
  <2>6. v > 0 /\ (~PredictVersions => v <= row[c].version)
    BY SendableType DEF Sendable
  <2>7. UpdateVerdict(r) = "ok" => IsChecked(r) /\ IsPast(r, row[c])
    <3> SUFFICES ASSUME UpdateVerdict(r) = "ok" PROVE IsChecked(r) /\ IsPast(r, row[c])
      OBVIOUS
    <3> HIDE DEF r
    <3>1. Visible(row[c]) /\ f # BlankFields
      BY <2>4 DEF UpdateVerdict
    <3> QED
      BY <1>0, <2>4, <2>6, <3>1, LoadedIsStored DEF IsChecked, IsPast
  <2> HIDE DEF r
  <2>8. Begin(p, r, UpdateVerdict(r))
    BY <2>2 DEF r
  <2> QED
    BY <1>0, <2>3, <2>4, <2>5, <2>7, <2>8, BeginMoves
<1>3. CASE Transition(p)
  <2>1. PICK c \in Record, s \in Target : \E v \in Sendable(c) :
          LET r == [Call("transition", c) EXCEPT !.expected = v, !.target = s, !.current = row[c]]
          IN  Begin(p, r, TransitionVerdict(r))
    BY <1>3 DEF Transition
  <2>2. PICK v \in Sendable(c) :
          LET r == [Call("transition", c) EXCEPT !.expected = v, !.target = s, !.current = row[c]]
          IN  Begin(p, r, TransitionVerdict(r))
    BY <2>1
  <2> DEFINE r == [Call("transition", c) EXCEPT !.expected = v, !.target = s, !.current = row[c]]
  <2>3. r \in Busy
    <3>1. Call("transition", c) \in Busy
      BY CallType DEF Op
    <3> QED
      BY <1>0, <3>1, SendableType, RowType DEF Busy
  <2>4. r.op = "transition" /\ r.pc = "commit" /\ r.expected = v /\ r.target = s /\ r.record = c
        /\ r.current = row[c]
    BY DEF Call
  <2>5. r.current.version <= row[c].version
    BY <1>0, <2>4, RowType, RecordAssumption
  <2>6. v > 0 /\ (~PredictVersions => v <= row[c].version)
    BY SendableType DEF Sendable
  <2>7. TransitionVerdict(r) = "ok" => IsChecked(r) /\ IsPast(r, row[c])
    <3> SUFFICES ASSUME TransitionVerdict(r) = "ok" PROVE IsChecked(r) /\ IsPast(r, row[c])
      OBVIOUS
    <3> HIDE DEF r
    <3>1. Visible(row[c]) /\ CanTransition(GraphOf(KindOf[c]), row[c].status, s)
      BY <2>4 DEF TransitionVerdict
    <3> QED
      BY <1>0, <2>4, <2>6, <3>1, LoadedIsStored DEF IsChecked, IsPast
  <2> HIDE DEF r
  <2>8. Begin(p, r, TransitionVerdict(r))
    BY <2>2 DEF r
  <2> QED
    BY <1>0, <2>3, <2>4, <2>5, <2>7, <2>8, BeginMoves
<1>4. CASE Delete(p)
  <2>1. PICK c \in Record :
          Begin(p, [Call("delete", c) EXCEPT !.current = row[c]],
                IF Visible(row[c]) THEN "ok" ELSE "not_found")
    BY <1>4 DEF Delete
  <2> DEFINE r == [Call("delete", c) EXCEPT !.current = row[c]]
  <2>2. r \in Busy
    <3>1. Call("delete", c) \in Busy
      BY CallType DEF Op
    <3> QED
      BY <1>0, <3>1, RowType DEF Busy
  <2>3. r.op = "delete" /\ r.pc = "commit" /\ r.record = c /\ r.current = row[c]
    BY DEF Call
  <2>4. r.current.version <= row[c].version
    BY <1>0, <2>3, RowType, RecordAssumption
  <2> HIDE DEF r
  <2>5. Visible(row[c]) => IsChecked(r)
    BY <1>0, <2>3, LoadedIsStored DEF IsChecked
  <2>6. Begin(p, r, IF Visible(row[c]) THEN "ok" ELSE "not_found")
    BY <2>1 DEF r
  <2> QED
    BY <1>0, <2>2, <2>3, <2>4, <2>5, <2>6, BeginMoves
<1>5. CASE Get(p)
  <2>1. PICK c \in Record :
          Begin(p, [Call("get", c) EXCEPT !.pc = "done", !.current = row[c]],
                IF Visible(row[c]) THEN "ok" ELSE "not_found")
    BY <1>5 DEF Get
  <2> DEFINE r == [Call("get", c) EXCEPT !.pc = "done", !.current = row[c]]
  <2>2. r \in Busy
    <3>1. Call("get", c) \in Busy
      BY CallType DEF Op
    <3> QED
      BY <1>0, <3>1, RowType DEF Busy
  <2>3. r.op = "get" /\ r.pc = "done" /\ r.record = c /\ r.current = row[c]
    BY DEF Call
  <2>4. r.current.version <= row[c].version
    BY <1>0, <2>3, RowType, RecordAssumption
  <2> HIDE DEF r
  <2>5. Begin(p, r, IF Visible(row[c]) THEN "ok" ELSE "not_found")
    BY <2>1 DEF r
  <2> QED
    BY <1>0, <2>2, <2>3, <2>4, <2>5, BeginMoves
<1> QED
  BY <1>1, <1>2, <1>3, <1>4, <1>5 DEF Arrive

\* After its write a request is no longer ahead of what the row holds.
LEMMA CommitMoves ==
  ASSUME IInv, NEW p \in Request, Commit(p)
  PROVE  Moves(p)
<1> DEFINE r == req[p]
           c == r.record
<1>1. /\ TypeOK /\ LoadedRowIsChecked /\ At(p, "commit")
      /\ CommitOutcome(r) = "ok" /\ Apply(r) /\ Sound(p)
  BY SoundRequests DEF IInv, Commit
<1>2. r \in Busy /\ c \in Record /\ row'[c] \in StoredRow /\ IsChecked(r) /\ IsKept(p)
  BY <1>1, ApplyWrites DEF Sound, At
<1>3. [r EXCEPT !.pc = "audit"] \in Busy
  BY <1>2 DEF Busy
<1>4. /\ req' \in [Request -> Quiet \cup Busy]
      /\ req'[p] = [r EXCEPT !.pc = "audit"]
      /\ \A q \in Request : q # p => req'[q] = req[q]
  BY <1>1, <1>3, ServeMovesOne DEF Commit
<1>5. /\ req'[p].pc = "audit" /\ req'[p].op = r.op /\ req'[p].record = c
      /\ req'[p].expected = r.expected /\ req'[p].fields = r.fields
      /\ req'[p].target = r.target /\ req'[p].current = r.current
  BY <1>2, <1>4 DEF Busy
<1>6. IsChecked(req'[p])
  BY <1>2, <1>5 DEF IsChecked
<1>7. r.op \in {"create", "update", "transition", "delete"}
  BY <1>2 DEF IsChecked, Busy, Op
<1>8. row[c].version \in Nat /\ r.current.version \in Nat /\ r.expected \in Nat
  <2>1. \A x \in Row : x.version \in Nat
    BY RecordAssumption DEF Row, NoRow, StoredRow
  <2> QED
    BY <1>1, <1>2, <2>1, RowType, RecordAssumption DEF Busy
<1>9. IsKept(p)'
  <2>1. r.current.version <= row[c].version
    BY <1>2 DEF IsKept
  <2>2. CASE r.op = "create"
    <3>1. row[c] = NoRow /\ row'[c] = NewRow(InitialStatusOf(KindOf[c]), r.fields)
      BY <1>1, <2>2, ApplyWrites
    <3>2. row[c].version = 0 /\ row'[c].version = 1 /\ row'[c].fields = r.fields
      BY <3>1 DEF NoRow, NewRow
    <3>3. r.expected = 0
      BY <1>2, <2>2 DEF IsChecked
    <3>4. Holds(row'[c], req'[p])
      BY <1>5, <2>2, <3>2, <3>3 DEF Holds
    <3>5. r.current.version <= row'[c].version
      BY <1>8, <2>1, <3>2
    <3> QED
      BY <1>5, <2>2, <3>4, <3>5 DEF IsKept
  <2>3. CASE r.op \in {"update", "transition"}
    <3>1. row[c].version = r.expected /\ row'[c].version = r.expected + 1
      BY <1>1, <2>3, ApplyWrites
    <3>2. r.op = "update" => row'[c].fields = r.fields
      <4> SUFFICES ASSUME r.op = "update" PROVE row'[c].fields = r.fields
        OBVIOUS
      <4>1. row'[c] = [version |-> r.expected + 1, status |-> r.current.status,
                       fields |-> r.fields, deleted |-> FALSE]
        BY <1>1, ApplyWrites
      <4> QED
        BY <4>1
    <3>3. r.op = "transition" => row'[c].status = r.target
      <4> SUFFICES ASSUME r.op = "transition" PROVE row'[c].status = r.target
        OBVIOUS
      <4>1. row'[c] = [version |-> r.expected + 1, status |-> r.target,
                       fields |-> r.current.fields, deleted |-> FALSE]
        BY <1>1, ApplyWrites
      <4> QED
        BY <4>1
    <3>4. Holds(row'[c], req'[p])
      BY <1>5, <1>8, <2>3, <3>1, <3>2, <3>3 DEF Holds
    <3>5. r.current.version <= row'[c].version
      BY <1>8, <2>1, <3>1
    <3> QED
      BY <1>5, <2>3, <3>4, <3>5 DEF IsKept
  <2>4. CASE r.op = "delete"
    <3>1. row[c] \in StoredRow /\ row'[c] = [row[c] EXCEPT !.deleted = TRUE]
      BY <1>1, <2>4, ApplyWrites
    <3>2. row'[c].deleted = TRUE /\ row'[c].version = row[c].version
      BY <3>1 DEF StoredRow
    <3> QED
      BY <1>5, <2>1, <2>4, <3>2 DEF IsKept
  <2> QED
    BY <1>7, <2>2, <2>3, <2>4
<1> QED
  BY <1>4, <1>5, <1>6, <1>9 DEF Moves, Sound, At

\* What becomes of a request whose audit entry is written, or whose missing
\* one goes unnoticed.
LEMMA AfterAuditMoves ==
  ASSUME IInv, NEW p \in Request, At(p, "audit"), Serve(p, AfterAudit(req[p])), row' = row,
         \/ audit' = Append(audit, EntryOf(p))
         \/ audit' = audit /\ req[p].op \in {"create", "update"}
  PROVE  Moves(p)
<1> DEFINE r == req[p]
           c == r.record
<1>1. TypeOK /\ LoadedRowIsChecked /\ Sound(p)
  BY SoundRequests DEF IInv
<1>2. r \in Busy /\ c \in Record /\ IsChecked(r) /\ IsKept(p)
  BY <1>1, BusyType DEF Sound, At, Busy
<1>3. r.op \in {"create", "update", "transition", "delete"} /\ KindOf[c] \in Kind
  BY <1>2, KindType DEF IsChecked, Busy, Op
<1>4. r.op = "create" => Written(r) = NewRow(InitialStatusOf(KindOf[c]), r.fields)
                         /\ Written(r) \in Row
  <2> SUFFICES ASSUME r.op = "create"
               PROVE  Written(r) = NewRow(InitialStatusOf(KindOf[c]), r.fields)
                      /\ Written(r) \in Row
    OBVIOUS
  <2>1. Written(r) = NewRow(InitialStatusOf(KindOf[c]), r.fields)
    BY DEF Written
  <2>2. r.fields \in Fields
    BY <1>2 DEF IsChecked, Busy
  <2>3. InitialStatusOf(KindOf[c]) \in Status
    BY <1>3, FirstStatuses, StatusOfKind
  <2> QED
    BY <2>1, <2>2, <2>3, RecordAssumption DEF NewRow, Row, StoredRow
<1>5. /\ AfterAudit(r) \in Busy
      /\ AfterAudit(r).op = r.op /\ AfterAudit(r).record = c
      /\ AfterAudit(r).expected = r.expected /\ AfterAudit(r).fields = r.fields
      /\ AfterAudit(r).target = r.target
      /\ r.op = "create" => AfterAudit(r).current = Written(r) /\ AfterAudit(r).pc = "done"
      /\ r.op # "create" => AfterAudit(r).current = r.current
      /\ r.op = "delete" => AfterAudit(r).pc = "done"
      /\ r.op \in {"update", "transition"} => AfterAudit(r).pc = "row"
  <2>1. CASE r.op = "create"
    <3>1. AfterAudit(r) = [r EXCEPT !.pc = "done", !.current = Written(r)]
      BY <2>1 DEF AfterAudit
    <3> QED
      BY <1>2, <1>4, <2>1, <3>1 DEF Busy
  <2>2. CASE r.op = "delete"
    <3>1. AfterAudit(r) = [r EXCEPT !.pc = "done"]
      BY <2>2 DEF AfterAudit
    <3> QED
      BY <1>2, <2>2, <3>1 DEF Busy
  <2>3. CASE r.op \in {"update", "transition"}
    <3>1. AfterAudit(r) = [r EXCEPT !.pc = "row"]
      BY <2>3 DEF AfterAudit
    <3> QED
      BY <1>2, <2>3, <3>1 DEF Busy
  <2> QED
    BY <1>3, <2>1, <2>2, <2>3
<1>6. /\ req' \in [Request -> Quiet \cup Busy]
      /\ req'[p] = AfterAudit(r)
      /\ \A q \in Request : q # p => req'[q] = req[q]
  BY <1>1, <1>5, ServeMovesOne
<1>7. r.op \in {"transition", "delete"} => IsAudited(p)'
  <2> SUFFICES ASSUME r.op \in {"transition", "delete"} PROVE IsAudited(p)'
    OBVIOUS
  <2>1. audit' = Append(audit, EntryOf(p)) /\ audit \in Seq(AuditEntry)
    BY <1>1 DEF TypeOK
  <2>2. Len(audit) + 1 \in DOMAIN audit' /\ audit'[Len(audit) + 1] = EntryOf(p)
    BY <2>1
  <2>3. EntryOf(p).action = r.op /\ EntryOf(p).record = c /\ EntryOf(p).request = p
    BY DEF EntryOf
  <2> QED
    BY <1>5, <1>6, <2>2, <2>3 DEF IsAudited
<1>8. IsKept(p)'
  <2>1. /\ r.current.version <= row[c].version
        /\ r.op \in {"create", "update", "transition"} => Holds(row[c], r)
        /\ r.op = "delete" => row[c].deleted
    BY <1>2 DEF IsKept, At
  <2>2. CASE r.op = "create"
    <3>1. r.expected = 0 /\ Written(r).version = 1 /\ Written(r).fields = r.fields
      BY <1>2, <1>4, <2>2 DEF IsChecked, NewRow
    <3>2. row[c].version >= 1
      BY <1>1, <1>2, <2>1, <2>2, <3>1, RowType, RecordAssumption DEF Holds
    <3>3. Holds(Written(r), req'[p]) /\ Holds(row[c], req'[p])
      BY <1>5, <1>6, <2>1, <2>2, <3>1 DEF Holds
    <3> QED
      BY <1>5, <1>6, <2>2, <3>1, <3>2, <3>3 DEF IsKept
  <2>3. CASE r.op = "delete"
    BY <1>5, <1>6, <1>7, <2>1, <2>3 DEF IsKept
  <2>4. CASE r.op \in {"update", "transition"}
    <3>1. Holds(row[c], req'[p])
      BY <1>5, <1>6, <2>1, <2>4 DEF Holds
    <3> QED
      BY <1>5, <1>6, <1>7, <2>1, <2>4, <3>1 DEF IsKept
  <2> QED
    BY <1>3, <2>2, <2>3, <2>4
<1>9. req'[p].pc \in {"row", "done"}
  BY <1>3, <1>5, <1>6
<1> QED
  BY <1>6, <1>8, <1>9 DEF Moves, Sound, At

LEMMA ReadRowMoves ==
  ASSUME IInv, NEW p \in Request, ReadRow(p)
  PROVE  Moves(p)
<1> DEFINE r == req[p]
           c == r.record
<1>1. TypeOK /\ Sound(p) /\ At(p, "row") /\ row' = row /\ audit' = audit
  BY SoundRequests DEF IInv, ReadRow
<1>2. r \in Busy /\ c \in Record /\ IsKept(p)
  BY <1>1, BusyType DEF Sound, At, Busy
<1>3. CASE ~Visible(row[c])
  BY <1>1, <1>3, FailedType, QuietMoves DEF ReadRow
<1>4. CASE Visible(row[c])
  <2> DEFINE answer == [r EXCEPT !.current = row[c], !.pc = "done"]
  <2>1. answer \in Busy
    BY <1>1, <1>2, RowType DEF Busy
  <2>2. Serve(p, answer)
    BY <1>4 DEF ReadRow
  <2>3. /\ req' \in [Request -> Quiet \cup Busy] /\ req'[p] = answer
        /\ \A q \in Request : q # p => req'[q] = req[q]
    BY <1>1, <2>1, <2>2, ServeMovesOne
  <2>4. /\ answer.pc = "done" /\ answer.op = r.op /\ answer.record = c
        /\ answer.expected = r.expected /\ answer.fields = r.fields
        /\ answer.target = r.target /\ answer.current = row[c]
    BY <1>2 DEF Busy
  <2> HIDE DEF answer
  <2>5. r.op \in {"update", "transition"} /\ Holds(row[c], r)
        /\ (r.op = "transition" => IsAudited(p))
    BY <1>1, <1>2 DEF IsKept, At
  <2>6. Holds(row[c], answer)
    BY <2>4, <2>5 DEF Holds
  <2>7. r.op = "transition" => IsAudited(p)'
    BY <1>1, <2>3, <2>4, <2>5 DEF IsAudited
  <2>8. row[c].version <= row[c].version
    BY <1>1, <1>2, RowType, RecordAssumption
  <2>9. IsKept(p)'
    BY <1>1, <2>3, <2>4, <2>5, <2>6, <2>7, <2>8 DEF IsKept
  <2> QED
    BY <2>3, <2>4, <2>9 DEF Moves, Sound, At
<1> QED
  BY <1>3, <1>4

-----------------------------------------------------------------------------
(* The inductive invariant. *)

LEMMA EntryType ==
  ASSUME TypeOK, LoadedRowIsChecked, NEW p \in Request, At(p, "audit")
  PROVE  EntryOf(p) \in AuditEntry
<1> DEFINE r == req[p]
<1>1. r \in Busy /\ IsChecked(r)
  BY BusyType DEF At, LoadedRowIsChecked
<1>2. r.op \in {"create", "update", "transition", "delete"} /\ KindOf[r.record] \in Kind
  BY <1>1, KindType DEF IsChecked, Busy, Op
<1>3. /\ r.op # "create" => r.current.status \in Status
      /\ r.op = "transition" => r.target \in Status
      /\ InitialStatusOf(KindOf[r.record]) \in Status
  <2>1. r.op = "transition" => r.target \in StatusesOf(KindOf[r.record])
    BY <1>1, <1>2, GraphsAreClosed DEF IsChecked
  <2> QED
    BY <1>1, <1>2, <2>1, FirstStatuses, StatusOfKind DEF IsChecked, StoredRow
<1> QED
  BY <1>1, <1>2, <1>3 DEF EntryOf, AuditEntry, Busy

\* A request writes its entry after its write.
LEMMA WritesOfStored ==
  ASSUME IInv, NEW p \in Request, At(p, "audit")
  PROVE  req[p].record \in Record /\ row[req[p].record].version > 0
<1> DEFINE r == req[p]
           now == row[r.record]
<1>1. r \in Busy /\ IsChecked(r) /\ IsKept(p) /\ r.record \in Record
  BY BusyType DEF IInv, LoadedRowIsChecked, WriteIsKept, At, Busy
<1>2. r.op \in {"create", "update", "transition", "delete"} /\ now.version \in Nat /\ r.expected \in Nat
  BY <1>1, RowType, RecordAssumption DEF IInv, IsChecked, Busy, Op
<1>3. CASE r.op = "delete"
  <2>1. r.current \in StoredRow /\ r.current.version <= now.version
    BY <1>1, <1>3 DEF IsChecked, IsKept
  <2>2. r.current.version \in Nat /\ r.current.version >= 1
    BY <2>1, RecordAssumption DEF StoredRow
  <2> QED
    BY <1>1, <1>2, <2>1, <2>2
<1>4. CASE r.op # "delete"
  <2>1. r.expected < now.version
    BY <1>1, <1>2, <1>4 DEF IsKept, Holds, At
  <2> QED
    BY <1>1, <1>2, <2>1
<1> QED
  BY <1>3, <1>4

LEMMA AuditedStaysStored ==
  ASSUME IInv, [Next]_vars, TypeOK'
  PROVE  AuditedIsStored'
<1>1. TypeOK /\ LoadedRowIsChecked /\ audit \in Seq(AuditEntry)
  BY DEF IInv, TypeOK
<1>2. ASSUME NEW c \in Record, row[c].version > 0
      PROVE  row'[c].version > 0
  <2>1. row[c].version \in Nat /\ row'[c].version \in Nat
    <3>1. \A x \in Row : x.version \in Nat
      BY RecordAssumption DEF Row, NoRow, StoredRow
    <3> QED
      BY <1>1, <3>1 DEF TypeOK
  <2> QED
    BY <1>1, <1>2, <2>1, RowOnlyGrows
<1>3. \A i \in DOMAIN audit : audit[i].record \in Record /\ row[audit[i].record].version > 0
  <2>1. \A i \in DOMAIN audit : audit[i] \in AuditEntry
    BY <1>1
  <2>2. \A e \in AuditEntry : e.record \in Record
    BY DEF AuditEntry
  <2> QED
    BY <2>1, <2>2 DEF IInv, AuditedIsStored
<1>4. CASE audit' = audit
  BY <1>2, <1>3, <1>4 DEF AuditedIsStored
<1>5. ASSUME NEW p \in Request, At(p, "audit"), audit' = Append(audit, EntryOf(p))
      PROVE  AuditedIsStored'
  <2>1. EntryOf(p).record \in Record /\ row[EntryOf(p).record].version > 0
    BY <1>5, WritesOfStored DEF EntryOf
  <2>2. \A i \in DOMAIN audit' : audit'[i] = EntryOf(p) \/ (i \in DOMAIN audit /\ audit'[i] = audit[i])
    BY <1>1, <1>5
  <2> QED
    BY <1>2, <1>3, <2>1, <2>2 DEF AuditedIsStored
<1> QED
  BY <1>1, <1>4, <1>5, AuditStep

LEMMA InitEstablishes == Init => IInv
<1> SUFFICES ASSUME Init PROVE IInv
  OBVIOUS
<1>1. TypeOK /\ StatusInGraph
  BY InitTables DEF Init, TypeOK, Quiet
<1>2. \A p \in Request : Sound(p)
  BY DEF Init, Idle, Sound, At
<1>3. AuditedIsStored
  BY DEF Init, AuditedIsStored
<1>4. IsCountable
  <2>1. {p \in Request : At(p, "audit")} = {}
    BY DEF Init, Idle, At
  <2> QED
    BY <2>1, FS_EmptySet DEF IsCountable
<1> QED
  BY <1>1, <1>2, <1>3, <1>4, SoundRequests DEF IInv

LEMMA InvariantStep == IInv /\ [Next]_vars => IInv'
<1> SUFFICES ASSUME IInv, [Next]_vars PROVE IInv'
  OBVIOUS
<1>1. TypeOK /\ StatusInGraph /\ LoadedRowIsChecked
  BY DEF IInv
<1>2. row' \in [Record -> Row] /\ StatusInGraph'
  BY <1>1, TablesStep
<1>3. audit' \in Seq(AuditEntry)
  BY <1>1, AuditStep, EntryType DEF TypeOK
<1>4. req' \in [Request -> Quiet \cup Busy] /\ (\A q \in Request : Sound(q)') /\ IsCountable'
  <2>1. ASSUME NEW p \in Request, Moves(p)
        PROVE  req' \in [Request -> Quiet \cup Busy] /\ (\A q \in Request : Sound(q)') /\ IsCountable'
    <3>1. req' \in [Request -> Quiet \cup Busy] /\ \A q \in Request : Sound(q)'
      BY <2>1, UnmovedStaysSound DEF Moves
    <3>2. {q \in Request : At(q, "audit")}' \subseteq {q \in Request : At(q, "audit")} \cup {p}
      BY <2>1 DEF Moves, At
    <3>3. IsFiniteSet({q \in Request : At(q, "audit")} \cup {p})
      BY FS_AddElement DEF IInv, IsCountable
    <3> QED
      BY <3>1, <3>2, <3>3, FS_Subset DEF IsCountable
  <2>2. ASSUME NEW p \in Request, Arrive(p)
        PROVE  Moves(p)
    BY <2>2, ArriveMoves
  <2>3. ASSUME NEW p \in Request, Commit(p)
        PROVE  Moves(p)
    BY <2>3, CommitMoves
  <2>4. ASSUME NEW p \in Request, Refuse(p) \/ StatementFails(p) \/ CommitUnreported(p)
        PROVE  Moves(p)
    BY <1>1, <2>4, FailedType, QuietMoves DEF Refuse, StatementFails, CommitUnreported
  <2>5. ASSUME NEW p \in Request, WriteAudit(p)
        PROVE  Moves(p)
    BY <2>5, AfterAuditMoves DEF WriteAudit
  <2>6. ASSUME NEW p \in Request, AuditFails(p)
        PROVE  Moves(p)
    <3>1. CASE req[p].op \in {"create", "update"}
      BY <2>6, <3>1, AfterAuditMoves DEF AuditFails
    <3>2. CASE req[p].op \notin {"create", "update"}
      BY <1>1, <2>6, <3>2, FailedType, QuietMoves DEF AuditFails
    <3> QED
      BY <3>1, <3>2
  <2>7. ASSUME NEW p \in Request, ReadRow(p)
        PROVE  Moves(p)
    BY <2>7, ReadRowMoves
  <2>8. ASSUME NEW p \in Request, Deliver(p)
        PROVE  Moves(p)
    BY <1>1, <2>8, QuietMoves DEF Deliver, Quiet
  <2>9. CASE Crash
    <3>1. req' = [p \in Request |-> Idle]
      BY <2>9 DEF Crash
    <3>2. {q \in Request : At(q, "audit")}' = {}
      BY <3>1 DEF Idle, At
    <3>3. IsCountable'
      BY <3>2, FS_EmptySet DEF IsCountable
    <3> QED
      BY <3>1, <3>3 DEF Quiet, Idle, Sound, At
  <2>10. CASE UNCHANGED vars
    <3>1. req' \in [Request -> Quiet \cup Busy] /\ \A q \in Request : Sound(q)'
      BY <1>1, <2>10, UnmovedStaysSound DEF vars, TypeOK
    <3>2. {q \in Request : At(q, "audit")}' = {q \in Request : At(q, "audit")}
      BY <2>10 DEF vars, At
    <3> QED
      BY <3>1, <3>2 DEF IInv, IsCountable
  <2> QED
    BY <2>1, <2>2, <2>3, <2>4, <2>5, <2>6, <2>7, <2>8, <2>9, <2>10 DEF Next, Step, Fail
<1>5. TypeOK'
  BY <1>2, <1>3, <1>4 DEF TypeOK
<1>6. AuditedIsStored'
  BY <1>5, AuditedStaysStored
<1> QED
  BY <1>2, <1>4, <1>5, <1>6
  DEF IInv, Sound, LoadedRowIsPast, LoadedRowIsChecked, WriteIsKept

\* Tables, requests and the audit log stay in their types, every status in its
\* graph, and what a handler holds between its statements is what the service
\* relies on.
THEOREM Invariance == Spec => []IInv
BY InitEstablishes, InvariantStep, PTL DEF Spec

-----------------------------------------------------------------------------
(* What it implies. *)

\* A write that is accepted finds the row as it was loaded, as no client is
\* ahead of its loaded row and no row has two contents of one version.
LEMMA SwapFindsLoaded ==
  ASSUME IInv, ~PredictVersions, NEW p \in Request, At(p, "commit"),
         req[p].op \in {"update", "transition"}, Swappable(req[p])
  PROVE  req[p].current = row[req[p].record]
<1> DEFINE r == req[p]
           now == row[r.record]
<1>1. r \in Busy /\ r.record \in Record
  BY BusyType DEF IInv, At, Busy
<1>2. now.version = r.expected /\ ~now.deleted
  BY DEF Swappable, Visible
<1>3. /\ r.current.version \in 1..now.version
      /\ r.current.version = now.version /\ ~now.deleted => r.current = now
      /\ r.expected <= r.current.version
  BY DEF IInv, LoadedRowIsPast, IsPast
<1>4. r.current.version = now.version
  BY <1>1, <1>2, <1>3, RecordAssumption DEF Busy
<1> QED
  BY <1>2, <1>3, <1>4

\* If clients only send versions they were shown, no update or transition
\* overwrites what it has not read.
THEOREM NothingIsLost == ~PredictVersions => (Spec => []NoLostUpdate)
<1> SUFFICES ASSUME ~PredictVersions PROVE Spec => []NoLostUpdate
  OBVIOUS
<1>1. IInv => NoLostUpdate
  BY SwapFindsLoaded DEF NoLostUpdate
<1> QED
  BY <1>1, Invariance, PTL

\* Whatever fails, and whichever versions clients send: an answer "ok" shows
\* what the request wrote or something later, and it is in the tables to stay.
THEOREM AnswersAreDurable == Spec => []AcknowledgedIsDurable
<1>1. IInv => AcknowledgedIsDurable
  <2> SUFFICES ASSUME IInv, NEW p \in Request, At(p, "done")
               PROVE  LET r == req[p] IN
                      /\ r.current.version <= row[r.record].version
                      /\ r.op \in {"create", "update", "transition"} => r.current.version > r.expected
                      /\ r.op # "get" /\ r.current.version = r.expected + 1 =>
                           /\ r.op = "transition" => r.current.status = r.target
                           /\ r.op \in {"create", "update"} => r.current.fields = r.fields
                      /\ r.op = "delete" => row[r.record].deleted
                      /\ r.op \in {"transition", "delete"} =>
                           \E i \in DOMAIN audit : audit[i].action = r.op
                                                   /\ audit[i].record = r.record
                                                   /\ audit[i].request = p
    BY DEF AcknowledgedIsDurable
  <2>1. IsKept(p) /\ req[p].pc = "done"
    BY DEF IInv, WriteIsKept, At
  <2>2. req[p] \in Busy
    BY <2>1, BusyType DEF IInv
  <2>3. req[p].expected \in Nat /\ req[p].current.version \in Nat
    <3>1. \A x \in Row : x.version \in Nat
      BY RecordAssumption DEF Row, NoRow, StoredRow
    <3> QED
      BY <2>2, <3>1, RecordAssumption DEF Busy
  <2> QED
    BY <2>1, <2>3 DEF IsKept, Holds, IsAudited
<1> QED
  BY <1>1, Invariance, PTL

\* A status only ever changes along the graph of the record's kind, although
\* an update writes back the status it has loaded.
THEOREM StatusesFollowTheGraph == ~PredictVersions => (Spec => StatusFollowsGraph)
<1> SUFFICES ASSUME ~PredictVersions PROVE Spec => StatusFollowsGraph
  OBVIOUS
<1>1. ASSUME IInv, Next, NEW c \in Record,
             row[c].version > 0, row'[c].status # row[c].status
      PROVE  CanTransition(GraphOf(KindOf[c]), row[c].status, row'[c].status)
  <2>1. TypeOK /\ LoadedRowIsChecked
    BY <1>1 DEF IInv
  <2>2. PICK p \in Request :
          At(p, "commit") /\ CommitOutcome(req[p]) = "ok" /\ Apply(req[p])
    BY <1>1, StepTables
  <2>3. /\ req[p].record \in Record
        /\ row' = [row EXCEPT ![req[p].record] = row'[req[p].record]]
        /\ req[p].op \in {"create", "update", "transition", "delete"}
    BY <2>1, <2>2, ApplyWrites DEF LoadedRowIsChecked, IsChecked, At, Busy, Op
  <2>4. req[p].record = c
    BY <1>1, <2>1, <2>3 DEF TypeOK
  <2>5. req[p].op # "create"
    <3> SUFFICES ASSUME req[p].op = "create" PROVE FALSE
      OBVIOUS
    <3>1. row[c] = NoRow
      BY <2>1, <2>2, <2>4, ApplyWrites
    <3> QED
      BY <1>1, <3>1 DEF NoRow
  <2>6. req[p].op # "delete"
    <3> SUFFICES ASSUME req[p].op = "delete" PROVE FALSE
      OBVIOUS
    <3>1. row[c] \in StoredRow /\ row'[c] = [row[c] EXCEPT !.deleted = TRUE]
      BY <2>1, <2>2, <2>4, ApplyWrites
    <3> QED
      BY <1>1, <3>1 DEF StoredRow
  <2>7. req[p].current = row[c]
    BY <1>1, <2>2, <2>3, <2>4, <2>5, <2>6, SwapFindsLoaded DEF CommitOutcome
  <2>8. req[p].op # "update"
    <3> SUFFICES ASSUME req[p].op = "update" PROVE FALSE
      OBVIOUS
    <3>1. row'[c] = [version |-> req[p].expected + 1, status |-> req[p].current.status,
                     fields |-> req[p].fields, deleted |-> FALSE]
      BY <2>1, <2>2, <2>4, ApplyWrites
    <3> QED
      BY <1>1, <2>7, <3>1
  <2>9. req[p].op = "transition"
    BY <2>3, <2>5, <2>6, <2>8
  <2>10. row'[c] = [version |-> req[p].expected + 1, status |-> req[p].target,
                    fields |-> req[p].current.fields, deleted |-> FALSE]
    BY <2>1, <2>2, <2>4, <2>9, ApplyWrites
  <2>11. CanTransition(GraphOf(KindOf[c]), req[p].current.status, req[p].target)
    BY <2>1, <2>2, <2>4, <2>9 DEF LoadedRowIsChecked, IsChecked, At
  <2> QED
    BY <2>7, <2>10, <2>11
<1>2. IInv /\ [Next]_vars =>
        [\A c \in Record : row[c].version > 0 /\ row'[c].status # row[c].status =>
           CanTransition(GraphOf(KindOf[c]), row[c].status, row'[c].status)]_vars
  BY <1>1
<1> QED
  BY <1>2, Invariance, PTL DEF Spec, StatusFollowsGraph

-----------------------------------------------------------------------------
(* The operations implement the register. *)

\* The instance speaks of the same data.
LEMMA RegisterData ==
  /\ Register!SeedTables = SeedTables
  /\ Register!NoRow = NoRow
  /\ Register!Status = Status
  /\ \A x : Register!Visible(x) <=> Visible(x)
  /\ \A s, f : Register!NewRow(s, f) = NewRow(s, f)
  /\ \A kind : Register!InitialStatusOf(kind) = InitialStatusOf(kind)
  /\ \A kind, s, t : Register!CanTransition(Register!GraphOf(kind), s, t)
                        <=> CanTransition(GraphOf(kind), s, t)
<1>1. Register!NoRow = NoRow /\ Register!Kind = Kind
  BY DEF Register!NoRow, NoRow, Register!Kind, Kind
<1>2. \A s, f : Register!NewRow(s, f) = NewRow(s, f)
  BY DEF Register!NewRow, NewRow
<1>3. \A kind : Register!InitialStatusOf(kind) = InitialStatusOf(kind)
  BY DEF Register!InitialStatusOf, InitialStatusOf,
         Register!BridgeAssetInitialStatus, BridgeAssetInitialStatus,
         Register!InspectionRoundInitialStatus, InspectionRoundInitialStatus,
         Register!DefectFindingInitialStatus, DefectFindingInitialStatus
<1>4. \A kind : Register!GraphOf(kind) = GraphOf(kind)
  BY DEF Register!GraphOf, GraphOf,
         Register!BridgeAssetTransitions, BridgeAssetTransitions,
         Register!InspectionRoundTransitions, InspectionRoundTransitions,
         Register!DefectFindingTransitions, DefectFindingTransitions
<1>5. Register!Status = Status
  BY <1>1, <1>4 DEF Register!Status, Status, Register!StatusesOf, StatusesOf
<1>6. \A kind : Register!SeedStatuses(kind) = SeedStatuses(kind)
  BY DEF Register!SeedStatuses, SeedStatuses
<1>7. \A kind : Register!SeedRows(kind) = SeedRows(kind)
  BY <1>2, <1>6 DEF Register!SeedRows, SeedRows
<1>8. Register!SeedTables = SeedTables
  BY <1>1, <1>7 DEF Register!SeedTables, SeedTables
<1>9. \A x : Register!Visible(x) <=> Visible(x)
  BY DEF Register!Visible, Visible
<1>10. \A kind, s, t : Register!CanTransition(Register!GraphOf(kind), s, t)
                          <=> CanTransition(GraphOf(kind), s, t)
  BY <1>4 DEF Register!CanTransition, CanTransition
<1> QED
  BY <1>1, <1>2, <1>3, <1>5, <1>8, <1>9, <1>10

\* A live row of which two columns change.
LEMMA RowEdited ==
  ASSUME NEW x \in StoredRow, x.deleted = FALSE, NEW v, NEW new,
         NEW y, y = [x EXCEPT !.fields = new, !.version = v]
  PROVE  y = [version |-> v, status |-> x.status, fields |-> new, deleted |-> FALSE]
BY DEF StoredRow

LEMMA RowMoved ==
  ASSUME NEW x \in StoredRow, x.deleted = FALSE, NEW v, NEW new,
         NEW y, y = [x EXCEPT !.status = new, !.version = v]
  PROVE  y = [version |-> v, status |-> new, fields |-> x.fields, deleted |-> FALSE]
BY DEF StoredRow

\* A successful write is one step of the register.
LEMMA WriteIsRegisterStep ==
  ASSUME IInv, ~PredictVersions, NEW p \in Request, At(p, "commit"),
         CommitOutcome(req[p]) = "ok", Apply(req[p])
  PROVE  Register!Next
<1> DEFINE r == req[p]
           c == r.record
<1>1. /\ TypeOK /\ LoadedRowIsChecked /\ r \in Busy /\ c \in Record
      /\ row' = [row EXCEPT ![c] = row'[c]] /\ IsChecked(r)
  BY ApplyWrites DEF IInv, LoadedRowIsChecked, At
<1>2. r.op \in {"create", "update", "transition", "delete"} /\ KindOf[c] \in Kind
  BY <1>1, KindType DEF IsChecked, Busy, Op
<1>3. CASE r.op = "create"
  <2>1. row[c] = NoRow /\ row'[c] = NewRow(InitialStatusOf(KindOf[c]), r.fields)
    BY <1>1, <1>3, ApplyWrites
  <2>2. r.fields \in Fields
    BY <1>1, <1>3 DEF IsChecked, Busy
  <2>3. Register!Enter(c, r.fields)
    BY <1>1, <2>1, RegisterData DEF Register!Enter
  <2> QED
    BY <1>1, <2>2, <2>3 DEF Register!Next
<1>4. CASE r.op = "update"
  <2>1. /\ Visible(row[c]) /\ row[c] \in StoredRow /\ row[c].version = r.expected
        /\ row[c].deleted = FALSE
    BY <1>1, <1>4, ApplyWrites DEF Visible, StoredRow
  <2>2. row'[c] = [version |-> r.expected + 1, status |-> r.current.status,
                   fields |-> r.fields, deleted |-> FALSE]
    BY <1>1, <1>4, ApplyWrites
  <2>3. r.current = row[c]
    BY <1>4, SwapFindsLoaded DEF CommitOutcome
  <2>4. row'[c] = [row[c] EXCEPT !.fields = r.fields, !.version = row[c].version + 1]
    <3>1. PICK y : y = [row[c] EXCEPT !.fields = r.fields, !.version = row[c].version + 1]
      OBVIOUS
    <3>2. y = [version |-> row[c].version + 1, status |-> row[c].status,
          fields |-> r.fields, deleted |-> FALSE]
      BY <2>1, <3>1, RowEdited
    <3> QED
      BY <2>1, <2>2, <2>3, <3>1, <3>2
  <2>5. row' = [row EXCEPT ![c].fields = r.fields, ![c].version = @ + 1]
    <3> DEFINE once == [row EXCEPT ![c] = [row[c] EXCEPT !.fields = r.fields]]
    <3>1. /\ once[c] = [row[c] EXCEPT !.fields = r.fields]
          /\ once[c].version = row[c].version
          /\ [row EXCEPT ![c].fields = r.fields, ![c].version = @ + 1]
               = [once EXCEPT ![c].version = once[c].version + 1]
      BY <1>1, <2>1 DEF TypeOK, StoredRow
    <3>2. [once EXCEPT ![c].version = once[c].version + 1]
            = [once EXCEPT ![c] = [once[c] EXCEPT !.version = once[c].version + 1]]
      BY <1>1 DEF TypeOK
    <3>3. [once[c] EXCEPT !.version = once[c].version + 1] = row'[c]
      BY <2>4, <3>1
    <3>4. [once EXCEPT ![c] = row'[c]] = [row EXCEPT ![c] = row'[c]]
      BY <1>1 DEF TypeOK
    <3> QED
      BY <1>1, <3>1, <3>2, <3>3, <3>4
  <2>6. r.fields \in Fields
    BY <1>1, <1>4 DEF IsChecked, Busy
  <2>7. Register!Edit(c, r.fields)
    BY <2>1, <2>5, RegisterData DEF Register!Edit
  <2> QED
    BY <1>1, <2>6, <2>7 DEF Register!Next
<1>5. CASE r.op = "transition"
  <2>1. /\ Visible(row[c]) /\ row[c] \in StoredRow /\ row[c].version = r.expected
        /\ row[c].deleted = FALSE
    BY <1>1, <1>5, ApplyWrites DEF Visible, StoredRow
  <2>2. row'[c] = [version |-> r.expected + 1, status |-> r.target,
                   fields |-> r.current.fields, deleted |-> FALSE]
    BY <1>1, <1>5, ApplyWrites
  <2>3. r.current = row[c]
    BY <1>5, SwapFindsLoaded DEF CommitOutcome
  <2>4. row'[c] = [row[c] EXCEPT !.status = r.target, !.version = row[c].version + 1]
    <3>1. PICK y : y = [row[c] EXCEPT !.status = r.target, !.version = row[c].version + 1]
      OBVIOUS
    <3>2. y = [version |-> row[c].version + 1, status |-> r.target,
          fields |-> row[c].fields, deleted |-> FALSE]
      BY <2>1, <3>1, RowMoved
    <3> QED
      BY <2>1, <2>2, <2>3, <3>1, <3>2
  <2>5. row' = [row EXCEPT ![c].status = r.target, ![c].version = @ + 1]
    <3> DEFINE once == [row EXCEPT ![c] = [row[c] EXCEPT !.status = r.target]]
    <3>1. /\ once[c] = [row[c] EXCEPT !.status = r.target]
          /\ once[c].version = row[c].version
          /\ [row EXCEPT ![c].status = r.target, ![c].version = @ + 1]
               = [once EXCEPT ![c].version = once[c].version + 1]
      BY <1>1, <2>1 DEF TypeOK, StoredRow
    <3>2. [once EXCEPT ![c].version = once[c].version + 1]
            = [once EXCEPT ![c] = [once[c] EXCEPT !.version = once[c].version + 1]]
      BY <1>1 DEF TypeOK
    <3>3. [once[c] EXCEPT !.version = once[c].version + 1] = row'[c]
      BY <2>4, <3>1
    <3>4. [once EXCEPT ![c] = row'[c]] = [row EXCEPT ![c] = row'[c]]
      BY <1>1 DEF TypeOK
    <3> QED
      BY <1>1, <3>1, <3>2, <3>3, <3>4
  <2>6. CanTransition(GraphOf(KindOf[c]), row[c].status, r.target)
    BY <1>1, <1>5, <2>3 DEF IsChecked
  <2>7. r.target \in Status
    BY <1>2, <2>6, GraphsAreClosed, StatusOfKind
  <2>8. Register!Move(c, r.target)
    BY <2>1, <2>5, <2>6, RegisterData DEF Register!Move
  <2> QED
    BY <1>1, <2>7, <2>8, RegisterData DEF Register!Next
<1>6. CASE r.op = "delete"
  <2>1. Visible(row[c]) /\ row'[c] = [row[c] EXCEPT !.deleted = TRUE]
    BY <1>1, <1>6, ApplyWrites
  <2>2. row' = [row EXCEPT ![c].deleted = TRUE]
    BY <1>1, <2>1 DEF TypeOK
  <2>3. Register!Remove(c)
    BY <2>1, <2>2, RegisterData DEF Register!Remove
  <2> QED
    BY <1>1, <2>3 DEF Register!Next
<1> QED
  BY <1>2, <1>3, <1>4, <1>5, <1>6

\* When clients only send versions they were shown, the interleaved and
\* failing statements of the three services amount to a register that changes
\* in single steps.
THEOREM AggregatesImplementRegister == ~PredictVersions => (Spec => ImplementsRegister)
<1> SUFFICES ASSUME ~PredictVersions PROVE Spec => ImplementsRegister
  OBVIOUS
<1>1. Init => Register!Init
  BY RegisterData DEF Init, Register!Init
<1>2. IInv /\ [Next]_vars => [Register!Next]_row
  BY WriteIsRegisterStep, StepTables
<1> QED
  BY <1>1, <1>2, Invariance, PTL DEF Spec, ImplementsRegister, Register!Spec
=============================================================================
