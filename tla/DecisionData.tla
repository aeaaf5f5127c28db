---------------------------- MODULE DecisionData ----------------------------
(***************************************************************************)
(* The two tables a priority decision lives in: priority_decisions, one    *)
(* row per decision, and priority_decision_revisions, append-only          *)
(* (backend/internal/model/priority_decision.go, model/base.go).  A row is *)
(* named by its code: codes are unique over deleted rows too, and a row is *)
(* only ever soft-deleted, so code and id determine one another.           *)
(*                                                                         *)
(* Of the business fields only the evidence is kept: the others are        *)
(* written by the same assignments and told apart by no property.          *)
(***************************************************************************)
EXTENDS Roles, StatusGraphs

CONSTANTS Code,           \* decision codes
          Seeded,         \* the codes of the demo data
          Evidence,       \* evidence texts that are not blank
          Blank,          \* an evidence text that is blank once trimmed
          Request,        \* request ids; one handler goroutine serves each
          SeedRequest,    \* the "seed-..." request id of the demo data
          SeedPreparer,   \* the account "operator" of the demo data
          SeedReviewer,   \* the account "reviewer" of the demo data
          SeedEvidence,   \* the evidence text of the demo data
          Nobody,         \* the preparer of a row that does not exist
          MaxVersion      \* bound: no decision goes beyond this version

ASSUME DataAssumption ==
  /\ Seeded \subseteq Code
  /\ Blank \notin Evidence
  /\ SeedRequest \notin Request
  /\ SeedPreparer \in User /\ RoleOf[SeedPreparer] = "operator"
  /\ SeedReviewer \in User /\ RoleOf[SeedReviewer] = "reviewer"
  /\ SeedEvidence \in Evidence
  /\ Nobody \notin User
  /\ MaxVersion \in Nat /\ MaxVersion >= 2

DecisionStatus == {PriorityDecisionInitialStatus} \cup PriorityLevel

StoredRow ==
  [version    : 1..MaxVersion,
   status     : DecisionStatus,
   evidence   : Evidence,
   preparedBy : User,
   deleted    : BOOLEAN]

\* No row was inserted yet.
NoRow == [version |-> 0, status |-> "absent", evidence |-> Blank,
          preparedBy |-> Nobody, deleted |-> FALSE]

Row == {NoRow} \cup StoredRow

Revision ==
  [version  : 1..MaxVersion,
   status   : DecisionStatus,
   evidence : Evidence,
   actor    : User,
   request  : Request \cup {SeedRequest}]

\* A row a query finds: inserted and not soft-deleted.
Visible(row) == row.version > 0 /\ ~row.deleted

NewRow(actor, evidence) ==
  [version |-> 1, status |-> PriorityDecisionInitialStatus,
   evidence |-> evidence, preparedBy |-> actor, deleted |-> FALSE]

\* newPriorityRevision: the revision that records `row` as it is written.
RevisionOf(row, actor, request) ==
  [version |-> row.version, status |-> row.status, evidence |-> row.evidence,
   actor |-> actor, request |-> request]

(***************************************************************************)
(* The demo data.  Seed writes, in one transaction, a draft with its first *)
(* revision and two decided rows with a draft and a decision revision.     *)
(***************************************************************************)
SeedDraft == NewRow(SeedPreparer, SeedEvidence)

SeedDecided(level) == [SeedDraft EXCEPT !.version = 2, !.status = level]

SeedRows == {SeedDraft} \cup {SeedDecided(level) : level \in {"observe", "restrict"}}

SeedRevisions(row) ==
  {RevisionOf(SeedDraft, SeedPreparer, SeedRequest) : v \in {1} \cap 1..row.version}
  \cup {RevisionOf(row, SeedReviewer, SeedRequest) : v \in {2} \cap 1..row.version}
=============================================================================
