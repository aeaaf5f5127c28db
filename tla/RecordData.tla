----------------------------- MODULE RecordData -----------------------------
(***************************************************************************)
(* The tables of bridges, inspection rounds and defect findings            *)
(* (backend/internal/model/base.go and the three models).  The three       *)
(* services, handlers and repositories are the same code on three types    *)
(* and three graphs; a record here knows of which kind it is.              *)
(*                                                                         *)
(* Of the business fields one value is kept, "fields": all of them are     *)
(* written by the same assignments.                                        *)
(***************************************************************************)
EXTENDS Roles, StatusGraphs

CONSTANTS Record,       \* rows, named by their code, which is never reused
          KindOf,       \* the table of each
          Seeded,       \* the records of the demo data
          Fields,       \* business fields that pass the validation
          BlankFields,  \* fields of which a required one is blank
          SeedFields,   \* the fields of the demo data
          MaxVersion    \* bound: no record goes beyond this version

Kind == {"BridgeAsset", "InspectionRound", "DefectFinding"}

ASSUME RecordAssumption ==
  /\ KindOf \in [Record -> Kind]
  /\ Seeded \subseteq Record
  /\ BlankFields \notin Fields
  /\ SeedFields \in Fields
  /\ MaxVersion \in Nat /\ MaxVersion >= 2

GraphOf(kind) ==
  CASE kind = "BridgeAsset"     -> BridgeAssetTransitions
    [] kind = "InspectionRound" -> InspectionRoundTransitions
    [] OTHER                    -> DefectFindingTransitions

InitialStatusOf(kind) ==
  CASE kind = "BridgeAsset"     -> BridgeAssetInitialStatus
    [] kind = "InspectionRound" -> InspectionRoundInitialStatus
    [] OTHER                    -> DefectFindingInitialStatus

SeedStatuses(kind) ==
  CASE kind = "BridgeAsset"     -> {"active", "restricted", "closed"}
    [] kind = "InspectionRound" -> {"planned", "running", "review"}
    [] OTHER                    -> {"new", "verified", "monitoring"}

StatusesOf(kind) == DOMAIN GraphOf(kind)

Status == UNION {StatusesOf(kind) : kind \in Kind}

StoredRow ==
  [version : 1..MaxVersion, status : Status, fields : Fields, deleted : BOOLEAN]

\* No row was inserted yet.
NoRow == [version |-> 0, status |-> "absent", fields |-> BlankFields, deleted |-> FALSE]

Row == {NoRow} \cup StoredRow

\* A row a query finds: inserted and not soft-deleted.
Visible(row) == row.version > 0 /\ ~row.deleted

NewRow(status, fields) ==
  [version |-> 1, status |-> status, fields |-> fields, deleted |-> FALSE]

\* What Seed leaves behind: each table is filled in one insert of three rows,
\* one in each of the first three statuses; the other codes are free.
SeedRows(kind) == {NewRow(status, SeedFields) : status \in SeedStatuses(kind)}

SeedTables ==
  {t \in [Record -> {NoRow} \cup UNION {SeedRows(kind) : kind \in Kind}] :
     \A c \in Record : t[c] \in IF c \in Seeded THEN SeedRows(KindOf[c]) ELSE {NoRow}}
=============================================================================
