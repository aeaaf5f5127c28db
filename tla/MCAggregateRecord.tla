------------------------- MODULE MCAggregateRecord -------------------------
(***************************************************************************)
(* Small instances of AggregateRecord for TLC.                             *)
(***************************************************************************)
EXTENDS AggregateRecord, TLC

CONSTANTS viewer, operator, admin,  \* accounts: none, some, all writes
          BA, IR, DF,      \* a bridge, an inspection round, a defect finding
          q1, q2           \* two concurrent requests

MCUser   == {viewer, operator, admin}
MCRoleOf == (viewer :> "viewer") @@ (operator :> "operator") @@ (admin :> "admin")

MCKindOf == [c \in Record |->
               CASE c = BA -> "BridgeAsset" [] c = IR -> "InspectionRound" [] c = DF -> "DefectFinding"]

\* Requests are only compared for equality.
RequestSymmetry == Permutations(Request)
=============================================================================
