---------------------------- MODULE StatusGraphs ----------------------------
(***************************************************************************)
(* The status vocabularies and transition graphs of the four aggregates    *)
(* (backend/internal/constants/status.go) and the status each aggregate    *)
(* is created in (backend/internal/model/*.go).  A graph maps a status to  *)
(* the set of statuses it may move to.                                     *)
(***************************************************************************)

PriorityLevel == {"observe", "restrict", "urgent"}

BridgeAssetTransitions ==
  [active     |-> {"restricted", "closed"},
   restricted |-> {"closed", "retired", "active"},
   closed     |-> {"retired", "restricted"},
   retired    |-> {"closed"}]

InspectionRoundTransitions ==
  [planned   |-> {"running", "review"},
   running   |-> {"review", "completed", "planned"},
   review    |-> {"completed", "running"},
   completed |-> {"review"}]

DefectFindingTransitions ==
  [new        |-> {"verified", "monitoring"},
   verified   |-> {"monitoring", "mitigated", "new"},
   monitoring |-> {"mitigated", "closed", "verified"},
   mitigated  |-> {"closed", "monitoring"},
   closed     |-> {"mitigated"}]

\* Fault: an observed bridge may be escalated.
PriorityDecisionTransitionsEscalating ==
  [draft    |-> {"observe", "restrict", "urgent"},
   observe  |-> {"restrict", "urgent"},
   restrict |-> {},
   urgent   |-> {}]

PriorityDecisionTransitions ==
  [draft    |-> {"observe", "restrict", "urgent"},
   observe  |-> {},
   restrict |-> {},
   urgent   |-> {}]

BridgeAssetInitialStatus      == "active"
InspectionRoundInitialStatus  == "planned"
DefectFindingInitialStatus    == "new"
PriorityDecisionInitialStatus == "draft"

(***************************************************************************)
(* The only way a status changes.  A status outside the graph, on either   *)
(* side, is refused.                                                       *)
(***************************************************************************)
CanTransition(graph, from, to) ==
  /\ from \in DOMAIN graph
  /\ to \in graph[from]
=============================================================================
