------------------------- MODULE MCPriorityDecision -------------------------
(***************************************************************************)
(* Small instances of PriorityDecision for TLC.                            *)
(***************************************************************************)
EXTENDS PriorityDecision, TLC

CONSTANTS operator, reviewer, admin,   \* one account of each writing role
          q1, q2                       \* two concurrent requests

MCUser   == {operator, reviewer, admin}
MCRoleOf == (operator :> "operator") @@ (reviewer :> "reviewer") @@ (admin :> "admin")

\* Requests are only compared for equality.
RequestSymmetry == Permutations({q1, q2})
=============================================================================
