----------------------------- MODULE MCWebClient -----------------------------
(***************************************************************************)
(* A small instance of WebClient for TLC.                                  *)
(***************************************************************************)
EXTENDS WebClient, TLC

CONSTANTS operator, reviewer,  \* accounts, named after their first roles
          c1, c2               \* two calls that overlap

MCRoleOf == (operator :> "operator") @@ (reviewer :> "reviewer")

\* An account is demoted, or deactivated.
MCGivenAccount == {[role |-> "viewer", active |-> TRUE], [role |-> "operator", active |-> FALSE]}
=============================================================================
