-------------------------------- MODULE Roles --------------------------------
(***************************************************************************)
(* The four roles and their ranks (backend/internal/middleware/auth.go).   *)
(* The role of a user travels in the signed token; no operation of the     *)
(* program changes it, so it is a constant function of the user.           *)
(***************************************************************************)
EXTENDS Naturals

CONSTANTS User,       \* the accounts that hold a token
          RoleOf      \* the role claim of each account's token

Role == {"viewer", "operator", "reviewer", "admin"}

ASSUME RolesAssumption == RoleOf \in [User -> Role]

roleRank == [viewer |-> 1, operator |-> 2, reviewer |-> 3, admin |-> 4]

\* The route middleware RequireMinimumRole, as a guard on the acting user.
RequireMinimumRole(u, minimum) == roleRank[RoleOf[u]] >= roleRank[minimum]

\* The route middleware RequireRoles, as a guard on the acting user.
RequireRoles(u, allowed) == RoleOf[u] \in allowed
=============================================================================
