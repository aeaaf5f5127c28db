------------------------------- MODULE Session -------------------------------
(***************************************************************************)
(* Accounts and the tokens that stand for them (service/security.go,       *)
(* middleware/auth.go).  The server keeps no sessions: a token carries the *)
(* role its account had at the login and is honoured until it expires,     *)
(* whatever becomes of the account.  Accounts change in the database only; *)
(* the program has no operation for it.  Signatures are taken to be sound. *)
(***************************************************************************)
EXTENDS Roles

CONSTANTS TokenTTL,   \* TOKEN_TTL
          NoToken,    \* no token, or none that verifies
          MaxClock    \* bound: the last moment

ASSUME SessionAssumption == TokenTTL \in Nat \ {0} /\ MaxClock \in Nat

VARIABLES now,       \* the clock of the servers
          account,   \* the role of each account, and whether it is active
          held       \* history: when each account was last active with each role

sessionVars == <<now, account, held>>

Account == [role : Role, active : BOOLEAN]

Token == [user : User, role : Role, exp : Nat]

Never == 0

\* The accounts the server is seeded with (RoleOf), all active.
SessionInit ==
  /\ now     = 1
  /\ account = [u \in User |-> [role |-> RoleOf[u], active |-> TRUE]]
  /\ held    = [u \in User |-> [r \in Role |-> IF r = RoleOf[u] THEN 1 ELSE Never]]

\* The token of a login with the right password.
Login(u) ==
  IF account[u].active
  THEN [user |-> u, role |-> account[u].role, exp |-> now + TokenTTL]
  ELSE NoToken

\* Fault: tokens do not expire.
AuthenticateForever(token) == token # NoToken

Authenticate(token) == token # NoToken /\ now < token.exp

\* Afterwards every active account has held its role until now.
Remember ==
  held' = [u \in User |-> [r \in Role |->
             IF account'[u] = [role |-> r, active |-> TRUE] THEN now' ELSE held[u][r]]]

\* Somebody changes an account in the database.
Administer(u, a) ==
  /\ account' = [account EXCEPT ![u] = a]
  /\ UNCHANGED now
  /\ Remember

Tick ==
  /\ now < MaxClock
  /\ now' = now + 1
  /\ UNCHANGED account
  /\ Remember

\* Whoever is active holds the role of now; nobody held one in the future.
SessionInv ==
  /\ now \in Nat \ {Never} /\ account \in [User -> Account] /\ held \in [User -> [Role -> Nat]]
  /\ \A u \in User, r \in Role : held[u][r] <= now
  /\ \A u \in User : account[u].active => held[u][account[u].role] = now
=============================================================================
