---------------------------- MODULE DecisionLedger ----------------------------
(***************************************************************************)
(* What the priority workflow promises, with nothing of how it is done:    *)
(* a decision IS its append-only history.  Every accepted request appends  *)
(* one immutable version in a single step; the preparer is whoever wrote   *)
(* version 1; a draft may be amended by its preparer or an administrator;  *)
(* an independent reviewer may finalize it once, and nothing follows.      *)
(*                                                                         *)
(* There is no current row, no version a client sends, no goroutine and no *)
(* statement that fails: PriorityDecision.tla, which has all of them, is   *)
(* shown to implement this specification.                                  *)
(*                                                                         *)
(* A withdrawal is allowed in any status: the code's check that only a     *)
(* draft is deleted does not survive a race with a finalization, so it is  *)
(* no part of what the workflow can promise.                               *)
(***************************************************************************)
EXTENDS DecisionData

VARIABLES ledger,      \* [Code -> SUBSET Revision]
          withdrawn    \* the codes whose decision was withdrawn

vars == <<ledger, withdrawn>>

TypeOK == /\ ledger \in [Code -> SUBSET Revision]
          /\ withdrawn \in SUBSET Code

Init == /\ ledger \in [Code -> {{}} \cup {SeedRevisions(row) : row \in SeedRows}]
        /\ withdrawn = {}

Latest(c, r) == r \in ledger[c] /\ \A s \in ledger[c] : s.version <= r.version

Preparer(c, u) == \E r \in ledger[c] : r.version = 1 /\ r.actor = u

Append(c, r) == /\ ledger' = [ledger EXCEPT ![c] = @ \cup {r}]
                /\ UNCHANGED withdrawn

Prepare(c, u, e, q) ==
  /\ RequireMinimumRole(u, "operator")
  /\ ledger[c] = {}
  /\ Append(c, [version |-> 1, status |-> "draft", evidence |-> e,
                actor |-> u, request |-> q])

Amend(c, u, e, q) ==
  /\ c \notin withdrawn
  /\ Preparer(c, u) \/ RoleOf[u] = "admin"
  /\ \E last \in ledger[c] :
       /\ Latest(c, last)
       /\ last.status = "draft"
       /\ Append(c, [version |-> last.version + 1, status |-> "draft",
                     evidence |-> e, actor |-> u, request |-> q])

Finalize(c, u, level, q) ==
  /\ c \notin withdrawn
  /\ RoleOf[u] \in {"reviewer", "admin"}
  /\ ~Preparer(c, u)
  /\ \E last \in ledger[c] :
       /\ Latest(c, last)
       /\ last.status = "draft"
       /\ Append(c, [version |-> last.version + 1, status |-> level,
                     evidence |-> last.evidence, actor |-> u, request |-> q])

Withdraw(c) ==
  /\ ledger[c] # {}
  /\ c \notin withdrawn
  /\ withdrawn' = withdrawn \cup {c}
  /\ UNCHANGED ledger

Next ==
  \/ \E c \in Code : Withdraw(c)
  \/ \E c \in Code, u \in User, q \in Request :
       \/ \E e \in Evidence : Prepare(c, u, e, q) \/ Amend(c, u, e, q)
       \/ \E level \in PriorityLevel : Finalize(c, u, level, q)

Spec == Init /\ [][Next]_vars
=============================================================================
