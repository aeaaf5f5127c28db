--------------------------- MODULE RecordRegister ---------------------------
(***************************************************************************)
(* What a bridge, an inspection round or a defect finding promises: it is  *)
(* a register that changes in single steps.  An edit replaces the fields   *)
(* and leaves the status, a move follows the graph of the record's kind    *)
(* and leaves the fields, each of them counts one version, and a removed   *)
(* record stays as it was.                                                 *)
(*                                                                         *)
(* In the code an edit writes the status back and a move writes the fields *)
(* back, both from a copy read by an earlier statement; AggregateRecord is *)
(* shown to implement this specification all the same.                     *)
(***************************************************************************)
EXTENDS RecordData

VARIABLE register      \* [Record -> Row]

Init == register \in SeedTables

Enter(c, f) ==
  /\ register[c] = NoRow
  /\ register' = [register EXCEPT ![c] = NewRow(InitialStatusOf(KindOf[c]), f)]

Edit(c, f) ==
  /\ Visible(register[c])
  /\ register' = [register EXCEPT ![c].fields = f, ![c].version = @ + 1]

Move(c, s) ==
  /\ Visible(register[c])
  /\ CanTransition(GraphOf(KindOf[c]), register[c].status, s)
  /\ register' = [register EXCEPT ![c].status = s, ![c].version = @ + 1]

Remove(c) ==
  /\ Visible(register[c])
  /\ register' = [register EXCEPT ![c].deleted = TRUE]

Next == \E c \in Record :
          \/ \E f \in Fields : Enter(c, f) \/ Edit(c, f)
          \/ \E s \in Status : Move(c, s)
          \/ Remove(c)

Spec == Init /\ [][Next]_register
=============================================================================
