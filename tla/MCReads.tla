------------------------------- MODULE MCReads -------------------------------
(***************************************************************************)
(* A small instance of Reads for TLC.                                      *)
(***************************************************************************)
EXTENDS Reads

\* Two actors, and entries that are no transitions.
MCActionOf == [r \in Id |-> IF r = 2 THEN "update" ELSE "transition"]
MCActorOf  == [r \in Id |-> IF r = 1 THEN "operator" ELSE "reviewer"]

\* None, the most, and more than allowed.
MCAsked == {-1, 2, 3}
=============================================================================
