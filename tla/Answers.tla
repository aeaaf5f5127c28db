------------------------------- MODULE Answers -------------------------------
(***************************************************************************)
(* What becomes of a request that ends in an error: the mapping of service *)
(* and repository errors to HTTP answers (handler/errors.go).  An error is *)
(* named by what the service reports; the names of the priority workflow   *)
(* and of the other aggregates live side by side here as they do there.    *)
(***************************************************************************)

handleError(err) ==
  CASE err = "not_found"                     -> "404"
    [] err = "conflict"                      -> "409"
    [] err \in {"review_role", "not_owner"}  -> "403"
    [] err \in {"bad_transition", "invalid", "locked", "separation"} -> "422"
    [] OTHER                                 -> "500"

Failure == {"403", "404", "409", "422", "500"}

\* No request is being served.
Idle == [pc |-> "idle"]

\* An error leaves nothing of the handler but the answer.
Failed(err) == [pc |-> "failed", answer |-> handleError(err)]

Quiet == {Idle} \cup [pc : {"failed"}, answer : Failure]
=============================================================================
