------------------------------ MODULE MCOutbox ------------------------------
(***************************************************************************)
(* Instances of Outbox for TLC: an answer to an origin, an http call and,  *)
(* in the smaller runs, fewer of them.                                     *)
(***************************************************************************)
EXTENDS Outbox

CONSTANTS answer, hook, handoff

MCTransport ==
  [d \in Delivery |-> CASE d = answer  -> "return-path"
                        [] d = hook    -> "http"
                        [] d = handoff -> "capability"]
=============================================================================
