---------------------------- MODULE MCObservation ----------------------------
(***************************************************************************)
(* Instances of Observation for TLC: three repositories on pages of one,   *)
(* of which the second may come to have the first one's name.              *)
(***************************************************************************)
EXTENDS Observation

CONSTANTS a, b, c

MCNames == [r \in Repo |-> CASE r = 1 -> {a} [] r = 2 -> {a, b} [] OTHER -> {c}]
=============================================================================
