----------------------------- MODULE MCContinuity -----------------------------
(***************************************************************************)
(* Instances of Continuity for TLC: a program with a branch, one that has  *)
(* its second node only, and one with a cycle, which the child refuses.    *)
(***************************************************************************)
EXTENDS Continuity

CONSTANTS a, b, branching, single, cyclic

Graph(nodes, start, na, nb) ==
  [nodes |-> nodes, start |-> start,
   next |-> [n \in Node |-> IF n = a THEN na ELSE nb]]

MCDrawing ==
  [v \in Revision |->
     CASE v = branching -> Graph({a, b}, a, {b, End}, {End})
       [] v = single    -> Graph({b}, b, {End}, {End})
       [] v = cyclic    -> Graph({a, b}, a, {b}, {a, End})]
=============================================================================
