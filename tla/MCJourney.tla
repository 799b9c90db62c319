------------------------------ MODULE MCJourney ------------------------------
(***************************************************************************)
(* Instances of Journey for TLC: a client that waits for its answer, a     *)
(* contracted one that reuses its correlation id, and a receipt that no    *)
(* route claims.                                                           *)
(***************************************************************************)
EXTENDS Journey, TLC

CONSTANTS call, contracted, stray

MCDecision == [r \in Receipt |-> IF r = stray THEN "quarantine" ELSE "invoke"]

MCCorrelation == [r \in Receipt |-> IF r = contracted THEN call ELSE r]

Symmetry == Permutations(Job)
=============================================================================
