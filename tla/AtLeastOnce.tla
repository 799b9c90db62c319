----------------------------- MODULE AtLeastOnce -----------------------------
(***************************************************************************)
(* What the outbox promises about one outward effect, with no rows,        *)
(* attempts, tasks or restarts in it.  An effect that was accepted is owed *)
(* until it is settled; it is settled as done only if it happened; and it  *)
(* may happen a second time only when the record says, before it happens,  *)
(* that the outcome of an earlier try is in doubt.  Outbox.tla is shown to *)
(* implement this module.                                                  *)
(***************************************************************************)
CONSTANTS
  Effect,    \* the logical outward effects, one per idempotency key
  Internal   \* those of them that never leave the process and have nothing to show

VARIABLES
  debt,      \* Effect -> "none", "owed", "done" or "given_up"
  happened,  \* Effect -> the tries at which the world saw it
  doubt      \* Effect -> does the record admit an unknown or failed try?

avars == <<debt, happened, doubt>>

Init ==
  /\ debt = [e \in Effect |-> "none"]
  /\ happened = [e \in Effect |-> {}]
  /\ doubt = [e \in Effect |-> FALSE]

Accept(e) ==
  /\ debt[e] = "none"
  /\ debt' = [debt EXCEPT ![e] = "owed"]
  /\ UNCHANGED <<happened, doubt>>

Refuse(e) ==
  /\ debt[e] = "none"
  /\ debt' = [debt EXCEPT ![e] = "given_up"]
  /\ UNCHANGED <<happened, doubt>>

\* The effect reaches the world: for the first time, or knowingly again.
Happen(e) ==
  /\ debt[e] = "owed"
  /\ happened[e] # {} => doubt[e]
  /\ \E try \in happened'[e] \ happened[e] :
       happened' = [happened EXCEPT ![e] = @ \cup {try}]
  /\ UNCHANGED <<debt, doubt>>

\* The record admits that it does not know how some tries ended.
Admit(S) ==
  /\ \A e \in S : debt[e] = "owed"
  /\ doubt' = [e \in Effect |-> doubt[e] \/ e \in S]
  /\ UNCHANGED <<debt, happened>>

Finish(e) ==
  /\ debt[e] = "owed"
  /\ happened[e] # {} \/ e \in Internal
  /\ debt' = [debt EXCEPT ![e] = "done"]
  /\ UNCHANGED <<happened, doubt>>

\* Denied, orphaned, or out of attempts; the last failure may be admitted too.
GiveUp(e) ==
  /\ debt[e] = "owed"
  /\ debt' = [debt EXCEPT ![e] = "given_up"]
  /\ doubt' \in {doubt, [doubt EXCEPT ![e] = TRUE]}
  /\ UNCHANGED happened

Next ==
  \/ \E e \in Effect : \/ Accept(e)
                       \/ Refuse(e)
                       \/ Happen(e)
                       \/ Finish(e)
                       \/ GiveUp(e)
  \/ \E S \in SUBSET Effect : Admit(S)

Spec == Init /\ [][Next]_avars
=============================================================================
