------------------------------ MODULE DurableAck ------------------------------
(***************************************************************************)
(* What GitHub may rely on when it hands a webhook to the edge, with no    *)
(* headers, digests, hand-offs or connections in it.  A sending of a       *)
(* delivery is told that it is the first of its kind only if a copy is     *)
(* kept, and at most one sending is told so; it is told that it is one     *)
(* more only if there are several copies.  Of a failure nothing follows:   *)
(* a copy may be kept all the same, and may be kept later.  Edge.tla is    *)
(* shown to implement this module.                                         *)
(***************************************************************************)
EXTENDS Naturals

CONSTANTS
  Sending,   \* the times GitHub sends a webhook
  Delivery,  \* what it sends, by its delivery id
  None       \* not sent yet, or sent without an id

VARIABLES
  about,     \* Sending -> the delivery it is of
  kept,      \* Delivery -> the number of durable copies
  word       \* Sending -> what GitHub is told of it

dvars == <<about, kept, word>>

Init ==
  /\ about = [s \in Sending |-> None]
  /\ kept = [d \in Delivery |-> 0]
  /\ word = [s \in Sending |-> "nothing"]

\* A request arrives, and may be refused or fail on the spot.
Send(s) ==
  /\ about[s] = None
  /\ word[s] = "nothing"
  /\ about'[s] \in Delivery \cup {None}
  /\ about' = [about EXCEPT ![s] = about'[s]]
  /\ word' \in {word, [word EXCEPT ![s] = "refused"], [word EXCEPT ![s] = "failed"]}
  /\ UNCHANGED kept

\* A copy of something that was sent is kept for good.
Keep(d) ==
  /\ \E s \in Sending : about[s] = d
  /\ kept' = [kept EXCEPT ![d] = @ + 1]
  /\ UNCHANGED <<about, word>>

\* No other sending of the delivery was told that it is the first.
TellNew(s) ==
  /\ word[s] = "nothing"
  /\ about[s] \in Delivery
  /\ kept[about[s]] > 0
  /\ \A t \in Sending : about[t] = about[s] => word[t] # "new"
  /\ word' = [word EXCEPT ![s] = "new"]
  /\ UNCHANGED <<about, kept>>

TellAgain(s) ==
  /\ word[s] = "nothing"
  /\ about[s] \in Delivery
  /\ kept[about[s]] > 1
  /\ word' = [word EXCEPT ![s] = "again"]
  /\ UNCHANGED <<about, kept>>

Fail(s) ==
  /\ word[s] = "nothing"
  /\ word' \in {[word EXCEPT ![s] = "refused"], [word EXCEPT ![s] = "failed"]}
  /\ UNCHANGED <<about, kept>>

Next ==
  \/ \E s \in Sending : Send(s) \/ TellNew(s) \/ TellAgain(s) \/ Fail(s)
  \/ \E d \in Delivery : Keep(d)

Spec == Init /\ [][Next]_dvars
=============================================================================
