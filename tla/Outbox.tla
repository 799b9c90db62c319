------------------------------- MODULE Outbox -------------------------------
(***************************************************************************)
(* The outbox: src/src/delivery.rs with the authority check it makes from  *)
(* src/src/gatekeeper.rs.  A row per outward effect, a log row per         *)
(* attempt, a worker that claims due rows and spawns one task for each,    *)
(* and a restart that finds rows nobody will ever finish.                  *)
(*                                                                         *)
(* Every variable is a column, a table or a piece of process memory.  A    *)
(* delivery is named by its idempotency key, which is UNIQUE in the        *)
(* schema; the payload, the clock values and the error texts are left out. *)
(***************************************************************************)
EXTENDS Naturals, Sequences, FiniteSets

CONSTANTS
  Delivery,      \* idempotency keys that may ever be enqueued
  Transport,     \* Delivery -> transport_of(destination)
  Contracted,    \* deliveries of contracted-service receipts
  MaxAttempts,   \* cfg.delivery.max_attempts (a 0 there acts as 1)
  ClaimLimit,    \* rows claimed per pass, 16 in the code
  MaxRestarts,   \* bound on crashes
  DbFaults       \* may a call to SQLite return an error?

Transports == {"return-path", "http", "capability", "unknown"}

ASSUME DeliveryAssumption   == IsFiniteSet(Delivery)
ASSUME TransportAssumption  == Transport \in [Delivery -> Transports]
ASSUME ContractedAssumption == Contracted \subseteq Delivery
ASSUME AttemptsAssumption   == MaxAttempts \in Nat \ {0}
ASSUME LimitAssumption      == ClaimLimit \in Nat \ {0}
ASSUME RestartsAssumption   == MaxRestarts \in Nat
ASSUME FaultsAssumption     == DbFaults \in BOOLEAN

VARIABLES
  status,     \* deliveries.status, "absent" before the row exists
  attempt,    \* deliveries.attempt
  uncertain,  \* deliveries.resumed_uncertain
  due,        \* next_attempt_at <= now
  created,    \* rank of created_at
  log,        \* delivery_attempts.outcome, indexed by attempt; "open" = NULL
  up,         \* is the process running (and recovered)?
  tasks,      \* the spawned attempt() futures
  listening,  \* return-path deliveries whose origin is registered
  policy,     \* http deliveries allow_destinations covers
  seen,       \* history: attempts of a delivery that took effect outside
  restarts    \* crashes so far

row  == <<status, attempt, uncertain, due, created, log>>
mem  == <<up, tasks, listening, policy>>
vars == <<status, attempt, uncertain, due, created, log,
          up, tasks, listening, policy, seen, restarts>>

Terminal == {"completed", "failed", "denied", "orphaned"}
Statuses == {"absent", "pending", "in_flight"} \cup Terminal
Outcomes == Terminal
Stages   == {"check", "send", "wait"}
Tasks    == [d : Delivery, n : Nat, at : Stages \cup Outcomes]

Present == {d \in Delivery : status[d] # "absent"}
\* Mutant: a row some task is working on counts as due.
DueOrInFlight ==
  {d \in Delivery : status[d] \in {"pending", "in_flight"} /\ due[d]}

Due     == {d \in Delivery : status[d] = "pending" /\ due[d]}

\* gatekeeper::authorize: answering an origin and an internal hand-off are
\* inherent; http needs an allowed host; nothing else is ever granted.
Granted(d) ==
  \/ Transport[d] \in {"return-path", "capability"}
  \/ Transport[d] = "http" /\ d \in policy

Init ==
  /\ status = [d \in Delivery |-> "absent"]
  /\ attempt = [d \in Delivery |-> 0]
  /\ uncertain = [d \in Delivery |-> FALSE]
  /\ due = [d \in Delivery |-> FALSE]
  /\ created = [d \in Delivery |-> 0]
  /\ log = [d \in Delivery |-> <<>>]
  /\ up = TRUE
  /\ tasks = {}
  /\ listening = {}
  /\ policy \in SUBSET {d \in Delivery : Transport[d] = "http"}
  /\ seen = [d \in Delivery |-> {}]
  /\ restarts = 0

-----------------------------------------------------------------------------
(* The caller's side: a run's completing transaction, and the origins.     *)

\* enqueue on a key that has no row; a second enqueue of the key returns the
\* existing row and changes nothing.
Enqueue(d) ==
  /\ up
  /\ status[d] = "absent"
  /\ status' = [status EXCEPT ![d] = IF Granted(d) THEN "pending" ELSE "denied"]
  /\ due' = [due EXCEPT ![d] = TRUE]
  /\ created' = [created EXCEPT ![d] = Cardinality(Present)]
  /\ UNCHANGED <<attempt, uncertain, log, mem, seen, restarts>>

\* An origin registers its way back, or goes away (ReturnPaths).
Register(d) ==
  /\ up
  /\ Transport[d] = "return-path"
  /\ listening' = listening \cup {d}
  /\ UNCHANGED <<row, up, tasks, policy, seen, restarts>>

PeerGone(d) ==
  /\ listening' = listening \ {d}
  /\ UNCHANGED <<row, up, tasks, policy, seen, restarts>>

-----------------------------------------------------------------------------
(* The worker.                                                             *)

\* The backoff of a rescheduled row elapses.
BackoffElapses(d) ==
  /\ status[d] = "pending"
  /\ due' = [due EXCEPT ![d] = TRUE]
  /\ UNCHANGED <<status, attempt, uncertain, created, log, mem, seen, restarts>>

\* The oldest due rows, at most ClaimLimit of them.
IsBatch(S) ==
  /\ S \subseteq Due
  /\ S # {}
  /\ Cardinality(S) = IF Cardinality(Due) < ClaimLimit
                      THEN Cardinality(Due) ELSE ClaimLimit
  /\ \A d \in S, e \in Due \ S : created[d] <= created[e]

\* Mutant: the claim forgets the attempt-log row.
ClaimUnlogged ==
  /\ up
  /\ \E S \in SUBSET Due :
       /\ IsBatch(S)
       /\ status' = [d \in Delivery |-> IF d \in S THEN "in_flight" ELSE status[d]]
       /\ attempt' = [d \in Delivery |-> IF d \in S THEN attempt[d] + 1 ELSE attempt[d]]
  /\ UNCHANGED <<uncertain, due, created, log, mem, seen, restarts>>

\* claim_due, one transaction, and the spawn of one attempt task per row; the
\* row a task carries was read before attempt was incremented.
ClaimDue ==
  /\ up
  /\ \E S \in SUBSET Due :
       /\ IsBatch(S)
       /\ status' = [d \in Delivery |-> IF d \in S THEN "in_flight" ELSE status[d]]
       /\ attempt' = [d \in Delivery |-> IF d \in S THEN attempt[d] + 1 ELSE attempt[d]]
       /\ log' = [d \in Delivery |-> IF d \in S THEN Append(log[d], "open") ELSE log[d]]
       /\ tasks' = tasks \cup {[d |-> d, n |-> attempt[d] + 1, at |-> "check"] : d \in S}
  /\ UNCHANGED <<uncertain, due, created, up, listening, policy, seen, restarts>>

-----------------------------------------------------------------------------
(* attempt(): check authority again, act, record.                          *)

Advance(t, stage) == tasks' = (tasks \ {t}) \cup {[t EXCEPT !.at = stage]}

\* services::authorize_delivery may refuse a contracted delivery, except an
\* answer to its origin.
ContractMayRefuse(d) == d \in Contracted /\ Transport[d] # "return-path"

\* Refused by the contract, by the gatekeeper, or because the receipt could
\* not be read.
Refuse(t) ==
  /\ t.at = "check"
  /\ ~Granted(t.d) \/ ContractMayRefuse(t.d) \/ DbFaults
  /\ Advance(t, "denied")
  /\ UNCHANGED <<row, up, listening, policy, seen, restarts>>

\* Mutant: the enqueue-time decision is trusted.
AllowUnchecked(t) ==
  /\ t.at = "check"
  /\ Advance(t, "send")
  /\ UNCHANGED <<row, up, listening, policy, seen, restarts>>

Allow(t) ==
  /\ t.at = "check"
  /\ Granted(t.d)
  /\ Advance(t, "send")
  /\ UNCHANGED <<row, up, listening, policy, seen, restarts>>

\* Mutant: a Gone hand-back counts as delivered.
HandBackBlindly(t) ==
  /\ t.at = "send"
  /\ Transport[t.d] = "return-path"
  /\ Advance(t, "completed")
  /\ seen' = IF t.d \in listening THEN [seen EXCEPT ![t.d] = @ \cup {t.n}] ELSE seen
  /\ UNCHANGED <<row, up, listening, policy, restarts>>

\* ReturnPaths::send.  A one-shot registration is consumed, a connection's is
\* kept.
HandBack(t) ==
  /\ t.at = "send"
  /\ Transport[t.d] = "return-path"
  /\ IF t.d \in listening
     THEN /\ Advance(t, "completed")
          /\ seen' = [seen EXCEPT ![t.d] = @ \cup {t.n}]
          /\ listening' \in {listening, listening \ {t.d}}
     ELSE /\ Advance(t, "orphaned")
          /\ UNCHANGED <<seen, listening>>
  /\ UNCHANGED <<row, up, policy, restarts>>

HandOff(t) ==
  /\ t.at = "send"
  /\ Transport[t.d] = "capability"
  /\ Advance(t, "completed")
  /\ UNCHANGED <<row, up, listening, policy, seen, restarts>>

\* The POST leaves: the receiver acts on it, now or later, or it is lost.
Post(t) ==
  /\ t.at = "send"
  /\ Transport[t.d] = "http"
  /\ Advance(t, "wait")
  /\ \/ seen' = [seen EXCEPT ![t.d] = @ \cup {t.n}]
     \/ UNCHANGED seen
  /\ UNCHANGED <<row, up, listening, policy, restarts>>

\* A 2xx comes back, or another status, an error or the client timeout.
Response(t) ==
  /\ t.at = "wait"
  /\ \/ t.n \in seen[t.d] /\ Advance(t, "completed")
     \/ Advance(t, "failed")
  /\ UNCHANGED <<row, up, listening, policy, seen, restarts>>

\* finish_attempt: UPDATE ... WHERE delivery_id AND attempt.
FinishAttempt(t) == log' = [log EXCEPT ![t.d] = [@ EXCEPT ![t.n] = t.at]]

\* Mutant: off by one, the stale counter against max_attempts.
RescheduleOnceMore(t) ==
  IF t.at = "failed" /\ t.n - 1 < MaxAttempts
  THEN /\ status' = [status EXCEPT ![t.d] = "pending"]
       /\ due' = [due EXCEPT ![t.d] = FALSE]
  ELSE /\ status' = [status EXCEPT ![t.d] = t.at]
       /\ UNCHANGED due

\* settle, or reschedule for a failure.
SettleOrReschedule(t) ==
  IF t.at = "failed" /\ t.n < MaxAttempts
  THEN /\ status' = [status EXCEPT ![t.d] = "pending"]
       /\ due' = [due EXCEPT ![t.d] = FALSE]
  ELSE /\ status' = [status EXCEPT ![t.d] = t.at]
       /\ UNCHANGED due

\* Both statements succeed.  They run in one db.call, so no other statement
\* of the process comes between them.
Record(t) ==
  /\ t.at \in Outcomes
  /\ FinishAttempt(t)
  /\ SettleOrReschedule(t)
  /\ tasks' = tasks \ {t}
  /\ UNCHANGED <<attempt, uncertain, created, up, listening, policy, seen, restarts>>

\* They are no transaction: the second can fail after the first committed, or
\* the first can fail.  The error is logged, and the task is over.
RecordFails(t) ==
  /\ DbFaults
  /\ t.at \in Outcomes
  /\ FinishAttempt(t) \/ UNCHANGED log
  /\ tasks' = tasks \ {t}
  /\ UNCHANGED <<status, attempt, uncertain, due, created,
                 up, listening, policy, seen, restarts>>

-----------------------------------------------------------------------------
(* Crash and recovery.                                                     *)

\* All memory is lost.
Die ==
  /\ up
  /\ restarts < MaxRestarts
  /\ up' = FALSE
  /\ tasks' = {}
  /\ listening' = {}
  /\ restarts' = restarts + 1

Crash ==
  /\ Die
  /\ UNCHANGED <<row, policy, seen>>

\* The process dies after finish_attempt committed and before settle did.
CrashWhileRecording(t) ==
  /\ t.at \in Outcomes
  /\ Die
  /\ FinishAttempt(t)
  /\ UNCHANGED <<status, attempt, uncertain, due, created, policy, seen>>

\* A new process reads its configuration, and delivery::recover runs before
\* the worker is spawned.
Interrupted == {d \in Delivery : status[d] = "in_flight"}

\* Mutants: the flag is not set; the in_flight rows are not picked up.
RecoverSilently ==
  /\ ~up
  /\ up' = TRUE
  /\ policy' \in SUBSET {d \in Delivery : Transport[d] = "http"}
  /\ status' = [d \in Delivery |-> IF d \in Interrupted THEN "pending" ELSE status[d]]
  /\ due' = [d \in Delivery |-> due[d] \/ d \in Interrupted]
  /\ UNCHANGED <<attempt, uncertain, created, log, tasks, listening, seen, restarts>>

RecoverNothing ==
  /\ ~up
  /\ up' = TRUE
  /\ policy' \in SUBSET {d \in Delivery : Transport[d] = "http"}
  /\ UNCHANGED <<row, tasks, listening, seen, restarts>>

Recover ==
  /\ ~up
  /\ up' = TRUE
  /\ policy' \in SUBSET {d \in Delivery : Transport[d] = "http"}
  /\ status' = [d \in Delivery |-> IF d \in Interrupted THEN "pending" ELSE status[d]]
  /\ uncertain' = [d \in Delivery |-> uncertain[d] \/ d \in Interrupted]
  /\ due' = [d \in Delivery |-> due[d] \/ d \in Interrupted]
  /\ UNCHANGED <<attempt, created, log, tasks, listening, seen, restarts>>

-----------------------------------------------------------------------------
TaskStep(t) ==
  \/ Refuse(t) \/ Allow(t)
  \/ HandBack(t) \/ HandOff(t)
  \/ Post(t) \/ Response(t)
  \/ Record(t)

Next ==
  \/ \E d \in Delivery : \/ Enqueue(d)
                         \/ Register(d)
                         \/ PeerGone(d)
                         \/ BackoffElapses(d)
  \/ ClaimDue
  \/ \E t \in tasks : TaskStep(t) \/ RecordFails(t) \/ CrashWhileRecording(t)
  \/ Crash
  \/ Recover

Spec == Init /\ [][Next]_vars

\* The tokio runtime polls every spawned task, the worker passes at least once
\* per interval, the clock advances, http calls time out, and the service
\* manager restarts a dead process.
Fairness ==
  /\ WF_vars(ClaimDue)
  /\ WF_vars(Recover)
  /\ \A d \in Delivery :
       /\ WF_vars(BackoffElapses(d))
       /\ WF_vars(\E t \in tasks : t.d = d /\ TaskStep(t))

FairSpec == Spec /\ Fairness

-----------------------------------------------------------------------------
(* Properties.                                                             *)

RowTyped ==
  /\ status \in [Delivery -> Statuses]
  /\ attempt \in [Delivery -> Nat]
  /\ uncertain \in [Delivery -> BOOLEAN]
  /\ due \in [Delivery -> BOOLEAN]
  /\ created \in [Delivery -> Nat]

LogTyped ==
  /\ log \in [Delivery -> Seq(Outcomes \cup {"open"})]
  /\ \A d \in Delivery : Len(log[d]) = attempt[d]

MemTyped ==
  /\ up \in BOOLEAN
  /\ tasks \in SUBSET Tasks
  /\ listening \in SUBSET Delivery
  /\ policy \in SUBSET {d \in Delivery : Transport[d] = "http"}

\* Every variable has its type, and the attempt counter is the length of the
\* attempt log (claim_due writes both).
TypeOK ==
  /\ RowTyped
  /\ LogTyped
  /\ MemTyped
  /\ seen \in [Delivery -> SUBSET Nat]
  /\ restarts \in 0..MaxRestarts

\* A delivery is worked on by at most one task, that task carries the newest
\* attempt number although its row is stale, and its log row is still open:
\* no two tasks ever race to send, or to settle, the same effect.
OneLiveAttempt ==
  /\ \A t, u \in tasks : t.d = u.d => t = u
  /\ \A t \in tasks : /\ status[t.d] = "in_flight"
                      /\ t.n = attempt[t.d]
                      /\ log[t.d][t.n] = "open"

\* The log never denies an effect that happened, and an effect is sent again
\* only on the record: every earlier try that took effect either ended in a
\* logged failure or left the row marked resumed_uncertain.
NoSilentDuplicate ==
  \A d \in Delivery : \A n \in seen[d] :
    /\ n \in 1..attempt[d]
    /\ log[d][n] \in {"open", "completed", "failed"}
    /\ n < attempt[d] => log[d][n] = "failed" \/ uncertain[d]

\* A row is completed only on an effect that its last attempt caused and
\* logged.
CompletedMeansDone ==
  \A d \in Delivery : status[d] = "completed" =>
    /\ attempt[d] > 0
    /\ log[d][attempt[d]] = "completed"
    /\ attempt[d] \in seen[d] \/ Transport[d] = "capability"

\* An answer settled as orphaned reached nobody, unless the row says that a
\* crash left an earlier hand-back in doubt.
OrphanIsHonest ==
  \A d \in Delivery :
    status[d] = "orphaned" /\ ~uncertain[d] => seen[d] = {}

\* An attempt without an outcome is running, awaits recovery, or is admitted
\* by resumed_uncertain: no try is ever forgotten.
OpenAttemptIsAdmitted ==
  \A d \in Delivery : \A n \in 1..attempt[d] :
    log[d][n] = "open" =>
      uncertain[d] \/ (n = attempt[d] /\ status[d] = "in_flight")

\* max_attempts bounds the attempts of a delivery no crash interrupted; each
\* restart can add one, because recover does not look at the counter.
AttemptBudget ==
  \A d \in Delivery :
    attempt[d] <= MaxAttempts + (IF uncertain[d] THEN restarts ELSE 0)

\* No step takes a row out of a terminal status, clears resumed_uncertain,
\* lowers the attempt counter, or rewrites an outcome once it is logged.
Settled(d) ==
  /\ status[d] \in Terminal => status'[d] = status[d]
  /\ uncertain[d] => uncertain'[d]
  /\ attempt'[d] >= attempt[d]
  /\ \A n \in 1..attempt[d] : log[d][n] # "open" => log'[d][n] = log[d][n]

SettledIsFinal == [][\A d \in Delivery : Settled(d)]_vars

\* An http effect reaches the world only while the policy the process booted
\* with allows the destination, whatever the policy was at enqueue time.
EffectUnderPolicy ==
  [][\A d \in Delivery :
       seen'[d] # seen[d] /\ Transport[d] = "http" => d \in policy]_vars

\* Everything enqueued is eventually settled, through failures, backoffs and
\* restarts.
EventuallySettled ==
  \A d \in Delivery : status[d] # "absent" ~> status[d] \in Terminal

-----------------------------------------------------------------------------
(* The abstract promise.                                                   *)

DebtOf(d) ==
  CASE status[d] = "absent"                  -> "none"
    [] status[d] \in {"pending", "in_flight"} -> "owed"
    [] status[d] = "completed"               -> "done"
    [] OTHER                                 -> "given_up"

HasFailure(d) == \E n \in 1..attempt[d] : log[d][n] = "failed"

Promise == INSTANCE AtLeastOnce WITH
  Effect   <- Delivery,
  Internal <- {d \in Delivery : Transport[d] = "capability"},
  debt     <- [d \in Delivery |-> DebtOf(d)],
  happened <- seen,
  doubt    <- [d \in Delivery |-> uncertain[d] \/ HasFailure(d)]

\* Every step of the outbox is a step of the promise or leaves it unchanged.
PromiseKept == Promise!Spec
=============================================================================
