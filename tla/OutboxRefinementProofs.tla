----------------------- MODULE OutboxRefinementProofs -----------------------
(***************************************************************************)
(* Outbox implements AtLeastOnce: a proof of the property PromiseKept for  *)
(* every value of the constants.                                           *)
(***************************************************************************)
EXTENDS OutboxProofs

\* What the record of a delivery admits.
Doubt(d) == uncertain[d] \/ HasFailure(d)

-----------------------------------------------------------------------------
(* The actions of the promise, from what becomes of each delivery.         *)

SameDebt(d)  == DebtOf(d)' = DebtOf(d)
SameDoubt(d) == Doubt(d)' <=> Doubt(d)

LEMMA PromiseStutters ==
  ASSUME seen' = seen, \A e \in Delivery : SameDebt(e) /\ SameDoubt(e)
  PROVE  UNCHANGED Promise!avars
<1>1. [e \in Delivery |-> DebtOf(e)]' = [e \in Delivery |-> DebtOf(e)]
  BY DEF SameDebt
<1>2. [e \in Delivery |-> uncertain[e] \/ HasFailure(e)]'
        = [e \in Delivery |-> uncertain[e] \/ HasFailure(e)]
  BY DEF SameDoubt, Doubt
<1>3. QED
  BY <1>1, <1>2 DEF Promise!avars

\* A delivery is enqueued, as pending or as denied.
LEMMA PromiseBegins ==
  ASSUME NEW d \in Delivery, DebtOf(d) = "none", NEW x \in {"owed", "given_up"},
         DebtOf(d)' = x, \A e \in Delivery : e # d => SameDebt(e),
         seen' = seen, \A e \in Delivery : SameDoubt(e)
  PROVE  Promise!Accept(d) \/ Promise!Refuse(d)
<1>1. [e \in Delivery |-> DebtOf(e)]'
        = [[e \in Delivery |-> DebtOf(e)] EXCEPT ![d] = x]
  BY DEF SameDebt
<1>2. [e \in Delivery |-> uncertain[e] \/ HasFailure(e)]'
        = [e \in Delivery |-> uncertain[e] \/ HasFailure(e)]
  BY DEF SameDoubt, Doubt
<1>3. QED
  BY <1>1, <1>2 DEF Promise!Accept, Promise!Refuse

\* An attempt takes effect.
LEMMA PromiseHappens ==
  ASSUME NEW d \in Delivery, DebtOf(d) = "owed", seen[d] # {} => Doubt(d),
         NEW n \in seen'[d], n \notin seen[d], seen' = [seen EXCEPT ![d] = @ \cup {n}],
         \A e \in Delivery : SameDebt(e) /\ SameDoubt(e)
  PROVE  Promise!Happen(d)
<1>1. [e \in Delivery |-> DebtOf(e)]' = [e \in Delivery |-> DebtOf(e)]
  BY DEF SameDebt
<1>2. [e \in Delivery |-> uncertain[e] \/ HasFailure(e)]'
        = [e \in Delivery |-> uncertain[e] \/ HasFailure(e)]
  BY DEF SameDoubt, Doubt
<1>3. seen[d] # {} => [e \in Delivery |-> uncertain[e] \/ HasFailure(e)][d]
  BY DEF Doubt
<1>4. QED
  BY <1>1, <1>2, <1>3 DEF Promise!Happen

\* The record of some owed deliveries comes to admit a doubt.
LEMMA PromiseAdmits ==
  ASSUME NEW S \in SUBSET Delivery, \A e \in S : DebtOf(e) = "owed",
         \A e \in Delivery : SameDebt(e),
         \A e \in Delivery : Doubt(e)' <=> Doubt(e) \/ e \in S,
         seen' = seen
  PROVE  Promise!Admit(S)
<1>1. [e \in Delivery |-> DebtOf(e)]' = [e \in Delivery |-> DebtOf(e)]
  BY DEF SameDebt
<1>2. [e \in Delivery |-> uncertain[e] \/ HasFailure(e)]'
        = [e \in Delivery |->
             [f \in Delivery |-> uncertain[f] \/ HasFailure(f)][e] \/ e \in S]
  BY DEF Doubt
<1>3. QED
  BY <1>1, <1>2 DEF Promise!Admit

\* A delivery is settled.
LEMMA PromiseEnds ==
  ASSUME NEW d \in Delivery, DebtOf(d) = "owed", NEW x \in {"done", "given_up"},
         DebtOf(d)' = x, \A e \in Delivery : e # d => SameDebt(e) /\ SameDoubt(e),
         x = "done" => SameDoubt(d) /\ (seen[d] # {} \/ Transport[d] = "capability"),
         Doubt(d) => Doubt(d)', seen' = seen
  PROVE  Promise!Finish(d) \/ Promise!GiveUp(d)
<1>1. [e \in Delivery |-> DebtOf(e)]'
        = [[e \in Delivery |-> DebtOf(e)] EXCEPT ![d] = x]
  BY DEF SameDebt
<1>2. CASE SameDoubt(d)
  <2>1. [e \in Delivery |-> uncertain[e] \/ HasFailure(e)]'
          = [e \in Delivery |-> uncertain[e] \/ HasFailure(e)]
    BY <1>2 DEF SameDoubt, Doubt
  <2>2. QED
    BY <1>1, <2>1 DEF Promise!Finish, Promise!GiveUp
<1>3. CASE ~SameDoubt(d)
  <2>1. ~Doubt(d) /\ Doubt(d)' /\ x = "given_up"
    BY <1>3 DEF SameDoubt
  <2>2. \A e \in Delivery : (uncertain[e] \/ HasFailure(e))' <=>
                              (IF e = d THEN TRUE ELSE uncertain[e] \/ HasFailure(e))
    BY <2>1 DEF SameDoubt, Doubt
  <2>3. [e \in Delivery |-> uncertain[e] \/ HasFailure(e)]'
          = [[e \in Delivery |-> uncertain[e] \/ HasFailure(e)] EXCEPT ![d] = TRUE]
    BY <2>2
  <2>4. QED
    BY <1>1, <2>1, <2>3 DEF Promise!GiveUp
<1>4. QED
  BY <1>2, <1>3

-----------------------------------------------------------------------------
(* The steps of the outbox.                                                *)

LEMMA DebtFrame ==
  ASSUME NEW d, status'[d] = status[d]
  PROVE  SameDebt(d)
  BY DEF SameDebt, DebtOf

LEMMA DoubtFrame ==
  ASSUME NEW d, attempt'[d] = attempt[d], uncertain'[d] = uncertain[d], log'[d] = log[d]
  PROVE  SameDoubt(d)
  BY DEF SameDoubt, Doubt, HasFailure

LEMMA PromiseInit == Init => Promise!Init
<1> SUFFICES ASSUME Init PROVE Promise!Init
  OBVIOUS
<1>1. \A d \in Delivery : DebtOf(d) = "none"
  BY DEF Init, DebtOf
<1>2. \A d \in Delivery : uncertain[d] \/ HasFailure(d) <=> FALSE
  BY DEF Init, HasFailure
<1>3. seen = [d \in Delivery |-> {}]
  BY DEF Init
<1>4. QED
  BY <1>1, <1>2, <1>3 DEF Promise!Init

\* Writing an outcome admits a failure, and nothing else.
LEMMA FinishDoubt ==
  ASSUME IInv, NEW t \in tasks, t.at \in Outcomes, FinishAttempt(t),
         UNCHANGED <<attempt, uncertain>>
  PROVE  /\ \A e \in Delivery : e # t.d => SameDoubt(e)
         /\ Doubt(t.d)' <=> Doubt(t.d) \/ t.at = "failed"
<1>1. /\ t \in Tasks /\ t.d \in Delivery
      /\ t.n \in 1..attempt[t.d] /\ log[t.d][t.n] = "open"
  BY TaskFacts DEF TaskInv
<1>2. \A e \in Delivery : \A n \in 1..attempt[e] :
        log'[e][n] = IF e = t.d /\ n = t.n THEN t.at ELSE log[e][n]
  BY <1>1, FinishAttemptLog DEF IInv, TypeOK
<1>3. \A e \in Delivery : e # t.d => SameDoubt(e)
  BY <1>2 DEF SameDoubt, Doubt, HasFailure
<1>4. HasFailure(t.d)' <=> HasFailure(t.d) \/ t.at = "failed"
  BY <1>1, <1>2 DEF HasFailure
<1>5. QED
  BY <1>3, <1>4 DEF Doubt

LEMMA EnqueuePromise ==
  ASSUME IInv, NEW d \in Delivery, Enqueue(d)
  PROVE  Promise!Next
<1>1. /\ UNCHANGED <<attempt, uncertain, log, seen>>
      /\ status[d] = "absent"
      /\ status'[d] \in {"pending", "denied"}
      /\ \A e \in Delivery : e # d => status'[e] = status[e]
  BY DEF Enqueue, mem, IInv, TypeOK, RowTyped
<1>2. \A e \in Delivery : SameDoubt(e)
  BY <1>1, DoubtFrame
<1>3. \A e \in Delivery : e # d => SameDebt(e)
  BY <1>1, DebtFrame
<1>4. DebtOf(d) = "none" /\ DebtOf(d)' \in {"owed", "given_up"}
  BY <1>1 DEF DebtOf
<1>5. Promise!Accept(d) \/ Promise!Refuse(d)
  BY <1>1, <1>2, <1>3, <1>4, PromiseBegins
<1>6. QED
  BY <1>5 DEF Promise!Next

\* A claim makes no debt and no doubt: what it logs is open.
LEMMA ClaimPromise ==
  ASSUME IInv, ClaimDue
  PROVE  UNCHANGED Promise!avars
<1>1. PICK S \in SUBSET Due :
        /\ status' = [d \in Delivery |-> IF d \in S THEN "in_flight" ELSE status[d]]
        /\ attempt' = [d \in Delivery |-> IF d \in S THEN attempt[d] + 1 ELSE attempt[d]]
        /\ log' = [d \in Delivery |-> IF d \in S THEN Append(log[d], "open") ELSE log[d]]
  BY DEF ClaimDue
<1>2. UNCHANGED <<uncertain, seen>>
  BY DEF ClaimDue
<1>3. /\ \A d \in S : log'[d][attempt[d] + 1] = "open"
      /\ \A d \in Delivery : \A n \in 1..attempt[d] : log'[d][n] = log[d][n]
  BY <1>1, ClaimLog DEF IInv, TypeOK, Due
<1>4. ASSUME NEW d \in Delivery
      PROVE  SameDebt(d)
  BY <1>1 DEF Due, SameDebt, DebtOf
<1>5. ASSUME NEW d \in Delivery
      PROVE  SameDoubt(d)
  <2>1. attempt[d] \in Nat
    BY DEF IInv, TypeOK, RowTyped
  <2>2. CASE d \in S
    <3>1. attempt'[d] = attempt[d] + 1
      BY <1>1, <2>2
    <3>2. \A n \in 1..attempt'[d] :
            log'[d][n] = IF n = attempt[d] + 1 THEN "open" ELSE log[d][n]
      BY <1>3, <2>1, <2>2, <3>1
    <3>3. HasFailure(d)' <=> HasFailure(d)
      BY <2>1, <3>1, <3>2 DEF HasFailure
    <3>4. QED
      BY <1>2, <3>3 DEF SameDoubt, Doubt
  <2>3. CASE d \notin S
    BY <1>1, <1>2, <2>3, DoubtFrame
  <2>4. QED
    BY <2>2, <2>3
<1>6. QED
  BY <1>2, <1>4, <1>5, PromiseStutters

\* Acting may take effect, and a second time only in doubt.
LEMMA ActPromise ==
  ASSUME IInv, NEW t \in tasks,
         Refuse(t) \/ Allow(t) \/ HandBack(t) \/ HandOff(t) \/ Post(t) \/ Response(t)
  PROVE  Promise!Next \/ UNCHANGED Promise!avars
<1>1. UNCHANGED <<status, attempt, uncertain, log>>
  BY DEF Refuse, Allow, HandBack, HandOff, Post, Response, row
<1>2. \A e \in Delivery : SameDebt(e) /\ SameDoubt(e)
  BY <1>1, DebtFrame, DoubtFrame
<1>3. CASE seen' = seen
  BY <1>2, <1>3, PromiseStutters
<1>4. CASE seen' # seen
  <2>1. t.at = "send" /\ seen' = [seen EXCEPT ![t.d] = @ \cup {t.n}]
    BY <1>4 DEF Refuse, Allow, HandBack, HandOff, Post, Response
  <2>2. /\ t.d \in Delivery /\ status[t.d] = "in_flight"
        /\ t.n = attempt[t.d] /\ t.n \notin seen[t.d]
        /\ seen \in [Delivery -> SUBSET Nat] /\ attempt[t.d] \in Nat
        /\ RowInv(t.d)
    BY <2>1, TaskFacts DEF TaskInv
  <2>3. seen[t.d] # {} => Doubt(t.d)
    BY <2>2 DEF RowInv, Accounted, Doubt, HasFailure
  <2>4. DebtOf(t.d) = "owed" /\ t.n \in seen'[t.d]
    BY <2>1, <2>2 DEF DebtOf
  <2>5. Promise!Happen(t.d)
    BY <1>2, <2>1, <2>2, <2>3, <2>4, PromiseHappens
  <2>6. QED
    BY <2>2, <2>5 DEF Promise!Next
<1>5. QED
  BY <1>3, <1>4

LEMMA RecordPromise ==
  ASSUME IInv, NEW t \in tasks, Record(t)
  PROVE  Promise!Next
<1>1. /\ t.d \in Delivery /\ status[t.d] = "in_flight" /\ t.at \in Outcomes
      /\ status \in [Delivery -> Statuses]
      /\ t.at = "completed" => seen[t.d] # {} \/ Transport[t.d] = "capability"
  BY TaskFacts DEF TaskInv, Record
<1>2. UNCHANGED <<attempt, uncertain, seen>> /\ FinishAttempt(t)
  BY DEF Record
<1>3. /\ \A e \in Delivery : e # t.d => SameDoubt(e)
      /\ Doubt(t.d)' <=> Doubt(t.d) \/ t.at = "failed"
  BY <1>1, <1>2, FinishDoubt
<1>4. \A e \in Delivery : e # t.d => SameDebt(e)
  BY <1>1, DebtFrame DEF Record, SettleOrReschedule
<1>5. DebtOf(t.d) = "owed"
  BY <1>1 DEF DebtOf
<1>6. CASE status'[t.d] = "pending"
  <2>1. t.at = "failed" /\ DebtOf(t.d)' = "owed"
    BY <1>1, <1>6 DEF Record, SettleOrReschedule, Outcomes, Terminal, DebtOf
  <2>2. \A e \in Delivery : SameDebt(e)
    BY <1>4, <1>5, <2>1 DEF SameDebt
  <2>3. \A e \in Delivery : Doubt(e)' <=> Doubt(e) \/ e \in {t.d}
    BY <1>3, <2>1 DEF SameDoubt
  <2>4. Promise!Admit({t.d})
    BY <1>1, <1>2, <1>5, <2>2, <2>3, PromiseAdmits
  <2>5. QED
    BY <1>1, <2>4 DEF Promise!Next
<1>7. CASE status'[t.d] # "pending"
  <2>1. status'[t.d] = t.at
    BY <1>1, <1>7 DEF Record, SettleOrReschedule
  <2>2. DebtOf(t.d)' = IF t.at = "completed" THEN "done" ELSE "given_up"
    BY <1>1, <2>1 DEF Outcomes, Terminal, DebtOf
  <2>3. t.at = "completed" => SameDoubt(t.d)
    BY <1>3 DEF SameDoubt
  <2>4. Promise!Finish(t.d) \/ Promise!GiveUp(t.d)
    BY <1>1, <1>2, <1>3, <1>4, <1>5, <2>2, <2>3, PromiseEnds
  <2>5. QED
    BY <1>1, <2>4 DEF Promise!Next
<1>8. QED
  BY <1>6, <1>7

\* An outcome that is only half recorded.
LEMMA HalfRecordPromise ==
  ASSUME IInv, NEW t \in tasks, RecordFails(t) \/ CrashWhileRecording(t)
  PROVE  Promise!Next \/ UNCHANGED Promise!avars
<1>1. t.d \in Delivery /\ status[t.d] = "in_flight"
  BY TaskFacts DEF TaskInv
<1>2. /\ UNCHANGED <<status, attempt, uncertain, seen>>
      /\ t.at \in Outcomes
      /\ FinishAttempt(t) \/ UNCHANGED log
  BY DEF RecordFails, CrashWhileRecording, Die
<1>3. \A e \in Delivery : SameDebt(e)
  BY <1>2, DebtFrame
<1>4. CASE FinishAttempt(t) /\ t.at = "failed"
  <2>1. \A e \in Delivery : Doubt(e)' <=> Doubt(e) \/ e \in {t.d}
    BY <1>1, <1>2, <1>4, FinishDoubt DEF SameDoubt
  <2>2. DebtOf(t.d) = "owed"
    BY <1>1 DEF DebtOf
  <2>3. Promise!Admit({t.d})
    BY <1>1, <1>2, <1>3, <2>1, <2>2, PromiseAdmits
  <2>4. QED
    BY <1>1, <2>3 DEF Promise!Next
<1>5. CASE FinishAttempt(t) /\ t.at # "failed"
  <2>1. \A e \in Delivery : SameDoubt(e)
    BY <1>1, <1>2, <1>5, FinishDoubt DEF SameDoubt
  <2>2. QED
    BY <1>2, <1>3, <2>1, PromiseStutters
<1>6. CASE UNCHANGED log
  BY <1>2, <1>3, <1>6, DoubtFrame, PromiseStutters
<1>7. QED
  BY <1>2, <1>4, <1>5, <1>6

\* Recovery admits every interrupted attempt at once.
LEMMA RecoverPromise ==
  ASSUME IInv, Recover
  PROVE  Promise!Next
<1>1. /\ UNCHANGED <<attempt, log, seen>>
      /\ \A d \in Delivery : IF d \in Interrupted
                             THEN status'[d] = "pending" /\ uncertain'[d] = TRUE
                             ELSE status'[d] = status[d] /\ uncertain'[d] = uncertain[d]
  BY DEF Recover, IInv, TypeOK, RowTyped
<1>2. \A d \in Delivery : SameDebt(d)
  BY <1>1 DEF Interrupted, SameDebt, DebtOf
<1>3. PICK S \in SUBSET Delivery : S = Interrupted
  BY DEF Interrupted
<1>4. \A d \in Delivery : Doubt(d)' <=> Doubt(d) \/ d \in S
  BY <1>1, <1>3 DEF Doubt, HasFailure
<1>5. \A d \in S : DebtOf(d) = "owed"
  BY <1>3 DEF Interrupted, DebtOf
<1>6. Promise!Admit(S)
  BY <1>1, <1>2, <1>4, <1>5, PromiseAdmits
<1>7. QED
  BY <1>6 DEF Promise!Next

LEMMA PromiseStep == IInv /\ [Next]_vars => [Promise!Next]_(Promise!avars)
<1> SUFFICES ASSUME IInv, [Next]_vars
             PROVE  Promise!Next \/ UNCHANGED Promise!avars
  OBVIOUS
<1>1. CASE \E d \in Delivery : Enqueue(d)
  BY <1>1, EnqueuePromise
<1>2. CASE \/ \E d \in Delivery : Register(d) \/ PeerGone(d) \/ BackoffElapses(d)
           \/ Crash
           \/ UNCHANGED vars
  <2>1. UNCHANGED <<status, attempt, uncertain, log, seen>>
    BY <1>2 DEF Register, PeerGone, BackoffElapses, Crash, row, mem, vars
  <2>2. QED
    BY <2>1, DebtFrame, DoubtFrame, PromiseStutters
<1>3. CASE ClaimDue
  BY <1>3, ClaimPromise
<1>4. CASE \E t \in tasks : TaskStep(t) \/ RecordFails(t) \/ CrashWhileRecording(t)
  BY <1>4, ActPromise, RecordPromise, HalfRecordPromise DEF TaskStep
<1>5. CASE Recover
  BY <1>5, RecoverPromise
<1>6. QED
  BY <1>1, <1>2, <1>3, <1>4, <1>5 DEF Next

\* The outbox keeps the promise of AtLeastOnce: what it accepts is owed until
\* it is settled, done only if it happened, and repeated only on the record.
THEOREM OutboxKeepsPromise == Spec => PromiseKept
<1>1. QED
  BY PromiseInit, PromiseStep, Inductive, PTL DEF Spec, PromiseKept, Promise!Spec
=============================================================================
