---------------------------- MODULE OutboxProofs ----------------------------
(***************************************************************************)
(* Proofs about Outbox, for every set of deliveries, every transport       *)
(* assignment and every bound: its invariants, the attempt budget, and what*)
(* no step does.                                                           *)
(***************************************************************************)
EXTENDS Outbox, SequenceTheorems, FiniteSetTheorems, TLAPS

\* What a task knows.  It works on the newest attempt of a claimed row, whose
\* log entry is still open.  It has not acted yet, and the attempt left no
\* effect; or it reports success, and the attempt caused one; or it reports a
\* refusal or a vanished origin, and the attempt caused none.
TaskInv(t) ==
  /\ status[t.d] = "in_flight"
  /\ t.n = attempt[t.d]
  /\ attempt[t.d] > 0
  /\ log[t.d][t.n] = "open"
  /\ t.n \in seen[t.d] => t.at \in {"wait", "completed", "failed"}
  /\ t.at = "completed" => t.n \in seen[t.d] \/ Transport[t.d] = "capability"
  /\ t.at \in {"wait", "failed"} => Transport[t.d] = "http"
  /\ t.at = "orphaned" => Transport[t.d] = "return-path"

\* What a row says about its log and its effects.  The conjuncts about the
\* pending row are what a claim needs: a claim makes the last attempt an
\* earlier one.
Accounted(d, n) == log[d][n] = "failed" \/ uncertain[d]

RowInv(d) ==
  /\ \A n \in seen[d] : /\ n \in 1..attempt[d]
                        /\ log[d][n] \in {"open", "completed", "failed"}
                        /\ n < attempt[d] \/ status[d] = "pending" => Accounted(d, n)
  /\ \A n \in 1..attempt[d] :
       /\ log[d][n] = "open" =>
            uncertain[d] \/ (n = attempt[d] /\ status[d] = "in_flight")
       /\ log[d][n] = "failed" => Transport[d] = "http"
  /\ status[d] = "absent" => attempt[d] = 0
  /\ status[d] \in Terminal \ {"denied"} =>
       attempt[d] > 0 /\ log[d][attempt[d]] = status[d]
  /\ status[d] = "completed" =>
       attempt[d] \in seen[d] \/ Transport[d] = "capability"
  /\ status[d] = "orphaned" => Transport[d] = "return-path"

TasksInv ==
  /\ \A t \in tasks : TaskInv(t)
  /\ \A t, u \in tasks : t.d = u.d => t = u
  /\ ~up => tasks = {}

RowsInv == \A d \in Delivery : RowInv(d)

IInv == TypeOK /\ TasksInv /\ RowsInv

-----------------------------------------------------------------------------
(* The attempt log.                                                        *)

\* Overwriting a position of a sequence leaves its length and its other
\* positions alone (finish_attempt's UPDATE).
LEMMA OverwriteSeq ==
  ASSUME NEW S, NEW s \in Seq(S), NEW n, NEW x \in S
  PROVE  /\ [s EXCEPT ![n] = x] \in Seq(S)
         /\ Len([s EXCEPT ![n] = x]) = Len(s)
         /\ \A m \in 1..Len(s) :
              [s EXCEPT ![n] = x][m] = IF m = n THEN x ELSE s[m]
<1>1. CASE n \in 1..Len(s)
  BY <1>1, ExceptSeq
<1>2. CASE n \notin 1..Len(s)
  <2>1. s \in [1..Len(s) -> S] /\ DOMAIN s = 1..Len(s)
    BY LenProperties
  <2>2. [s EXCEPT ![n] = x] = s
    BY <1>2, <2>1
  <2>3. QED
    BY <1>2, <2>2
<1>3. QED
  BY <1>1, <1>2

\* finish_attempt writes the outcome of one attempt of one delivery.
LEMMA FinishAttemptLog ==
  ASSUME LogTyped, NEW t \in Tasks, t.at \in Outcomes, FinishAttempt(t),
         UNCHANGED attempt
  PROVE  /\ LogTyped'
         /\ \A d \in Delivery : \A n \in 1..attempt[d] :
              log'[d][n] = IF d = t.d /\ n = t.n THEN t.at ELSE log[d][n]
<1> DEFINE Entry == Outcomes \cup {"open"}
           old == log[t.d]
           new == [old EXCEPT ![t.n] = t.at]
<1>1. t.d \in Delivery /\ old \in Seq(Entry) /\ t.at \in Entry
  BY DEF LogTyped, Tasks
<1>2. log' = [log EXCEPT ![t.d] = new]
  BY DEF FinishAttempt
<1> HIDE DEF Entry, old
<1>3. /\ new \in Seq(Entry)
      /\ Len(new) = Len(old)
      /\ \A m \in 1..Len(old) : new[m] = IF m = t.n THEN t.at ELSE old[m]
  BY <1>1, OverwriteSeq, Z3
<1> HIDE DEF new
<1>4. log \in [Delivery -> Seq(Entry)] /\ \A d \in Delivery : Len(log[d]) = attempt[d]
  BY DEF LogTyped, Entry
<1>5. \A d \in Delivery : log'[d] = IF d = t.d THEN new ELSE log[d]
  BY <1>2, <1>4
<1>6. log' \in [Delivery -> Seq(Entry)]
  BY <1>1, <1>2, <1>3, <1>4
<1>7. \A d \in Delivery : Len(log'[d]) = attempt'[d]
  BY <1>3, <1>4, <1>5 DEF old
<1>8. \A d \in Delivery : \A n \in 1..attempt[d] :
        log'[d][n] = IF d = t.d /\ n = t.n THEN t.at ELSE log[d][n]
  BY <1>3, <1>4, <1>5 DEF old
<1>9. QED
  BY <1>6, <1>7, <1>8 DEF LogTyped, Entry

\* claim_due opens one more log row for each delivery it claims.
LEMMA ClaimLog ==
  ASSUME RowTyped, LogTyped, NEW S,
         attempt' = [d \in Delivery |-> IF d \in S THEN attempt[d] + 1 ELSE attempt[d]],
         log' = [d \in Delivery |-> IF d \in S THEN Append(log[d], "open") ELSE log[d]]
  PROVE  /\ LogTyped'
         /\ \A d \in S \cap Delivery : log'[d][attempt[d] + 1] = "open"
         /\ \A d \in Delivery : \A n \in 1..attempt[d] : log'[d][n] = log[d][n]
  BY DEF RowTyped, LogTyped

-----------------------------------------------------------------------------
(* Type correctness.                                                       *)

LEMMA TypeInit == Init => TypeOK
  BY RestartsAssumption DEF Init, TypeOK, RowTyped, LogTyped, MemTyped, Statuses

\* Advancing a task keeps it a task, and the same delivery's.
LEMMA AdvanceType ==
  ASSUME tasks \in SUBSET Tasks, NEW t \in tasks, NEW s \in Stages \cup Outcomes,
         Advance(t, s)
  PROVE  tasks' \in SUBSET Tasks
  BY DEF Advance, Tasks

LEMMA TypeStep == TypeOK /\ [Next]_vars => TypeOK'
<1> SUFFICES ASSUME TypeOK, [Next]_vars PROVE TypeOK'
  OBVIOUS
<1> USE RestartsAssumption
<1>1. CASE \E d \in Delivery : Enqueue(d)
  <2>1. PICK d \in Delivery : Enqueue(d)
    BY <1>1
  <2>2. Cardinality(Present) \in Nat
    BY DeliveryAssumption, FS_Subset, FS_CardinalityType DEF Present
  <2>3. RowTyped'
    BY <2>1, <2>2 DEF TypeOK, RowTyped, Enqueue, Statuses, Terminal
  <2>4. LogTyped' /\ MemTyped'
    BY <2>1 DEF TypeOK, LogTyped, MemTyped, Enqueue, mem
  <2>5. QED
    BY <2>1, <2>3, <2>4 DEF TypeOK, Enqueue
<1>2. CASE \E d \in Delivery : Register(d) \/ PeerGone(d)
  <2>1. RowTyped' /\ LogTyped'
    BY <1>2 DEF TypeOK, RowTyped, LogTyped, Register, PeerGone, row
  <2>2. MemTyped'
    BY <1>2 DEF TypeOK, MemTyped, Register, PeerGone
  <2>3. QED
    BY <1>2, <2>1, <2>2 DEF TypeOK, Register, PeerGone
<1>3. CASE \E d \in Delivery : BackoffElapses(d)
  <2>1. RowTyped'
    BY <1>3 DEF TypeOK, RowTyped, BackoffElapses
  <2>2. LogTyped' /\ MemTyped'
    BY <1>3 DEF TypeOK, LogTyped, MemTyped, BackoffElapses, mem
  <2>3. QED
    BY <1>3, <2>1, <2>2 DEF TypeOK, BackoffElapses
<1>4. CASE ClaimDue
  <2>1. PICK S \in SUBSET Due :
          /\ status' = [d \in Delivery |-> IF d \in S THEN "in_flight" ELSE status[d]]
          /\ attempt' = [d \in Delivery |-> IF d \in S THEN attempt[d] + 1 ELSE attempt[d]]
          /\ log' = [d \in Delivery |-> IF d \in S THEN Append(log[d], "open") ELSE log[d]]
          /\ tasks' = tasks \cup {[d |-> d, n |-> attempt[d] + 1, at |-> "check"] : d \in S}
    BY <1>4 DEF ClaimDue
  <2>2. S \subseteq Delivery
    BY DEF Due
  <2>3. tasks' \in SUBSET Tasks
    BY <2>1, <2>2 DEF TypeOK, RowTyped, MemTyped, Tasks, Stages
  <2>4. RowTyped'
    BY <2>1, <1>4 DEF TypeOK, RowTyped, ClaimDue, Statuses
  <2>5. LogTyped'
    BY <2>1, ClaimLog DEF TypeOK
  <2>6. MemTyped'
    BY <2>3, <1>4 DEF TypeOK, MemTyped, ClaimDue
  <2>7. QED
    BY <2>4, <2>5, <2>6, <1>4 DEF TypeOK, ClaimDue
<1>5. CASE \E t \in tasks : TaskStep(t) \/ RecordFails(t) \/ CrashWhileRecording(t)
  <2>1. PICK t \in tasks : TaskStep(t) \/ RecordFails(t) \/ CrashWhileRecording(t)
    BY <1>5
  <2>2. t \in Tasks /\ t.d \in Delivery /\ t.n \in Nat
    BY DEF TypeOK, MemTyped, Tasks
  <2>3. CASE Refuse(t) \/ Allow(t) \/ HandBack(t) \/ HandOff(t) \/ Post(t) \/ Response(t)
    <3>1. tasks' \in SUBSET Tasks
      BY <2>3, AdvanceType
         DEF TypeOK, MemTyped, Refuse, Allow, HandBack, HandOff, Post, Response,
             Stages, Outcomes, Terminal
    <3>2. RowTyped' /\ LogTyped'
      BY <2>3 DEF TypeOK, RowTyped, LogTyped, row,
                  Refuse, Allow, HandBack, HandOff, Post, Response
    <3>3. MemTyped'
      BY <2>3, <3>1 DEF TypeOK, MemTyped,
                        Refuse, Allow, HandBack, HandOff, Post, Response
    <3>4. seen' \in [Delivery -> SUBSET Nat] /\ restarts' = restarts
      BY <2>2, <2>3 DEF TypeOK, Refuse, Allow, HandBack, HandOff, Post, Response
    <3>5. QED
      BY <3>2, <3>3, <3>4 DEF TypeOK
  <2>4. CASE Record(t)
    <3>1. RowTyped'
      BY <2>2, <2>4 DEF Record, SettleOrReschedule, TypeOK, RowTyped, Statuses, Outcomes
    <3>2. LogTyped'
      BY <2>2, <2>4, FinishAttemptLog DEF Record, TypeOK
    <3>3. MemTyped'
      BY <2>4 DEF Record, TypeOK, MemTyped
    <3>4. QED
      BY <2>4, <3>1, <3>2, <3>3 DEF Record, TypeOK
  <2>5. CASE RecordFails(t)
    <3>1. LogTyped'
      <4>1. CASE FinishAttempt(t)
        BY <2>2, <2>5, <4>1, FinishAttemptLog DEF RecordFails, TypeOK
      <4>2. CASE UNCHANGED log
        BY <2>5, <4>2 DEF RecordFails, TypeOK, LogTyped
      <4>3. QED
        BY <2>5, <4>1, <4>2 DEF RecordFails
    <3>2. RowTyped' /\ MemTyped'
      BY <2>5 DEF RecordFails, TypeOK, RowTyped, MemTyped
    <3>3. QED
      BY <2>5, <3>1, <3>2 DEF RecordFails, TypeOK
  <2>6. CASE CrashWhileRecording(t)
    <3>1. LogTyped'
      BY <2>2, <2>6, FinishAttemptLog DEF CrashWhileRecording, TypeOK
    <3>2. RowTyped' /\ MemTyped'
      BY <2>6 DEF CrashWhileRecording, Die, TypeOK, RowTyped, MemTyped
    <3>3. QED
      BY <2>6, <3>1, <3>2 DEF CrashWhileRecording, Die, TypeOK
  <2>7. QED
    BY <2>1, <2>3, <2>4, <2>5, <2>6 DEF TaskStep
<1>6. CASE Crash
  <2>1. RowTyped' /\ LogTyped'
    BY <1>6 DEF Crash, TypeOK, RowTyped, LogTyped, row
  <2>2. MemTyped'
    BY <1>6 DEF Crash, Die, TypeOK, MemTyped
  <2>3. QED
    BY <1>6, <2>1, <2>2 DEF Crash, Die, TypeOK
<1>7. CASE Recover
  <2>1. RowTyped'
    BY <1>7 DEF Recover, Interrupted, TypeOK, RowTyped, Statuses
  <2>2. LogTyped' /\ MemTyped'
    BY <1>7 DEF Recover, TypeOK, LogTyped, MemTyped
  <2>3. QED
    BY <1>7, <2>1, <2>2 DEF Recover, TypeOK
<1>8. CASE UNCHANGED vars
  BY <1>8 DEF vars, TypeOK, RowTyped, LogTyped, MemTyped
<1>9. QED
  BY <1>1, <1>2, <1>3, <1>4, <1>5, <1>6, <1>7, <1>8 DEF Next

\* Every reachable state is well typed, and the attempt counter is always the
\* length of the attempt log.
THEOREM TypeCorrect == Spec => []TypeOK
  BY TypeInit, TypeStep, PTL DEF Spec

-----------------------------------------------------------------------------
(* The inductive invariant.                                                *)

\* A step that leaves the row, the log and the effects of a delivery alone
\* keeps what they say, and what a task of that delivery knows.
SameRow(d) ==
  /\ status'[d] = status[d]
  /\ attempt'[d] = attempt[d]
  /\ uncertain'[d] = uncertain[d]
  /\ log'[d] = log[d]
  /\ seen'[d] = seen[d]

LEMMA RowFrame ==
  ASSUME NEW d, SameRow(d), RowInv(d)
  PROVE  RowInv(d)'
  BY DEF SameRow, RowInv, Accounted

LEMMA TaskFrame ==
  ASSUME NEW t, SameRow(t.d), TaskInv(t)
  PROVE  TaskInv(t)'
  BY DEF SameRow, TaskInv

LEMMA InvInit == Init => IInv
<1> SUFFICES ASSUME Init PROVE IInv
  OBVIOUS
<1>1. TypeOK
  BY TypeInit
<1>2. TasksInv
  BY DEF Init, TasksInv
<1>3. RowsInv
  BY DEF Init, RowsInv, RowInv, Terminal
<1>4. QED
  BY <1>1, <1>2, <1>3 DEF IInv

\* Advancing one task, whatever it did to the effects of its own delivery.
LEMMA AdvanceInv ==
  ASSUME IInv, NEW t \in tasks, NEW s, Advance(t, s),
         UNCHANGED <<status, attempt, uncertain, log, up>>,
         \A d \in Delivery : d # t.d => seen'[d] = seen[d],
         RowInv(t.d)', TaskInv([t EXCEPT !.at = s])'
  PROVE  TasksInv' /\ RowsInv'
<1>1. t \in Tasks /\ tasks \subseteq Tasks
  BY DEF IInv, TypeOK, MemTyped
<1> DEFINE new == [t EXCEPT !.at = s]
<1>2. new.d = t.d
  BY <1>1 DEF Tasks
<1>3. tasks' = (tasks \ {t}) \cup {new}
  BY DEF Advance
<1>4. \A u \in tasks \ {t} : u.d \in Delivery /\ u.d # t.d
  BY <1>1 DEF IInv, TasksInv, Tasks
<1> HIDE DEF new
<1>5. \A u \in tasks \ {t} : TaskInv(u)'
  BY <1>4, TaskFrame DEF IInv, TasksInv, SameRow
<1>6. TasksInv'
  <2>1. \A u \in tasks' : TaskInv(u)'
    BY <1>3, <1>5 DEF new
  <2>2. \A u, v \in tasks' : u.d = v.d => u = v
    BY <1>2, <1>3, <1>4 DEF IInv, TasksInv
  <2>3. up'
    BY DEF IInv, TasksInv
  <2>4. QED
    BY <2>1, <2>2, <2>3 DEF TasksInv
<1>7. RowsInv'
  <2>1. \A d \in Delivery : d # t.d => RowInv(d)'
    BY RowFrame DEF IInv, RowsInv, SameRow
  <2>2. QED
    BY <2>1 DEF RowsInv
<1>8. QED
  BY <1>6, <1>7

\* A step that ends one task, or kills them all, and touches only its row.
LEMMA EndInv ==
  ASSUME IInv, NEW t \in tasks,
         UNCHANGED <<attempt, uncertain, seen>>,
         \A d \in Delivery : d # t.d => status'[d] = status[d] /\ log'[d] = log[d],
         \/ tasks' = {}
         \/ tasks' = tasks \ {t} /\ up' = up,
         RowInv(t.d)'
  PROVE  TasksInv' /\ RowsInv'
<1>1. t \in Tasks /\ tasks \subseteq Tasks
  BY DEF IInv, TypeOK, MemTyped
<1>2. \A u \in tasks \ {t} : u.d \in Delivery /\ u.d # t.d
  BY <1>1 DEF IInv, TasksInv, Tasks
<1>3. \A u \in tasks \ {t} : TaskInv(u)'
  BY <1>2, TaskFrame DEF IInv, TasksInv, SameRow
<1>4. TasksInv'
  BY <1>3 DEF IInv, TasksInv
<1>5. \A d \in Delivery : d # t.d => RowInv(d)'
  BY RowFrame DEF IInv, RowsInv, SameRow
<1>6. QED
  BY <1>4, <1>5 DEF RowsInv

\* What a task of the invariant has at hand: its row is in flight.
LEMMA TaskFacts ==
  ASSUME IInv, NEW t \in tasks
  PROVE  /\ t \in Tasks /\ t.d \in Delivery /\ t.n \in Nat
         /\ TaskInv(t) /\ RowInv(t.d)
         /\ t.n \in 1..attempt[t.d]
         /\ attempt \in [Delivery -> Nat]
         /\ status \in [Delivery -> Statuses]
         /\ seen \in [Delivery -> SUBSET Nat]
         /\ up = TRUE
<1>1. t \in Tasks /\ t.d \in Delivery /\ t.n \in Nat
  BY DEF IInv, TypeOK, MemTyped, Tasks
<1>2. TaskInv(t) /\ RowInv(t.d) /\ up = TRUE
  BY <1>1 DEF IInv, TypeOK, MemTyped, TasksInv, RowsInv
<1>3. /\ attempt \in [Delivery -> Nat]
      /\ status \in [Delivery -> Statuses]
      /\ seen \in [Delivery -> SUBSET Nat]
  BY DEF IInv, TypeOK, RowTyped
<1>4. QED
  BY <1>1, <1>2, <1>3 DEF TaskInv

\* The steps of attempt() that only decide or act.
LEMMA ActInv ==
  ASSUME IInv, NEW t \in tasks,
         Refuse(t) \/ Allow(t) \/ HandBack(t) \/ HandOff(t) \/ Post(t) \/ Response(t)
  PROVE  TasksInv' /\ RowsInv'
<1>0. /\ t \in Tasks /\ t.d \in Delivery /\ t.n \in Nat
      /\ TaskInv(t) /\ RowInv(t.d)
      /\ t.n \in 1..attempt[t.d]
      /\ attempt \in [Delivery -> Nat]
      /\ status \in [Delivery -> Statuses]
      /\ seen \in [Delivery -> SUBSET Nat]
      /\ up = TRUE
  BY TaskFacts
<1> USE <1>0
<1>1. CASE Refuse(t) \/ Allow(t) \/ HandOff(t) \/ Response(t)
  <2>1. PICK s \in {"denied", "send", "completed", "failed"} :
          /\ Advance(t, s)
          /\ s = "denied" \/ s = "send" => t.at = "check"
          /\ s = "completed" => t.n \in seen[t.d] \/ Transport[t.d] = "capability"
          /\ s = "failed" => t.at = "wait"
    BY <1>1 DEF Refuse, Allow, HandOff, Response
  <2>2. UNCHANGED <<status, attempt, uncertain, log, up, seen>>
    BY <1>1 DEF Refuse, Allow, HandOff, Response, row
  <2>3. RowInv(t.d)'
    BY <2>2, RowFrame DEF SameRow
  <2>4. TaskInv([t EXCEPT !.at = s])'
    BY <2>1, <2>2 DEF TaskInv, Tasks
  <2>5. QED
    BY <2>1, <2>2, <2>3, <2>4, AdvanceInv
<1>2. CASE HandBack(t) \/ Post(t)
  <2>1. PICK s \in {"completed", "orphaned", "wait"} :
          /\ Advance(t, s)
          /\ s = "completed" => seen' = [seen EXCEPT ![t.d] = @ \cup {t.n}]
          /\ s = "orphaned" => seen' = seen /\ Transport[t.d] = "return-path"
          /\ s = "wait" => Transport[t.d] = "http"
    BY <1>2 DEF HandBack, Post
  <2>2. /\ UNCHANGED <<status, attempt, uncertain, log, up>>
        /\ seen' = seen \/ seen' = [seen EXCEPT ![t.d] = @ \cup {t.n}]
        /\ t.at = "send"
    BY <1>2 DEF HandBack, Post, row
  <2>3. /\ \A d \in Delivery : d # t.d => seen'[d] = seen[d]
        /\ seen'[t.d] = seen[t.d] \/ seen'[t.d] = seen[t.d] \cup {t.n}
        /\ seen' = [seen EXCEPT ![t.d] = @ \cup {t.n}] => t.n \in seen'[t.d]
    BY <2>2
  <2>4. RowInv(t.d)'
    <3>1. /\ status'[t.d] = "in_flight" /\ status[t.d] = "in_flight"
          /\ attempt'[t.d] = attempt[t.d] /\ uncertain'[t.d] = uncertain[t.d]
          /\ log'[t.d] = log[t.d] /\ log[t.d][t.n] = "open" /\ t.n = attempt[t.d]
      BY <2>2 DEF TaskInv
    <3>2. \A n \in seen'[t.d] :
            /\ n \in 1..attempt[t.d]
            /\ log[t.d][n] \in {"open", "completed", "failed"}
            /\ n < attempt[t.d] => Accounted(t.d, n)
      BY <2>3, <3>1 DEF RowInv
    <3>3. \A n \in seen'[t.d] : n < attempt[t.d] => Accounted(t.d, n)'
      BY <3>1, <3>2 DEF Accounted
    <3>4. QED
      BY <3>1, <3>2, <3>3 DEF RowInv, Terminal
  <2>5. TaskInv([t EXCEPT !.at = s])'
    BY <2>1, <2>2, <2>3 DEF TaskInv, Tasks
  <2>6. QED
    BY <2>1, <2>2, <2>3, <2>4, <2>5, AdvanceInv
<1>3. QED
  BY <1>1, <1>2

\* Writing the outcome of an attempt, with or without settling the row.
LEMMA FinishRow ==
  ASSUME IInv, NEW t \in tasks, t.at \in Outcomes, FinishAttempt(t),
         UNCHANGED <<attempt, uncertain, seen>>,
         \/ status'[t.d] = status[t.d]
         \/ status'[t.d] = "pending" /\ t.at = "failed"
         \/ status'[t.d] = t.at
  PROVE  RowInv(t.d)'
<1>0. /\ t \in Tasks /\ t.d \in Delivery /\ t.n \in Nat
      /\ TaskInv(t) /\ RowInv(t.d)
      /\ t.n \in 1..attempt[t.d]
      /\ attempt \in [Delivery -> Nat]
      /\ status \in [Delivery -> Statuses]
      /\ seen \in [Delivery -> SUBSET Nat]
      /\ up = TRUE
  BY TaskFacts
<1> USE <1>0
<1>1. \A n \in 1..attempt[t.d] : log'[t.d][n] = IF n = t.n THEN t.at ELSE log[t.d][n]
  BY FinishAttemptLog DEF IInv, TypeOK
<1>2. t.at \in Terminal /\ t.n = attempt[t.d]
  BY DEF Outcomes, TaskInv
<1>3. \A n \in seen[t.d] : /\ n \in 1..attempt[t.d]
                           /\ n < t.n => Accounted(t.d, n)
                           /\ n = t.n => t.at \in {"completed", "failed"}
  BY <1>2 DEF RowInv, TaskInv, Terminal
<1>4. \A n \in seen'[t.d] :
        /\ n \in 1..attempt'[t.d]
        /\ log'[t.d][n] \in {"open", "completed", "failed"}
        /\ n < attempt'[t.d] \/ status'[t.d] = "pending" => Accounted(t.d, n)'
  <2> SUFFICES ASSUME NEW n \in seen[t.d]
               PROVE  /\ n \in 1..attempt[t.d]
                      /\ log'[t.d][n] \in {"open", "completed", "failed"}
                      /\ n < attempt[t.d] \/ status'[t.d] = "pending" =>
                           Accounted(t.d, n)'
    OBVIOUS
  <2>1. n \in 1..attempt[t.d] /\ log[t.d][n] \in {"open", "completed", "failed"}
    BY DEF RowInv
  <2>2. CASE n = t.n
    <3>1. log'[t.d][n] = t.at
      BY <1>1, <2>1, <2>2
    <3>2. t.at \in {"completed", "failed"} /\ ~(n < attempt[t.d])
      BY <1>2, <1>3, <2>2
    <3>3. status'[t.d] = "pending" => t.at = "failed"
      BY <1>2 DEF TaskInv, Terminal
    <3>4. QED
      BY <2>1, <3>1, <3>2, <3>3 DEF Accounted
  <2>3. CASE n # t.n
    <3>1. log'[t.d][n] = log[t.d][n]
      BY <1>1, <2>1, <2>3
    <3>2. n < t.n
      BY <1>2, <2>1, <2>3
    <3>3. Accounted(t.d, n)
      BY <1>3, <3>2
    <3>4. QED
      BY <2>1, <3>1, <3>3 DEF Accounted
  <2>4. QED
    BY <2>2, <2>3
<1>5. \A n \in 1..attempt'[t.d] :
        /\ log'[t.d][n] = "open" =>
             uncertain'[t.d] \/ (n = attempt'[t.d] /\ status'[t.d] = "in_flight")
        /\ log'[t.d][n] = "failed" => Transport[t.d] = "http"
  BY <1>1, <1>2 DEF RowInv, TaskInv, Terminal
<1>6. /\ status'[t.d] = "absent" => attempt'[t.d] = 0
      /\ status'[t.d] \in Terminal \ {"denied"} =>
           attempt'[t.d] > 0 /\ log'[t.d][attempt'[t.d]] = status'[t.d]
      /\ status'[t.d] = "completed" =>
           attempt'[t.d] \in seen'[t.d] \/ Transport[t.d] = "capability"
      /\ status'[t.d] = "orphaned" => Transport[t.d] = "return-path"
  BY <1>1, <1>2 DEF RowInv, TaskInv, Terminal
<1>7. QED
  BY <1>4, <1>5, <1>6 DEF RowInv

LEMMA RecordInv ==
  ASSUME IInv, NEW t \in tasks, Record(t) \/ RecordFails(t) \/ CrashWhileRecording(t)
  PROVE  TasksInv' /\ RowsInv'
<1>0. /\ t \in Tasks /\ t.d \in Delivery /\ t.n \in Nat
      /\ TaskInv(t) /\ RowInv(t.d)
      /\ t.n \in 1..attempt[t.d]
      /\ attempt \in [Delivery -> Nat]
      /\ status \in [Delivery -> Statuses]
      /\ seen \in [Delivery -> SUBSET Nat]
      /\ up = TRUE
  BY TaskFacts
<1> USE <1>0
<1>1. /\ UNCHANGED <<attempt, uncertain, seen>>
      /\ tasks' = {} \/ (tasks' = tasks \ {t} /\ up' = up)
      /\ t.at \in Outcomes
      /\ FinishAttempt(t) \/ (UNCHANGED log /\ UNCHANGED status)
  BY DEF Record, RecordFails, CrashWhileRecording, Die
<1>2. /\ \A d \in Delivery : d # t.d => status'[d] = status[d]
      /\ \/ status'[t.d] = status[t.d]
         \/ status'[t.d] = "pending" /\ t.at = "failed"
         \/ status'[t.d] = t.at
  BY DEF Record, RecordFails, CrashWhileRecording, SettleOrReschedule
<1>3. \A d \in Delivery : d # t.d => log'[d] = log[d]
  <2>1. log \in [Delivery -> Seq(Outcomes \cup {"open"})]
    BY DEF IInv, TypeOK, LogTyped
  <2>2. QED
    BY <1>1, <2>1 DEF FinishAttempt
<1>4. RowInv(t.d)'
  <2>1. CASE FinishAttempt(t)
    BY <1>1, <1>2, <2>1, FinishRow
  <2>2. CASE UNCHANGED log /\ UNCHANGED status
    BY <1>1, <2>2, RowFrame DEF SameRow
  <2>3. QED
    BY <1>1, <2>1, <2>2
<1>5. QED
  BY <1>1, <1>2, <1>3, <1>4, EndInv

\* A step that touches no row and no log, and at most kills all tasks.
LEMMA QuietInv ==
  ASSUME IInv, UNCHANGED <<status, attempt, uncertain, log, seen>>,
         tasks' = {} \/ UNCHANGED <<tasks, up>>
  PROVE  TasksInv' /\ RowsInv'
<1>1. \A d \in Delivery : RowInv(d)'
  BY RowFrame DEF IInv, RowsInv, SameRow
<1>2. \A t \in tasks : TaskInv(t)'
  BY TaskFrame DEF IInv, TasksInv, SameRow
<1>3. QED
  BY <1>1, <1>2 DEF IInv, TasksInv, RowsInv

LEMMA EnqueueInv ==
  ASSUME IInv, NEW d \in Delivery, Enqueue(d)
  PROVE  TasksInv' /\ RowsInv'
<1>1. /\ UNCHANGED <<attempt, uncertain, log, seen, tasks, up>>
      /\ status[d] = "absent"
      /\ \A e \in Delivery : e # d => status'[e] = status[e]
      /\ status'[d] \in {"pending", "denied"}
  BY DEF Enqueue, mem, IInv, TypeOK, RowTyped
<1>2. RowInv(d)'
  <2>1. attempt[d] = 0 /\ seen[d] = {}
    BY <1>1 DEF IInv, RowsInv, RowInv
  <2>2. QED
    BY <1>1, <2>1 DEF RowInv, Terminal
<1>3. \A e \in Delivery : RowInv(e)'
  BY <1>1, <1>2, RowFrame DEF IInv, RowsInv, SameRow
<1>4. \A t \in tasks : t.d \in Delivery /\ t.d # d
  BY <1>1 DEF IInv, TypeOK, MemTyped, Tasks, TasksInv, TaskInv
<1>5. \A t \in tasks : TaskInv(t)'
  BY <1>1, <1>4, TaskFrame DEF IInv, TasksInv, SameRow
<1>6. QED
  BY <1>1, <1>3, <1>5 DEF IInv, TasksInv, RowsInv

\* The claimed rows are pending: each effect of theirs is accounted for and
\* each open attempt admitted, so their last attempt may become an earlier one.
LEMMA ClaimInv ==
  ASSUME IInv, ClaimDue
  PROVE  TasksInv' /\ RowsInv'
<1>1. PICK S \in SUBSET Due :
        /\ status' = [d \in Delivery |-> IF d \in S THEN "in_flight" ELSE status[d]]
        /\ attempt' = [d \in Delivery |-> IF d \in S THEN attempt[d] + 1 ELSE attempt[d]]
        /\ log' = [d \in Delivery |-> IF d \in S THEN Append(log[d], "open") ELSE log[d]]
        /\ tasks' = tasks \cup {[d |-> d, n |-> attempt[d] + 1, at |-> "check"] : d \in S}
  BY DEF ClaimDue
<1>2. /\ UNCHANGED <<uncertain, seen, up>>
      /\ up
  BY DEF ClaimDue
<1>3. \A d \in S : d \in Delivery /\ status[d] = "pending"
  BY DEF Due
<1>4. attempt \in [Delivery -> Nat] /\ seen \in [Delivery -> SUBSET Nat]
  BY DEF IInv, TypeOK, RowTyped
<1>5. /\ \A d \in S : log'[d][attempt[d] + 1] = "open"
      /\ \A d \in Delivery : \A n \in 1..attempt[d] : log'[d][n] = log[d][n]
  BY <1>1, <1>3, ClaimLog DEF IInv, TypeOK
<1>6. ASSUME NEW d \in Delivery
      PROVE  RowInv(d)'
  <2>1. RowInv(d)
    BY DEF IInv, RowsInv
  <2>2. CASE d \notin S
    BY <1>1, <1>2, <2>1, <2>2, RowFrame DEF SameRow
  <2>3. CASE d \in S
    <3>1. /\ status'[d] = "in_flight" /\ attempt'[d] = attempt[d] + 1
          /\ uncertain'[d] = uncertain[d] /\ seen'[d] = seen[d]
          /\ attempt[d] \in Nat /\ status[d] = "pending"
      BY <1>1, <1>2, <1>3, <1>4, <2>3
    <3>2. ASSUME NEW n \in seen[d]
          PROVE  /\ n \in 1..attempt'[d]
                 /\ log'[d][n] \in {"open", "completed", "failed"}
                 /\ Accounted(d, n)'
      <4>1. /\ n \in 1..attempt[d]
            /\ log[d][n] \in {"open", "completed", "failed"}
            /\ Accounted(d, n)
        BY <2>1, <3>1 DEF RowInv
      <4>2. log'[d][n] = log[d][n]
        BY <1>5, <4>1
      <4>3. QED
        BY <3>1, <4>1, <4>2 DEF Accounted
    <3>3. ASSUME NEW n \in 1..attempt'[d]
          PROVE  /\ log'[d][n] = "open" => uncertain[d] \/ n = attempt'[d]
                 /\ log'[d][n] = "failed" => Transport[d] = "http"
      <4>1. CASE n = attempt[d] + 1
        BY <1>5, <2>3, <3>1, <4>1
      <4>2. CASE n \in 1..attempt[d]
        BY <1>5, <2>1, <3>1, <4>2 DEF RowInv
      <4>3. QED
        BY <3>1, <4>1, <4>2
    <3>4. QED
      BY <3>1, <3>2, <3>3 DEF RowInv, Terminal
  <2>4. QED
    BY <2>2, <2>3
<1>7. \A t \in tasks : t.d \in Delivery /\ t.d \notin S
  BY <1>3 DEF IInv, TypeOK, MemTyped, Tasks, TasksInv, TaskInv
<1>8. \A t \in tasks : TaskInv(t)'
  BY <1>1, <1>2, <1>7, TaskFrame DEF IInv, TasksInv, SameRow
<1>9. ASSUME NEW t \in tasks', t \notin tasks
      PROVE  TaskInv(t)'
  <2>1. PICK d \in S : t = [d |-> d, n |-> attempt[d] + 1, at |-> "check"]
    BY <1>1, <1>9
  <2>2. t.d = d /\ t.n = attempt[d] + 1 /\ t.at = "check"
    BY <2>1
  <2>3. /\ status'[d] = "in_flight" /\ attempt'[d] = attempt[d] + 1
        /\ attempt[d] \in Nat /\ log'[d][attempt[d] + 1] = "open"
    BY <1>1, <1>3, <1>4, <1>5
  <2>4. attempt[d] + 1 \notin seen'[d]
    BY <1>2, <1>3, <2>3 DEF IInv, RowsInv, RowInv
  <2>5. QED
    BY <2>2, <2>3, <2>4 DEF TaskInv
<1>10. TasksInv'
  <2>1. \A t \in tasks' : TaskInv(t)'
    BY <1>8, <1>9
  <2>2. \A t, u \in tasks' : t.d = u.d => t = u
    BY <1>1, <1>7 DEF IInv, TasksInv
  <2>3. QED
    BY <1>2, <2>1, <2>2 DEF TasksInv
<1>11. QED
  BY <1>6, <1>10 DEF RowsInv

\* Recovery makes the rows in flight pending again, and admits their open
\* attempt.
LEMMA RecoverInv ==
  ASSUME IInv, Recover
  PROVE  TasksInv' /\ RowsInv'
<1>1. /\ UNCHANGED <<attempt, log, tasks, seen>>
      /\ \A d \in Delivery : IF status[d] = "in_flight"
                             THEN status'[d] = "pending" /\ uncertain'[d]
                             ELSE status'[d] = status[d] /\ uncertain'[d] = uncertain[d]
  BY DEF Recover, Interrupted, IInv, TypeOK, RowTyped
<1>2. tasks = {}
  BY DEF Recover, IInv, TasksInv
<1>3. ASSUME NEW d \in Delivery
      PROVE  RowInv(d)'
  <2>1. RowInv(d)
    BY DEF IInv, RowsInv
  <2>2. CASE status[d] = "in_flight"
    BY <1>1, <2>1, <2>2 DEF RowInv, Accounted, Terminal
  <2>3. CASE status[d] # "in_flight"
    BY <1>1, <2>1, <2>3, RowFrame DEF SameRow
  <2>4. QED
    BY <2>2, <2>3
<1>4. QED
  BY <1>1, <1>2, <1>3 DEF TasksInv, RowsInv

LEMMA InvStep == IInv /\ [Next]_vars => IInv'
<1> SUFFICES ASSUME IInv, [Next]_vars PROVE TasksInv' /\ RowsInv'
  BY TypeStep DEF IInv
<1>1. CASE \E d \in Delivery : Enqueue(d)
  BY <1>1, EnqueueInv
<1>2. CASE \E d \in Delivery : Register(d) \/ PeerGone(d) \/ BackoffElapses(d)
  BY <1>2, QuietInv DEF Register, PeerGone, BackoffElapses, row, mem
<1>3. CASE ClaimDue
  BY <1>3, ClaimInv
<1>4. CASE \E t \in tasks : TaskStep(t) \/ RecordFails(t) \/ CrashWhileRecording(t)
  BY <1>4, ActInv, RecordInv DEF TaskStep
<1>5. CASE Crash
  BY <1>5, QuietInv DEF Crash, Die, row
<1>6. CASE Recover
  BY <1>6, RecoverInv
<1>7. CASE UNCHANGED vars
  BY <1>7, QuietInv DEF vars
<1>8. QED
  BY <1>1, <1>2, <1>3, <1>4, <1>5, <1>6, <1>7 DEF Next

LEMMA Inductive == Spec => []IInv
  BY InvInit, InvStep, PTL DEF Spec

-----------------------------------------------------------------------------
(* The safety properties.                                                  *)

\* No two tasks ever work on the same delivery, and the one that does owns the
\* newest, still open attempt.
THEOREM LiveAttemptIsUnique == Spec => []OneLiveAttempt
<1>1. IInv => OneLiveAttempt
  BY DEF IInv, TasksInv, TaskInv, OneLiveAttempt
<1>2. QED
  BY <1>1, Inductive, PTL

\* An effect that happened is never denied by the log, and is repeated only
\* after a logged failure or under resumed_uncertain.
THEOREM DuplicatesAreAdmitted == Spec => []NoSilentDuplicate
<1>1. IInv => NoSilentDuplicate
  BY DEF IInv, RowsInv, RowInv, Accounted, NoSilentDuplicate
<1>2. QED
  BY <1>1, Inductive, PTL

\* completed is never recorded of an effect that did not happen.
THEOREM CompletionIsTrue == Spec => []CompletedMeansDone
<1>1. IInv => CompletedMeansDone
  BY DEF IInv, RowsInv, RowInv, CompletedMeansDone, Terminal
<1>2. QED
  BY <1>1, Inductive, PTL

\* Every attempt without an outcome is running, awaits recovery, or is
\* admitted by resumed_uncertain.
THEOREM NoTryIsForgotten == Spec => []OpenAttemptIsAdmitted
<1>1. IInv => OpenAttemptIsAdmitted
  BY DEF IInv, RowsInv, RowInv, OpenAttemptIsAdmitted
<1>2. QED
  BY <1>1, Inductive, PTL

\* An orphaned answer without resumed_uncertain was handed to nobody: a
\* return path never fails, so its only attempt is the one that found the
\* origin gone.
THEOREM OrphansAreHonest == Spec => []OrphanIsHonest
<1>1. IInv => OrphanIsHonest
  <2> SUFFICES ASSUME IInv, NEW d \in Delivery,
                      status[d] = "orphaned", ~uncertain[d], NEW n \in seen[d]
               PROVE  FALSE
    BY DEF OrphanIsHonest, IInv, TypeOK
  <2>1. RowInv(d) /\ attempt[d] \in Nat
    BY DEF IInv, RowsInv, TypeOK, RowTyped
  <2>2. n \in 1..attempt[d] /\ log[d][n] # "orphaned"
    BY <2>1 DEF RowInv
  <2>3. n # attempt[d] /\ Transport[d] = "return-path"
    BY <2>1, <2>2 DEF RowInv, Terminal
  <2>4. log[d][n] = "failed"
    BY <2>1, <2>2, <2>3 DEF RowInv, Accounted
  <2>5. QED
    BY <2>1, <2>2, <2>3, <2>4 DEF RowInv
<1>2. QED
  BY <1>1, Inductive, PTL

-----------------------------------------------------------------------------
(* The attempt budget.                                                     *)

\* The restarts that may have added an attempt to a delivery.
Slack(d) == IF uncertain[d] THEN restarts ELSE 0

\* The budget, and room in it for the next claim: of a pending row, and of the
\* rows in flight that a recovery is about to make pending.
BudgetRow(d) ==
  /\ attempt[d] <= MaxAttempts + Slack(d)
  /\ status[d] = "pending" => attempt[d] < MaxAttempts + Slack(d)
  /\ status[d] = "in_flight" /\ ~up => attempt[d] < MaxAttempts + restarts

BudgetInv == \A d \in Delivery : BudgetRow(d)

LEMMA BudgetInit == Init => BudgetInv
  BY AttemptsAssumption DEF Init, BudgetInv, BudgetRow, Slack

\* A row that keeps its status, its attempts and its flag keeps its budget, in
\* a process that goes on or that dies.
LEMMA BudgetFrame ==
  ASSUME TypeOK, TypeOK', NEW d \in Delivery, BudgetRow(d),
         status'[d] = status[d], attempt'[d] = attempt[d], uncertain'[d] = uncertain[d],
         \/ restarts' = restarts /\ up' = up
         \/ restarts' = restarts + 1
  PROVE  BudgetRow(d)'
<1>1. /\ attempt[d] \in Nat /\ restarts \in Nat /\ restarts' \in Nat
      /\ uncertain[d] \in BOOLEAN /\ MaxAttempts \in Nat
  BY AttemptsAssumption, RestartsAssumption DEF TypeOK, RowTyped
<1>2. CASE uncertain[d]
  BY <1>1, <1>2 DEF BudgetRow, Slack
<1>3. CASE ~uncertain[d]
  BY <1>1, <1>3 DEF BudgetRow, Slack
<1>4. QED
  BY <1>2, <1>3

LEMMA BudgetStep == IInv /\ BudgetInv /\ [Next]_vars => BudgetInv'
<1> SUFFICES ASSUME IInv, BudgetInv, [Next]_vars, NEW d \in Delivery
             PROVE  BudgetRow(d)'
  BY DEF BudgetInv
<1>1. TypeOK /\ TypeOK' /\ BudgetRow(d) /\ RowInv(d)
  BY TypeStep DEF IInv, BudgetInv, RowsInv
<1>2. /\ attempt[d] \in Nat /\ restarts \in Nat /\ MaxAttempts \in Nat \ {0}
      /\ uncertain[d] \in BOOLEAN
  BY <1>1, AttemptsAssumption, RestartsAssumption DEF TypeOK, RowTyped
<1>3. CASE \E e \in Delivery : Enqueue(e)
  <2>1. PICK e \in Delivery : Enqueue(e)
    BY <1>3
  <2>2. UNCHANGED <<attempt, uncertain, restarts, up>>
    BY <2>1 DEF Enqueue, mem
  <2>3. CASE d = e
    <3>1. attempt[d] = 0 /\ up
      BY <1>1, <2>1, <2>3 DEF Enqueue, RowInv
    <3>2. QED
      BY <1>2, <2>2, <3>1 DEF BudgetRow, Slack
  <2>4. CASE d # e
    <3>1. status'[d] = status[d]
      BY <1>1, <2>1, <2>4 DEF Enqueue, TypeOK, RowTyped
    <3>2. QED
      BY <1>1, <2>2, <3>1, BudgetFrame
  <2>5. QED
    BY <2>3, <2>4
<1>4. CASE \E e \in Delivery : Register(e) \/ PeerGone(e) \/ BackoffElapses(e)
  BY <1>1, <1>4, BudgetFrame DEF Register, PeerGone, BackoffElapses, row, mem
<1>5. CASE ClaimDue
  <2>1. PICK S \in SUBSET Due :
          /\ status' = [e \in Delivery |-> IF e \in S THEN "in_flight" ELSE status[e]]
          /\ attempt' = [e \in Delivery |-> IF e \in S THEN attempt[e] + 1 ELSE attempt[e]]
    BY <1>5 DEF ClaimDue
  <2>2. UNCHANGED <<uncertain, restarts, up>> /\ up
    BY <1>5 DEF ClaimDue
  <2>3. CASE d \in S
    <3>1. attempt[d] < MaxAttempts + Slack(d)
      BY <1>1, <2>3 DEF Due, BudgetRow
    <3>2. Slack(d) \in Nat /\ Slack(d)' = Slack(d) /\ attempt'[d] = attempt[d] + 1
      BY <1>2, <2>1, <2>2, <2>3 DEF Slack
    <3>3. /\ attempt'[d] <= MaxAttempts + Slack(d)'
          /\ status'[d] = "in_flight"
      BY <1>2, <2>1, <2>3, <3>1, <3>2
    <3>4. QED
      BY <2>2, <3>3 DEF BudgetRow
  <2>4. CASE d \notin S
    BY <1>1, <2>1, <2>2, <2>4, BudgetFrame
  <2>5. QED
    BY <2>3, <2>4
<1>6. CASE \E t \in tasks : TaskStep(t)
  <2>1. PICK t \in tasks : TaskStep(t)
    BY <1>6
  <2>2. CASE Record(t) /\ d = t.d
    <3>1. t.n = attempt[d] /\ up = TRUE
      BY <2>1, <2>2, TaskFacts DEF TaskInv
    <3>2. /\ UNCHANGED <<attempt, uncertain, restarts, up>>
          /\ status'[d] = "pending" => t.n < MaxAttempts
          /\ status'[d] # "in_flight"
      BY <1>1, <2>2 DEF Record, SettleOrReschedule, TypeOK, RowTyped, Outcomes, Terminal
    <3>3. Slack(d)' = Slack(d) /\ Slack(d) \in Nat
      BY <1>2, <3>2 DEF Slack
    <3>4. attempt'[d] <= MaxAttempts + Slack(d)'
      BY <1>1, <3>2, <3>3 DEF BudgetRow
    <3>5. status'[d] = "pending" => attempt'[d] < MaxAttempts + Slack(d)'
      BY <1>2, <3>1, <3>2, <3>3
    <3>6. QED
      BY <3>2, <3>4, <3>5 DEF BudgetRow
  <2>3. CASE Record(t) /\ d # t.d
    <3>1. status'[d] = status[d] /\ UNCHANGED <<attempt, uncertain, restarts, up>>
      BY <1>1, <2>3 DEF Record, SettleOrReschedule, TypeOK, RowTyped
    <3>2. QED
      BY <1>1, <3>1, BudgetFrame
  <2>4. CASE ~Record(t)
    BY <1>1, <2>1, <2>4, BudgetFrame
       DEF TaskStep, Refuse, Allow, HandBack, HandOff, Post, Response, row
  <2>5. QED
    BY <2>2, <2>3, <2>4
<1>7. CASE \E t \in tasks : RecordFails(t) \/ CrashWhileRecording(t)
  BY <1>1, <1>7, BudgetFrame DEF RecordFails, CrashWhileRecording, Die
<1>8. CASE Crash
  <2>1. UNCHANGED <<status, attempt, uncertain>> /\ restarts' = restarts + 1
    BY <1>8 DEF Crash, Die, row
  <2>2. QED
    BY <1>1, <2>1, BudgetFrame
<1>9. CASE Recover
  <2>1. /\ UNCHANGED <<attempt, restarts>> /\ up' /\ ~up
        /\ IF status[d] = "in_flight"
           THEN status'[d] = "pending" /\ uncertain'[d]
           ELSE status'[d] = status[d] /\ uncertain'[d] = uncertain[d]
    BY <1>1, <1>9 DEF Recover, Interrupted, TypeOK, RowTyped
  <2>2. CASE status[d] = "in_flight"
    BY <1>1, <1>2, <2>1, <2>2 DEF BudgetRow, Slack
  <2>3. CASE status[d] # "in_flight"
    BY <1>1, <2>1, <2>3 DEF BudgetRow, Slack
  <2>4. QED
    BY <2>2, <2>3
<1>10. CASE UNCHANGED vars
  BY <1>1, <1>10, BudgetFrame DEF vars
<1>11. QED
  BY <1>3, <1>4, <1>5, <1>6, <1>7, <1>8, <1>9, <1>10 DEF Next

\* max_attempts bounds the attempts of every delivery; only one whose attempt
\* a crash interrupted may have more, one per restart at most.
THEOREM AttemptsAreBounded == Spec => []AttemptBudget
<1>1. BudgetInv => AttemptBudget
  BY DEF BudgetInv, BudgetRow, Slack, AttemptBudget
<1>2. QED
  BY <1>1, BudgetInit, BudgetStep, Inductive, PTL DEF Spec

-----------------------------------------------------------------------------
(* Finality.                                                               *)

\* A step that leaves a row and its log alone settles nothing anew.
LEMMA SettledFrame ==
  ASSUME TypeOK, NEW d \in Delivery,
         status'[d] = status[d], attempt'[d] = attempt[d],
         uncertain[d] => uncertain'[d], log'[d] = log[d]
  PROVE  Settled(d)
  BY DEF Settled, TypeOK, RowTyped

LEMMA SettledStep ==
  ASSUME IInv, Next, NEW d \in Delivery
  PROVE  Settled(d)
<1>1. TypeOK /\ RowInv(d) /\ attempt[d] \in Nat
  BY DEF IInv, RowsInv, TypeOK, RowTyped
<1>2. CASE \E e \in Delivery : Enqueue(e)
  BY <1>1, <1>2 DEF Enqueue, mem, Settled, Terminal, TypeOK, RowTyped
<1>3. CASE \E e \in Delivery : Register(e) \/ PeerGone(e) \/ BackoffElapses(e)
  BY <1>1, <1>3, SettledFrame DEF Register, PeerGone, BackoffElapses, row, mem
<1>4. CASE ClaimDue
  <2>1. PICK S \in SUBSET Due :
          /\ status' = [e \in Delivery |-> IF e \in S THEN "in_flight" ELSE status[e]]
          /\ attempt' = [e \in Delivery |-> IF e \in S THEN attempt[e] + 1 ELSE attempt[e]]
          /\ log' = [e \in Delivery |-> IF e \in S THEN Append(log[e], "open") ELSE log[e]]
    BY <1>4 DEF ClaimDue
  <2>2. UNCHANGED uncertain
    BY <1>4 DEF ClaimDue
  <2>3. \A n \in 1..attempt[d] : log'[d][n] = log[d][n]
    BY <1>1, <2>1, ClaimLog DEF TypeOK
  <2>4. status[d] \in Terminal => d \notin S
    BY DEF Due, Terminal
  <2>5. status[d] \in Terminal => status'[d] = status[d]
    BY <2>1, <2>4
  <2>6. attempt'[d] >= attempt[d]
    BY <1>1, <2>1
  <2>7. QED
    BY <2>2, <2>3, <2>5, <2>6 DEF Settled
<1>5. CASE \E t \in tasks : TaskStep(t) \/ RecordFails(t) \/ CrashWhileRecording(t)
  <2>1. PICK t \in tasks : TaskStep(t) \/ RecordFails(t) \/ CrashWhileRecording(t)
    BY <1>5
  <2>2. /\ t \in Tasks /\ status[t.d] = "in_flight"
        /\ log[t.d][t.n] = "open"
    BY <2>1, TaskFacts DEF TaskInv
  <2>3. UNCHANGED <<attempt, uncertain>>
    BY <2>1 DEF TaskStep, Refuse, Allow, HandBack, HandOff, Post, Response, row,
                Record, RecordFails, CrashWhileRecording, Die
  <2>4. status[d] \in Terminal => status'[d] = status[d]
    BY <1>1, <2>1, <2>2
       DEF TaskStep, Refuse, Allow, HandBack, HandOff, Post, Response, row, Record,
           SettleOrReschedule, RecordFails, CrashWhileRecording, Terminal, TypeOK, RowTyped
  <2>5. UNCHANGED log \/ (t.at \in Outcomes /\ FinishAttempt(t))
    BY <2>1 DEF TaskStep, Refuse, Allow, HandBack, HandOff, Post, Response, row,
                Record, RecordFails, CrashWhileRecording
  <2>6. \A n \in 1..attempt[d] : log[d][n] # "open" => log'[d][n] = log[d][n]
    <3>1. CASE UNCHANGED log
      BY <3>1
    <3>2. CASE t.at \in Outcomes /\ FinishAttempt(t)
      BY <1>1, <2>2, <2>3, <3>2, FinishAttemptLog DEF TypeOK
    <3>3. QED
      BY <2>5, <3>1, <3>2
  <2>7. QED
    BY <1>1, <2>3, <2>4, <2>6 DEF Settled
<1>6. CASE Crash
  BY <1>1, <1>6, SettledFrame DEF Crash, row
<1>7. CASE Recover
  <2>1. /\ UNCHANGED <<attempt, log>>
        /\ status[d] # "in_flight" => status'[d] = status[d]
        /\ uncertain[d] => uncertain'[d]
    BY <1>1, <1>7 DEF Recover, Interrupted, TypeOK, RowTyped
  <2>2. QED
    BY <1>1, <2>1 DEF Settled, Terminal
<1>8. QED
  BY <1>2, <1>3, <1>4, <1>5, <1>6, <1>7 DEF Next

\* A terminal status, a logged outcome and the resumed_uncertain mark are
\* never taken back.
THEOREM WhatIsSettledStays == Spec => SettledIsFinal
<1>1. IInv /\ [Next]_vars => [\A d \in Delivery : Settled(d)]_vars
  BY SettledStep
<1>2. QED
  BY <1>1, Inductive, PTL DEF Spec, SettledIsFinal

-----------------------------------------------------------------------------
(* Authority.                                                              *)

\* A task that is about to act was granted it by the policy still in force:
\* the policy changes only while there is no process.
GrantInv == \A t \in tasks : t.at = "send" => Granted(t.d)

LEMMA GrantStep == IInv /\ GrantInv /\ [Next]_vars => GrantInv'
<1> SUFFICES ASSUME IInv, GrantInv, [Next]_vars PROVE GrantInv'
  OBVIOUS
<1>1. CASE policy' = policy /\ tasks' \subseteq tasks
  BY <1>1 DEF GrantInv, Granted
<1>2. CASE ClaimDue
  <2>1. policy' = policy /\ \A t \in tasks' : t \in tasks \/ t.at = "check"
    BY <1>2 DEF ClaimDue
  <2>2. QED
    BY <2>1 DEF GrantInv, Granted
<1>3. CASE \E t \in tasks : TaskStep(t) /\ ~Record(t)
  <2>1. PICK t \in tasks : TaskStep(t) /\ ~Record(t)
    BY <1>3
  <2>2. PICK s \in {"denied", "send", "completed", "orphaned", "wait", "failed"} :
          /\ Advance(t, s)
          /\ s = "send" => Granted(t.d)
    BY <2>1 DEF TaskStep, Refuse, Allow, HandBack, HandOff, Post, Response
  <2>3. policy' = policy
    BY <2>1 DEF TaskStep, Refuse, Allow, HandBack, HandOff, Post, Response
  <2>4. t \in Tasks
    BY TaskFacts
  <2>5. \A u \in tasks' : u \in tasks \/ (u.d = t.d /\ u.at = s)
    BY <2>2, <2>4 DEF Advance, Tasks
  <2>6. QED
    BY <2>2, <2>3, <2>5 DEF GrantInv, Granted
<1>4. CASE Recover
  BY <1>4 DEF Recover, IInv, TasksInv, GrantInv
<1>5. QED
  BY <1>1, <1>2, <1>3, <1>4
     DEF Next, vars, mem, Enqueue, Register, PeerGone, BackoffElapses, Record,
         RecordFails, CrashWhileRecording, Crash, Die

\* No http effect leaves under a policy that does not allow its destination.
THEOREM PolicyGovernsEffects == Spec => EffectUnderPolicy
<1>1. Init => GrantInv
  BY DEF Init, GrantInv
<1> DEFINE Permitted == \A d \in Delivery :
             seen'[d] # seen[d] /\ Transport[d] = "http" => d \in policy
<1>2. IInv /\ GrantInv /\ [Next]_vars => [Permitted]_vars
  <2> SUFFICES ASSUME IInv, GrantInv, Next, NEW d \in Delivery,
                      seen'[d] # seen[d], Transport[d] = "http"
               PROVE  d \in policy
    OBVIOUS
  <2>1. PICK t \in tasks : HandBack(t) \/ Post(t)
    BY DEF Next, TaskStep, Enqueue, Register, PeerGone, BackoffElapses, ClaimDue,
           Refuse, Allow, HandOff, Response, Record, RecordFails,
           CrashWhileRecording, Crash, Recover
  <2>2. t.at = "send" /\ d = t.d
    BY <2>1 DEF HandBack, Post, IInv, TypeOK
  <2>3. QED
    BY <2>2 DEF GrantInv, Granted
<1>3. QED
  BY <1>1, <1>2, GrantStep, Inductive, PTL DEF Spec, EffectUnderPolicy
=============================================================================
