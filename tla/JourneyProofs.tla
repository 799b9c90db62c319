---------------------------- MODULE JourneyProofs ----------------------------
(***************************************************************************)
(* Proofs about Journey, for every set of receipts, every decision of the  *)
(* router, any number of jobs, crashes, dropped handlers and errors.       *)
(***************************************************************************)
EXTENDS Journey, SequenceTheorems, FiniteSetTheorems, TLAPS

\* The steps at which a job owns a run.
Owning == {"invoke", "fail", "complete"}

\* The statuses a "mark" step writes.
Marks == {"deferred", "quarantined", "ignored", "failed"}

\* What a job knows of its receipt.
JobInv(j) ==
  /\ receipt[j.r] # "absent"
  /\ j.at \in Owning => j.n \in Running(j.r)
  /\ j.at = "mark" => j.to \in Marks
  /\ j.at = "claim" \/ (j.at = "mark" /\ j.to # "failed") => recorded[j.r]

JobsInv ==
  /\ \A j \in jobs : JobInv(j)
  /\ \A j, k \in jobs : j.id = k.id => j = k
  /\ \A j, k \in jobs : j.r = k.r /\ {j.at, k.at} \subseteq Owning => j = k
  /\ phase = "down" => jobs = {}
  /\ phase # "requeue" => worklist = {}

\* What the tables say about a receipt.
ReceiptInv(r) ==
  /\ \A m, n \in Running(r) : m = n
  /\ receipt[r] = "absent" => runs[r] = <<>> /\ r \notin worklist
  /\ runs[r] # <<>> \/ receipt[r] \notin {"absent", "accepted", "failed"} => recorded[r]
  /\ r \in Waiting /\ receipt[r] = "routed" =>
       \E row \in outbox : row.key = AnswerKey(r)

\* A receipt out of the service worker's reach has one job at most, and none
\* until boot is over; a run left running by a job that is no more is closed by
\* the next boot before another job can start; and once the receipt is routed
\* nothing is left that could run it again.
OneShot(r) ==
  /\ \A j, k \in jobs : j.r = r /\ k.r = r => j = k
  /\ \A j \in jobs : j.r = r => phase = "serving"
  /\ \A j \in jobs : j.r = r /\ j.at \in {"route", "claim"} => Running(r) = {}
  /\ phase \in {"requeue", "resume"} => Running(r) = {}
  /\ receipt[r] = "routed" =>
       Running(r) = {} /\ r \notin worklist /\ \A j \in jobs : j.r # r
  /\ RowsOf(r) # {} => receipt[r] = "routed"
  /\ \A x, y \in RowsOf(r) : x.run = y.run

\* Whoever's answer it is that has the key of r waits too, and has r's
\* correlation id.
AnswersAreOfWaiters ==
  \A row \in outbox : \A r \in Receipt : row.key = AnswerKey(r) =>
    row.receipt \in Waiting /\ Correlation[row.receipt] = Correlation[r]

OutboxInv ==
  /\ EffectsAreOfCompletedRuns
  /\ \A row \in outbox : row.run \in DOMAIN runs[row.receipt]
  /\ OneRowPerKey
  /\ AnswersAreOfWaiters

IInv ==
  /\ TypeOK
  /\ JobsInv
  /\ \A r \in Receipt : ReceiptInv(r)
  /\ \A r \in Receipt \ Contracted : OneShot(r)
  /\ OutboxInv

-----------------------------------------------------------------------------
(* Type correctness.                                                       *)

LEMMA MarkOfType == \A x \in Decisions \ {"invoke"} : MarkOf[x] \in Marks
  BY DEF Decisions, MarkOf, Marks

LEMMA RequestsType ==
  ASSUME NEW j \in Jobs
  PROVE  Requests(j) \subseteq Keys
  BY DEF Requests, Keys, Jobs

\* j goes on as k: another step of the same job.
GoesOn(j, k) ==
  /\ k \in Jobs
  /\ k.id = j.id /\ k.r = j.r
  /\ Becomes(j, k)

\* What is left of a job after each of its steps.
LEMMA RouteForm ==
  ASSUME NEW j \in Jobs, Route(j)
  PROVE  \E k : /\ GoesOn(j, k)
                /\ k.at = "claim" \/ (k.at = "mark" /\ k.to \in Marks)
<1>1. CASE Decision[j.r] = "invoke"
  <2> DEFINE k == [j EXCEPT !.at = "claim"]
  <2>1. k \in Jobs /\ k.id = j.id /\ k.r = j.r /\ k.at = "claim"
    BY DEF Jobs, Steps
  <2>2. Becomes(j, k)
    BY <1>1 DEF Route
  <2> HIDE DEF k
  <2>3. QED
    BY <2>1, <2>2 DEF GoesOn
<1>2. CASE Decision[j.r] # "invoke"
  <2> DEFINE x == MarkOf[Decision[j.r]]
             k == [j EXCEPT !.at = "mark", !.to = x]
  <2>1. x \in Marks /\ x \in Statuses
    BY <1>2, MarkOfType, DecisionAssumption DEF Jobs, Marks, Statuses
  <2>2. Becomes(j, k)
    BY <1>2 DEF Route
  <2> HIDE DEF x
  <2>3. k \in Jobs /\ k.id = j.id /\ k.r = j.r /\ k.at = "mark" /\ k.to = x
    BY <2>1 DEF Jobs, Steps
  <2> HIDE DEF k
  <2>4. QED
    BY <2>1, <2>2, <2>3 DEF GoesOn
<1>3. QED
  BY <1>1, <1>2

LEMMA ClaimForm ==
  ASSUME NEW j \in Jobs, Claim(j), runs[j.r] \in Seq(RunStatuses)
  PROVE  \/ /\ j.r \in Contracted /\ Running(j.r) # {}
            /\ Ends(j) /\ UNCHANGED runs
         \/ /\ j.r \in Contracted => Running(j.r) = {}
            /\ runs' = [runs EXCEPT ![j.r] = Append(@, "running")]
            /\ \E k : GoesOn(j, k) /\ k.at = "invoke" /\ k.n = Len(runs[j.r]) + 1
<1>1. CASE j.r \in Contracted /\ Running(j.r) # {}
  BY <1>1 DEF Claim
<1>2. CASE ~(j.r \in Contracted /\ Running(j.r) # {})
  <2> DEFINE n == Len(runs[j.r]) + 1
             k == [j EXCEPT !.at = "invoke", !.n = n]
  <2>1. n \in Nat
    BY LenProperties
  <2>2. Becomes(j, k) /\ runs' = [runs EXCEPT ![j.r] = Append(@, "running")]
    BY <1>2 DEF Claim
  <2>3. ASSUME NEW m \in Nat
        PROVE  LET l == [j EXCEPT !.at = "invoke", !.n = m]
               IN  l \in Jobs /\ l.id = j.id /\ l.r = j.r /\ l.at = "invoke" /\ l.n = m
    BY DEF Jobs, Steps
  <2> HIDE DEF n
  <2>4. k \in Jobs /\ k.id = j.id /\ k.r = j.r /\ k.at = "invoke" /\ k.n = n
    BY <2>1, <2>3
  <2> HIDE DEF k
  <2>5. GoesOn(j, k) /\ k.at = "invoke" /\ k.n = n
    BY <2>2, <2>4 DEF GoesOn
  <2>6. QED
    BY <1>2, <2>2, <2>5 DEF n
<1>3. QED
  BY <1>1, <1>2

LEMMA InvokeForm ==
  ASSUME NEW j \in Jobs, Invoke(j)
  PROVE  \E k : GoesOn(j, k) /\ k.at \in {"fail", "complete"} /\ k.n = j.n
<1>1. CASE Becomes(j, [j EXCEPT !.at = "fail"])
  <2> DEFINE k == [j EXCEPT !.at = "fail"]
  <2>1. k \in Jobs /\ k.id = j.id /\ k.r = j.r /\ k.at = "fail" /\ k.n = j.n
    BY DEF Jobs, Steps
  <2>2. Becomes(j, k)
    BY <1>1
  <2> HIDE DEF k
  <2>3. QED
    BY <2>1, <2>2 DEF GoesOn
<1>2. ASSUME NEW o \in SUBSET Destination, Becomes(j, [j EXCEPT !.at = "complete", !.out = o])
      PROVE  \E k : GoesOn(j, k) /\ k.at = "complete" /\ k.n = j.n
  <2> DEFINE k == [j EXCEPT !.at = "complete", !.out = o]
  <2>1. k \in Jobs /\ k.id = j.id /\ k.r = j.r /\ k.at = "complete" /\ k.n = j.n
    BY DEF Jobs, Steps
  <2>2. Becomes(j, k)
    BY <1>2
  <2> HIDE DEF k
  <2>3. QED
    BY <2>1, <2>2 DEF GoesOn
<1>3. QED
  BY <1>1, <1>2 DEF Invoke

LEMMA FailedForm ==
  ASSUME NEW j \in Jobs, FailRun(j) \/ JobErrs(j)
  PROVE  \E k : GoesOn(j, k) /\ k.at = "mark" /\ k.to = "failed"
<1> DEFINE k == [j EXCEPT !.at = "mark", !.to = "failed"]
<1>1. k \in Jobs /\ k.id = j.id /\ k.r = j.r /\ k.at = "mark" /\ k.to = "failed"
  BY DEF Jobs, Steps, Statuses
<1>2. Becomes(j, k)
  BY DEF FailRun, JobErrs, Errs
<1> HIDE DEF k
<1>3. QED
  BY <1>1, <1>2 DEF GoesOn

\* A new job has an id of its own.
LEMMA NewJobForm ==
  ASSUME NEW id \in FreeIds, NEW r \in Receipt, NEW h \in BOOLEAN
  PROVE  /\ NewJob(id, r, h) \in Jobs
         /\ NewJob(id, r, h).id = id
         /\ NewJob(id, r, h).r = r
         /\ NewJob(id, r, h).at = "route"
         /\ \A j \in jobs : j.id # id
  BY DEF NewJob, FreeIds, Jobs, Steps

LEMMA BornForm ==
  ASSUME NEW r \in Receipt, Accept(r) \/ ServicePass(r)
  PROVE  \E k \in Jobs : /\ jobs' = jobs \cup {k}
                          /\ k.r = r /\ k.at = "route"
                          /\ \A j \in jobs : j.id # k.id
<1>1. ASSUME NEW id \in FreeIds, NEW h \in BOOLEAN, jobs' = jobs \cup {NewJob(id, r, h)}
      PROVE  \E k \in Jobs : /\ jobs' = jobs \cup {k}
                              /\ k.r = r /\ k.at = "route"
                              /\ \A j \in jobs : j.id # k.id
  BY <1>1, NewJobForm
<1>2. CASE Accept(r)
  <2>1. PICK id \in FreeIds : jobs' = jobs \cup {NewJob(id, r, r \in Inline)}
    BY <1>2 DEF Accept
  <2>2. (r \in Inline) \in BOOLEAN
    BY SMT
  <2>3. QED
    BY <1>1, <2>1, <2>2
<1>3. CASE ServicePass(r)
  <2>1. PICK id \in FreeIds : jobs' = jobs \cup {NewJob(id, r, FALSE)}
    BY <1>3 DEF ServicePass
  <2>2. QED
    BY <1>1, <2>1
<1>4. QED
  BY <1>2, <1>3

\* A run is added, running, after the others.
LEMMA RunsAppend ==
  ASSUME runs \in [Receipt -> Seq(RunStatuses)], NEW r \in Receipt,
         runs' = [runs EXCEPT ![r] = Append(@, "running")]
  PROVE  /\ runs' \in [Receipt -> Seq(RunStatuses)]
         /\ \A s \in Receipt : s # r => runs'[s] = runs[s]
         /\ runs'[r] # <<>>
         /\ \A m \in DOMAIN runs[r] : m \in DOMAIN runs'[r] /\ runs'[r][m] = runs[r][m]
         /\ Running(r)' = Running(r) \cup {Len(runs[r]) + 1}
         /\ \A s \in Receipt : s # r => Running(s)' = Running(s)
<1> DEFINE old == runs[r]
           new == Append(old, "running")
<1>1. old \in Seq(RunStatuses) /\ "running" \in RunStatuses
  BY DEF RunStatuses
<1>2. /\ new \in Seq(RunStatuses)
      /\ Len(new) = Len(old) + 1
      /\ \A m \in 1..Len(old) : new[m] = old[m]
      /\ new[Len(old) + 1] = "running"
  BY <1>1, AppendProperties
<1>3. /\ Len(old) \in Nat
      /\ DOMAIN old = 1..Len(old)
      /\ DOMAIN new = 1..(Len(old) + 1)
  BY <1>1, <1>2, LenProperties
<1>4. runs' = [runs EXCEPT ![r] = new]
  OBVIOUS
<1>5. Running(r) = {m \in DOMAIN old : old[m] = "running"}
  BY DEF Running
<1> HIDE DEF new, old
<1>6. runs'[r] = new /\ \A s \in Receipt : s # r => runs'[s] = runs[s]
  BY <1>4
<1>7. Running(r)' = {m \in DOMAIN new : new[m] = "running"}
  BY <1>6 DEF Running
<1>8. Running(r)' = Running(r) \cup {Len(old) + 1}
  BY <1>2, <1>3, <1>5, <1>7
<1>9. new # <<>>
  BY <1>2, <1>3, LenProperties
<1>10. runs' \in [Receipt -> Seq(RunStatuses)]
  BY <1>2, <1>4
<1>11. \A m \in DOMAIN old : m \in DOMAIN new /\ new[m] = old[m]
  BY <1>2, <1>3
<1>12. \A s \in Receipt : s # r => Running(s)' = Running(s)
  BY <1>6 DEF Running
<1>13. QED
  BY <1>6, <1>8, <1>9, <1>10, <1>11, <1>12 DEF old

\* Closing a run changes that run and no other.
LEMMA RunsExcept ==
  ASSUME runs \in [Receipt -> Seq(RunStatuses)], NEW r \in Receipt, NEW n \in DOMAIN runs[r],
         NEW x \in RunStatuses \ {"running"}, runs' = [runs EXCEPT ![r][n] = x]
  PROVE  /\ runs' \in [Receipt -> Seq(RunStatuses)]
         /\ \A s \in Receipt : s # r => runs'[s] = runs[s]
         /\ runs'[r] # <<>>
         /\ DOMAIN runs'[r] = DOMAIN runs[r]
         /\ \A m \in DOMAIN runs[r] : runs'[r][m] = IF m = n THEN x ELSE runs[r][m]
         /\ Running(r)' = Running(r) \ {n}
         /\ \A s \in Receipt : s # r => Running(s)' = Running(s)
<1> DEFINE old == runs[r]
           new == [old EXCEPT ![n] = x]
<1>1. runs' = [runs EXCEPT ![r] = new]
  OBVIOUS
<1>2. old \in Seq(RunStatuses) /\ DOMAIN old = 1..Len(old)
  BY LenProperties
<1>3. /\ new \in Seq(RunStatuses)
      /\ Len(new) = Len(old)
      /\ \A m \in 1..Len(old) : new[m] = IF m = n THEN x ELSE old[m]
  BY <1>2, ExceptSeq
<1>4. DOMAIN new = DOMAIN old /\ new # <<>>
  BY <1>2, <1>3, LenProperties
<1>5. Running(r) = {m \in DOMAIN old : old[m] = "running"}
  BY DEF Running
<1> HIDE DEF new, old
<1>6. runs'[r] = new /\ \A s \in Receipt : s # r => runs'[s] = runs[s]
  BY <1>1
<1>7. Running(r)' = {m \in DOMAIN new : new[m] = "running"}
  BY <1>6 DEF Running
<1>8. Running(r)' = Running(r) \ {n}
  BY <1>2, <1>3, <1>4, <1>5, <1>7
<1>9. \A s \in Receipt : s # r => Running(s)' = Running(s)
  BY <1>6 DEF Running
<1>10. runs' \in [Receipt -> Seq(RunStatuses)]
  BY <1>1, <1>3
<1>11. \A m \in DOMAIN old : new[m] = IF m = n THEN x ELSE old[m]
  BY <1>2, <1>3
<1>12. QED
  BY <1>4, <1>6, <1>8, <1>9, <1>10, <1>11 DEF old

\* A job that owns a run closes that one.
LEMMA ClosedForm ==
  ASSUME runs \in [Receipt -> Seq(RunStatuses)], NEW j \in Jobs, JobInv(j),
         FailRun(j) \/ Complete(j)
  PROVE  /\ j.at \in Owning /\ j.r \in Receipt
         /\ j.n \in Running(j.r) /\ j.n \in DOMAIN runs[j.r]
         /\ runs' \in [Receipt -> Seq(RunStatuses)]
         /\ \A s \in Receipt : s # j.r => runs'[s] = runs[s]
         /\ runs'[j.r] # <<>>
         /\ DOMAIN runs'[j.r] = DOMAIN runs[j.r]
         /\ \A m \in DOMAIN runs[j.r] : m # j.n => runs'[j.r][m] = runs[j.r][m]
         /\ Complete(j) => runs'[j.r][j.n] = "completed"
         /\ Running(j.r)' = Running(j.r) \ {j.n}
         /\ \A s \in Receipt : s # j.r => Running(s)' = Running(s)
<1>1. j.at \in Owning /\ j.r \in Receipt
  BY DEF FailRun, Complete, Owning, Jobs
<1>2. j.n \in Running(j.r) /\ j.n \in DOMAIN runs[j.r]
  BY <1>1 DEF JobInv, Running
<1>3. PICK x \in {"failed", "completed"} : /\ runs' = [runs EXCEPT ![j.r][j.n] = x]
                                           /\ Complete(j) => x = "completed"
  BY DEF FailRun, Complete
<1>4. x \in RunStatuses \ {"running"}
  BY DEF RunStatuses
<1>5. QED
  BY <1>1, <1>2, <1>3, <1>4, RunsExcept

\* A boot leaves no run running, and closes those that were.
LEMMA RunsInterrupted ==
  ASSUME runs \in [Receipt -> Seq(RunStatuses)], MarkInterrupted
  PROVE  /\ runs' \in [Receipt -> Seq(RunStatuses)]
         /\ \A r \in Receipt :
              /\ Running(r)' = {}
              /\ DOMAIN runs'[r] = DOMAIN runs[r]
              /\ runs'[r] = <<>> <=> runs[r] = <<>>
              /\ \A n \in DOMAIN runs[r] :
                   runs[r][n] # "running" => runs'[r][n] = runs[r][n]
<1>1. ASSUME NEW r \in Receipt
      PROVE  /\ runs'[r] \in Seq(RunStatuses)
             /\ Running(r)' = {}
             /\ DOMAIN runs'[r] = DOMAIN runs[r]
             /\ runs'[r] = <<>> <=> runs[r] = <<>>
             /\ \A n \in DOMAIN runs[r] :
                  runs[r][n] # "running" => runs'[r][n] = runs[r][n]
  <2> DEFINE Closed(n) == IF n \in Running(r) THEN "interrupted" ELSE runs[r][n]
  <2>1. runs[r] \in Seq(RunStatuses) /\ Len(runs[r]) \in Nat /\ DOMAIN runs[r] = 1..Len(runs[r])
    BY LenProperties
  <2>2. runs'[r] = [n \in 1..Len(runs[r]) |-> Closed(n)]
    BY <2>1 DEF MarkInterrupted
  <2>3. \A n \in 1..Len(runs[r]) :
          /\ Closed(n) \in RunStatuses \ {"running"}
          /\ runs[r][n] # "running" => Closed(n) = runs[r][n]
    BY <2>1, ElementOfSeq DEF Running, RunStatuses
  <2> HIDE DEF Closed
  <2>4. runs'[r] \in Seq(RunStatuses)
    BY <2>1, <2>2, <2>3, IsASeq
  <2>5. DOMAIN runs'[r] = DOMAIN runs[r]
    BY <2>1, <2>2
  <2>6. \A n \in DOMAIN runs[r] : runs'[r][n] = Closed(n)
    BY <2>1, <2>2
  <2>7. Len(runs'[r]) = Len(runs[r])
    BY <2>1, <2>4, <2>5, LenProperties
  <2>8. runs'[r] = <<>> <=> runs[r] = <<>>
    BY <2>1, <2>4, <2>7, EmptySeq
  <2>9. Running(r)' = {}
    BY <2>1, <2>3, <2>5, <2>6 DEF Running
  <2>10. QED
    BY <2>1, <2>3, <2>4, <2>5, <2>6, <2>8, <2>9
<1>2. runs' \in [Receipt -> Seq(RunStatuses)]
  BY <1>1 DEF MarkInterrupted
<1>3. QED
  BY <1>1, <1>2

LEMMA TypeInit == Init => TypeOK
  BY RestartsAssumption DEF Init, TypeOK, Statuses, Phases

LEMMA TypeStep ==
  ASSUME TypeOK, JobsInv, [Next]_vars
  PROVE  TypeOK'
<1> USE RestartsAssumption
<1>1. CASE \E r \in Receipt : Accept(r) \/ Requeue(r) \/ ServicePass(r)
  <2>1. PICK r \in Receipt : Accept(r) \/ Requeue(r) \/ ServicePass(r)
    BY <1>1
  <2>3. jobs' \subseteq Jobs
    BY <2>1, BornForm DEF Requeue, TypeOK
  <2>4. receipt' \in [Receipt -> Statuses \cup {"absent"}]
    BY <2>1 DEF Accept, Requeue, ServicePass, TypeOK, db, Statuses
  <2>5. worklist' \subseteq Receipt
    BY <2>1 DEF Accept, Requeue, ServicePass, TypeOK, boot
  <2>6. UNCHANGED <<runs, recorded, outbox, phase, authority, restarts>>
    BY <2>1 DEF Accept, Requeue, ServicePass, db, boot
  <2>7. QED
    BY <2>3, <2>4, <2>5, <2>6 DEF TypeOK
<1>2. CASE \E j \in jobs : JobStep(j) \/ JobErrs(j) \/ Dropped(j)
  <2>1. PICK j \in jobs : JobStep(j) \/ JobErrs(j) \/ Dropped(j)
    BY <1>2
  <2>2. j \in Jobs /\ j.r \in Receipt /\ j.id \in Job /\ JobInv(j)
    BY DEF TypeOK, Jobs, JobsInv
  <2>3. CASE Route(j)
    <3>1. jobs' \subseteq Jobs
      BY <2>2, <2>3, RouteForm DEF GoesOn, Becomes, TypeOK
    <3>2. QED
      BY <2>2, <2>3, <3>1 DEF Route, TypeOK, boot
  <2>4. CASE Claim(j)
    <3>1. runs[j.r] \in Seq(RunStatuses)
      BY <2>2 DEF TypeOK
    <3>2. runs' \in [Receipt -> Seq(RunStatuses)]
      BY <2>2, <2>4, <3>1, ClaimForm, RunsAppend DEF TypeOK
    <3>3. jobs' \subseteq Jobs
      BY <2>2, <2>4, <3>1, ClaimForm DEF GoesOn, Becomes, Ends, TypeOK
    <3>4. QED
      BY <2>4, <3>2, <3>3 DEF Claim, TypeOK, boot
  <2>5. CASE Invoke(j)
    <3>1. jobs' \subseteq Jobs
      BY <2>2, <2>5, InvokeForm DEF GoesOn, Becomes, TypeOK
    <3>2. QED
      BY <2>5, <3>1 DEF Invoke, TypeOK, db, boot
  <2>6. CASE FailRun(j)
    <3>1. runs' \in [Receipt -> Seq(RunStatuses)]
      BY <2>2, <2>6, ClosedForm DEF TypeOK
    <3>2. jobs' \subseteq Jobs
      BY <2>2, <2>6, FailedForm DEF GoesOn, Becomes, TypeOK
    <3>3. QED
      BY <2>6, <3>1, <3>2 DEF FailRun, TypeOK, boot
  <2>7. CASE Complete(j)
    <3>1. runs' \in [Receipt -> Seq(RunStatuses)] /\ j.n \in DOMAIN runs[j.r]
      BY <2>2, <2>7, ClosedForm DEF TypeOK
    <3>2. runs[j.r] \in Seq(RunStatuses)
      BY <2>2 DEF TypeOK
    <3>3. j.n \in Nat \ {0}
      BY <3>1, <3>2, LenProperties
    <3>4. outbox' \subseteq [key : Keys, receipt : Receipt, run : Nat \ {0}]
      BY <2>2, <2>7, <3>3, RequestsType DEF Complete, EnqueueAll, TypeOK
    <3>5. QED
      BY <2>2, <2>7, <3>1, <3>4 DEF Complete, Ends, TypeOK, boot, Statuses
  <2>8. CASE Mark(j) \/ Dropped(j)
    BY <2>2, <2>8 DEF Mark, Dropped, Ends, JobInv, Marks, TypeOK, db, boot, Statuses
  <2>9. CASE JobErrs(j)
    <3>1. jobs' \subseteq Jobs
      BY <2>2, <2>9, FailedForm DEF GoesOn, Becomes, TypeOK
    <3>2. QED
      BY <2>9, <3>1 DEF JobErrs, Errs, TypeOK, db, boot
  <2>10. QED
    BY <2>1, <2>3, <2>4, <2>5, <2>6, <2>7, <2>8, <2>9 DEF JobStep
<1>3. CASE Crash \/ Requeued \/ AuthorityChanges
  <2>1. authority' \in BOOLEAN
    BY <1>3 DEF Crash, Requeued, AuthorityChanges, TypeOK
  <2>2. restarts' \in 0..MaxRestarts /\ phase' \in Phases
    BY <1>3 DEF Crash, Requeued, AuthorityChanges, TypeOK, Phases
  <2>3. jobs' \subseteq Jobs /\ worklist' \subseteq Receipt
    BY <1>3 DEF Crash, Requeued, AuthorityChanges, TypeOK
  <2>4. UNCHANGED db
    BY <1>3 DEF Crash, Requeued, AuthorityChanges, db
  <2>5. QED
    BY <2>1, <2>2, <2>3, <2>4 DEF TypeOK, db
<1>4. CASE MarkInterrupted
  BY <1>4, RunsInterrupted DEF MarkInterrupted, TypeOK, Phases
<1>5. CASE Resume
  <2> DEFINE again == {r \in Unfinished : r \in Contracted => authority}
  <2>1. PICK id \in [again -> FreeIds] :
          jobs' = jobs \cup {NewJob(id[r], r, FALSE) : r \in again}
    BY <1>5 DEF Resume
  <2>2. \A r \in again : NewJob(id[r], r, FALSE) \in Jobs
    BY <2>1 DEF NewJob, FreeIds, Unfinished, Jobs, Steps
  <2>3. jobs' \subseteq Jobs
    BY <2>1, <2>2 DEF TypeOK
  <2>4. QED
    BY <1>5, <2>3 DEF Resume, TypeOK, db, Phases
<1>6. CASE UNCHANGED vars
  BY <1>6 DEF vars, TypeOK
<1>7. QED
  BY <1>1, <1>2, <1>3, <1>4, <1>5, <1>6 DEF Next

-----------------------------------------------------------------------------
(* The jobs.                                                               *)

\* The jobs of B are born: each of a receipt of its own, accepted by then.
Born(B) ==
  /\ jobs' = jobs \cup B
  /\ \A k \in B : /\ k \in Jobs /\ k.at = "route"
                  /\ receipt'[k.r] = "accepted"
                  /\ \A j \in jobs : j.id # k.id
  /\ \A k, l \in B : k.id = l.id \/ k.r = l.r => k = l

LEMMA BornOfOne ==
  ASSUME TypeOK, NEW r \in Receipt, Accept(r) \/ ServicePass(r)
  PROVE  \E k : k.r = r /\ Born({k})
<1>1. PICK k \in Jobs : /\ jobs' = jobs \cup {k}
                        /\ k.r = r /\ k.at = "route"
                        /\ \A j \in jobs : j.id # k.id
  BY BornForm
<1>2. receipt'[r] = "accepted"
  BY DEF Accept, ServicePass, Unfinished, TypeOK, db
<1>3. QED
  BY <1>1, <1>2 DEF Born

LEMMA BornAtBoot ==
  ASSUME TypeOK, Resume
  PROVE  \E B : Born(B)
<1> DEFINE again == {r \in Unfinished : r \in Contracted => authority}
<1>1. PICK id \in [again -> FreeIds] :
        /\ \A r, s \in again : id[r] = id[s] => r = s
        /\ jobs' = jobs \cup {NewJob(id[r], r, FALSE) : r \in again}
  BY DEF Resume
<1> DEFINE New(r) == NewJob(id[r], r, FALSE)
           B == {New(r) : r \in again}
<1>2. ASSUME NEW r \in again
      PROVE  /\ receipt'[r] = "accepted"
             /\ New(r) \in Jobs /\ New(r).at = "route" /\ New(r).r = r /\ New(r).id = id[r]
             /\ \A j \in jobs : j.id # New(r).id
  <2>1. r \in Receipt /\ receipt'[r] = "accepted"
    BY DEF Unfinished, Resume, db
  <2>2. id[r] \in FreeIds
    BY <1>1
  <2>3. \A i \in FreeIds : LET k == NewJob(i, r, FALSE)
                          IN  /\ k \in Jobs /\ k.at = "route" /\ k.r = r /\ k.id = i
                              /\ \A j \in jobs : j.id # i
    BY <2>1 DEF NewJob, FreeIds, Jobs, Steps
  <2>4. QED
    BY <2>1, <2>2, <2>3
<1>3. jobs' = jobs \cup B
  BY <1>1
<1> HIDE DEF again, New
<1>4. \A k \in B : /\ k \in Jobs /\ k.at = "route"
                  /\ receipt'[k.r] = "accepted"
                  /\ \A j \in jobs : j.id # k.id
  BY <1>2
<1>5. ASSUME NEW k \in B, NEW l \in B, k.id = l.id \/ k.r = l.r
      PROVE  k = l
  <2>1. PICK r \in again : k = New(r)
    OBVIOUS
  <2>2. PICK s \in again : l = New(s)
    OBVIOUS
  <2>3. id[r] = id[s] \/ r = s
    BY <1>2, <1>5, <2>1, <2>2
  <2>4. r = s
    BY <1>1, <2>3
  <2>5. QED
    BY <2>1, <2>2, <2>4
<1> HIDE DEF B
<1>6. QED
  BY <1>3, <1>4, <1>5 DEF Born

\* A job keeps what it knows if its receipt is not unmade, no decision is
\* struck off the record, and its run, if it owns one, keeps running.
LEMMA JobKept ==
  ASSUME NEW j \in jobs, JobInv(j), receipt'[j.r] # "absent",
         recorded[j.r] => recorded'[j.r],
         j.at \in Owning => j.n \in Running(j.r)'
  PROVE  JobInv(j)'
  BY DEF JobInv

\* Births, ends and steps of jobs, each with what it needs to keep JobsInv.
LEMMA JobsBorn ==
  ASSUME JobsInv, NEW B, Born(B), \A j \in jobs : JobInv(j)',
         phase' # "down", phase' # "requeue" => worklist' = {}
  PROVE  JobsInv'
<1>1. \A k \in B : JobInv(k)'
  BY DEF Born, JobInv, Owning
<1>2. \A j \in jobs' : JobInv(j)'
  BY <1>1 DEF Born
<1>3. \A j, k \in jobs' : j.id = k.id => j = k
  BY DEF Born, JobsInv
<1>4. \A j, k \in jobs' : j.r = k.r /\ {j.at, k.at} \subseteq Owning => j = k
  BY DEF Born, JobsInv, Owning
<1>5. QED
  BY <1>2, <1>3, <1>4 DEF JobsInv

LEMMA JobsEnd ==
  ASSUME JobsInv, jobs' \subseteq jobs, \A j \in jobs' : JobInv(j)',
         phase' = "down" => jobs' = {}, phase' # "requeue" => worklist' = {}
  PROVE  JobsInv'
  BY DEF JobsInv

LEMMA JobsGoOn ==
  ASSUME JobsInv, NEW j \in jobs, NEW k, GoesOn(j, k), JobInv(k)',
         \A i \in jobs \ {j} : JobInv(i)',
         k.at \in Owning => \A i \in jobs \ {j} : i.r # j.r \/ i.at \notin Owning,
         UNCHANGED <<phase, worklist>>
  PROVE  JobsInv'
<1>1. jobs' = (jobs \ {j}) \cup {k} /\ k.id = j.id /\ k.r = j.r
  BY DEF GoesOn, Becomes
<1>2. \A i \in jobs' : JobInv(i)'
  BY <1>1
<1>3. \A h, i \in jobs' : h.id = i.id => h = i
  BY <1>1 DEF JobsInv
<1>4. \A h, i \in jobs' : h.r = i.r /\ {h.at, i.at} \subseteq Owning => h = i
  BY <1>1 DEF JobsInv
<1>5. phase' # "down" /\ (phase' # "requeue" => worklist' = {})
  BY DEF JobsInv
<1>6. QED
  BY <1>2, <1>3, <1>4, <1>5 DEF JobsInv

\* No step unmakes a receipt or strikes a decision off the record.
LEMMA Grows ==
  ASSUME TypeOK, JobsInv, [Next]_vars
  PROVE  \A r \in Receipt : /\ receipt[r] # "absent" => receipt'[r] # "absent"
                            /\ recorded[r] => recorded'[r]
<1>1. ASSUME NEW r \in Receipt, Accept(r) \/ Requeue(r) \/ ServicePass(r)
      PROVE  \A s \in Receipt : /\ receipt[s] # "absent" => receipt'[s] # "absent"
                                /\ recorded[s] => recorded'[s]
  BY <1>1 DEF Accept, Requeue, ServicePass, TypeOK, db
<1>2. ASSUME NEW j \in jobs, JobStep(j) \/ JobErrs(j) \/ Dropped(j)
      PROVE  \A s \in Receipt : /\ receipt[s] # "absent" => receipt'[s] # "absent"
                                /\ recorded[s] => recorded'[s]
  <2>1. JobInv(j) /\ j.r \in Receipt
    BY DEF JobsInv, TypeOK, Jobs
  <2>2. CASE Mark(j)
    BY <2>1, <2>2 DEF Mark, JobInv, Marks, TypeOK
  <2>3. CASE Route(j) \/ Complete(j)
    BY <2>1, <2>3 DEF Route, Complete, TypeOK
  <2>4. CASE Claim(j) \/ Invoke(j) \/ FailRun(j) \/ JobErrs(j) \/ Dropped(j)
    BY <2>4 DEF Claim, Invoke, FailRun, JobErrs, Errs, Dropped, db
  <2>5. QED
    BY <1>2, <2>2, <2>3, <2>4 DEF JobStep
<1>3. CASE Crash \/ MarkInterrupted \/ Requeued \/ Resume \/ AuthorityChanges \/ UNCHANGED vars
  BY <1>3 DEF Crash, MarkInterrupted, Requeued, Resume, AuthorityChanges, vars, db
<1>4. QED
  BY <1>1, <1>2, <1>3 DEF Next

LEMMA JobsStep ==
  ASSUME IInv, [Next]_vars
  PROVE  JobsInv'
<1>1. TypeOK /\ JobsInv
  BY DEF IInv
<1>2. \A r \in Receipt : /\ receipt[r] # "absent" => receipt'[r] # "absent"
                         /\ recorded[r] => recorded'[r]
  BY <1>1, Grows
<1>3. \A j \in jobs : JobInv(j)
  BY <1>1 DEF JobsInv
<1>4. \A j \in jobs : j \in Jobs /\ j.r \in Receipt
  BY <1>1 DEF TypeOK, Jobs
<1>5. \A j \in jobs : receipt'[j.r] # "absent"
  BY <1>2, <1>3, <1>4 DEF JobInv
<1>6. \A j \in jobs : recorded[j.r] => recorded'[j.r]
  BY <1>2, <1>4
<1>7. ASSUME NEW j \in jobs, j.at \in Owning => j.n \in Running(j.r)'
      PROVE  JobInv(j)'
  BY <1>7, <1>3, <1>5, <1>6, JobKept
<1>8. UNCHANGED runs => \A j \in jobs : JobInv(j)'
  <2>1. UNCHANGED runs => \A r \in Receipt : Running(r)' = Running(r)
    BY DEF Running
  <2>2. \A j \in jobs : j.at \in Owning => j.n \in Running(j.r)
    BY <1>3 DEF JobInv
  <2>3. QED
    BY <1>7, <1>4, <2>1, <2>2
<1>9. ASSUME NEW r \in Receipt, Accept(r) \/ ServicePass(r)
      PROVE  JobsInv'
  <2>1. PICK k : k.r = r /\ Born({k})
    BY <1>1, <1>9, BornOfOne
  <2>2. UNCHANGED <<runs, phase, worklist>> /\ phase # "down"
    BY <1>9 DEF Accept, ServicePass, db, boot
  <2>3. phase' # "requeue" => worklist' = {}
    BY <1>1, <2>2 DEF JobsInv
  <2>4. QED
    BY <1>1, <1>8, <2>1, <2>2, <2>3, JobsBorn
<1>10. CASE \E r \in Receipt : Requeue(r)
  <2>1. UNCHANGED <<runs, phase, jobs>> /\ phase = "requeue"
    BY <1>10 DEF Requeue
  <2>2. QED
    BY <1>1, <1>8, <2>1, JobsEnd
<1>11. ASSUME NEW j \in jobs, JobStep(j) \/ JobErrs(j) \/ Dropped(j)
      PROVE  JobsInv'
  <2>1. /\ j \in Jobs /\ j.r \in Receipt /\ JobInv(j)
        /\ runs \in [Receipt -> Seq(RunStatuses)]
        /\ runs[j.r] \in Seq(RunStatuses)
    BY <1>1, <1>3, <1>4 DEF TypeOK
  <2>2. UNCHANGED <<phase, worklist>>
    BY <1>11 DEF JobStep, JobErrs, Errs, Dropped, Route, Claim, Invoke, FailRun, Complete,
                Mark, boot
  <2>3. \A i \in jobs \ {j} : i.r # j.r \/ i.at \notin Owning \/ j.at \notin Owning
    BY <1>1 DEF JobsInv
  <2>4. (\A i \in jobs \ {j} : JobInv(i)') /\ Ends(j) => JobsInv'
    <3>1. Ends(j) => jobs' = jobs \ {j}
      BY DEF Ends
    <3>2. phase' # "down" /\ (phase' # "requeue" => worklist' = {})
      BY <1>1, <2>2 DEF JobsInv
    <3>3. QED
      BY <1>1, <3>1, <3>2, JobsEnd
  <2>5. CASE Route(j)
    <3>1. recorded'[j.r] /\ UNCHANGED runs
      BY <1>1, <2>1, <2>5 DEF Route, TypeOK
    <3>2. PICK k : /\ GoesOn(j, k)
                   /\ k.at = "claim" \/ (k.at = "mark" /\ k.to \in Marks)
      BY <2>1, <2>5, RouteForm
    <3>3. JobInv(k)'
      BY <1>5, <3>1, <3>2 DEF JobInv, GoesOn, Owning
    <3>4. QED
      BY <1>1, <1>8, <2>2, <3>1, <3>2, <3>3, JobsGoOn DEF Owning
  <2>6. CASE Claim(j)
    <3>1. CASE Ends(j) /\ UNCHANGED runs
      BY <1>8, <2>4, <3>1
    <3>2. ASSUME NEW k, GoesOn(j, k), k.at = "invoke", k.n = Len(runs[j.r]) + 1,
                 j.r \in Contracted => Running(j.r) = {},
                 runs' = [runs EXCEPT ![j.r] = Append(@, "running")]
          PROVE  JobsInv'
      <4>1. /\ Running(j.r)' = Running(j.r) \cup {k.n}
            /\ \A s \in Receipt : s # j.r => Running(s)' = Running(s)
        BY <2>1, <3>2, RunsAppend
      <4>2. JobInv(k)'
        BY <1>3, <1>5, <1>6, <2>6, <3>2, <4>1 DEF Claim, JobInv, GoesOn, Owning
      <4>3. \A i \in jobs : JobInv(i)'
        <5>1. \A i \in jobs : i.at \in Owning => i.n \in Running(i.r)'
          BY <1>3, <1>4, <4>1 DEF JobInv
        <5>2. QED
          BY <1>7, <5>1
      <4>4. \A i \in jobs \ {j} : i.r # j.r \/ i.at \notin Owning
        <5>1. CASE j.r \in Contracted
          BY <1>3, <3>2, <5>1 DEF JobInv
        <5>2. CASE j.r \notin Contracted
          BY <2>1, <5>2 DEF IInv, OneShot
        <5>3. QED
          BY <5>1, <5>2
      <4>5. QED
        BY <1>1, <2>2, <3>2, <4>2, <4>3, <4>4, JobsGoOn
    <3>3. QED
      BY <2>1, <2>6, <3>1, <3>2, ClaimForm
  <2>7. CASE Invoke(j)
    <3>1. PICK k : GoesOn(j, k) /\ k.at \in {"fail", "complete"} /\ k.n = j.n
      BY <2>1, <2>7, InvokeForm
    <3>2. j.at = "invoke" /\ UNCHANGED runs
      BY <2>7 DEF Invoke, db
    <3>3. JobInv(k)'
      BY <1>5, <1>8, <2>1, <3>1, <3>2 DEF JobInv, GoesOn, Owning
    <3>4. QED
      BY <1>1, <1>8, <2>2, <2>3, <3>1, <3>2, <3>3, JobsGoOn DEF Owning
  <2>8. CASE FailRun(j) \/ JobErrs(j)
    <3>1. PICK k : GoesOn(j, k) /\ k.at = "mark" /\ k.to = "failed"
      BY <2>1, <2>8, FailedForm
    <3>2. JobInv(k)'
      BY <1>5, <3>1 DEF JobInv, GoesOn, Owning, Marks
    <3>3. \A i \in jobs \ {j} : JobInv(i)'
      <4>1. CASE JobErrs(j)
        BY <1>8, <4>1 DEF JobErrs, Errs, db
      <4>2. CASE FailRun(j)
        <5>1. j.at \in Owning
          BY <2>1, <4>2, ClosedForm
        <5>2. \A s \in Receipt : s # j.r => Running(s)' = Running(s)
          BY <2>1, <4>2, ClosedForm
        <5>3. \A i \in jobs \ {j} : i.at \in Owning => i.n \in Running(i.r)'
          BY <1>3, <1>4, <2>3, <5>1, <5>2 DEF JobInv
        <5>4. QED
          BY <1>7, <5>3
      <4>3. QED
        BY <2>8, <4>1, <4>2
    <3>4. QED
      BY <1>1, <2>2, <3>1, <3>2, <3>3, JobsGoOn DEF Owning
  <2>9. CASE Complete(j)
    <3>1. j.at \in Owning
      BY <2>1, <2>9, ClosedForm
    <3>2. \A s \in Receipt : s # j.r => Running(s)' = Running(s)
      BY <2>1, <2>9, ClosedForm
    <3>3. \A i \in jobs \ {j} : i.at \in Owning => i.n \in Running(i.r)'
      BY <1>3, <1>4, <2>3, <3>1, <3>2 DEF JobInv
    <3>4. QED
      BY <1>7, <2>4, <2>9, <3>3 DEF Complete
  <2>10. CASE Mark(j) \/ Dropped(j)
    BY <1>8, <2>4, <2>10 DEF Mark, Dropped, db
  <2>11. QED
    BY <1>11, <2>5, <2>6, <2>7, <2>8, <2>9, <2>10 DEF JobStep
<1>12. CASE Crash
  BY <1>12, <1>1, JobsEnd DEF Crash
<1>13. CASE MarkInterrupted
  <2>1. jobs = {} /\ jobs' = {} /\ phase' = "requeue"
    BY <1>1, <1>13 DEF MarkInterrupted, JobsInv
  <2>2. QED
    BY <1>1, <2>1, JobsEnd
<1>14. CASE Requeued
  BY <1>1, <1>8, <1>14, JobsEnd DEF Requeued, db
<1>15. CASE Resume
  <2>1. PICK B : Born(B)
    BY <1>1, <1>15, BornAtBoot
  <2>2. UNCHANGED runs /\ phase' = "serving" /\ worklist' = {}
    BY <1>1, <1>15 DEF Resume, JobsInv, db
  <2>3. QED
    BY <1>1, <1>8, <2>1, <2>2, JobsBorn
<1>16. CASE AuthorityChanges \/ UNCHANGED vars
  <2>1. UNCHANGED <<runs, phase, worklist, jobs>>
    BY <1>16 DEF AuthorityChanges, vars, db
  <2>2. (phase' = "down" => jobs' = {}) /\ (phase' # "requeue" => worklist' = {})
    BY <1>1, <2>1 DEF JobsInv
  <2>3. QED
    BY <1>1, <1>8, <2>1, <2>2, JobsEnd
<1>17. QED
  BY <1>9, <1>10, <1>11, <1>12, <1>13, <1>14, <1>15, <1>16 DEF Next

-----------------------------------------------------------------------------
(* The receipts.                                                           *)

LEMMA RunningHasRuns ==
  ASSUME NEW r, runs[r] = <<>>
  PROVE  Running(r) = {}
<1>1. DOMAIN runs[r] = {}
  BY EmptySeq
<1>2. QED
  BY <1>1 DEF Running

LEMMA ReceiptKept ==
  ASSUME NEW r \in Receipt, ReceiptInv(r), runs'[r] = runs[r],
         receipt'[r] = receipt[r] \/ receipt'[r] \in {"accepted", "failed"},
         recorded[r] => recorded'[r], outbox \subseteq outbox',
         r \in worklist' => r \in worklist
  PROVE  ReceiptInv(r)'
<1>1. Running(r)' = Running(r)
  BY DEF Running
<1>2. AnswerKey(r)' = AnswerKey(r)
  BY DEF AnswerKey
<1>3. QED
  BY <1>1, <1>2 DEF ReceiptInv

\* Every key asked for has a row afterwards.
LEMMA Enqueued ==
  ASSUME NEW j, EnqueueAll(j), NEW k \in Requests(j)
  PROVE  \E row \in outbox' : row.key = k
<1>1. CASE \E row \in outbox : row.key = k
  BY <1>1 DEF EnqueueAll
<1>2. CASE \A row \in outbox : row.key # k
  <2> DEFINE new == [key |-> k, receipt |-> j.r, run |-> j.n]
  <2>1. new \in outbox'
    BY <1>2 DEF EnqueueAll
  <2>2. new.key = k
    OBVIOUS
  <2>3. QED
    BY <2>1, <2>2
<1>3. QED
  BY <1>1, <1>2

\* No step takes a row out of the outbox.
LEMMA OutboxGrows ==
  ASSUME [Next]_vars
  PROVE  outbox \subseteq outbox'
<1>1. ASSUME NEW r \in Receipt, Accept(r) \/ Requeue(r) \/ ServicePass(r)
      PROVE  outbox \subseteq outbox'
  BY <1>1 DEF Accept, Requeue, ServicePass, db
<1>2. ASSUME NEW j \in jobs, JobStep(j) \/ JobErrs(j) \/ Dropped(j)
      PROVE  outbox \subseteq outbox'
  BY <1>2 DEF JobStep, JobErrs, Errs, Dropped, Route, Claim, Invoke, FailRun, Complete,
              EnqueueAll, Mark, db
<1>3. CASE Crash \/ MarkInterrupted \/ Requeued \/ Resume \/ AuthorityChanges \/ UNCHANGED vars
  BY <1>3 DEF Crash, MarkInterrupted, Requeued, Resume, AuthorityChanges, vars, db
<1>4. QED
  BY <1>1, <1>2, <1>3 DEF Next

LEMMA ReceiptStep ==
  ASSUME IInv, [Next]_vars, NEW r \in Receipt
  PROVE  ReceiptInv(r)'
<1>1. TypeOK /\ JobsInv /\ ReceiptInv(r)
  BY DEF IInv
<1>2. /\ receipt[r] # "absent" => receipt'[r] # "absent"
      /\ recorded[r] => recorded'[r]
  BY <1>1, Grows
<1>3. outbox \subseteq outbox'
  BY OutboxGrows
<1>4. /\ runs'[r] = runs[r]
      /\ receipt'[r] = receipt[r] \/ receipt'[r] \in {"accepted", "failed"}
      /\ r \in worklist' => r \in worklist
      => ReceiptInv(r)'
  BY <1>1, <1>2, <1>3, ReceiptKept
<1>5. ASSUME NEW s \in Receipt, Accept(s) \/ Requeue(s) \/ ServicePass(s)
      PROVE  ReceiptInv(r)'
  <2>1. runs'[r] = runs[r] /\ worklist' \subseteq worklist
    BY <1>5 DEF Accept, Requeue, ServicePass, db, boot
  <2>2. receipt'[r] = receipt[r] \/ receipt'[r] = "accepted"
    BY <1>1, <1>5 DEF Accept, Requeue, ServicePass, TypeOK, db
  <2>3. QED
    BY <1>4, <2>1, <2>2
<1>6. ASSUME NEW j \in jobs, JobStep(j) \/ JobErrs(j) \/ Dropped(j)
      PROVE  ReceiptInv(r)'
  <2>1. /\ j \in Jobs /\ j.r \in Receipt /\ JobInv(j)
        /\ runs \in [Receipt -> Seq(RunStatuses)]
        /\ runs[j.r] \in Seq(RunStatuses)
    BY <1>1 DEF TypeOK, JobsInv, Jobs
  <2>2. UNCHANGED worklist
    BY <1>6 DEF JobStep, JobErrs, Errs, Dropped, Route, Claim, Invoke, FailRun, Complete,
                Mark, boot
  <2>3. CASE Route(j) \/ Invoke(j) \/ JobErrs(j) \/ Dropped(j)
    <3>1. UNCHANGED <<runs, receipt>>
      BY <2>3 DEF Route, Invoke, JobErrs, Errs, Dropped, db
    <3>2. QED
      BY <1>4, <2>2, <3>1
  <2>4. CASE Claim(j)
    <3>1. receipt' = receipt
      BY <2>4 DEF Claim
    <3>2. CASE runs'[r] = runs[r]
      BY <1>4, <2>2, <3>1, <3>2
    <3>3. CASE runs'[r] # runs[r]
      <4>1. /\ j.r \in Contracted => Running(j.r) = {}
            /\ runs' = [runs EXCEPT ![j.r] = Append(@, "running")]
        BY <2>1, <2>4, <3>3, ClaimForm
      <4>2. r = j.r
        BY <2>1, <3>3, <4>1, RunsAppend
      <4>3. Running(r) = {}
        <5>1. CASE j.r \in Contracted
          BY <4>1, <4>2, <5>1
        <5>2. CASE j.r \notin Contracted
          BY <2>1, <2>4, <4>2, <5>2 DEF IInv, OneShot, Claim
        <5>3. QED
          BY <5>1, <5>2
      <4>4. \A m, n \in Running(r)' : m = n
        <5>1. Running(j.r)' = Running(j.r) \cup {Len(runs[j.r]) + 1}
          BY <2>1, <4>1, RunsAppend
        <5>2. QED
          BY <4>2, <4>3, <5>1
      <4>5. receipt'[r] # "absent"
        BY <2>1, <3>1, <4>2 DEF JobInv
      <4>6. recorded'[r]
        BY <1>2, <2>1, <2>4, <4>2 DEF JobInv, Claim
      <4>7. r \in Waiting /\ receipt'[r] = "routed" =>
              \E row \in outbox' : row.key = AnswerKey(r)
        BY <1>1, <1>3, <3>1 DEF ReceiptInv
      <4>8. QED
        BY <4>4, <4>5, <4>6, <4>7 DEF ReceiptInv, AnswerKey
    <3>4. QED
      BY <3>2, <3>3
  <2>5. CASE FailRun(j) \/ Complete(j)
    <3>1. /\ j.n \in Running(j.r)
          /\ \A s \in Receipt : s # j.r => runs'[s] = runs[s]
          /\ Running(j.r)' = Running(j.r) \ {j.n}
      BY <2>1, <2>5, ClosedForm
    <3>2. CASE r # j.r
      <4>1. receipt'[r] = receipt[r]
        BY <1>1, <2>5, <3>2 DEF FailRun, Complete, TypeOK
      <4>2. QED
        BY <1>4, <2>2, <3>1, <3>2, <4>1
    <3>3. CASE r = j.r
      <4>1. \A m, n \in Running(r)' : m = n
        BY <1>1, <3>1, <3>3 DEF ReceiptInv
      <4>2. receipt'[r] # "absent"
        BY <1>2, <2>1, <3>3 DEF JobInv
      <4>3. recorded'[r]
        BY <1>1, <1>2, <3>1, <3>3, RunningHasRuns DEF ReceiptInv
      <4>4. r \in Waiting /\ receipt'[r] = "routed" =>
              \E row \in outbox' : row.key = AnswerKey(r)
        <5>1. CASE FailRun(j)
          BY <1>1, <1>3, <5>1 DEF FailRun, ReceiptInv
        <5>2. ASSUME Complete(j), r \in Waiting
              PROVE  \E row \in outbox' : row.key = AnswerKey(r)
          <6>1. AnswerKey(r) \in Requests(j)
            BY <3>3, <5>2 DEF Requests
          <6>2. QED
            BY <5>2, <6>1, Enqueued DEF Complete
        <5>3. QED
          BY <2>5, <5>1, <5>2
      <4>5. QED
        BY <4>1, <4>2, <4>3, <4>4 DEF ReceiptInv, AnswerKey
    <3>4. QED
      BY <3>2, <3>3
  <2>6. CASE Mark(j)
    <3>1. UNCHANGED <<runs, outbox>> /\ Running(r)' = Running(r)
      BY <2>6 DEF Mark, Running
    <3>2. CASE receipt'[r] = receipt[r] \/ receipt'[r] = "failed"
      BY <1>4, <2>2, <3>1, <3>2
    <3>3. CASE receipt'[r] # receipt[r] /\ receipt'[r] # "failed"
      <4>1. r = j.r /\ receipt'[r] = j.to
        BY <1>1, <2>6, <3>3 DEF Mark, TypeOK
      <4>2. recorded[r] /\ receipt'[r] \notin {"absent", "routed"}
        BY <2>1, <2>6, <3>3, <4>1 DEF JobInv, Mark, Marks
      <4>3. recorded'[r]
        BY <1>2, <4>2
      <4>4. QED
        BY <1>1, <3>1, <4>2, <4>3 DEF ReceiptInv
    <3>4. QED
      BY <3>2, <3>3
  <2>7. QED
    BY <1>6, <2>3, <2>4, <2>5, <2>6 DEF JobStep
<1>7. CASE MarkInterrupted
  <2>1. Running(r)' = {} /\ (runs'[r] = <<>> <=> runs[r] = <<>>)
    BY <1>1, <1>7, RunsInterrupted DEF TypeOK
  <2>2. UNCHANGED <<receipt, recorded, outbox>> /\ worklist' = {s \in Receipt : Running(s) # {}}
    BY <1>7 DEF MarkInterrupted
  <2>3. receipt[r] = "absent" => r \notin worklist'
    BY <1>1, <2>2, RunningHasRuns DEF ReceiptInv
  <2>4. QED
    BY <1>1, <2>1, <2>2, <2>3 DEF ReceiptInv, AnswerKey
<1>8. CASE Crash \/ Requeued \/ Resume \/ AuthorityChanges \/ UNCHANGED vars
  <2>1. runs'[r] = runs[r] /\ receipt'[r] = receipt[r] /\ (r \in worklist' => r \in worklist)
    BY <1>8 DEF Crash, Requeued, Resume, AuthorityChanges, vars, db
  <2>2. QED
    BY <1>4, <2>1
<1>9. QED
  BY <1>5, <1>6, <1>7, <1>8 DEF Next

-----------------------------------------------------------------------------
(* Receipts out of the service worker's reach.                             *)

LEMMA OneShotKept ==
  ASSUME NEW r, OneShot(r), Running(r)' = Running(r), receipt'[r] = receipt[r],
         RowsOf(r)' = RowsOf(r), phase' = phase, r \in worklist' => r \in worklist,
         \A j \in jobs' : j.r = r => j \in jobs
  PROVE  OneShot(r)'
  BY DEF OneShot

\* While the one job of the receipt is at work, it has no rows.
LEMMA OneShotWorks ==
  ASSUME NEW r, phase' = "serving", receipt'[r] # "routed", RowsOf(r)' = {},
         \A i, k \in jobs' : i.r = r /\ k.r = r => i = k,
         \A i \in jobs' : i.r = r /\ i.at \in {"route", "claim"} => Running(r)' = {}
  PROVE  OneShot(r)'
  BY DEF OneShot

LEMMA OneShotOfReceipts ==
  ASSUME TypeOK, JobsInv, NEW r \in Receipt \ Contracted, ReceiptInv(r), OneShot(r),
         NEW s \in Receipt, Accept(s) \/ Requeue(s) \/ ServicePass(s)
  PROVE  OneShot(r)'
<1>1. /\ UNCHANGED <<runs, outbox, phase>>
      /\ r # s => receipt'[r] = receipt[r]
      /\ worklist' \subseteq worklist
  BY DEF Accept, Requeue, ServicePass, TypeOK, db, boot
<1>2. Running(r)' = Running(r) /\ RowsOf(r)' = RowsOf(r)
  BY <1>1 DEF Running, RowsOf
<1>3. CASE r # s
  <2>1. \A j \in jobs' : j.r = r => j \in jobs
    BY <1>3, BornOfOne DEF Born, Requeue
  <2>2. QED
    BY <1>1, <1>2, <1>3, <2>1, OneShotKept
<1>4. CASE Accept(r)
  <2>1. PICK k : k.r = r /\ Born({k})
    BY <1>4, BornOfOne
  <2>2. \A j \in jobs : j.r # r
    BY <1>4 DEF Accept, JobsInv, JobInv
  <2>3. \A i, l \in jobs' : i.r = r /\ l.r = r => i = l
    BY <2>1, <2>2 DEF Born
  <2>4. Running(r) = {}
    BY <1>4, RunningHasRuns DEF Accept, ReceiptInv
  <2>5. RowsOf(r) = {}
    BY <1>4 DEF Accept, OneShot
  <2>6. phase' = "serving" /\ receipt'[r] # "routed"
    BY <1>1, <1>4 DEF Accept, TypeOK
  <2>7. QED
    BY <1>2, <2>3, <2>4, <2>5, <2>6, OneShotWorks
<1>5. CASE Requeue(r)
  <2>1. jobs' = jobs /\ receipt'[r] # "routed" /\ RowsOf(r) = {}
    BY <1>5 DEF Requeue, OneShot, TypeOK
  <2>2. QED
    BY <1>1, <1>2, <2>1 DEF OneShot
<1>6. CASE ServicePass(r)
  BY <1>6 DEF ServicePass
<1>7. QED
  BY <1>3, <1>4, <1>5, <1>6

LEMMA OneShotOfOthers ==
  ASSUME TypeOK, NEW r \in Receipt, OneShot(r), NEW j \in jobs, JobInv(j), j.r # r,
         JobStep(j) \/ JobErrs(j) \/ Dropped(j)
  PROVE  OneShot(r)'
<1>1. /\ j \in Jobs /\ j.r \in Receipt
      /\ runs \in [Receipt -> Seq(RunStatuses)]
      /\ runs[j.r] \in Seq(RunStatuses)
  BY DEF TypeOK, Jobs
<1>2. receipt'[r] = receipt[r]
  BY DEF JobStep, JobErrs, Errs, Dropped, Route, Claim, Invoke, FailRun, Complete, Mark,
         TypeOK, db
<1>3. UNCHANGED <<phase, worklist>>
  BY DEF JobStep, JobErrs, Errs, Dropped, Route, Claim, Invoke, FailRun, Complete, Mark, boot
<1>4. Running(r)' = Running(r)
  <2>1. CASE UNCHANGED runs
    BY <2>1 DEF Running
  <2>2. CASE Claim(j)
    BY <1>1, <2>1, <2>2, ClaimForm, RunsAppend
  <2>3. CASE FailRun(j) \/ Complete(j)
    BY <1>1, <2>3, ClosedForm
  <2>4. QED
    BY <2>1, <2>2, <2>3 DEF JobStep, JobErrs, Errs, Dropped, Route, Invoke, Mark, db
<1>5. RowsOf(r)' = RowsOf(r)
  <2>1. CASE UNCHANGED outbox
    BY <2>1 DEF RowsOf
  <2>2. CASE Complete(j)
    BY <2>2 DEF Complete, EnqueueAll, RowsOf
  <2>3. QED
    BY <2>1, <2>2 DEF JobStep, JobErrs, Errs, Dropped, Route, Claim, Invoke, FailRun, Mark, db
<1>6. \A i \in jobs' : i.r = r => i \in jobs
  <2>1. CASE Ends(j)
    BY <2>1 DEF Ends
  <2>2. CASE \E k : GoesOn(j, k)
    BY <2>2 DEF GoesOn, Becomes
  <2>3. QED
    BY <1>1, <2>1, <2>2, RouteForm, ClaimForm, InvokeForm, FailedForm
       DEF JobStep, Complete, Mark, Dropped
<1>7. QED
  BY <1>2, <1>3, <1>4, <1>5, <1>6, OneShotKept

LEMMA OneShotOfItself ==
  ASSUME TypeOK, JobsInv, NEW r \in Receipt \ Contracted, ReceiptInv(r), OneShot(r),
         NEW j \in jobs, j.r = r, JobStep(j) \/ JobErrs(j) \/ Dropped(j)
  PROVE  OneShot(r)'
<1>1. /\ j \in Jobs /\ JobInv(j)
      /\ runs \in [Receipt -> Seq(RunStatuses)]
      /\ runs[r] \in Seq(RunStatuses)
  BY DEF TypeOK, JobsInv
<1>2. /\ \A i \in jobs : i.r = r => i = j
      /\ phase = "serving"
      /\ receipt[r] # "routed"
      /\ RowsOf(r) = {}
      /\ j.at \in {"route", "claim"} => Running(r) = {}
  BY DEF OneShot
<1>3. UNCHANGED <<phase, worklist>>
  BY DEF JobStep, JobErrs, Errs, Dropped, Route, Claim, Invoke, FailRun, Complete, Mark, boot
<1>4. CASE Complete(j)
  <2>1. \A i \in jobs' : i.r # r
    BY <1>2, <1>4 DEF Complete, Ends
  <2>2. Running(r)' = {}
    BY <1>1, <1>4, ClosedForm DEF ReceiptInv
  <2>3. receipt'[r] = "routed"
    BY <1>4 DEF Complete, TypeOK
  <2>4. \A x \in RowsOf(r)' : x.run = j.n
    BY <1>2, <1>4 DEF Complete, EnqueueAll, RowsOf
  <2>5. r \notin worklist'
    BY <1>2, <1>3 DEF JobsInv
  <2>6. QED
    BY <2>1, <2>2, <2>3, <2>4, <2>5 DEF OneShot
<1>5. CASE ~Complete(j)
  <2>1. UNCHANGED outbox
    BY <1>5 DEF JobStep, JobErrs, Errs, Dropped, Route, Claim, Invoke, FailRun, Mark, db
  <2>2. RowsOf(r)' = {}
    BY <1>2, <2>1 DEF RowsOf
  <2>3. receipt'[r] # "routed"
    <3>1. CASE Mark(j)
      BY <1>1, <1>2, <3>1 DEF Mark, JobInv, Marks, TypeOK
    <3>2. CASE ~Mark(j)
      BY <1>2, <1>5, <3>2 DEF JobStep, JobErrs, Errs, Dropped, Route, Claim, Invoke, FailRun, db
    <3>3. QED
      BY <3>1, <3>2
  <2>4. CASE Ends(j)
    <3>1. \A i \in jobs' : i.r # r
      BY <1>2, <2>4 DEF Ends
    <3>2. QED
      BY <1>2, <1>3, <2>2, <2>3, <3>1, OneShotWorks
  <2>5. ASSUME NEW k, GoesOn(j, k), k.at = "claim" => Running(r)' = {}, k.at # "route"
        PROVE  OneShot(r)'
    <3>1. \A i \in jobs' : i.r = r => i = k
      BY <1>2, <2>5 DEF GoesOn, Becomes
    <3>2. QED
      BY <1>2, <1>3, <2>2, <2>3, <2>5, <3>1, OneShotWorks
  <2>6. CASE Route(j)
    <3>1. Running(r)' = {}
      BY <1>2, <2>6 DEF Route, Running
    <3>2. PICK k : GoesOn(j, k) /\ k.at \in {"claim", "mark"}
      BY <1>1, <2>6, RouteForm
    <3>3. QED
      BY <2>5, <3>1, <3>2
  <2>7. CASE Claim(j)
    BY <1>1, <2>4, <2>5, <2>7, ClaimForm
  <2>8. CASE Invoke(j)
    BY <1>1, <2>5, <2>8, InvokeForm
  <2>9. CASE FailRun(j) \/ JobErrs(j)
    BY <1>1, <2>5, <2>9, FailedForm
  <2>10. CASE Mark(j) \/ Dropped(j)
    BY <2>4, <2>10 DEF Mark, Dropped
  <2>11. QED
    BY <1>5, <2>6, <2>7, <2>8, <2>9, <2>10 DEF JobStep
<1>6. QED
  BY <1>4, <1>5

LEMMA OneShotStep ==
  ASSUME IInv, [Next]_vars, NEW r \in Receipt \ Contracted
  PROVE  OneShot(r)'
<1>1. TypeOK /\ JobsInv /\ ReceiptInv(r) /\ OneShot(r)
  BY DEF IInv
<1>2. ASSUME NEW s \in Receipt, Accept(s) \/ Requeue(s) \/ ServicePass(s)
      PROVE  OneShot(r)'
  BY <1>1, <1>2, OneShotOfReceipts
<1>3. ASSUME NEW j \in jobs, JobStep(j) \/ JobErrs(j) \/ Dropped(j)
      PROVE  OneShot(r)'
  <2>1. JobInv(j)
    BY <1>1 DEF JobsInv
  <2>2. CASE j.r = r
    BY <1>1, <1>3, <2>2, OneShotOfItself
  <2>3. CASE j.r # r
    BY <1>1, <1>3, <2>1, <2>3, OneShotOfOthers
  <2>4. QED
    BY <2>2, <2>3
<1>4. CASE Crash
  <2>1. UNCHANGED <<runs, receipt, outbox>> /\ jobs' = {} /\ worklist' = {} /\ phase' = "down"
    BY <1>4 DEF Crash, db
  <2>2. Running(r)' = Running(r) /\ RowsOf(r)' = RowsOf(r)
    BY <2>1 DEF Running, RowsOf
  <2>3. QED
    BY <1>1, <2>1, <2>2 DEF OneShot
<1>5. CASE MarkInterrupted
  <2>1. Running(r)' = {}
    BY <1>1, <1>5, RunsInterrupted DEF TypeOK
  <2>2. UNCHANGED <<receipt, outbox, jobs>> /\ worklist' = {s \in Receipt : Running(s) # {}}
    BY <1>5 DEF MarkInterrupted
  <2>3. jobs' = {} /\ RowsOf(r)' = RowsOf(r)
    BY <1>1, <1>5, <2>2 DEF MarkInterrupted, JobsInv, RowsOf
  <2>4. QED
    BY <1>1, <2>1, <2>2, <2>3 DEF OneShot
<1>6. CASE Requeued
  <2>1. UNCHANGED <<runs, receipt, outbox, jobs, worklist>> /\ phase = "requeue" /\ phase' = "resume"
    BY <1>6 DEF Requeued, db
  <2>2. Running(r)' = Running(r) /\ RowsOf(r)' = RowsOf(r)
    BY <2>1 DEF Running, RowsOf
  <2>3. QED
    BY <1>1, <2>1, <2>2 DEF OneShot
<1>7. CASE Resume
  <2>1. PICK B : Born(B)
    BY <1>1, <1>7, BornAtBoot
  <2>2. UNCHANGED <<runs, receipt, outbox, worklist>> /\ phase = "resume" /\ phase' = "serving"
    BY <1>7 DEF Resume, db
  <2>3. Running(r)' = {} /\ RowsOf(r)' = RowsOf(r) /\ \A j \in jobs : j.r # r
    BY <1>1, <2>2 DEF OneShot, Running, RowsOf
  <2>4. \A j \in jobs' : j.r = r => j \in B
    BY <2>1, <2>3 DEF Born
  <2>5. (\A j, k \in B : j.r = k.r => j = k) /\ \A j \in B : receipt'[j.r] = "accepted"
    BY <2>1 DEF Born
  <2>6. QED
    BY <1>1, <2>2, <2>3, <2>4, <2>5 DEF OneShot
<1>8. CASE AuthorityChanges \/ UNCHANGED vars
  <2>1. UNCHANGED <<runs, receipt, outbox, jobs, worklist, phase>>
    BY <1>8 DEF AuthorityChanges, vars, db
  <2>2. Running(r)' = Running(r) /\ RowsOf(r)' = RowsOf(r)
    BY <2>1 DEF Running, RowsOf
  <2>3. QED
    BY <1>1, <2>1, <2>2, OneShotKept
<1>9. QED
  BY <1>2, <1>3, <1>4, <1>5, <1>6, <1>7, <1>8 DEF Next

-----------------------------------------------------------------------------
(* Runs and the outbox.                                                    *)

\* No step removes a run or reopens one.
LEMMA ClosedRunsStay ==
  ASSUME TypeOK, JobsInv, [Next]_vars
  PROVE  \A r \in Receipt : \A n \in DOMAIN runs[r] :
           /\ n \in DOMAIN runs'[r]
           /\ runs[r][n] # "running" => runs'[r][n] = runs[r][n]
<1> DEFINE Stay == \A r \in Receipt : \A n \in DOMAIN runs[r] :
                     /\ n \in DOMAIN runs'[r]
                     /\ runs[r][n] # "running" => runs'[r][n] = runs[r][n]
<1>1. runs \in [Receipt -> Seq(RunStatuses)]
  BY DEF TypeOK
<1>2. CASE UNCHANGED runs
  BY <1>2
<1>3. ASSUME NEW j \in jobs, Claim(j) \/ FailRun(j) \/ Complete(j)
      PROVE  Stay
  <2>1. j \in Jobs /\ j.r \in Receipt /\ JobInv(j) /\ runs[j.r] \in Seq(RunStatuses)
    BY <1>1 DEF TypeOK, Jobs, JobsInv
  <2>2. CASE Claim(j)
    <3>1. \/ UNCHANGED runs
          \/ runs' = [runs EXCEPT ![j.r] = Append(@, "running")]
      BY <2>2 DEF Claim
    <3>2. CASE runs' = [runs EXCEPT ![j.r] = Append(@, "running")]
      <4>1. /\ \A s \in Receipt : s # j.r => runs'[s] = runs[s]
            /\ \A m \in DOMAIN runs[j.r] : m \in DOMAIN runs'[j.r] /\ runs'[j.r][m] = runs[j.r][m]
        BY <1>1, <2>1, <3>2, RunsAppend
      <4>2. QED
        BY <4>1
    <3>3. QED
      BY <1>2, <3>1, <3>2
  <2>3. CASE FailRun(j) \/ Complete(j)
    <3>1. /\ j.n \in Running(j.r)
          /\ \A s \in Receipt : s # j.r => runs'[s] = runs[s]
          /\ DOMAIN runs'[j.r] = DOMAIN runs[j.r]
          /\ \A m \in DOMAIN runs[j.r] : m # j.n => runs'[j.r][m] = runs[j.r][m]
      BY <1>1, <2>1, <2>3, ClosedForm
    <3>2. runs[j.r][j.n] = "running"
      BY <3>1 DEF Running
    <3>3. QED
      BY <3>1, <3>2
  <2>4. QED
    BY <1>3, <2>2, <2>3
<1>4. CASE MarkInterrupted
  BY <1>1, <1>4, RunsInterrupted
<1>5. ASSUME NEW r \in Receipt, Accept(r) \/ Requeue(r) \/ ServicePass(r)
      PROVE  UNCHANGED runs
  BY <1>5 DEF Accept, Requeue, ServicePass, db
<1>6. ASSUME NEW j \in jobs, JobStep(j) \/ JobErrs(j) \/ Dropped(j)
      PROVE  UNCHANGED runs \/ Claim(j) \/ FailRun(j) \/ Complete(j)
  BY <1>6 DEF JobStep, JobErrs, Errs, Dropped, Route, Invoke, Mark, db
<1>7. Crash \/ Requeued \/ Resume \/ AuthorityChanges \/ UNCHANGED vars => UNCHANGED runs
  BY DEF Crash, Requeued, Resume, AuthorityChanges, vars, db
<1>8. QED
  BY <1>2, <1>3, <1>4, <1>5, <1>6, <1>7 DEF Next

\* The key of an answer is never that of a proposal.
LEMMA KeysDiffer ==
  ASSUME NEW r, NEW s, NEW x
  PROVE  AnswerKey(r) # ProposalKey(s, x)
  BY DEF AnswerKey, ProposalKey

LEMMA OutboxStep ==
  ASSUME IInv, [Next]_vars
  PROVE  OutboxInv'
<1>1. TypeOK /\ JobsInv /\ OutboxInv
  BY DEF IInv
<1>2. \A r \in Receipt : \A n \in DOMAIN runs[r] :
        /\ n \in DOMAIN runs'[r]
        /\ runs[r][n] # "running" => runs'[r][n] = runs[r][n]
  BY <1>1, ClosedRunsStay
<1>3. \A row \in outbox :
        /\ row.run \in DOMAIN runs'[row.receipt]
        /\ runs'[row.receipt][row.run] = "completed"
  <2>1. \A row \in outbox :
          /\ row.receipt \in Receipt
          /\ row.run \in DOMAIN runs[row.receipt]
          /\ runs[row.receipt][row.run] = "completed"
    BY <1>1 DEF TypeOK, OutboxInv, EffectsAreOfCompletedRuns
  <2>2. QED
    BY <1>2, <2>1
<1>4. CASE UNCHANGED outbox
  <2>1. AnswersAreOfWaiters'
    BY <1>1, <1>4 DEF OutboxInv, AnswersAreOfWaiters, AnswerKey
  <2>2. QED
    BY <1>1, <1>3, <1>4, <2>1 DEF OutboxInv, EffectsAreOfCompletedRuns, OneRowPerKey
<1>5. ASSUME NEW j \in jobs, Complete(j)
      PROVE  OutboxInv'
  <2>1. j \in Jobs /\ j.r \in Receipt /\ JobInv(j) /\ runs \in [Receipt -> Seq(RunStatuses)]
    BY <1>1 DEF TypeOK, Jobs, JobsInv
  <2>2. j.n \in DOMAIN runs'[j.r] /\ runs'[j.r][j.n] = "completed"
    BY <1>5, <2>1, ClosedForm
  <2>3. \A row \in outbox' : \/ row \in outbox
                             \/ /\ row = [key |-> row.key, receipt |-> j.r, run |-> j.n]
                                /\ \A old \in outbox : old.key # row.key
    BY <1>5 DEF Complete, EnqueueAll
  <2>4. \A row \in outbox' : /\ row.run \in DOMAIN runs'[row.receipt]
                             /\ runs'[row.receipt][row.run] = "completed"
    BY <1>3, <2>2, <2>3
  <2>5. ASSUME NEW x \in outbox', NEW y \in outbox', x.key = y.key
        PROVE  x = y
    <3>1. CASE x \in outbox /\ y \in outbox
      BY <1>1, <2>5, <3>1 DEF OutboxInv, OneRowPerKey
    <3>2. CASE x \notin outbox /\ y \notin outbox
      BY <2>3, <2>5, <3>2
    <3>3. QED
      BY <2>3, <2>5, <3>1, <3>2
  <2>6. ASSUME NEW row \in outbox', NEW r \in Receipt, row.key = AnswerKey(r)
        PROVE  row.receipt \in Waiting /\ Correlation[row.receipt] = Correlation[r]
    <3>1. CASE row \in outbox
      BY <1>1, <2>6, <3>1 DEF OutboxInv, AnswersAreOfWaiters
    <3>2. CASE row \notin outbox
      <4>1. row.receipt = j.r /\ row.key \in Requests(j)
        BY <1>5, <3>2 DEF Complete, EnqueueAll
      <4>2. j.r \in Waiting /\ AnswerKey(r) = AnswerKey(j.r)
        BY <2>6, <4>1, KeysDiffer DEF Requests
      <4>3. QED
        BY <4>1, <4>2 DEF AnswerKey
    <3>3. QED
      BY <3>1, <3>2
  <2>7. AnswersAreOfWaiters'
    BY <2>6 DEF AnswersAreOfWaiters, AnswerKey
  <2>8. QED
    BY <2>4, <2>5, <2>7 DEF OutboxInv, EffectsAreOfCompletedRuns, OneRowPerKey
<1>6. ASSUME NEW r \in Receipt, Accept(r) \/ Requeue(r) \/ ServicePass(r)
      PROVE  UNCHANGED outbox
  BY <1>6 DEF Accept, Requeue, ServicePass, db
<1>7. ASSUME NEW j \in jobs, JobStep(j) \/ JobErrs(j) \/ Dropped(j)
      PROVE  UNCHANGED outbox \/ Complete(j)
  BY <1>7 DEF JobStep, JobErrs, Errs, Dropped, Route, Claim, Invoke, FailRun, Mark, db
<1>8. Crash \/ MarkInterrupted \/ Requeued \/ Resume \/ AuthorityChanges \/ UNCHANGED vars
        => UNCHANGED outbox
  BY DEF Crash, MarkInterrupted, Requeued, Resume, AuthorityChanges, vars, db
<1>9. QED
  BY <1>4, <1>5, <1>6, <1>7, <1>8 DEF Next

-----------------------------------------------------------------------------
(* The theorems.                                                           *)

LEMMA InvInit == Init => IInv
<1> SUFFICES ASSUME Init PROVE IInv
  OBVIOUS
<1>1. TypeOK
  BY TypeInit
<1>2. \A r \in Receipt : Running(r) = {} /\ RowsOf(r) = {}
  BY RunningHasRuns DEF Init, RowsOf
<1>3. JobsInv
  BY DEF Init, JobsInv
<1>4. \A r \in Receipt : ReceiptInv(r) /\ OneShot(r)
  BY <1>2 DEF Init, ReceiptInv, OneShot
<1>5. OutboxInv
  BY DEF Init, OutboxInv, EffectsAreOfCompletedRuns, OneRowPerKey, AnswersAreOfWaiters
<1>6. QED
  BY <1>1, <1>3, <1>4, <1>5 DEF IInv

LEMMA InvStep == IInv /\ [Next]_vars => IInv'
<1> SUFFICES ASSUME IInv, [Next]_vars PROVE IInv'
  OBVIOUS
<1>1. TypeOK'
  BY TypeStep DEF IInv
<1>2. JobsInv'
  BY JobsStep
<1>3. \A r \in Receipt : ReceiptInv(r)'
  BY ReceiptStep
<1>4. \A r \in Receipt \ Contracted : OneShot(r)'
  BY OneShotStep
<1>5. OutboxInv'
  BY OutboxStep
<1>6. QED
  BY <1>1, <1>2, <1>3, <1>4, <1>5 DEF IInv

\* The invariant behind the theorems holds in every reachable state.
THEOREM Inductive == Spec => []IInv
  BY InvInit, InvStep, PTL DEF Spec

\* Every variable of the journey has its type, always.
THEOREM TypeCorrect == Spec => []TypeOK
<1>1. IInv => TypeOK
  BY DEF IInv
<1>2. QED
  BY <1>1, Inductive, PTL

\* No receipt is worked on twice at once, whatever the service worker picks up
\* again, and a job that invokes owns its run alone.
THEOREM RunsAreExclusive == Spec => []OneRunAtATime
<1>1. ASSUME IInv PROVE OneRunAtATime
  <2>1. ASSUME NEW r \in Receipt
        PROVE  Cardinality(Running(r)) <= 1
    <3>1. \A m, n \in Running(r) : m = n
      BY <1>1 DEF IInv, ReceiptInv
    <3>2. CASE Running(r) = {}
      BY <3>2, FS_EmptySet
    <3>3. CASE Running(r) # {}
      <4>1. PICK n \in Running(r) : TRUE
        BY <3>3
      <4>2. Running(r) = {n}
        BY <3>1, <4>1
      <4>3. Cardinality({n}) = 1
        BY FS_Singleton
      <4>4. QED
        BY <4>2, <4>3
    <3>4. QED
      BY <3>2, <3>3
  <2>2. \A j \in jobs : j.at \in {"invoke", "fail", "complete"} => j.n \in Running(j.r)
    BY <1>1 DEF IInv, JobsInv, JobInv, Owning
  <2>3. \A j, k \in jobs :
          j.r = k.r /\ {j.at, k.at} \subseteq {"invoke", "fail", "complete"} => j = k
    BY <1>1 DEF IInv, JobsInv, Owning
  <2>4. QED
    BY <2>1, <2>2, <2>3 DEF OneRunAtATime
<1>2. QED
  BY <1>1, Inductive, PTL

\* An idempotency key names one delivery row for ever.
THEOREM KeysAreUnique == Spec => []OneRowPerKey
<1>1. IInv => OneRowPerKey
  BY DEF IInv, OutboxInv
<1>2. QED
  BY <1>1, Inductive, PTL

\* Every effect in the outbox is of a run that completed.
THEOREM EffectsComeFromCompletion == Spec => []EffectsAreOfCompletedRuns
<1>1. IInv => EffectsAreOfCompletedRuns
  BY DEF IInv, OutboxInv
<1>2. QED
  BY <1>1, Inductive, PTL

\* Outside the service worker's reach the effects of a receipt are those of one
\* run, and the receipt is routed: it can never cause others.
THEOREM EffectsAreOfOneRun == Spec => []AllOrNothing
<1>1. IInv => AllOrNothing
  BY DEF IInv, OneShot, AllOrNothing
<1>2. QED
  BY <1>1, Inductive, PTL

\* No client that waits sees its receipt routed without the receipt's own
\* answer enqueued, unless another that waits under the same correlation id had
\* its answer enqueued first: with an id of its own, a receipt has its answer.
THEOREM AnswersAreOwed == Spec => []AnswerIsOwed
<1>1. ASSUME IInv PROVE AnswerIsOwed
  <2> SUFFICES ASSUME NEW r \in Waiting, receipt[r] = "routed"
               PROVE  HasAnswer(r) \/ \E s \in Waiting \ {r} :
                        Correlation[s] = Correlation[r] /\ HasAnswer(s)
    BY DEF AnswerIsOwed
  <2>1. r \in Receipt
    BY WaitingAssumption
  <2>2. PICK row \in outbox : row.key = AnswerKey(r)
    BY <1>1, <2>1 DEF IInv, ReceiptInv
  <2>3. row.receipt \in Waiting /\ Correlation[row.receipt] = Correlation[r]
    BY <1>1, <2>1, <2>2 DEF IInv, OutboxInv, AnswersAreOfWaiters
  <2>4. HasAnswer(row.receipt)
    BY <2>2, <2>3 DEF HasAnswer, RowsOf, AnswerKey
  <2>5. QED
    BY <2>3, <2>4
<1>2. QED
  BY <1>1, Inductive, PTL

\* No run and no verdict without a recorded decision.
THEOREM DecisionsAreRecorded == Spec => []DecidedFirst
<1>1. IInv => DecidedFirst
  BY DEF IInv, ReceiptInv, DecidedFirst
<1>2. QED
  BY <1>1, Inductive, PTL

\* Across any number of crashes, boots and passes of the service worker, a
\* closed run stays as it was closed, and a receipt routed outside that
\* worker's reach stays routed.
THEOREM NothingReopens == Spec => ClosedIsClosed
<1>1. ASSUME IInv, [Next]_vars
      PROVE  /\ \A r \in Receipt \ Contracted : receipt[r] = "routed" => receipt'[r] = "routed"
             /\ \A r \in Receipt : \A n \in DOMAIN runs[r] :
                  runs[r][n] # "running" => runs'[r][n] = runs[r][n]
  <2>1. TypeOK /\ JobsInv
    BY <1>1 DEF IInv
  <2>2. ASSUME NEW r \in Receipt \ Contracted, receipt[r] = "routed"
        PROVE  receipt'[r] = "routed"
    <3>1. r \notin worklist /\ \A j \in jobs : j.r # r
      BY <1>1, <2>2 DEF IInv, OneShot
    <3>2. ASSUME NEW s \in Receipt, Accept(s) \/ Requeue(s) \/ ServicePass(s)
          PROVE  receipt'[r] = "routed"
      BY <2>1, <2>2, <3>1, <3>2 DEF Accept, Requeue, ServicePass, TypeOK, db
    <3>3. ASSUME NEW j \in jobs, JobStep(j) \/ JobErrs(j) \/ Dropped(j)
          PROVE  receipt'[r] = "routed"
      BY <2>1, <2>2, <3>1, <3>3
         DEF JobStep, JobErrs, Errs, Dropped, Route, Claim, Invoke, FailRun, Complete, Mark,
             TypeOK, db
    <3>4. CASE Crash \/ MarkInterrupted \/ Requeued \/ Resume \/ AuthorityChanges \/ UNCHANGED vars
      BY <2>2, <3>4 DEF Crash, MarkInterrupted, Requeued, Resume, AuthorityChanges, vars, db
    <3>5. QED
      BY <1>1, <3>2, <3>3, <3>4 DEF Next
  <2>3. \A r \in Receipt : \A n \in DOMAIN runs[r] :
          runs[r][n] # "running" => runs'[r][n] = runs[r][n]
    BY <1>1, <2>1, ClosedRunsStay
  <2>4. QED
    BY <2>2, <2>3
<1>2. IInv /\ [Next]_vars =>
        [/\ \A r \in Receipt \ Contracted : receipt[r] = "routed" => receipt'[r] = "routed"
         /\ \A r \in Receipt : \A n \in DOMAIN runs[r] :
              runs[r][n] # "running" => runs'[r][n] = runs[r][n]]_vars
  BY <1>1
<1>3. QED
  BY <1>2, Inductive, PTL DEF Spec, ClosedIsClosed
=============================================================================
