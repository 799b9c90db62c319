------------------------------- MODULE Journey -------------------------------
(***************************************************************************)
(* The journey of a receipt: src/src/journey.rs with the tables of         *)
(* receipt.rs and run.rs, the decision of router.rs, the boot sequence of  *)
(* main.rs, and the service worker of services.rs, which picks up          *)
(* contracted receipts again every 15 seconds.                             *)
(*                                                                         *)
(* A job is one call of journey::process, in whichever task runs it.  Its  *)
(* database calls are its steps: another job, a crash or a dropped handler *)
(* can come between any two of them.  What becomes of an enqueued delivery *)
(* is the subject of Outbox.                                               *)
(***************************************************************************)
EXTENDS Naturals, Sequences, FiniteSets

CONSTANTS
  Receipt,      \* receipts that may ever be accepted
  Decision,     \* Receipt -> what the router decides for it
  Contracted,   \* receipts that carry a verified service context
  Waiting,      \* receipts with a return path
  Inline,       \* those of plain HTTP, processed inside the handler itself
  Correlation,  \* Receipt -> correlation id, chosen by the client
  Destination,  \* destinations a capability may propose
  Job,          \* bound on the jobs alive at once
  MaxRestarts,  \* bound on crashes
  MaxRuns,      \* bound on the runs after which a receipt is picked up again
  Drops,        \* may a handler be dropped when its client goes away?
  DbFaults      \* may a call to SQLite return an error?

Decisions == {"invoke", "defer", "quarantine", "ignore", "fail", "unregistered"}

ASSUME DecisionAssumption   == Decision \in [Receipt -> Decisions]
ASSUME ContractedAssumption ==
  Contracted \subseteq {r \in Receipt : Decision[r] = "invoke"}
ASSUME WaitingAssumption    == Inline \subseteq Waiting /\ Waiting \subseteq Receipt
ASSUME RestartsAssumption   == MaxRestarts \in Nat
ASSUME RunsAssumption       == MaxRuns \in Nat
ASSUME SwitchAssumption     == Drops \in BOOLEAN /\ DbFaults \in BOOLEAN

VARIABLES
  receipt,    \* receipts.status, "absent" before the row exists
  runs,       \* the statuses of the receipt's runs, oldest first
  recorded,   \* does route_events hold a decision about the receipt?
  outbox,     \* the deliveries enqueued: key, receipt and run
  phase,      \* where the process is in main()
  worklist,   \* receipts of interrupted runs, still to be set accepted
  jobs,       \* the calls of process() alive
  authority,  \* does the service registry's snapshot admit the contract?
  restarts    \* crashes so far

db   == <<receipt, runs, recorded, outbox>>
boot == <<phase, worklist, authority, restarts>>
vars == <<receipt, runs, recorded, outbox, phase, worklist, jobs, authority, restarts>>

Statuses    == {"accepted", "routed", "deferred", "quarantined", "ignored", "failed"}
RunStatuses == {"running", "completed", "failed", "interrupted"}
Phases      == {"down", "requeue", "resume", "serving"}
Steps       == {"route", "claim", "invoke", "fail", "complete", "mark"}

\* delivery.rs to_return_path keys the answer on the correlation; builtins.rs
\* keys a proposal on the receipt, services.rs on the receipt and the node.
AnswerKey(r)      == <<"return", Correlation[r]>>
ProposalKey(r, x) == <<"proposed", r, x>>
Keys == {AnswerKey(r) : r \in Receipt}
          \cup {ProposalKey(r, x) : r \in Receipt, x \in Destination}

Running(r) == {n \in DOMAIN runs[r] : runs[r][n] = "running"}
RowsOf(r)  == {row \in outbox : row.receipt = r}

Init ==
  /\ receipt = [r \in Receipt |-> "absent"]
  /\ runs = [r \in Receipt |-> <<>>]
  /\ recorded = [r \in Receipt |-> FALSE]
  /\ outbox = {}
  /\ phase = "serving"
  /\ worklist = {}
  /\ jobs = {}
  /\ authority \in BOOLEAN
  /\ restarts = 0

-----------------------------------------------------------------------------
(* Jobs.                                                                   *)

\* to is the status a "mark" step will write, out the proposals of the run.
NewJob(id, r, held) ==
  [id |-> id, r |-> r, held |-> held, at |-> "route", n |-> 0, to |-> "none", out |-> {}]

FreeIds == Job \ {j.id : j \in jobs}

Becomes(j, next) == jobs' = (jobs \ {j}) \cup {next}
Ends(j)          == jobs' = jobs \ {j}

\* An error inside process_inner: process() still tries to mark the receipt.
Errs(j) ==
  /\ DbFaults
  /\ Becomes(j, [j EXCEPT !.at = "mark", !.to = "failed"])
  /\ UNCHANGED <<db, boot>>

\* accept commits the receipt, and the handler calls process: inline when an
\* HTTP client waits, in a task of its own for MCP, WebSocket and ?wait=0.
Accept(r) ==
  /\ phase = "serving"
  /\ receipt[r] = "absent"
  /\ r \in Contracted => authority
  /\ receipt' = [receipt EXCEPT ![r] = "accepted"]
  /\ \E id \in FreeIds : jobs' = jobs \cup {NewJob(id, r, r \in Inline)}
  /\ UNCHANGED <<runs, recorded, outbox, boot>>

\* The status that ends each decision which does not invoke.
MarkOf ==
  [defer |-> "deferred", quarantine |-> "quarantined", ignore |-> "ignored",
   fail |-> "failed", unregistered |-> "failed"]

\* Mutant: the name of the action is written instead of the status.
RouteByAction(j) ==
  /\ j.at = "route"
  /\ recorded' = [recorded EXCEPT ![j.r] = TRUE]
  /\ IF Decision[j.r] = "invoke"
     THEN Becomes(j, [j EXCEPT !.at = "claim"])
     ELSE Becomes(j, [j EXCEPT !.at = "mark", !.to = Decision[j.r]])
  /\ UNCHANGED <<receipt, runs, outbox, boot>>

\* The receipt is loaded, a decision taken (a contracted one is always
\* invoked) and recorded.
Route(j) ==
  /\ j.at = "route"
  /\ recorded' = [recorded EXCEPT ![j.r] = TRUE]
  /\ IF Decision[j.r] = "invoke"
     THEN Becomes(j, [j EXCEPT !.at = "claim"])
     ELSE Becomes(j, [j EXCEPT !.at = "mark", !.to = MarkOf[Decision[j.r]]])
  /\ UNCHANGED <<receipt, runs, outbox, boot>>

\* Mutant: a contracted receipt is run again while it is running.
ClaimAnyway(j) ==
  /\ j.at = "claim"
  /\ runs' = [runs EXCEPT ![j.r] = Append(@, "running")]
  /\ Becomes(j, [j EXCEPT !.at = "invoke", !.n = Len(runs[j.r]) + 1])
  /\ UNCHANGED <<receipt, recorded, outbox, boot>>

\* One transaction creates the run, unless a contracted receipt has one
\* running: then the job is over, and leaves the receipt as it is.
Claim(j) ==
  /\ j.at = "claim"
  /\ IF j.r \in Contracted /\ Running(j.r) # {}
     THEN /\ Ends(j)
          /\ UNCHANGED runs
     ELSE /\ runs' = [runs EXCEPT ![j.r] = Append(@, "running")]
          /\ Becomes(j, [j EXCEPT !.at = "invoke", !.n = Len(runs[j.r]) + 1])
  /\ UNCHANGED <<receipt, recorded, outbox, boot>>

\* The capability returns an error, or a result and its proposals.  A graph
\* asks for authority before each node.
Invoke(j) ==
  /\ j.at = "invoke"
  /\ \/ Becomes(j, [j EXCEPT !.at = "fail"])
     \/ /\ j.r \in Contracted => authority
        /\ \E out \in SUBSET Destination :
             Becomes(j, [j EXCEPT !.at = "complete", !.out = out])
  /\ UNCHANGED <<db, boot>>

\* run::fail, and then the receipt in a call of its own.
FailRun(j) ==
  /\ j.at = "fail"
  /\ runs' = [runs EXCEPT ![j.r][j.n] = "failed"]
  /\ Becomes(j, [j EXCEPT !.at = "mark", !.to = "failed"])
  /\ UNCHANGED <<receipt, recorded, outbox, boot>>

Requests(j) ==
  {ProposalKey(j.r, x) : x \in j.out}
    \cup (IF j.r \in Waiting THEN {AnswerKey(j.r)} ELSE {})

\* delivery::enqueue of each request; a key that has a row is left alone.
EnqueueAll(j) ==
  outbox' = outbox \cup {[key |-> k, receipt |-> j.r, run |-> j.n] :
                           k \in {q \in Requests(j) : \A row \in outbox : row.key # q}}

\* Mutant: the deliveries are committed before, and without, the run.
CompleteInTwo(j) ==
  /\ j.at = "complete"
  /\ EnqueueAll(j)
  /\ Becomes(j, [j EXCEPT !.at = "mark", !.to = "routed"])
  /\ UNCHANGED <<receipt, runs, recorded, boot>>

\* Mutant: the receipt is routed, the answer forgotten.
CompleteSilently(j) ==
  /\ j.at = "complete"
  /\ runs' = [runs EXCEPT ![j.r][j.n] = "completed"]
  /\ receipt' = [receipt EXCEPT ![j.r] = "routed"]
  /\ Ends(j)
  /\ UNCHANGED <<recorded, outbox, boot>>

\* One transaction: the proposals and the answer are enqueued, the run is
\* completed, and the receipt is routed.
Complete(j) ==
  /\ j.at = "complete"
  /\ EnqueueAll(j)
  /\ runs' = [runs EXCEPT ![j.r][j.n] = "completed"]
  /\ receipt' = [receipt EXCEPT ![j.r] = "routed"]
  /\ Ends(j)
  /\ UNCHANGED <<recorded, boot>>

\* The last write of a job that did not complete.  If it fails the error is
\* logged or ignored, and the receipt stays as it was.
Mark(j) ==
  /\ j.at = "mark"
  /\ \/ receipt' = [receipt EXCEPT ![j.r] = j.to]
     \/ DbFaults /\ UNCHANGED receipt
  /\ Ends(j)
  /\ UNCHANGED <<runs, recorded, outbox, boot>>

\* The client goes away and its handler is dropped, with the job inside it.
Dropped(j) ==
  /\ Drops
  /\ j.held
  /\ Ends(j)
  /\ UNCHANGED <<db, boot>>

-----------------------------------------------------------------------------
(* Crash, boot, and the service worker.                                    *)

Crash ==
  /\ phase # "down"
  /\ restarts < MaxRestarts
  /\ phase' = "down"
  /\ worklist' = {}
  /\ jobs' = {}
  /\ restarts' = restarts + 1
  /\ UNCHANGED <<db, authority>>

\* Mutants: the runs of the dead process stay running; or every run is closed
\* again, the WHERE clause forgotten.
MarkNothing ==
  /\ phase = "down"
  /\ phase' = "requeue"
  /\ worklist' = {r \in Receipt : Running(r) # {}}
  /\ UNCHANGED <<receipt, runs, recorded, outbox, jobs, authority, restarts>>

\* run::mark_interrupted, the first thing a new process does.
MarkInterrupted ==
  /\ phase = "down"
  /\ phase' = "requeue"
  /\ worklist' = {r \in Receipt : Running(r) # {}}
  /\ runs' = [r \in Receipt |-> [n \in DOMAIN runs[r] |->
                IF n \in Running(r) THEN "interrupted" ELSE runs[r][n]]]
  /\ UNCHANGED <<receipt, recorded, outbox, jobs, authority, restarts>>

\* Each receipt on the list is set accepted in a call of its own; an error is
\* ignored.
Requeue(r) ==
  /\ phase = "requeue"
  /\ r \in worklist
  /\ worklist' = worklist \ {r}
  /\ \/ receipt' = [receipt EXCEPT ![r] = "accepted"]
     \/ DbFaults /\ UNCHANGED receipt
  /\ UNCHANGED <<runs, recorded, outbox, phase, jobs, authority, restarts>>

\* delivery::recover runs here, in Outbox.
Requeued ==
  /\ phase = "requeue"
  /\ worklist = {}
  /\ phase' = "resume"
  /\ UNCHANGED <<db, worklist, jobs, authority, restarts>>

Unfinished == {r \in Receipt : receipt[r] = "accepted"}

\* Mutant: the worklist is read and thrown away.
ResumeNothing ==
  /\ phase = "resume"
  /\ phase' = "serving"
  /\ UNCHANGED <<db, worklist, jobs, authority, restarts>>

\* receipt::unfinished; a job is spawned, and not awaited, for each receipt
\* (a contracted one only under current authority), and the listener binds.
Resume ==
  /\ phase = "resume"
  /\ phase' = "serving"
  /\ LET again == {r \in Unfinished : r \in Contracted => authority}
     IN \E id \in [again -> FreeIds] :
          /\ \A r, s \in again : id[r] = id[s] => r = s
          /\ jobs' = jobs \cup {NewJob(id[r], r, FALSE) : r \in again}
  /\ UNCHANGED <<db, worklist, authority, restarts>>

\* One receipt of a pass of services::worker.
ServicePass(r) ==
  /\ phase # "down"
  /\ authority
  /\ r \in Contracted \cap Unfinished
  /\ Len(runs[r]) < MaxRuns
  /\ \E id \in FreeIds : jobs' = jobs \cup {NewJob(id, r, FALSE)}
  /\ UNCHANGED <<db, boot>>

\* A refreshed snapshot admits the contract or no longer does, or expires.
AuthorityChanges ==
  /\ Contracted # {}
  /\ authority' = ~authority
  /\ UNCHANGED <<db, phase, worklist, jobs, restarts>>

-----------------------------------------------------------------------------
JobStep(j) ==
  \/ Route(j) \/ Claim(j) \/ Invoke(j)
  \/ FailRun(j) \/ Complete(j) \/ Mark(j)

JobErrs(j) == j.at \in {"route", "claim", "fail", "complete"} /\ Errs(j)

Next ==
  \/ \E r \in Receipt : Accept(r) \/ Requeue(r) \/ ServicePass(r)
  \/ \E j \in jobs : JobStep(j) \/ JobErrs(j) \/ Dropped(j)
  \/ Crash \/ MarkInterrupted \/ Requeued \/ Resume
  \/ AuthorityChanges

Spec == Init /\ [][Next]_vars

\* Tokio polls every task and a capability returns or times out; the service
\* manager restarts a dead process and boot goes on; the worker's passes meet
\* an authority that keeps coming back.
Fairness ==
  /\ WF_vars(MarkInterrupted)
  /\ WF_vars(\E r \in Receipt : Requeue(r))
  /\ WF_vars(Requeued)
  /\ WF_vars(Resume)
  /\ \A id \in Job : WF_vars(\E j \in jobs : j.id = id /\ JobStep(j))
  /\ \A r \in Contracted : SF_vars(ServicePass(r))

FairSpec == Spec /\ Fairness

-----------------------------------------------------------------------------
(* Properties.                                                             *)

Jobs == [id : Job, r : Receipt, held : BOOLEAN, at : Steps, n : Nat,
         to : Statuses \cup {"none"}, out : SUBSET Destination]

\* Every variable has its type.
TypeOK ==
  /\ receipt \in [Receipt -> Statuses \cup {"absent"}]
  /\ runs \in [Receipt -> Seq(RunStatuses)]
  /\ recorded \in [Receipt -> BOOLEAN]
  /\ outbox \subseteq [key : Keys, receipt : Receipt, run : Nat \ {0}]
  /\ phase \in Phases
  /\ worklist \subseteq Receipt
  /\ jobs \subseteq Jobs
  /\ authority \in BOOLEAN
  /\ restarts \in 0..MaxRestarts

\* A receipt is never worked on twice at once: it has at most one running run,
\* and a job that invokes owns it, alone, until it closes it.
OneRunAtATime ==
  /\ \A r \in Receipt : Cardinality(Running(r)) <= 1
  /\ \A j \in jobs : j.at \in {"invoke", "fail", "complete"} => j.n \in Running(j.r)
  /\ \A j, k \in jobs :
       j.r = k.r /\ {j.at, k.at} \subseteq {"invoke", "fail", "complete"} => j = k

\* No two delivery rows share an idempotency key, however often a receipt is
\* run again.
OneRowPerKey == \A x, y \in outbox : x.key = y.key => x = y

\* An effect leaves only on behalf of a run that completed, never of one that
\* failed, was interrupted, or may still fail.
EffectsAreOfCompletedRuns ==
  \A row \in outbox : runs[row.receipt][row.run] = "completed"

\* Outside the service worker's reach, all the deliveries of a receipt come
\* from one run, and the receipt is routed: one that failed or is to be run
\* again has caused nothing.
AllOrNothing ==
  \A r \in Receipt \ Contracted :
    RowsOf(r) # {} =>
      /\ receipt[r] = "routed"
      /\ \A x, y \in RowsOf(r) : x.run = y.run

\* The receipt's own answer is in the outbox.
HasAnswer(r) == \E row \in RowsOf(r) : row.key = AnswerKey(r)

\* A receipt routed while its client waits has its own answer in the outbox,
\* unless another receipt of the same correlation id, whose client waits too,
\* had its answer there first: enqueue takes the two for one logical effect
\* (SPEC section 6), and the later answer is dropped.
AnswerIsOwed ==
  \A r \in Waiting :
    receipt[r] = "routed" =>
      \/ HasAnswer(r)
      \/ \E s \in Waiting \ {r} : Correlation[s] = Correlation[r] /\ HasAnswer(s)

\* Every decision is on record before it is acted on: before a run, and before
\* a status other than the one a failed database call leaves behind.
DecidedFirst ==
  \A r \in Receipt :
    runs[r] # <<>> \/ receipt[r] \notin {"absent", "accepted", "failed"} => recorded[r]

Orphan(r) == receipt[r] = "accepted" /\ \A j \in jobs : j.r # r

\* A receipt is not lost: when a process starts to serve, every accepted
\* receipt outside the service worker's reach is being processed, and while it
\* serves one only ceases to be when its handler is dropped with it.
NothingForgotten ==
  [][phase' = "serving" /\ ~DbFaults =>
       \A r \in Receipt \ Contracted : Orphan(r)' =>
         /\ phase = "serving"
         /\ Orphan(r) \/ \E j \in jobs : j.r = r /\ j.held]_vars

\* Outside the service worker's reach a routed receipt stays routed, and
\* a closed run stays closed.
ClosedIsClosed ==
  [][/\ \A r \in Receipt \ Contracted : receipt[r] = "routed" => receipt'[r] = "routed"
     /\ \A r \in Receipt : \A n \in DOMAIN runs[r] :
          runs[r][n] # "running" => runs'[r][n] = runs[r][n]]_vars

\* Contracted work waits for authority, and is decided if authority keeps
\* coming back.
AuthorityDecides ==
  \A r \in Contracted \ Inline :
    []<>authority => (receipt[r] = "accepted" ~> receipt[r] # "accepted")

\* SPEC section 7: new work is never admitted ahead of work already accepted.
\* (Where every job is born in a handler, one outside is one resumed at boot.)
OldWorkFirst ==
  [][\A r \in Receipt :
       Inline = Receipt /\ receipt[r] = "absent" /\ receipt'[r] = "accepted" =>
         \A j \in jobs : j.held]_vars
=============================================================================
