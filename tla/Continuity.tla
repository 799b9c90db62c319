------------------------------ MODULE Continuity ------------------------------
(***************************************************************************)
(* The graphs of contracted services: InvokeService::invoke and advance of *)
(* src/src/services.rs with their child process src/runtime/run_graph.py.  *)
(* A receipt is run as a graph of acts.  The graph lives in a checkpoint   *)
(* of its own database, keyed by the receipt; Antenna asks a fresh child   *)
(* to advance it, performs the act the child asks for, and hands the       *)
(* result to the next child, which records it.  The act and its record are *)
(* two steps in two processes, and authority can be withdrawn between any  *)
(* two of them.                                                            *)
(*                                                                         *)
(* A receipt has one job at a time (OneRunAtATime of Journey).  The parts  *)
(* of a state that no property tells apart are left out: parameters,       *)
(* results, and the reasons an act is refused for (capability,             *)
(* destination, size), which all end the run as Errs does.  The loop's     *)
(* bound of 65 steps cannot be met by an acyclic graph of 32 nodes.        *)
(***************************************************************************)
EXTENDS Naturals, Sequences, FiniteSets

CONSTANTS
  Receipt,     \* contracted receipts
  Node,        \* names a drawing may use
  End,         \* the explicit END
  None,        \* no snapshot, no checkpoint, nothing to resume
  Revision,    \* accepted programs: terms_sha256 with definition_sha256
  Drawing,     \* Revision -> the graph of its definition
  Workers,     \* permits of the semaphore, 4 in the code
  MaxCrashes   \* bound on crashes

Drawings ==
  [nodes : SUBSET Node, start : Node,
   next : [Node -> (SUBSET (Node \cup {End})) \ {{}}]]

ASSUME NodeAssumption    == IsFiniteSet(Node) /\ End \notin Node /\ None \notin Node
ASSUME EndAssumption     == End # None
ASSUME NoneAssumption    == None \notin [node : Node, act : Nat \ {0}]
ASSUME ReceiptAssumption == IsFiniteSet(Receipt)
ASSUME DrawingAssumption == None \notin Revision /\ Drawing \in [Revision -> Drawings]
ASSUME WorkersAssumption == Workers \in Nat \ {0}
ASSUME CrashAssumption   == MaxCrashes \in Nat

VARIABLES
  authority,   \* the revision the current snapshot binds, or None
  proof,       \* receipts.relationships.service: the revision admitted under
  outcome,     \* receipts.status: "none", "open", "completed", "failed"
  at,          \* where the job of a receipt is
  program,     \* b.definition of the invocation
  resume,      \* request["resume"]: the act done and not yet recorded
  asked,       \* the node whose act the last child asked for
  out,         \* the path the last child reported as completed
  orphans,     \* requests of children that outlived their Antenna
  checkpoint,  \* continuity.db: the recorded acts and the suspended node
  committed,   \* the acts whose proposals were committed, in graph order
  acted,       \* history: the nodes acted at, in order
  late,        \* history: acts since the authority of a receipt was lost
  hits,        \* history: crashes that found a job of the receipt
  crashes      \* crashes so far

job     == <<at, program, resume, asked, out>>
history == <<acted, late, hits>>
vars    == <<authority, proof, outcome, at, program, resume, asked, out, orphans,
             checkpoint, committed, acted, late, hits, crashes>>

Acts    == [node : Node, act : Nat \ {0}]
Phases  == {"none", "waiting", "ready", "advancing", "acting", "completing", "lost"}
Outcomes == {"none", "open", "completed", "failed"}

Empty == [path |-> <<>>, at |-> None, whole |-> TRUE]

\* The rules of advance for a drawing.  visit() is a depth-first search: it
\* raises at a cycle, and leaves unvisited what the start does not reach.
Acyclic(d) ==
  \E rank \in [d.nodes -> 1 .. Cardinality(d.nodes)] :
    \A n \in d.nodes : \A m \in d.next[n] \ {End} : rank[m] < rank[n]

Reached(d) ==
  \A S \in SUBSET d.nodes :
    (d.start \in S /\ \A n \in S : d.next[n] \ {End} \subseteq S) => S = d.nodes

Closed(d) == d.start \in d.nodes /\ \A n \in d.nodes : d.next[n] \subseteq d.nodes \cup {End}

Sound(d) == Closed(d) /\ Acyclic(d) /\ Reached(d)

SoundPrograms == {v \in Revision : Sound(Drawing[v])}

\* ServiceRegistry::authorize: the snapshot binds the contract, unexpired, at
\* the very revision the receipt was admitted under.
Authorize(r) == authority = proof[r]

Init ==
  /\ authority \in Revision \cup {None}
  /\ proof      = [r \in Receipt |-> None]
  /\ outcome    = [r \in Receipt |-> "none"]
  /\ at         = [r \in Receipt |-> "none"]
  /\ program    = [r \in Receipt |-> None]
  /\ resume     = [r \in Receipt |-> None]
  /\ asked      = [r \in Receipt |-> None]
  /\ out        = [r \in Receipt |-> <<>>]
  /\ orphans    = {}
  /\ checkpoint = [r \in Receipt |-> Empty]
  /\ committed  = [r \in Receipt |-> <<>>]
  /\ acted      = [r \in Receipt |-> <<>>]
  /\ late       = [r \in Receipt |-> 0]
  /\ hits       = [r \in Receipt |-> 0]
  /\ crashes    = 0

-----------------------------------------------------------------------------
(* Authority and admission.                                                *)

\* install replaces the snapshot, or it expires: the revision bound changes,
\* or none is bound any more.
AuthorityChanges ==
  /\ authority' \in (Revision \cup {None}) \ {authority}
  /\ late' = [r \in Receipt |-> IF authority' = proof[r] THEN 0 ELSE late[r]]
  /\ UNCHANGED <<proof, outcome, job, orphans, checkpoint, committed, acted, hits, crashes>>

\* admit and accept: the receipt carries the proof, and its job starts.
Admit(r) ==
  /\ outcome[r] = "none"
  /\ authority # None
  /\ proof'   = [proof EXCEPT ![r] = authority]
  /\ outcome' = [outcome EXCEPT ![r] = "open"]
  /\ at'      = [at EXCEPT ![r] = "waiting"]
  /\ UNCHANGED <<authority, program, resume, asked, out, orphans, checkpoint,
                 committed, history, crashes>>

\* recover and the service worker: an unfinished receipt is processed again
\* while its authority holds, and left alone otherwise.
Begin(r) ==
  /\ outcome[r] = "open" /\ at[r] = "none"
  /\ Authorize(r)
  /\ at' = [at EXCEPT ![r] = "waiting"]
  /\ UNCHANGED <<authority, proof, outcome, program, resume, asked, out, orphans,
                 checkpoint, committed, history, crashes>>

-----------------------------------------------------------------------------
(* One invocation.                                                         *)

\* The permit is a guard of invoke: it is held until invoke returns, and
\* given back when its future is dropped.
\* Mutant: a dropped future keeps its permit.
HoldingLost == {r \in Receipt : at[r] \in {"ready", "advancing", "acting", "lost"}}

Holding == {r \in Receipt : at[r] \in {"ready", "advancing", "acting"}}

\* Mutant: no permit is asked for.
PermitAlways == TRUE

Permit == Cardinality(Holding) < Workers

Enter(r) ==
  /\ at[r] = "waiting"
  /\ Permit
  /\ Authorize(r)
  /\ at'      = [at EXCEPT ![r] = "ready"]
  /\ program' = [program EXCEPT ![r] = authority]
  /\ resume'  = [resume EXCEPT ![r] = None]
  /\ UNCHANGED <<authority, proof, outcome, asked, out, orphans, checkpoint,
                 committed, history, crashes>>

\* Mutant: authority is asked once, on entry.
AdvanceUnasked(r) ==
  /\ at[r] = "ready"
  /\ at' = [at EXCEPT ![r] = "advancing"]
  /\ UNCHANGED <<authority, proof, outcome, program, resume, asked, out, orphans,
                 checkpoint, committed, history, crashes>>

\* The authority is asked again before each step, and a child is started.
Advance(r) ==
  /\ at[r] = "ready"
  /\ Authorize(r)
  /\ at' = [at EXCEPT ![r] = "advancing"]
  /\ UNCHANGED <<authority, proof, outcome, program, resume, asked, out, orphans,
                 checkpoint, committed, history, crashes>>

\* Mutant: a result is recorded for whichever node is suspended.
RefusesNoOther(c, v, done) ==
  \/ v \notin SoundPrograms
  \/ done # None /\ c.at \in {None, End}
  \/ done = None /\ ~ c.whole

\* run_graph.advance raises instead of advancing: the drawing is unsound, the
\* result to record is not of the node the checkpoint is suspended at, or the
\* checkpoint is unfinished without a capability request.
Refuses(c, v, done) ==
  \/ v \notin SoundPrograms
  \/ done # None /\ done.node # c.at
  \/ done = None /\ ~ c.whole

\* What run_graph.advance leaves in the checkpoint: a result recorded and the
\* next node suspended, a graph begun, or what was there.
Advanced(c, v, done) ==
  IF done # None
  THEN {[path |-> Append(c.path, done), at |-> m, whole |-> TRUE] :
          m \in Drawing[v].next[c.at]}
  ELSE IF c.at = None THEN {[c EXCEPT !.at = Drawing[v].start]} ELSE {c}

\* What a child that is killed may leave: LangGraph saves a step before it runs
\* the next node, whose request is then missing.
Left(c, v, done) ==
  {c} \cup (IF Refuses(c, v, done) THEN {}
            ELSE Advanced(c, v, done) \cup
                 {[n EXCEPT !.whole = FALSE] : n \in {e \in Advanced(c, v, done) : e.at # End}})

\* Mutant: a completed graph reports the proposals of its last node only.
ReportLast(c) == IF c.path = <<>> THEN <<>> ELSE <<c.path[Len(c.path)]>>

Report(c) == c.path

\* The child advances the checkpoint and answers: act at this node, or done.
Work(r) ==
  /\ at[r] = "advancing"
  /\ ~ Refuses(checkpoint[r], program[r], resume[r])
  /\ \E c \in Advanced(checkpoint[r], program[r], resume[r]) :
       /\ checkpoint' = [checkpoint EXCEPT ![r] = c]
       /\ IF c.at = End
          THEN /\ at'  = [at EXCEPT ![r] = "completing"]
               /\ out' = [out EXCEPT ![r] = Report(c)]
               /\ UNCHANGED asked
          ELSE /\ at'    = [at EXCEPT ![r] = "acting"]
               /\ asked' = [asked EXCEPT ![r] = c.at]
               /\ UNCHANGED out
  /\ UNCHANGED <<authority, proof, outcome, program, resume, orphans, committed,
                 history, crashes>>

\* Mutant: the result is not put into the next request.
ActUnrecorded(r) ==
  /\ at[r] = "acting"
  /\ acted' = [acted EXCEPT ![r] = Append(@, asked[r])]
  /\ late'  = [late EXCEPT ![r] = IF Authorize(r) THEN 0 ELSE @ + 1]
  /\ asked' = [asked EXCEPT ![r] = None]
  /\ at'    = [at EXCEPT ![r] = "ready"]
  /\ UNCHANGED <<authority, proof, outcome, program, resume, out, orphans,
                 checkpoint, committed, hits, crashes>>

\* The capability is invoked; its result waits for the next child.
Act(r) ==
  /\ at[r] = "acting"
  /\ acted'  = [acted EXCEPT ![r] = Append(@, asked[r])]
  /\ late'   = [late EXCEPT ![r] = IF Authorize(r) THEN 0 ELSE @ + 1]
  /\ resume' = [resume EXCEPT ![r] = [node |-> asked[r], act |-> Len(acted[r]) + 1]]
  /\ asked'  = [asked EXCEPT ![r] = None]
  /\ at'     = [at EXCEPT ![r] = "ready"]
  /\ UNCHANGED <<authority, proof, outcome, program, out, orphans,
                 checkpoint, committed, hits, crashes>>

\* invoke returns or is dropped, and its locals with it.
Leave(r, phase) ==
  /\ at'      = [at EXCEPT ![r] = phase]
  /\ program' = [program EXCEPT ![r] = None]
  /\ resume'  = [resume EXCEPT ![r] = None]
  /\ asked'   = [asked EXCEPT ![r] = None]
  /\ out'     = [out EXCEPT ![r] = <<>>]

\* Journey's Complete: the proposals of all nodes and the receipt's status in
\* one transaction, each under the key service:<receipt>:<node>.
Commit(r) ==
  /\ at[r] = "completing"
  /\ outcome'   = [outcome EXCEPT ![r] = "completed"]
  /\ committed' = [committed EXCEPT ![r] = out[r]]
  /\ Leave(r, "none")
  /\ UNCHANGED <<authority, proof, orphans, checkpoint, history, crashes>>

Fail(r) ==
  /\ outcome' = [outcome EXCEPT ![r] = "failed"]
  /\ Leave(r, "none")
  /\ UNCHANGED <<authority, proof, orphans, checkpoint, committed, history, crashes>>

\* authorize refuses, at the door or before a step: the run fails for good.
Denied(r) ==
  /\ at[r] = "ready" \/ (at[r] = "waiting" /\ Permit)
  /\ ~ Authorize(r)
  /\ Fail(r)

\* The child refuses, answers nonsense or too much, or does not answer in 30
\* seconds; or the act is refused or fails.
Errs(r) == at[r] \in {"advancing", "acting"} /\ Fail(r)

\* The future is dropped with its connection, or the database errs: the run
\* stays open under a receipt nobody works on, and the child is killed.
Dropped(r) ==
  /\ at[r] \notin {"none", "lost"}
  /\ Leave(r, "lost")
  /\ \E c \in IF at[r] = "advancing" THEN Left(checkpoint[r], program[r], resume[r])
            ELSE {checkpoint[r]} : checkpoint' = [checkpoint EXCEPT ![r] = c]
  /\ UNCHANGED <<authority, proof, outcome, orphans, committed, history, crashes>>

-----------------------------------------------------------------------------
(* Crashes.                                                                *)

\* A dead Antenna kills no child: those that had their request go on with it.
Crash ==
  /\ crashes < MaxCrashes
  /\ crashes' = crashes + 1
  /\ orphans' = orphans \cup
       {[r |-> r, program |-> program[r], resume |-> resume[r]] :
          r \in {s \in Receipt : at[s] = "advancing"}}
  /\ hits'   = [r \in Receipt |-> IF at[r] = "none" THEN hits[r] ELSE hits[r] + 1]
  /\ at'     = [r \in Receipt |-> "none"]
  /\ program' = [r \in Receipt |-> None]
  /\ resume' = [r \in Receipt |-> None]
  /\ asked'  = [r \in Receipt |-> None]
  /\ out'    = [r \in Receipt |-> <<>>]
  /\ UNCHANGED <<authority, proof, outcome, checkpoint, committed, acted, late>>

\* The orphan advances the checkpoint, and its answer goes nowhere.
OrphanWorks(o) ==
  /\ ~ Refuses(checkpoint[o.r], o.program, o.resume)
  /\ \E c \in Advanced(checkpoint[o.r], o.program, o.resume) :
       checkpoint' = [checkpoint EXCEPT ![o.r] = c]
  /\ orphans' = orphans \ {o}
  /\ UNCHANGED <<authority, proof, outcome, job, committed, history, crashes>>

OrphanDies(o) ==
  /\ \E c \in Left(checkpoint[o.r], o.program, o.resume) :
       checkpoint' = [checkpoint EXCEPT ![o.r] = c]
  /\ orphans' = orphans \ {o}
  /\ UNCHANGED <<authority, proof, outcome, job, committed, history, crashes>>

JobStep(r) == Enter(r) \/ Denied(r) \/ Advance(r) \/ Work(r) \/ Act(r) \/ Commit(r)

Next ==
  \/ AuthorityChanges \/ Crash
  \/ \E r \in Receipt : Admit(r) \/ Begin(r) \/ JobStep(r) \/ Errs(r) \/ Dropped(r)
  \/ \E o \in orphans : OrphanWorks(o) \/ OrphanDies(o)

Spec == Init /\ [][Next]_vars

\* A job goes on: its awaits are a fair semaphore's, a capability's, and a
\* child's that is given 30 seconds.
FairSpec == Spec /\ \A r \in Receipt : WF_vars(JobStep(r) \/ Errs(r))

-----------------------------------------------------------------------------
(* Properties.                                                             *)

Requests == [node : Node, act : Nat \ {0}] \cup {None}

\* Every variable has its type, and at most Workers graphs hold a permit
\* (ServiceRegistry::workers), however invocations end.
TypeOK ==
  /\ authority \in Revision \cup {None}
  /\ proof \in [Receipt -> Revision \cup {None}]
  /\ outcome \in [Receipt -> Outcomes]
  /\ at \in [Receipt -> Phases]
  /\ program \in [Receipt -> Revision \cup {None}]
  /\ resume \in [Receipt -> Requests]
  /\ asked \in [Receipt -> Node \cup {None}]
  /\ out \in [Receipt -> Seq(Acts)]
  /\ orphans \subseteq [r : Receipt, program : Revision \cup {None}, resume : Requests]
  /\ checkpoint \in [Receipt -> [path : Seq(Acts), at : Node \cup {End, None}, whole : BOOLEAN]]
  /\ committed \in [Receipt -> Seq(Acts)]
  /\ acted \in [Receipt -> Seq(Node)]
  /\ late \in [Receipt -> Nat]
  /\ hits \in [Receipt -> Nat]
  /\ crashes \in Nat
  /\ Cardinality(Holding) <= Workers

\* A path of acts that drawing d prescribes, suspended at node m.
IsPath(path, m, d) ==
  /\ m = (IF path = <<>> THEN d.start ELSE m)
  /\ path # <<>> => path[1].node = d.start /\ m \in d.next[path[Len(path)].node]
  /\ \A i \in 1 .. Len(path) - 1 : path[i + 1].node \in d.next[path[i].node]

\* What a checkpoint holds is always a run of the very program its receipt
\* was admitted under, each result being of an act done for this receipt at
\* that node: across crashes, children that outlive their Antenna, and
\* revisions that change between two steps ("Recovery reuses the receipt's
\* graph checkpoint and rechecks current authority",
\* docs/SERVICE_OPERATIONS.md:103).
PathOfProgram ==
  \A r \in Receipt : LET c == checkpoint[r] IN
    IF c.at = None THEN c.path = <<>>
    ELSE /\ proof[r] \in SoundPrograms
         /\ IsPath(c.path, c.at, Drawing[proof[r]])
         /\ \A i \in 1 .. Len(c.path) :
              c.path[i].act \in DOMAIN acted[r] /\ acted[r][c.path[i].act] = c.path[i].node

\* A node is acted at once, and once more for each crash that found a job of
\* the receipt: an act is lost only between invoking the capability and the
\* child that records it ("completed store is not repeated",
\* runtime/test_run_graph.py:38).
RepeatsAreInterrupted ==
  \A r \in Receipt : \A n \in Node :
    Cardinality({i \in DOMAIN acted[r] : acted[r][i] = n}) <= 1 + hits[r]

\* After its authority is gone a receipt acts at most once more, with the step
\* that was already being asked for: invoke authorizes before each child and
\* not before the act ("Expiration or revocation stops new contract work",
\* docs/SERVICE_OPERATIONS.md:110).
LateActs == \A r \in Receipt : late[r] <= 1

\* A completed receipt commits the proposals of the whole run of its graph, to
\* its END and in order, whichever invocations did the acts, and no two of
\* them under one key: a repeated service:<receipt>:<node> would be dropped by
\* enqueue without a word.
NothingProposedIsLost ==
  \A r \in Receipt : outcome[r] = "completed" =>
    /\ checkpoint[r].at = End
    /\ committed[r] = checkpoint[r].path
    /\ \A i, j \in DOMAIN committed[r] :
         i # j => committed[r][i].node # committed[r][j].node

\* Every invocation under way ends, unless its future is dropped: none waits
\* for ever for a permit, a child or an act.
Ends ==
  \A r \in Receipt : at[r] \notin {"none", "lost"} ~> at[r] \in {"none", "lost"}
=============================================================================
