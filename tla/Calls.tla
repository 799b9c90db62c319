-------------------------------- MODULE Calls --------------------------------
(***************************************************************************)
(* Clients that wait for an answer: the handlers of src/src/ingress/http.rs*)
(* and mcp.rs, the connections of websocket.rs, the registry of return     *)
(* paths in returnpath.rs, and the part of delivery.rs that hands an       *)
(* answer back through it.                                                 *)
(*                                                                         *)
(* Journey.tla is seen from outside: journey::process of a call ends with  *)
(* or without its answer enqueued.  So is Outbox.tla: the retries of a     *)
(* row, its refusals and the errors of statements are left out.  Requests  *)
(* with wait=0 have no return path, and are left out too.                  *)
(***************************************************************************)
EXTENDS Naturals, Sequences, FiniteSets

CONSTANTS
  Call,        \* requests over HTTP and MCP, and messages over WebSockets
  Kind,        \* Call -> "http", "mcp" or "message"
  Socket,      \* WebSocket connections
  On,          \* Call -> the connection of a message
  Correlation, \* correlation ids
  Cor,         \* Call -> its correlation id
  Contracted,  \* calls with a service context, which the service worker runs too
  Casts,       \* choices of the calls whose clients ask
  None,        \* no call
  MaxFaults    \* bound on crashes, lost messages, and ends of clients and sinks

Messages == {c \in Call : Kind[c] = "message"}
Requests == Call \ Messages

ASSUME KindAssumption   == Kind \in [Call -> {"http", "mcp", "message"}]
ASSUME OnAssumption     == On \in [Call -> Socket]
ASSUME NoneAssumption   == None \notin Call \cup Socket /\ Call \cap Socket = {}
ASSUME FaultsAssumption == MaxFaults \in Nat
ASSUME ContractedAssumption == Contracted \subseteq Call
ASSUME CastsAssumption == Casts \subseteq SUBSET Call
\* Antenna chooses the ids of MCP calls and messages, an HTTP client its own.
ASSUME CorAssumption ==
  /\ Cor \in [Call -> Correlation]
  /\ \A c, d \in Call : Cor[c] = Cor[d] /\ c # d => "http" \in {Kind[c], Kind[d]}

Path(c) == IF c \in Messages THEN <<"websocket", On[c]>> ELSE <<Kind[c], Cor[c]>>
Paths   == {Path(c) : c \in Call}
Alike(c) == {d \in Call : Path(d) = Path(c)}

VARIABLES
  at,       \* where the handler of each call is
  slot,     \* what is in the oneshot channel of each request
  reply,    \* the call whose envelope each client got
  job,      \* the task that runs journey::process for an MCP call or message
  open,     \* receipts with status accepted
  resumed,  \* receipts that boot or the service worker runs
  row,      \* Correlation -> the answer in the outbox
  registry, \* the return paths: a waiting request or a connection, by key
  conn,     \* connections: "open", or "deaf" when the writer has ended
  queue,    \* envelopes on their way to the writer
  ids,      \* messages whose own id the connection remembers
  bare,     \* messages answered without their own id
  faults    \* crashes and other faults so far

handlers == <<at, slot, reply>>
work     == <<job, open, resumed>>
sockets  == <<conn, queue, ids, bare>>
vars     == <<at, slot, reply, job, open, resumed, row, registry,
              conn, queue, ids, bare, faults>>

Stages  == {"new", "register", "process", "wait", "leaving", "over", "dropped"}
JobEnds == {"none", "alive", "completed", "other"}
RowStates == {"none", "pending", "in_flight", "delivered", "gone",
              "completed", "orphaned"}
ConnStates == {"none", "open", "deaf", "closed"}

\* The handler holds the receiver of its channel.
Waiting(c) == at[c] \in {"process", "wait"}

\* One of the things that go wrong happens.
Fault == faults < MaxFaults /\ faults' = faults + 1

Init ==
  /\ \E cast \in Casts : at = [c \in Call |-> IF c \in cast THEN "new" ELSE "over"]
  /\ slot = [c \in Call |-> None]
  /\ reply = [c \in Call |-> None]
  /\ job = [c \in Call |-> "none"]
  /\ open = {}
  /\ resumed = {}
  /\ row = [k \in Correlation |-> [of |-> None, at |-> "none", uncertain |-> FALSE]]
  /\ registry = [p \in Paths |-> None]
  /\ conn = [s \in Socket |-> "none"]
  /\ queue = [s \in Socket |-> <<>>]
  /\ ids = {}
  /\ bare = {}
  /\ faults = 0

-----------------------------------------------------------------------------
(* Running a receipt.                                                      *)

\* One answer per correlation: a key that has a row is left alone.
Enqueue(c) ==
  row' = IF row[Cor[c]].at # "none" THEN row
         ELSE [row EXCEPT ![Cor[c]] = [of |-> c, at |-> "pending", uncertain |-> FALSE]]

\* process ends: the receipt is routed and its answer enqueued, ...
Completes(c) == Enqueue(c) /\ open' = open \ {c}

\* ... or the receipt gets another status, or, where a second run of it is under
\* way, is left accepted.
EndsOtherwise(c) ==
  /\ \/ open' = open \ {c}
     \/ c \in Contracted /\ UNCHANGED open
  /\ UNCHANGED row

\* The outcome is for the handler that joins the task, if there is one.
Outcome(c, result) == IF Kind[c] = "mcp" /\ at[c] = "process" THEN result ELSE "none"

\* The task that the MCP handler or the read loop spawned.
RunJob(c) ==
  /\ job[c] = "alive"
  /\ \/ Completes(c) /\ job' = [job EXCEPT ![c] = Outcome(c, "completed")]
     \/ EndsOtherwise(c) /\ job' = [job EXCEPT ![c] = Outcome(c, "other")]
  /\ UNCHANGED <<handlers, resumed, registry, sockets, faults>>

\* The task spawned by boot, or by a pass of the service worker.
RunResumed(c) ==
  /\ c \in resumed
  /\ resumed' = resumed \ {c}
  /\ Completes(c) \/ EndsOtherwise(c)
  /\ UNCHANGED <<handlers, job, registry, sockets, faults>>

\* services::worker knows nothing of handlers: what is accepted it runs.
ServicePass(c) ==
  /\ c \in (Contracted \cap open) \ resumed
  /\ resumed' = resumed \cup {c}
  /\ UNCHANGED <<handlers, job, open, row, registry, sockets, faults>>

-----------------------------------------------------------------------------
(* Requests over HTTP and MCP.                                             *)

\* accept commits the receipt.  If it cannot, the client is told, and it is as if
\* it had not asked.
Accept(c) ==
  /\ c \in Requests
  /\ at[c] = "new"
  /\ at' = [at EXCEPT ![c] = "register"]
  /\ open' = open \cup {c}
  /\ UNCHANGED <<slot, reply, job, resumed, row, registry, sockets, faults>>

Spawned(c) == IF Kind[c] = "mcp" THEN [job EXCEPT ![c] = "alive"] ELSE job

\* Mutant: the MCP handler registers once its task is under way.
RegisterLate(c) ==
  /\ c \in Requests
  /\ \/ /\ at[c] = "register"
        /\ Kind[c] = "mcp" => job[c] # "none"
        /\ at' = [at EXCEPT ![c] = "process"]
        /\ registry' = [registry EXCEPT ![Path(c)] = c]
        /\ UNCHANGED job
     \/ /\ at[c] = "register"
        /\ Kind[c] = "mcp" /\ job[c] = "none"
        /\ job' = Spawned(c)
        /\ UNCHANGED <<at, registry>>
  /\ UNCHANGED <<slot, reply, open, resumed, row, sockets, faults>>

\* register_once replaces the sender of a request with the same key.  HTTP
\* processes in the handler, MCP in a task of its own.
RegisterOnce(c) ==
  /\ c \in Requests
  /\ at[c] = "register"
  /\ at' = [at EXCEPT ![c] = "process"]
  /\ registry' = [registry EXCEPT ![Path(c)] = c]
  /\ job' = Spawned(c)
  /\ UNCHANGED <<slot, reply, open, resumed, row, sockets, faults>>

\* An HTTP handler waits for the answer whatever the outcome.
RunInline(c) ==
  /\ Kind[c] = "http"
  /\ at[c] = "process"
  /\ at' = [at EXCEPT ![c] = "wait"]
  /\ Completes(c) \/ EndsOtherwise(c)
  /\ UNCHANGED <<slot, reply, job, resumed, registry, sockets, faults>>

\* An MCP handler waits for the answer only of a run that completed.
Join(c) ==
  /\ Kind[c] = "mcp"
  /\ at[c] = "process"
  /\ job[c] \in {"completed", "other"}
  /\ IF job[c] = "completed"
     THEN at' = [at EXCEPT ![c] = "wait"] /\ UNCHANGED slot
     ELSE at' = [at EXCEPT ![c] = "leaving"] /\ slot' = [slot EXCEPT ![c] = None]
  /\ job' = [job EXCEPT ![c] = "none"]
  /\ UNCHANGED <<reply, open, resumed, row, registry, sockets, faults>>

\* forget removes whatever is registered under the key.
Forget(c) == registry' = [registry EXCEPT ![Path(c)] = None]

\* The client gets the envelope in the channel.
Receive(c) ==
  /\ at[c] = "wait"
  /\ slot[c] # None
  /\ at' = [at EXCEPT ![c] = "over"]
  /\ reply' = [reply EXCEPT ![c] = slot[c]]
  /\ slot' = [slot EXCEPT ![c] = None]
  /\ Forget(c)
  /\ UNCHANGED <<work, row, sockets, faults>>

\* The time is up, which for MCP includes the run; or the sender is gone.
GiveUp(c) ==
  /\ \/ at[c] = "wait" /\ slot[c] = None
     \/ at[c] = "process" /\ Kind[c] = "mcp"
  /\ at' = [at EXCEPT ![c] = "leaving"]
  /\ slot' = [slot EXCEPT ![c] = None]
  /\ UNCHANGED <<reply, work, row, registry, sockets, faults>>

\* The client gets the verdict of the journey.
Leave(c) ==
  /\ at[c] = "leaving"
  /\ at' = [at EXCEPT ![c] = "over"]
  /\ Forget(c)
  /\ UNCHANGED <<slot, reply, work, row, sockets, faults>>

\* The client goes away, and axum drops the handler where it is: nothing is
\* forgotten.
Drop(c) ==
  /\ c \in Requests
  /\ at[c] \in {"register", "process", "wait"}
  /\ Fault
  /\ at' = [at EXCEPT ![c] = "dropped"]
  /\ slot' = [slot EXCEPT ![c] = None]
  /\ UNCHANGED <<reply, work, row, registry, sockets>>

-----------------------------------------------------------------------------
(* WebSockets.                                                             *)

RegisterMany(s) ==
  /\ conn[s] = "none"
  /\ conn' = [conn EXCEPT ![s] = "open"]
  /\ registry' = [p \in Paths |-> IF p = <<"websocket", s>> THEN s ELSE registry[p]]
  /\ UNCHANGED <<handlers, work, row, queue, ids, bare, faults>>

\* The read loop takes one message at a time.
Reading(s) == \A c \in Messages : On[c] = s => at[c] # "register"

\* Mutant: the id of a message is not remembered.
FrameAnonymously(c) ==
  /\ c \in Messages
  /\ at[c] = "new"
  /\ conn[On[c]] \in {"open", "deaf"}
  /\ Reading(On[c])
  /\ at' = [at EXCEPT ![c] = "register"]
  /\ open' = open \cup {c}
  /\ UNCHANGED <<slot, reply, job, resumed, row, registry, sockets, faults>>

\* The id is remembered and the receipt committed.
Frame(c) ==
  /\ c \in Messages
  /\ at[c] = "new"
  /\ conn[On[c]] \in {"open", "deaf"}
  /\ Reading(On[c])
  /\ at' = [at EXCEPT ![c] = "register"]
  /\ open' = open \cup {c}
  /\ ids' = ids \cup {c}
  /\ UNCHANGED <<slot, reply, job, resumed, row, registry, conn, queue, bare, faults>>

\* accept does not commit the receipt: the message gets no answer, its id stays.
FrameFails(c) ==
  /\ c \in Messages
  /\ at[c] = "new"
  /\ conn[On[c]] \in {"open", "deaf"}
  /\ Reading(On[c])
  /\ Fault
  /\ at' = [at EXCEPT ![c] = "over"]
  /\ ids' = ids \cup {c}
  /\ UNCHANGED <<slot, reply, work, row, registry, conn, queue, bare>>

SpawnProcess(c) ==
  /\ c \in Messages
  /\ at[c] = "register"
  /\ at' = [at EXCEPT ![c] = "over"]
  /\ job' = [job EXCEPT ![c] = "alive"]
  /\ UNCHANGED <<slot, reply, open, resumed, row, registry, sockets, faults>>

\* The writer sends an envelope, with the client's own id put into it.
Write(s) ==
  /\ conn[s] = "open"
  /\ queue[s] # <<>>
  /\ LET c == Head(queue[s])
     IN /\ reply' = [reply EXCEPT ![c] = c]
        /\ bare' = IF c \in ids THEN bare ELSE bare \cup {c}
        /\ ids' = ids \ {c}
  /\ queue' = [queue EXCEPT ![s] = Tail(@)]
  /\ UNCHANGED <<at, slot, work, row, registry, conn, faults>>

\* The sink fails: the writer ends and drops its receiver, queue and all.
WriterEnds(s) ==
  /\ conn[s] = "open"
  /\ Fault
  /\ conn' = [conn EXCEPT ![s] = "deaf"]
  /\ queue' = [queue EXCEPT ![s] = <<>>]
  /\ UNCHANGED <<handlers, work, row, registry, ids, bare>>

\* The read loop ends: the return path is forgotten and the writer aborted.
Close(s) ==
  /\ conn[s] \in {"open", "deaf"}
  /\ Reading(s)
  /\ Fault
  /\ conn' = [conn EXCEPT ![s] = "closed"]
  /\ queue' = [queue EXCEPT ![s] = <<>>]
  /\ ids' = {c \in ids : On[c] # s}
  /\ registry' = [p \in Paths |-> IF p = <<"websocket", s>> THEN None ELSE registry[p]]
  /\ UNCHANGED <<handlers, work, row, bare>>

-----------------------------------------------------------------------------
(* The outbox.                                                             *)

Moves(k, s) == row' = [row EXCEPT ![k].at = s]

Claim(k) ==
  /\ row[k].at = "pending"
  /\ Moves(k, "in_flight")
  /\ UNCHANGED <<handlers, work, registry, sockets, faults>>

\* The receiver of a handler that gave up is about to be dropped: what is sent to
\* it meanwhile is lost.
LateFor(c) == at[c] = "leaving"

\* returns.send: a oneshot sender is used up, a connection's is kept until its
\* receiver is gone.
Send(k) ==
  /\ row[k].at = "in_flight"
  /\ LET d == row[k].of
         to == registry[Path(d)]
     IN \/ /\ to = None
           /\ Moves(k, "gone")
           /\ UNCHANGED <<slot, registry, queue>>
        \/ /\ to \in Call
           /\ registry' = [registry EXCEPT ![Path(d)] = None]
           /\ \/ Waiting(to) /\ slot' = [slot EXCEPT ![to] = d] /\ Moves(k, "delivered")
              \/ LateFor(to) /\ UNCHANGED slot /\ Moves(k, "delivered")
              \/ ~Waiting(to) /\ UNCHANGED slot /\ Moves(k, "gone")
           /\ UNCHANGED queue
        \/ /\ to \in Socket
           /\ conn[to] = "open"
           /\ queue' = [queue EXCEPT ![to] = Append(@, d)]
           /\ Moves(k, "delivered")
           /\ UNCHANGED <<slot, registry>>
        \/ /\ to \in Socket
           /\ conn[to] # "open"
           /\ registry' = [registry EXCEPT ![Path(d)] = None]
           /\ Moves(k, "gone")
           /\ UNCHANGED <<slot, queue>>
  /\ UNCHANGED <<at, reply, work, conn, ids, bare, faults>>

\* Mutant: the result of the hand-back is written for the status.
SettleVerbatim(k) ==
  /\ row[k].at \in {"delivered", "gone"}
  /\ Moves(k, IF row[k].at = "delivered" THEN "handed back" ELSE "orphaned")
  /\ UNCHANGED <<handlers, work, registry, sockets, faults>>

\* finish_attempt and settle.
Settle(k) ==
  /\ row[k].at \in {"delivered", "gone"}
  /\ Moves(k, IF row[k].at = "delivered" THEN "completed" ELSE "orphaned")
  /\ UNCHANGED <<handlers, work, registry, sockets, faults>>

-----------------------------------------------------------------------------
(* Crash and boot, which lets nobody in before it is over.                 *)

InFlight(k) == row[k].at \in {"in_flight", "delivered", "gone"}

\* Mutant: recovery forgets to say that the outcome is unknown.
RecoverSilently ==
  row' = [k \in Correlation |->
            IF InFlight(k) THEN [row[k] EXCEPT !.at = "pending"] ELSE row[k]]

\* delivery::recover.
Recover ==
  row' = [k \in Correlation |->
            IF InFlight(k) THEN [row[k] EXCEPT !.at = "pending", !.uncertain = TRUE]
            ELSE row[k]]

Crash ==
  /\ Fault
  /\ at' = [c \in Call |-> IF at[c] = "new" THEN "new" ELSE "over"]
  /\ slot' = [c \in Call |-> None]
  /\ job' = [c \in Call |-> "none"]
  /\ resumed' = open \ Contracted
  /\ Recover
  /\ registry' = [p \in Paths |-> None]
  /\ conn' = [s \in Socket |-> IF conn[s] = "none" THEN "none" ELSE "closed"]
  /\ queue' = [s \in Socket |-> <<>>]
  /\ ids' = {}
  /\ UNCHANGED <<reply, open, bare>>

-----------------------------------------------------------------------------
Next ==
  \/ \E c \in Call : \/ RunJob(c) \/ RunResumed(c) \/ ServicePass(c)
                     \/ Accept(c) \/ RegisterOnce(c) \/ RunInline(c) \/ Join(c)
                     \/ Receive(c) \/ GiveUp(c) \/ Leave(c) \/ Drop(c)
                     \/ Frame(c) \/ FrameFails(c) \/ SpawnProcess(c)
  \/ \E s \in Socket : RegisterMany(s) \/ Write(s) \/ WriterEnds(s) \/ Close(s)
  \/ \E k \in Correlation : Claim(k) \/ Send(k) \/ Settle(k)
  \/ Crash

Spec == Init /\ [][Next]_vars

-----------------------------------------------------------------------------
(* Properties.                                                             *)

\* Every variable has its type, and a row the status of the deliveries table, or one
\* of the two that stand for a result of returns.send not yet recorded.
TypeOK ==
  /\ at \in [Call -> Stages]
  /\ slot \in [Call -> Call \cup {None}]
  /\ reply \in [Call -> Call \cup {None}]
  /\ job \in [Call -> JobEnds]
  /\ open \subseteq Call
  /\ resumed \subseteq Call
  /\ row \in [Correlation -> [of : Call \cup {None}, at : RowStates, uncertain : BOOLEAN]]
  /\ registry \in [Paths -> Requests \cup Socket \cup {None}]
  /\ conn \in [Socket -> ConnStates]
  /\ queue \in [Socket -> Seq(Messages)]
  /\ ids \subseteq Messages
  /\ bare \subseteq Messages
  /\ faults \in 0..MaxFaults

\* A client that has asked, and has not been told anything yet.
Wants(c) ==
  IF c \in Messages THEN conn[On[c]] = "open" ELSE at[c] = "register" \/ Waiting(c)

\* returnpath.rs, enum Handback: an answer is found to have nowhere to go only if
\* nobody waits for it, unless a request with the same correlation id has used or
\* taken its return path, or the service worker was faster than the handler.
GoneIfNobodyWaits ==
  [][\A k \in Correlation :
       row[k].at = "in_flight" /\ row'[k].at = "gone" =>
         LET d == row[k].of
         IN \/ ~Wants(d)
            \/ d \in Contracted /\ at[d] = "register"
            \/ \E c \in Alike(d) \ {d} : at[c] \notin {"new", "register"}]_vars

\* An answer reaches one client, however many requests share the id, unless
\* the row says that it may have been given before.
AnsweredOnce ==
  \A k \in Correlation :
    ~row[k].uncertain =>
      \A c, d \in Call : reply[c] = row[k].of /\ reply[d] = row[k].of => c = d \/ reply[c] = None

\* A message is answered with the id its client gave it, also where the service
\* worker answers before the read loop has spawned anything.
IdComesBack == bare = {}

=============================================================================
