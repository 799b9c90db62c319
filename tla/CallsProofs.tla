----------------------------- MODULE CallsProofs -----------------------------
(***************************************************************************)
(* Proofs about Calls, for any clients, connections and correlation ids,   *)
(* any choice of those who ask, and any number of faults: that an answer   *)
(* reaches one client, under the id it chose, and that it finds nowhere to *)
(* go only if nobody waits for it.                                         *)
(***************************************************************************)
EXTENDS Calls, SequenceTheorems, TLAPS

-----------------------------------------------------------------------------
(* The inductive invariant.                                                *)

\* A row holds the answer of a call with its correlation id, or of none yet.
RowsOK ==
  \A k \in Correlation :
    /\ row[k].at = "none" <=> row[k].of = None
    /\ row[k].of # None => Cor[row[k].of] = k

\* The answer of call c is in the outbox.
Has(c) == row[Cor[c]].of = c

\* It has been handed to whoever was registered.
Sent(c) == Has(c) /\ row[Cor[c]].at \in {"delivered", "completed"}
SentCalls == {c \in Call : Sent(c)}

\* A request is registered under its own key, a connection under its own; an
\* open connection always is.
RegistryOK ==
  /\ \A p \in Paths : registry[p] \in Requests => Path(registry[p]) = p
  /\ \A p \in Paths : registry[p] \in Socket => p = <<"websocket", registry[p]>>
  /\ \A c \in Messages : conn[On[c]] = "open" => registry[Path(c)] = On[c]

\* What waits for the writer of a connection is for its client, there once, and
\* still has its id.
QueueOf(s) ==
  /\ \A i \in DOMAIN queue[s] :
       On[queue[s][i]] = s /\ queue[s][i] \in ids \cap SentCalls
  /\ \A i, j \in DOMAIN queue[s] : queue[s][i] = queue[s][j] => i = j

QueueOK == \A s \in Socket : QueueOf(s)

\* There is something of call c inside Antenna.
Active(c) ==
  \/ at[c] = "register"
  \/ c \in open \cup resumed
  \/ job[c] # "none"
  \/ Has(c)

\* The read loop waits for no answer.  A message inside came over a connection;
\* while that is open, its id is remembered until its answer is sent.
MessagesOK ==
  \A c \in Messages :
    /\ at[c] \in {"new", "register", "over"}
    /\ Active(c) => /\ conn[On[c]] # "none"
                    /\ conn[On[c]] = "open" => c \in ids \/ Sent(c)

\* Client c has, or may yet get, the answer of x.
Queued(x)   == \E s \in Socket : \E i \in DOMAIN queue[s] : queue[s][i] = x
Holds(c, x) == slot[c] = x \/ reply[c] = x \/ (c = x /\ Queued(x))

\* An answer somebody holds was sent; and one client holds it.  Unless its row
\* says that it may have been sent before.
HeldOK ==
  \A x \in Call :
    /\ \A c \in Call : Holds(c, x) => Has(x) /\ (Sent(x) \/ row[Cor[x]].uncertain)
    /\ ~row[Cor[x]].uncertain =>
         \A c, d \in Call : Holds(c, x) /\ Holds(d, x) => c = d

\* Before a call is accepted there is nothing of it, and before a request is
\* registered only the service worker runs it.
FreshOK ==
  \A c \in Call :
    /\ at[c] = "new" => ~Active(c)
    /\ at[c] = "register" /\ c \in Requests \ Contracted =>
         c \notin resumed /\ job[c] = "none" /\ ~Has(c)

\* No other request under the key has been as far as register_once.
Alone(c) == \A d \in Alike(c) \ {c} : at[d] \in {"new", "register"}

\* A request that waits is registered until the answer under its key is sent.
WaitingOK ==
  \A c \in Requests :
    Waiting(c) /\ Alone(c) =>
      registry[Path(c)] = c \/ row[Cor[c]].at \notin {"none", "pending", "in_flight"}

IInv ==
  /\ TypeOK
  /\ RowsOK
  /\ RegistryOK
  /\ QueueOK
  /\ MessagesOK
  /\ HeldOK
  /\ FreshOK
  /\ WaitingOK

-----------------------------------------------------------------------------
(* Facts about the operators of the model.                                 *)

\* The keys of the registry tell connections from requests, and requests under
\* different correlation ids from each other.
LEMMA Keys ==
  /\ \A c \in Call : Path(c) \in Paths
  /\ \A c \in Messages : c \in Call /\ On[c] \in Socket /\ Path(c) = <<"websocket", On[c]>>
  /\ \A c \in Requests, s \in Socket : Path(c) # <<"websocket", s>>
  /\ \A c, d \in Requests : Path(c) = Path(d) => Cor[c] = Cor[d] /\ Kind[c] = Kind[d]
  /\ \A c \in Call : c \in Messages \/ c \in Requests
<1>1. \A c \in Requests : c \in Call /\ c \notin Messages /\ Kind[c] \in {"http", "mcp"}
  BY KindAssumption DEF Requests, Messages
<1>2. \A c \in Messages : c \in Call /\ On[c] \in Socket /\ Path(c) = <<"websocket", On[c]>>
  BY OnAssumption DEF Messages, Path
<1>3. \A c \in Requests : Path(c) = <<Kind[c], Cor[c]>>
  BY <1>1 DEF Path
<1>4. QED
  BY <1>1, <1>2, <1>3 DEF Paths, Requests

RowType == [of : Call \cup {None}, at : RowStates, uncertain : BOOLEAN]

\* The answer of a run is enqueued under its correlation id, if there is none.
LEMMA EnqueueChanges ==
  ASSUME TypeOK, NEW c \in Call, Enqueue(c)
  PROVE  /\ row' \in [Correlation -> RowType]
         /\ \A k \in Correlation :
              \/ row'[k] = row[k]
              \/ /\ k = Cor[c] /\ row[k].at = "none"
                 /\ row'[k] = [of |-> c, at |-> "pending", uncertain |-> FALSE]
<1>1. Cor[c] \in Correlation /\ row \in [Correlation -> RowType]
  BY CorAssumption DEF TypeOK, RowType
<1>2. [of |-> c, at |-> "pending", uncertain |-> FALSE] \in RowType
  BY DEF RowType, RowStates
<1>3. QED
  BY <1>1, <1>2 DEF Enqueue

\* A row moves to another status.
LEMMA MoveChanges ==
  ASSUME TypeOK, NEW k \in Correlation, NEW s \in RowStates, Moves(k, s)
  PROVE  /\ row' \in [Correlation -> RowType]
         /\ \A j \in Correlation : j # k => row'[j] = row[j]
         /\ row'[k].of = row[k].of /\ row'[k].at = s /\ row'[k].uncertain = row[k].uncertain
<1>1. row \in [Correlation -> RowType]
  BY DEF TypeOK, RowType
<1>2. row[k] \in RowType
  BY <1>1
<1>3. [row[k] EXCEPT !.at = s] \in RowType
  BY <1>2 DEF RowType
<1>4. PICK moved : moved = [row[k] EXCEPT !.at = s] /\ row' = [row EXCEPT ![k] = moved]
  BY DEF Moves
<1>5. row' \in [Correlation -> RowType]
  BY <1>1, <1>3, <1>4
<1>6. (\A j \in Correlation : j # k => row'[j] = row[j]) /\ row'[k] = moved
  BY <1>1, <1>4
<1>7. moved.of = row[k].of /\ moved.at = s /\ moved.uncertain = row[k].uncertain
  BY <1>2, <1>4 DEF RowType
<1>8. QED
  BY <1>5, <1>6, <1>7

\* Recovery puts back, in doubt, what was in flight.
LEMMA RecoverChanges ==
  ASSUME TypeOK, Recover
  PROVE  /\ row' \in [Correlation -> RowType]
         /\ \A k \in Correlation :
              \/ row'[k] = row[k] /\ row[k].at \notin {"in_flight", "delivered", "gone"}
              \/ /\ row[k].at \in {"in_flight", "delivered", "gone"}
                 /\ row'[k].of = row[k].of
                 /\ row'[k].at = "pending" /\ row'[k].uncertain
<1>1. \A k \in Correlation : row[k] \in RowType
  BY DEF TypeOK, RowType
<1>2. \A k \in Correlation : /\ [row[k] EXCEPT !.at = "pending", !.uncertain = TRUE] \in RowType
                             /\ [row[k] EXCEPT !.at = "pending", !.uncertain = TRUE].of = row[k].of
                             /\ [row[k] EXCEPT !.at = "pending", !.uncertain = TRUE].at = "pending"
                             /\ [row[k] EXCEPT !.at = "pending", !.uncertain = TRUE].uncertain
  BY <1>1 DEF RowType, RowStates
<1>3. QED
  BY <1>1, <1>2 DEF Recover, InFlight

-----------------------------------------------------------------------------
(* What a step does to the outbox.                                         *)

\* A run of call c ends, wherever it runs.
Ends(c) == RunJob(c) \/ RunResumed(c) \/ RunInline(c)

\* The only ways for a row to change.
RowStep(k) ==
  \/ row'[k] = row[k]
  \/ \E c \in Call :
       /\ Ends(c)
       /\ k = Cor[c] /\ row[k].at = "none"
       /\ row'[k] = [of |-> c, at |-> "pending", uncertain |-> FALSE]
  \/ /\ row'[k].of = row[k].of /\ row'[k].uncertain = row[k].uncertain
     /\ \/ Claim(k) /\ row[k].at = "pending" /\ row'[k].at = "in_flight"
        \/ Send(k) /\ row[k].at = "in_flight" /\ row'[k].at \in {"delivered", "gone"}
        \/ Settle(k) /\ row[k].at = "delivered" /\ row'[k].at = "completed"
        \/ Settle(k) /\ row[k].at = "gone" /\ row'[k].at = "orphaned"
  \/ /\ Crash
     /\ row[k].at \in {"in_flight", "delivered", "gone"}
     /\ row'[k].of = row[k].of /\ row'[k].at = "pending" /\ row'[k].uncertain

\* The steps of calls and connections that have nothing to do with the outbox.
Elsewhere ==
  \/ \E c \in Call : \/ ServicePass(c) \/ Accept(c) \/ RegisterOnce(c) \/ Join(c)
                     \/ Receive(c) \/ GiveUp(c) \/ Leave(c) \/ Drop(c)
                     \/ Frame(c) \/ FrameFails(c) \/ SpawnProcess(c)
  \/ \E s \in Socket : RegisterMany(s) \/ Write(s) \/ WriterEnds(s) \/ Close(s)

LEMMA Elsewise == Elsewhere => row' = row
  BY DEF Elsewhere, ServicePass, Accept, RegisterOnce, Join, Receive, GiveUp, Leave, Drop,
         Frame, FrameFails, SpawnProcess, RegisterMany, Write, WriterEnds, Close, work

LEMMA EndChanges ==
  ASSUME TypeOK, NEW c \in Call, Ends(c)
  PROVE  /\ row' \in [Correlation -> RowType]
         /\ \A k \in Correlation : RowStep(k)
         /\ open' \subseteq open /\ resumed' \subseteq resumed
         /\ UNCHANGED <<slot, reply, registry, sockets, faults>>
         /\ \A d \in Call : d # c => at'[d] = at[d] /\ job'[d] = job[d]
         /\ at' = at \/ (at[c] = "process" /\ at' = [at EXCEPT ![c] = "wait"])
         /\ job' \in [Call -> JobEnds] /\ (job'[c] # "none" => job[c] # "none")
<1>1. Enqueue(c) \/ row' = row
  BY DEF Ends, RunJob, RunResumed, RunInline, Completes, EndsOtherwise
<1>2. row' \in [Correlation -> RowType] /\ \A k \in Correlation : RowStep(k)
  <2>1. CASE Enqueue(c)
    BY <2>1, EnqueueChanges DEF RowStep
  <2>2. CASE row' = row
    BY <2>2 DEF RowStep, TypeOK, RowType
  <2>3. QED
    BY <1>1, <2>1, <2>2
<1>3. open' \subseteq open /\ resumed' \subseteq resumed
  BY DEF Ends, RunJob, RunResumed, RunInline, Completes, EndsOtherwise
<1>4. UNCHANGED <<slot, reply, registry, sockets, faults>>
  BY DEF Ends, RunJob, RunResumed, RunInline, handlers
<1>5. at \in [Call -> Stages] /\ job \in [Call -> JobEnds]
  BY DEF TypeOK
<1>6. /\ \A d \in Call : d # c => at'[d] = at[d]
      /\ at' = at \/ (at[c] = "process" /\ at' = [at EXCEPT ![c] = "wait"])
  BY <1>5 DEF Ends, RunJob, RunResumed, RunInline, handlers
<1>7. /\ \A d \in Call : d # c => job'[d] = job[d]
      /\ job' \in [Call -> JobEnds] /\ (job'[c] # "none" => job[c] # "none")
  BY <1>5 DEF Ends, RunJob, RunResumed, RunInline, Outcome, JobEnds
<1>8. QED
  BY <1>2, <1>3, <1>4, <1>6, <1>7

LEMMA CrashRecovers == Crash => Recover
  BY DEF Crash

LEMMA RowSteps ==
  ASSUME TypeOK, [Next]_vars
  PROVE  /\ row' \in [Correlation -> RowType]
         /\ \A k \in Correlation : RowStep(k)
<1>1. CASE \E c \in Call : Ends(c)
  BY <1>1, EndChanges
<1>2. CASE Elsewhere \/ UNCHANGED vars
  BY <1>2, Elsewise DEF RowStep, TypeOK, RowType, vars
<1>3. CASE \E k \in Correlation : Claim(k)
  <2>1. PICK k \in Correlation : Claim(k)
    BY <1>3
  <2>2. Moves(k, "in_flight") /\ row[k].at = "pending" /\ "in_flight" \in RowStates
    BY <2>1 DEF Claim, RowStates
  <2>3. QED
    BY <2>1, <2>2, MoveChanges DEF RowStep
<1>4. CASE \E k \in Correlation : Send(k)
  <2>1. PICK k \in Correlation : Send(k)
    BY <1>4
  <2>2. row[k].at = "in_flight" /\ \E s \in {"delivered", "gone"} : Moves(k, s)
    BY <2>1, Zenon DEF Send
  <2>3. PICK s \in {"delivered", "gone"} : Moves(k, s)
    BY <2>2
  <2>4. s \in RowStates
    BY DEF RowStates
  <2>5. QED
    BY <2>1, <2>2, <2>3, <2>4, MoveChanges DEF RowStep
<1>5. CASE \E k \in Correlation : Settle(k)
  <2>1. PICK k \in Correlation : Settle(k)
    BY <1>5
  <2>2. \/ row[k].at = "delivered" /\ Moves(k, "completed")
        \/ row[k].at = "gone" /\ Moves(k, "orphaned")
    BY <2>1 DEF Settle
  <2>3. "completed" \in RowStates /\ "orphaned" \in RowStates
    BY DEF RowStates
  <2>4. QED
    BY <2>1, <2>2, <2>3, MoveChanges DEF RowStep
<1>6. CASE Crash
  <2>1. Recover
    BY <1>6, CrashRecovers
  <2>2. QED
    BY <1>6, <2>1, RecoverChanges DEF RowStep
<1>7. QED
  BY <1>1, <1>2, <1>3, <1>4, <1>5, <1>6 DEF Next, Ends, Elsewhere

\* What returns.send may do: nobody is registered; a request is, that waits, or
\* is about to leave, or is gone; or the connection of a message.
LEMMA SendChanges ==
  ASSUME TypeOK, RowsOK, RegistryOK, NEW k \in Correlation, Send(k)
  PROVE  LET d == row[k].of
             to == registry[Path(d)]
             used == [registry EXCEPT ![Path(d)] = None]
         IN /\ row[k].at = "in_flight" /\ d \in Call /\ Cor[d] = k /\ Path(d) \in Paths
            /\ UNCHANGED <<at, reply, work, conn, ids, bare, faults>>
            /\ \/ /\ to = None \/ (to \in Requests /\ ~Waiting(to))
                               \/ (to \in Socket /\ conn[to] # "open")
                  /\ registry' \in {registry, used}
                  /\ UNCHANGED <<slot, queue>>
               \/ /\ to \in Requests /\ Waiting(to)
                  /\ slot' = [slot EXCEPT ![to] = d] /\ row'[k].at = "delivered"
                  /\ registry' = used /\ UNCHANGED queue
               \/ /\ to \in Requests /\ LateFor(to)
                  /\ registry' = used /\ UNCHANGED <<slot, queue>>
               \/ /\ d \in Messages /\ to = On[d] /\ conn[to] = "open"
                  /\ queue' = [queue EXCEPT ![to] = Append(@, d)] /\ row'[k].at = "delivered"
                  /\ UNCHANGED <<slot, registry>>
<1> DEFINE d == row[k].of
           to == registry[Path(d)]
           used == [registry EXCEPT ![Path(d)] = None]
<1>1. row[k].at = "in_flight" /\ UNCHANGED <<at, reply, work, conn, ids, bare, faults>>
  BY DEF Send
<1>2. row[k] \in RowType /\ d # None
  BY <1>1 DEF TypeOK, RowType, RowsOK
<1>3. d \in Call /\ Cor[d] = k
  BY <1>2 DEF RowType, RowsOK
<1>4. Path(d) \in Paths /\ to \in Requests \cup Socket \cup {None}
  BY <1>3, Keys DEF TypeOK
<1>5. to \in Call => to \in Requests
  BY <1>4, NoneAssumption
<1>6. to \in Socket => d \in Messages /\ to = On[d]
  <2>1. to \in Socket => Path(d) = <<"websocket", to>>
    BY <1>4 DEF RegistryOK
  <2>2. to \in Socket => d \in Messages
    BY <1>3, <2>1, Keys
  <2>3. QED
    BY <2>1, <2>2, Keys
<1>7. \A s \in RowStates : Moves(k, s) => row'[k].at = s
  BY MoveChanges
<1>8. "delivered" \in RowStates
  BY DEF RowStates
<1>9. \/ /\ to = None
         /\ UNCHANGED <<slot, registry, queue>>
      \/ /\ to \in Call
         /\ registry' = used
         /\ \/ Waiting(to) /\ slot' = [slot EXCEPT ![to] = d] /\ Moves(k, "delivered")
            \/ LateFor(to) /\ UNCHANGED slot
            \/ ~Waiting(to) /\ UNCHANGED slot
         /\ UNCHANGED queue
      \/ /\ to \in Socket
         /\ conn[to] = "open"
         /\ queue' = [queue EXCEPT ![to] = Append(@, d)]
         /\ Moves(k, "delivered")
         /\ UNCHANGED <<slot, registry>>
      \/ /\ to \in Socket
         /\ conn[to] # "open"
         /\ registry' = used
         /\ UNCHANGED <<slot, queue>>
  BY Zenon DEF Send
<1> HIDE DEF d, to, used
<1>10. /\ row[k].at = "in_flight" /\ d \in Call /\ Cor[d] = k /\ Path(d) \in Paths
       /\ UNCHANGED <<at, reply, work, conn, ids, bare, faults>>
       /\ \/ /\ to = None \/ (to \in Requests /\ ~Waiting(to))
                          \/ (to \in Socket /\ conn[to] # "open")
             /\ registry' \in {registry, used}
             /\ UNCHANGED <<slot, queue>>
          \/ /\ to \in Requests /\ Waiting(to)
             /\ slot' = [slot EXCEPT ![to] = d] /\ row'[k].at = "delivered"
             /\ registry' = used /\ UNCHANGED queue
          \/ /\ to \in Requests /\ LateFor(to)
             /\ registry' = used /\ UNCHANGED <<slot, queue>>
          \/ /\ d \in Messages /\ to = On[d] /\ conn[to] = "open"
             /\ queue' = [queue EXCEPT ![to] = Append(@, d)] /\ row'[k].at = "delivered"
             /\ UNCHANGED <<slot, registry>>
  BY <1>1, <1>3, <1>4, <1>5, <1>6, <1>7, <1>8, <1>9
<1>11. QED
  BY <1>10 DEF d, to, used

-----------------------------------------------------------------------------
(* Types.                                                                  *)

\* All of TypeOK but the rows, which RowSteps types.
RestTyped ==
  /\ at \in [Call -> Stages]
  /\ slot \in [Call -> Call \cup {None}]
  /\ reply \in [Call -> Call \cup {None}]
  /\ job \in [Call -> JobEnds]
  /\ open \subseteq Call
  /\ resumed \subseteq Call
  /\ registry \in [Paths -> Requests \cup Socket \cup {None}]
  /\ conn \in [Socket -> ConnStates]
  /\ queue \in [Socket -> Seq(Messages)]
  /\ ids \subseteq Messages
  /\ bare \subseteq Messages
  /\ faults \in 0..MaxFaults

LEMMA InitTyped == Init => TypeOK
<1> SUFFICES ASSUME Init
             PROVE  TypeOK
  OBVIOUS
<1>1. at \in [Call -> Stages]
  BY DEF Init, Stages
<1>2. \A s \in Socket : <<>> \in Seq(Messages)
  BY EmptySeq
<1>3. QED
  BY <1>1, <1>2, FaultsAssumption DEF Init, TypeOK, JobEnds, RowStates, ConnStates

LEMMA TypeStep == TypeOK /\ RowsOK /\ RegistryOK /\ [Next]_vars => TypeOK'
<1> SUFFICES ASSUME TypeOK, RowsOK, RegistryOK, [Next]_vars
             PROVE  TypeOK'
  OBVIOUS
<1>1. row' \in [Correlation -> RowType]
  BY RowSteps
<1>2. RestTyped
  BY DEF TypeOK, RestTyped
<1>3. Fault => faults' \in 0..MaxFaults
  BY <1>2, FaultsAssumption DEF Fault, RestTyped
<1> SUFFICES RestTyped'
  BY <1>1 DEF TypeOK, RestTyped, RowType
<1>4. CASE \E c \in Call : Ends(c)
  <2>1. PICK c \in Call : Ends(c)
    BY <1>4
  <2>2. at' \in [Call -> Stages]
    BY <1>2, <2>1, EndChanges DEF RestTyped, Stages
  <2>3. /\ open' \subseteq open /\ resumed' \subseteq resumed
        /\ UNCHANGED <<slot, reply, registry, sockets, faults>>
        /\ job' \in [Call -> JobEnds]
    BY <2>1, EndChanges
  <2>4. QED
    BY <1>2, <2>2, <2>3 DEF RestTyped, sockets
<1>5. ASSUME NEW c \in Call,
             \/ ServicePass(c) \/ Accept(c) \/ RegisterOnce(c) \/ Join(c)
             \/ Receive(c) \/ GiveUp(c) \/ Leave(c) \/ Drop(c)
      PROVE  RestTyped'
  <2> USE DEF RestTyped, handlers, work, sockets
  <2>1. Path(c) \in Paths /\ None \in Requests \cup Socket \cup {None}
    BY Keys
  <2>2. CASE ServicePass(c)
    BY <1>2, <2>2 DEF ServicePass
  <2>3. CASE Accept(c)
    BY <1>2, <2>3 DEF Accept, Stages
  <2>4. CASE RegisterOnce(c)
    BY <1>2, <2>1, <2>4 DEF RegisterOnce, Stages, Spawned, JobEnds
  <2>5. CASE Join(c)
    BY <1>2, <2>5 DEF Join, Stages, JobEnds
  <2>6. CASE Receive(c)
    BY <1>2, <2>1, <2>6 DEF Receive, Forget, Stages
  <2>7. CASE GiveUp(c)
    BY <1>2, <2>7 DEF GiveUp, Stages
  <2>8. CASE Leave(c)
    BY <1>2, <2>1, <2>8 DEF Leave, Forget, Stages
  <2>9. CASE Drop(c)
    BY <1>2, <1>3, <2>9 DEF Drop, Stages
  <2>10. QED
    BY <1>5, <2>2, <2>3, <2>4, <2>5, <2>6, <2>7, <2>8, <2>9
<1>6. ASSUME NEW c \in Call, Frame(c) \/ FrameFails(c) \/ SpawnProcess(c)
      PROVE  RestTyped'
  <2> USE DEF RestTyped, handlers, work, sockets
  <2>1. CASE Frame(c)
    BY <1>2, <2>1 DEF Frame, Stages
  <2>2. CASE FrameFails(c)
    BY <1>2, <1>3, <2>2 DEF FrameFails, Stages
  <2>3. CASE SpawnProcess(c)
    BY <1>2, <2>3 DEF SpawnProcess, Stages, JobEnds
  <2>4. QED
    BY <1>6, <2>1, <2>2, <2>3
<1>7. ASSUME NEW s \in Socket, RegisterMany(s) \/ Write(s) \/ WriterEnds(s) \/ Close(s)
      PROVE  RestTyped'
  <2> USE DEF RestTyped, handlers, work, sockets
  <2>1. <<>> \in Seq(Messages)
    BY EmptySeq
  <2>2. CASE RegisterMany(s)
    BY <1>2, <2>2 DEF RegisterMany, ConnStates
  <2>3. CASE Write(s)
    <3>1. queue[s] \in Seq(Messages) /\ queue[s] # <<>>
      BY <1>2, <2>3 DEF Write
    <3>2. Head(queue[s]) \in Messages /\ Tail(queue[s]) \in Seq(Messages)
      BY <3>1, HeadTailProperties
    <3>3. Head(queue[s]) \in Call
      BY <3>2, Keys
    <3>4. /\ reply' \in [Call -> Call \cup {None}] /\ bare' \subseteq Messages
          /\ ids' \subseteq Messages
      BY <1>2, <2>3, <3>2, <3>3 DEF Write
    <3>5. queue' \in [Socket -> Seq(Messages)]
      BY <1>2, <2>3, <3>2 DEF Write
    <3>6. QED
      BY <1>2, <2>3, <3>4, <3>5 DEF Write
  <2>4. CASE WriterEnds(s)
    BY <1>2, <1>3, <2>1, <2>4 DEF WriterEnds, ConnStates
  <2>5. CASE Close(s)
    BY <1>2, <1>3, <2>1, <2>5 DEF Close, ConnStates
  <2>6. QED
    BY <1>7, <2>2, <2>3, <2>4, <2>5
<1>8. ASSUME NEW k \in Correlation, Claim(k) \/ Settle(k)
      PROVE  RestTyped'
  BY <1>2, <1>8 DEF Claim, Settle, RestTyped, handlers, work, sockets
<1>9. ASSUME NEW k \in Correlation, Send(k)
      PROVE  RestTyped'
  <2> DEFINE d == row[k].of
             to == registry[Path(d)]
  <2>1. /\ d \in Call /\ Path(d) \in Paths
        /\ UNCHANGED <<at, reply, work, conn, ids, bare, faults>>
    BY <1>9, SendChanges
  <2>2. /\ registry' \in {registry, [registry EXCEPT ![Path(d)] = None]}
        /\ \/ UNCHANGED <<slot, queue>>
           \/ to \in Call /\ slot' = [slot EXCEPT ![to] = d] /\ UNCHANGED queue
           \/ /\ d \in Messages /\ to \in Socket /\ UNCHANGED slot
              /\ queue' = [queue EXCEPT ![to] = Append(@, d)]
    <3>1. d \in Messages => On[d] \in Socket
      BY Keys
    <3>2. Requests \subseteq Call
      BY DEF Requests
    <3>3. QED
      BY <1>9, <3>1, <3>2, SendChanges
  <2>3. registry' \in [Paths -> Requests \cup Socket \cup {None}]
    BY <1>2, <2>2 DEF RestTyped
  <2>4. slot' \in [Call -> Call \cup {None}]
    BY <1>2, <2>1, <2>2 DEF RestTyped
  <2>5. queue' \in [Socket -> Seq(Messages)]
    <3>1. \A s \in Socket : d \in Messages => Append(queue[s], d) \in Seq(Messages)
      BY <1>2, AppendProperties DEF RestTyped
    <3>2. queue \in [Socket -> Seq(Messages)]
      BY <1>2 DEF RestTyped
    <3>3. QED
      BY <2>2, <3>1, <3>2
  <2>6. QED
    BY <1>2, <2>1, <2>3, <2>4, <2>5 DEF RestTyped, work
<1>10. CASE Crash
  BY <1>2, <1>3, <1>10, EmptySeq DEF Crash, RestTyped, Stages, JobEnds, ConnStates
<1>11. CASE UNCHANGED vars
  BY <1>2, <1>11 DEF RestTyped, vars
<1>12. QED
  BY <1>4, <1>5, <1>6, <1>7, <1>8, <1>9, <1>10, <1>11 DEF Next, Ends

-----------------------------------------------------------------------------
(* What a step does to one call.                                           *)

\* How the handler of a call, or the read loop with a message, moves on.
LEMMA AtChanges ==
  ASSUME TypeOK, [Next]_vars, NEW d \in Call
  PROVE  /\ at'[d] = "new" => at[d] = "new"
         /\ at'[d] = "register" => at[d] = "register" \/ Accept(d) \/ Frame(d)
         /\ Waiting(d)' => Waiting(d) \/ RegisterOnce(d)
         /\ d \in Messages /\ at[d] \in {"new", "register", "over"} =>
              at'[d] \in {"new", "register", "over"}
<1> DEFINE Goal == /\ at'[d] = "new" => at[d] = "new"
                   /\ at'[d] = "register" => at[d] = "register" \/ Accept(d) \/ Frame(d)
                   /\ Waiting(d)' => Waiting(d) \/ RegisterOnce(d)
                   /\ d \in Messages /\ at[d] \in {"new", "register", "over"} =>
                        at'[d] \in {"new", "register", "over"}
<1> SUFFICES Goal
  OBVIOUS
<1>1. at \in [Call -> Stages]
  BY DEF TypeOK
<1>2. CASE at' = at
  BY <1>2 DEF Waiting
<1>3. ASSUME NEW c \in Call, Ends(c)
      PROVE  Goal
  BY <1>1, <1>3, EndChanges DEF Waiting
<1>4. ASSUME NEW c \in Call,
             \/ Accept(c) \/ RegisterOnce(c) \/ Join(c)
             \/ Receive(c) \/ GiveUp(c) \/ Leave(c) \/ Drop(c)
      PROVE  Goal
  <2>1. CASE Accept(c)
    BY <1>1, <2>1 DEF Accept, Waiting
  <2>2. CASE RegisterOnce(c)
    BY <1>1, <2>2 DEF RegisterOnce, Waiting, Requests
  <2>3. CASE Join(c) \/ GiveUp(c) \/ Drop(c)
    BY <1>1, <2>3 DEF Join, GiveUp, Drop, Waiting, Requests, Messages
  <2>4. CASE Receive(c) \/ Leave(c)
    BY <1>1, <2>4 DEF Receive, Leave, Waiting
  <2>5. QED
    BY <1>4, <2>1, <2>2, <2>3, <2>4
<1>5. ASSUME NEW c \in Call, Frame(c) \/ FrameFails(c) \/ SpawnProcess(c)
      PROVE  Goal
  <2>1. CASE Frame(c)
    BY <1>1, <2>1 DEF Frame, Waiting
  <2>2. CASE FrameFails(c) \/ SpawnProcess(c)
    BY <1>1, <2>2 DEF FrameFails, SpawnProcess, Waiting
  <2>3. QED
    BY <1>5, <2>1, <2>2
<1>6. CASE Crash
  BY <1>1, <1>6 DEF Crash, Waiting
<1>7. ASSUME NEW s \in Socket, RegisterMany(s) \/ Write(s) \/ WriterEnds(s) \/ Close(s)
      PROVE  at' = at
  BY <1>7 DEF RegisterMany, Write, WriterEnds, Close, handlers
<1>8. ASSUME NEW k \in Correlation, Claim(k) \/ Send(k) \/ Settle(k)
      PROVE  at' = at
  BY <1>8 DEF Claim, Send, Settle, handlers
<1>9. ASSUME NEW c \in Call, ServicePass(c)
      PROVE  at' = at
  BY <1>9 DEF ServicePass, handlers
<1> HIDE DEF Goal
<1>10. UNCHANGED vars => at' = at
  BY DEF vars
<1>11. CASE \E c \in Call : Ends(c) \/ ServicePass(c)
  BY <1>2, <1>3, <1>9, <1>11
<1>12. CASE Crash \/ UNCHANGED vars
  BY <1>2, <1>6, <1>10, <1>12
<1>13. CASE (\E s \in Socket : RegisterMany(s) \/ Write(s) \/ WriterEnds(s) \/ Close(s))
            \/ \E k \in Correlation : Claim(k) \/ Send(k) \/ Settle(k)
  BY <1>2, <1>7, <1>8, <1>13
<1>14. QED
  BY <1>4, <1>5, <1>11, <1>12, <1>13 DEF Next, Ends

\* An answer in the outbox stays there, and one that was sent stays sent unless the
\* process dies; a new one is of a run that ends.
LEMMA HasChanges ==
  ASSUME TypeOK, RowsOK, [Next]_vars, NEW d \in Call
  PROVE  /\ Has(d) => Has(d)'
         /\ Has(d) /\ row[Cor[d]].uncertain => row'[Cor[d]].uncertain
         /\ Has(d) /\ ~row[Cor[d]].uncertain /\ row'[Cor[d]].uncertain => Crash
         /\ Sent(d) => Sent(d)' \/ (Crash /\ row'[Cor[d]].uncertain)
         /\ Has(d)' => Has(d) \/ Ends(d)
<1>1. Cor[d] \in Correlation /\ d # None
  BY CorAssumption, NoneAssumption
<1>2. RowStep(Cor[d])
  BY <1>1, RowSteps
<1>3. Has(d) => row[Cor[d]].at # "none"
  BY <1>1 DEF RowsOK, Has
<1> DEFINE k == Cor[d]
<1>4. CASE row'[k] = row[k]
  BY <1>4 DEF Has, Sent
<1>5. CASE \E c \in Call :
             /\ Ends(c)
             /\ k = Cor[c] /\ row[k].at = "none"
             /\ row'[k] = [of |-> c, at |-> "pending", uncertain |-> FALSE]
  <2>1. PICK c \in Call : Ends(c) /\ row[k].at = "none" /\ row'[k].of = c
    BY <1>5
  <2>2. ~Has(d) /\ (Has(d)' => c = d)
    BY <1>3, <2>1 DEF Has
  <2>3. QED
    BY <2>1, <2>2 DEF Sent
<1>6. CASE /\ row'[k].of = row[k].of /\ row'[k].uncertain = row[k].uncertain
           /\ row[k].at = "delivered" => row'[k].at = "completed"
           /\ row[k].at # "completed"
  BY <1>6 DEF Has, Sent
<1>7. CASE /\ Crash
           /\ row'[k].of = row[k].of /\ row'[k].uncertain
  BY <1>7 DEF Has, Sent
<1>8. QED
  BY <1>2, <1>4, <1>5, <1>6, <1>7 DEF RowStep

\* Something of a call gets inside Antenna with its acceptance, or with the end of
\* the run of an HTTP handler.
LEMMA ActiveChanges ==
  ASSUME TypeOK, RowsOK, [Next]_vars, NEW d \in Call, Active(d)'
  PROVE  Active(d) \/ Accept(d) \/ Frame(d) \/ RunInline(d)
<1>1. at \in [Call -> Stages] /\ job \in [Call -> JobEnds]
  BY DEF TypeOK
<1>2. at'[d] = "register" => at[d] = "register" \/ Accept(d) \/ Frame(d)
  BY AtChanges
<1>3. Has(d)' => Has(d) \/ Ends(d)
  BY HasChanges
<1>4. Ends(d) => Active(d) \/ RunInline(d)
  <2>1. Ends(d) => job[d] = "alive" \/ d \in resumed \/ RunInline(d)
    BY Zenon DEF Ends, RunJob, RunResumed
  <2>2. QED
    BY <2>1 DEF Active
<1>5. job'[d] # "none" => job[d] # "none" \/ at[d] = "register"
  <2>1. CASE \E c \in Call : Ends(c)
    BY <2>1, EndChanges
  <2>2. CASE \E c \in Call : RegisterOnce(c) \/ Join(c) \/ SpawnProcess(c)
    BY <1>1, <2>2 DEF RegisterOnce, Join, SpawnProcess, Spawned
  <2>3. CASE Crash
    BY <2>3 DEF Crash
  <2>4. CASE \/ \E c \in Call : \/ ServicePass(c) \/ Accept(c) \/ Receive(c) \/ GiveUp(c)
                                \/ Leave(c) \/ Drop(c) \/ Frame(c) \/ FrameFails(c)
             \/ \E s \in Socket : RegisterMany(s) \/ Write(s) \/ WriterEnds(s) \/ Close(s)
             \/ \E k \in Correlation : Claim(k) \/ Send(k) \/ Settle(k)
             \/ UNCHANGED vars
    <3>1. job' = job
      BY <2>4, Zenon DEF ServicePass, Accept, Receive, GiveUp, Leave, Drop, Frame, FrameFails,
         RegisterMany, Write, WriterEnds, Close, Claim, Send, Settle, work, vars
    <3>2. QED
      BY <3>1
  <2>5. QED
    BY <2>1, <2>2, <2>3, <2>4 DEF Next, Ends
<1>6. d \in open' \cup resumed' => d \in open \cup resumed \/ Accept(d) \/ Frame(d)
  <2>1. CASE \E c \in Call : Ends(c)
    BY <2>1, EndChanges
  <2>2. CASE \E c \in Call : ServicePass(c) \/ Accept(c) \/ Frame(c)
    BY <2>2 DEF ServicePass, Accept, Frame
  <2>3. CASE Crash
    BY <2>3 DEF Crash
  <2>4. CASE \/ \E c \in Call : \/ RegisterOnce(c) \/ Join(c) \/ Receive(c) \/ GiveUp(c)
                                \/ Leave(c) \/ Drop(c) \/ FrameFails(c) \/ SpawnProcess(c)
             \/ \E s \in Socket : RegisterMany(s) \/ Write(s) \/ WriterEnds(s) \/ Close(s)
             \/ \E k \in Correlation : Claim(k) \/ Send(k) \/ Settle(k)
             \/ UNCHANGED vars
    <3>1. open' = open /\ resumed' = resumed
      BY <2>4, Zenon DEF RegisterOnce, Join, Receive, GiveUp, Leave, Drop, FrameFails,
         SpawnProcess, RegisterMany, Write, WriterEnds, Close, Claim, Send, Settle, work, vars
    <3>2. QED
      BY <3>1
  <2>5. QED
    BY <2>1, <2>2, <2>3, <2>4 DEF Next, Ends
<1>7. QED
  BY <1>2, <1>3, <1>4, <1>5, <1>6 DEF Active

-----------------------------------------------------------------------------
(* Every step keeps the invariant, part by part.                           *)

LEMMA RowsStep == TypeOK /\ RowsOK /\ [Next]_vars => RowsOK'
<1> SUFFICES ASSUME TypeOK, RowsOK, [Next]_vars, NEW k \in Correlation
             PROVE  /\ row'[k].at = "none" <=> row'[k].of = None
                    /\ row'[k].of # None => Cor[row'[k].of] = k
  BY DEF RowsOK
<1>1. RowStep(k)
  BY RowSteps
<1>2. /\ row[k].at = "none" <=> row[k].of = None
      /\ row[k].of # None => Cor[row[k].of] = k
  BY DEF RowsOK
<1>3. CASE row'[k] = row[k]
  BY <1>2, <1>3
<1>4. CASE \E c \in Call :
             k = Cor[c] /\ row'[k] = [of |-> c, at |-> "pending", uncertain |-> FALSE]
  BY <1>4, NoneAssumption
<1>5. CASE row'[k].of = row[k].of /\ row[k].at # "none" /\ row'[k].at # "none"
  BY <1>2, <1>5
<1>6. QED
  BY <1>1, <1>3, <1>4, <1>5 DEF RowStep

\* A step that leaves the registry, or gives it the place of a request, and opens no
\* connection.
LEMMA RegistryKept ==
  ASSUME TypeOK, RegistryOK,
         \A s \in Socket : conn'[s] = "open" => conn[s] = "open",
         \/ registry' = registry
         \/ \E c \in Requests : \E v \in {c, None} : registry' = [registry EXCEPT ![Path(c)] = v]
  PROVE  RegistryOK'
<1>1. /\ registry \in [Paths -> Requests \cup Socket \cup {None}]
      /\ \A c \in Requests : c \in Call /\ c \notin Socket
      /\ None \notin Requests \cup Socket
  BY NoneAssumption DEF TypeOK, Requests
<1>2. /\ \A c \in Messages : Path(c) \in Paths /\ On[c] \in Socket
      /\ \A c \in Requests, d \in Messages : Path(c) # Path(d)
  BY Keys, <1>1
<1>3. CASE registry' = registry
  BY <1>2, <1>3 DEF RegistryOK
<1>4. ASSUME NEW c \in Requests, NEW v \in {c, None}, registry' = [registry EXCEPT ![Path(c)] = v]
      PROVE  RegistryOK'
  <2>1. \A p \in Paths : registry'[p] = IF p = Path(c) THEN v ELSE registry[p]
    BY <1>1, <1>4
  <2>2. \A p \in Paths : registry'[p] \in Requests => Path(registry'[p]) = p
    BY <1>1, <2>1 DEF RegistryOK
  <2>3. \A p \in Paths : registry'[p] \in Socket => p = <<"websocket", registry'[p]>>
    BY <1>1, <2>1 DEF RegistryOK
  <2>4. \A d \in Messages : conn'[On[d]] = "open" => registry'[Path(d)] = On[d]
    BY <1>2, <2>1 DEF RegistryOK
  <2>5. QED
    BY <2>2, <2>3, <2>4 DEF RegistryOK
<1>5. QED
  BY <1>3, <1>4

LEMMA RegistryStep == IInv /\ [Next]_vars => RegistryOK'
<1> SUFFICES ASSUME IInv, [Next]_vars
             PROVE  RegistryOK'
  OBVIOUS
<1>1. TypeOK /\ RowsOK /\ RegistryOK /\ MessagesOK
  BY DEF IInv
<1>2. conn \in [Socket -> ConnStates] /\ registry \in [Paths -> Requests \cup Socket \cup {None}]
      /\ None \notin Requests \cup Socket /\ Requests \cap Socket = {}
  BY <1>1, NoneAssumption DEF TypeOK, Requests
<1>3. CASE UNCHANGED <<registry, conn>>
  BY <1>1, <1>3, RegistryKept
<1>4. ASSUME NEW c \in Call, RegisterOnce(c) \/ Receive(c) \/ Leave(c)
      PROVE  RegistryOK'
  <2>1. conn' = conn
    BY <1>4 DEF RegisterOnce, Receive, Leave, sockets
  <2>2. c \in Requests
    BY <1>1, <1>4 DEF RegisterOnce, Receive, Leave, MessagesOK, Requests
  <2>3. \E v \in {c, None} : registry' = [registry EXCEPT ![Path(c)] = v]
    BY <1>4 DEF RegisterOnce, Receive, Leave, Forget
  <2>4. QED
    BY <1>1, <2>1, <2>2, <2>3, RegistryKept
<1>5. ASSUME NEW s \in Socket, RegisterMany(s)
      PROVE  RegistryOK'
  <2>1. /\ \A p \in Paths : registry'[p] = IF p = <<"websocket", s>> THEN s ELSE registry[p]
        /\ \A t \in Socket : conn'[t] = IF t = s THEN "open" ELSE conn[t]
    BY <1>2, <1>5 DEF RegisterMany
  <2>2. /\ \A p \in Paths : registry'[p] \in Requests => Path(registry'[p]) = p
        /\ \A p \in Paths : registry'[p] \in Socket => p = <<"websocket", registry'[p]>>
    BY <1>1, <1>2, <2>1 DEF RegistryOK
  <2>3. \A d \in Messages : conn'[On[d]] = "open" => registry'[Path(d)] = On[d]
    <3>1. \A d \in Messages : Path(d) \in Paths /\ On[d] \in Socket /\ Path(d) = <<"websocket", On[d]>>
      BY Keys
    <3>2. \A d \in Messages : Path(d) = <<"websocket", s>> <=> On[d] = s
      BY <3>1
    <3>3. QED
      BY <1>1, <2>1, <3>1, <3>2 DEF RegistryOK
  <2>4. QED
    BY <2>2, <2>3 DEF RegistryOK
<1>6. ASSUME NEW s \in Socket, Close(s)
      PROVE  RegistryOK'
  <2>1. /\ \A p \in Paths : registry'[p] = IF p = <<"websocket", s>> THEN None ELSE registry[p]
        /\ \A t \in Socket : conn'[t] = IF t = s THEN "closed" ELSE conn[t]
    BY <1>2, <1>6 DEF Close
  <2>2. /\ \A p \in Paths : registry'[p] \in Requests => Path(registry'[p]) = p
        /\ \A p \in Paths : registry'[p] \in Socket => p = <<"websocket", registry'[p]>>
    BY <1>1, <1>2, <2>1 DEF RegistryOK
  <2>3. \A d \in Messages : conn'[On[d]] = "open" => registry'[Path(d)] = On[d]
    <3>1. \A d \in Messages : Path(d) \in Paths /\ On[d] \in Socket /\ Path(d) = <<"websocket", On[d]>>
      BY Keys
    <3>2. \A d \in Messages : Path(d) = <<"websocket", s>> <=> On[d] = s
      BY <3>1
    <3>3. QED
      BY <1>1, <2>1, <3>1, <3>2 DEF RegistryOK
  <2>4. QED
    BY <2>2, <2>3 DEF RegistryOK
<1>7. ASSUME NEW s \in Socket, WriterEnds(s)
      PROVE  RegistryOK'
  <2>1. registry' = registry /\ \A t \in Socket : conn'[t] = "open" => conn[t] = "open"
    BY <1>2, <1>7 DEF WriterEnds
  <2>2. QED
    BY <1>1, <2>1, RegistryKept
<1>8. ASSUME NEW k \in Correlation, Send(k)
      PROVE  RegistryOK'
  <2> DEFINE d == row[k].of
             to == registry[Path(d)]
             used == [registry EXCEPT ![Path(d)] = None]
  <2>1. /\ d \in Call /\ Path(d) \in Paths /\ conn' = conn
        /\ \/ registry' = registry
           \/ registry' = used /\ (to \in {None} \cup Requests \/ (to \in Socket /\ conn[to] # "open"))
    BY <1>1, <1>8, SendChanges
  <2>2. CASE registry' = registry
    BY <1>3, <2>1, <2>2
  <2>3. CASE registry' = used /\ (to \in {None} \cup Requests \/ (to \in Socket /\ conn[to] # "open"))
    <3> HIDE DEF d
    <3>1. \A p \in Paths : registry'[p] = IF p = Path(d) THEN None ELSE registry[p]
      BY <1>2, <2>1, <2>3
    <3>2. /\ \A p \in Paths : registry'[p] \in Requests => Path(registry'[p]) = p
          /\ \A p \in Paths : registry'[p] \in Socket => p = <<"websocket", registry'[p]>>
      BY <1>1, <1>2, <3>1 DEF RegistryOK
    <3>3. ASSUME NEW c \in Messages, conn'[On[c]] = "open"
          PROVE  registry'[Path(c)] = On[c]
      <4>1. conn[On[c]] = "open" /\ registry[Path(c)] = On[c] /\ On[c] \in Socket /\ Path(c) \in Paths
        BY <1>1, <2>1, <3>3, Keys DEF RegistryOK
      <4>2. Path(c) # Path(d)
        BY <1>2, <2>3, <4>1
      <4>3. QED
        BY <3>1, <4>1, <4>2
    <3>4. QED
      BY <3>2, <3>3 DEF RegistryOK
  <2>4. QED
    BY <2>1, <2>2, <2>3
<1>9. CASE Crash
  <2>1. /\ \A p \in Paths : registry'[p] = None
        /\ \A s \in Socket : conn'[s] # "open"
    BY <1>2, <1>9 DEF Crash
  <2>2. \A c \in Messages : On[c] \in Socket
    BY Keys
  <2>3. QED
    BY <1>2, <2>1, <2>2 DEF RegistryOK
<1>10. CASE \E c \in Call : Ends(c)
  BY <1>1, <1>3, <1>10, EndChanges DEF sockets
<1>11. CASE \E c \in Call : \/ ServicePass(c) \/ Accept(c) \/ Join(c) \/ GiveUp(c) \/ Drop(c)
                           \/ Frame(c) \/ FrameFails(c) \/ SpawnProcess(c)
  BY <1>3, <1>11 DEF ServicePass, Accept, Join, GiveUp, Drop, Frame, FrameFails, SpawnProcess,
                     sockets
<1>12. CASE \/ \E s \in Socket : Write(s)
            \/ \E k \in Correlation : Claim(k) \/ Settle(k)
            \/ UNCHANGED vars
  BY <1>3, <1>12 DEF Write, Claim, Settle, sockets, vars
<1>13. QED
  BY <1>4, <1>5, <1>6, <1>7, <1>8, <1>9, <1>10, <1>11, <1>12 DEF Next, Ends

\* The elements of a sequence without repetitions, less the first or one more.
LEMMA TailElements ==
  ASSUME NEW S, NEW q \in Seq(S), q # <<>>, \A i, j \in DOMAIN q : q[i] = q[j] => i = j
  PROVE  /\ \E i \in DOMAIN q : q[i] = Head(q)
         /\ \A i \in DOMAIN Tail(q) :
              Tail(q)[i] # Head(q) /\ \E j \in DOMAIN q : q[j] = Tail(q)[i]
         /\ \A i, j \in DOMAIN Tail(q) : Tail(q)[i] = Tail(q)[j] => i = j
<1>1. Len(q) \in Nat \ {0} /\ DOMAIN q = 1..Len(q)
  BY EmptySeq, LenProperties
<1>2. /\ Tail(q) \in Seq(S) /\ Len(Tail(q)) = Len(q) - 1 /\ Head(q) = q[1]
      /\ \A i \in 1..Len(Tail(q)) : Tail(q)[i] = q[i + 1]
  BY HeadTailProperties
<1>3. DOMAIN Tail(q) = 1..(Len(q) - 1)
  BY <1>2, LenProperties
<1>4. \A i \in DOMAIN Tail(q) : Tail(q)[i] = q[i + 1] /\ i + 1 \in DOMAIN q /\ i + 1 # 1 /\ i \in Int
  BY <1>1, <1>2, <1>3
<1>5. 1 \in DOMAIN q /\ Head(q) = q[1]
  BY <1>1, <1>2
<1>6. \A i \in DOMAIN Tail(q) :
        Tail(q)[i] # Head(q) /\ \E j \in DOMAIN q : q[j] = Tail(q)[i]
  BY <1>4, <1>5
<1>7. ASSUME NEW i \in DOMAIN Tail(q), NEW j \in DOMAIN Tail(q), Tail(q)[i] = Tail(q)[j]
      PROVE  i = j
  <2>1. i + 1 = j + 1
    BY <1>4, <1>7
  <2>2. QED
    BY <1>4, <2>1
<1>8. QED
  BY <1>5, <1>6, <1>7

LEMMA AppendElements ==
  ASSUME NEW S, NEW q \in Seq(S), NEW x \in S, \A i, j \in DOMAIN q : q[i] = q[j] => i = j,
         \A i \in DOMAIN q : q[i] # x
  PROVE  /\ \A i \in DOMAIN Append(q, x) :
              Append(q, x)[i] = x \/ \E j \in DOMAIN q : q[j] = Append(q, x)[i]
         /\ \A i, j \in DOMAIN Append(q, x) : Append(q, x)[i] = Append(q, x)[j] => i = j
<1>1. Len(q) \in Nat /\ DOMAIN q = 1..Len(q)
  BY LenProperties
<1>2. /\ Append(q, x) \in Seq(S) /\ Len(Append(q, x)) = Len(q) + 1
      /\ \A i \in 1..Len(q) : Append(q, x)[i] = q[i]
      /\ Append(q, x)[Len(q) + 1] = x
  BY AppendProperties
<1>3. DOMAIN Append(q, x) = 1..(Len(q) + 1)
  BY <1>2, LenProperties
<1>4. \A i \in DOMAIN Append(q, x) :
        \/ i \in DOMAIN q /\ Append(q, x)[i] = q[i]
        \/ i = Len(q) + 1 /\ Append(q, x)[i] = x
  BY <1>1, <1>2, <1>3
<1>5. QED
  BY <1>4

\* A queue that a step leaves alone, with the ids of its messages.
LEMMA QueueKept ==
  ASSUME SentCalls \subseteq SentCalls', NEW s \in Socket, QueueOf(s),
         queue'[s] = queue[s], \A i \in DOMAIN queue[s] : queue[s][i] \in ids'
  PROVE  QueueOf(s)'
  BY DEF QueueOf

LEMMA QueueStep == IInv /\ [Next]_vars => QueueOK'
<1> SUFFICES ASSUME IInv, [Next]_vars
             PROVE  QueueOK'
  OBVIOUS
<1>1. TypeOK /\ RowsOK /\ RegistryOK /\ QueueOK /\ MessagesOK
  BY DEF IInv
<1>2. queue \in [Socket -> Seq(Messages)]
  BY <1>1 DEF TypeOK
<1>3. ~Crash => SentCalls \subseteq SentCalls'
  BY <1>1, HasChanges DEF SentCalls
<1>4. CASE queue' = queue /\ ids \subseteq ids' /\ ~Crash
  <2>1. \A s \in Socket : QueueOf(s) /\ \A i \in DOMAIN queue[s] : queue[s][i] \in ids'
    BY <1>1, <1>4 DEF QueueOK, QueueOf
  <2>2. QED
    BY <1>3, <1>4, <2>1, QueueKept DEF QueueOK
<1>5. ASSUME NEW s \in Socket, queue'[s] = <<>>
      PROVE  QueueOf(s)'
  BY <1>5 DEF QueueOf
<1>6. CASE Crash
  <2>1. \A s \in Socket : queue'[s] = <<>>
    BY <1>6 DEF Crash
  <2>2. QED
    BY <1>5, <2>1 DEF QueueOK
<1>7. ASSUME NEW s \in Socket, Write(s), ~Crash
      PROVE  QueueOK'
  <2>1. PICK q : q = queue[s]
    OBVIOUS
  <2>2. /\ q \in Seq(Messages) /\ q # <<>> /\ queue' = [queue EXCEPT ![s] = Tail(q)]
        /\ ids' = ids \ {Head(q)}
    BY <1>2, <1>7, <2>1 DEF Write
  <2>3. /\ \A i \in DOMAIN q : On[q[i]] = s /\ q[i] \in ids \cap SentCalls
        /\ \A i, j \in DOMAIN q : q[i] = q[j] => i = j
    BY <1>1, <2>1 DEF QueueOK, QueueOf
  <2>4. /\ \E i \in DOMAIN q : q[i] = Head(q)
        /\ \A i \in DOMAIN Tail(q) :
             Tail(q)[i] # Head(q) /\ \E j \in DOMAIN q : q[j] = Tail(q)[i]
        /\ \A i, j \in DOMAIN Tail(q) : Tail(q)[i] = Tail(q)[j] => i = j
    BY <2>2, <2>3, TailElements
  <2>5. QueueOf(s)'
    <3>1. queue'[s] = Tail(q)
      BY <1>2, <2>2
    <3>2. \A i \in DOMAIN Tail(q) :
            On[Tail(q)[i]] = s /\ Tail(q)[i] \in ids' \cap SentCalls'
      BY <1>3, <1>7, <2>2, <2>3, <2>4
    <3>3. QED
      BY <2>4, <3>1, <3>2 DEF QueueOf
  <2>6. ASSUME NEW t \in Socket, t # s
        PROVE  QueueOf(t)'
    <3>1. queue'[t] = queue[t] /\ QueueOf(t)
      BY <1>1, <1>2, <2>2, <2>6 DEF QueueOK
    <3>2. On[Head(q)] = s
      BY <2>3, <2>4
    <3>3. \A i \in DOMAIN queue[t] : queue[t][i] \in ids'
      BY <2>2, <2>6, <3>1, <3>2 DEF QueueOf
    <3>4. QED
      BY <1>3, <1>7, <3>1, <3>3, QueueKept
  <2>7. QED
    BY <2>5, <2>6 DEF QueueOK
<1>8. ASSUME NEW s \in Socket, WriterEnds(s) \/ Close(s), ~Crash
      PROVE  QueueOK'
  <2>1. queue' = [queue EXCEPT ![s] = <<>>] /\ {c \in ids : On[c] # s} \subseteq ids'
    BY <1>8 DEF WriterEnds, Close
  <2>2. QueueOf(s)'
    BY <1>2, <1>5, <2>1
  <2>3. ASSUME NEW t \in Socket, t # s
        PROVE  QueueOf(t)'
    <3>1. queue'[t] = queue[t] /\ QueueOf(t)
      BY <1>1, <1>2, <2>1, <2>3 DEF QueueOK
    <3>2. \A i \in DOMAIN queue[t] : queue[t][i] \in ids'
      BY <2>1, <2>3, <3>1 DEF QueueOf
    <3>3. QED
      BY <1>3, <1>8, <3>1, <3>2, QueueKept
  <2>4. QED
    BY <2>2, <2>3 DEF QueueOK
<1>9. ASSUME NEW k \in Correlation, Send(k), ~Crash
      PROVE  QueueOK'
  <2>1. PICK d, to : d = row[k].of /\ to = registry[Path(d)]
    OBVIOUS
  <2>2. /\ row[k].at = "in_flight" /\ d \in Call /\ Cor[d] = k /\ conn' = conn /\ ids' = ids
        /\ \/ queue' = queue
           \/ /\ d \in Messages /\ to = On[d] /\ conn[to] = "open"
              /\ queue' = [queue EXCEPT ![to] = Append(@, d)] /\ row'[k].at = "delivered"
    BY <1>1, <1>9, <2>1, SendChanges
  <2>3. CASE queue' = queue
    BY <1>4, <1>9, <2>2, <2>3
  <2>4. CASE /\ d \in Messages /\ to = On[d] /\ conn[to] = "open"
             /\ queue' = [queue EXCEPT ![to] = Append(@, d)] /\ row'[k].at = "delivered"
    <3>1. PICK q : q = queue[to]
      OBVIOUS
    <3>2. to \in Socket /\ q \in Seq(Messages) /\ queue'[to] = Append(q, d) /\ QueueOf(to)
      <4>1. to \in Socket
        BY <2>4, OnAssumption DEF Messages
      <4>2. QED
        BY <1>1, <1>2, <2>4, <3>1, <4>1 DEF QueueOK
    <3>3. Has(d) /\ d \notin SentCalls /\ d \in ids
      BY <1>1, <2>1, <2>2, <2>4 DEF SentCalls, Sent, Has, MessagesOK, Active
    <3>4. d \in SentCalls'
      BY <1>1, <2>2, <2>4, <3>3, HasChanges DEF SentCalls, Sent
    <3>5. /\ \A i \in DOMAIN q : On[q[i]] = to /\ q[i] \in ids \cap SentCalls /\ q[i] # d
          /\ \A i, j \in DOMAIN q : q[i] = q[j] => i = j
      BY <3>1, <3>2, <3>3 DEF QueueOf
    <3>6. /\ \A i \in DOMAIN Append(q, d) :
               Append(q, d)[i] = d \/ \E j \in DOMAIN q : q[j] = Append(q, d)[i]
          /\ \A i, j \in DOMAIN Append(q, d) : Append(q, d)[i] = Append(q, d)[j] => i = j
      BY <2>4, <3>2, <3>5, AppendElements
    <3>7. \A i \in DOMAIN Append(q, d) :
            On[Append(q, d)[i]] = to /\ Append(q, d)[i] \in ids' \cap SentCalls'
      BY <1>3, <1>9, <2>2, <2>4, <3>3, <3>4, <3>5, <3>6
    <3>8. QueueOf(to)'
      <4>1. PICK u : u = Append(q, d)
        OBVIOUS
      <4>2. PICK s \in Socket : s = to
        BY <3>2
      <4>3. QueueOf(s)'
        <5>1. /\ queue'[s] = u
              /\ \A i \in DOMAIN u : On[u[i]] = s /\ u[i] \in ids' \cap SentCalls'
              /\ \A i, j \in DOMAIN u : u[i] = u[j] => i = j
          BY <3>2, <3>6, <3>7, <4>1, <4>2
        <5>2. QED
          BY <5>1 DEF QueueOf
      <4>4. QED
        BY <4>2, <4>3
    <3>9. ASSUME NEW t \in Socket, t # to
          PROVE  QueueOf(t)'
      <4>1. queue'[t] = queue[t] /\ QueueOf(t)
        BY <1>1, <1>2, <2>4, <3>9 DEF QueueOK
      <4>2. QED
        BY <1>3, <1>9, <2>2, <4>1, QueueKept DEF QueueOf
    <3>10. QED
      BY <3>8, <3>9 DEF QueueOK
  <2>5. QED
    BY <2>2, <2>3, <2>4
<1>10. CASE \E c \in Call : Ends(c)
  BY <1>1, <1>4, <1>6, <1>10, EndChanges DEF sockets
<1>11. CASE \/ \E c \in Call : \/ ServicePass(c) \/ Accept(c) \/ RegisterOnce(c) \/ Join(c)
                              \/ Receive(c) \/ GiveUp(c) \/ Leave(c) \/ Drop(c)
                              \/ Frame(c) \/ FrameFails(c) \/ SpawnProcess(c)
            \/ \E s \in Socket : RegisterMany(s)
            \/ \E k \in Correlation : Claim(k) \/ Settle(k)
            \/ UNCHANGED vars
  <2>1. queue' = queue /\ ids \subseteq ids'
    BY <1>11 DEF ServicePass, Accept, RegisterOnce, Join, Receive, GiveUp, Leave, Drop, Frame,
       FrameFails, SpawnProcess, RegisterMany, Claim, Settle, sockets, vars
  <2>2. QED
    BY <1>4, <1>6, <2>1
<1>12. CASE \E s \in Socket : Write(s) \/ WriterEnds(s) \/ Close(s)
  BY <1>6, <1>7, <1>8, <1>12
<1>13. CASE \E k \in Correlation : Send(k)
  BY <1>6, <1>9, <1>13
<1>14. QED
  BY <1>6, <1>10, <1>11, <1>12, <1>13 DEF Next, Ends

\* An id is forgotten only with the answer on its way, or with the connection; and
\* no connection opens twice.
LEMMA ConnectionChanges ==
  ASSUME TypeOK, QueueOK, [Next]_vars, NEW c \in Messages
  PROVE  /\ conn[On[c]] # "none" => conn'[On[c]] # "none"
         /\ conn[On[c]] # "none" /\ conn'[On[c]] = "open" =>
              ~Crash /\ conn[On[c]] = "open" /\ (c \in ids => c \in ids' \/ Sent(c))
<1> DEFINE Goal ==
      /\ conn[On[c]] # "none" => conn'[On[c]] # "none"
      /\ conn[On[c]] # "none" /\ conn'[On[c]] = "open" =>
           ~Crash /\ conn[On[c]] = "open" /\ (c \in ids => c \in ids' \/ Sent(c))
<1> SUFFICES Goal
  OBVIOUS
<1>1. conn \in [Socket -> ConnStates] /\ On[c] \in Socket /\ queue \in [Socket -> Seq(Messages)]
  BY Keys DEF TypeOK
<1>2. CASE Crash
  BY <1>1, <1>2 DEF Crash
<1>3. CASE conn' = conn /\ (c \in ids => c \in ids' \/ Sent(c))
  BY <1>2, <1>3
<1>4. ASSUME NEW s \in Socket, RegisterMany(s) \/ WriterEnds(s) \/ Close(s)
      PROVE  Goal
  <2>1. /\ \A t \in Socket : t # s => conn'[t] = conn[t]
        /\ conn'[s] # "none" /\ (conn'[s] = "open" => conn[s] = "none")
        /\ {d \in ids : On[d] # s} \subseteq ids'
    BY <1>1, <1>4 DEF RegisterMany, WriterEnds, Close
  <2>2. On[c] # s /\ c \in ids => c \in ids'
    BY <2>1
  <2>3. QED
    BY <1>1, <1>2, <2>1, <2>2
<1>5. ASSUME NEW s \in Socket, Write(s)
      PROVE  Goal
  <2>1. PICK q : q = queue[s]
    OBVIOUS
  <2>2. q \in Seq(Messages) /\ q # <<>> /\ ids' = ids \ {Head(q)} /\ conn' = conn
    BY <1>1, <1>5, <2>1 DEF Write
  <2>3. \A i \in DOMAIN q : q[i] \in SentCalls
    BY <2>1 DEF QueueOK, QueueOf
  <2>4. Head(q) \in SentCalls
    BY <2>1, <2>2, <2>3, TailElements DEF QueueOK, QueueOf
  <2>5. QED
    BY <1>3, <2>2, <2>4 DEF SentCalls
<1>6. CASE \E d \in Call : Ends(d)
  BY <1>3, <1>6, EndChanges DEF sockets
<1>7. CASE \/ \E d \in Call : \/ ServicePass(d) \/ Accept(d) \/ RegisterOnce(d) \/ Join(d)
                              \/ Receive(d) \/ GiveUp(d) \/ Leave(d) \/ Drop(d)
                              \/ Frame(d) \/ FrameFails(d) \/ SpawnProcess(d)
           \/ \E k \in Correlation : Claim(k) \/ Send(k) \/ Settle(k)
           \/ UNCHANGED vars
  <2>1. conn' = conn /\ ids \subseteq ids'
    BY <1>7, Zenon DEF ServicePass, Accept, RegisterOnce, Join, Receive, GiveUp, Leave, Drop, Frame,
       FrameFails, SpawnProcess, Claim, Send, Settle, sockets, vars
  <2>2. c \in ids => c \in ids'
    BY <2>1
  <2>3. QED
    BY <1>3, <2>1, <2>2
<1> HIDE DEF Goal
<1>8. QED
  BY <1>2, <1>4, <1>5, <1>6, <1>7 DEF Next, Ends

LEMMA MessagesStep == IInv /\ [Next]_vars => MessagesOK'
<1> SUFFICES ASSUME IInv, [Next]_vars, NEW c \in Messages
             PROVE  /\ at'[c] \in {"new", "register", "over"}
                    /\ Active(c)' => /\ conn'[On[c]] # "none"
                                     /\ conn'[On[c]] = "open" => c \in ids' \/ Sent(c)'
  BY DEF MessagesOK
<1>1. TypeOK /\ RowsOK /\ QueueOK /\ MessagesOK /\ c \in Call /\ c \notin Requests
  BY Keys DEF IInv, Requests
<1>2. at[c] \in {"new", "register", "over"} /\ at'[c] \in {"new", "register", "over"}
  BY <1>1, AtChanges DEF MessagesOK
<1>3. ASSUME Active(c)'
      PROVE  /\ conn'[On[c]] # "none"
             /\ conn'[On[c]] = "open" => c \in ids' \/ Sent(c)'
  <2>1. Active(c) \/ Frame(c)
    <3>1. ~Accept(c) /\ ~RunInline(c)
      BY <1>1, <1>2 DEF Accept, RunInline
    <3>2. QED
      BY <1>1, <1>3, <3>1, ActiveChanges
  <2>2. CASE Frame(c)
    BY <2>2 DEF Frame
  <2>3. CASE Active(c)
    <3>1. /\ conn[On[c]] # "none"
          /\ conn[On[c]] = "open" => c \in ids \/ Sent(c)
      BY <1>1, <2>3 DEF MessagesOK
    <3>2. ~Crash /\ Sent(c) => Sent(c)'
      BY <1>1, HasChanges
    <3>3. QED
      BY <1>1, <3>1, <3>2, ConnectionChanges
  <2>4. QED
    BY <2>1, <2>2, <2>3
<1>4. QED
  BY <1>2, <1>3

LEMMA FreshStep == IInv /\ [Next]_vars => FreshOK'
<1> SUFFICES ASSUME IInv, [Next]_vars, NEW c \in Call
             PROVE  /\ at'[c] = "new" => ~Active(c)'
                    /\ at'[c] = "register" /\ c \in Requests \ Contracted =>
                         c \notin resumed' /\ job'[c] = "none" /\ ~Has(c)'
  BY DEF FreshOK
<1>1. TypeOK /\ RowsOK /\ FreshOK /\ at \in [Call -> Stages] /\ job \in [Call -> JobEnds]
  BY DEF IInv, TypeOK
<1>2. ASSUME at'[c] = "new"
      PROVE  ~Active(c)'
  <2>1. at[c] = "new" /\ ~Active(c)
    BY <1>1, <1>2, AtChanges DEF FreshOK
  <2>2. ~Accept(c) /\ ~Frame(c) /\ ~RunInline(c)
    BY <1>1, <1>2, <2>1 DEF Accept, Frame, RunInline
  <2>3. QED
    BY <1>1, <2>1, <2>2, ActiveChanges
<1>3. ASSUME at'[c] = "register", c \in Requests \ Contracted
      PROVE  c \notin resumed' /\ job'[c] = "none" /\ ~Has(c)'
  <2>1. at[c] = "register" \/ Accept(c)
    BY <1>1, <1>3, AtChanges DEF Frame, Requests
  <2>2. c \notin resumed /\ job[c] = "none" /\ ~Has(c)
    BY <1>1, <1>3, <2>1 DEF FreshOK, Accept, Active
  <2>3. ~Ends(c)
    BY <1>3, <2>1, <2>2 DEF Ends, RunJob, RunResumed, RunInline, Accept
  <2>4. ~Has(c)'
    BY <1>1, <2>2, <2>3, HasChanges, Zenon
  <2>5. c \notin resumed' /\ job'[c] = "none"
    <3>1. CASE \E d \in Call : Ends(d)
      BY <1>1, <2>2, <3>1, EndChanges
    <3>2. CASE \E d \in Call : ServicePass(d)
      BY <1>3, <2>2, <3>2 DEF ServicePass
    <3>3. CASE \E d \in Call : RegisterOnce(d) \/ Join(d) \/ SpawnProcess(d)
      <4>1. PICK d \in Call : RegisterOnce(d) \/ Join(d) \/ SpawnProcess(d)
        BY <3>3
      <4>2. resumed' = resumed /\ d # c
        BY <1>1, <1>3, <4>1 DEF RegisterOnce, Join, SpawnProcess
      <4>3. job'[c] = job[c]
        BY <1>1, <4>1, <4>2 DEF RegisterOnce, Join, SpawnProcess, Spawned
      <4>4. QED
        BY <2>2, <4>2, <4>3
    <3>4. CASE Crash
      BY <1>3, <3>4 DEF Crash
    <3>5. CASE \/ \E d \in Call : \/ Accept(d) \/ Receive(d) \/ GiveUp(d) \/ Leave(d)
                                  \/ Drop(d) \/ Frame(d) \/ FrameFails(d)
               \/ \E s \in Socket : RegisterMany(s) \/ Write(s) \/ WriterEnds(s) \/ Close(s)
               \/ \E k \in Correlation : Claim(k) \/ Send(k) \/ Settle(k)
               \/ UNCHANGED vars
      <4>1. resumed' = resumed /\ job' = job
        BY <3>5, Zenon DEF Accept, Receive, GiveUp, Leave, Drop, Frame, FrameFails, RegisterMany,
           Write, WriterEnds, Close, Claim, Send, Settle, work, vars
      <4>2. QED
        BY <2>2, <4>1
    <3>6. QED
      BY <3>1, <3>2, <3>3, <3>4, <3>5 DEF Next, Ends
  <2>6. QED
    BY <2>4, <2>5
<1>4. QED
  BY <1>2, <1>3

\* A client comes to hold an answer only when its row is sent.
LEMMA HoldsChanges ==
  ASSUME IInv, [Next]_vars, NEW c \in Call, NEW x \in Call, Holds(c, x)'
  PROVE  \/ Holds(c, x)
         \/ /\ Has(x) /\ row[Cor[x]].at = "in_flight" /\ row'[Cor[x]].at = "delivered"
            /\ \/ registry[Path(x)] \in Requests /\ c = registry[Path(x)]
               \/ registry[Path(x)] \in Socket /\ c = x
<1> DEFINE Goal ==
      \/ Holds(c, x)
      \/ /\ Has(x) /\ row[Cor[x]].at = "in_flight" /\ row'[Cor[x]].at = "delivered"
         /\ \/ registry[Path(x)] \in Requests /\ c = registry[Path(x)]
            \/ registry[Path(x)] \in Socket /\ c = x
<1> SUFFICES Goal
  OBVIOUS
<1>1. /\ TypeOK /\ RowsOK /\ RegistryOK /\ QueueOK /\ x # None
      /\ slot \in [Call -> Call \cup {None}] /\ reply \in [Call -> Call \cup {None}]
      /\ queue \in [Socket -> Seq(Messages)]
  BY NoneAssumption DEF IInv, TypeOK
<1>2. slot'[c] = x \/ reply'[c] = x \/ (c = x /\ Queued(x)')
  BY DEF Holds
<1>3. ASSUME slot'[c] = slot[c] \/ slot'[c] = None, reply'[c] \in {reply[c], slot[c]},
             Queued(x)' => Queued(x)
      PROVE  Goal
  BY <1>1, <1>2, <1>3 DEF Holds
<1>4. queue' = queue => (Queued(x)' => Queued(x))
  BY DEF Queued
<1>5. CASE UNCHANGED <<slot, reply, queue>>
  BY <1>3, <1>4, <1>5
<1>6. CASE \E d \in Call : Receive(d) \/ Join(d) \/ GiveUp(d) \/ Drop(d)
  <2>1. PICK d \in Call : Receive(d) \/ Join(d) \/ GiveUp(d) \/ Drop(d)
    BY <1>6
  <2>2. /\ queue' = queue /\ slot' \in {slot, [slot EXCEPT ![d] = None]}
        /\ reply' \in {reply, [reply EXCEPT ![d] = slot[d]]}
    BY <2>1 DEF Receive, Join, GiveUp, Drop, sockets
  <2>3. QED
    BY <1>1, <1>3, <1>4, <2>2
<1>7. ASSUME NEW s \in Socket, Write(s)
      PROVE  Goal
  <2>1. PICK q : q = queue[s]
    OBVIOUS
  <2>2. /\ q \in Seq(Messages) /\ q # <<>> /\ queue' = [queue EXCEPT ![s] = Tail(q)]
        /\ reply' = [reply EXCEPT ![Head(q)] = Head(q)] /\ slot' = slot
    BY <1>1, <1>7, <2>1 DEF Write
  <2>3. \A i, j \in DOMAIN q : q[i] = q[j] => i = j
    BY <1>1, <2>1 DEF QueueOK, QueueOf
  <2>4. /\ \E i \in DOMAIN q : q[i] = Head(q)
        /\ \A i \in DOMAIN Tail(q) : \E j \in DOMAIN q : q[j] = Tail(q)[i]
    BY <2>2, <2>3, TailElements
  <2>5. /\ \A t \in Socket : t # s => queue'[t] = queue[t]
        /\ queue'[s] = Tail(q)
    BY <1>1, <2>2
  <2>6. ASSUME Queued(x)'
        PROVE  Queued(x)
    <3>1. PICK t \in Socket : \E i \in DOMAIN queue'[t] : queue'[t][i] = x
      BY <2>6 DEF Queued
    <3>2. \E i \in DOMAIN queue[t] : queue[t][i] = x
      <4>1. CASE t = s
        <5>1. \E i \in DOMAIN Tail(q) : Tail(q)[i] = x
          BY <2>5, <3>1, <4>1
        <5>2. \E j \in DOMAIN q : q[j] = x
          BY <2>4, <5>1
        <5>3. QED
          BY <2>1, <4>1, <5>2
      <4>2. CASE t # s
        BY <2>5, <3>1, <4>2
      <4>3. QED
        BY <4>1, <4>2
    <3>3. QED
      BY <3>2 DEF Queued
  <2>7. reply'[c] = reply[c] \/ (reply'[c] = c /\ Queued(c))
    BY <1>1, <2>1, <2>2, <2>4 DEF Queued
  <2>8. QED
    BY <1>2, <2>2, <2>6, <2>7 DEF Holds
<1>8. ASSUME NEW s \in Socket, WriterEnds(s) \/ Close(s)
      PROVE  Goal
  <2>1. queue' = [queue EXCEPT ![s] = <<>>] /\ UNCHANGED <<slot, reply>>
    BY <1>8 DEF WriterEnds, Close, handlers
  <2>2. \A t \in Socket : queue'[t] = queue[t] \/ queue'[t] = <<>>
    BY <1>1, <2>1
  <2>3. Queued(x)' => Queued(x)
    BY <2>2 DEF Queued
  <2>4. QED
    BY <1>3, <2>1, <2>3
<1>9. CASE Crash
  <2>1. (\A t \in Socket : queue'[t] = <<>>) /\ slot'[c] = None /\ reply' = reply
    BY <1>9 DEF Crash
  <2>2. ~Queued(x)'
    BY <2>1 DEF Queued
  <2>3. QED
    BY <1>3, <2>1, <2>2
<1>10. ASSUME NEW k \in Correlation, Send(k)
      PROVE  Goal
  <2>1. PICK d, to : d = row[k].of /\ to = registry[Path(d)]
    OBVIOUS
  <2>2. /\ row[k].at = "in_flight" /\ d \in Call /\ Cor[d] = k /\ reply' = reply
        /\ \/ UNCHANGED <<slot, queue>>
           \/ /\ to \in Requests /\ slot' = [slot EXCEPT ![to] = d]
              /\ row'[k].at = "delivered" /\ UNCHANGED queue
           \/ /\ d \in Messages /\ to = On[d]
              /\ queue' = [queue EXCEPT ![to] = Append(@, d)] /\ row'[k].at = "delivered"
              /\ UNCHANGED slot
    BY <1>1, <1>10, <2>1, SendChanges
  <2>3. CASE UNCHANGED <<slot, queue>>
    BY <1>5, <2>2, <2>3
  <2>4. CASE /\ to \in Requests /\ slot' = [slot EXCEPT ![to] = d]
             /\ row'[k].at = "delivered" /\ UNCHANGED queue
    <3>1. Holds(c, x) \/ (x = d /\ c = to)
      <4>1. slot'[c] = slot[c] \/ (c = to /\ slot'[c] = d)
        BY <1>1, <2>4
      <4>2. QED
        BY <1>2, <1>4, <2>2, <2>4, <4>1 DEF Holds
    <3>2. QED
      BY <2>1, <2>2, <2>4, <3>1 DEF Has
  <2>5. CASE /\ d \in Messages /\ to = On[d]
             /\ queue' = [queue EXCEPT ![to] = Append(@, d)] /\ row'[k].at = "delivered"
             /\ UNCHANGED slot
    <3>1. PICK q : q = queue[to]
      OBVIOUS
    <3>2. to \in Socket /\ q \in Seq(Messages) /\ queue'[to] = Append(q, d)
      BY <1>1, <2>5, <3>1, Keys
    <3>3. \A i \in DOMAIN Append(q, d) : Append(q, d)[i] = d \/ \E j \in DOMAIN q : q[j] = Append(q, d)[i]
      <4>1. Len(q) \in Nat /\ DOMAIN q = 1..Len(q)
        BY <3>2, LenProperties
      <4>2. /\ Append(q, d) \in Seq(Messages) /\ Len(Append(q, d)) = Len(q) + 1
            /\ \A i \in 1..Len(q) : Append(q, d)[i] = q[i]
            /\ Append(q, d)[Len(q) + 1] = d
        BY <2>5, <3>2, AppendProperties
      <4>3. DOMAIN Append(q, d) = 1..(Len(q) + 1)
        BY <4>2, LenProperties
      <4>4. QED
        BY <4>1, <4>2, <4>3
    <3>4. Queued(x)' => Queued(x) \/ x = d
      BY <1>1, <2>5, <3>1, <3>2, <3>3 DEF Queued
    <3>5. Holds(c, x) \/ (x = d /\ c = x)
      BY <1>2, <2>2, <2>5, <3>4 DEF Holds
    <3>6. QED
      <4>1. x = d => Has(x) /\ Cor[x] = k /\ to = registry[Path(x)]
        BY <2>1, <2>2 DEF Has
      <4>2. QED
        BY <2>2, <2>5, <3>2, <3>5, <4>1
  <2>6. QED
    BY <2>2, <2>3, <2>4, <2>5
<1>11. CASE \E d \in Call : Ends(d)
  BY <1>1, <1>5, <1>11, EndChanges DEF sockets
<1>12. CASE \/ \E d \in Call : \/ ServicePass(d) \/ Accept(d) \/ RegisterOnce(d) \/ Leave(d)
                               \/ Frame(d) \/ FrameFails(d) \/ SpawnProcess(d)
            \/ \E s \in Socket : RegisterMany(s)
            \/ \E k \in Correlation : Claim(k) \/ Settle(k)
            \/ UNCHANGED vars
  <2>1. UNCHANGED <<slot, reply, queue>>
    BY <1>12 DEF ServicePass, Accept, RegisterOnce, Leave, Frame, FrameFails, SpawnProcess,
       RegisterMany, Claim, Settle, handlers, sockets, vars
  <2>2. QED
    BY <1>5, <2>1
<1> HIDE DEF Goal
<1>13. CASE \E s \in Socket : Write(s) \/ WriterEnds(s) \/ Close(s)
  BY <1>7, <1>8, <1>13
<1>14. CASE \E k \in Correlation : Send(k)
  BY <1>10, <1>14
<1>15. QED
  BY <1>6, <1>9, <1>11, <1>12, <1>13, <1>14 DEF Next, Ends

LEMMA HeldStep == IInv /\ [Next]_vars => HeldOK'
<1> SUFFICES ASSUME IInv, [Next]_vars, NEW x \in Call
             PROVE  /\ \A c \in Call : Holds(c, x)' =>
                         Has(x)' /\ (Sent(x)' \/ row'[Cor[x]].uncertain)
                    /\ ~row'[Cor[x]].uncertain =>
                         \A c, d \in Call : Holds(c, x)' /\ Holds(d, x)' => c = d
  BY DEF HeldOK
<1>1. /\ TypeOK /\ RowsOK
      /\ \A c \in Call : Holds(c, x) => Has(x) /\ (Sent(x) \/ row[Cor[x]].uncertain)
      /\ ~row[Cor[x]].uncertain =>
           \A c, d \in Call : Holds(c, x) /\ Holds(d, x) => c = d
  BY DEF IInv, HeldOK
<1>2. /\ Has(x) => Has(x)'
      /\ Has(x) /\ row[Cor[x]].uncertain => row'[Cor[x]].uncertain
      /\ Sent(x) => Sent(x)' \/ row'[Cor[x]].uncertain
  BY <1>1, HasChanges
<1> DEFINE New(c) == /\ Has(x) /\ row[Cor[x]].at = "in_flight" /\ row'[Cor[x]].at = "delivered"
                     /\ \/ registry[Path(x)] \in Requests /\ c = registry[Path(x)]
                        \/ registry[Path(x)] \in Socket /\ c = x
<1>3. \A c \in Call : Holds(c, x)' => Holds(c, x) \/ New(c)
  BY HoldsChanges
<1>4. ASSUME NEW c \in Call, Holds(c, x)'
      PROVE  Has(x)' /\ (Sent(x)' \/ row'[Cor[x]].uncertain)
  <2>1. CASE Holds(c, x)
    BY <1>1, <1>2, <2>1
  <2>2. CASE New(c)
    BY <1>2, <2>2 DEF Sent
  <2>3. QED
    BY <1>3, <1>4, <2>1, <2>2
<1>5. ASSUME NEW c \in Call, NEW d \in Call, Holds(c, x)', Holds(d, x)', ~row'[Cor[x]].uncertain
      PROVE  c = d
  <2>1. Has(x) /\ ~row[Cor[x]].uncertain
    BY <1>1, <1>2, <1>3, <1>5
  <2>2. New(c) \/ New(d) => ~Sent(x)
    BY DEF Sent
  <2>3. New(c) /\ New(d) => c = d
    BY NoneAssumption DEF Requests
  <2>4. QED
    BY <1>1, <1>3, <1>5, <2>1, <2>2, <2>3
<1>6. QED
  BY <1>4, <1>5

LEMMA WaitingStep == IInv /\ [Next]_vars => WaitingOK'
<1> SUFFICES ASSUME IInv, [Next]_vars, NEW c \in Requests, Waiting(c)', Alone(c)'
             PROVE  registry'[Path(c)] = c \/ row'[Cor[c]].at \notin {"none", "pending", "in_flight"}
  BY DEF WaitingOK
<1> DEFINE Goal == registry'[Path(c)] = c \/ row'[Cor[c]].at \notin {"none", "pending", "in_flight"}
           Settled == row[Cor[c]].at \notin {"none", "pending", "in_flight"}
<1>1. /\ TypeOK /\ RowsOK /\ RegistryOK /\ MessagesOK /\ WaitingOK
      /\ registry \in [Paths -> Requests \cup Socket \cup {None}]
      /\ at \in [Call -> Stages] /\ c \in Call /\ Cor[c] \in Correlation
  BY CorAssumption DEF IInv, TypeOK, Requests
<1>2. Alone(c)
  <2>1. \A d \in Call : at'[d] \in {"new", "register"} => at[d] \in {"new", "register"}
    BY <1>1, AtChanges DEF Accept, Frame
  <2>2. QED
    BY <2>1 DEF Alone, Alike
<1>3. CASE RegisterOnce(c)
  BY <1>1, <1>3, Keys DEF RegisterOnce
<1>4. ASSUME ~RegisterOnce(c)
      PROVE  Waiting(c) /\ (registry[Path(c)] = c \/ Settled)
  BY <1>1, <1>2, <1>4, AtChanges DEF WaitingOK
<1>5. ~Crash
  BY <1>1 DEF Crash, Waiting
<1>6. Settled => row'[Cor[c]].at \notin {"none", "pending", "in_flight"}
  BY <1>1, <1>5, RowSteps DEF RowStep
<1>7. CASE registry'[Path(c)] = registry[Path(c)]
  BY <1>3, <1>4, <1>6, <1>7
<1>8. ASSUME NEW d \in Call, RegisterOnce(d) \/ Receive(d) \/ Leave(d), ~RegisterOnce(c)
      PROVE  Goal
  <2>1. \E v : registry' = [registry EXCEPT ![Path(d)] = v]
    BY <1>8 DEF RegisterOnce, Receive, Leave, Forget
  <2>2. at'[d] \in {"process", "over"} /\ d \in Call
    BY <1>1, <1>8 DEF RegisterOnce, Receive, Leave
  <2>3. d # c
    BY <1>1, <1>8 DEF Receive, Leave, Waiting
  <2>4. Path(d) # Path(c)
    BY <2>2, <2>3 DEF Alone, Alike
  <2>5. QED
    BY <1>1, <1>7, <2>1, <2>4, Keys
<1>9. ASSUME NEW s \in Socket, RegisterMany(s) \/ Close(s)
      PROVE  Goal
  <2>1. Path(c) # <<"websocket", s>> /\ Path(c) \in Paths
    BY <1>1, Keys
  <2>2. registry'[Path(c)] = registry[Path(c)]
    BY <1>9, <2>1 DEF RegisterMany, Close
  <2>3. QED
    BY <1>7, <2>2
<1>10. ASSUME NEW k \in Correlation, Send(k)
      PROVE  Goal
  <2>1. PICK d : d = row[k].of
    OBVIOUS
  <2>2. /\ d \in Call /\ Cor[d] = k /\ Path(d) \in Paths
        /\ registry' \in {registry, [registry EXCEPT ![Path(d)] = None]}
    BY <1>1, <1>10, <2>1, SendChanges
  <2>3. CASE Path(d) = Path(c)
    <3>1. k = Cor[c]
      BY <1>1, <2>2, <2>3, Keys
    <3>2. row[k].at = "in_flight" /\ \E s \in {"delivered", "gone"} : Moves(k, s)
      BY <1>10, Zenon DEF Send
    <3>3. row'[k].at \in {"delivered", "gone"}
      BY <1>1, <3>2, MoveChanges DEF RowStates
    <3>4. QED
      BY <3>1, <3>3
  <2>4. CASE Path(d) # Path(c)
    BY <1>1, <1>7, <2>2, <2>4, Keys
  <2>5. QED
    BY <2>3, <2>4
<1>11. CASE \E d \in Call : Ends(d)
  BY <1>1, <1>7, <1>11, EndChanges
<1>12. CASE \/ \E d \in Call : \/ ServicePass(d) \/ Accept(d) \/ Join(d) \/ GiveUp(d) \/ Drop(d)
                               \/ Frame(d) \/ FrameFails(d) \/ SpawnProcess(d)
            \/ \E s \in Socket : Write(s) \/ WriterEnds(s)
            \/ \E k \in Correlation : Claim(k) \/ Settle(k)
            \/ UNCHANGED vars
  <2>1. registry' = registry
    BY <1>12 DEF ServicePass, Accept, Join, GiveUp, Drop, Frame, FrameFails, SpawnProcess,
       Write, WriterEnds, Claim, Settle, vars
  <2>2. QED
    BY <1>7, <2>1
<1> SUFFICES Goal
  OBVIOUS
<1> HIDE DEF Goal
<1>13. CASE \E d \in Call : RegisterOnce(d) \/ Receive(d) \/ Leave(d)
  BY <1>3, <1>8, <1>13 DEF Goal
<1>14. CASE \E s \in Socket : RegisterMany(s) \/ Close(s)
  BY <1>9, <1>14
<1>15. CASE \E k \in Correlation : Send(k)
  BY <1>10, <1>15
<1>16. QED
  BY <1>5, <1>11, <1>12, <1>13, <1>14, <1>15 DEF Next, Ends, Goal

LEMMA InitKeeps == Init => IInv
<1> SUFFICES ASSUME Init
             PROVE  IInv
  OBVIOUS
<1>1. TypeOK
  BY InitTyped
<1>2. /\ \A k \in Correlation : row[k].of = None /\ row[k].at = "none"
      /\ \A p \in Paths : registry[p] = None
      /\ \A s \in Socket : conn[s] = "none" /\ queue[s] = <<>>
      /\ \A c \in Call : /\ at[c] \in {"new", "over"} /\ job[c] = "none"
                         /\ slot[c] = None /\ reply[c] = None
      /\ open = {} /\ resumed = {}
  BY DEF Init
<1>3. \A c \in Call : c # None /\ Cor[c] \in Correlation
  BY CorAssumption, NoneAssumption
<1>4. \A c \in Call : ~Has(c) /\ ~Active(c)
  BY <1>2, <1>3 DEF Has, Active
<1>5. RowsOK
  BY <1>2 DEF RowsOK
<1>6. RegistryOK
  BY <1>2, Keys, NoneAssumption DEF RegistryOK, Requests
<1>7. QueueOK
  BY <1>2 DEF QueueOK, QueueOf
<1>8. MessagesOK
  BY <1>2, <1>4, Keys DEF MessagesOK
<1>9. HeldOK
  <2>1. \A x \in Call : ~Queued(x)
    BY <1>2 DEF Queued
  <2>2. \A c, x \in Call : ~Holds(c, x)
    BY <1>2, <1>3, <2>1 DEF Holds
  <2>3. QED
    BY <2>2 DEF HeldOK
<1>10. FreshOK
  BY <1>2, <1>4 DEF FreshOK
<1>11. WaitingOK
  BY <1>2 DEF WaitingOK, Waiting, Requests
<1>12. QED
  BY <1>1, <1>5, <1>6, <1>7, <1>8, <1>9, <1>10, <1>11 DEF IInv

LEMMA Invariant == Spec => []IInv
<1>1. IInv /\ [Next]_vars => IInv'
  <2> SUFFICES ASSUME IInv, [Next]_vars
               PROVE  IInv'
    OBVIOUS
  <2>1. TypeOK' /\ RowsOK'
    BY TypeStep, RowsStep DEF IInv
  <2>2. RegistryOK' /\ QueueOK' /\ MessagesOK'
    BY RegistryStep, QueueStep, MessagesStep
  <2>3. HeldOK' /\ FreshOK' /\ WaitingOK'
    BY HeldStep, FreshStep, WaitingStep
  <2>4. QED
    BY <2>1, <2>2, <2>3 DEF IInv
<1>2. QED
  BY InitKeeps, <1>1, PTL DEF Spec

-----------------------------------------------------------------------------
(* What follows.                                                           *)

\* Every variable has its type in every reachable state: the handlers, the
\* registry and the connections never reach a state the code has no name for.
THEOREM CallsTypeCorrect == Spec => []TypeOK
<1>1. IInv => TypeOK
  BY DEF IInv
<1>2. QED
  BY Invariant, <1>1, PTL

\* However many requests share a correlation id, and whichever of them registers
\* last, the answer in the outbox gets to one client, unless a crash has made it
\* unsure whether it had been handed over before.
THEOREM AnswersReachOne == Spec => []AnsweredOnce
<1>1. IInv => AnsweredOnce
  <2> SUFFICES ASSUME IInv, NEW k \in Correlation, ~row[k].uncertain,
                      NEW c \in Call, NEW d \in Call,
                      reply[c] = row[k].of, reply[d] = row[k].of
               PROVE  c = d \/ reply[c] = None
    BY DEF AnsweredOnce
  <2>1. PICK x : x = row[k].of
    OBVIOUS
  <2>2. row[k] \in RowType
    BY DEF IInv, TypeOK, RowType
  <2>3. CASE x = None
    BY <2>1, <2>3
  <2>4. CASE x \in Call
    <3>1. Cor[x] = k
      BY <2>1, <2>4, NoneAssumption DEF IInv, RowsOK
    <3>2. Holds(c, x) /\ Holds(d, x)
      BY <2>1 DEF Holds
    <3>3. QED
      BY <2>4, <3>1, <3>2 DEF IInv, HeldOK
  <2>5. QED
    BY <2>1, <2>2, <2>3, <2>4 DEF RowType
<1>2. QED
  BY Invariant, <1>1, PTL

\* No message is answered without the id its client gave it: the connection still
\* remembers it when the answer gets to the writer, whoever ran the receipt.
THEOREM IdsComeBack == Spec => []IdComesBack
<1>1. Init => IdComesBack
  BY DEF Init, IdComesBack
<1>2. IInv /\ IdComesBack /\ [Next]_vars => IdComesBack'
  <2> SUFFICES ASSUME IInv, IdComesBack, [Next]_vars
               PROVE  IdComesBack'
    OBVIOUS
  <2>1. TypeOK /\ QueueOK /\ queue \in [Socket -> Seq(Messages)] /\ bare = {}
    BY DEF IInv, TypeOK, IdComesBack
  <2>2. ASSUME NEW s \in Socket, Write(s)
        PROVE  bare' = bare
    <3>1. PICK q : q = queue[s]
      OBVIOUS
    <3>2. /\ q \in Seq(Messages) /\ q # <<>>
          /\ Head(q) \in ids => bare' = bare
      BY <2>1, <2>2, <3>1 DEF Write
    <3>3. /\ \A i, j \in DOMAIN q : q[i] = q[j] => i = j
          /\ \A i \in DOMAIN q : q[i] \in ids
      BY <2>1, <3>1 DEF QueueOK, QueueOf
    <3>4. Head(q) \in ids
      BY <3>2, <3>3, TailElements
    <3>5. QED
      BY <3>2, <3>4
  <2>3. CASE \E c \in Call : Ends(c)
    <3>1. bare' = bare
      BY <2>1, <2>3, EndChanges DEF sockets
    <3>2. QED
      BY <2>1, <3>1 DEF IdComesBack
  <2>4. CASE \/ \E c \in Call : \/ ServicePass(c) \/ Accept(c) \/ RegisterOnce(c) \/ Join(c)
                                \/ Receive(c) \/ GiveUp(c) \/ Leave(c) \/ Drop(c)
                                \/ Frame(c) \/ FrameFails(c) \/ SpawnProcess(c)
             \/ \E s \in Socket : RegisterMany(s) \/ WriterEnds(s) \/ Close(s)
             \/ \E k \in Correlation : Claim(k) \/ Send(k) \/ Settle(k)
             \/ Crash
             \/ UNCHANGED vars
    <3>1. bare' = bare
      BY <2>4, Zenon DEF ServicePass, Accept, RegisterOnce, Join, Receive, GiveUp, Leave, Drop,
         Frame, FrameFails, SpawnProcess, RegisterMany, WriterEnds, Close, Claim, Send, Settle,
         Crash, sockets, vars
    <3>2. QED
      BY <2>1, <3>1 DEF IdComesBack
  <2>5. QED
    BY <2>1, <2>2, <2>3, <2>4 DEF Next, Ends, IdComesBack
<1>3. QED
  BY Invariant, <1>1, <1>2, PTL DEF Spec

\* Handback::Gone means that nobody waits: when the worker finds no way back for
\* an answer, the connection of its message is not open, or the client of its
\* request has been told or has left; the exceptions are the two that the property
\* names, a request under the same key that has been as far as register_once, and a
\* contracted call that the service worker ran first.
THEOREM GoneMeansNobodyWaits == Spec => GoneIfNobodyWaits
<1> DEFINE Step ==
      \A k \in Correlation :
        row[k].at = "in_flight" /\ row'[k].at = "gone" =>
          LET d == row[k].of
          IN \/ ~Wants(d)
             \/ d \in Contracted /\ at[d] = "register"
             \/ \E c \in Alike(d) \ {d} : at[c] \notin {"new", "register"}
<1>1. IInv /\ [Next]_vars => Step
  <2> SUFFICES ASSUME IInv, [Next]_vars, NEW k \in Correlation,
                      row[k].at = "in_flight", row'[k].at = "gone"
               PROVE  LET d == row[k].of
                      IN \/ ~Wants(d)
                         \/ d \in Contracted /\ at[d] = "register"
                         \/ ~Alone(d)
    BY DEF Alone
  <2>1. PICK d, to : d = row[k].of /\ to = registry[Path(d)]
    OBVIOUS
  <2>2. TypeOK /\ RowsOK /\ RegistryOK /\ FreshOK /\ WaitingOK
    BY DEF IInv
  <2>3. Send(k)
    BY <2>2, RowSteps DEF RowStep, Crash
  <2>4. /\ d \in Call /\ Cor[d] = k /\ Has(d)
        /\ ~(to \in Requests /\ Waiting(to))
        /\ ~(to \in Socket /\ conn[to] = "open")
    BY <2>1, <2>2, <2>3, SendChanges, NoneAssumption DEF Has, LateFor, Waiting, Requests
  <2>5. CASE d \in Messages
    BY <2>1, <2>2, <2>4, <2>5, Keys DEF RegistryOK, Wants
  <2>6. CASE d \in Requests
    <3>1. CASE at[d] = "register"
      BY <2>1, <2>2, <2>4, <2>6, <3>1 DEF FreshOK
    <3>2. CASE Waiting(d) /\ Alone(d)
      BY <2>1, <2>2, <2>4, <2>6, <3>2 DEF WaitingOK
    <3>3. QED
      BY <2>1, <2>6, <3>1, <3>2 DEF Wants, Requests
  <2>7. QED
    BY <2>4, <2>5, <2>6, Keys
<1>2. Spec => [][Step]_vars
  BY Invariant, <1>1, PTL DEF Spec
<1>3. QED
  BY <1>2 DEF GoneIfNobodyWaits

=============================================================================
