# Antenna: a TLA+ development

This directory holds TLA+ specifications of Antenna, the Rust gateway in
`src/`, of the TypeScript worker in `edge/` that passes GitHub's webhooks on to
it, and of the Python graphs in `runtime/` that it drives; the configurations
that model-check them with TLC, and proofs checked by TLAPS. Paths below are relative to the repository root; `delivery.rs:163`
means line 163 of `src/delivery.rs`, and `index.ts` is
`edge/github-ingress/src/index.ts`.

Antenna accepts *receipts* over HTTP, MCP, WebSocket and a GitHub webhook edge,
routes each one, runs a capability for it, and hands the outward effects to a
durable outbox. All durable state is one SQLite database behind one connection
and one lock (`storage/sqlite.rs`): a `db.call` is atomic with respect to every
other, and a transaction inside it is atomic with respect to a crash. Everything
else is process memory: tokio tasks, a registry of return paths, channels. The
interesting behaviour is in the gaps: between two `db.call`s of one task, between
a `db.call` and the effect it records, and at the crash that may fall anywhere.

## 1. Inventory

| Component | State | Operations | Talks to | What is hard |
|---|---|---|---|---|
| Journey (`journey.rs`, `receipt.rs`, `run.rs`) | `receipts.status`, `runs.status`, `route_events` | `accept`, `process` (route, claim, invoke, complete or fail), `recover` | router, capabilities, outbox, contract services | several calls per receipt with a crash, a dropped handler or an error in between; the same receipt processed again |
| Outbox (`delivery.rs`, `gatekeeper.rs`) | `deliveries`, `delivery_attempts` | `enqueue`, `claim_due`, `attempt`, `finish_attempt`, `settle`, `reschedule`, `recover` | return paths, HTTP receivers, gatekeeper, contract services | effects that cannot be rolled back, stale rows in tasks, the crash in the middle of an attempt |
| Return paths and calls (`returnpath.rs`, `ingress/{http,mcp,websocket}.rs`) | the registry, the waiting handlers, connection queues | register, send, forget, time out, disconnect | journey, outbox | an answer racing a timeout, two requests with one correlation id |
| Contract services (`services.rs`) | the installed snapshot, its expiry, the contract lines | install, authorize, the 15 s worker, `advance` | journey, outbox, the Python graphs | authority that is withdrawn between a check and the effect it allowed |
| Continuity graphs (`runtime/run_graph.py`, `services.rs:523`) | a checkpoint per receipt, four permits, the locals of `invoke` | authorize, advance in a child, act, report | services, journey | the act and its record are steps of two processes; children may be killed, or outlive Antenna |
| GitHub edge receiver (`edge/github-ingress/src/index.ts`, `ingress/github.rs`) | the request in the worker, the hand-off under way, `receipts`, `github_deliveries` | vet, sign, hand off, verify, commit, acknowledge | GitHub, observation | two servers and two clocks, connections that break, redelivery, other servers that answer |
| GitHub observation (`observation.rs`, `ingress/github.rs`) | `github_deliveries`, `observations`, `repository_registry` | accept a webhook | reconciliation | redelivery, reordering, the unique repository name |
| Census (`census.rs`) | `census_runs`, `repository_registry` | fetch pages, record | GitHub, reconciliation | a snapshot older than the webhooks that came in while it was read |
| Reconciliation (`reconcile.rs`) | `observations.reconciliation_status`, `projection_records` | `run` | the census, webhooks, projection | it may replace what a projection is about to write |
| Sheet projection (`sheet.rs`) | `projection_records`, `projection_mutations`, the sheet itself | `project_once` | Google Sheets, reconciliation | read, mark, send and record are four steps, people edit the sheet, and nothing recovers the mark after a crash |
| Blobs (`ingress/http.rs:293`, `storage/objects.rs`) | files in `staging/` and `objects/` | stage, rename, insert | journey | bytes and rows do not commit together |
| Router, identifiers, configuration, capabilities, inspection, scripts | none that changes (routes and configuration are read at boot) | `decide`, `matches`, `new_id`, ... | | pure functions and read-only handlers |

What makes each correct:

* **Journey**: a receipt is decided once it is accepted, through any crash; its
  decision is on record before it is acted on; it is never worked on twice at
  once; its effects come from completed runs only, all of them from one.
* **Outbox**: an effect is attempted by one task at a time; it happens again
  only if the record admits, beforehand, that an earlier try failed or is in
  doubt; what a row says at the end is true and does not change; everything
  enqueued is settled; the policy in force at the attempt is what counts.
* **Calls**: an answer reaches the request it belongs to, at most once, and
  finds nowhere to go only if nobody waits for it.
* **Services**: no step of a contracted graph and no contracted effect starts
  without authority that was current when it started, but for the act a child
  had already asked for.
* **Continuity graphs**: a checkpoint is a run of the program its receipt was
  admitted under; an act is repeated only where something interrupted it; a
  completed receipt commits every proposal of its graph.
* **GitHub edge receiver**: GitHub is told that a webhook was accepted only of a
  committed receipt with the bytes it signed; each arrival counts once, one is
  the first; what it is told of a refusal is true.
* **Observation, census**: a webhook counts once; a failed census changes
  nothing; the registry ends up with what GitHub last said.
* **Reconciliation, projection**: a record is marked completed only when what it
  asks for is on the sheet, every record has one row, and a failed write is
  tried again.
* **Blobs**: a receipt that names an object finds its bytes.

## 2. Plan

Ordered by what would hurt most. Done in this state of the project: 1 to 8, and
12 as far as the modules of these go.

1. `Outbox` with the abstract promise `AtLeastOnce`, refinement, proofs.
2. `Journey`: receipts, runs, boot, the service worker.
3. `Projection`: `sheet.rs` against concurrent reconciliations, crashes, and
   requests whose answer is lost, applied or not. (A request applied after its
   client gave up is excluded by an assumption, section 8.)
4. More theorems about the outbox (attempt budget, finality, policy).
5. `Observation`: webhooks, redelivery and reordering, the census that runs
   beside them, the unique name index, `reconcile::run` and its lost trigger.
6. `Calls`: the return-path registry with HTTP, MCP and WebSocket handlers,
   timeouts and duplicate correlation ids.
7. `Edge` with the abstract promise `DurableAck`: the worker, the hand-off and
   Antenna's side of it; refinement, proofs.
8. `Continuity`: the node loop with its children and checkpoints, four permits,
   the authority asked for again at each node; proofs.
9. `Antenna`: `Journey` and `Outbox` composed, `enqueue` and `EnqueueAll` being
   one step, and the end-to-end promise that a routed receipt's answer is
   settled; `Observation` and `Projection` composed through
   `projection_records`.
10. `Blob`: staging, rename, index row and receipt, a crash between any two.
11. `Algorithms`: `router::decide`, `column_name`, the backoff of `reschedule`,
    the validation of snapshots and frames, against reference definitions over
    bounded inputs.
12. Theorems: the invariants of every module, and the refinements.

## 3. Modules

| Module | Models | Used by |
|---|---|---|
| `AtLeastOnce` | the promise about one outward effect, without rows, tasks or crashes | `Outbox` (refinement) |
| `Outbox` | `delivery.rs`, `gatekeeper::authorize`, the boot of `main.rs` as far as deliveries go | `MCOutbox`, `OutboxProofs`, `OutboxRefinementProofs` |
| `Journey` | `journey.rs`, `receipt.rs`, `run.rs`, `delivery::enqueue`, the boot order of `main.rs`, `services::worker` | `MCJourney`, `JourneyProofs` |
| `Calls` | `returnpath.rs`, the waiting handlers of `ingress/http.rs` and `ingress/mcp.rs`, `ingress/websocket.rs`, the hand-back of `delivery.rs` | `MCCalls`, `CallsProofs` |
| `DurableAck` | what GitHub may rely on, without headers, digests, hand-offs or connections | `Edge` (refinement) |
| `Edge` | `index.ts`, `ingress/github.rs`, and the accepting transaction of `observation.rs` as far as receipts and duplicates go | `MCEdge`, `EdgeProofs` |
| `Continuity` | `InvokeService::invoke` and `advance` of `services.rs`, `runtime/run_graph.py` | `MCContinuity`, `ContinuityProofs` |
| `Observation` | `observation.rs`, `ingress/github.rs`, `census.rs`, `reconcile::run` | `MCObservation`, `ObservationProofs` |
| `Projection` | `sheet.rs` with `reconcile::run` beside it | checked as it stands; `ProjectionProofs` |

The `MC*` modules only give constants their values. Definitions introduced by a
comment that begins `Mutant` are variants of the next definition with a
plausible bug in them. No specification uses them; each is there to show that a
property notices the bug.

### Atomicity

One action is one `db.call`, one external effect, or one decision taken between
two `.await`s. `Db::call` (`storage/sqlite.rs`) holds the only connection's lock
for its whole closure, so two calls of the process never interleave. A closure
that opens a transaction is atomic at a crash too; one that does not may leave a
prefix of its statements, which is why `Outbox` has `RecordFails` and
`CrashWhileRecording` for the two statements at `delivery.rs:356`.

### Outbox

`status`, `attempt`, `uncertain`, `due` and `created` are the columns of
`deliveries` (`due` says whether `next_attempt_at` has passed); `log` is
`delivery_attempts`; `tasks` are the spawned `attempt()` futures, each with the
attempt number its stale row gives it; `listening` is the return-path registry
and `policy` the part of the configuration `authorize` reads. `seen` is a
history variable: the attempts the outside world noticed.

| Action | Code |
|---|---|
| `Enqueue` | `enqueue` with the gatekeeper's first decision |
| `ClaimDue` | `claim_due` and the spawns in `worker` |
| `Refuse`, `Allow` | the contract's and the gatekeeper's second decision, `delivery.rs:277-311` |
| `HandBack`, `HandOff`, `Post`, `Response` | the four transports |
| `Record`, `RecordFails`, `CrashWhileRecording` | `finish_attempt` with `settle` or `reschedule` |
| `BackoffElapses` | time |
| `Crash`, `Recover` | the process dies; `delivery::recover` at the next boot |
| `Register`, `PeerGone` | what the ingress does to the registry (in detail: `Calls`) |

### Journey

`receipt`, `runs`, `recorded` and `outbox` are the tables (`recorded`: a
`route_events` row exists); `jobs` are the calls of `process()` alive, with the
step each is at; `phase` and `worklist` are the boot. `Decision` is a constant:
the router is a function of the receipt and the routes file. Each step of a job is one
database call or one invocation; `Errs` is the `?` of any of them, after which
`process` tries to mark the receipt failed. `Dropped` is axum dropping a handler
whose client has gone, with an inline job inside it. `ServicePass` is the 15 s
worker, which resumes contracted receipts whether or not somebody is at them.

A row of `outbox` says whose it is. The key of an answer is made of the
correlation id alone, which the client chooses, and `enqueue` leaves a key that
has a row as it is (`delivery.rs:106`): of two receipts that share an id, the
second to complete is routed without an answer of its own. `AnswerIsOwed` says
exactly that: a routed receipt whose client waits has its own answer in the
outbox, or another that waits under the same id has one, which was there first
(rows do not go away and no key has two). With an id of its own it has its own.

### Calls

`at` is where the handler of a request is, or the read loop with a message;
`slot` the oneshot channel of a request, `registry` the map in `ReturnPaths`,
`conn`, `queue` and `ids` a WebSocket connection with its unbounded channel and
the ids its clients chose; `job` and `resumed` the tasks that run the journey,
`open` the receipts they may run, `row` the answer in the outbox, one for each
correlation id; `reply` is what each client got. `Journey` and `Outbox` appear
as far as handlers notice them: a run ends with or without an answer enqueued,
and a row in flight is `delivered` or `gone` until `Settle` records it.

| Action | Code |
|---|---|
| `Accept`, `RegisterOnce`, `RunInline` | an HTTP handler up to its wait: `/ingress`, `/blob` and `/` alike |
| `Join` | an MCP handler when the task it spawned ends: only a completed run is worth waiting for |
| `Receive`, `GiveUp`, `Leave` | the wait ends with an answer, or without; then `forget` |
| `Drop` | axum drops the handler of a client that has gone, and nobody calls `forget` |
| `RegisterMany`, `Frame`, `FrameFails`, `SpawnProcess`, `Close` | `websocket::serve` |
| `Write`, `WriterEnds` | its writer task |
| `Send` | `ReturnPaths::send`: a sender used up, a receiver gone, an answer too late (`LateFor`) |
| `ServicePass`, `RunResumed` | contracted receipts, run again whatever their handlers do |

Two HTTP requests may have one correlation id, since the client chooses it: the
second takes the return path of the first, whose `forget` may then end the wait
of the second, and only one of them has its answer enqueued. The properties say
what is left: no answer is given twice, and whoever is not answered shares an
id, gave up, or was overtaken by the service worker between its commit and its
registration.

### Edge

`request`, `at`, `read` and `told` are a request in the worker, with the stage it
is at and the bytes it has of the body; `handoff`, `wire` and `answer` what is
between the worker and Antenna; `receipts` and `deliveries` the tables; `now` the
worker's clock, from which Antenna's differs by `Skew`; `config` the three
settings that a deployment can get wrong: the worker's `MAX_BODY_BYTES`
(`limit`), Antenna's `server.max_event_bytes`, which is set apart from it
(`maxEvent`), and Antenna's copy of the hand-off secret (`key`). `struck` is history: the sendings a fault hit.
Cryptography is two operators, `Sha` and `Mac`, of which nothing is assumed but
the size of what they return. What the two sides compute with the result is
modelled as it is written: a digest becomes text in `hex`, text becomes bytes in
`unhex` and in Rust's `hex::decode`, and both sides build the canonical text.

| Action | Code |
|---|---|
| `Arrive` | `fetch` and the checks of `handleGithub` on method, path, headers and limit, in their order (`Verdict`) |
| `Read`, `StreamFails` | `readBounded`, a chunk at a time, with any chunking |
| `Vet` | `verifyGithub` and `JSON.parse` |
| `HandOff` | the canonical text, its signature and the post to `UPSTREAM_URL` |
| `Acknowledge` | `index.ts:142-165`: the upstream's status and body, and the worker's answer |
| `Take`, `TurnAway`, `TakeFails` | the body limit of `http_router` (`lib.rs:87`), then `verify_handoff` (`Reception`), and `accept`: a receipt in one transaction with the row of its delivery; 413, 503 or 401; an error |
| `Break`, `Proxied`, `Cut` | a connection breaks, something else answers, GitHub hangs up |
| `Tick` | time |

A hand-off stays on the wire when its worker gives up or is cut, and may still be
taken. Lengths of headers are counted as both sides count them for the ASCII that
GitHub sends (UTF-16 units in the worker, bytes in Antenna); and what the worker
accepts as JSON is taken to be JSON for serde too, although `TextDecoder`
replaces bytes that are no UTF-8.

`Excused` collects what may keep a good request from being accepted: a fault, a
hand-off that was too old when it was taken (`Late`), a limit of the worker's or
a secret that will not do (`Misconfigured`), and a body between the two limits
(`BetweenLimits`). The last exists because nothing ties `max_event_bytes` to
`MAX_BODY_BYTES`: the worker reads, vets and posts such a body, Antenna answers
413 before it looks at the signature, and GitHub is told 502 however often it
sends again. (axum's own limit of 2 MiB on a buffered body acts in the same way
if it is the lower one; `maxEvent` is then that.)

### Continuity

`at`, `program`, `resume`, `asked` and `out` are the locals of `invoke` for the
job of a receipt; `checkpoint` its thread in `continuity.db`, `orphans` the
children that outlived their Antenna; `authority` is the revision (terms and
definition) the installed snapshot binds, and `proof` the one a receipt was
admitted under. `acted`, `late` and `hits` are history. A receipt has one job at
a time, which is what `OneRunAtATime` of `Journey` shows.

| Action | Code |
|---|---|
| `AuthorityChanges` | `install`, or the snapshot expires |
| `Admit`, `Begin` | `admit` with `accept`; recovery and the service worker |
| `Enter`, `Advance`, `Denied` | the permit, and `authorize` at the door and before each child |
| `Work` | `run_graph.advance`: the rules for a drawing (`Sound`), the checkpoint advanced (`Advanced`) or refused (`Refuses`), the answer |
| `Act` | `services.rs:605-633`: the capability, and its result put into the next request |
| `Commit`, `Errs`, `Dropped` | the run completes with its proposals, fails, or its future is dropped and the child killed |
| `Crash`, `OrphanWorks`, `OrphanDies` | Antenna dies, and its children go on, or die |

LangGraph is external and taken to save a step at a time: a call either leaves
the checkpoint as it was, or with one result recorded and the next node
suspended; a child that is killed may leave the step saved without its request
(`Left`), upon which the next child refuses the graph.

### Observation

`there` and `sent` are GitHub, `recorded` is `github_deliveries`, `pending` the
observations not yet reconciled, `registry` and `projected` what the two tables
say of each repository, `triggers` the reconciliations a handler is to spawn or
has spawned, `crawl` the census under way. A webhook may be delivered at any
time after it was sent, in any order, again, or never; each of these is only the
choice of when, and whether, `Accept` is taken. A second delivery changes
nothing this module keeps, so it needs no action of its own. `NameHeld` and
`NameClash` are the unique index on `full_name`: the upsert's
`ON CONFLICT(repository_id)` does not cover it, and the transaction fails.

### Projection

`desired`, `status`, `mutation` and `mutations` are the two tables, `pass`,
`batch` and `target` the local state of `project_once`, `wire` a request on its
way, `sheet` the rows of the spreadsheet with the mutation that wrote each.
`raced` is history: the records marked with a content that had already been
replaced.

## 4. Runs

All with TLC. "States" are distinct states.

| Run | Instance | States | Shows |
|---|---|---|---|
| `OutboxSafety` | an answer and a contracted http effect, 2 attempts, batches of 1, 1 crash, database errors | 162,004 | one task per delivery, no silent repetition, policy at the attempt, refinement of `AtLeastOnce` |
| `OutboxLive` | an http effect and an internal hand-off, 2 attempts, 2 crashes, fairness | 83,869 | everything enqueued is settled, within the attempt budget |
| `JourneySafety` | a call, a contracted receipt with the call's correlation id, an unrouted one; 2 jobs, 1 crash, dropped handlers, database errors | 925,210 | exclusive runs, effects of completed runs only, a receipt's own answer owed unless another under its id was first |
| `JourneyLive` | the first two, up to 6 runs, no database errors, fairness | 132,984 | nothing forgotten, contracted work is decided |
| `JourneyOldWorkFirst` | a call and an unrouted receipt, 1 crash | | a finding |
| `CallsSafety` | 2 contracted HTTP requests with one correlation id and an MCP call or a contracted WebSocket message, or the last two, 2 faults | 728,158 | an answer reaches one client, with its own id, and finds nowhere to go only if nobody waits |
| `ObservationSafety` | 3 repositories on pages of 1, 3 names of which one can change hands, 2 webhooks, 1 fault, fairness | 862,263 | the projection never lags silently, missing is explained, the projection becomes accurate |
| `ObservationCensusRecovers` | 2 repositories, no faults, fairness | | a finding |
| `ProjectionSafety` | a repository's record and a board record, 2 contents, 2 mutations, 1 fault | 362,876 | one row per record, everything on record, stale only if raced, stranded only by faults |
| `ProjectionCompletedIsCurrent` | the same | | a finding |
| `EdgeSafety` | 2 sendings, of one delivery or two, 20 requests, digests of 2 bytes, good and bad settings, Antenna's limit above the worker's or below it, 1 fault, 3 steps of the clock, fairness | 126,258 | an acknowledgement is durable, arrives once and is first once; only what GitHub signed is stored; every status is earned; refinement of `DurableAck` |
| `ContinuitySafety` | 2 receipts, a program with a branch, one with its second node only and one with a cycle, 1 permit, 1 crash, fairness | 433,932 | checkpoints are of the program, repeats are interrupted, late acts are one, no proposal is lost, no permit is |

Why these bounds are enough for the hazards:

* *Outbox.* Two deliveries with `ClaimLimit = 1` leave one due row behind a
  claim, which is what ordering by `created_at` is about. `MaxAttempts = 2` has a
  retry and an exhausted budget; a crash after the last attempt has recovery
  exceed it by one. The transports differ only in what they do to `seen`.
* *Journey.* Two jobs suffice for two to meet at one receipt; the third of
  `MaxRuns = 6` covers every pass that a crash and a change of authority can
  separate in the live run. Two receipts sharing a correlation id meet in
  `AnswerKey`, the case in which an enqueue finds the row of somebody else; each
  may be the first, and alone.
* *Calls.* At most three clients ask in one behaviour (`Casts`): two requests
  under one id with an MCP call whose answer has the same key in the outbox, and
  a message beside one request of either kind, with which it shares crashes only.
  The requests are alike, hence the symmetry. Two faults allow a client that
  leaves and a crash, or a writer that ends before its reader.
* *Observation.* A census misses a repository that was there all the while only
  if another leaves and a third joins between its pages: three repositories,
  pages of one and two events. The same two events reorder, repeat and get
  lost; and they suffice for a name to change hands.
* *Projection.* One record of each kind, since a `GH-REPO` record gets a row
  appended and an `LB` record without one is skipped; two contents, the one being
  sent and the one that replaces it; two mutations, so that the outcome of the
  first can meet the second.

* *Edge.* The first sending has a request for every way to be refused; the second
  repeats its delivery or is another. Every digest has a byte below 16, whose
  text needs its padding; one body exceeds the limit by one byte, with its length
  declared and not; and one that is within it exceeds Antenna's where that is
  lower; where Antenna's is higher, only the worker keeps the longest body out.
  `MaxAge` of one second, two steps a second and a skew of one
  step put a hand-off on either side of its age.
* *Continuity.* Two receipts and one permit: one waits for the other. The branch
  lets a checkpoint choose, and the program that starts at the second node shares
  it with the first, so that a result could be recorded in the wrong one. One
  crash is enough for an orphan and a new job on one checkpoint; the theorems
  hold for any number.

Deadlock is checked in the `Observation` runs, where the census never ends. It
is not in the others: the bounds on crashes, mutations and receipts make those
systems stop when all work is done.

## 5. Fairness

Weak fairness is assumed of what the program or its supervisor does
unprompted, and of nothing else:

* a spawned task is polled until it ends (tokio), and an http attempt ends (the
  client timeout `http_timeout_ms`, `lib.rs:57`): `TaskStep`, `JobStep`;
* a graph's child answers within 30 seconds or is killed, the semaphore is fair
  (tokio's is): `JobStep` or `Errs` of `Continuity`;
* the Workers runtime resumes a request whose promise is settled, and Antenna
  serves the hand-offs that reach it: `WorkerStep`, and `Take` or `TurnAway`;
* the worker loops sleep and come again: `ClaimDue`, `Census`;
* time passes: `BackoffElapses`;
* launchd restarts a dead process (`KeepAlive` in
  `ops/work.minilab.antenna.plist`), and boot does not stop: `Recover`,
  `MarkInterrupted`, `Requeue`, `Requeued`, `Resume`.

Strong fairness is assumed of `ServicePass` only: its guard is authority, which
may come and go, and a pass every 15 s meets it if it keeps coming back. That it
does is an antecedent of `AuthorityDecides`, not an assumption.

Nothing is assumed of clients, GitHub, webhooks, the reconciliations they spawn,
or authority. Crashes, and in `Observation` failed censuses, are bounded:
under a crash for ever nothing would be promised.

## 6. Proofs

TLAPS proves the following for every value of the constants that satisfies the
assumptions of the modules (sets of deliveries, receipts, repositories and
records are finite where the module says so; bounds are natural numbers). Every
invariant, action property and refinement that a passing run checks is among it.

**`OutboxProofs`.** The invariants of `OutboxSafety` are not inductive: that a
task's attempt is the newest and still open depends on what claims may do, which
depends on rows in flight having a task or nobody. `IInv` adds, for every task,
that its row is in flight, its number is the row's counter and the last log
entry is open (`TasksInv`); and, for every row, how status, log, `uncertain` and
`seen` fit together (`RowsInv`), notably that a pending row has no open attempt
unless `uncertain` says so. Each action is shown to keep each part; the named
invariants follow.

`AttemptsAreBounded` has one part more: each recovery gives a row at most one
attempt of slack, so that the counter stays within `MaxAttempts + restarts`
counting the restart in progress. `WhatIsSettledStays`
and `PolicyGovernsEffects` are action properties read off `IInv`; the second
needs that a task that has passed its check did so under the policy still in
force, which holds because policy changes only when tasks are gone.

**`OutboxRefinementProofs`.** Under the mapping of `Outbox.tla` (owed = pending
or in flight, doubt = a logged failure or `uncertain`) every action is a step of
`AtLeastOnce` or changes nothing it can see. The one interesting case is `Post`:
a second effect is allowed because `RowsInv` finds the first one admitted.

**`JourneyProofs`.** `IInv` is `TypeOK`, `JobsInv` (each job's step agrees with
its receipt's tables, ids are unique, no jobs while down), `ReceiptInv` for each
receipt, `OneShot` for each receipt outside the service worker's reach, and
`OutboxInv`. `OneShot` carries the argument that such a receipt is never run
twice at once although nothing in the code checks for it: it has at most one
job, none until boot is over; a run left running by a dropped job is closed by
the next boot before a job can start; once it is routed nothing is left to run it
again. Contracted receipts have the `EXISTS` check of the claim instead.
`AnswersAreOwed` needs to know whose a row is that `enqueue` finds:
`AnswersAreOfWaiters` says that a row under the key of a receipt is of one that
waits and has its correlation id, since no proposal's key is an answer's.

**`ObservationProofs`.** `NothingLagsSilently`: `LagIsPending` is inductive on
top of `TypeOK`. A row changes what is projected of it only with a meaningful
observation in the same transaction, and a reconciliation that drops pending
observations either projects the whole registry or had nothing meaningful to
drop. `RedeliveryIsHarmless` is an action property from `TypeOK`.
`MissingHasAReason` needs `CrawlInv`: while pages are read, a repository listed
all the while has been read, or its place is on a page still to come, or one
before it left and moved it up across the pages read; and in the last case another
joined, or the total is already less than the one announced, which the next page
refuses. The end of the list is the one non-trivial step: the places of the
repositories listed are the numbers from 1 to the total, each once
(`PlacesAreTaken`), so a page before the place of a listed repository is full
(`FullPage`) and only a page that is not full ends the list.

**`ProjectionProofs`.** `IInv` is `TypeOK` and `EveryWriteIsOnRecord` with four
parts. `RowsApart`: two rows of the sheet are of two records. `RecordsOK`: what
the status of a record says of its mutation, and where it is on the sheet.
`PassOK`, which carries the argument: what a pass has loaded stays pending or
failed until it marks it, since a reconciliation can only make it pending; the
targets it read still point at the rows of their records, since rows are only
added, and only by the request of the one pass there is (`TargetsFit`); and once
Google has applied the request, the sheet shows every record of the batch under
the current mutation. `FaultsCover`: the mutations in flight that no pass will
settle are at most as many as the faults. Applying a request is one row per
target, or one more row per record without one, in any order; `WhatApplyWrites`
says of each row of the result what it was or what it was written from. The
new rows of a batch are counted, which is why `Record` has to be finite.
`NothingUnsureIsResent` has a property of its own, `RetriesAreSafe`: a record
gets a new mutation only while it is pending or failed, although the pass that
marks it checked that some steps before.

**`CallsProofs`.** What a step does to a row, to what is in the queues, to a
handler and to what is inside Antenna of one call is said once, by lemmas
(`RowSteps`, `SendChanges`, `AtChanges`, `HasChanges`, `ActiveChanges`). `IInv`
is `TypeOK` with seven parts. `AnswersReachOne` follows from `HeldOK`: whoever
has an answer, or has it in a channel or a queue, has one that was sent, and
until a crash makes its row uncertain only one client does, for a row in flight
has not been sent and `Send` gives it to one place. `IdsComeBack` needs what is
in a queue to be there once and with its id still remembered (`QueueOK`); so a
message that is inside Antenna while its connection is open must keep its id
until its answer is sent (`MessagesOK`). `GoneMeansNobodyWaits` compares the
registry with those who wait: an open connection is registered under its own key
(`RegistryOK`), and so is a request that waits, unless its answer was sent or
another request under the key has been as far as `register_once` (`WaitingOK`);
before that only the service worker can have had it answered (`FreshOK`).

**`EdgeProofs`.** For any requests, secrets, digests and codes of the right size,
any number of faults, and any skew, except that Antenna's clock is behind the
worker's by `MaxAge` at most (ahead, a hand-off is late, which excuses it).
`Inv` says, for each sending, what its stage has established: what was read is a
prefix of the body within the limit (`StageOK`), a hand-off on the wire is the
vetted request with its digest and signature under the worker's secret
(`HandoffOK`), an answer of 202 is of a receipt that holds it (`AnswerOK`), and
what was told is true (`ToldOK`); with that, `deliveries` counts what `receipts`
holds (`RowOK`), and no receipt is named by two sendings (`NamesApart`). The arithmetic is in lemmas:
`RoundTrip`, that what `hex` writes `hex::decode` reads, and `UnhexSpells`, that
`unhex` accepts exactly the texts that spell bytes, in any case. `EdgeStatusIsEarned`
rests on them: without a fault, a delay, a wrong setting or a body between the
two limits both sides reach the same verdict (`Turned`). `EdgeKeepsPromise` shows
every action to be a step of `DurableAck` or to change nothing it can see; `Take`
is its `Keep`.

**`ContinuityProofs`.** `Inv` is `Types` and `Permits`, that is `TypeOK`, with six
parts. `JobInv`: a job's program is the one its receipt was admitted under.
`LateInv`: a receipt that acted without authority still lacks it and is not on
its way to another act. `PathInv`: checkpoints are runs of the program, and a
result waiting in a job or in an orphan is of an act done; the conclusion of an
orphan is harmless because `Refuses` compares its node with the suspended one.
`DescendsInv`: along a path every rank of the acyclic drawing falls, hence no
node comes twice (`NeverTwice`). `DoneInv`: at its END a checkpoint does not
change again (`EndStays`). `FreshInv`: a node acted at more often than the
receipt was hit by crashes is on record or in the request about to record it.
All five safety properties of the run follow.

## 7. Findings

* `OldWorkFirst` (`journey.rs:287`): recovery spawns the resumed work and does
  not wait for it, so new work is admitted ahead of it.
* `CompletedIsCurrent` (`sheet.rs:380`): a reconciliation that commits between
  the load of a pass and its mark is lost for good.
* `CensusRecovers` (`census.rs:153`): once a name has passed from one repository
  id to another, the unique index refuses every census and the webhook, for ever.

Each is a run that TLC must find violated; the other runs hold. Further
behaviours that a reader may not expect are admitted by the properties that pass:

* `MissingIsExplained` admits that a repository present all the while is recorded
  as missing if one leaves and another joins between two pages.
* `StrandedByFaults` admits that a crash of the projection leaves a mutation in
  flight that nothing ever looks at.
* `AtLeastOnce` lets a delivery that was posted and failed be denied on a later
  attempt (its `GiveUp`): the checks at `delivery.rs:276-308` come after
  `claim_due` has counted the attempt. That contradicts `ANTENNA_SPEC.md:82`, "A
  denied delivery is **recorded with `attempt = 0`** — refused, never tried",
  which is true only of one denied when it was enqueued: a reader of `deliveries`
  cannot conclude from `denied` that nothing was sent.
* `AtLeastOnce` lets recovery call unknown an outcome that is on record, after a
  crash between the two statements at `delivery.rs:356`.
* `AnswerIsOwed` admits that a receipt is routed and its own answer dropped, when
  another receipt of the same correlation id had its answer enqueued first.
  `ANTENNA_SPEC.md:86` calls this re-enqueueing "the same logical effect"; the
  effects are one only if clients keep their ids apart. What becomes of the two
  handlers that wait is in `Calls`.
* `StatusIsEarned` admits 502 for a genuine webhook whose body is between
  `max_event_bytes` and `MAX_BODY_BYTES`, each time GitHub sends it.
* `LagIsPending` is about names and presence, which `View` keeps. Of the other
  projected columns (`reconcile.rs:154-166`), `last_observed_at` and
  `drift_state` may lag with no observation pending.
* `LateActs` admits one act after authority is gone: the one a child has already
  asked for.
* `Continuity` fails a run for good when the result it brings is not of the
  suspended node, or the checkpoint has no request (`run_graph.py:79`, `98`).
  Both can happen without a fault of the graph's: an orphan that records its
  result while the next job acts at the same node, and a child killed halfway.

## 8. What is only model-checked, assumed, or left out

*Only model-checked*: all liveness (`EventuallySettled`, `NothingForgotten`,
`AuthorityDecides`, `EventuallyAccurate`, `AcceptedUnlessTroubled`, `Ends`), which
is out of the prover's reach. That the bounds on crashes, steps and runs do not
hide anything is proved for the safety properties, which hold for every value of
them, and argued in section 4 for liveness. `JourneyLive` has one crash and no
database errors: `NothingForgotten` says nothing of a second crash, or of an
error, while boot sets receipts accepted one by one (`journey.rs:261`).

*Assumed of the environment*: in `Projection`, the sheet applies a request before
its client gives up or not at all (late application is not modelled), and nobody
edits rows by hand while a pass is under way; `LIMIT 100` is beyond the few
records of an instance. In `Observation`, GitHub lists repositories in the order
of their ids. SQLite keeps what it committed. In `Edge`, the runtime's `Headers`,
`URL`, `fetch` and `crypto.subtle` do what the web standards say; and whoever answers a hand-off with 202 and a JSON object
is Antenna. The worker checks neither the origin of the answer nor its
`receipt_id` (`index.ts:146-164`): such an answer from something else under
`UPSTREAM_URL` would be passed on as `durably_accepted`, and `AckIsDurable` would
not hold. `Proxied` has every other kind of answer. In `Continuity`, LangGraph
saves a checkpoint step by step, as described above, and the invocations of two
children on one thread do not overlap: each `Work` and `OrphanWorks` is one step.
SQLite lets one child at a time write, but nothing keeps an orphan and the next
child from taking turns between reading the thread (`run_graph.py:86`) and
putting its next checkpoint, and the saver (`drawing.py:63-64`) has no lock across
the two; they might fork the thread. What is checked of orphans is therefore what
they do before or after another child, not during its invocation.

*Left out*: payloads, timestamps (except in `Edge`) and the length of a backoff;
receipts and audit columns that are written and never read back by the program; the contents a capability computes. `census-import` runs the same
`record` and `run` from a second process.

*Not modelled yet* (see the plan): the validation of contract snapshots and
frames, blobs, the matching of routes. *Not to be modelled*: configuration,
telemetry, inspection pages, deployment scripts, and the worker's
`vitest.config.ts`, which holds bindings for its tests; they keep no state that
changes.
