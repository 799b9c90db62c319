----------------------------- MODULE Observation -----------------------------
(***************************************************************************)
(* What Antenna believes about the repositories on GitHub: webhooks        *)
(* accepted by src/src/observation.rs through src/src/ingress/github.rs,   *)
(* the census of src/src/census.rs, and the reconciliation of              *)
(* src/src/reconcile.rs that turns observations into projected records.    *)
(* GitHub and the edge in front of Antenna are the environment: they       *)
(* deliver a webhook late, out of order, more than once, or never.         *)
(*                                                                         *)
(* Of a repository only its id, its name and its presence are kept.  The   *)
(* evidence tables that are only written are left out: receipts, delivery  *)
(* counts, census_runs.  sheet.rs is Projection.tla.                       *)
(***************************************************************************)
EXTENDS Integers, Sequences, FiniteSets

CONSTANTS
  Repo,       \* repository ids; GitHub lists them in their order
  Name,       \* full names
  None,       \* no name
  Names,      \* the names each repository may ever have
  PageSize,   \* repositories per page of the census, 100 in the code
  MaxEvents,  \* bound on webhooks
  MaxFaults   \* bound on crashes and on censuses that fail

ASSUME RepoAssumption   == Repo \subseteq Nat /\ IsFiniteSet(Repo)
ASSUME NameAssumption   == None \notin Name
ASSUME NamesAssumption  == Names \in [Repo -> SUBSET Name]
ASSUME PageAssumption   == PageSize \in Nat \ {0}
ASSUME BoundsAssumption == MaxEvents \in Nat /\ MaxFaults \in Nat

VARIABLES
  there,      \* GitHub: the name of each repository it has, None otherwise
  sent,       \* GitHub: the webhooks so far, named by their delivery ids
  recorded,   \* github_deliveries: the delivery ids that have a row
  pending,    \* observations not reconciled, by delivery id; 0 = a census's
  registry,   \* repository_registry
  projected,  \* what projection_records says of each repository
  triggers,   \* memory: deliveries whose reconcile::run is still to come
  crawl,      \* memory: the census in progress; left and joined are history:
              \* the repositories GitHub ceased or began to list meanwhile
  faults      \* crashes and failed censuses so far

github == <<there, sent>>
vars   == <<there, sent, recorded, pending, registry, projected,
            triggers, crawl, faults>>

Presences == {"unknown", "present", "gone", "missing"}
Kinds     == {"present", "gone", "activity", "other"}
Events    == [repo : Repo, name : Name, kind : Kinds]
Crawls    == {"idle", "fetch", "record", "reconcile"}
Idle      == [at |-> "idle", page |-> 0, expected |-> 0, found |-> {},
              left |-> {}, joined |-> {}]

\* What materially changes of a row, and is projected.
View(r) == [name |-> registry[r].name, presence |-> registry[r].presence]

Init ==
  /\ there \in [Repo -> Name \cup {None}]
  /\ \A r \in Repo : there[r] \in Names[r] \cup {None}
  /\ \A r, s \in Repo : there[r] = there[s] => r = s \/ there[r] = None
  /\ sent = <<>>
  /\ recorded = {}
  /\ pending = {}
  /\ registry = [r \in Repo |-> [name |-> None, presence |-> "unknown", by |-> 0]]
  /\ projected = [r \in Repo |-> [name |-> None, presence |-> "unknown"]]
  /\ triggers = {}
  /\ crawl = Idle
  /\ faults = 0

-----------------------------------------------------------------------------
(* GitHub.                                                                 *)

Free(n) == \A r \in Repo : there[r] # n

Emit(r, n, kind) ==
  /\ Len(sent) < MaxEvents
  /\ sent' = Append(sent, [repo |-> r, name |-> n, kind |-> kind])
  /\ UNCHANGED <<recorded, pending, registry, projected, triggers, faults>>

\* The listing changes while a census may be under way.
Meanwhile(out, in) ==
  crawl' = IF crawl.at = "idle" THEN crawl
           ELSE [crawl EXCEPT !.left = @ \cup out, !.joined = @ \cup in]

\* A repository is created, or transferred in.
Create(r, n) ==
  /\ there[r] = None
  /\ Free(n)
  /\ there' = [there EXCEPT ![r] = n]
  /\ Meanwhile({}, {r})
  /\ Emit(r, n, "present")

Rename(r, n) ==
  /\ there[r] # None
  /\ Free(n)
  /\ there' = [there EXCEPT ![r] = n]
  /\ Emit(r, n, "present")
  /\ UNCHANGED crawl

\* Deleted, or transferred out.
Delete(r) ==
  /\ there[r] # None
  /\ there' = [there EXCEPT ![r] = None]
  /\ Meanwhile({r}, {})
  /\ Emit(r, there[r], "gone")

\* A push, or an event Antenna does not know.
Happening(r) ==
  /\ there[r] # None
  /\ \E kind \in {"activity", "other"} : Emit(r, there[r], kind)
  /\ UNCHANGED <<there, crawl>>

-----------------------------------------------------------------------------
(* Webhooks.                                                               *)

\* Every kind but repository_activity and transport_ping.
Meaningful(o) == IF o = 0 THEN TRUE ELSE sent[o].kind # "activity"

\* Mutant: what is no repository_lifecycle event is upserted too.
UpsertAny(i) ==
  LET e == sent[i] IN
  registry' = [registry EXCEPT ![e.repo] =
                 [name |-> e.name, presence |-> e.kind, by |-> i]]

\* upsert_repository_from_event, or the touch of a push.
Upsert(i) ==
  LET e == sent[i] IN
  registry' = CASE e.kind \in {"present", "gone"} ->
                     [registry EXCEPT ![e.repo] =
                        [name |-> e.name, presence |-> e.kind, by |-> i]]
                [] e.kind = "activity" /\ registry[e.repo].presence # "unknown" ->
                     [registry EXCEPT ![e.repo].by = i]
                [] OTHER -> registry

\* repository_registry_name_idx: the upsert would give its row a name that
\* another row has.
NameHeld(i) ==
  /\ sent[i].kind \in {"present", "gone"}
  /\ \E s \in Repo \ {sent[i].repo} : registry[s].name = sent[i].name

\* accept_github_delivery, one transaction.  A delivery that has a row only
\* has its duplicates counted; one whose upsert fails leaves nothing at all.
Accept(i) ==
  /\ i \notin recorded
  /\ ~NameHeld(i)
  /\ recorded' = recorded \cup {i}
  /\ pending' = pending \cup {i}
  /\ Upsert(i)
  /\ triggers' = IF Meaningful(i) THEN triggers \cup {i} ELSE triggers
  /\ UNCHANGED <<github, projected, crawl, faults>>

\* Mutant: a census's observations are not meaningful.
ReconcileWebhooks ==
  /\ pending' = {}
  /\ projected' = IF \E o \in pending \ {0} : Meaningful(o)
                  THEN [r \in Repo |-> View(r)] ELSE projected

\* reconcile::run, one transaction: every pending observation is reconciled,
\* and if one of them is meaningful the whole registry is projected.
Reconcile ==
  /\ pending' = {}
  /\ projected' = IF \E o \in pending : Meaningful(o)
                  THEN [r \in Repo |-> View(r)] ELSE projected

\* The task the handler spawned.
ReconcileAfter(i) ==
  /\ Reconcile
  /\ triggers' = triggers \ {i}
  /\ UNCHANGED <<github, recorded, registry, crawl, faults>>

\* The handler is dropped before it spawns the task, or the task's
\* transaction fails and the error is logged.
TriggerLost(i) ==
  /\ triggers' = triggers \ {i}
  /\ UNCHANGED <<github, recorded, pending, registry, projected, crawl, faults>>

-----------------------------------------------------------------------------
(* The census.                                                             *)

Listed == {r \in Repo : there[r] # None}

\* The place of r in the listing.
Place(r) == Cardinality({s \in Listed : s <= r})

\* run_once begins.
Start ==
  /\ crawl.at = "idle"
  /\ crawl' = [Idle EXCEPT !.at = "fetch", !.page = 1]
  /\ UNCHANGED <<github, recorded, pending, registry, projected, triggers, faults>>

Page == {r \in Listed : /\ Place(r) > (crawl.page - 1) * PageSize
                        /\ Place(r) <= crawl.page * PageSize}
Fetched == crawl.found \cup
             {[place |-> Place(r), repo |-> r, name |-> there[r]] : r \in Page}

\* total_count is the same on every page.
SameTotal == crawl.page > 1 => Cardinality(Listed) = crawl.expected

\* As many repositories as announced, none twice.
Complete(found, expected) ==
  /\ Cardinality(found) = expected
  /\ \A x, y \in found : x.repo = y.repo => x = y

\* Mutant: any list that ends is taken for complete.
FetchPageUnchecked ==
  /\ crawl.at = "fetch"
  /\ crawl' = [crawl EXCEPT
       !.at = IF Cardinality(Page) < PageSize THEN "record" ELSE "fetch",
       !.page = @ + 1, !.expected = Cardinality(Listed), !.found = Fetched]
  /\ UNCHANGED <<github, recorded, pending, registry, projected, triggers, faults>>

\* One page.  A page that is not full is the last one.
FetchPage ==
  /\ crawl.at = "fetch"
  /\ SameTotal
  /\ LET total == Cardinality(Listed)
         last  == Cardinality(Page) < PageSize
     IN /\ last => Complete(Fetched, total)
        /\ crawl' = [crawl EXCEPT
             !.at = IF last THEN "record" ELSE "fetch",
             !.page = @ + 1, !.expected = total, !.found = Fetched]
  /\ UNCHANGED <<github, recorded, pending, registry, projected, triggers, faults>>

\* The list moved under the reader: the run is recorded as failed.
FetchRefused ==
  /\ crawl.at = "fetch"
  /\ \/ ~SameTotal
     \/ Cardinality(Page) < PageSize /\ ~Complete(Fetched, Cardinality(Listed))
  /\ crawl' = Idle
  /\ UNCHANGED <<github, recorded, pending, registry, projected, triggers, faults>>

Seen == {x.repo : x \in crawl.found}
NameOf(r) == (CHOOSE x \in crawl.found : x.repo = r).name

\* The rows are upserted in the order of the list.  At its turn, the name of
\* x is held by another row: an earlier one of the list, or one not yet reached.
NameClash ==
  \E x \in crawl.found : \E s \in Repo \ {x.repo} :
    IF \E y \in crawl.found : y.repo = s /\ y.place < x.place
    THEN NameOf(s) = x.name
    ELSE registry[s].name = x.name

\* Known and not as the list says; or present, and not on the list.
Changed == {r \in Seen : View(r) # [name |-> NameOf(r), presence |-> "present"]}
Missed  == {r \in Repo \ Seen : registry[r].presence = "present"}

Recorded ==
  [r \in Repo |->
    IF r \in Seen
    THEN [name |-> NameOf(r), presence |-> "present",
          by |-> IF r \in Changed THEN 0 ELSE registry[r].by]
    ELSE IF r \in Missed
    THEN [registry[r] EXCEPT !.presence = "missing", !.by = 0]
    ELSE registry[r]]

\* Mutant: nothing is observed of what is missing.
RecordSilently ==
  /\ crawl.at = "record"
  /\ ~NameClash
  /\ registry' = Recorded
  /\ pending' = IF Changed # {} THEN pending \cup {0} ELSE pending
  /\ crawl' = [Idle EXCEPT !.at = "reconcile"]
  /\ UNCHANGED <<github, recorded, projected, triggers, faults>>

\* census::record, one transaction.
Record ==
  /\ crawl.at = "record"
  /\ ~NameClash
  /\ registry' = Recorded
  /\ pending' = IF Changed \cup Missed # {} THEN pending \cup {0} ELSE pending
  /\ crawl' = [Idle EXCEPT !.at = "reconcile"]
  /\ UNCHANGED <<github, recorded, projected, triggers, faults>>

\* The transaction fails, run_once with it, and nothing is reconciled.
RecordRefused ==
  /\ crawl.at = "record"
  /\ NameClash
  /\ crawl' = Idle
  /\ UNCHANGED <<github, recorded, pending, registry, projected, triggers, faults>>

ReconcileCensus ==
  /\ crawl.at = "reconcile"
  /\ Reconcile
  /\ crawl' = Idle
  /\ UNCHANGED <<github, recorded, registry, triggers, faults>>

\* A request or a transaction fails, and run_once returns its error.
CensusFails ==
  /\ crawl.at # "idle"
  /\ faults < MaxFaults
  /\ faults' = faults + 1
  /\ crawl' = Idle
  /\ UNCHANGED <<github, recorded, pending, registry, projected, triggers>>

\* The process dies and comes back.  Nothing at boot looks at what is pending.
Crash ==
  /\ faults < MaxFaults
  /\ faults' = faults + 1
  /\ crawl' = Idle
  /\ triggers' = {}
  /\ UNCHANGED <<github, recorded, pending, registry, projected>>

-----------------------------------------------------------------------------
Census ==
  \/ Start \/ FetchPage \/ FetchRefused
  \/ Record \/ RecordRefused \/ ReconcileCensus

Next ==
  \/ \E r \in Repo : \/ \E n \in Names[r] : Create(r, n) \/ Rename(r, n)
                     \/ Delete(r)
                     \/ Happening(r)
  \/ \E i \in DOMAIN sent : Accept(i)
  \/ \E i \in triggers : ReconcileAfter(i) \/ TriggerLost(i)
  \/ Census
  \/ CensusFails
  \/ Crash

Spec == Init /\ [][Next]_vars

\* The census worker loops for ever, and its requests end (a client timeout).
\* Nothing is assumed of webhooks or of the tasks they spawn.
FairSpec == Spec /\ WF_vars(Census)

-----------------------------------------------------------------------------
(* Properties.                                                             *)

\* Every variable has its type.
TypeOK ==
  /\ there \in [Repo -> Name \cup {None}]
  /\ sent \in Seq(Events)
  /\ recorded \subseteq DOMAIN sent
  /\ pending \subseteq recorded \cup {0}
  /\ registry \in [Repo -> [name : Name \cup {None}, presence : Presences,
                            by : 0..Len(sent)]]
  /\ projected \in [Repo -> [name : Name \cup {None}, presence : Presences]]
  /\ triggers \subseteq recorded
  /\ crawl \in [at : Crawls, page : Nat, expected : Nat,
               found : SUBSET [place : Nat, repo : Repo, name : Name],
               left : SUBSET Repo, joined : SUBSET Repo]
  /\ faults \in 0..MaxFaults

\* What is projected of a repository lags behind the registry only while an
\* observation waits that will have it projected, so that no lost trigger,
\* failed task or crash leaves the two apart for good.
LagIsPending ==
  \A r \in Repo : projected[r] # View(r) => \E o \in pending : Meaningful(o)

\* A webhook counts once, however often it is delivered: a row that has moved
\* on does not go back to a delivery that is on record.
DeliveryCountsOnce ==
  [][\A r \in Repo : \A i \in recorded :
       registry'[r].by = i => registry[r].by = i]_vars

\* A census over several requests calls no repository missing that GitHub
\* listed all the while, unless one before it left, and another joined to
\* make up for it, as the pages were read.
MissingIsExplained ==
  [][\A r \in Repo :
       registry'[r].presence = "missing" /\ registry[r].presence # "missing" =>
         \/ there[r] = None
         \/ r \in crawl.left \cup crawl.joined
         \/ crawl.joined # {} /\ \E s \in crawl.left : s < r]_vars

\* Antenna's projection of r is what GitHub has.
Accurate(r) ==
  IF there[r] = None THEN projected[r].presence # "present"
                     ELSE projected[r] = [name |-> there[r], presence |-> "present"]

\* A row of the registry has the name of another repository on GitHub.
Squatted ==
  \E r, s \in Repo : r # s /\ there[r] # None /\ registry[s].name = there[r]

\* With webhooks lost, late, out of order and repeated, crashes and failed
\* censuses, the projection ends up with what GitHub has, unless a row keeps
\* the name of another repository for good.
EventuallyAccurate == <>[](Squatted \/ \A r \in Repo : Accurate(r))

\* docs/IMPLEMENTATION_PLAN.md: the census recovers a view of the set of
\* repositories.
CensusRecovers == <>[](\A r \in Repo : Accurate(r))
=============================================================================
