-------------------------- MODULE ObservationProofs --------------------------
(***************************************************************************)
(* Proofs about Observation, for any repositories and names, any number of *)
(* webhooks and faults, and pages of any size.                             *)
(***************************************************************************)
EXTENDS Observation, SequenceTheorems, FiniteSetTheorems, TLAPS

Entries == [place : Nat, repo : Repo, name : Name]
Surveys == [at : Crawls, page : Nat, expected : Nat, found : SUBSET Entries,
            left : SUBSET Repo, joined : SUBSET Repo]
Rows    == [name : Name \cup {None}, presence : Presences, by : 0..Len(sent)]
Views   == [name : Name \cup {None}, presence : Presences]

-----------------------------------------------------------------------------
(* Type correctness.                                                       *)

LEMMA IdleType == Idle \in Surveys
  BY DEF Idle, Surveys, Crawls

\* A webhook is put after the others.
LEMMA EmitForm ==
  ASSUME NEW r \in Repo, NEW n \in Name, NEW kind \in Kinds, TypeOK, Emit(r, n, kind)
  PROVE  /\ sent' \in Seq(Events)
         /\ Len(sent') = Len(sent) + 1
         /\ DOMAIN sent \subseteq DOMAIN sent'
         /\ \A i \in DOMAIN sent : sent'[i] = sent[i]
<1>1. sent \in Seq(Events) /\ [repo |-> r, name |-> n, kind |-> kind] \in Events
  BY DEF TypeOK, Events
<1>2. QED
  BY <1>1 DEF Emit

\* What GitHub does leaves Antenna's tables alone.
LEMMA GitHubForm ==
  ASSUME TypeOK, NEW r \in Repo,
         \/ \E n \in Names[r] : Create(r, n) \/ Rename(r, n)
         \/ Delete(r) \/ Happening(r)
  PROVE  /\ there' \in [Repo -> Name \cup {None}]
         /\ crawl' \in Surveys
         /\ sent' \in Seq(Events)
         /\ Len(sent') = Len(sent) + 1
         /\ DOMAIN sent \subseteq DOMAIN sent'
         /\ \A i \in DOMAIN sent : sent'[i] = sent[i]
         /\ UNCHANGED <<recorded, pending, registry, projected, triggers, faults>>
<1>1. Names[r] \subseteq Name
  BY NamesAssumption
<1>2. crawl \in Surveys /\ there \in [Repo -> Name \cup {None}]
  BY DEF TypeOK, Surveys, Entries
<1>3. ASSUME NEW n \in Names[r], Create(r, n)
      PROVE  crawl' \in Surveys /\ there' \in [Repo -> Name \cup {None}] /\ Emit(r, n, "present")
  BY <1>1, <1>2, <1>3 DEF Create, Meanwhile, Surveys
<1>4. ASSUME NEW n \in Names[r], Rename(r, n)
      PROVE  crawl' \in Surveys /\ there' \in [Repo -> Name \cup {None}] /\ Emit(r, n, "present")
  BY <1>1, <1>2, <1>4 DEF Rename
<1>5. ASSUME Delete(r)
      PROVE  /\ crawl' \in Surveys /\ there' \in [Repo -> Name \cup {None}]
             /\ there[r] \in Name /\ Emit(r, there[r], "gone")
  BY <1>2, <1>5 DEF Delete, Meanwhile, Surveys
<1>6. ASSUME Happening(r)
      PROVE  /\ crawl' \in Surveys /\ there' \in [Repo -> Name \cup {None}]
             /\ there[r] \in Name
             /\ \E kind \in {"activity", "other"} : Emit(r, there[r], kind)
  BY <1>2, <1>6 DEF Happening
<1>7. PICK n \in Name, kind \in Kinds :
        crawl' \in Surveys /\ there' \in [Repo -> Name \cup {None}] /\ Emit(r, n, kind)
  BY <1>1, <1>3, <1>4, <1>5, <1>6 DEF Kinds
<1>8. QED
  BY <1>7, EmitForm DEF Emit

LEMMA UpsertType ==
  ASSUME TypeOK, NEW i \in DOMAIN sent, Upsert(i)
  PROVE  registry' \in [Repo -> Rows]
<1> DEFINE e == sent[i]
<1>1. e \in Events /\ i \in 0..Len(sent)
  BY DEF TypeOK
<1>2. registry \in [Repo -> Rows]
  BY DEF TypeOK, Rows
<1>3. CASE e.kind \in {"present", "gone"}
  <2>1. [name |-> e.name, presence |-> e.kind, by |-> i] \in Rows
    BY <1>1, <1>3 DEF Events, Rows, Presences
  <2>2. registry' = [registry EXCEPT ![e.repo] =
                       [name |-> e.name, presence |-> e.kind, by |-> i]]
    BY <1>3 DEF Upsert
  <2> HIDE DEF e
  <2>3. QED
    BY <1>2, <2>1, <2>2
<1>4. CASE e.kind = "activity" /\ registry[e.repo].presence # "unknown"
  <2>1. registry' = [registry EXCEPT ![e.repo].by = i]
    BY <1>4 DEF Upsert
  <2> HIDE DEF e
  <2>2. QED
    BY <1>1, <1>2, <2>1 DEF Rows
<1>5. CASE ~(e.kind \in {"present", "gone"})
           /\ ~(e.kind = "activity" /\ registry[e.repo].presence # "unknown")
  BY <1>2, <1>5 DEF Upsert
<1>6. QED
  BY <1>3, <1>4, <1>5

LEMMA ViewType ==
  ASSUME TypeOK, NEW r \in Repo
  PROVE  View(r) \in Views
  BY DEF TypeOK, View, Views

LEMMA ReconcileType ==
  ASSUME TypeOK, Reconcile
  PROVE  pending' = {} /\ projected' \in [Repo -> Views]
<1>1. \A r \in Repo : View(r) \in Views
  BY ViewType
<1>2. projected \in [Repo -> Views]
  BY DEF TypeOK, Views
<1>3. QED
  BY <1>1, <1>2 DEF Reconcile

LEMMA ListingType ==
  ASSUME TypeOK
  PROVE  Cardinality(Listed) \in Nat /\ \A r \in Repo : Place(r) \in Nat
<1>1. IsFiniteSet(Listed)
  BY RepoAssumption, FS_Subset DEF Listed
<1>2. ASSUME NEW r \in Repo
      PROVE  Place(r) \in Nat
  BY <1>1, FS_Subset, FS_CardinalityType DEF Place
<1>3. QED
  BY <1>1, <1>2, FS_CardinalityType

LEMMA FetchedType ==
  ASSUME TypeOK
  PROVE  Fetched \in SUBSET Entries
<1>1. \A r \in Page : r \in Repo /\ there[r] \in Name /\ Place(r) \in Nat
  BY ListingType DEF Page, Listed, TypeOK
<1>2. crawl.found \in SUBSET Entries
  BY DEF TypeOK, Entries
<1>3. QED
  BY <1>1, <1>2 DEF Fetched, Entries

LEMMA NameOfType ==
  ASSUME TypeOK, NEW r \in Seen
  PROVE  r \in Repo /\ NameOf(r) \in Name
<1>1. crawl.found \subseteq Entries
  BY DEF TypeOK, Entries
<1>2. PICK x \in crawl.found : x.repo = r
  BY DEF Seen
<1>3. (CHOOSE y \in crawl.found : y.repo = r) \in crawl.found
  BY <1>2
<1>4. QED
  BY <1>1, <1>2, <1>3 DEF NameOf, Entries

LEMMA RecordedType ==
  ASSUME TypeOK
  PROVE  Recorded \in [Repo -> Rows]
<1> DEFINE row(r) == IF r \in Seen
                     THEN [name |-> NameOf(r), presence |-> "present",
                           by |-> IF r \in Changed THEN 0 ELSE registry[r].by]
                     ELSE IF r \in Missed
                     THEN [registry[r] EXCEPT !.presence = "missing", !.by = 0]
                     ELSE registry[r]
<1>1. ASSUME NEW r \in Repo
      PROVE  row(r) \in Rows
  <2>1. registry[r] \in Rows /\ 0 \in 0..Len(sent)
    BY DEF TypeOK, Rows
  <2>2. CASE r \in Seen
    <3>1. NameOf(r) \in Name
      BY <2>2, NameOfType
    <3>2. QED
      BY <2>1, <2>2, <3>1 DEF Rows, Presences
  <2>3. CASE r \notin Seen
    BY <2>1, <2>3 DEF Rows, Presences
  <2>4. QED
    BY <2>2, <2>3
<1>2. Recorded = [r \in Repo |-> row(r)]
  BY DEF Recorded
<1> HIDE DEF row
<1>3. QED
  BY <1>1, <1>2

LEMMA InitType == Init => TypeOK
<1> SUFFICES ASSUME Init PROVE TypeOK
  OBVIOUS
<1>1. sent = <<>> /\ sent \in Seq(Events) /\ Len(sent) = 0
  BY DEF Init
<1>2. crawl \in Surveys
  BY IdleType DEF Init
<1>3. QED
  BY <1>1, <1>2, BoundsAssumption DEF Init, TypeOK, Presences, Surveys, Entries

LEMMA StepType ==
  ASSUME TypeOK, [Next]_vars
  PROVE  TypeOK'
<1> USE DEF Views, Rows
<1>0. /\ there \in [Repo -> Name \cup {None}]
      /\ sent \in Seq(Events)
      /\ recorded \subseteq DOMAIN sent
      /\ pending \subseteq recorded \cup {0}
      /\ registry \in [Repo -> Rows]
      /\ projected \in [Repo -> Views]
      /\ triggers \subseteq recorded
      /\ crawl \in Surveys
      /\ faults \in 0..MaxFaults
  BY DEF TypeOK, Surveys, Entries
<1>1. ASSUME NEW r \in Repo,
             \/ \E n \in Names[r] : Create(r, n) \/ Rename(r, n)
             \/ Delete(r) \/ Happening(r)
      PROVE  TypeOK'
  <2>1. /\ there' \in [Repo -> Name \cup {None}]
        /\ crawl' \in Surveys
        /\ sent' \in Seq(Events)
        /\ Len(sent') = Len(sent) + 1
        /\ DOMAIN sent \subseteq DOMAIN sent'
        /\ UNCHANGED <<recorded, pending, registry, projected, triggers, faults>>
    BY <1>1, GitHubForm
  <2>2. 0..Len(sent) \subseteq 0..Len(sent')
    BY <1>0, <2>1
  <2>3. registry' \in [Repo -> Rows]'
    BY <1>0, <2>1, <2>2
  <2>4. QED
    BY <1>0, <2>1, <2>3 DEF TypeOK, Surveys, Entries
<1>2. ASSUME NEW i \in DOMAIN sent, Accept(i)
      PROVE  TypeOK'
  <2>1. registry' \in [Repo -> Rows]
    BY <1>2, UpsertType DEF Accept
  <2>2. QED
    BY <1>0, <1>2, <2>1 DEF Accept, github, TypeOK, Surveys, Entries
<1>3. ASSUME NEW i \in triggers, ReconcileAfter(i) \/ TriggerLost(i)
      PROVE  TypeOK'
  <2>1. CASE ReconcileAfter(i)
    <3>1. pending' = {} /\ projected' \in [Repo -> Views]
      BY <2>1, ReconcileType DEF ReconcileAfter
    <3>2. QED
      BY <1>0, <2>1, <3>1 DEF ReconcileAfter, github, TypeOK, Surveys, Entries
  <2>2. CASE TriggerLost(i)
    BY <1>0, <2>2 DEF TriggerLost, github, TypeOK, Surveys, Entries
  <2>3. QED
    BY <1>3, <2>1, <2>2
<1>4. ASSUME Start \/ FetchRefused \/ RecordRefused
      PROVE  TypeOK'
  <2>0. [Idle EXCEPT !.at = "fetch", !.page = 1] \in Surveys
    BY IdleType DEF Surveys, Crawls
  <2>1. crawl' \in Surveys
    BY <1>4, <2>0, IdleType DEF Start, FetchRefused, RecordRefused
  <2>2. QED
    BY <1>0, <1>4, <2>1
       DEF Start, FetchRefused, RecordRefused, github, TypeOK, Surveys, Entries
<1>5. ASSUME FetchPage
      PROVE  TypeOK'
  <2>1. Fetched \in SUBSET Entries /\ Cardinality(Listed) \in Nat
    BY FetchedType, ListingType
  <2>2. PICK at \in Crawls :
          crawl' = [crawl EXCEPT !.at = at, !.page = crawl.page + 1,
                                 !.expected = Cardinality(Listed), !.found = Fetched]
    BY <1>5 DEF FetchPage, Crawls
  <2>3. crawl.page + 1 \in Nat
    BY <1>0 DEF Surveys
  <2>4. crawl' \in Surveys
    BY <1>0, <2>1, <2>2, <2>3 DEF Surveys
  <2>5. QED
    BY <1>0, <1>5, <2>4 DEF FetchPage, github, TypeOK, Surveys, Entries
<1>6. ASSUME Record
      PROVE  TypeOK'
  <2>1. registry' \in [Repo -> Rows]
    BY <1>6, RecordedType DEF Record
  <2>2. crawl' \in Surveys
    BY <1>6, IdleType DEF Record, Surveys, Crawls
  <2>3. QED
    BY <1>0, <1>6, <2>1, <2>2 DEF Record, github, TypeOK, Surveys, Entries
<1>7. ASSUME ReconcileCensus
      PROVE  TypeOK'
  <2>1. pending' = {} /\ projected' \in [Repo -> Views] /\ crawl' \in Surveys
    BY <1>7, ReconcileType, IdleType DEF ReconcileCensus
  <2>2. QED
    BY <1>0, <1>7, <2>1 DEF ReconcileCensus, github, TypeOK, Surveys, Entries
<1>8. ASSUME CensusFails \/ Crash
      PROVE  TypeOK'
  <2>1. crawl' \in Surveys /\ faults' \in 0..MaxFaults /\ triggers' \subseteq recorded
    BY <1>0, <1>8, IdleType, BoundsAssumption DEF CensusFails, Crash
  <2>2. QED
    BY <1>0, <1>8, <2>1 DEF CensusFails, Crash, github, TypeOK, Surveys, Entries
<1>9. CASE UNCHANGED vars
  BY <1>0, <1>9 DEF vars, TypeOK, Surveys, Entries
<1>10. QED
  BY <1>1, <1>2, <1>3, <1>4, <1>5, <1>6, <1>7, <1>8, <1>9 DEF Next, Census

\* Every reachable state is well typed.
THEOREM TypeCorrect == Spec => []TypeOK
  BY InitType, StepType, PTL DEF Spec

-----------------------------------------------------------------------------
(* The projection lags behind the registry only while something waits.     *)

\* A delivery that has a row keeps its meaning as GitHub sends others.
LEMMA MeaningStays ==
  ASSUME TypeOK, NEW o \in pending, Meaningful(o),
         \A i \in DOMAIN sent : sent'[i] = sent[i]
  PROVE  Meaningful(o)'
<1>1. o = 0 \/ o \in DOMAIN sent
  BY DEF TypeOK
<1>2. QED
  BY <1>1 DEF Meaningful

\* After a reconciliation nothing lags.
LEMMA ReconcileCatchesUp ==
  ASSUME TypeOK, LagIsPending, Reconcile, UNCHANGED registry
  PROVE  \A r \in Repo : projected'[r] = View(r)'
<1>1. ASSUME NEW r \in Repo
      PROVE  View(r)' = View(r)
  BY DEF View
<1>2. CASE \E o \in pending : Meaningful(o)
  BY <1>1, <1>2 DEF Reconcile
<1>3. CASE ~ \E o \in pending : Meaningful(o)
  BY <1>1, <1>3 DEF Reconcile, LagIsPending
<1>4. QED
  BY <1>2, <1>3

\* A row changes what is projected of it only by a lifecycle event.
LEMMA UpsertShows ==
  ASSUME TypeOK, NEW i \in DOMAIN sent, Upsert(i), NEW r \in Repo, View(r)' # View(r)
  PROVE  Meaningful(i)
<1>1. registry \in [Repo -> Rows] /\ sent[i] \in Events /\ i # 0
  BY DEF TypeOK, Rows
<1>2. CASE sent[i].kind # "activity"
  BY <1>1, <1>2 DEF Meaningful
<1>3. CASE sent[i].kind = "activity"
  <2>1. registry' = registry \/ registry' = [registry EXCEPT ![sent[i].repo].by = i]
    BY <1>3 DEF Upsert
  <2>2. registry'[r].name = registry[r].name /\ registry'[r].presence = registry[r].presence
    BY <1>1, <2>1 DEF Rows, Events
  <2>3. QED
    BY <2>2 DEF View
<1>4. QED
  BY <1>2, <1>3

\* A row the census neither changed nor missed shows what it did.
LEMMA RecordShows ==
  ASSUME TypeOK, Record, NEW r \in Repo, r \notin Changed \cup Missed
  PROVE  View(r)' = View(r)
<1>1. registry \in [Repo -> Rows] /\ registry' = Recorded
  BY DEF TypeOK, Rows, Record
<1>2. CASE r \in Seen
  <2>1. View(r) = [name |-> NameOf(r), presence |-> "present"]
    BY <1>2 DEF Changed
  <2>2. registry'[r] = [name |-> NameOf(r), presence |-> "present", by |-> registry[r].by]
    BY <1>1, <1>2 DEF Recorded
  <2>3. QED
    BY <2>1, <2>2 DEF View
<1>3. CASE r \notin Seen
  BY <1>1, <1>3 DEF Recorded, View
<1>4. QED
  BY <1>2, <1>3

LEMMA InitLag == Init => LagIsPending
<1> SUFFICES ASSUME Init PROVE LagIsPending
  OBVIOUS
<1>1. \A r \in Repo : projected[r] = View(r)
  BY DEF Init, View
<1>2. QED
  BY <1>1 DEF LagIsPending

LEMMA StepLag ==
  ASSUME TypeOK, LagIsPending, [Next]_vars
  PROVE  LagIsPending'
\* Nothing but GitHub's webhooks changes: what waited waits.
<1>1. ASSUME UNCHANGED <<pending, registry, projected>>,
             \A i \in DOMAIN sent : sent'[i] = sent[i]
      PROVE  LagIsPending'
  <2>1. \A o \in pending : Meaningful(o) => Meaningful(o)'
    BY <1>1, MeaningStays
  <2>2. \A r \in Repo : View(r)' = View(r)
    BY <1>1 DEF View
  <2>3. QED
    BY <1>1, <2>1, <2>2 DEF LagIsPending
<1>2. ASSUME NEW r \in Repo,
             \/ \E n \in Names[r] : Create(r, n) \/ Rename(r, n)
             \/ Delete(r) \/ Happening(r)
      PROVE  LagIsPending'
  BY <1>1, <1>2, GitHubForm
<1>3. ASSUME NEW i \in DOMAIN sent, Accept(i)
      PROVE  LagIsPending'
  <2>1. /\ pending' = pending \cup {i}
        /\ projected' = projected /\ sent' = sent
        /\ Upsert(i)
    BY <1>3 DEF Accept, github
  <2>2. \A o : Meaningful(o)' = Meaningful(o)
    BY <2>1 DEF Meaningful
  <2>3. ASSUME NEW r \in Repo, projected'[r] # View(r)'
        PROVE  \E o \in pending' : Meaningful(o)'
    <3>1. CASE View(r)' = View(r)
      BY <2>1, <2>2, <2>3, <3>1 DEF LagIsPending
    <3>2. CASE View(r)' # View(r)
      BY <2>1, <2>2, <3>2, UpsertShows
    <3>3. QED
      BY <3>1, <3>2
  <2>4. QED
    BY <2>3 DEF LagIsPending
<1>4. ASSUME Reconcile, UNCHANGED registry
      PROVE  LagIsPending'
  BY <1>4, ReconcileCatchesUp DEF LagIsPending
<1>5. ASSUME Record
      PROVE  LagIsPending'
  <2>1. /\ pending' = IF Changed \cup Missed # {} THEN pending \cup {0} ELSE pending
        /\ projected' = projected /\ sent' = sent
    BY <1>5 DEF Record, github
  <2>2. CASE Changed \cup Missed # {}
    BY <2>1, <2>2 DEF LagIsPending, Meaningful
  <2>3. CASE Changed \cup Missed = {}
    <3>1. \A r \in Repo : View(r)' = View(r)
      BY <1>5, <2>3, RecordShows
    <3>2. \A o : Meaningful(o)' = Meaningful(o)
      BY <2>1 DEF Meaningful
    <3>3. QED
      BY <2>1, <2>3, <3>1, <3>2 DEF LagIsPending
  <2>4. QED
    BY <2>2, <2>3
<1>6. CASE \E i \in triggers : ReconcileAfter(i) \/ TriggerLost(i)
  BY <1>1, <1>4, <1>6 DEF ReconcileAfter, TriggerLost, github
<1>7. CASE Census
  BY <1>1, <1>4, <1>5, <1>7
     DEF Census, Start, FetchPage, FetchRefused, RecordRefused, ReconcileCensus, github
<1>8. CASE CensusFails \/ Crash \/ UNCHANGED vars
  BY <1>1, <1>8 DEF CensusFails, Crash, github, vars
<1>9. QED
  BY <1>2, <1>3, <1>6, <1>7, <1>8 DEF Next

\* Whatever webhooks are lost or late, whatever triggers, tasks and censuses
\* fail, and wherever the process dies, the projection is behind the registry
\* only while an observation waits that will have it brought up to date.
THEOREM NothingLagsSilently == Spec => []LagIsPending
<1>1. TypeOK /\ LagIsPending /\ [Next]_vars => LagIsPending'
  BY StepLag
<1>2. QED
  BY <1>1, InitLag, TypeCorrect, PTL DEF Spec

-----------------------------------------------------------------------------
(* A webhook counts once.                                                  *)

\* The row of a repository takes its word from a delivery only when that is
\* first put on record, however often, and in whatever order, it comes again.
THEOREM RedeliveryIsHarmless == Spec => DeliveryCountsOnce
<1>1. ASSUME TypeOK, [Next]_vars, NEW r \in Repo, NEW i \in recorded, registry'[r].by = i
      PROVE  registry[r].by = i
  <2>0. i \in DOMAIN sent /\ sent \in Seq(Events)
    BY <1>1 DEF TypeOK
  <2>1. registry \in [Repo -> Rows] /\ i # 0
    BY <1>1, <2>0 DEF TypeOK, Rows
  <2>2. CASE UNCHANGED registry
    BY <1>1, <2>2
  <2>3. ASSUME NEW k \in DOMAIN sent, Accept(k)
        PROVE  registry[r].by = i
    <3>0. k \notin recorded /\ Upsert(k)
      BY <2>3 DEF Accept
    <3>1. sent[k] \in Events /\ Upsert(k) /\ k # i
      BY <1>1, <2>0, <3>0
    <3>2. \/ registry' = registry
          \/ registry' = [registry EXCEPT ![sent[k].repo].by = k]
          \/ registry' = [registry EXCEPT ![sent[k].repo] =
                            [name |-> sent[k].name, presence |-> sent[k].kind, by |-> k]]
      BY <3>1 DEF Upsert
    <3>3. registry'[r].by \in {registry[r].by, k}
      BY <2>1, <3>1, <3>2 DEF Rows, Events
    <3>4. QED
      BY <1>1, <3>1, <3>3
  <2>4. ASSUME Record
        PROVE  registry[r].by = i
    <3>1. registry'[r].by \in {registry[r].by, 0}
      BY <2>1, <2>4 DEF Record, Recorded, Rows
    <3>2. QED
      BY <1>1, <2>1, <3>1
  <2>5. QED
    <3>1. ASSUME NEW s \in Repo,
                 \/ \E n \in Names[s] : Create(s, n) \/ Rename(s, n)
                 \/ Delete(s) \/ Happening(s)
          PROVE  UNCHANGED registry
      BY <1>1, <3>1, GitHubForm
    <3>2. CASE \E k \in triggers : ReconcileAfter(k) \/ TriggerLost(k)
      BY <2>2, <3>2 DEF ReconcileAfter, TriggerLost
    <3>3. CASE Census
      BY <2>2, <2>4, <3>3
         DEF Census, Start, FetchPage, FetchRefused, RecordRefused, ReconcileCensus
    <3>4. CASE CensusFails \/ Crash \/ UNCHANGED vars
      BY <2>2, <3>4 DEF CensusFails, Crash, vars
    <3>5. QED
      BY <1>1, <2>2, <2>3, <3>1, <3>2, <3>3, <3>4 DEF Next
<1>2. TypeOK /\ [Next]_vars =>
        [\A r \in Repo : \A i \in recorded :
           registry'[r].by = i => registry[r].by = i]_vars
  BY <1>1
<1>3. QED
  BY <1>2, TypeCorrect, PTL DEF Spec, DeliveryCountsOnce

-----------------------------------------------------------------------------
(* What the census calls missing.                                          *)

LEMMA ListedFinite ==
  ASSUME TypeOK
  PROVE  /\ Listed \subseteq Nat /\ IsFiniteSet(Listed) /\ Cardinality(Listed) \in Nat
         /\ \A r \in Repo : IsFiniteSet({s \in Listed : s <= r}) /\ Place(r) \in Nat
<1>1. Listed \subseteq Repo /\ Listed \subseteq Nat /\ IsFiniteSet(Listed)
  BY RepoAssumption, FS_Subset DEF Listed
<1>2. \A r \in Repo : IsFiniteSet({s \in Listed : s <= r})
  BY <1>1, FS_Subset
<1>3. QED
  BY <1>1, <1>2, ListingType

\* Places grow with the ids, from 1 to the number of repositories listed.
LEMMA PlacesGrow ==
  ASSUME TypeOK, NEW r \in Listed
  PROVE  /\ Place(r) \in 1..Cardinality(Listed)
         /\ \A s \in Listed : s < r => Place(s) < Place(r)
<1> DEFINE below == {t \in Listed : t <= r}
<1>0. Listed \subseteq Nat
  BY ListedFinite
<1>1. r \in Nat /\ r \in below /\ r \in Repo
  BY <1>0 DEF Listed
<1>2. IsFiniteSet(below) /\ Place(r) = Cardinality(below) /\ Place(r) \in Nat
  BY <1>1, ListedFinite DEF Place
<1>3. Place(r) <= Cardinality(Listed)
  BY <1>2, ListedFinite, FS_Subset
<1>4. Place(r) # 0
  BY <1>1, <1>2, FS_EmptySet
<1>5. ASSUME NEW s \in Listed, s < r
      PROVE  Place(s) < Place(r)
  <2>1. s \in Nat /\ s \in Repo
    BY ListedFinite DEF Listed
  <2>2. {t \in Listed : t <= s} \subseteq below \ {r}
    <3>1. ASSUME NEW t \in Listed, t <= s
          PROVE  t <= r /\ t # r
      BY <1>0, <1>1, <1>5, <2>1, <3>1
    <3>2. QED
      BY <3>1
  <2>3. IsFiniteSet(below \ {r}) /\ Cardinality(below \ {r}) = Place(r) - 1
    BY <1>1, <1>2, FS_RemoveElement
  <2>4. Place(s) <= Cardinality(below \ {r})
    BY <2>2, <2>3, FS_Subset DEF Place
  <2>5. Place(s) \in Nat
    BY <2>1, ListedFinite
  <2>6. Place(s) <= Place(r) - 1 /\ Place(r) \in Nat
    BY <1>2, <2>3, <2>4
  <2>7. QED
    BY <2>5, <2>6
<1>6. QED
  BY <1>2, <1>3, <1>4, <1>5, ListedFinite

\* Every place is taken, by one repository.
LEMMA PlacesAreTaken ==
  ASSUME TypeOK
  PROVE  /\ \A r, s \in Listed : Place(r) = Place(s) => r = s
         /\ \A k \in 1..Cardinality(Listed) : \E r \in Listed : Place(r) = k
<1> DEFINE place == [r \in Listed |-> Place(r)]
           places == 1..Cardinality(Listed)
<1>1. ASSUME NEW r \in Listed, NEW s \in Listed, Place(r) = Place(s)
      PROVE  r = s
  <2>1. r \in Nat /\ s \in Nat /\ Place(r) \in Nat /\ Place(s) \in Nat
    BY ListedFinite DEF Listed
  <2>2. ~(r < s) /\ ~(s < r)
    BY <1>1, <2>1, PlacesGrow
  <2>3. QED
    BY <2>1, <2>2
<1>2. place \in [Listed -> places]
  BY PlacesGrow
<1>3. place \in Injection(Listed, places)
  BY <1>1, <1>2 DEF Injection, IsInjective
<1>4. IsFiniteSet(places) /\ Cardinality(places) = Cardinality(Listed)
  <2>1. Cardinality(Listed) \in Nat
    BY ListedFinite
  <2>2. QED
    BY <2>1, FS_Interval
<1>5. place \in Surjection(Listed, places)
  BY <1>3, <1>4, FS_Injection
<1>6. ASSUME NEW k \in places
      PROVE  \E r \in Listed : Place(r) = k
  BY <1>5 DEF Surjection
<1>7. QED
  BY <1>1, <1>6

\* A page before the place of a listed repository is full.
LEMMA FullPage ==
  ASSUME TypeOK, crawl.page # 0, NEW r \in Listed, Place(r) > crawl.page * PageSize
  PROVE  Cardinality(Page) = PageSize
<1> DEFINE lo == (crawl.page - 1) * PageSize
           hi == crawl.page * PageSize
           place == [s \in Page |-> Place(s)]
<1>1. crawl.page \in Nat \ {0} /\ PageSize \in Nat \ {0}
  BY PageAssumption DEF TypeOK
<1>2. lo \in Nat /\ hi \in Nat /\ hi = lo + PageSize
  BY <1>1
<1>3. Page = {s \in Listed : Place(s) > lo /\ Place(s) <= hi} /\ Place(r) > hi
  BY DEF Page
<1> HIDE DEF lo, hi
<1>4. Page \subseteq Listed /\ \A s \in Listed : Place(s) \in Nat
  BY <1>3, PlacesGrow
<1>5. IsFiniteSet(Page)
  BY <1>4, ListedFinite, FS_Subset
<1>6. \A s, t \in Page : Place(s) = Place(t) => s = t
  BY <1>4, PlacesAreTaken
<1>7. \A s \in Page : Place(s) \in (lo + 1)..hi
  BY <1>2, <1>3, <1>4
<1>8. ASSUME NEW k \in (lo + 1)..hi
      PROVE  \E s \in Page : Place(s) = k
  <2>1. Place(r) \in 1..Cardinality(Listed) /\ Cardinality(Listed) \in Nat
    BY PlacesGrow, ListedFinite
  <2>2. k \in 1..Cardinality(Listed)
    BY <1>2, <1>3, <2>1
  <2>3. PICK s \in Listed : Place(s) = k
    BY <2>2, PlacesAreTaken
  <2>4. k > lo /\ k <= hi
    BY <1>2
  <2>5. QED
    BY <1>3, <2>3, <2>4
<1>9. place \in Injection(Page, (lo + 1)..hi)
  BY <1>6, <1>7 DEF Injection, IsInjective
<1>10. place \in Surjection(Page, (lo + 1)..hi)
  BY <1>7, <1>8 DEF Surjection
<1>11. IsFiniteSet((lo + 1)..hi) /\ Cardinality((lo + 1)..hi) = PageSize
  <2>1. lo + 1 \in Int /\ hi \in Int /\ ~(lo + 1 > hi) /\ hi - (lo + 1) + 1 = PageSize
    BY <1>1, <1>2
  <2>2. QED
    BY <2>1, FS_Interval
<1>12. Cardinality(Page) = Cardinality((lo + 1)..hi)
  BY <1>9, <1>10, <1>11, FS_Injection
<1>13. QED
  BY <1>11, <1>12

\* A repository comes before r no longer, and another came.
MadeUp(r) == crawl.joined # {} /\ \E s \in crawl.left : s < r

\* Listed since the census began.
Standing == Listed \ (crawl.left \cup crawl.joined)

\* A standing repository was read, or is still to come, or moved up across the
\* pages read; then the total is less than announced, or another came.
Reading(r) ==
  \/ r \in Seen
  \/ Place(r) > (crawl.page - 1) * PageSize
  \/ MadeUp(r)
  \/ (\E s \in crawl.left : s < r) /\ Cardinality(Listed) < crawl.expected

CrawlInv ==
  /\ crawl.at = "fetch" =>
       /\ crawl.page # 0
       /\ crawl.page > 1 /\ crawl.joined = {} => Cardinality(Listed) <= crawl.expected
       /\ \A r \in Standing : Reading(r)
  /\ crawl.at = "record" => \A r \in Standing : r \in Seen \/ MadeUp(r)

\* Before the first page all is still to come.
LEMMA FirstPage ==
  ASSUME crawl'.page = 1
  PROVE  \A r \in Standing' : Reading(r)'
<1>1. (crawl'.page - 1) * PageSize = 0
  BY PageAssumption
<1>2. ASSUME NEW r \in Standing'
      PROVE  Place(r)' > 0
  <2> DEFINE below == {s \in Listed' : s <= r}
  <2>1. r \in Repo /\ r \in Nat /\ r \in Listed' /\ Listed' \subseteq Repo
    BY RepoAssumption DEF Standing, Listed
  <2>2. r \in below /\ below \in SUBSET Repo
    <3>1. r <= r
      BY <2>1
    <3>2. QED
      BY <2>1, <3>1
  <2>3. Place(r)' = Cardinality(below)
    BY DEF Place
  <2> HIDE DEF below
  <2>4. IsFiniteSet(below)
    BY <2>2, RepoAssumption, FS_Subset
  <2>5. Cardinality(below) \in Nat /\ Cardinality(below) # 0
    BY <2>2, <2>4, FS_CardinalityType, FS_EmptySet
  <2>6. QED
    BY <2>3, <2>5
<1>3. QED
  BY <1>1, <1>2 DEF Reading

LEMMA SeenStays ==
  ASSUME crawl'.found = crawl.found
  PROVE  Seen' = Seen
  BY DEF Seen

LEMMA CrawlStart ==
  ASSUME Start
  PROVE  CrawlInv'
<1>1. /\ crawl'.at = "fetch" /\ crawl'.page = 1
  BY DEF Start, Idle
<1>2. \A r \in Standing' : Reading(r)'
  BY <1>1, FirstPage
<1>3. QED
  BY <1>1, <1>2 DEF CrawlInv

LEMMA CrawlFetch ==
  ASSUME TypeOK, CrawlInv, FetchPage
  PROVE  CrawlInv'
<1> DEFINE last == Cardinality(Page) < PageSize
           total == Cardinality(Listed)
<1>1. /\ crawl.at = "fetch" /\ SameTotal
      /\ crawl' = [crawl EXCEPT !.at = IF last THEN "record" ELSE "fetch",
                                !.page = @ + 1, !.expected = total, !.found = Fetched]
      /\ there' = there
  BY DEF FetchPage, github
<1>2. crawl \in Surveys
  BY DEF TypeOK, Surveys, Entries
<1>3. /\ crawl'.at = (IF last THEN "record" ELSE "fetch")
      /\ crawl'.page = crawl.page + 1
      /\ crawl'.expected = total /\ crawl'.found = Fetched
      /\ crawl'.left = crawl.left /\ crawl'.joined = crawl.joined
  BY <1>1, <1>2 DEF Surveys
<1>4. /\ crawl.page \in Nat \ {0} /\ total \in Nat
      /\ crawl.page > 1 /\ crawl.joined = {} => total <= crawl.expected
      /\ \A r \in Standing : Reading(r)
  BY <1>1, <1>2, ListedFinite DEF CrawlInv, Surveys
<1>5. /\ Listed' = Listed /\ Standing' = Standing
      /\ \A r : Place(r)' = Place(r) /\ MadeUp(r)' = MadeUp(r)
  BY <1>1, <1>3 DEF Listed, Standing, Place, MadeUp
<1>6. Seen \subseteq Seen' /\ Page \subseteq Seen'
  <2>1. Seen' = {x.repo : x \in Fetched}
    BY <1>3 DEF Seen
  <2>2. QED
    <3>1. ASSUME NEW r \in Seen
          PROVE  r \in Seen'
      <4>1. PICK x \in crawl.found : x.repo = r
        BY DEF Seen
      <4>2. x \in Fetched
        BY DEF Fetched
      <4>3. QED
        BY <2>1, <4>1, <4>2
    <3>2. ASSUME NEW r \in Page
          PROVE  r \in Seen'
      <4> DEFINE x == [place |-> Place(r), repo |-> r, name |-> there[r]]
      <4>1. x \in Fetched /\ x.repo = r
        BY DEF Fetched
      <4> HIDE DEF x
      <4>2. QED
        BY <2>1, <4>1
    <3>3. QED
      BY <3>1, <3>2
<1>7. ASSUME NEW r \in Standing
      PROVE  r \in Seen' \/ MadeUp(r) \/ Place(r) > crawl.page * PageSize
  <2>0. r \in Listed
    BY DEF Standing
  <2>1. CASE r \in Seen
    BY <1>6, <2>1
  <2>2. CASE Place(r) > (crawl.page - 1) * PageSize
    <3>1. crawl.page * PageSize \in Nat /\ Place(r) \in Nat
      BY <1>4, <2>0, PageAssumption, PlacesGrow
    <3>2. r \in Page \/ Place(r) > crawl.page * PageSize
      BY <2>0, <2>2, <3>1 DEF Page
    <3>3. QED
      BY <1>6, <3>2
  <2>3. CASE /\ \E s \in crawl.left : s < r
             /\ total < crawl.expected
             /\ crawl.page > 1
    <3>1. total = crawl.expected
      BY <1>1, <2>3 DEF SameTotal
    <3>2. QED
      BY <1>2, <1>4, <2>3, <3>1 DEF Surveys
  <2>4. CASE crawl.page = 1
    <3>1. (crawl.page - 1) * PageSize = 0 /\ Place(r) \in Nat /\ Place(r) # 0
      BY <2>0, <2>4, PageAssumption, PlacesGrow
    <3>2. QED
      BY <2>2, <3>1
  <2>5. QED
    BY <1>4, <2>1, <2>2, <2>3, <2>4 DEF Reading
<1>8. CASE ~last
  <2>1. ASSUME NEW r \in Standing
        PROVE  Reading(r)'
    <3>1. (crawl'.page - 1) * PageSize = crawl.page * PageSize
      BY <1>3, <1>4, PageAssumption
    <3>2. QED
      BY <1>5, <1>7, <3>1 DEF Reading
  <2>2. crawl'.at = "fetch" /\ crawl'.page # 0 /\ Cardinality(Listed)' <= crawl'.expected
    BY <1>3, <1>4, <1>5, <1>8
  <2>3. QED
    BY <1>5, <2>1, <2>2 DEF CrawlInv
<1>9. CASE last
  <2>1. ASSUME NEW r \in Standing
        PROVE  r \in Seen' \/ MadeUp(r)'
    <3>1. r \in Listed /\ PageSize \in Nat
      BY PageAssumption DEF Standing
    <3>2. ~(Place(r) > crawl.page * PageSize)
      BY <1>4, <1>9, <3>1, FullPage
    <3>3. QED
      BY <1>5, <1>7, <3>2
  <2>2. crawl'.at = "record"
    BY <1>3, <1>9
  <2>3. QED
    BY <1>5, <2>1, <2>2 DEF CrawlInv
<1>10. QED
  BY <1>8, <1>9

\* One repository more: no place goes down.
LEMMA CrawlCreate ==
  ASSUME TypeOK, CrawlInv, NEW q \in Repo, NEW n \in Name, Create(q, n)
  PROVE  CrawlInv'
<1>1. CASE crawl.at = "idle"
  BY <1>1 DEF Create, Meanwhile, CrawlInv
<1>2. CASE crawl.at # "idle"
  <2>1. crawl \in Surveys /\ there \in [Repo -> Name \cup {None}]
    BY DEF TypeOK, Surveys, Entries
  <2>2. /\ crawl'.at = crawl.at /\ crawl'.page = crawl.page
        /\ crawl'.expected = crawl.expected /\ crawl'.found = crawl.found
        /\ crawl'.left = crawl.left /\ crawl'.joined = crawl.joined \cup {q}
    BY <1>2, <2>1 DEF Create, Meanwhile, Surveys
  <2>3. Listed' = Listed \cup {q}
    BY <2>1, NameAssumption DEF Create, Listed
  <2>4. Standing' \subseteq Standing
    BY <2>2, <2>3 DEF Standing
  <2>5. \A r : MadeUp(r) => MadeUp(r)'
    BY <2>2 DEF MadeUp
  <2>6. Seen' = Seen
    BY <2>2, SeenStays
  <2>7. ASSUME NEW r \in Standing, Reading(r)
        PROVE  Reading(r)'
    <3>0. r \in Repo
      BY DEF Standing, Listed
    <3>1. Place(r) <= Place(r)' /\ Place(r) \in Nat /\ Place(r)' \in Nat
      <4> DEFINE below == {s \in Listed : s <= r}
                 below_ == {s \in Listed' : s <= r}
      <4>1. below \in SUBSET below_ /\ below_ \in SUBSET Repo
        BY <2>3 DEF Listed
      <4>2. Place(r) = Cardinality(below) /\ Place(r)' = Cardinality(below_)
        BY DEF Place
      <4> HIDE DEF below, below_
      <4>3. IsFiniteSet(below) /\ IsFiniteSet(below_)
        BY <4>1, RepoAssumption, FS_Subset
      <4>4. /\ Cardinality(below) <= Cardinality(below_)
            /\ Cardinality(below) \in Nat /\ Cardinality(below_) \in Nat
        BY <4>1, <4>3, FS_Subset, FS_CardinalityType
      <4>5. QED
        BY <4>2, <4>4
    <3>2. (crawl'.page - 1) * PageSize = (crawl.page - 1) * PageSize
          /\ (crawl.page - 1) * PageSize \in Int
      BY <2>1, <2>2, PageAssumption DEF Surveys
    <3>3. CASE r \in Seen \/ MadeUp(r)
      BY <2>5, <2>6, <3>3 DEF Reading
    <3>4. CASE Place(r) > (crawl.page - 1) * PageSize
      <4>1. Place(r)' > (crawl'.page - 1) * PageSize
        BY <3>1, <3>2, <3>4
      <4>2. QED
        BY <4>1 DEF Reading
    <3>5. CASE \E s \in crawl.left : s < r
      BY <2>2, <3>5 DEF Reading, MadeUp
    <3>6. QED
      BY <2>7, <3>3, <3>4, <3>5 DEF Reading
  <2>8. QED
    BY <2>2, <2>4, <2>5, <2>6, <2>7 DEF CrawlInv
<1>3. QED
  BY <1>1, <1>2

\* One repository fewer: those after it move up by one place.
LEMMA CrawlDelete ==
  ASSUME TypeOK, CrawlInv, NEW q \in Repo, Delete(q)
  PROVE  CrawlInv'
<1>1. CASE crawl.at = "idle"
  BY <1>1 DEF Delete, Meanwhile, CrawlInv
<1>2. CASE crawl.at # "idle"
  <2>1. crawl \in Surveys /\ there \in [Repo -> Name \cup {None}]
    BY DEF TypeOK, Surveys, Entries
  <2>2. /\ crawl'.at = crawl.at /\ crawl'.page = crawl.page
        /\ crawl'.expected = crawl.expected /\ crawl'.found = crawl.found
        /\ crawl'.left = crawl.left \cup {q} /\ crawl'.joined = crawl.joined
    BY <1>2, <2>1 DEF Delete, Meanwhile, Surveys
  <2>3. Listed' = Listed \ {q} /\ q \in Listed
    BY <2>1 DEF Delete, Listed
  <2>4. Standing' \subseteq Standing /\ q \notin Standing'
    BY <2>2, <2>3 DEF Standing
  <2>5. \A r : MadeUp(r) => MadeUp(r)'
    BY <2>2 DEF MadeUp
  <2>6. Seen' = Seen
    BY <2>2, SeenStays
  <2>7. Cardinality(Listed)' = Cardinality(Listed) - 1 /\ Cardinality(Listed) \in Nat
    BY <2>3, ListedFinite, FS_RemoveElement
  <2>8. /\ crawl.page \in Nat /\ crawl.expected \in Nat
        /\ (crawl.page - 1) * PageSize \in Int
        /\ (crawl'.page - 1) * PageSize = (crawl.page - 1) * PageSize
    BY <2>1, <2>2, PageAssumption DEF Surveys
  <2>9. ASSUME crawl.at = "fetch", crawl.page # 1, NEW r \in Standing', Reading(r)
        PROVE  Reading(r)'
    <3>0. r \in Listed /\ r \in Repo /\ r # q /\ r \in Nat /\ q \in Nat
      BY <2>4, ListedFinite, RepoAssumption DEF Standing, Listed
    <3>1. crawl.joined = {} => Cardinality(Listed)' < crawl'.expected
      BY <2>2, <2>7, <2>8, <2>9 DEF CrawlInv
    <3>2. CASE r \in Seen \/ MadeUp(r)
      BY <2>5, <2>6, <3>2 DEF Reading
    <3>3. CASE (\E s \in crawl.left : s < r) /\ Cardinality(Listed) < crawl.expected
      <4>1. Cardinality(Listed)' < crawl'.expected
        BY <2>2, <2>7, <2>8, <3>3
      <4>2. QED
        BY <2>2, <3>3, <4>1 DEF Reading
    <3>4. CASE Place(r) > (crawl.page - 1) * PageSize /\ q < r
      <4>1. q \in crawl'.left
        BY <2>2
      <4>2. CASE crawl.joined = {}
        BY <3>1, <3>4, <4>1, <4>2 DEF Reading
      <4>3. CASE crawl.joined # {}
        BY <2>2, <3>4, <4>1, <4>3 DEF Reading, MadeUp
      <4>4. QED
        BY <4>2, <4>3
    <3>5. CASE Place(r) > (crawl.page - 1) * PageSize /\ ~(q < r)
      <4>1. {s \in Listed' : s <= r} = {s \in Listed : s <= r}
        BY <2>3, <3>0, <3>5
      <4>2. Place(r)' = Place(r)
        BY <4>1 DEF Place
      <4>3. QED
        BY <2>8, <3>5, <4>2 DEF Reading
    <3>6. QED
      BY <2>9, <3>2, <3>3, <3>4, <3>5 DEF Reading
  <2>10. CASE crawl.at = "fetch" /\ crawl.page = 1
    <3>1. crawl'.page = 1
      BY <2>2, <2>10
    <3>2. \A r \in Standing' : Reading(r)'
      BY <3>1, FirstPage
    <3>3. QED
      BY <2>2, <2>10, <3>1, <3>2 DEF CrawlInv
  <2>11. CASE crawl.at = "fetch" /\ crawl.page # 1
    <3>1. \A r \in Standing' : Reading(r)'
      BY <2>4, <2>9, <2>11 DEF CrawlInv
    <3>2. crawl.joined = {} => Cardinality(Listed)' <= crawl'.expected
      BY <2>2, <2>7, <2>8, <2>11 DEF CrawlInv
    <3>3. QED
      BY <2>2, <2>11, <3>1, <3>2 DEF CrawlInv
  <2>12. CASE crawl.at = "record"
    BY <2>2, <2>4, <2>5, <2>6, <2>12 DEF CrawlInv
  <2>13. QED
    BY <2>2, <2>10, <2>11, <2>12 DEF CrawlInv
<1>3. QED
  BY <1>1, <1>2

\* The listing and the census stay as they are.
LEMMA CrawlStays ==
  ASSUME CrawlInv, Listed' = Listed, UNCHANGED crawl
  PROVE  CrawlInv'
<1>1. /\ Seen' = Seen /\ Standing' = Standing
      /\ \A r : Place(r)' = Place(r) /\ MadeUp(r)' = MadeUp(r)
  BY DEF Seen, Standing, Place, MadeUp
<1>2. \A r : Reading(r)' = Reading(r)
  BY <1>1 DEF Reading
<1>3. QED
  BY <1>1, <1>2 DEF CrawlInv

LEMMA StepCrawl ==
  ASSUME TypeOK, CrawlInv, [Next]_vars
  PROVE  CrawlInv'
<1>1. ASSUME UNCHANGED <<there, crawl>>
      PROVE  CrawlInv'
  BY <1>1, CrawlStays DEF Listed
<1>2. ASSUME crawl'.at \notin {"fetch", "record"}
      PROVE  CrawlInv'
  BY <1>2 DEF CrawlInv
<1>3. ASSUME NEW r \in Repo, NEW n \in Names[r], Create(r, n) \/ Rename(r, n)
      PROVE  CrawlInv'
  <2>1. n \in Name /\ there \in [Repo -> Name \cup {None}]
    BY NamesAssumption DEF TypeOK
  <2>2. CASE Rename(r, n)
    <3>1. Listed' = Listed /\ crawl' = crawl
      BY <2>1, <2>2, NameAssumption DEF Rename, Listed
    <3>2. QED
      BY <3>1, CrawlStays
  <2>3. QED
    BY <1>3, <2>1, <2>2, CrawlCreate
<1>4. CASE \E r \in Repo : Delete(r) \/ Happening(r)
  BY <1>1, <1>4, CrawlDelete DEF Happening
<1>5. CASE \/ \E i \in DOMAIN sent : Accept(i)
           \/ \E i \in triggers : ReconcileAfter(i) \/ TriggerLost(i)
           \/ UNCHANGED vars
  BY <1>1, <1>5 DEF Accept, ReconcileAfter, TriggerLost, github, vars
<1>6. CASE FetchRefused \/ Record \/ RecordRefused \/ ReconcileCensus \/ CensusFails \/ Crash
  BY <1>2, <1>6
     DEF FetchRefused, Record, RecordRefused, ReconcileCensus, CensusFails, Crash, Idle
<1>7. QED
  BY <1>3, <1>4, <1>5, <1>6, CrawlStart, CrawlFetch DEF Next, Census

\* For pages of any size, and however the listing moves under the reader: a
\* census calls missing a repository that was listed from its first request to
\* the recording transaction only if one before it left and another joined
\* meanwhile, so that the totals agreed.
THEOREM MissingHasAReason == Spec => MissingIsExplained
<1>1. Init => CrawlInv
  BY DEF Init, CrawlInv, Idle
<1>2. TypeOK /\ CrawlInv /\ [Next]_vars => CrawlInv'
  BY StepCrawl
<1>3. Spec => []CrawlInv
  BY <1>1, <1>2, TypeCorrect, PTL DEF Spec
<1>4. ASSUME TypeOK, CrawlInv, [Next]_vars, NEW r \in Repo,
             registry'[r].presence = "missing", registry[r].presence # "missing"
      PROVE  \/ there[r] = None
             \/ r \in crawl.left \cup crawl.joined
             \/ crawl.joined # {} /\ \E s \in crawl.left : s < r
  <2>1. registry \in [Repo -> Rows] /\ registry' # registry
    BY <1>4 DEF TypeOK, Rows
  <2>2. ASSUME NEW i \in DOMAIN sent, Accept(i)
        PROVE  FALSE
    <3>1. sent[i] \in Events /\ Upsert(i)
      BY <1>4, <2>2 DEF Accept, TypeOK
    <3>2. \/ registry' = registry
          \/ registry' = [registry EXCEPT ![sent[i].repo].by = i]
          \/ /\ registry' = [registry EXCEPT ![sent[i].repo] =
                   [name |-> sent[i].name, presence |-> sent[i].kind, by |-> i]]
             /\ sent[i].kind # "missing"
      BY <3>1 DEF Upsert
    <3>3. registry'[r].presence \in {registry[r].presence, sent[i].kind}
          /\ (registry'[r].presence = registry[r].presence \/ sent[i].kind # "missing")
      BY <2>1, <3>1, <3>2 DEF Rows, Events
    <3>4. QED
      BY <1>4, <3>3
  <2>3. Record
    <3>1. ASSUME NEW s \in Repo,
                 \/ \E n \in Names[s] : Create(s, n) \/ Rename(s, n)
                 \/ Delete(s) \/ Happening(s)
          PROVE  UNCHANGED registry
      BY <1>4, <3>1, GitHubForm
    <3>2. CASE \E k \in triggers : ReconcileAfter(k) \/ TriggerLost(k)
      BY <2>1, <3>2 DEF ReconcileAfter, TriggerLost
    <3>3. CASE Census
      BY <2>1, <3>3
         DEF Census, Start, FetchPage, FetchRefused, RecordRefused, ReconcileCensus
    <3>4. CASE CensusFails \/ Crash \/ UNCHANGED vars
      BY <2>1, <3>4 DEF CensusFails, Crash, vars
    <3>5. QED
      BY <1>4, <2>1, <2>2, <3>1, <3>2, <3>3, <3>4 DEF Next
  <2>4. crawl.at = "record" /\ registry' = Recorded
    BY <2>3 DEF Record
  <2>5. r \notin Seen
    BY <1>4, <2>1, <2>4 DEF Recorded
  <2>6. r \in Standing => MadeUp(r)
    BY <1>4, <2>4, <2>5 DEF CrawlInv
  <2>7. QED
    BY <2>6 DEF Standing, Listed, MadeUp
<1>5. TypeOK /\ CrawlInv /\ [Next]_vars =>
        [\A r \in Repo :
           registry'[r].presence = "missing" /\ registry[r].presence # "missing" =>
             \/ there[r] = None
             \/ r \in crawl.left \cup crawl.joined
             \/ crawl.joined # {} /\ \E s \in crawl.left : s < r]_vars
  BY <1>4
<1>6. QED
  BY <1>3, <1>5, TypeCorrect, PTL DEF Spec, MissingIsExplained
=============================================================================
