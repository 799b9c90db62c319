------------------------------ MODULE Projection ------------------------------
(***************************************************************************)
(* The projection of reconciled records into a Google Sheet: src/src/      *)
(* sheet.rs, with what reconcile.rs does to its table.  A pass loads the   *)
(* records to write, reads the sheet, marks a mutation in flight, sends    *)
(* one batchUpdate and records its outcome; a reconciliation may commit    *)
(* between any two of these, and the process may die.                      *)
(*                                                                         *)
(* A record's content is an opaque value, so that two contents are equal   *)
(* when their digests are.  Credentials and the headers of the sheet are   *)
(* left out: what goes wrong with them ends the pass, as a failed read     *)
(* does.  LIMIT 100 is out of reach of the few records here.               *)
(***************************************************************************)
EXTENDS Naturals, Sequences, FiniteSets

CONSTANTS
  Repo,          \* GH-REPO records: a row is appended for one that has none
  Board,         \* LB records: one that has no row is skipped
  Content,       \* what a reconciliation may want a record to say
  Blank,         \* what the rows say at first
  MaxMutations,  \* bound on mutations
  MaxFaults      \* bound on crashes and failed outcome transactions

Record == Repo \cup Board

\* The records are rows of a table.
ASSUME RecordAssumption == IsFiniteSet(Record)
ASSUME KindAssumption   == Repo \cap Board = {}
ASSUME BlankAssumption  == Blank \notin Content
ASSUME BoundsAssumption == MaxMutations \in Nat /\ MaxFaults \in Nat

VARIABLES
  desired,    \* projection_records.desired_json, Blank before the row exists
  status,     \* projection_records.status, "absent" before the row exists
  mutation,   \* projection_records.mutation_id, 0 = NULL
  mutations,  \* projection_mutations, in order of their ids
  pass,       \* where project_once is
  batch,      \* the contents loaded by the pass, a function on some records
  target,     \* the row found for each of them, 0 = append
  wire,       \* is a request on its way to the sheet?
  sheet,      \* the rows of the sheet: Record ID, content, and who wrote it
  raced,      \* history: records marked with a content already replaced
  faults      \* crashes and failed outcome transactions so far

table == <<desired, status, mutation>>
vars  == <<desired, status, mutation, mutations, pass, batch, target,
           wire, sheet, raced, faults>>

Statuses  == {"pending", "in_flight", "completed", "uncertain", "failed"}
Verdicts  == {"completed", "uncertain", "failed"}
Passes    == {"idle", "read", "mark", "send", "wait"} \cup Verdicts
Nothing   == [r \in {} |-> 0]
Current   == Len(mutations)

\* The ways to list the elements of S, each once.
Listings(S) == {ids \in [1..Cardinality(S) -> S] :
                  \A i, j \in DOMAIN ids : ids[i] = ids[j] => i = j}

\* resolve_record_rows.
RowsOf(r) == {i \in DOMAIN sheet : sheet[i].id = r}
Ambiguous == \E r \in Record : Cardinality(RowsOf(r)) > 1
RowOf(r)  == IF RowsOf(r) = {} THEN 0 ELSE CHOOSE i \in RowsOf(r) : TRUE

Init ==
  /\ desired = [r \in Record |-> Blank]
  /\ status = [r \in Record |-> "absent"]
  /\ mutation = [r \in Record |-> 0]
  /\ mutations = <<>>
  /\ pass = "idle"
  /\ batch = Nothing
  /\ target = Nothing
  /\ wire = FALSE
  /\ \E S \in SUBSET Board : \E ids \in Listings(S) :
       sheet = [i \in DOMAIN ids |-> [id |-> ids[i], val |-> Blank, by |-> 0]]
  /\ raced = {}
  /\ faults = 0

-----------------------------------------------------------------------------
(* reconcile::run, in one transaction.                                     *)

\* A Blank in new leaves the record alone, and so does the content it has.
Reconcile ==
  \E new \in [Record -> Content \cup {Blank}] :
    LET changed == {r \in Record : new[r] \notin {Blank, desired[r]}} IN
    /\ changed # {}
    /\ desired' = [r \in Record |-> IF r \in changed THEN new[r] ELSE desired[r]]
    /\ status' = [r \in Record |-> IF r \in changed THEN "pending" ELSE status[r]]
    /\ mutation' = [r \in Record |-> IF r \in changed THEN 0 ELSE mutation[r]]
    /\ raced' = raced \ changed
    /\ UNCHANGED <<mutations, pass, batch, target, wire, sheet, faults>>

-----------------------------------------------------------------------------
(* project_once.                                                           *)

Pending == {r \in Record : status[r] \in {"pending", "failed"}}

Load ==
  /\ pass = "idle"
  /\ Pending # {}
  /\ pass' = "read"
  /\ batch' = [r \in Pending |-> desired[r]]
  /\ UNCHANGED <<table, mutations, target, wire, sheet, raced, faults>>

\* Mutant: rows are remembered from a pass to the next, and only a record
\* never written before is looked up.
ReadOnce ==
  LET known == {r \in DOMAIN batch : RowOf(r) # 0 \/ r \in Repo}
      first(r) == \A m \in DOMAIN mutations : r \notin DOMAIN mutations[m].wrote
  IN
  /\ pass = "read"
  /\ ~Ambiguous
  /\ known # {}
  /\ pass' = "mark"
  /\ batch' = [r \in known |-> batch[r]]
  /\ target' = [r \in known |-> IF r \in Board \/ first(r) THEN RowOf(r) ELSE 0]
  /\ UNCHANGED <<table, mutations, wire, sheet, raced, faults>>

\* The Record ID column is read, and the requests are built.
Read ==
  LET known == {r \in DOMAIN batch : RowOf(r) # 0 \/ r \in Repo} IN
  /\ pass = "read"
  /\ ~Ambiguous
  /\ known # {}
  /\ pass' = "mark"
  /\ batch' = [r \in known |-> batch[r]]
  /\ target' = [r \in known |-> RowOf(r)]
  /\ UNCHANGED <<table, mutations, wire, sheet, raced, faults>>

\* Every error before the POST leaves the records as they are: a failed call
\* to Google or SQLite, a duplicate Record ID, nothing to write.
GiveUp ==
  /\ pass \in {"read", "mark"}
  /\ pass' = "idle"
  /\ batch' = Nothing
  /\ target' = Nothing
  /\ UNCHANGED <<table, mutations, wire, sheet, raced, faults>>

\* Mutants: the mutation's row is inserted empty, or as pending.
MarkEmpty ==
  /\ pass = "mark"
  /\ Current < MaxMutations
  /\ pass' = "send"
  /\ mutations' = Append(mutations, [status |-> "in_flight", wrote |-> Nothing])
  /\ UNCHANGED <<table, batch, target, wire, sheet, raced, faults>>

MarkPending ==
  /\ pass = "mark"
  /\ Current < MaxMutations
  /\ pass' = "send"
  /\ mutations' = Append(mutations, [status |-> "pending", wrote |-> batch])
  /\ UNCHANGED <<table, batch, target, wire, sheet, raced, faults>>

\* One transaction inserts the mutation, and sets the status of its records by
\* record id, whatever a reconciliation did to them since Load.
Mark ==
  /\ pass = "mark"
  /\ Current < MaxMutations
  /\ pass' = "send"
  /\ mutations' = Append(mutations, [status |-> "in_flight", wrote |-> batch])
  /\ status' = [r \in Record |-> IF r \in DOMAIN batch THEN "in_flight" ELSE status[r]]
  /\ mutation' = [r \in Record |->
                    IF r \in DOMAIN batch THEN Current + 1 ELSE mutation[r]]
  /\ raced' = {r \in Record : IF r \in DOMAIN batch THEN batch[r] # desired[r]
                                                    ELSE r \in raced}
  /\ UNCHANGED <<desired, batch, target, wire, sheet, faults>>

Send ==
  /\ pass = "send"
  /\ pass' = "wait"
  /\ wire' = TRUE
  /\ UNCHANGED <<table, mutations, batch, target, sheet, raced, faults>>

\* The sheet applies the request, all of it: updateCells to the rows found,
\* appendCells for the others.
Apply ==
  LET old == {r \in DOMAIN batch : target[r] # 0}
      new == DOMAIN batch \ old
      hits(i) == {r \in old : target[r] = i}
  IN
  /\ wire
  /\ wire' = FALSE
  /\ \E ids \in Listings(new) :
       sheet' = [i \in DOMAIN sheet |->
                   IF hits(i) = {} THEN sheet[i]
                   ELSE [sheet[i] EXCEPT !.val = batch[CHOOSE r \in hits(i) : TRUE],
                                         !.by = Current]]
                \o [i \in DOMAIN ids |->
                     [id |-> ids[i], val |-> batch[ids[i]], by |-> Current]]
  /\ UNCHANGED <<table, mutations, pass, batch, target, raced, faults>>

\* Mutant: no answer counts as success.
AnswerOptimistically ==
  /\ pass = "wait"
  /\ pass' = "completed"
  /\ wire' = FALSE
  /\ UNCHANGED <<table, mutations, batch, target, sheet, raced, faults>>

\* A 2xx, a 4xx, or anything else, a timeout included.  What was not applied
\* by then is lost.
Answer ==
  /\ pass = "wait"
  /\ pass' \in {"uncertain", IF wire THEN "failed" ELSE "completed"}
  /\ wire' = FALSE
  /\ UNCHANGED <<table, mutations, batch, target, sheet, raced, faults>>

\* Mutant: the outcome is written by record id alone.
RecordByIdAlone ==
  /\ pass \in Verdicts
  /\ mutations' = [mutations EXCEPT ![Current].status = pass]
  /\ status' = [r \in Record |-> IF r \in DOMAIN batch THEN pass ELSE status[r]]
  /\ pass' = "idle"
  /\ batch' = Nothing
  /\ target' = Nothing
  /\ UNCHANGED <<desired, mutation, wire, sheet, raced, faults>>

\* Mutant: the outcome is not written at all.
RecordNothing ==
  /\ pass \in Verdicts
  /\ pass' = "idle"
  /\ batch' = Nothing
  /\ target' = Nothing
  /\ UNCHANGED <<table, mutations, wire, sheet, raced, faults>>

\* One transaction writes the outcome where the record still carries the
\* mutation's id.
RecordOutcome ==
  /\ pass \in Verdicts
  /\ mutations' = [mutations EXCEPT ![Current].status = pass]
  /\ status' = [r \in Record |->
                  IF r \in DOMAIN batch /\ mutation[r] = Current THEN pass ELSE status[r]]
  /\ pass' = "idle"
  /\ batch' = Nothing
  /\ target' = Nothing
  /\ UNCHANGED <<desired, mutation, wire, sheet, raced, faults>>

\* The outcome transaction fails, or the process dies anywhere.  Nothing at
\* boot looks at what was in flight.
Fault ==
  /\ faults < MaxFaults
  /\ faults' = faults + 1
  /\ pass' = "idle"
  /\ batch' = Nothing
  /\ target' = Nothing
  /\ wire' = FALSE
  /\ UNCHANGED <<table, mutations, sheet, raced>>

Next ==
  \/ Reconcile
  \/ Load \/ Read \/ GiveUp \/ Mark \/ Send \/ Answer \/ RecordOutcome
  \/ Apply
  \/ Fault

Spec == Init /\ [][Next]_vars

-----------------------------------------------------------------------------
(* Properties.                                                             *)

Partial(S) == UNION {[D -> S] : D \in SUBSET Record}

\* Every variable has its type.
TypeOK ==
  /\ desired \in [Record -> Content \cup {Blank}]
  /\ status \in [Record -> Statuses \cup {"absent"}]
  /\ mutation \in [Record -> 0..Current]
  /\ mutations \in Seq([status : Statuses \ {"pending"}, wrote : Partial(Content)])
  /\ pass \in Passes
  /\ batch \in Partial(Content)
  /\ target \in Partial(0..Len(sheet))
  /\ wire \in BOOLEAN
  /\ sheet \in Seq([id : Record, val : Content \cup {Blank}, by : 0..Current])
  /\ raced \subseteq Record
  /\ faults \in 0..MaxFaults

\* The projection is idempotent: however often a record is sent, after
\* failures, lost answers and crashes, the sheet has one row for it.
OneRowPerRecord ==
  \A r \in Record : Cardinality(RowsOf(r)) <= 1

\* Whatever the sheet shows was put on record before it was sent: the mutation
\* that wrote a row lists the row's record and content, and is known.
EveryWriteIsOnRecord ==
  \A i \in DOMAIN sheet :
    LET row == sheet[i] IN
    row.by # 0 => /\ row.id \in DOMAIN mutations[row.by].wrote
                  /\ row.val = mutations[row.by].wrote[row.id]

\* A completed record is on the sheet as its last mutation wrote it.
CompletedIsShown ==
  \A r \in Record : status[r] = "completed" =>
    \E i \in RowsOf(r) : sheet[i].by = mutation[r]

\* A content that replaces one in flight is not taken for delivered when that
\* one is: the only stale contents marked as sent are those replaced between
\* the load of a pass and its mark.
StaleOnlyIfRaced ==
  \A r \in Record :
    status[r] \notin {"absent", "pending"} /\ r \notin raced =>
      mutation[r] # 0 /\ mutations[mutation[r]].wrote[r] = desired[r]

\* A mutation is left in flight, with its records, only by a crash or by a
\* failed outcome transaction, one mutation by each.
StrandedByFaults ==
  LET stranded == {m \in DOMAIN mutations :
                     /\ mutations[m].status = "in_flight"
                     /\ ~ (m = Current /\ pass \in {"send", "wait"} \cup Verdicts)}
  IN /\ Cardinality(stranded) <= faults
     /\ \A r \in Record :
          status[r] = "in_flight" => mutations[mutation[r]].status = "in_flight"

\* reconcile.rs: evidence is reconciled into current projections; a completed
\* record is one whose current content is on the sheet.
CompletedIsCurrent ==
  \A r \in Record : status[r] = "completed" =>
    \E i \in RowsOf(r) : sheet[i].val = desired[r]
=============================================================================
