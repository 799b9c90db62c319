--------------------------- MODULE ProjectionProofs ---------------------------
(***************************************************************************)
(* Proofs about Projection, for any records, contents and bounds: what the *)
(* tables say of the sheet, through every interleaving of a pass with      *)
(* reconciliations and through every crash.                                *)
(***************************************************************************)
EXTENDS Projection, FiniteSetTheorems, SequenceTheorems, TLAPS

-----------------------------------------------------------------------------
(* The inductive invariant.                                                *)

\* From the mark to the outcome, the newest mutation is the pass's own.
Sent == pass \in {"send", "wait"} \cup Verdicts

\* No record has two rows.
RowsApart ==
  \A i, j \in DOMAIN sheet : sheet[i].id = sheet[j].id => i = j

\* Mutation m, or 0 for what the rows said at first, has left a row of r.
Shows(r, m) == \E i \in DOMAIN sheet : sheet[i].id = r /\ sheet[i].by = m

\* What the row of a record says, and which mutation it refers to.
RecordOK(r) ==
  /\ desired[r] = Blank <=> status[r] = "absent"
  /\ mutation[r] = 0 <=> status[r] \in {"absent", "pending"}
  /\ mutation[r] # 0 =>
       /\ r \in DOMAIN mutations[mutation[r]].wrote
       /\ r \notin raced => mutations[mutation[r]].wrote[r] = desired[r]
  /\ status[r] = "in_flight" => mutations[mutation[r]].status = "in_flight"
  /\ status[r] = "completed" => Shows(r, mutation[r])

RecordsOK == \A r \in Record : RecordOK(r)

\* The targets of a pass are the rows that its records have, or 0 of those
\* that have none.
TargetsFit ==
  \A r \in DOMAIN batch :
    IF target[r] = 0 THEN \A i \in DOMAIN sheet : sheet[i].id # r
                     ELSE target[r] \in DOMAIN sheet /\ sheet[target[r]].id = r

\* The pass's own mutation is on record, and the records it marked carry its id
\* unless a reconciliation took them back.
OnRecord ==
  /\ Current # 0
  /\ mutations[Current] = [status |-> "in_flight", wrote |-> batch]
  /\ \A r \in DOMAIN batch : mutation[r] \in {0, Current}

PassOK ==
  /\ \A r \in DOMAIN batch : desired[r] # Blank
  /\ pass \in {"read", "mark"} =>
       \A r \in DOMAIN batch : status[r] \in {"pending", "failed"}
  /\ pass \in {"mark", "send", "wait"} => DOMAIN target = DOMAIN batch
  /\ Sent => OnRecord
  /\ wire => pass = "wait"
  /\ pass \in {"mark", "send"} \/ wire => TargetsFit
  /\ pass = "completed" \/ (pass = "wait" /\ ~wire) =>
       \A r \in DOMAIN batch : Shows(r, Current)

\* The mutations in flight that no pass is about to settle.
Stranded == {m \in DOMAIN mutations :
               mutations[m].status = "in_flight" /\ ~ (m = Current /\ Sent)}

FaultsCover == Cardinality(Stranded) <= faults

IInv ==
  /\ TypeOK
  /\ RowsApart
  /\ EveryWriteIsOnRecord
  /\ RecordsOK
  /\ PassOK
  /\ FaultsCover

-----------------------------------------------------------------------------
(* Facts about the operators of the model.                                 *)

\* What the columns of the tables and the sheet hold.
MutationRow == [status : Statuses \ {"pending"}, wrote : Partial(Content)]
SheetRow(n) == [id : Record, val : Content \cup {Blank}, by : 0..n]

\* A partial function is a function on some of the records.
LEMMA PartialIsFunction ==
  ASSUME NEW S, NEW f
  PROVE  f \in Partial(S) <=> DOMAIN f \subseteq Record /\ f \in [DOMAIN f -> S]
  BY DEF Partial

LEMMA NothingIsPartial ==
  ASSUME NEW S
  PROVE  Nothing \in Partial(S)
<1>1. DOMAIN Nothing = {} /\ Nothing \in [DOMAIN Nothing -> S]
  BY DEF Nothing
<1>2. QED
  BY <1>1, PartialIsFunction

LEMMA PartialGrows ==
  ASSUME NEW S, NEW T, S \subseteq T, NEW f \in Partial(S)
  PROVE  f \in Partial(T)
<1>1. f \in [DOMAIN f -> S] /\ DOMAIN f \subseteq Record
  BY PartialIsFunction
<1>2. f \in [DOMAIN f -> T]
  BY <1>1
<1>3. QED
  BY <1>1, <1>2, PartialIsFunction

\* A listing of a finite set is a sequence in which every element has a place
\* of its own.
LEMMA ListingCovers ==
  ASSUME NEW S, IsFiniteSet(S), NEW ids \in Listings(S)
  PROVE  /\ Cardinality(S) \in Nat
         /\ ids \in Seq(S)
         /\ DOMAIN ids = 1..Cardinality(S)
         /\ \A i, j \in DOMAIN ids : ids[i] = ids[j] => i = j
         /\ \A x \in S : \E i \in DOMAIN ids : ids[i] = x
<1> DEFINE n == Cardinality(S)
<1>1. n \in Nat
  BY FS_CardinalityType
<1>2. /\ ids \in [1..n -> S]
      /\ \A i, j \in DOMAIN ids : ids[i] = ids[j] => i = j
  BY DEF Listings
<1>3. ids \in Seq(S) /\ DOMAIN ids = 1..n
  BY <1>1, <1>2, SeqDef
<1>4. ids \in Injection(1..n, S)
  BY <1>2 DEF Injection, IsInjective
<1>5. Cardinality(1..n) = n
  BY <1>1, FS_Interval
<1>6. ids \in Surjection(1..n, S)
  BY <1>4, <1>5, FS_Injection
<1>7. \A x \in S : \E i \in DOMAIN ids : ids[i] = x
  BY <1>3, <1>6 DEF Surjection
<1>8. QED
  BY <1>1, <1>2, <1>3, <1>7

\* resolve_record_rows finds a row of the record, if it has one.
LEMMA RowOfFits ==
  ASSUME NEW r, Len(sheet) \in Nat, DOMAIN sheet = 1..Len(sheet)
  PROVE  /\ RowOf(r) \in 0..Len(sheet)
         /\ IF RowOf(r) = 0 THEN \A i \in DOMAIN sheet : sheet[i].id # r
            ELSE RowOf(r) \in DOMAIN sheet /\ sheet[RowOf(r)].id = r
<1>1. CASE RowsOf(r) = {}
  <2>1. RowOf(r) = 0
    BY <1>1 DEF RowOf
  <2>2. \A i \in DOMAIN sheet : sheet[i].id # r
    BY <1>1 DEF RowsOf
  <2>3. QED
    BY <2>1, <2>2
<1>2. CASE RowsOf(r) # {}
  <2>1. RowOf(r) \in RowsOf(r)
    BY <1>2 DEF RowOf
  <2>2. RowOf(r) \in DOMAIN sheet /\ sheet[RowOf(r)].id = r
    BY <2>1 DEF RowsOf
  <2>3. QED
    BY <2>2
<1>3. QED
  BY <1>1, <1>2

\* What the typing of the sequences says of their elements.
LEMMA Elements ==
  ASSUME TypeOK
  PROVE  /\ Current \in Nat /\ DOMAIN mutations = 1..Current
         /\ \A m \in DOMAIN mutations : mutations[m] \in MutationRow
         /\ Len(sheet) \in Nat /\ DOMAIN sheet = 1..Len(sheet)
         /\ sheet \in Seq(SheetRow(Current))
         /\ \A i \in DOMAIN sheet : sheet[i] \in SheetRow(Current)
         /\ DOMAIN batch \subseteq Record
         /\ \A r \in DOMAIN batch : batch[r] \in Content
<1>1. mutations \in Seq(MutationRow) /\ sheet \in Seq(SheetRow(Current))
  BY DEF TypeOK, MutationRow, SheetRow
<1>2. /\ Current \in Nat /\ DOMAIN mutations = 1..Current
      /\ \A m \in DOMAIN mutations : mutations[m] \in MutationRow
  BY <1>1, LenProperties, ElementOfSeq DEF Current
<1>3. /\ Len(sheet) \in Nat /\ DOMAIN sheet = 1..Len(sheet)
      /\ \A i \in DOMAIN sheet : sheet[i] \in SheetRow(Current)
  BY <1>1, LenProperties, ElementOfSeq
<1>4. DOMAIN batch \subseteq Record /\ batch \in [DOMAIN batch -> Content]
  BY PartialIsFunction DEF TypeOK
<1>5. QED
  BY <1>1, <1>2, <1>3, <1>4

\* The request, applied, writes the rows of the batch's records, appends one for
\* each record that had none, and touches no other.
LEMMA WhatApplyWrites ==
  ASSUME TypeOK, RowsApart, TargetsFit, DOMAIN target = DOMAIN batch, Current # 0,
         Apply
  PROVE  /\ sheet' \in Seq(SheetRow(Current))
         /\ Len(sheet) \in Nat /\ DOMAIN sheet = 1..Len(sheet)
         /\ Len(sheet') \in Nat /\ DOMAIN sheet' = 1..Len(sheet') /\ Len(sheet') >= Len(sheet)
         /\ \A i \in DOMAIN sheet :
              /\ sheet'[i].id = sheet[i].id
              /\ IF sheet[i].id \in DOMAIN batch
                 THEN sheet'[i].val = batch[sheet[i].id] /\ sheet'[i].by = Current
                 ELSE sheet'[i] = sheet[i]
         /\ \A i \in DOMAIN sheet' \ DOMAIN sheet :
              /\ sheet'[i].id \in DOMAIN batch /\ target[sheet'[i].id] = 0
              /\ sheet'[i].val = batch[sheet'[i].id] /\ sheet'[i].by = Current
         /\ \A i, j \in DOMAIN sheet' \ DOMAIN sheet :
              sheet'[i].id = sheet'[j].id => i = j
         /\ \A r \in DOMAIN batch : target[r] = 0 =>
              \E i \in DOMAIN sheet' \ DOMAIN sheet : sheet'[i].id = r
<1> DEFINE old == {r \in DOMAIN batch : target[r] # 0}
           new == DOMAIN batch \ old
           hits(i) == {r \in old : target[r] = i}
           kept == [i \in DOMAIN sheet |->
                      IF hits(i) = {} THEN sheet[i]
                      ELSE [sheet[i] EXCEPT !.val = batch[CHOOSE r \in hits(i) : TRUE],
                                            !.by = Current]]
           added(ids) == [i \in DOMAIN ids |->
                            [id |-> ids[i], val |-> batch[ids[i]], by |-> Current]]
<1>1. PICK ids \in Listings(new) : sheet' = kept \o added(ids)
  BY DEF Apply
<1>2. /\ Current \in Nat /\ Len(sheet) \in Nat /\ DOMAIN sheet = 1..Len(sheet)
      /\ \A i \in DOMAIN sheet : sheet[i] \in SheetRow(Current)
      /\ DOMAIN batch \subseteq Record /\ \A r \in DOMAIN batch : batch[r] \in Content
  BY Elements
<1>3. IsFiniteSet(new)
  BY <1>2, RecordAssumption, FS_Subset
<1>4. /\ Cardinality(new) \in Nat
      /\ ids \in Seq(new)
      /\ DOMAIN ids = 1..Cardinality(new)
      /\ \A i, j \in DOMAIN ids : ids[i] = ids[j] => i = j
      /\ \A x \in new : \E i \in DOMAIN ids : ids[i] = x
  <2> HIDE DEF new
  <2>1. QED
    BY <1>1, <1>3, ListingCovers
<1>5. \A i \in DOMAIN sheet : \A r \in hits(i) : r = sheet[i].id
  BY DEF TargetsFit
<1>6. \A i \in DOMAIN sheet : sheet[i].id \in DOMAIN batch => sheet[i].id \in hits(i)
  BY DEF TargetsFit, RowsApart
<1>7. \A i \in DOMAIN kept :
        /\ kept[i] \in SheetRow(Current)
        /\ kept[i].id = sheet[i].id
        /\ IF sheet[i].id \in DOMAIN batch
           THEN kept[i].val = batch[sheet[i].id] /\ kept[i].by = Current
           ELSE kept[i] = sheet[i]
  <2> SUFFICES ASSUME NEW i \in DOMAIN sheet
               PROVE  /\ kept[i] \in SheetRow(Current)
                      /\ kept[i].id = sheet[i].id
                      /\ IF sheet[i].id \in DOMAIN batch
                         THEN kept[i].val = batch[sheet[i].id] /\ kept[i].by = Current
                         ELSE kept[i] = sheet[i]
    OBVIOUS
  <2>1. CASE sheet[i].id \in DOMAIN batch
    <3>1. hits(i) # {} /\ (CHOOSE r \in hits(i) : TRUE) \in hits(i)
      BY <1>6, <2>1
    <3>2. (CHOOSE r \in hits(i) : TRUE) = sheet[i].id
      BY <1>5, <3>1
    <3>3. kept[i] = [sheet[i] EXCEPT !.val = batch[sheet[i].id], !.by = Current]
      BY <3>1, <3>2
    <3>4. sheet[i] \in SheetRow(Current) /\ batch[sheet[i].id] \in Content
      BY <1>2, <2>1
    <3> HIDE DEF kept, hits
    <3>5. /\ kept[i] \in SheetRow(Current)
          /\ kept[i].id = sheet[i].id
          /\ kept[i].val = batch[sheet[i].id] /\ kept[i].by = Current
      <4> DEFINE old_row == sheet[i]
                 text == batch[sheet[i].id]
                 n == Current
      <4>1. old_row \in SheetRow(n) /\ text \in Content /\ n \in 0..n
        BY <1>2, <3>4
      <4>2. kept[i] = [old_row EXCEPT !.val = text, !.by = n]
        BY <3>3
      <4>3. kept[i].id = old_row.id /\ kept[i].val = text /\ kept[i].by = n
            /\ kept[i] \in SheetRow(n)
        <5> HIDE DEF old_row, text, n
        <5>1. QED
          BY <4>1, <4>2 DEF SheetRow
      <4>4. QED
        BY <4>3
    <3>6. QED
      BY <2>1, <3>5
  <2>2. CASE sheet[i].id \notin DOMAIN batch
    <3>1. hits(i) = {}
      BY <1>5, <2>2
    <3>2. QED
      BY <1>2, <2>2, <3>1
  <2>3. QED
    BY <2>1, <2>2
<1>8. kept \in Seq(SheetRow(Current)) /\ Len(kept) = Len(sheet) /\ DOMAIN kept = DOMAIN sheet
  <2>1. DOMAIN kept = 1..Len(sheet) /\ \A i \in 1..Len(sheet) : kept[i] \in SheetRow(Current)
    BY <1>2, <1>7
  <2>2. kept = [i \in 1..Len(sheet) |-> kept[i]]
    BY <1>2
  <2> HIDE DEF kept
  <2>3. kept \in [1..Len(sheet) -> SheetRow(Current)]
    BY <2>1, <2>2
  <2>4. kept \in Seq(SheetRow(Current))
    BY <1>2, <2>3, SeqDef
  <2>5. QED
    BY <1>2, <2>1, <2>4, LenProperties
<1>9. added(ids) \in Seq(SheetRow(Current)) /\ Len(added(ids)) = Cardinality(new)
      /\ \A i \in DOMAIN ids : added(ids)[i] = [id |-> ids[i], val |-> batch[ids[i]], by |-> Current]
  <2>1. \A i \in DOMAIN ids : ids[i] \in new
    BY <1>4, ElementOfSeq
  <2>2. \A i \in DOMAIN ids :
          [id |-> ids[i], val |-> batch[ids[i]], by |-> Current] \in SheetRow(Current)
    BY <1>2, <2>1 DEF SheetRow
  <2>3. added(ids) \in [1..Cardinality(new) -> SheetRow(Current)]
    BY <1>4, <2>2
  <2>4. added(ids) \in Seq(SheetRow(Current))
    <3> HIDE DEF added, new
    <3>1. QED
      BY <1>4, <2>3, SeqDef
  <2>5. Len(added(ids)) = Cardinality(new)
    <3> HIDE DEF added, new
    <3>1. QED
      BY <1>4, <2>3, <2>4, LenProperties
  <2>6. QED
    BY <2>4, <2>5
<1>10. /\ sheet' \in Seq(SheetRow(Current))
       /\ Len(sheet') = Len(sheet) + Cardinality(new)
       /\ \A i \in 1..Len(sheet') :
            sheet'[i] = IF i <= Len(sheet) THEN kept[i] ELSE added(ids)[i - Len(sheet)]
  <2> DEFINE tail == added(ids)
  <2> HIDE DEF kept, added, new
  <2>1. kept \in Seq(SheetRow(Current)) /\ tail \in Seq(SheetRow(Current))
    BY <1>8, <1>9
  <2>2. sheet' = kept \o tail
    BY <1>1
  <2> HIDE DEF tail
  <2>3. QED
    BY <1>8, <1>9, <2>1, <2>2, ConcatProperties DEF tail
<1>11. DOMAIN sheet' = 1..Len(sheet')
  BY <1>10, LenProperties
<1> HIDE DEF kept, added, new
<1>12. \A i \in DOMAIN sheet' \ DOMAIN sheet :
         /\ i - Len(sheet) \in DOMAIN ids
         /\ sheet'[i] = [id |-> ids[i - Len(sheet)], val |-> batch[ids[i - Len(sheet)]],
                         by |-> Current]
  <2> SUFFICES ASSUME NEW i \in DOMAIN sheet' \ DOMAIN sheet
               PROVE  /\ i - Len(sheet) \in DOMAIN ids
                      /\ sheet'[i] = [id |-> ids[i - Len(sheet)],
                                      val |-> batch[ids[i - Len(sheet)]], by |-> Current]
    OBVIOUS
  <2>1. i \in 1..Len(sheet') /\ i \notin 1..Len(sheet)
    BY <1>2, <1>11
  <2>2. /\ Len(sheet) \in Nat /\ Cardinality(new) \in Nat
        /\ Len(sheet') = Len(sheet) + Cardinality(new)
    BY <1>2, <1>4, <1>10
  <2>3. ~ (i <= Len(sheet)) /\ i - Len(sheet) \in 1..Cardinality(new)
    BY <2>1, <2>2
  <2>4. i - Len(sheet) \in DOMAIN ids
    BY <1>4, <2>3
  <2>5. sheet'[i] = added(ids)[i - Len(sheet)]
    BY <1>10, <2>1, <2>3
  <2>6. QED
    BY <1>9, <2>4, <2>5
<1>13. \A i \in DOMAIN sheet' \ DOMAIN sheet :
         /\ sheet'[i].id \in DOMAIN batch /\ target[sheet'[i].id] = 0
         /\ sheet'[i].val = batch[sheet'[i].id] /\ sheet'[i].by = Current
  <2>1. \A k \in DOMAIN ids : ids[k] \in DOMAIN batch /\ target[ids[k]] = 0
    BY <1>4, ElementOfSeq DEF new
  <2>2. QED
    BY <1>12, <2>1
<1>14. \A i, j \in DOMAIN sheet' \ DOMAIN sheet : sheet'[i].id = sheet'[j].id => i = j
  <2> SUFFICES ASSUME NEW i \in DOMAIN sheet' \ DOMAIN sheet,
                      NEW j \in DOMAIN sheet' \ DOMAIN sheet,
                      sheet'[i].id = sheet'[j].id
               PROVE  i = j
    OBVIOUS
  <2>1. i - Len(sheet) = j - Len(sheet)
    BY <1>4, <1>12
  <2>2. i \in Int /\ j \in Int /\ Len(sheet) \in Nat
    BY <1>2, <1>11
  <2>3. QED
    BY <2>1, <2>2
<1>15. \A r \in DOMAIN batch : target[r] = 0 =>
         \E i \in DOMAIN sheet' \ DOMAIN sheet : sheet'[i].id = r
  <2> SUFFICES ASSUME NEW r \in DOMAIN batch, target[r] = 0
               PROVE  \E i \in DOMAIN sheet' \ DOMAIN sheet : sheet'[i].id = r
    OBVIOUS
  <2>1. PICK k \in DOMAIN ids : ids[k] = r
    BY <1>4 DEF new
  <2>2. k + Len(sheet) \in DOMAIN sheet' \ DOMAIN sheet
    <3>1. /\ Len(sheet) \in Nat /\ Cardinality(new) \in Nat /\ k \in 1..Cardinality(new)
          /\ Len(sheet') = Len(sheet) + Cardinality(new)
      BY <1>2, <1>4, <1>10
    <3>2. k + Len(sheet) \in 1..Len(sheet') /\ k + Len(sheet) \notin 1..Len(sheet)
      BY <3>1
    <3>3. QED
      BY <1>2, <1>11, <3>2
  <2>3. (k + Len(sheet)) - Len(sheet) = k
    BY <1>2, <1>4
  <2>4. QED
    BY <1>12, <2>1, <2>2, <2>3
<1>16. \A i \in DOMAIN sheet : i \in 1..Len(sheet') /\ sheet'[i] = kept[i]
  <2>1. /\ Len(sheet) \in Nat /\ Cardinality(new) \in Nat
        /\ Len(sheet') = Len(sheet) + Cardinality(new) /\ DOMAIN sheet = 1..Len(sheet)
    BY <1>2, <1>4, <1>10
  <2>2. \A i \in DOMAIN sheet : i \in 1..Len(sheet') /\ i <= Len(sheet)
    BY <2>1
  <2>3. QED
    BY <1>10, <2>2
<1>17. \A i \in DOMAIN sheet :
         /\ sheet'[i].id = sheet[i].id
         /\ IF sheet[i].id \in DOMAIN batch
            THEN sheet'[i].val = batch[sheet[i].id] /\ sheet'[i].by = Current
            ELSE sheet'[i] = sheet[i]
  BY <1>7, <1>8, <1>16
<1>18. Len(sheet') \in Nat /\ Len(sheet') >= Len(sheet)
  <2>1. /\ Len(sheet) \in Nat /\ Cardinality(new) \in Nat
        /\ Len(sheet') = Len(sheet) + Cardinality(new)
    BY <1>2, <1>4, <1>10
  <2>2. QED
    BY <2>1
<1>19. QED
  BY <1>2, <1>10, <1>11, <1>13, <1>14, <1>15, <1>17, <1>18

-----------------------------------------------------------------------------
(* The invariant holds at first.                                           *)

LEMMA InitKeeps == Init => IInv
<1> SUFFICES ASSUME Init
             PROVE  IInv
  OBVIOUS
<1>0. PICK S \in SUBSET Board : \E ids \in Listings(S) :
        sheet = [i \in DOMAIN ids |-> [id |-> ids[i], val |-> Blank, by |-> 0]]
  BY DEF Init
<1>1. PICK ids \in Listings(S) :
        sheet = [i \in DOMAIN ids |-> [id |-> ids[i], val |-> Blank, by |-> 0]]
  BY <1>0
<1>2. IsFiniteSet(S)
  BY RecordAssumption, FS_Subset DEF Record
<1>3. /\ Cardinality(S) \in Nat /\ ids \in Seq(S) /\ DOMAIN ids = 1..Cardinality(S)
      /\ \A i, j \in DOMAIN ids : ids[i] = ids[j] => i = j
  BY <1>2, ListingCovers
<1>4. \A i \in DOMAIN ids : ids[i] \in Record
  BY <1>3, ElementOfSeq DEF Record
<1>5. mutations = <<>> /\ Current = 0 /\ mutations \in Seq(MutationRow)
  BY EmptySeq DEF Init, Current
<1>6. DOMAIN sheet = DOMAIN ids /\ \A i \in DOMAIN sheet : sheet[i].id = ids[i] /\ sheet[i].by = 0
  BY <1>1
<1>7. sheet \in Seq(SheetRow(Current))
  <2>1. sheet \in [1..Cardinality(S) -> SheetRow(Current)]
    BY <1>1, <1>3, <1>4, <1>5 DEF SheetRow
  <2>2. QED
    BY <1>3, <2>1, SeqDef
<1>8. TypeOK
  <2>1. Nothing \in Partial(Content) /\ Nothing \in Partial(0..Len(sheet))
    BY NothingIsPartial
  <2>2. batch \in Partial(Content) /\ target \in Partial(0..Len(sheet))
    BY <2>1 DEF Init
  <2>3. mutation \in [Record -> 0..Current]
    BY <1>5 DEF Init
  <2>4. /\ desired \in [Record -> Content \cup {Blank}]
        /\ status \in [Record -> Statuses \cup {"absent"}]
        /\ pass \in Passes /\ wire \in BOOLEAN /\ raced \subseteq Record
    BY DEF Init, Passes
  <2>5. faults \in 0..MaxFaults
    BY BoundsAssumption DEF Init
  <2>6. QED
    BY <1>5, <1>7, <2>2, <2>3, <2>4, <2>5 DEF TypeOK, MutationRow, SheetRow
<1>9. RowsApart /\ EveryWriteIsOnRecord
  BY <1>3, <1>6 DEF RowsApart, EveryWriteIsOnRecord
<1>10. RecordsOK
  BY DEF Init, RecordsOK, RecordOK
<1>11. PassOK
  BY DEF Init, PassOK, Sent, Verdicts, Nothing
<1>12. FaultsCover
  <2>1. Stranded = {}
    BY <1>5 DEF Stranded
  <2>2. QED
    BY <2>1, FS_EmptySet DEF FaultsCover, Init
<1>13. QED
  BY <1>8, <1>9, <1>10, <1>11, <1>12 DEF IInv

-----------------------------------------------------------------------------
(* Every step keeps it.                                                    *)

\* A step that leaves the tables and the sheet alone keeps what relates them.
LEMMA SameTables ==
  ASSUME UNCHANGED <<table, mutations, sheet, raced>>, IInv
  PROVE  RowsApart' /\ EveryWriteIsOnRecord' /\ RecordsOK'
<1>1. RowsApart'
  BY DEF IInv, RowsApart
<1>2. EveryWriteIsOnRecord'
  BY DEF IInv, EveryWriteIsOnRecord
<1>3. RecordsOK'
  BY DEF IInv, RecordsOK, RecordOK, Shows, table
<1>4. QED
  BY <1>1, <1>2, <1>3

\* So does one that neither adds nor settles a mutation for the faults.
LEMMA SameMutations ==
  ASSUME UNCHANGED <<mutations, faults>>, Sent' <=> Sent, FaultsCover
  PROVE  FaultsCover'
<1>1. Stranded' = Stranded
  BY DEF Stranded, Current
<1>2. QED
  BY <1>1 DEF FaultsCover

LEMMA ReconcileKeeps == IInv /\ Reconcile => IInv'
<1> SUFFICES ASSUME IInv, Reconcile
             PROVE  IInv'
  OBVIOUS
<1> USE DEF IInv
<1>1. PICK new \in [Record -> Content \cup {Blank}] :
        LET changed == {r \in Record : new[r] \notin {Blank, desired[r]}} IN
        /\ desired' = [r \in Record |-> IF r \in changed THEN new[r] ELSE desired[r]]
        /\ status' = [r \in Record |-> IF r \in changed THEN "pending" ELSE status[r]]
        /\ mutation' = [r \in Record |-> IF r \in changed THEN 0 ELSE mutation[r]]
        /\ raced' = raced \ changed
        /\ UNCHANGED <<mutations, pass, batch, target, wire, sheet, faults>>
  BY DEF Reconcile
<1>2. Current' = Current /\ Current \in Nat
  BY <1>1, Elements DEF Current
<1>3. \A r \in Record :
        \/ /\ desired'[r] \in Content
           /\ status'[r] = "pending"
           /\ mutation'[r] = 0
        \/ /\ desired'[r] = desired[r] /\ status'[r] = status[r]
           /\ mutation'[r] = mutation[r] /\ (r \in raced' <=> r \in raced)
  BY <1>1
<1>4. TypeOK'
  <2>1. /\ desired' \in [Record -> Content \cup {Blank}]
        /\ status' \in [Record -> Statuses \cup {"absent"}]
        /\ mutation' \in [Record -> 0..Current']
        /\ raced' \subseteq Record
    BY <1>1, <1>2 DEF TypeOK, Statuses
  <2>2. QED
    BY <1>1, <1>2, <2>1 DEF TypeOK
<1>5. RowsApart' /\ EveryWriteIsOnRecord'
  BY <1>1 DEF RowsApart, EveryWriteIsOnRecord
<1>6. RecordsOK'
  <2> SUFFICES ASSUME NEW r \in Record
               PROVE  RecordOK(r)'
    BY DEF RecordsOK
  <2>1. RecordOK(r)
    BY DEF RecordsOK
  <2>2. CASE desired'[r] \in Content /\ status'[r] = "pending" /\ mutation'[r] = 0
    BY <2>2, BlankAssumption DEF RecordOK
  <2>3. CASE /\ desired'[r] = desired[r] /\ status'[r] = status[r]
             /\ mutation'[r] = mutation[r] /\ (r \in raced' <=> r \in raced)
    BY <1>1, <2>1, <2>3 DEF RecordOK, Shows
  <2>4. QED
    BY <1>3, <2>2, <2>3
<1>7. PassOK'
  <2>1. DOMAIN batch \subseteq Record
    BY Elements
  <2>2. \A r \in DOMAIN batch :
          /\ desired[r] # Blank => desired'[r] # Blank
          /\ status'[r] \in {"pending", status[r]}
    BY <1>3, <2>1, BlankAssumption
  <2>3. OnRecord => OnRecord'
    BY <1>1, <1>2, <1>3, <2>1 DEF OnRecord
  <2>4. /\ TargetsFit => TargetsFit'
        /\ \A r \in DOMAIN batch : Shows(r, Current) => Shows(r, Current)'
        /\ Sent' <=> Sent
    BY <1>1, <1>2 DEF TargetsFit, Shows, Sent
  <2>5. QED
    BY <1>1, <2>2, <2>3, <2>4 DEF PassOK
<1>8. FaultsCover'
  BY <1>1, SameMutations DEF Sent
<1>9. QED
  BY <1>4, <1>5, <1>6, <1>7, <1>8

LEMMA LoadKeeps == IInv /\ Load => IInv'
<1> SUFFICES ASSUME IInv, Load
             PROVE  IInv'
  OBVIOUS
<1> USE DEF IInv
<1>1. \A r \in Pending : /\ desired[r] \in Content /\ r \in Record /\ desired[r] # Blank
                         /\ status[r] \in {"pending", "failed"}
  BY DEF TypeOK, Pending, RecordsOK, RecordOK
<1>2. batch' \in Partial(Content)
  <2>1. batch' \in [Pending -> Content] /\ DOMAIN batch' = Pending /\ Pending \subseteq Record
    BY <1>1 DEF Load
  <2>2. QED
    BY <2>1, PartialIsFunction
<1>3. TypeOK'
  BY <1>2 DEF TypeOK, Load, table, Current, Passes
<1>4. RowsApart' /\ EveryWriteIsOnRecord' /\ RecordsOK'
  BY SameTables DEF Load
<1>5. PassOK'
  BY <1>1 DEF PassOK, Load, Sent, Verdicts, table
<1>6. FaultsCover'
  BY SameMutations DEF Load, Sent, Verdicts
<1>7. QED
  BY <1>3, <1>4, <1>5, <1>6

LEMMA ReadKeeps == IInv /\ Read => IInv'
<1> SUFFICES ASSUME IInv, Read
             PROVE  IInv'
  OBVIOUS
<1> USE DEF IInv
<1> DEFINE known == {r \in DOMAIN batch : RowOf(r) # 0 \/ r \in Repo}
<1>1. /\ pass = "read" /\ pass' = "mark"
      /\ batch' = [r \in known |-> batch[r]]
      /\ target' = [r \in known |-> RowOf(r)]
      /\ UNCHANGED <<table, mutations, wire, sheet, raced, faults>>
  BY DEF Read
<1>2. /\ Len(sheet) \in Nat /\ DOMAIN sheet = 1..Len(sheet)
      /\ DOMAIN batch \subseteq Record /\ \A r \in DOMAIN batch : batch[r] \in Content
  BY Elements
<1>3. \A r \in known :
        /\ RowOf(r) \in 0..Len(sheet)
        /\ IF RowOf(r) = 0 THEN \A i \in DOMAIN sheet : sheet[i].id # r
           ELSE RowOf(r) \in DOMAIN sheet /\ sheet[RowOf(r)].id = r
  BY <1>2, RowOfFits
<1>4. batch' \in Partial(Content) /\ target' \in Partial(0..Len(sheet))
  <2>1. batch' \in [known -> Content] /\ target' \in [known -> 0..Len(sheet)]
        /\ DOMAIN batch' = known /\ DOMAIN target' = known /\ known \subseteq Record
    BY <1>1, <1>2, <1>3
  <2>2. QED
    BY <2>1, PartialIsFunction
<1>5. TypeOK'
  BY <1>1, <1>4 DEF TypeOK, table, Current, Passes
<1>6. RowsApart' /\ EveryWriteIsOnRecord' /\ RecordsOK'
  BY <1>1, SameTables
<1>7. TargetsFit' /\ DOMAIN target' = DOMAIN batch' /\ DOMAIN batch' \subseteq DOMAIN batch
  BY <1>1, <1>3 DEF TargetsFit
<1>8. PassOK'
  BY <1>1, <1>7 DEF PassOK, Sent, Verdicts, table
<1>9. FaultsCover'
  BY <1>1, SameMutations DEF Sent, Verdicts
<1>10. QED
  BY <1>5, <1>6, <1>8, <1>9

LEMMA GiveUpKeeps == IInv /\ GiveUp => IInv'
<1> SUFFICES ASSUME IInv, GiveUp
             PROVE  IInv'
  OBVIOUS
<1> USE DEF IInv
<1>1. TypeOK'
  BY NothingIsPartial DEF TypeOK, GiveUp, table, Current, Passes
<1>2. RowsApart' /\ EveryWriteIsOnRecord' /\ RecordsOK'
  BY SameTables DEF GiveUp
<1>3. PassOK'
  BY DEF PassOK, GiveUp, Sent, Verdicts, Nothing
<1>4. FaultsCover'
  BY SameMutations DEF GiveUp, Sent, Verdicts
<1>5. QED
  BY <1>1, <1>2, <1>3, <1>4

LEMMA SendKeeps == IInv /\ Send => IInv'
<1> SUFFICES ASSUME IInv, Send
             PROVE  IInv'
  OBVIOUS
<1> USE DEF IInv
<1>1. TypeOK'
  BY DEF TypeOK, Send, table, Current, Passes
<1>2. RowsApart' /\ EveryWriteIsOnRecord' /\ RecordsOK'
  BY SameTables DEF Send
<1>3. PassOK'
  BY DEF PassOK, Send, Sent, Verdicts, OnRecord, TargetsFit, Current, table
<1>4. FaultsCover'
  BY SameMutations DEF Send, Sent
<1>5. QED
  BY <1>1, <1>2, <1>3, <1>4

LEMMA AnswerKeeps == IInv /\ Answer => IInv'
<1> SUFFICES ASSUME IInv, Answer
             PROVE  IInv'
  OBVIOUS
<1> USE DEF IInv
<1>0. pass' \in Verdicts /\ (pass' = "completed" => ~wire)
  BY DEF Answer, Verdicts
<1>1. TypeOK'
  BY <1>0 DEF TypeOK, Answer, table, Current, Passes
<1>2. RowsApart' /\ EveryWriteIsOnRecord' /\ RecordsOK'
  BY SameTables DEF Answer
<1>3. PassOK'
  BY <1>0 DEF PassOK, Answer, Sent, Verdicts, OnRecord, Shows, Current, table
<1>4. FaultsCover'
  BY <1>0, SameMutations DEF Answer, Sent
<1>5. QED
  BY <1>1, <1>2, <1>3, <1>4

LEMMA MarkKeeps == IInv /\ Mark => IInv'
<1> SUFFICES ASSUME IInv, Mark
             PROVE  IInv'
  OBVIOUS
<1> USE DEF IInv
<1> DEFINE row == [status |-> "in_flight", wrote |-> batch]
<1>1. /\ Current \in Nat /\ DOMAIN mutations = 1..Current
      /\ mutations \in Seq(MutationRow) /\ mutations' = Append(mutations, row)
      /\ row \in MutationRow
      /\ sheet \in Seq(SheetRow(Current)) /\ DOMAIN batch \subseteq Record
  BY Elements DEF Mark, TypeOK, MutationRow, Statuses
<1>2. /\ Current' = Current + 1
      /\ DOMAIN mutations' = 1..Current'
      /\ mutations' \in Seq(MutationRow)
      /\ \A m \in DOMAIN mutations : mutations'[m] = mutations[m]
      /\ mutations'[Current'] = row
  <2> DEFINE n == Len(mutations)
  <2>1. /\ Append(mutations, row) \in Seq(MutationRow)
        /\ Len(Append(mutations, row)) = n + 1
        /\ \A i \in 1..n : Append(mutations, row)[i] = mutations[i]
        /\ Append(mutations, row)[n + 1] = row
    <3> HIDE DEF row
    <3>1. QED
      BY <1>1, AppendProperties
  <2>2. Len(mutations') = n + 1 /\ mutations' \in Seq(MutationRow)
    BY <1>1, <2>1
  <2>3. DOMAIN mutations' = 1..Len(mutations')
    BY <2>2, LenProperties
  <2>4. QED
    BY <1>1, <2>1, <2>2, <2>3 DEF Current
<1>3. \A r \in Record :
        IF r \in DOMAIN batch
        THEN /\ status'[r] = "in_flight" /\ mutation'[r] = Current'
             /\ (r \in raced' <=> batch[r] # desired[r])
        ELSE /\ status'[r] = status[r] /\ mutation'[r] = mutation[r]
             /\ (r \in raced' <=> r \in raced)
  BY <1>2 DEF Mark
<1>4. TypeOK'
  <2>1. mutation' \in [Record -> 0..Current']
    BY <1>1, <1>2 DEF Mark, TypeOK
  <2>2. status' \in [Record -> Statuses \cup {"absent"}]
    BY DEF Mark, TypeOK, Statuses
  <2>3. sheet' \in Seq([id : Record, val : Content \cup {Blank}, by : 0..Current'])
    <3>1. SheetRow(Current) \subseteq SheetRow(Current')
      BY <1>1, <1>2 DEF SheetRow
    <3>2. sheet' \in Seq(SheetRow(Current'))
      BY <1>1, <3>1, SeqDef DEF Mark
    <3>3. QED
      BY <3>2 DEF SheetRow
  <2>4. mutations' \in Seq([status : Statuses \ {"pending"}, wrote : Partial(Content)])
    BY <1>2 DEF MutationRow
  <2>5. raced' \subseteq Record /\ pass' \in Passes
    BY DEF Mark, Passes
  <2>6. QED
    BY <2>1, <2>2, <2>3, <2>4, <2>5 DEF TypeOK, Mark
<1>5. RowsApart'
  BY DEF RowsApart, Mark
<1>6. EveryWriteIsOnRecord'
  <2> SUFFICES ASSUME NEW i \in DOMAIN sheet, sheet[i].by # 0
               PROVE  /\ sheet[i].id \in DOMAIN mutations'[sheet[i].by].wrote
                      /\ sheet[i].val = mutations'[sheet[i].by].wrote[sheet[i].id]
    BY DEF EveryWriteIsOnRecord, Mark
  <2>0. sheet[i] \in SheetRow(Current)
    BY Elements
  <2>1. sheet[i].by \in DOMAIN mutations
    BY <1>1, <2>0 DEF SheetRow
  <2>2. QED
    BY <1>2, <2>1 DEF EveryWriteIsOnRecord
<1>7. RecordsOK'
  <2> SUFFICES ASSUME NEW r \in Record
               PROVE  RecordOK(r)'
    BY DEF RecordsOK
  <2>1. RecordOK(r) /\ mutation[r] \in 0..Current /\ desired' = desired /\ sheet' = sheet
    BY DEF RecordsOK, TypeOK, Mark
  <2>2. CASE r \in DOMAIN batch
    <3>1. /\ desired[r] # Blank /\ status'[r] = "in_flight" /\ mutation'[r] = Current'
          /\ (r \in raced' <=> batch[r] # desired[r])
      BY <1>3, <2>2 DEF PassOK
    <3>2. Current' # 0
      BY <1>1, <1>2
    <3>3. mutations'[mutation'[r]] = [status |-> "in_flight", wrote |-> batch]
      BY <1>2, <3>1
    <3>4. QED
      BY <2>1, <2>2, <3>1, <3>2, <3>3 DEF RecordOK
  <2>3. CASE r \notin DOMAIN batch
    <3>1. /\ status'[r] = status[r] /\ mutation'[r] = mutation[r]
          /\ (r \in raced' <=> r \in raced)
      BY <1>3, <2>3
    <3>2. mutation[r] # 0 => mutations'[mutation[r]] = mutations[mutation[r]]
      BY <1>1, <1>2, <2>1
    <3>3. status[r] = "in_flight" => mutation[r] # 0
      BY <2>1 DEF RecordOK
    <3>4. QED
      BY <2>1, <3>1, <3>2, <3>3 DEF RecordOK, Shows
  <2>4. QED
    BY <2>2, <2>3
<1>8. PassOK'
  <2>1. OnRecord'
    BY <1>1, <1>2, <1>3 DEF OnRecord, Mark
  <2>2. TargetsFit'
    BY DEF TargetsFit, PassOK, Mark
  <2>3. QED
    BY <2>1, <2>2 DEF PassOK, Mark, Sent, Verdicts
<1>9. FaultsCover'
  <2>1. Sent' /\ ~Sent
    BY DEF Mark, Sent, Verdicts
  <2>2. ASSUME NEW m
        PROVE  m \in Stranded' <=> m \in Stranded
    <3>1. CASE m \in DOMAIN mutations
      BY <1>1, <1>2, <2>1, <3>1 DEF Stranded
    <3>2. CASE m \notin DOMAIN mutations
      BY <1>1, <1>2, <2>1, <3>2 DEF Stranded
    <3>3. QED
      BY <3>1, <3>2
  <2>3. Stranded' = Stranded
    BY <2>2
  <2>4. QED
    BY <2>3 DEF FaultsCover, Mark
<1>10. QED
  BY <1>4, <1>5, <1>6, <1>7, <1>8, <1>9

LEMMA RecordOutcomeKeeps == IInv /\ RecordOutcome => IInv'
<1> SUFFICES ASSUME IInv, RecordOutcome
             PROVE  IInv'
  OBVIOUS
<1> USE DEF IInv
<1>1. /\ Current \in Nat /\ DOMAIN mutations = 1..Current
      /\ mutations \in Seq(MutationRow)
      /\ \A m \in DOMAIN mutations : mutations[m] \in MutationRow
      /\ DOMAIN batch \subseteq Record
      /\ pass \in Verdicts /\ Sent /\ OnRecord /\ Current \in DOMAIN mutations
  <2>1. /\ Current \in Nat /\ DOMAIN mutations = 1..Current
        /\ mutations \in Seq(MutationRow)
        /\ \A m \in DOMAIN mutations : mutations[m] \in MutationRow
        /\ DOMAIN batch \subseteq Record
    BY Elements DEF TypeOK, MutationRow
  <2>2. pass \in Verdicts /\ Sent /\ OnRecord
    BY DEF RecordOutcome, PassOK, Sent
  <2>3. Current \in DOMAIN mutations
    BY <2>1, <2>2 DEF OnRecord
  <2>4. QED
    BY <2>1, <2>2, <2>3
<1>2. /\ mutations' \in Seq(MutationRow)
      /\ DOMAIN mutations' = DOMAIN mutations /\ Current' = Current
      /\ \A m \in DOMAIN mutations :
           /\ mutations'[m].wrote = mutations[m].wrote
           /\ mutations'[m].status = IF m = Current THEN pass ELSE mutations[m].status
  <2>1. mutations' = [m \in 1..Current |->
                        IF m = Current THEN [mutations[m] EXCEPT !.status = pass]
                                       ELSE mutations[m]]
    BY <1>1 DEF RecordOutcome
  <2>2. \A m \in 1..Current :
          /\ mutations'[m] \in MutationRow
          /\ mutations'[m].wrote = mutations[m].wrote
          /\ mutations'[m].status = IF m = Current THEN pass ELSE mutations[m].status
    BY <1>1, <2>1 DEF MutationRow, Verdicts, Statuses
  <2>3. mutations' \in [1..Current -> MutationRow]
    BY <2>1, <2>2
  <2>4. mutations' \in Seq(MutationRow)
    BY <1>1, <2>3, SeqDef
  <2>5. Len(mutations') = Current
    BY <1>1, <2>3, <2>4, LenProperties
  <2>6. QED
    BY <1>1, <2>2, <2>3, <2>4, <2>5 DEF Current
<1>3. TypeOK'
  <2>1. status' \in [Record -> Statuses \cup {"absent"}]
    BY <1>1 DEF RecordOutcome, TypeOK, Statuses, Verdicts
  <2>2. /\ batch' \in Partial(Content) /\ target' \in Partial(0..Len(sheet'))
        /\ pass' \in Passes
    BY NothingIsPartial DEF RecordOutcome, Passes
  <2>3. mutations' \in Seq([status : Statuses \ {"pending"}, wrote : Partial(Content)])
    BY <1>2 DEF MutationRow
  <2>4. QED
    BY <1>2, <2>1, <2>2, <2>3 DEF TypeOK, RecordOutcome
<1>4. RowsApart'
  BY DEF RowsApart, RecordOutcome
<1>5. EveryWriteIsOnRecord'
  <2> SUFFICES ASSUME NEW i \in DOMAIN sheet, sheet[i].by # 0
               PROVE  /\ sheet[i].id \in DOMAIN mutations'[sheet[i].by].wrote
                      /\ sheet[i].val = mutations'[sheet[i].by].wrote[sheet[i].id]
    BY DEF EveryWriteIsOnRecord, RecordOutcome
  <2>1. sheet[i] \in SheetRow(Current)
    BY Elements
  <2>2. sheet[i].by \in DOMAIN mutations
    BY <1>1, <2>1 DEF SheetRow
  <2>3. QED
    BY <1>2, <2>2 DEF EveryWriteIsOnRecord
<1>6. RecordsOK'
  <2> SUFFICES ASSUME NEW r \in Record
               PROVE  RecordOK(r)'
    BY DEF RecordsOK
  <2>1. /\ RecordOK(r) /\ mutation[r] \in 0..Current
        /\ UNCHANGED <<desired, mutation, sheet, raced>>
    BY DEF RecordsOK, TypeOK, RecordOutcome
  <2>2. mutation[r] # 0 => mutation[r] \in DOMAIN mutations
    BY <1>1, <2>1
  <2>3. mutation[r] # 0 => mutations'[mutation[r]].wrote = mutations[mutation[r]].wrote
    BY <1>2, <2>2
  <2>4. CASE r \in DOMAIN batch /\ mutation[r] = Current
    <3>1. status'[r] = pass /\ Current # 0
      BY <1>1, <2>4 DEF RecordOutcome, OnRecord
    <3>2. pass \notin {"absent", "pending", "in_flight"}
      BY <1>1 DEF Verdicts
    <3>3. pass = "completed" => Shows(r, Current)
      BY <2>4 DEF PassOK
    <3>4. pass = "completed" => Shows(r, mutation[r])'
      BY <2>1, <2>4, <3>3 DEF Shows
    <3>5. status[r] # "absent"
      BY <2>1, <2>4, <3>1 DEF RecordOK
    <3>6. QED
      BY <2>1, <2>3, <2>4, <3>1, <3>2, <3>4, <3>5 DEF RecordOK
  <2>5. CASE ~ (r \in DOMAIN batch /\ mutation[r] = Current)
    <3>1. status'[r] = status[r]
      BY <2>5 DEF RecordOutcome
    <3>2. mutation[r] # Current
      BY <1>1, <2>1, <2>5 DEF RecordOK, OnRecord
    <3>3. mutation[r] # 0 => mutations'[mutation[r]].status = mutations[mutation[r]].status
      BY <1>2, <2>2, <3>2
    <3>4. QED
      BY <2>1, <2>3, <3>1, <3>3 DEF RecordOK, Shows
  <2>6. QED
    BY <2>4, <2>5
<1>7. PassOK'
  BY <1>1 DEF PassOK, RecordOutcome, Sent, Verdicts, Nothing
<1>8. FaultsCover'
  <2>1. ~Sent' /\ Sent /\ faults' = faults /\ pass # "in_flight"
    BY <1>1 DEF RecordOutcome, Sent, Verdicts
  <2>2. \A m \in DOMAIN mutations : m \in Stranded' <=> m \in Stranded
    BY <1>2, <2>1 DEF Stranded
  <2>3. Stranded' = Stranded
    BY <1>2, <2>2 DEF Stranded
  <2>4. QED
    BY <2>1, <2>3 DEF FaultsCover
<1>9. QED
  BY <1>3, <1>4, <1>5, <1>6, <1>7, <1>8

LEMMA ApplyKeeps == IInv /\ Apply => IInv'
<1> SUFFICES ASSUME IInv, Apply
             PROVE  IInv'
  OBVIOUS
<1> USE DEF IInv
<1>1. /\ wire /\ ~wire' /\ pass = "wait" /\ Sent /\ OnRecord /\ TargetsFit
      /\ DOMAIN target = DOMAIN batch /\ Current # 0
      /\ UNCHANGED <<table, mutations, pass, batch, target, raced, faults>>
  BY DEF Apply, PassOK, Sent, OnRecord
<1>2. /\ sheet' \in Seq(SheetRow(Current))
      /\ Len(sheet) \in Nat /\ DOMAIN sheet = 1..Len(sheet)
      /\ Len(sheet') \in Nat /\ DOMAIN sheet' = 1..Len(sheet') /\ Len(sheet') >= Len(sheet)
  BY <1>1, WhatApplyWrites
<1>3. \A i \in DOMAIN sheet :
        /\ sheet'[i].id = sheet[i].id
        /\ IF sheet[i].id \in DOMAIN batch
           THEN sheet'[i].val = batch[sheet[i].id] /\ sheet'[i].by = Current
           ELSE sheet'[i] = sheet[i]
  BY <1>1, WhatApplyWrites
<1>4. /\ \A i \in DOMAIN sheet' \ DOMAIN sheet :
           /\ sheet'[i].id \in DOMAIN batch /\ target[sheet'[i].id] = 0
           /\ sheet'[i].val = batch[sheet'[i].id] /\ sheet'[i].by = Current
      /\ \A i, j \in DOMAIN sheet' \ DOMAIN sheet :
           sheet'[i].id = sheet'[j].id => i = j
  BY <1>1, WhatApplyWrites
<1>5. \A r \in DOMAIN batch : target[r] = 0 =>
        \E i \in DOMAIN sheet' \ DOMAIN sheet : sheet'[i].id = r
  BY <1>1, WhatApplyWrites
<1>6. DOMAIN sheet \subseteq DOMAIN sheet' /\ Current' = Current
  BY <1>1, <1>2 DEF Current
<1>7. TypeOK'
  <2>1. target' \in Partial(0..Len(sheet'))
    <3>1. 0..Len(sheet) \subseteq 0..Len(sheet')
      BY <1>2
    <3>2. target \in Partial(0..Len(sheet))
      BY DEF TypeOK
    <3>3. QED
      BY <1>1, <3>1, <3>2, PartialGrows
  <2>2. wire' \in BOOLEAN
    BY DEF Apply
  <2>3. sheet' \in Seq([id : Record, val : Content \cup {Blank}, by : 0..Current'])
    BY <1>2, <1>6 DEF SheetRow
  <2>4. QED
    BY <1>1, <1>6, <2>1, <2>2, <2>3 DEF TypeOK, table
<1>8. RowsApart'
  <2> SUFFICES ASSUME NEW i \in DOMAIN sheet', NEW j \in DOMAIN sheet',
                      sheet'[i].id = sheet'[j].id
               PROVE  i = j
    BY DEF RowsApart
  <2>1. \A k \in DOMAIN sheet, l \in DOMAIN sheet' \ DOMAIN sheet : sheet'[k].id # sheet'[l].id
    BY <1>1, <1>3, <1>4 DEF TargetsFit
  <2>2. CASE i \in DOMAIN sheet /\ j \in DOMAIN sheet
    BY <1>3, <2>2 DEF RowsApart
  <2>3. CASE i \notin DOMAIN sheet /\ j \notin DOMAIN sheet
    BY <1>4, <2>3
  <2>4. QED
    BY <2>1, <2>2, <2>3
<1>9. EveryWriteIsOnRecord'
  <2> SUFFICES ASSUME NEW i \in DOMAIN sheet', sheet'[i].by # 0
               PROVE  /\ sheet'[i].id \in DOMAIN mutations[sheet'[i].by].wrote
                      /\ sheet'[i].val = mutations[sheet'[i].by].wrote[sheet'[i].id]
    BY <1>1 DEF EveryWriteIsOnRecord
  <2>1. mutations[Current].wrote = batch
    BY <1>1 DEF OnRecord
  <2>2. CASE /\ sheet'[i].id \in DOMAIN batch
             /\ sheet'[i].val = batch[sheet'[i].id] /\ sheet'[i].by = Current
    BY <2>1, <2>2
  <2>3. CASE i \in DOMAIN sheet /\ sheet'[i] = sheet[i]
    BY <2>3 DEF EveryWriteIsOnRecord
  <2>4. QED
    BY <1>3, <1>4, <2>2, <2>3
<1>10. \A r \in DOMAIN batch : Shows(r, Current)'
  <2> SUFFICES ASSUME NEW r \in DOMAIN batch
               PROVE  \E i \in DOMAIN sheet' : sheet'[i].id = r /\ sheet'[i].by = Current
    BY <1>6 DEF Shows
  <2>1. CASE target[r] = 0
    BY <1>4, <1>5, <2>1
  <2>2. CASE target[r] # 0
    <3>1. target[r] \in DOMAIN sheet /\ sheet[target[r]].id = r
      BY <1>1, <2>2 DEF TargetsFit
    <3>2. QED
      BY <1>3, <1>6, <3>1
  <2>3. QED
    BY <2>1, <2>2
<1>11. RecordsOK'
  <2> SUFFICES ASSUME NEW r \in Record
               PROVE  RecordOK(r)'
    BY DEF RecordsOK
  <2>1. RecordOK(r) /\ UNCHANGED <<desired, status, mutation, mutations, raced>>
    BY <1>1 DEF RecordsOK, table
  <2>2. ASSUME status[r] = "completed"
        PROVE  \E i \in DOMAIN sheet' : sheet'[i].id = r /\ sheet'[i].by = mutation[r]
    <3>1. CASE r \in DOMAIN batch
      <4>1. mutation[r] = Current
        BY <1>1, <2>1, <2>2, <3>1 DEF OnRecord, RecordOK
      <4>2. QED
        BY <1>6, <1>10, <3>1, <4>1 DEF Shows
    <3>2. CASE r \notin DOMAIN batch
      <4>1. PICK i \in DOMAIN sheet : sheet[i].id = r /\ sheet[i].by = mutation[r]
        BY <2>1, <2>2 DEF RecordOK, Shows
      <4>2. QED
        BY <1>3, <1>6, <3>2, <4>1
    <3>3. QED
      BY <3>1, <3>2
  <2>3. QED
    BY <2>1, <2>2 DEF RecordOK, Shows
<1>12. PassOK'
  <2>1. OnRecord'
    BY <1>1, <1>6 DEF OnRecord, table
  <2>2. QED
    BY <1>1, <1>6, <1>10, <2>1 DEF PassOK, Shows, table
<1>13. FaultsCover'
  BY <1>1, SameMutations DEF Sent
<1>14. QED
  BY <1>7, <1>8, <1>9, <1>11, <1>12, <1>13

LEMMA FaultKeeps == IInv /\ Fault => IInv'
<1> SUFFICES ASSUME IInv, Fault
             PROVE  IInv'
  OBVIOUS
<1> USE DEF IInv
<1>1. TypeOK'
  <2>1. faults' \in 0..MaxFaults
    BY BoundsAssumption DEF TypeOK, Fault
  <2>2. QED
    BY <2>1, NothingIsPartial DEF TypeOK, Fault, table, Current, Passes
<1>2. RowsApart' /\ EveryWriteIsOnRecord' /\ RecordsOK'
  BY SameTables DEF Fault
<1>3. PassOK'
  BY DEF PassOK, Fault, Sent, Verdicts, Nothing
<1>4. FaultsCover'
  <2>1. Stranded' \subseteq Stranded \cup {Current}
    BY DEF Stranded, Fault, Current
  <2>2. IsFiniteSet(Stranded)
    <3>1. Current \in Nat /\ DOMAIN mutations = 1..Current
      BY Elements
    <3>2. IsFiniteSet(1..Current)
      BY <3>1, FS_Interval
    <3>3. QED
      BY <3>1, <3>2, FS_Subset DEF Stranded
  <2>3. /\ IsFiniteSet(Stranded \cup {Current})
        /\ Cardinality(Stranded) \in Nat
        /\ Cardinality(Stranded \cup {Current}) <= Cardinality(Stranded) + 1
    <3>1. Cardinality(Stranded) \in Nat
      BY <2>2, FS_CardinalityType
    <3>2. /\ IsFiniteSet(Stranded \cup {Current})
          /\ \/ Cardinality(Stranded \cup {Current}) = Cardinality(Stranded)
             \/ Cardinality(Stranded \cup {Current}) = Cardinality(Stranded) + 1
      BY <2>2, FS_AddElement
    <3>3. QED
      BY <3>1, <3>2
  <2>4. Cardinality(Stranded') \in Nat /\ Cardinality(Stranded') <= Cardinality(Stranded) + 1
    <3>1. IsFiniteSet(Stranded') /\ Cardinality(Stranded') <= Cardinality(Stranded \cup {Current})
      BY <2>1, <2>3, FS_Subset
    <3>2. Cardinality(Stranded') \in Nat /\ Cardinality(Stranded \cup {Current}) \in Nat
      BY <2>3, <3>1, FS_CardinalityType
    <3>3. QED
      BY <2>3, <3>1, <3>2
  <2>5. faults \in Nat /\ faults' = faults + 1
    BY DEF TypeOK, Fault
  <2>6. QED
    BY <2>3, <2>4, <2>5 DEF FaultsCover
<1>5. QED
  BY <1>1, <1>2, <1>3, <1>4

LEMMA StutterKeeps == IInv /\ UNCHANGED vars => IInv'
<1> SUFFICES ASSUME IInv, UNCHANGED vars
             PROVE  IInv'
  OBVIOUS
<1>0. UNCHANGED <<table, mutations, pass, batch, target, wire, sheet, raced, faults>>
  BY DEF vars, table
<1>1. TypeOK'
  BY <1>0 DEF IInv, TypeOK, table, Current
<1>2. RowsApart' /\ EveryWriteIsOnRecord' /\ RecordsOK'
  BY <1>0, SameTables
<1>3. PassOK'
  BY <1>0 DEF IInv, PassOK, Sent, OnRecord, TargetsFit, Shows, Current, table
<1>4. FaultsCover'
  BY <1>0, SameMutations DEF IInv, Sent
<1>5. QED
  BY <1>1, <1>2, <1>3, <1>4 DEF IInv

LEMMA Invariant == Spec => []IInv
<1>1. IInv /\ [Next]_vars => IInv'
  BY ReconcileKeeps, LoadKeeps, ReadKeeps, GiveUpKeeps, MarkKeeps, SendKeeps, AnswerKeeps,
     RecordOutcomeKeeps, ApplyKeeps, FaultKeeps, StutterKeeps DEF Next
<1>2. QED
  BY InitKeeps, <1>1, PTL DEF Spec

-----------------------------------------------------------------------------
(* What it implies.                                                        *)

\* The columns of the tables, the local state of a pass and the rows of the
\* sheet keep their types: in particular, only contents that a reconciliation
\* asked for are ever loaded by project_once.
THEOREM ProjectionTypeCorrect == Spec => []TypeOK
<1>1. IInv => TypeOK
  BY DEF IInv
<1>2. QED
  BY <1>1, Invariant, PTL

\* resolve_record_rows never finds two rows of one record: no failure, lost
\* answer or crash has a second row appended for it.
THEOREM RowsAreUnique == Spec => []OneRowPerRecord
<1>1. IInv => OneRowPerRecord
  <2> SUFFICES ASSUME IInv, NEW r \in Record
               PROVE  Cardinality(RowsOf(r)) <= 1
    BY DEF OneRowPerRecord
  <2>1. CASE RowsOf(r) = {}
    BY <2>1, FS_EmptySet
  <2>2. CASE RowsOf(r) # {}
    <3>1. PICK i \in RowsOf(r) : TRUE
      BY <2>2
    <3>2. RowsOf(r) = {i}
      BY <3>1 DEF IInv, RowsApart, RowsOf
    <3>3. QED
      BY <3>2, FS_Singleton
  <2>3. QED
    BY <2>1, <2>2
<1>2. QED
  BY <1>1, Invariant, PTL

\* Every cell that a batchUpdate wrote is listed, with what it says, by the
\* mutation that wrote it, which was committed before the request was sent.
THEOREM WritesAreOnRecord == Spec => []EveryWriteIsOnRecord
<1>1. IInv => EveryWriteIsOnRecord
  BY DEF IInv
<1>2. QED
  BY <1>1, Invariant, PTL

\* What the outcome transaction calls completed is on the sheet, in the row that
\* the record's last mutation wrote.
THEOREM CompletedRecordsAreShown == Spec => []CompletedIsShown
<1>1. IInv => CompletedIsShown
  BY DEF IInv, RecordsOK, RecordOK, Shows, CompletedIsShown, RowsOf
<1>2. QED
  BY <1>1, Invariant, PTL

\* A record marked as sent, with any outcome, was sent with the content that it
\* asks for, unless a reconciliation came between the load and the mark.
THEOREM OnlyRacesAreStale == Spec => []StaleOnlyIfRaced
<1>1. IInv => StaleOnlyIfRaced
  <2> SUFFICES ASSUME IInv, NEW r \in Record,
                      status[r] \notin {"absent", "pending"}, r \notin raced
               PROVE  mutation[r] # 0 /\ mutations[mutation[r]].wrote[r] = desired[r]
    BY DEF StaleOnlyIfRaced
  <2>1. QED
    BY DEF IInv, RecordsOK, RecordOK
<1>2. QED
  BY <1>1, Invariant, PTL

\* A mutation stays in flight, with the records that carry its id, only where a
\* crash or a failed transaction kept project_once from recording its outcome.
THEOREM FaultsStrand == Spec => []StrandedByFaults
<1>1. IInv => StrandedByFaults
  <2> SUFFICES ASSUME IInv
               PROVE  StrandedByFaults
    OBVIOUS
  <2>1. Cardinality(Stranded) <= faults
    BY DEF IInv, FaultsCover
  <2>2. \A r \in Record :
          status[r] = "in_flight" => mutations[mutation[r]].status = "in_flight"
    BY DEF IInv, RecordsOK, RecordOK
  <2>3. QED
    BY <2>1, <2>2, Zenon DEF Stranded, Sent, StrandedByFaults
<1>2. QED
  BY <1>1, Invariant, PTL

\* What may have reached the sheet is not written again: a record gets a new
\* mutation only while it is pending, or once Google has refused the last one.
RetriesAreSafe ==
  [][\A r \in Record :
       mutation'[r] \notin {0, mutation[r]} => status[r] \in {"pending", "failed"}]_vars

\* project_once marks what it loaded a while ago, whatever its status is by now;
\* all that can have happened to it since is that it became pending.
THEOREM NothingUnsureIsResent == Spec => RetriesAreSafe
<1> DEFINE Safe == \A r \in Record :
                     mutation'[r] \notin {0, mutation[r]} => status[r] \in {"pending", "failed"}
<1>1. IInv /\ [Next]_vars => Safe
  <2> SUFFICES ASSUME IInv, [Next]_vars, NEW r \in Record, mutation'[r] \notin {0, mutation[r]}
               PROVE  status[r] \in {"pending", "failed"}
    OBVIOUS
  <2>1. CASE Mark
    BY <2>1 DEF Mark, IInv, PassOK
  <2>2. CASE Reconcile
    BY <2>2 DEF Reconcile
  <2>3. CASE mutation' = mutation
    BY <2>3
  <2>4. QED
    BY <2>1, <2>2, <2>3 DEF Next, Load, Read, GiveUp, Send, Answer, RecordOutcome, Apply,
                            Fault, table, vars
<1>2. IInv /\ [Next]_vars => [Safe]_vars
  BY <1>1
<1>3. QED
  BY <1>2, Invariant, PTL DEF Spec, RetriesAreSafe

=============================================================================
