--------------------------- MODULE ContinuityProofs ---------------------------
(***************************************************************************)
(* Proofs about Continuity, for every set of receipts, nodes and programs, *)
(* any number of permits and any number of crashes.                        *)
(***************************************************************************)
EXTENDS Continuity, FiniteSetTheorems, TLAPS

-----------------------------------------------------------------------------
(* Types.                                                                  *)

Checkpoints == [path : Seq(Acts), at : Node \cup {End, None}, whole : BOOLEAN]
OrphanSet   == [r : Receipt, program : Revision \cup {None}, resume : Requests]

Types ==
  /\ authority \in Revision \cup {None}
  /\ proof \in [Receipt -> Revision \cup {None}]
  /\ outcome \in [Receipt -> Outcomes]
  /\ at \in [Receipt -> Phases]
  /\ program \in [Receipt -> Revision \cup {None}]
  /\ resume \in [Receipt -> Requests]
  /\ asked \in [Receipt -> Node \cup {None}]
  /\ out \in [Receipt -> Seq(Acts)]
  /\ orphans \subseteq OrphanSet
  /\ checkpoint \in [Receipt -> Checkpoints]
  /\ committed \in [Receipt -> Seq(Acts)]
  /\ acted \in [Receipt -> Seq(Node)]
  /\ late \in [Receipt -> Nat]
  /\ hits \in [Receipt -> Nat]
  /\ crashes \in Nat

Permits == Cardinality(Holding) <= Workers

\* TypeOK in its two parts.
LEMMA TypeParts == TypeOK <=> Types /\ Permits
BY DEF TypeOK, Types, Permits, Checkpoints, OrphanSet

\* A drawing leads from a node to nodes or to the END.
LEMMA DrawingType ==
  ASSUME NEW v \in Revision
  PROVE  /\ Drawing[v].start \in Node
         /\ Drawing[v].nodes \subseteq Node
         /\ \A n \in Node : Drawing[v].next[n] \subseteq Node \cup {End}
BY DrawingAssumption DEF Drawings

\* What a child may make of a checkpoint, if it does not refuse, is one.
LEMMA AdvancedType ==
  ASSUME NEW c \in Checkpoints, NEW v \in Revision \cup {None}, NEW done \in Requests,
         ~ Refuses(c, v, done), NEW e \in Advanced(c, v, done)
  PROVE  /\ e \in Checkpoints
         /\ e.at \in Node \cup {End}
         /\ v \in SoundPrograms
         /\ v \in Revision
         /\ done # None => c.at \in Node /\ done \in Acts
<1>1. v \in SoundPrograms /\ v \in Revision
  BY DEF Refuses, SoundPrograms
<1>2. CASE done # None
  <2>1. done \in Acts /\ done.node = c.at /\ c.at \in Node
    BY <1>2 DEF Refuses, Requests, Acts
  <2>2. PICK m \in Drawing[v].next[c.at] :
          e = [path |-> Append(c.path, done), at |-> m, whole |-> TRUE]
    BY <1>2 DEF Advanced
  <2>3. m \in Node \cup {End}
    BY <1>1, <2>1, DrawingType
  <2>4. Append(c.path, done) \in Seq(Acts)
    BY <2>1 DEF Checkpoints
  <2> QED
    BY <1>1, <2>1, <2>2, <2>3, <2>4 DEF Checkpoints
<1>3. CASE done = None /\ c.at = None
  <2>1. e = [c EXCEPT !.at = Drawing[v].start]
    BY <1>3 DEF Advanced
  <2> QED
    BY <1>1, <1>3, <2>1, DrawingType DEF Checkpoints
<1>4. CASE done = None /\ c.at # None
  BY <1>1, <1>4 DEF Advanced, Checkpoints
<1> QED
  BY <1>2, <1>3, <1>4

LEMMA LeftType ==
  ASSUME NEW c \in Checkpoints, NEW v \in Revision \cup {None}, NEW done \in Requests,
         NEW e \in Left(c, v, done)
  PROVE  e \in Checkpoints
<1>1. CASE e = c
  BY <1>1
<1>2. CASE ~ Refuses(c, v, done) /\ e \in Advanced(c, v, done)
  BY <1>2, AdvancedType
<1>3. CASE ~ Refuses(c, v, done) /\ \E n \in Advanced(c, v, done) : e = [n EXCEPT !.whole = FALSE]
  <2>1. PICK n \in Advanced(c, v, done) : e = [n EXCEPT !.whole = FALSE]
    BY <1>3
  <2>2. n \in Checkpoints
    BY <1>3, AdvancedType
  <2> QED
    BY <2>1, <2>2 DEF Checkpoints
<1> QED
  BY <1>1, <1>2, <1>3 DEF Left


-----------------------------------------------------------------------------
(* The inductive invariant.                                                *)

\* A job is of an open receipt; it runs the program the receipt was admitted
\* under, and acts at a node; nothing is kept of a receipt not admitted.
JobInv ==
  \A r \in Receipt :
    /\ at[r] # "none" => outcome[r] = "open"
    /\ outcome[r] # "none" => proof[r] \in Revision
    /\ at[r] = "acting" => asked[r] \in Node
    /\ at[r] \in {"ready", "advancing", "acting", "completing"} => program[r] = proof[r]
    /\ outcome[r] = "none" => checkpoint[r] = Empty /\ resume[r] = None /\ late[r] = 0

\* A receipt has acted without authority only while it still lacks it, and
\* then it is not on the way to another act.
LateInv ==
  \A r \in Receipt :
    late[r] # 0 => /\ late[r] = 1
                   /\ authority # proof[r]
                   /\ at[r] \notin {"advancing", "acting"}

\* The request of receipt r to record done is of an act it did.
Done(done, h) == done # None => done.act \in DOMAIN h /\ h[done.act] = done.node

\* PathOfProgram, of one checkpoint c under program p and history h.
OnPath(c, p, h) ==
  IF c.at = None THEN c.path = <<>>
  ELSE /\ p \in SoundPrograms
       /\ IsPath(c.path, c.at, Drawing[p])
       /\ \A i \in 1 .. Len(c.path) : c.path[i].act \in DOMAIN h /\ h[c.path[i].act] = c.path[i].node

PathInv ==
  /\ \A r \in Receipt : OnPath(checkpoint[r], proof[r], acted[r])
  /\ \A r \in Receipt : Done(resume[r], acted[r])
  /\ \A o \in orphans : /\ outcome[o.r] # "none"
                        /\ o.program = proof[o.r]
                        /\ Done(o.resume, acted[o.r])

\* Init establishes the types.
LEMMA TypesInit == Init => Types
BY DEF Init, Types, Outcomes, Phases, Requests, Empty, Checkpoints, OrphanSet

\* Every step keeps the types.
LEMMA TypesNext == Types /\ JobInv /\ [Next]_vars => Types'
<1> SUFFICES ASSUME Types, JobInv, [Next]_vars PROVE Types'
  OBVIOUS
<1> USE DEF Types
<1>1. CASE AuthorityChanges
  BY <1>1 DEF AuthorityChanges, job
<1>2. CASE Crash
  <2>1. orphans' \subseteq OrphanSet
    BY <1>2 DEF Crash, OrphanSet
  <2> QED
    BY <1>2, <2>1, CrashAssumption DEF Crash, Phases, Requests
<1>3. ASSUME NEW r \in Receipt, Admit(r) PROVE Types'
  BY <1>3 DEF Admit, Outcomes, Phases, history
<1>4. ASSUME NEW r \in Receipt, Begin(r) PROVE Types'
  BY <1>4 DEF Begin, Phases, history
<1>5. ASSUME NEW r \in Receipt, Enter(r) PROVE Types'
  BY <1>5 DEF Enter, Phases, Requests, history
<1>6. ASSUME NEW r \in Receipt, Denied(r) PROVE Types'
  BY <1>6 DEF Denied, Fail, Leave, Phases, Outcomes, Requests, history
<1>7. ASSUME NEW r \in Receipt, Advance(r) PROVE Types'
  BY <1>7 DEF Advance, Phases, history
<1>8. ASSUME NEW r \in Receipt, Work(r) PROVE Types'
  <2>1. PICK c \in Advanced(checkpoint[r], program[r], resume[r]) :
          /\ checkpoint' = [checkpoint EXCEPT ![r] = c]
          /\ IF c.at = End
             THEN /\ at'  = [at EXCEPT ![r] = "completing"]
                  /\ out' = [out EXCEPT ![r] = Report(c)]
                  /\ UNCHANGED asked
             ELSE /\ at'    = [at EXCEPT ![r] = "acting"]
                  /\ asked' = [asked EXCEPT ![r] = c.at]
                  /\ UNCHANGED out
    BY <1>8 DEF Work
  <2>2. c \in Checkpoints
    BY <1>8, AdvancedType DEF Work
  <2>3. checkpoint' \in [Receipt -> Checkpoints]
    BY <2>1, <2>2
  <2>4. c.path \in Seq(Acts) /\ c.at \in Node \cup {End, None}
    BY <2>2 DEF Checkpoints
  <2>5. at' \in [Receipt -> Phases] /\ out' \in [Receipt -> Seq(Acts)]
    BY <2>1, <2>4 DEF Phases, Report
  <2>6. asked' \in [Receipt -> Node \cup {None}]
    BY <2>1, <2>4
  <2> QED
    BY <1>8, <2>3, <2>5, <2>6 DEF Work, history
<1>9. ASSUME NEW r \in Receipt, Act(r), asked[r] \in Node PROVE Types'
  <2>1. acted' \in [Receipt -> Seq(Node)]
    BY <1>9 DEF Act
  <2>2. resume' \in [Receipt -> Requests]
    <3>1. Len(acted[r]) + 1 \in Nat \ {0}
      BY <1>9
    <3> QED
      BY <1>9, <3>1 DEF Act, Requests
  <2>3. late' \in [Receipt -> Nat]
    BY <1>9 DEF Act
  <2> QED
    BY <1>9, <2>1, <2>2, <2>3 DEF Act, Phases
<1>10. ASSUME NEW r \in Receipt, Commit(r) PROVE Types'
  BY <1>10 DEF Commit, Leave, Phases, Outcomes, Requests, history
<1>11. ASSUME NEW r \in Receipt, Errs(r) PROVE Types'
  BY <1>11 DEF Errs, Fail, Leave, Phases, Outcomes, Requests, history
<1>12. ASSUME NEW r \in Receipt, Dropped(r) PROVE Types'
  <2>1. PICK c \in IF at[r] = "advancing" THEN Left(checkpoint[r], program[r], resume[r])
                   ELSE {checkpoint[r]} : checkpoint' = [checkpoint EXCEPT ![r] = c]
    BY <1>12 DEF Dropped
  <2>2. c \in Checkpoints
    BY <2>1, LeftType
  <2> QED
    BY <1>12, <2>1, <2>2 DEF Dropped, Leave, Phases, Requests, history
<1>13. ASSUME NEW o \in orphans, OrphanWorks(o) PROVE Types'
  <2>1. o \in OrphanSet
    OBVIOUS
  <2>2. PICK c \in Advanced(checkpoint[o.r], o.program, o.resume) :
          checkpoint' = [checkpoint EXCEPT ![o.r] = c]
    BY <1>13 DEF OrphanWorks
  <2>3. c \in Checkpoints
    BY <1>13, <2>1, <2>2, AdvancedType DEF OrphanWorks, OrphanSet
  <2> QED
    BY <1>13, <2>1, <2>2, <2>3 DEF OrphanWorks, OrphanSet, job, history
<1>14. ASSUME NEW o \in orphans, OrphanDies(o) PROVE Types'
  <2>1. o \in OrphanSet
    OBVIOUS
  <2>2. PICK c \in Left(checkpoint[o.r], o.program, o.resume) :
          checkpoint' = [checkpoint EXCEPT ![o.r] = c]
    BY <1>14 DEF OrphanDies
  <2>3. c \in Checkpoints
    BY <2>1, <2>2, LeftType DEF OrphanSet
  <2> QED
    BY <1>14, <2>1, <2>2, <2>3 DEF OrphanDies, OrphanSet, job, history
<1>15. CASE UNCHANGED vars
  BY <1>15 DEF vars
<1>16. \A r \in Receipt : Act(r) => asked[r] \in Node
  BY DEF Act, JobInv
<1> QED
  BY <1>1, <1>2, <1>3, <1>4, <1>5, <1>6, <1>7, <1>8, <1>9, <1>10, <1>11, <1>12, <1>13, <1>14,
     <1>15, <1>16 DEF Next, JobStep

\* Init establishes the rest.
LEMMA RestInit == Init => JobInv /\ LateInv /\ PathInv
BY DEF Init, JobInv, LateInv, PathInv, OnPath, Done, Empty

\* What JobInv says survives every step.
LEMMA JobNext == Types /\ JobInv /\ PathInv /\ [Next]_vars => JobInv'
<1> SUFFICES ASSUME Types, JobInv, PathInv, [Next]_vars PROVE JobInv'
  OBVIOUS
<1> USE DEF JobInv
<1>1. CASE AuthorityChanges
  BY <1>1 DEF AuthorityChanges, job, Types
<1>2. CASE Crash
  BY <1>2 DEF Crash, Types
<1>3. ASSUME NEW r \in Receipt, Admit(r) PROVE JobInv'
  BY <1>3 DEF Admit, Types, history
<1>4. ASSUME NEW r \in Receipt, Begin(r) PROVE JobInv'
  BY <1>4 DEF Begin, Types, history
<1>5. ASSUME NEW r \in Receipt, Enter(r) PROVE JobInv'
  BY <1>5 DEF Enter, Authorize, Types, history
<1>6. ASSUME NEW r \in Receipt, Denied(r) PROVE JobInv'
  BY <1>6 DEF Denied, Fail, Leave, Types, history
<1>7. ASSUME NEW r \in Receipt, Advance(r) PROVE JobInv'
  BY <1>7 DEF Advance, Types, history
<1>8. ASSUME NEW r \in Receipt, Work(r) PROVE JobInv'
  <2>1. PICK c \in Advanced(checkpoint[r], program[r], resume[r]) :
          /\ checkpoint' = [checkpoint EXCEPT ![r] = c]
          /\ IF c.at = End
             THEN /\ at'  = [at EXCEPT ![r] = "completing"]
                  /\ out' = [out EXCEPT ![r] = Report(c)]
                  /\ UNCHANGED asked
             ELSE /\ at'    = [at EXCEPT ![r] = "acting"]
                  /\ asked' = [asked EXCEPT ![r] = c.at]
                  /\ UNCHANGED out
    BY <1>8 DEF Work
  <2>2. c.at \in Node \cup {End}
    BY <1>8, AdvancedType DEF Work, Types
  <2>3. at[r] = "advancing" /\ outcome[r] = "open"
    BY <1>8 DEF Work
  <2> QED
    BY <1>8, <2>1, <2>2, <2>3 DEF Work, Types, history
<1>9. ASSUME NEW r \in Receipt, Act(r) PROVE JobInv'
  BY <1>9 DEF Act, Types
<1>10. ASSUME NEW r \in Receipt, Commit(r) PROVE JobInv'
  BY <1>10 DEF Commit, Leave, Types, history
<1>11. ASSUME NEW r \in Receipt, Errs(r) PROVE JobInv'
  BY <1>11 DEF Errs, Fail, Leave, Types, history
<1>12. ASSUME NEW r \in Receipt, Dropped(r) PROVE JobInv'
  BY <1>12 DEF Dropped, Leave, Types, history
<1>13. ASSUME NEW o \in orphans, OrphanWorks(o) PROVE JobInv'
  BY <1>13 DEF OrphanWorks, PathInv, Types, job, history
<1>14. ASSUME NEW o \in orphans, OrphanDies(o) PROVE JobInv'
  BY <1>14 DEF OrphanDies, PathInv, Types, job, history
<1>15. CASE UNCHANGED vars
  BY <1>15 DEF vars
<1> QED
  BY <1>1, <1>2, <1>3, <1>4, <1>5, <1>6, <1>7, <1>8, <1>9, <1>10, <1>11, <1>12, <1>13, <1>14,
     <1>15 DEF Next, JobStep

\* What LateInv says survives every step.
LEMMA LateNext == Types /\ JobInv /\ LateInv /\ [Next]_vars => LateInv'
<1> SUFFICES ASSUME Types, JobInv, LateInv, [Next]_vars PROVE LateInv'
  OBVIOUS
<1> USE DEF LateInv
<1>1. CASE AuthorityChanges
  BY <1>1 DEF AuthorityChanges, job, Types
<1>2. CASE Crash
  BY <1>2 DEF Crash, Types
<1>3. ASSUME NEW r \in Receipt, Admit(r) PROVE LateInv'
  BY <1>3 DEF Admit, JobInv, Types, history
<1>4. ASSUME NEW r \in Receipt, Begin(r) PROVE LateInv'
  BY <1>4 DEF Begin, Types, history
<1>5. ASSUME NEW r \in Receipt, Enter(r) PROVE LateInv'
  BY <1>5 DEF Enter, Types, history
<1>6. ASSUME NEW r \in Receipt, Denied(r) PROVE LateInv'
  BY <1>6 DEF Denied, Fail, Leave, Types, history
<1>7. ASSUME NEW r \in Receipt, Advance(r) PROVE LateInv'
  BY <1>7 DEF Advance, Authorize, Types, history
<1>8. ASSUME NEW r \in Receipt, Work(r) PROVE LateInv'
  BY <1>8 DEF Work, Types, history
<1>9. ASSUME NEW r \in Receipt, Act(r) PROVE LateInv'
  <2>1. late[r] = 0
    BY <1>9 DEF Act
  <2> QED
    BY <1>9, <2>1 DEF Act, Authorize, Types
<1>10. ASSUME NEW r \in Receipt, Commit(r) PROVE LateInv'
  BY <1>10 DEF Commit, Leave, Types, history
<1>11. ASSUME NEW r \in Receipt, Errs(r) PROVE LateInv'
  BY <1>11 DEF Errs, Fail, Leave, Types, history
<1>12. ASSUME NEW r \in Receipt, Dropped(r) PROVE LateInv'
  BY <1>12 DEF Dropped, Leave, Types, history
<1>13. ASSUME NEW o \in orphans, OrphanWorks(o) \/ OrphanDies(o) PROVE LateInv'
  BY <1>13 DEF OrphanWorks, OrphanDies, job, history
<1>14. CASE UNCHANGED vars
  BY <1>14 DEF vars
<1> QED
  BY <1>1, <1>2, <1>3, <1>4, <1>5, <1>6, <1>7, <1>8, <1>9, <1>10, <1>11, <1>12, <1>13,
     <1>14 DEF Next, JobStep

-----------------------------------------------------------------------------
(* The permits.                                                            *)

\* Only Enter takes a permit, and only a free one.
LEMMA PermitsNext == Types /\ Permits /\ [Next]_vars => Permits'
<1> SUFFICES ASSUME Types, Permits, [Next]_vars PROVE Permits'
  OBVIOUS
<1>1. IsFiniteSet(Holding) /\ Cardinality(Holding) \in Nat
  <2>1. Holding \in SUBSET Receipt
    BY DEF Holding
  <2> QED
    BY <2>1, ReceiptAssumption, FS_Subset, FS_CardinalityType
<1>2. ASSUME Holding' \subseteq Holding PROVE Permits'
  <2>1. Cardinality(Holding') <= Cardinality(Holding) /\ Cardinality(Holding') \in Nat
    BY <1>1, <1>2, FS_Subset, FS_CardinalityType
  <2> QED
    BY <1>1, <2>1, WorkersAssumption DEF Permits
<1>3. ASSUME NEW r \in Receipt, Enter(r) PROVE Permits'
  <2>1. Holding' \subseteq Holding \cup {r}
    BY <1>3 DEF Enter, Holding, Types
  <2>2. /\ IsFiniteSet(Holding \cup {r})
        /\ Cardinality(Holding \cup {r}) \in Nat
        /\ Cardinality(Holding \cup {r}) <= Cardinality(Holding) + 1
    <3>1. /\ IsFiniteSet(Holding \cup {r})
          /\ Cardinality(Holding \cup {r}) =
               IF r \in Holding THEN Cardinality(Holding) ELSE Cardinality(Holding) + 1
      BY <1>1, FS_AddElement
    <3> HIDE DEF Holding
    <3> QED
      BY <1>1, <3>1
  <2>3. Cardinality(Holding') <= Cardinality(Holding \cup {r}) /\ Cardinality(Holding') \in Nat
    BY <2>1, <2>2, FS_Subset, FS_CardinalityType
  <2>4. Cardinality(Holding) < Workers
    BY <1>3 DEF Enter, Permit
  <2> QED
    BY <1>1, <2>2, <2>3, <2>4, WorkersAssumption DEF Permits
<1>4. CASE AuthorityChanges \/ Crash \/ UNCHANGED vars
  <2>1. Holding' \subseteq Holding
    BY <1>4 DEF AuthorityChanges, Crash, Holding, vars, job
  <2> QED
    BY <1>2, <2>1
<1>5. ASSUME NEW r \in Receipt, Admit(r) \/ Begin(r) \/ Denied(r) \/ Errs(r) \/ Dropped(r) \/ Commit(r)
      PROVE  Permits'
  <2>1. Holding' \subseteq Holding
    BY <1>5 DEF Admit, Begin, Denied, Errs, Dropped, Commit, Fail, Leave, Holding, Types
  <2> QED
    BY <1>2, <2>1
<1>6. ASSUME NEW r \in Receipt, Advance(r) \/ Work(r) \/ Act(r) PROVE Permits'
  <2>1. /\ at[r] \in {"ready", "advancing", "acting"}
        /\ \E phase : at' = [at EXCEPT ![r] = phase]
    BY <1>6 DEF Advance, Work, Act
  <2>2. Holding' \subseteq Holding
    BY <2>1 DEF Holding, Types
  <2> QED
    BY <1>2, <2>2
<1>7. ASSUME NEW o \in orphans, OrphanWorks(o) \/ OrphanDies(o) PROVE Permits'
  <2>1. Holding' \subseteq Holding
    BY <1>7 DEF OrphanWorks, OrphanDies, Holding, job
  <2> QED
    BY <1>2, <2>1
<1> QED
  BY <1>3, <1>4, <1>5, <1>6, <1>7 DEF Next, JobStep

-----------------------------------------------------------------------------
(* The checkpoint is a run of the program.                                 *)

\* What a sequence with one more element is.
LEMMA Appended ==
  ASSUME NEW S, NEW s \in Seq(S), NEW x \in S
  PROVE  /\ Append(s, x) \in Seq(S)
         /\ Append(s, x) # <<>>
         /\ Len(Append(s, x)) = Len(s) + 1
         /\ Append(s, x)[Len(s) + 1] = x
         /\ \A i \in 1 .. Len(s) : Append(s, x)[i] = s[i]
OBVIOUS

\* A child that does not refuse keeps a checkpoint on its program.
LEMMA AdvancedOnPath ==
  ASSUME NEW c \in Checkpoints, NEW v \in Revision \cup {None}, NEW done \in Requests,
         NEW h \in Seq(Node), ~ Refuses(c, v, done), NEW e \in Advanced(c, v, done),
         OnPath(c, v, h), Done(done, h)
  PROVE  OnPath(e, v, h)
<1>1. /\ e \in Checkpoints
      /\ e.at # None
      /\ v \in SoundPrograms
      /\ done # None => c.at \in Node /\ done \in Acts
  BY AdvancedType, NodeAssumption, EndAssumption
<1>2. CASE done # None
  <2> DEFINE n == Len(c.path)
  <2>1. done.node = c.at /\ c.at \in Node /\ c.at # None /\ done \in Acts
    BY <1>1, <1>2, NodeAssumption DEF Refuses
  <2>2. PICK m \in Drawing[v].next[c.at] :
          e = [path |-> Append(c.path, done), at |-> m, whole |-> TRUE]
    BY <1>2 DEF Advanced
  <2>3. /\ IsPath(c.path, c.at, Drawing[v])
        /\ \A i \in 1 .. n : c.path[i].act \in DOMAIN h /\ h[c.path[i].act] = c.path[i].node
    BY <2>1 DEF OnPath
  <2>4. /\ c.path \in Seq(Acts) /\ n \in Nat
        /\ e.path # <<>> /\ Len(e.path) = n + 1
        /\ e.path[n + 1] = done
        /\ \A i \in 1 .. n : e.path[i] = c.path[i]
    <3>1. c.path \in Seq(Acts) /\ n \in Nat /\ e.path = Append(c.path, done)
      BY <2>2 DEF Checkpoints
    <3> QED
      BY <2>1, <3>1, Appended
  <2>5. e.path[1].node = Drawing[v].start
    <3>1. CASE c.path = <<>>
      BY <2>1, <2>3, <2>4, <3>1 DEF IsPath
    <3>2. CASE c.path # <<>>
      <4>1. 1 \in 1 .. n
        BY <2>4, <3>2
      <4> QED
        BY <2>3, <2>4, <3>2, <4>1 DEF IsPath
    <3> QED
      BY <3>1, <3>2
  <2>6. e.at \in Drawing[v].next[e.path[Len(e.path)].node]
    BY <2>1, <2>2, <2>4
  <2>7. ASSUME NEW i \in 1 .. Len(e.path) - 1
        PROVE  e.path[i + 1].node \in Drawing[v].next[e.path[i].node]
    <3>1. CASE i = n
      <4>1. c.path # <<>> /\ e.path[i] = c.path[n]
        BY <2>4, <3>1
      <4> QED
        BY <2>1, <2>3, <2>4, <3>1, <4>1 DEF IsPath
    <3>2. CASE i # n
      <4>1. i \in 1 .. n - 1 /\ e.path[i] = c.path[i] /\ e.path[i + 1] = c.path[i + 1]
        BY <2>4, <3>2
      <4> QED
        BY <2>3, <4>1 DEF IsPath
    <3> QED
      BY <3>1, <3>2
  <2>8. IsPath(e.path, e.at, Drawing[v])
    BY <2>4, <2>5, <2>6, <2>7 DEF IsPath
  <2>9. \A i \in 1 .. Len(e.path) : e.path[i].act \in DOMAIN h /\ h[e.path[i].act] = e.path[i].node
    <3> TAKE i \in 1 .. Len(e.path)
    <3>1. CASE i = n + 1
      BY <1>2, <2>4, <3>1 DEF Done
    <3>2. CASE i # n + 1
      <4>1. i \in 1 .. n /\ e.path[i] = c.path[i]
        BY <2>4, <3>2
      <4> QED
        BY <2>3, <4>1
    <3> QED
      BY <3>1, <3>2
  <2> QED
    BY <1>1, <2>8, <2>9 DEF OnPath
<1>3. CASE done = None /\ c.at = None
  <2>1. e = [c EXCEPT !.at = Drawing[v].start] /\ c.path = <<>>
    BY <1>3 DEF Advanced, OnPath
  <2>2. e.path = <<>> /\ e.at = Drawing[v].start
    BY <2>1 DEF Checkpoints
  <2> QED
    BY <1>1, <2>2 DEF OnPath, IsPath
<1>4. CASE done = None /\ c.at # None
  BY <1>4 DEF Advanced
<1> QED
  BY <1>2, <1>3, <1>4

\* So does one that is killed.
LEMMA LeftOnPath ==
  ASSUME NEW c \in Checkpoints, NEW v \in Revision \cup {None}, NEW done \in Requests,
         NEW h \in Seq(Node), NEW e \in Left(c, v, done), OnPath(c, v, h), Done(done, h)
  PROVE  OnPath(e, v, h)
<1>1. CASE e = c
  BY <1>1
<1>2. CASE ~ Refuses(c, v, done) /\ e \in Advanced(c, v, done)
  BY <1>2, AdvancedOnPath
<1>3. CASE ~ Refuses(c, v, done) /\ \E n \in Advanced(c, v, done) : e = [n EXCEPT !.whole = FALSE]
  <2>1. PICK n \in Advanced(c, v, done) : e = [n EXCEPT !.whole = FALSE]
    BY <1>3
  <2>2. n \in Checkpoints /\ OnPath(n, v, h)
    BY <1>3, AdvancedType, AdvancedOnPath
  <2>3. e.path = n.path /\ e.at = n.at
    BY <2>1, <2>2 DEF Checkpoints
  <2> QED
    BY <2>2, <2>3 DEF OnPath
<1> QED
  BY <1>1, <1>2, <1>3 DEF Left

\* An act more does not change what is on record of the earlier ones.
LEMMA OnPathGrows ==
  ASSUME NEW c \in Checkpoints, NEW p \in Revision \cup {None}, NEW h \in Seq(Node), NEW n \in Node
  PROVE  /\ OnPath(c, p, h) => OnPath(c, p, Append(h, n))
         /\ \A done \in Requests : Done(done, h) => Done(done, Append(h, n))
<1>1. \A i \in DOMAIN h : i \in DOMAIN Append(h, n) /\ Append(h, n)[i] = h[i]
  OBVIOUS
<1> QED
  BY <1>1 DEF OnPath, Done

\* What PathInv says survives every step.
LEMMA PathNext == Types /\ JobInv /\ PathInv /\ [Next]_vars => PathInv'
<1> SUFFICES ASSUME Types, JobInv, PathInv, [Next]_vars PROVE PathInv'
  OBVIOUS
<1> USE DEF PathInv
\* A step that only changes jobs, and forgets what they were to record.
<1>1. ASSUME UNCHANGED <<proof, checkpoint, acted, orphans>>,
             \A r \in Receipt : resume'[r] \in {None, resume[r]},
             \A r \in Receipt : outcome[r] # "none" => outcome'[r] # "none"
      PROVE  PathInv'
  <2>1. \A r \in Receipt : OnPath(checkpoint'[r], proof'[r], acted'[r])
    BY <1>1
  <2>2. \A r \in Receipt : Done(resume'[r], acted'[r])
    BY <1>1 DEF Done
  <2>3. \A o \in orphans' : /\ outcome'[o.r] # "none"
                            /\ o.program = proof'[o.r]
                            /\ Done(o.resume, acted'[o.r])
    BY <1>1 DEF Types, OrphanSet
  <2> QED
    BY <2>1, <2>2, <2>3
\* A step that only changes one checkpoint, and keeps it on the program.
<1>2. ASSUME NEW r \in Receipt, NEW c \in Checkpoints, OnPath(c, proof[r], acted[r]),
             checkpoint' = [checkpoint EXCEPT ![r] = c],
             UNCHANGED <<proof, acted, outcome>>, orphans' \subseteq orphans,
             \A s \in Receipt : resume'[s] \in {None, resume[s]}
      PROVE  PathInv'
  <2>1. \A s \in Receipt : OnPath(checkpoint'[s], proof'[s], acted'[s])
    BY <1>2 DEF Types
  <2>2. \A s \in Receipt : Done(resume'[s], acted'[s])
    BY <1>2 DEF Done
  <2>3. \A o \in orphans' : /\ outcome'[o.r] # "none"
                            /\ o.program = proof'[o.r]
                            /\ Done(o.resume, acted'[o.r])
    BY <1>2
  <2> QED
    BY <2>1, <2>2, <2>3
<1>3. CASE AuthorityChanges \/ UNCHANGED vars
  BY <1>1, <1>3 DEF AuthorityChanges, vars, job
<1>4. CASE Crash
  <2>1. \A r \in Receipt : OnPath(checkpoint'[r], proof'[r], acted'[r])
    BY <1>4 DEF Crash
  <2>2. \A r \in Receipt : Done(resume'[r], acted'[r])
    BY <1>4 DEF Crash, Done
  <2>3. ASSUME NEW o \in orphans', o \notin orphans
        PROVE  /\ outcome'[o.r] # "none"
               /\ o.program = proof'[o.r]
               /\ Done(o.resume, acted'[o.r])
    <3>1. PICK r \in Receipt : /\ at[r] = "advancing"
                              /\ o = [r |-> r, program |-> program[r], resume |-> resume[r]]
      BY <1>4, <2>3 DEF Crash
    <3>2. o.r = r /\ o.program = program[r] /\ o.resume = resume[r]
      BY <3>1
    <3>3. program[r] = proof[r] /\ outcome[r] = "open" /\ Done(resume[r], acted[r])
      BY <3>1 DEF JobInv
    <3> QED
      BY <1>4, <3>2, <3>3 DEF Crash
  <2>4. \A o \in orphans : /\ outcome'[o.r] # "none"
                           /\ o.program = proof'[o.r]
                           /\ Done(o.resume, acted'[o.r])
    BY <1>4 DEF Crash
  <2> QED
    BY <2>1, <2>2, <2>3, <2>4
<1>5. ASSUME NEW r \in Receipt, Admit(r) PROVE PathInv'
  <2>1. checkpoint[r] = Empty
    BY <1>5 DEF Admit, JobInv
  <2> QED
    BY <1>5, <2>1 DEF Admit, Types, history, OnPath, Done, Empty
<1>6. ASSUME NEW r \in Receipt,
             Begin(r) \/ Enter(r) \/ Denied(r) \/ Advance(r) \/ Errs(r) \/ Commit(r)
      PROVE  PathInv'
  BY <1>1, <1>6
  DEF Begin, Enter, Denied, Advance, Errs, Commit, Fail, Leave, Types, history
<1>7. ASSUME NEW r \in Receipt, Work(r) PROVE PathInv'
  <2>1. PICK c \in Advanced(checkpoint[r], program[r], resume[r]) :
          checkpoint' = [checkpoint EXCEPT ![r] = c]
    BY <1>7 DEF Work
  <2>2. program[r] = proof[r]
    BY <1>7 DEF Work, JobInv
  <2>3. c \in Checkpoints /\ OnPath(c, proof[r], acted[r])
    BY <1>7, <2>1, <2>2, AdvancedType, AdvancedOnPath DEF Work, Types
  <2> QED
    BY <1>2, <1>7, <2>1, <2>3 DEF Work, history
<1>8. ASSUME NEW r \in Receipt, Act(r) PROVE PathInv'
  <2>1. asked[r] \in Node /\ acted' = [acted EXCEPT ![r] = Append(@, asked[r])]
    BY <1>8 DEF Act, JobInv
  <2>2. ASSUME NEW s \in Receipt
        PROVE  /\ OnPath(checkpoint[s], proof[s], acted'[s])
               /\ \A done \in Requests : Done(done, acted[s]) => Done(done, acted'[s])
    BY <2>1, OnPathGrows DEF Types
  <2>3. Done(resume'[r], acted'[r])
    <3>1. resume'[r] = [node |-> asked[r], act |-> Len(acted[r]) + 1]
      BY <1>8 DEF Act, Types
    <3>2. acted'[r] = Append(acted[r], asked[r]) /\ acted[r] \in Seq(Node)
      BY <2>1 DEF Types
    <3> QED
      BY <2>1, <3>1, <3>2, Appended DEF Done
  <2>4. \A s \in Receipt : s # r => resume'[s] = resume[s]
    BY <1>8 DEF Act, Types
  <2>5. UNCHANGED <<checkpoint, proof, orphans, outcome>>
    BY <1>8 DEF Act
  <2> QED
    BY <2>2, <2>3, <2>4, <2>5 DEF Types, OrphanSet
<1>9. ASSUME NEW r \in Receipt, Dropped(r) PROVE PathInv'
  <2>1. PICK c \in IF at[r] = "advancing" THEN Left(checkpoint[r], program[r], resume[r])
                   ELSE {checkpoint[r]} : checkpoint' = [checkpoint EXCEPT ![r] = c]
    BY <1>9 DEF Dropped
  <2>2. c \in Checkpoints /\ OnPath(c, proof[r], acted[r])
    <3>1. CASE at[r] = "advancing"
      <4>1. program[r] = proof[r]
        BY <3>1 DEF JobInv
      <4> QED
        BY <2>1, <3>1, <4>1, LeftType, LeftOnPath DEF Types
    <3>2. CASE at[r] # "advancing"
      BY <2>1, <3>2 DEF Types
    <3> QED
      BY <3>1, <3>2
  <2>3. \A s \in Receipt : resume'[s] \in {None, resume[s]}
    BY <1>9 DEF Dropped, Leave, Types
  <2> QED
    BY <1>2, <1>9, <2>1, <2>2, <2>3 DEF Dropped, history
<1>10. ASSUME NEW o \in orphans, OrphanWorks(o) \/ OrphanDies(o) PROVE PathInv'
  <2>1. o \in OrphanSet /\ o.program = proof[o.r] /\ Done(o.resume, acted[o.r])
    BY DEF Types
  <2>2. /\ o.r \in Receipt /\ o.program \in Revision \cup {None} /\ o.resume \in Requests
        /\ checkpoint[o.r] \in Checkpoints
        /\ acted[o.r] \in Seq(Node)
        /\ OnPath(checkpoint[o.r], o.program, acted[o.r])
    BY <2>1 DEF OrphanSet, Types
  <2>3. \E c \in Checkpoints : /\ OnPath(c, o.program, acted[o.r])
                              /\ checkpoint' = [checkpoint EXCEPT ![o.r] = c]
    <3>1. CASE OrphanWorks(o)
      BY <2>1, <2>2, <3>1, AdvancedType, AdvancedOnPath DEF OrphanWorks
    <3>2. CASE OrphanDies(o)
      BY <2>1, <2>2, <3>2, LeftType, LeftOnPath DEF OrphanDies
    <3> QED
      BY <1>10, <3>1, <3>2
  <2>4. /\ UNCHANGED <<proof, acted, outcome, resume>> /\ orphans' \subseteq orphans
    BY <1>10 DEF OrphanWorks, OrphanDies, job, history
  <2> QED
    BY <1>2, <2>1, <2>2, <2>3, <2>4
<1> QED
  BY <1>3, <1>4, <1>5, <1>6, <1>7, <1>8, <1>9, <1>10 DEF Next, JobStep

-----------------------------------------------------------------------------
(* No node is recorded twice, and a completed receipt commits the whole.   *)

\* The ranks by which a drawing is acyclic.
Ranks(d) ==
  {rank \in [d.nodes -> 1 .. Cardinality(d.nodes)] :
     \A n \in d.nodes : \A m \in d.next[n] \ {End} : rank[m] < rank[n]}

\* A checkpoint descends: along its path every rank of its drawing falls, down
\* to the node it is suspended at.
Descends(c, p) ==
  c.at # None =>
    /\ c.at \in Drawing[p].nodes \cup {End}
    /\ \A i \in 1 .. Len(c.path) : c.path[i].node \in Drawing[p].nodes
    /\ \A rank \in Ranks(Drawing[p]) : \A i \in 1 .. Len(c.path) :
         /\ \A j \in 1 .. Len(c.path) : i < j => rank[c.path[j].node] < rank[c.path[i].node]
         /\ c.at # End => rank[c.at] < rank[c.path[i].node]

DescendsInv == \A r \in Receipt : Descends(checkpoint[r], proof[r])

\* What was reported and what was committed is all that was recorded, and
\* nothing more will be.
DoneInv ==
  \A r \in Receipt :
    /\ at[r] = "completing" => checkpoint[r].at = End /\ out[r] = checkpoint[r].path
    /\ outcome[r] = "completed" => checkpoint[r].at = End /\ committed[r] = checkpoint[r].path

\* An accepted drawing is closed, and has a rank.
LEMMA SoundDrawing ==
  ASSUME NEW v \in SoundPrograms
  PROVE  /\ v \in Revision
         /\ Drawing[v].start \in Drawing[v].nodes
         /\ \A n \in Drawing[v].nodes : Drawing[v].next[n] \subseteq Drawing[v].nodes \cup {End}
         /\ Ranks(Drawing[v]) # {}
         /\ \A rank \in Ranks(Drawing[v]) : \A n \in Drawing[v].nodes : rank[n] \in Nat
<1>1. v \in Revision /\ Closed(Drawing[v]) /\ Acyclic(Drawing[v])
  BY DEF SoundPrograms, Sound
<1>2. Cardinality(Drawing[v].nodes) \in Nat
  BY <1>1, DrawingType, NodeAssumption, FS_Subset, FS_CardinalityType
<1>3. Ranks(Drawing[v]) # {}
  BY <1>1 DEF Acyclic, Ranks
<1>4. \A rank \in Ranks(Drawing[v]) : \A n \in Drawing[v].nodes : rank[n] \in Nat
  BY <1>2 DEF Ranks
<1> QED
  BY <1>1, <1>3, <1>4 DEF Closed

\* A child that does not refuse keeps a checkpoint descending.
LEMMA AdvancedDescends ==
  ASSUME NEW c \in Checkpoints, NEW v \in Revision \cup {None}, NEW done \in Requests,
         NEW h \in Seq(Node), ~ Refuses(c, v, done), NEW e \in Advanced(c, v, done),
         OnPath(c, v, h), Descends(c, v)
  PROVE  Descends(e, v)
<1>1. v \in SoundPrograms
  BY AdvancedType
<1>2. CASE done # None
  <2> DEFINE n == Len(c.path)
             d == Drawing[v]
  <2>1. done.node = c.at /\ c.at \in Node /\ c.at # None /\ c.at # End /\ done \in Acts
    BY <1>2, AdvancedType, NodeAssumption DEF Refuses
  <2>2. PICK m \in d.next[c.at] : e = [path |-> Append(c.path, done), at |-> m, whole |-> TRUE]
    BY <1>2 DEF Advanced
  <2>3. /\ n \in Nat /\ Len(e.path) = n + 1 /\ e.path[n + 1] = done
        /\ \A i \in 1 .. n : e.path[i] = c.path[i]
    <3>1. c.path \in Seq(Acts) /\ n \in Nat /\ e.path = Append(c.path, done)
      BY <2>2 DEF Checkpoints
    <3> QED
      BY <2>1, <3>1, Appended
  <2>4. /\ c.at \in d.nodes
        /\ \A i \in 1 .. n : c.path[i].node \in d.nodes
        /\ \A rank \in Ranks(d) : \A i \in 1 .. n :
             /\ \A j \in 1 .. n : i < j => rank[c.path[j].node] < rank[c.path[i].node]
             /\ rank[c.at] < rank[c.path[i].node]
    BY <2>1 DEF Descends
  <2>5. e.at = m /\ m \in d.nodes \cup {End}
    BY <1>1, <2>2, <2>4, SoundDrawing
  <2>6. \A i \in 1 .. n + 1 : e.path[i].node \in d.nodes
    <3> TAKE i \in 1 .. n + 1
    <3>1. i = n + 1 \/ i \in 1 .. n
      BY <2>3
    <3> QED
      BY <2>1, <2>3, <2>4, <3>1
  <2>7. ASSUME NEW rank \in Ranks(d), NEW i \in 1 .. n + 1
        PROVE  /\ \A j \in 1 .. n + 1 : i < j => rank[e.path[j].node] < rank[e.path[i].node]
               /\ e.at # End => rank[e.at] < rank[e.path[i].node]
    <3>1. e.at # End => rank[e.at] < rank[c.at]
      BY <2>2, <2>4, <2>5 DEF Ranks
    <3>2. CASE i = n + 1
      BY <2>1, <2>3, <3>1, <3>2
    <3>3. CASE i \in 1 .. n
      <4>1. e.path[i] = c.path[i] /\ rank[c.at] < rank[c.path[i].node]
        BY <2>3, <2>4, <3>3
      <4>2. e.at # End => rank[e.at] < rank[e.path[i].node]
        <5>1. rank[c.at] \in Nat /\ rank[c.path[i].node] \in Nat /\ (e.at # End => rank[e.at] \in Nat)
          BY <1>1, <2>4, <2>5, <3>3, SoundDrawing
        <5> QED
          BY <3>1, <4>1, <5>1
      <4>3. ASSUME NEW j \in 1 .. n + 1, i < j PROVE rank[e.path[j].node] < rank[e.path[i].node]
        <5>1. CASE j = n + 1
          BY <2>1, <2>3, <4>1, <5>1
        <5>2. CASE j \in 1 .. n
          BY <2>3, <2>4, <3>3, <4>1, <4>3, <5>2
        <5> QED
          BY <2>3, <5>1, <5>2
      <4> QED
        BY <4>2, <4>3
    <3> QED
      BY <2>3, <3>2, <3>3
  <2> QED
    BY <2>3, <2>5, <2>6, <2>7 DEF Descends
<1>3. CASE done = None /\ c.at = None
  <2>1. e.path = <<>> /\ e.at = Drawing[v].start
    BY <1>3 DEF Advanced, OnPath, Checkpoints
  <2> QED
    BY <1>1, <2>1, SoundDrawing DEF Descends
<1>4. CASE done = None /\ c.at # None
  BY <1>4 DEF Advanced
<1> QED
  BY <1>2, <1>3, <1>4

LEMMA LeftDescends ==
  ASSUME NEW c \in Checkpoints, NEW v \in Revision \cup {None}, NEW done \in Requests,
         NEW h \in Seq(Node), NEW e \in Left(c, v, done), OnPath(c, v, h), Descends(c, v)
  PROVE  Descends(e, v)
<1>1. CASE e = c
  BY <1>1
<1>2. CASE ~ Refuses(c, v, done) /\ e \in Advanced(c, v, done)
  BY <1>2, AdvancedDescends
<1>3. CASE ~ Refuses(c, v, done) /\ \E n \in Advanced(c, v, done) : e = [n EXCEPT !.whole = FALSE]
  <2>1. PICK n \in Advanced(c, v, done) : e = [n EXCEPT !.whole = FALSE]
    BY <1>3
  <2>2. n \in Checkpoints /\ Descends(n, v)
    BY <1>3, AdvancedType, AdvancedDescends
  <2>3. e.path = n.path /\ e.at = n.at
    BY <2>1, <2>2 DEF Checkpoints
  <2> QED
    BY <2>2, <2>3 DEF Descends
<1> QED
  BY <1>1, <1>2, <1>3 DEF Left

\* Whose rank falls never comes to a node again.
LEMMA NeverTwice ==
  ASSUME NEW c \in Checkpoints, NEW v \in SoundPrograms, c.at # None, Descends(c, v)
  PROVE  /\ \A i, j \in 1 .. Len(c.path) : i # j => c.path[i].node # c.path[j].node
         /\ c.at # End => \A i \in 1 .. Len(c.path) : c.path[i].node # c.at
<1>1. PICK rank \in Ranks(Drawing[v]) : TRUE
  BY SoundDrawing
<1>2. \A n \in Drawing[v].nodes : rank[n] \in Nat
  BY SoundDrawing
<1>3. /\ c.at # End => c.at \in Drawing[v].nodes
      /\ \A i \in 1 .. Len(c.path) : c.path[i].node \in Drawing[v].nodes
      /\ \A i \in 1 .. Len(c.path) :
           /\ \A j \in 1 .. Len(c.path) : i < j => rank[c.path[j].node] < rank[c.path[i].node]
           /\ c.at # End => rank[c.at] < rank[c.path[i].node]
  BY DEF Descends
<1>4. ASSUME NEW i \in 1 .. Len(c.path), NEW j \in 1 .. Len(c.path), i # j
      PROVE  c.path[i].node # c.path[j].node
  <2>1. c.path \in Seq(Acts)
    BY DEF Checkpoints
  <2>2. i < j \/ j < i
    BY <1>4, <2>1
  <2> QED
    BY <1>2, <1>3, <2>2
<1>5. ASSUME c.at # End, NEW i \in 1 .. Len(c.path) PROVE c.path[i].node # c.at
  BY <1>2, <1>3, <1>5
<1> QED
  BY <1>4, <1>5

\* A graph at its END stays as it is.
LEMMA EndStays ==
  ASSUME NEW c \in Checkpoints, NEW v \in Revision \cup {None}, NEW done \in Requests, c.at = End
  PROVE  /\ ~ Refuses(c, v, done) => Advanced(c, v, done) \subseteq {c}
         /\ Left(c, v, done) \subseteq {c}
<1>1. ASSUME ~ Refuses(c, v, done) PROVE Advanced(c, v, done) \subseteq {c}
  <2>1. done = None
    BY <1>1, NodeAssumption DEF Refuses, Requests
  <2> QED
    BY <2>1, EndAssumption DEF Advanced
<1> QED
  BY <1>1 DEF Left

\* Whatever happens, a checkpoint is what a child of its program, done with it
\* or killed, may leave; and a program is bound only to a receipt without one.
LEMMA CheckpointStep ==
  ASSUME Types, JobInv, PathInv, [Next]_vars, NEW r \in Receipt
  PROVE  /\ \E done \in Requests : checkpoint'[r] \in Left(checkpoint[r], proof[r], done)
         /\ proof'[r] # proof[r] => checkpoint'[r] = checkpoint[r] /\ checkpoint[r].at = None
<1> DEFINE Goal == /\ \E done \in Requests : checkpoint'[r] \in Left(checkpoint[r], proof[r], done)
                   /\ proof'[r] # proof[r] => checkpoint'[r] = checkpoint[r] /\ checkpoint[r].at = None
<1>1. ASSUME UNCHANGED <<checkpoint, proof>> PROVE Goal
  BY <1>1 DEF Left, Requests
<1>2. ASSUME NEW s \in Receipt, NEW done \in Requests, NEW c \in Left(checkpoint[s], proof[s], done),
             UNCHANGED proof, checkpoint' = [checkpoint EXCEPT ![s] = c]
      PROVE  Goal
  <2>1. CASE s = r
    BY <1>2, <2>1 DEF Types
  <2>2. CASE s # r
    BY <1>2, <2>2 DEF Types, Left, Requests
  <2> QED
    BY <2>1, <2>2
<1>3. CASE AuthorityChanges \/ Crash \/ UNCHANGED vars
  BY <1>1, <1>3 DEF AuthorityChanges, Crash, vars
<1>4. ASSUME NEW s \in Receipt,
             Begin(s) \/ Enter(s) \/ Denied(s) \/ Advance(s) \/ Act(s) \/ Errs(s) \/ Commit(s)
      PROVE  Goal
  BY <1>1, <1>4 DEF Begin, Enter, Denied, Advance, Act, Errs, Commit, Fail
<1>5. ASSUME NEW s \in Receipt, Admit(s) PROVE Goal
  <2>1. checkpoint[s] = Empty
    BY <1>5 DEF Admit, JobInv
  <2> QED
    BY <1>5, <2>1 DEF Admit, Types, Empty, Left, Requests
<1>6. ASSUME NEW s \in Receipt, Work(s) PROVE Goal
  <2>1. program[s] = proof[s]
    BY <1>6 DEF Work, JobInv
  <2>2. PICK c \in Advanced(checkpoint[s], proof[s], resume[s]) : checkpoint' = [checkpoint EXCEPT ![s] = c]
    BY <1>6, <2>1 DEF Work
  <2>3. c \in Left(checkpoint[s], proof[s], resume[s])
    BY <1>6, <2>1, <2>2 DEF Work, Left
  <2> QED
    BY <1>2, <1>6, <2>2, <2>3 DEF Work, Types
<1>7. ASSUME NEW s \in Receipt, Dropped(s) PROVE Goal
  <2>1. CASE at[s] = "advancing"
    BY <1>2, <1>7, <2>1 DEF Dropped, JobInv, Types
  <2>2. CASE at[s] # "advancing"
    BY <1>1, <1>7, <2>2 DEF Dropped, Types
  <2> QED
    BY <2>1, <2>2
<1>8. ASSUME NEW o \in orphans, OrphanWorks(o) \/ OrphanDies(o) PROVE Goal
  <2>1. o.r \in Receipt /\ o.resume \in Requests /\ o.program = proof[o.r] /\ UNCHANGED proof
    BY <1>8 DEF Types, OrphanSet, PathInv, OrphanWorks, OrphanDies
  <2>2. \E c \in Left(checkpoint[o.r], proof[o.r], o.resume) : checkpoint' = [checkpoint EXCEPT ![o.r] = c]
    BY <1>8, <2>1 DEF OrphanWorks, OrphanDies, Left
  <2> QED
    BY <1>2, <2>1, <2>2
<1> QED
  BY <1>3, <1>4, <1>5, <1>6, <1>7, <1>8 DEF Next, JobStep

\* What DescendsInv says survives every step.
LEMMA DescendsNext == Types /\ JobInv /\ PathInv /\ DescendsInv /\ [Next]_vars => DescendsInv'
<1> SUFFICES ASSUME Types, JobInv, PathInv, DescendsInv, [Next]_vars, NEW r \in Receipt
             PROVE  Descends(checkpoint'[r], proof'[r])
  BY DEF DescendsInv
<1>1. /\ checkpoint[r] \in Checkpoints /\ proof[r] \in Revision \cup {None} /\ acted[r] \in Seq(Node)
      /\ OnPath(checkpoint[r], proof[r], acted[r])
      /\ Descends(checkpoint[r], proof[r])
  BY DEF Types, PathInv, DescendsInv
<1>2. Descends(checkpoint'[r], proof[r])
  BY <1>1, CheckpointStep, LeftDescends
<1>3. CASE proof'[r] = proof[r]
  BY <1>2, <1>3
<1>4. CASE proof'[r] # proof[r]
  BY <1>4, CheckpointStep DEF Descends
<1> QED
  BY <1>3, <1>4

\* What DoneInv says survives every step.
LEMMA DoneNext == Types /\ JobInv /\ PathInv /\ DoneInv /\ [Next]_vars => DoneInv'
<1> SUFFICES ASSUME Types, JobInv, PathInv, DoneInv, [Next]_vars PROVE DoneInv'
  OBVIOUS
<1>1. \A r \in Receipt : checkpoint[r].at = End => checkpoint'[r] = checkpoint[r]
  <2> SUFFICES ASSUME NEW r \in Receipt, checkpoint[r].at = End PROVE checkpoint'[r] = checkpoint[r]
    OBVIOUS
  <2>1. checkpoint[r] \in Checkpoints /\ proof[r] \in Revision \cup {None}
    BY DEF Types
  <2> QED
    BY <2>1, CheckpointStep, EndStays
\* Only Work and Commit say that a graph is done.
<1>2. ASSUME \A r \in Receipt : at'[r] = "completing" => at[r] = "completing" /\ out'[r] = out[r],
             \A r \in Receipt : outcome'[r] = "completed" =>
                                outcome[r] = "completed" /\ committed'[r] = committed[r]
      PROVE  DoneInv'
  BY <1>1, <1>2 DEF DoneInv
<1>3. CASE AuthorityChanges \/ Crash \/ UNCHANGED vars
  BY <1>2, <1>3 DEF AuthorityChanges, Crash, vars, job
<1>4. ASSUME NEW r \in Receipt,
             Admit(r) \/ Begin(r) \/ Enter(r) \/ Denied(r) \/ Advance(r) \/ Act(r) \/ Errs(r) \/ Dropped(r)
      PROVE  DoneInv'
  BY <1>2, <1>4
  DEF Admit, Begin, Enter, Denied, Advance, Act, Errs, Dropped, Fail, Leave, Types, history
<1>5. ASSUME NEW r \in Receipt, Work(r) PROVE DoneInv'
  <2>1. PICK c \in Advanced(checkpoint[r], program[r], resume[r]) :
          /\ checkpoint' = [checkpoint EXCEPT ![r] = c]
          /\ IF c.at = End
             THEN /\ at'  = [at EXCEPT ![r] = "completing"]
                  /\ out' = [out EXCEPT ![r] = Report(c)]
             ELSE /\ at'  = [at EXCEPT ![r] = "acting"]
                  /\ UNCHANGED out
    BY <1>5 DEF Work
  <2>2. outcome[r] = "open" /\ UNCHANGED <<outcome, committed>>
    BY <1>5 DEF Work, JobInv
  <2>3. ASSUME NEW s \in Receipt, s # r
        PROVE  checkpoint'[s] = checkpoint[s] /\ at'[s] = at[s] /\ out'[s] = out[s]
    BY <2>1, <2>3 DEF Types
  <2>4. at'[r] = "completing" => checkpoint'[r].at = End /\ out'[r] = checkpoint'[r].path
    BY <2>1 DEF Types, Report
  <2> QED
    BY <2>2, <2>3, <2>4 DEF DoneInv
<1>6. ASSUME NEW r \in Receipt, Commit(r) PROVE DoneInv'
  BY <1>6 DEF Commit, Leave, DoneInv, Types
<1>7. ASSUME NEW o \in orphans, OrphanWorks(o) \/ OrphanDies(o) PROVE DoneInv'
  BY <1>2, <1>7 DEF OrphanWorks, OrphanDies, job
<1> QED
  BY <1>3, <1>4, <1>5, <1>6, <1>7 DEF Next, JobStep

-----------------------------------------------------------------------------
(* How often a node is acted at.                                           *)

Times(h, n)   == Cardinality({i \in DOMAIN h : h[i] = n})
Visited(c, n) == \E i \in 1 .. Len(c.path) : c.path[i].node = n

\* An act at n of receipt r is done, and is to be recorded by its next child.
Owed(r, n) ==
  at[r] \in {"ready", "advancing"} /\ resume[r] # None /\ resume[r].node = n

\* A node acted at more often than the receipt was hit is on record, or about
\* to be; it is not asked for, and a receipt nobody works on asks for nothing.
FreshInv ==
  \A r \in Receipt : \A n \in Node :
    /\ Times(acted[r], n) <= 1 + hits[r]
    /\ at[r] = "acting" /\ asked[r] = n => Times(acted[r], n) <= hits[r]
    /\ /\ outcome[r] \in {"none", "open"}
       /\ at[r] # "lost"
       /\ ~ Visited(checkpoint[r], n)
       /\ ~ Owed(r, n)
       => Times(acted[r], n) <= hits[r]

\* An act is counted at its own node.
LEMMA TimesAppend ==
  ASSUME NEW h \in Seq(Node), NEW m \in Node, NEW n
  PROVE  /\ Times(h, n) \in Nat
         /\ Times(Append(h, m), n) = IF m = n THEN Times(h, n) + 1 ELSE Times(h, n)
<1> DEFINE S == {i \in DOMAIN h : h[i] = n}
           T == {i \in DOMAIN Append(h, m) : Append(h, m)[i] = n}
<1>1. DOMAIN h = 1 .. Len(h) /\ Len(h) \in Nat
  OBVIOUS
<1>2. IsFiniteSet(S) /\ Cardinality(S) \in Nat
  <2>1. IsFiniteSet(1 .. Len(h))
    BY <1>1, FS_Interval
  <2> QED
    BY <1>1, <2>1, FS_Subset, FS_CardinalityType
<1>3. T = IF m = n THEN S \cup {Len(h) + 1} ELSE S
  OBVIOUS
<1>4. Len(h) + 1 \notin S
  BY <1>1
<1> QED
  BY <1>2, <1>3, <1>4, FS_AddElement DEF Times

\* What a child records is visited, and stays so.
LEMMA AdvancedVisited ==
  ASSUME NEW c \in Checkpoints, NEW v \in Revision \cup {None}, NEW done \in Requests,
         ~ Refuses(c, v, done), NEW e \in Advanced(c, v, done)
  PROVE  /\ \A n \in Node : Visited(c, n) => Visited(e, n)
         /\ done # None => Visited(e, done.node)
<1>1. CASE done # None
  <2>1. c.path \in Seq(Acts) /\ done \in Acts /\ e.path = Append(c.path, done)
    <3>1. PICK m \in Drawing[v].next[c.at] :
            e = [path |-> Append(c.path, done), at |-> m, whole |-> TRUE]
      BY <1>1 DEF Advanced
    <3> QED
      BY <1>1, <3>1, AdvancedType DEF Checkpoints
  <2>2. /\ Len(c.path) + 1 \in 1 .. Len(e.path)
        /\ e.path[Len(c.path) + 1] = done
        /\ \A i \in 1 .. Len(c.path) : i \in 1 .. Len(e.path) /\ e.path[i] = c.path[i]
    BY <2>1, Appended
  <2> QED
    BY <2>2 DEF Visited
<1>2. CASE done = None
  BY <1>2 DEF Advanced, Checkpoints, Visited
<1> QED
  BY <1>1, <1>2

\* And what was visited stays so, whatever happens.
LEMMA VisitedStays ==
  ASSUME Types, JobInv, PathInv, [Next]_vars, NEW r \in Receipt, NEW n \in Node, Visited(checkpoint[r], n)
  PROVE  Visited(checkpoint'[r], n)
<1>1. PICK done \in Requests : checkpoint'[r] \in Left(checkpoint[r], proof[r], done)
  BY CheckpointStep
<1>2. checkpoint[r] \in Checkpoints /\ proof[r] \in Revision \cup {None}
  BY DEF Types
<1>3. CASE checkpoint'[r] = checkpoint[r]
  BY <1>3
<1>4. CASE /\ ~ Refuses(checkpoint[r], proof[r], done)
           /\ checkpoint'[r] \in Advanced(checkpoint[r], proof[r], done)
  BY <1>2, <1>4, AdvancedVisited
<1>5. CASE /\ ~ Refuses(checkpoint[r], proof[r], done)
           /\ \E e \in Advanced(checkpoint[r], proof[r], done) : checkpoint'[r] = [e EXCEPT !.whole = FALSE]
  <2>1. PICK e \in Advanced(checkpoint[r], proof[r], done) : checkpoint'[r] = [e EXCEPT !.whole = FALSE]
    BY <1>5
  <2>2. e \in Checkpoints /\ Visited(e, n)
    BY <1>2, <1>5, AdvancedType, AdvancedVisited
  <2>3. checkpoint'[r].path = e.path
    BY <2>1, <2>2 DEF Checkpoints
  <2> QED
    BY <2>2, <2>3 DEF Visited
<1> QED
  BY <1>1, <1>3, <1>4, <1>5 DEF Left

\* What FreshInv says survives every step.
LEMMA FreshNext ==
  Types /\ JobInv /\ PathInv /\ DescendsInv /\ FreshInv /\ [Next]_vars => FreshInv'
<1> SUFFICES ASSUME Types, JobInv, PathInv, DescendsInv, FreshInv, [Next]_vars PROVE FreshInv'
  OBVIOUS
<1>1. \A r \in Receipt : \A n \in Node : Times(acted[r], n) \in Nat /\ hits[r] \in Nat
  BY TimesAppend DEF Types
\* A step that neither acts nor asks, and drops no request that a receipt
\* still worked on was to have recorded.
<1>2. ASSUME UNCHANGED <<acted, hits>>,
             \A r \in Receipt : at'[r] = "acting" => at[r] = "acting" /\ asked'[r] = asked[r],
             \A r \in Receipt : outcome'[r] \in {"none", "open"} /\ at'[r] # "lost" =>
               /\ outcome[r] \in {"none", "open"} /\ at[r] # "lost"
               /\ \A n \in Node : Owed(r, n) => Owed(r, n)'
      PROVE  FreshInv'
  BY <1>2, VisitedStays DEF FreshInv
<1>3. CASE AuthorityChanges \/ UNCHANGED vars
  BY <1>2, <1>3 DEF AuthorityChanges, vars, job, Owed
<1>4. CASE Crash
  <2> SUFFICES ASSUME NEW r \in Receipt, NEW n \in Node
               PROVE  /\ Times(acted[r], n) <= 1 + hits'[r]
                      /\ /\ outcome[r] \in {"none", "open"}
                         /\ ~ Visited(checkpoint[r], n)
                         => Times(acted[r], n) <= hits'[r]
    BY <1>4 DEF Crash, FreshInv
  <2>1. hits'[r] = IF at[r] = "none" THEN hits[r] ELSE hits[r] + 1
    BY <1>4 DEF Crash
  <2> QED
    BY <1>1, <2>1 DEF FreshInv, Owed
<1>5. ASSUME NEW r \in Receipt, Admit(r) PROVE FreshInv'
  <2>1. at[r] = "none"
    BY <1>5 DEF Admit, JobInv
  <2> QED
    BY <1>2, <1>5, <2>1 DEF Admit, Types, history, Owed
<1>6. ASSUME NEW r \in Receipt, Begin(r) \/ Enter(r) \/ Advance(r) PROVE FreshInv'
  BY <1>2, <1>6 DEF Begin, Enter, Advance, Types, history, Owed
<1>7. ASSUME NEW r \in Receipt, Denied(r) \/ Errs(r) \/ Commit(r) \/ Dropped(r) PROVE FreshInv'
  <2>1. \E phase \in {"none", "lost"} : Leave(r, phase) /\ (phase = "none" => outcome'[r] \notin {"none", "open"})
    BY <1>7 DEF Denied, Errs, Commit, Dropped, Fail, Types
  <2>2. UNCHANGED <<acted, hits>> /\ \A s \in Receipt : s # r => outcome'[s] = outcome[s]
    BY <1>7 DEF Denied, Errs, Commit, Dropped, Fail, Types, history
  <2> QED
    BY <1>2, <2>1, <2>2 DEF Leave, Types, Owed
<1>8. ASSUME NEW r \in Receipt, Work(r) PROVE FreshInv'
  <2>1. PICK c \in Advanced(checkpoint[r], program[r], resume[r]) :
          /\ checkpoint' = [checkpoint EXCEPT ![r] = c]
          /\ IF c.at = End
             THEN at'  = [at EXCEPT ![r] = "completing"] /\ UNCHANGED asked
             ELSE at' = [at EXCEPT ![r] = "acting"] /\ asked' = [asked EXCEPT ![r] = c.at]
    BY <1>8 DEF Work
  <2>2. /\ at[r] = "advancing" /\ outcome[r] = "open"
        /\ ~ Refuses(checkpoint[r], program[r], resume[r])
        /\ UNCHANGED <<acted, hits, outcome, resume>>
    BY <1>8 DEF Work, JobInv, history
  <2>3. /\ c \in Checkpoints /\ c.at # None
        /\ \A n \in Node : Visited(checkpoint[r], n) => Visited(c, n)
        /\ resume[r] # None => Visited(c, resume[r].node)
    <3>1. checkpoint[r] \in Checkpoints /\ program[r] \in Revision \cup {None} /\ resume[r] \in Requests
      BY DEF Types
    <3>2. c \in Checkpoints /\ c.at \in Node \cup {End}
      BY <2>2, <3>1, AdvancedType
    <3> QED
      BY <2>2, <3>1, <3>2, AdvancedVisited, NodeAssumption, EndAssumption
  <2>4. \A n \in Node : ~ Visited(c, n) => Times(acted[r], n) <= hits[r]
    BY <2>2, <2>3 DEF FreshInv, Owed
  <2>5. ASSUME c.at # End PROVE ~ Visited(c, c.at)
    <3>1. program[r] = proof[r] /\ OnPath(checkpoint[r], proof[r], acted[r])
      BY <2>2 DEF JobInv, PathInv
    <3>2. Descends(c, program[r])
      BY <2>2, <3>1, AdvancedDescends DEF Types, DescendsInv
    <3>3. program[r] \in SoundPrograms
      BY <2>2, AdvancedType DEF Types
    <3> QED
      BY <2>3, <2>5, <3>2, <3>3, NeverTwice DEF Visited
  <2>6. ASSUME NEW s \in Receipt, s # r
        PROVE  at'[s] = at[s] /\ asked'[s] = asked[s] /\ checkpoint'[s] = checkpoint[s]
    BY <2>1, <2>6 DEF Types
  <2>7. /\ checkpoint'[r] = c
        /\ at'[r] \in {"acting", "completing"}
        /\ at'[r] = "acting" => c.at # End /\ asked'[r] = c.at
    BY <2>1 DEF Types
  <2> SUFFICES ASSUME NEW s \in Receipt, NEW n \in Node
               PROVE  /\ Times(acted[s], n) <= 1 + hits[s]
                      /\ at'[s] = "acting" /\ asked'[s] = n => Times(acted[s], n) <= hits[s]
                      /\ /\ outcome[s] \in {"none", "open"}
                         /\ at'[s] # "lost"
                         /\ ~ Visited(checkpoint'[s], n)
                         /\ ~ Owed(s, n)'
                         => Times(acted[s], n) <= hits[s]
    BY <2>2 DEF FreshInv
  <2>8. CASE s = r
    BY <2>4, <2>5, <2>7, <2>8 DEF FreshInv
  <2>9. CASE s # r
    BY <2>2, <2>6, <2>9 DEF FreshInv, Owed
  <2> QED
    BY <2>8, <2>9
<1>9. ASSUME NEW r \in Receipt, Act(r) PROVE FreshInv'
  <2>1. /\ at[r] = "acting" /\ asked[r] \in Node
        /\ acted' = [acted EXCEPT ![r] = Append(@, asked[r])]
        /\ at' = [at EXCEPT ![r] = "ready"]
        /\ resume' = [resume EXCEPT ![r] = [node |-> asked[r], act |-> Len(acted[r]) + 1]]
        /\ asked' = [asked EXCEPT ![r] = None]
        /\ UNCHANGED <<hits, outcome, checkpoint>>
    BY <1>9 DEF Act, JobInv
  <2>2. \A n \in Node : Times(acted'[r], n) =
          IF asked[r] = n THEN Times(acted[r], n) + 1 ELSE Times(acted[r], n)
    BY <2>1, TimesAppend DEF Types
  <2>3. /\ resume'[r] # None /\ resume'[r].node = asked[r] /\ at'[r] = "ready"
    <3>1. resume'[r] = [node |-> asked[r], act |-> Len(acted[r]) + 1]
      BY <2>1 DEF Types
    <3>2. Len(acted[r]) + 1 \in Nat \ {0}
      BY DEF Types
    <3> QED
      BY <2>1, <3>1, <3>2, NoneAssumption DEF Types
  <2>4. ASSUME NEW n \in Node, n = asked[r] PROVE Owed(r, n)'
    BY <2>3, <2>4 DEF Owed
  <2> SUFFICES ASSUME NEW s \in Receipt, NEW n \in Node
               PROVE  /\ Times(acted'[s], n) <= 1 + hits[s]
                      /\ at'[s] = "acting" /\ asked'[s] = n => Times(acted'[s], n) <= hits[s]
                      /\ /\ outcome[s] \in {"none", "open"}
                         /\ at'[s] # "lost"
                         /\ ~ Visited(checkpoint[s], n)
                         /\ ~ Owed(s, n)'
                         => Times(acted'[s], n) <= hits[s]
    BY <2>1 DEF FreshInv
  <2>5. CASE s = r /\ asked[r] = n
    <3>1. Times(acted[r], n) <= hits[r]
      BY <2>1, <2>5 DEF FreshInv
    <3> QED
      BY <1>1, <2>2, <2>3, <2>4, <2>5, <3>1
  <2>6. CASE s = r /\ asked[r] # n
    BY <2>1, <2>2, <2>3, <2>6 DEF FreshInv, Owed
  <2>7. CASE s # r
    <3>1. at'[s] = at[s] /\ acted'[s] = acted[s] /\ resume'[s] = resume[s] /\ asked'[s] = asked[s]
      BY <2>1, <2>7 DEF Types
    <3> QED
      BY <2>1, <3>1 DEF FreshInv, Owed
  <2> QED
    BY <2>5, <2>6, <2>7
<1>10. ASSUME NEW o \in orphans, OrphanWorks(o) \/ OrphanDies(o) PROVE FreshInv'
  BY <1>2, <1>10 DEF OrphanWorks, OrphanDies, job, history, Owed
<1> QED
  BY <1>3, <1>4, <1>5, <1>6, <1>7, <1>8, <1>9, <1>10 DEF Next, JobStep

-----------------------------------------------------------------------------
(* The theorems.                                                           *)

Inv ==
  /\ Types /\ Permits /\ JobInv /\ LateInv /\ PathInv
  /\ DescendsInv /\ DoneInv /\ FreshInv

\* The invariant is inductive.
LEMMA Inductive == Spec => []Inv
<1>1. Init => Permits
  <2>1. Init => Holding = {}
    BY DEF Init, Holding
  <2> QED
    BY <2>1, FS_EmptySet, WorkersAssumption DEF Permits
<1>2. Init => Inv
  <2>1. Init => DescendsInv /\ DoneInv
    BY DEF Init, DescendsInv, DoneInv, Descends, Empty
  <2>2. Init => FreshInv
    <3> SUFFICES ASSUME Init PROVE FreshInv
      OBVIOUS
    <3>1. \A r \in Receipt : acted[r] = <<>> /\ at[r] = "none" /\ hits[r] = 0
      BY DEF Init
    <3>2. \A n \in Node : Times(<<>>, n) = 0
      <4>1. \A n \in Node : {i \in DOMAIN <<>> : <<>>[i] = n} = {}
        OBVIOUS
      <4> QED
        BY <4>1, FS_EmptySet DEF Times
    <3> QED
      BY <3>1, <3>2 DEF FreshInv
  <2> QED
    BY <1>1, <2>1, <2>2, TypesInit, RestInit DEF Inv
<1>3. Inv /\ [Next]_vars => Inv'
  BY TypesNext, PermitsNext, JobNext, LateNext, PathNext, DescendsNext, DoneNext, FreshNext DEF Inv
<1> QED
  BY <1>2, <1>3, PTL DEF Spec

\* Every variable keeps its type, and never more than Workers graphs hold a
\* permit of ServiceRegistry::workers.
THEOREM ContinuityTypeCorrect == Spec => []TypeOK
<1>1. Inv => TypeOK
  BY TypeParts DEF Inv
<1> QED
  BY <1>1, Inductive, PTL

\* A receipt acts at most once after its authority is gone: invoke authorizes
\* before each child, so only the act already asked for can follow.
THEOREM ActsAreTimely == Spec => []LateActs
<1>1. Inv => LateActs
  <2> SUFFICES ASSUME Inv, NEW r \in Receipt PROVE late[r] <= 1
    BY DEF LateActs
  <2>1. late[r] = 0 \/ late[r] = 1
    BY DEF Inv, LateInv
  <2> QED
    BY <2>1
<1> QED
  BY <1>1, Inductive, PTL

\* The checkpoint of a receipt is at all times a run of the very program the
\* receipt was admitted under, made of acts done for it, whatever crashes and
\* whichever children outlive their Antenna.
THEOREM CheckpointsAreOfTheProgram == Spec => []PathOfProgram
<1>1. Inv => PathOfProgram
  BY DEF Inv, PathInv, OnPath, PathOfProgram
<1> QED
  BY <1>1, Inductive, PTL

\* A completed receipt has committed the acts of the whole run of its graph,
\* to its END, under as many keys.
THEOREM TheWholeRunIsCommitted == Spec => []NothingProposedIsLost
<1>1. Inv => NothingProposedIsLost
  <2> SUFFICES ASSUME Inv, NEW r \in Receipt, outcome[r] = "completed"
               PROVE  /\ checkpoint[r].at = End
                      /\ committed[r] = checkpoint[r].path
                      /\ \A i, j \in DOMAIN committed[r] :
                           i # j => committed[r][i].node # committed[r][j].node
    BY DEF NothingProposedIsLost
  <2>1. checkpoint[r].at = End /\ committed[r] = checkpoint[r].path
    BY DEF Inv, DoneInv
  <2>2. checkpoint[r] \in Checkpoints /\ Descends(checkpoint[r], proof[r])
    BY DEF Inv, Types, DescendsInv
  <2>3. proof[r] \in SoundPrograms
    BY <2>1, EndAssumption DEF Inv, PathInv, OnPath
  <2>4. \A i, j \in 1 .. Len(committed[r]) : i # j => committed[r][i].node # committed[r][j].node
    BY <2>1, <2>2, <2>3, EndAssumption, NeverTwice
  <2>5. DOMAIN committed[r] = 1 .. Len(committed[r])
    BY <2>1, <2>2 DEF Checkpoints
  <2> QED
    BY <2>1, <2>4, <2>5
<1> QED
  BY <1>1, Inductive, PTL

\* A node is acted at once, and once more at most for each crash that found a
\* job of the receipt.
THEOREM RepeatsNeedCrashes == Spec => []RepeatsAreInterrupted
<1>1. Inv => RepeatsAreInterrupted
  BY DEF Inv, FreshInv, Times, RepeatsAreInterrupted
<1> QED
  BY <1>1, Inductive, PTL
=============================================================================
