------------------------- MODULE StudyTrialsProofs -------------------------
(***************************************************************************)
(* Theorems about a study and its trials, for every value of the constants.*)
(* ComparisonStudy: the types, CompleteMeansAll and ArmsApart, for any     *)
(* number of arms, questions, repetitions, strikes and edits.              *)
(* Transcripts: for streams of any length, the replay has every call that  *)
(* came back, because it holds the open ones pending under their own ids;  *)
(* the two readings of the evidence agree, because they read that replay;  *)
(* and the outcome and the tokens of a session that has ended are those    *)
(* the agent lived and spent, because its stream told them while it ran.   *)
(***************************************************************************)
EXTENDS ComparisonStudy, Transcripts, FunctionTheorems, FiniteSetTheorems, SequenceTheorems,
        WellFoundedInduction, TLAPS

-----------------------------------------------------------------------------
(* ComparisonStudy: the phases of a study and the trials it counts. *)

\* The trials run() counts: completed, on a corpus that stayed as it was.
CountedTrials == {t \in Trials : Counted(record[t])}

Statuses == {"absent", "running", "timeout", "completed", "provider_error", "failed"}

TypeOK ==
    /\ perQuestion \in BOOLEAN
    /\ phase \in {"preparing", "failed", "prepared", "running", "done", "dead"}
    /\ source \in Nat /\ edits \in Nat /\ before \in Nat
    /\ tree \in [Roots -> Nat] /\ binary \in [Systems -> Nat]
    /\ made \subseteq Systems
    /\ pending \subseteq Trials /\ skipped \subseteq Trials
    /\ current \in Trials \cup {NoTrial}
    /\ record = [t \in Trials |-> record[t]]
    /\ \A t \in Trials : /\ record[t].status \in Statuses
                        /\ record[t].unchanged \in BOOLEAN
                        /\ record[t].searched \in Nat
                        /\ DOMAIN record[t] = {"status", "unchanged", "searched", "outcome"}
    /\ failures \in [Systems -> Nat] /\ completed \in Nat /\ aborted \in BOOLEAN
    /\ status \in {"absent", "complete", "incomplete"}
    /\ writers \in [Roots -> SUBSET Systems]

\* run() takes every trial of the plan once: one that is still to come, under
\* way or passed over is in one of these places only, and has not been counted.
OncePerTrial ==
    /\ pending \cap skipped = {} /\ current \notin pending \cup skipped
    /\ \A t \in pending \cup skipped : ~Counted(record[t])
    /\ current \in Trials => ~Counted(record[current])

\* The phases that run() has no part in.
Before == {"preparing", "failed", "prepared"}

\* Nothing is taken, and nothing recorded, before run() has begun.
NothingYet ==
    phase \in Before =>
        /\ pending = {} /\ skipped = {} /\ current = NoTrial
        /\ \A t \in Trials : record[t] = NoRecord

\* The counter of run() is the number of trials it counted.
Tally == completed = Cardinality(CountedTrials)

\* status.json is the last thing run() writes.
StatusLast == status # "absent" => phase = "done"

Inv == TypeOK /\ OncePerTrial /\ NothingYet /\ Tally /\ StatusLast /\ CompleteMeansAll

-----------------------------------------------------------------------------
(* Facts about the plan and the tally. *)

\* The plan is finite: every arm, question and repetition gives one trial.
LEMMA TrialsFinite == IsFiniteSet(Trials)
<1> DEFINE Product == Systems \X (Tasks \X (1 .. Repetitions))
           f == [p \in Product |-> [system |-> p[1], task |-> p[2][1], repetition |-> p[2][2]]]
<1>1. IsFiniteSet(1 .. Repetitions)
  BY StudyAssumption, FS_Interval
<1>2. IsFiniteSet(Product)
  BY <1>1, StudyAssumption, FS_Product
<1>3. f \in Surjection(Product, Trials)
  <2>1. f \in [Product -> Trials]
    BY DEF Trials
  <2>2. ASSUME NEW t \in Trials PROVE \E p \in Product : f[p] = t
    <3>1. <<t.system, <<t.task, t.repetition>>>> \in Product
      BY DEF Trials
    <3>2. f[<<t.system, <<t.task, t.repetition>>>>] = t
      BY <3>1 DEF Trials
    <3> QED BY <3>1, <3>2
  <2> HIDE DEF f
  <2> QED BY <2>1, <2>2 DEF Surjection
<1> QED
  <2> HIDE DEF f, Product
  <2> QED BY <1>2, <1>3, FS_Surjection

\* No trial of the plan looks like the absence of one.
LEMMA NoTrialApart == NoTrial \notin Trials
  BY StudyAssumption DEF NoTrial, Trials

LEMMA TallyFinite == IsFiniteSet(CountedTrials) /\ Cardinality(CountedTrials) \in Nat
  BY TrialsFinite, FS_Subset, FS_CardinalityType DEF CountedTrials

\* As many counted as planned: then every planned trial is counted.
LEMMA AllCounted ==
    ASSUME Cardinality(CountedTrials) = Cardinality(Trials)
    PROVE  \A t \in Trials : Counted(record[t])
<1>1. CountedTrials \in SUBSET Trials
  BY DEF CountedTrials
<1>2. CountedTrials = Trials
  BY <1>1, TrialsFinite, FS_Subset
<1> QED BY <1>2 DEF CountedTrials

\* A trial whose record now counts adds one to the tally if it was not counted before.
LEMMA OneMore ==
    ASSUME Tally, NEW t \in Trials, ~Counted(record[t]),
           \A u \in Trials \ {t} : record'[u] = record[u],
           completed' = IF Counted(record'[t]) THEN completed + 1 ELSE completed
    PROVE  Tally'
<1>1. t \notin CountedTrials
  BY DEF CountedTrials
<1>2. CASE Counted(record'[t])
  <2>1. CountedTrials' = CountedTrials \cup {t}
    BY <1>2 DEF CountedTrials, Counted
  <2>2. Cardinality(CountedTrials') = Cardinality(CountedTrials) + 1
    BY <1>1, <2>1, TallyFinite, FS_AddElement
  <2> QED BY <1>2, <2>2 DEF Tally
<1>3. CASE ~Counted(record'[t])
  <2>1. CountedTrials' = CountedTrials
    BY <1>1, <1>3 DEF CountedTrials, Counted
  <2> QED BY <1>3, <2>1 DEF Tally
<1> QED BY <1>2, <1>3

\* A step that leaves what is counted and the counter alone leaves the tally alone.
LEMMA SameTally ==
    ASSUME Tally, completed' = completed,
           \A t \in Trials : Counted(record'[t]) <=> Counted(record[t])
    PROVE  Tally'
<1>1. CountedTrials' = CountedTrials
  BY DEF CountedTrials, Counted
<1> QED BY <1>1 DEF Tally

-----------------------------------------------------------------------------
(* Types. *)

LEMMA TypeInit == Init => TypeOK
<1> SUFFICES ASSUME Init PROVE TypeOK
  OBVIOUS
<1>1. /\ record = [t \in Trials |-> record[t]]
      /\ \A t \in Trials : /\ record[t].status \in Statuses
                           /\ record[t].unchanged \in BOOLEAN
                           /\ record[t].searched \in Nat
                           /\ DOMAIN record[t] = {"status", "unchanged", "searched", "outcome"}
  BY DEF Init, NoRecord, Statuses
<1>2. writers \in [Roots -> SUBSET Systems]
  BY DEF Init
<1> QED BY <1>1, <1>2 DEF Init, TypeOK

LEMMA EndTrialType ==
    ASSUME TypeOK, NEW o \in Outcomes, EndTrial(o)
    PROVE  TypeOK'
<1> DEFINE r == [status |-> StatusOf(current, o),
                 unchanged |-> Fingerprint(CorpusRoot(current)) = before,
                 searched |-> before, outcome |-> o]
<1>1. current \in Trials
  BY DEF EndTrial, TypeOK
<1>2. r.status \in Statuses /\ r.unchanged \in BOOLEAN /\ r.searched \in Nat
      /\ DOMAIN r = {"status", "unchanged", "searched", "outcome"}
  <2>1. StatusOf(current, o) \in Statuses
    BY Zenon DEF StatusOf, Statuses
  <2> QED BY <2>1 DEF TypeOK
<1>3. record' = [record EXCEPT ![current] = r]
      /\ failures' = [failures EXCEPT ![current.system] = Failures(current.system, r)]
      /\ completed' = (IF Counted(r) THEN completed + 1 ELSE completed)
      /\ aborted' = (aborted \/ r.status = "provider_error")
  BY Zenon DEF EndTrial
<1> HIDE DEF r
<1>4. failures' \in [Systems -> Nat]
  <2>1. current.system \in Systems
    BY <1>1 DEF Trials
  <2>2. Failures(current.system, r) \in Nat
    BY <2>1 DEF Failures, TypeOK
  <2> QED BY <1>3, <2>1, <2>2 DEF TypeOK
<1>5. completed' \in Nat /\ aborted' \in BOOLEAN
  BY <1>3 DEF TypeOK
<1>6. /\ record' = [t \in Trials |-> record'[t]]
      /\ \A t \in Trials : /\ record'[t].status \in Statuses
                           /\ record'[t].unchanged \in BOOLEAN
                           /\ record'[t].searched \in Nat
                           /\ DOMAIN record'[t] = {"status", "unchanged", "searched", "outcome"}
  <2>1. \A t \in Trials : record'[t] = IF t = current THEN r ELSE record[t]
    BY <1>1, <1>3 DEF TypeOK
  <2>2. DOMAIN record' = Trials
    BY <1>3 DEF TypeOK
  <2> QED BY <1>2, <1>3, <2>1, <2>2 DEF TypeOK
<1> QED BY <1>4, <1>5, <1>6 DEF TypeOK, EndTrial, preparation, history

LEMMA StartTrialType ==
    ASSUME TypeOK, NEW t \in Trials, StartTrial(t)
    PROVE  TypeOK'
<1>1. Fingerprint(CorpusRoot(t)) \in Nat
  BY DEF Fingerprint, CorpusRoot, TypeOK, Roots, Trials
<1>2. /\ record' = [u \in Trials |-> record'[u]]
      /\ \A u \in Trials : /\ record'[u].status \in Statuses
                           /\ record'[u].unchanged \in BOOLEAN
                           /\ record'[u].searched \in Nat
                           /\ DOMAIN record'[u] = {"status", "unchanged", "searched", "outcome"}
  BY <1>1 DEF StartTrial, TypeOK, ServerRoot, Statuses
<1> QED BY <1>1, <1>2 DEF TypeOK, StartTrial, preparation, counts, history

LEMMA TypeStep == TypeOK /\ [Next]_vars => TypeOK'
<1> SUFFICES ASSUME TypeOK, [Next]_vars PROVE TypeOK'
  OBVIOUS
<1>1. CASE SourceChanges
  BY <1>1, StudyAssumption DEF TypeOK, SourceChanges, counts, history
<1>2. CASE Prepared
  BY <1>2 DEF TypeOK, Prepared, preparation, counts, history
<1>3. CASE EditBetween
  BY <1>3 DEF TypeOK, EditBetween, preparation, counts, history
<1>4. CASE StartRun
  BY <1>4 DEF TypeOK, StartRun, preparation, counts, history
<1>5. CASE EndRun
  BY <1>5 DEF TypeOK, EndRun, preparation, counts, history
<1>6. CASE RunnerDies
  BY <1>6 DEF TypeOK, RunnerDies, preparation, counts, history
<1>7. ASSUME NEW s \in Systems, PrepareSystem(s) PROVE TypeOK'
  BY <1>7 DEF TypeOK, PrepareSystem, counts, history
<1>8. ASSUME NEW s \in Systems, PreparationFails(s) PROVE TypeOK'
  BY <1>8 DEF TypeOK, PreparationFails, preparation, counts, history
<1>9. ASSUME NEW t \in Trials, Skip(t) PROVE TypeOK'
  BY <1>9 DEF TypeOK, Skip, preparation, counts
<1>10. ASSUME NEW t \in Trials, StartTrial(t) PROVE TypeOK'
  BY <1>10, StartTrialType
<1>11. ASSUME NEW inPlace \in BOOLEAN, TrialWrites(inPlace) PROVE TypeOK'
  <2>1. current.system \in Systems
    BY <1>11 DEF TypeOK, TrialWrites, Trials
  <2>2. /\ edits' \in Nat
        /\ tree' \in [Roots -> Nat]
        /\ writers' \in [Roots -> SUBSET Systems]
    BY <1>11, <2>1 DEF TypeOK, TrialWrites
  <2> QED BY <1>11, <2>2 DEF TypeOK, TrialWrites, preparation, counts
<1>12. ASSUME NEW o \in Outcomes, EndTrial(o) PROVE TypeOK'
  BY <1>12, EndTrialType
<1>13. CASE UNCHANGED vars
  BY <1>13 DEF TypeOK, vars, preparation, counts, history
<1> QED
  BY <1>1, <1>2, <1>3, <1>4, <1>5, <1>6, <1>7, <1>8, <1>9, <1>10, <1>11, <1>12, <1>13 DEF Next

\* Types, for any arms, questions, repetitions and edits.
THEOREM TypeCorrect == Spec => []TypeOK
  BY TypeInit, TypeStep, PTL DEF Spec

-----------------------------------------------------------------------------
(* Arms apart. *)

\* A trial writes in its own arm's trees only, sealed or not sealed.
LEMMA OwnRootOnly ==
    ASSUME NEW inPlace, NEW r \in Reached(CorpusRoot(current), inPlace)
    PROVE  r[1] = current.system
  BY DEF Reached, CorpusRoot

\* The corpora of two arms are never changed by each other's trials: prepare()
\* gives every arm its own, and sealing keeps the shared inodes of linked trees
\* from being written in place.
THEOREM ArmsApartAlways == Spec => []ArmsApart
<1>1. Init => ArmsApart
  BY DEF Init, ArmsApart
<1>2. ArmsApart /\ [Next]_vars => ArmsApart'
  <2> SUFFICES ASSUME ArmsApart, [Next]_vars PROVE ArmsApart'
    OBVIOUS
  <2>1. ASSUME NEW inPlace \in BOOLEAN, TrialWrites(inPlace) PROVE ArmsApart'
    <3>1. \A r \in Roots : writers'[r] =
            IF r \in Reached(CorpusRoot(current), inPlace)
            THEN writers[r] \cup {current.system} ELSE writers[r]
      BY <2>1 DEF TrialWrites
    <3> QED BY <3>1, OwnRootOnly DEF ArmsApart
  <2>2. CASE UNCHANGED writers
    BY <2>2 DEF ArmsApart
  <2>3. (\E inPlace \in BOOLEAN : TrialWrites(inPlace)) \/ UNCHANGED writers
    BY Zenon DEF Next, vars, history, SourceChanges, Prepared, EditBetween, StartRun, EndRun,
             RunnerDies, PrepareSystem, PreparationFails, Skip, StartTrial, EndTrial
  <2> QED BY <2>1, <2>2, <2>3
<1> QED BY <1>1, <1>2, PTL DEF Spec

-----------------------------------------------------------------------------
(* Complete means all. *)

LEMMA InvInit == Init => Inv
<1> SUFFICES ASSUME Init PROVE Inv
  OBVIOUS
<1>1. CountedTrials = {}
  BY DEF Init, CountedTrials, Counted, NoRecord
<1>2. Tally
  BY <1>1, FS_EmptySet DEF Init, Tally
<1>3. OncePerTrial
  BY NoTrialApart DEF Init, OncePerTrial
<1>4. NothingYet /\ StatusLast /\ CompleteMeansAll
  BY DEF Init, NothingYet, StatusLast, CompleteMeansAll
<1> QED BY <1>2, <1>3, <1>4, TypeInit DEF Inv

\* What a step that neither takes nor ends a trial preserves.
LEMMA NoTrialMoves ==
    ASSUME Inv, TypeOK', phase' \in Before => phase \in Before, phase = "done" => phase' = "done",
           UNCHANGED <<pending, current, record, completed, status, skipped>>
    PROVE  Inv'
<1>1. Tally'
  BY SameTally DEF Inv
<1>2. OncePerTrial' /\ CompleteMeansAll' /\ NothingYet' /\ StatusLast'
  BY DEF Inv, OncePerTrial, CompleteMeansAll, NothingYet, StatusLast
<1> QED BY <1>1, <1>2 DEF Inv

LEMMA StartRunKeeps ==
    ASSUME Inv, TypeOK', StartRun
    PROVE  Inv'
<1>1. Tally'
  BY SameTally DEF Inv, StartRun, counts
<1>2. OncePerTrial'
  BY NoTrialApart DEF Inv, OncePerTrial, NothingYet, StartRun, Before, NoRecord, Counted, history
<1> QED BY <1>1, <1>2 DEF Inv, NothingYet, StatusLast, CompleteMeansAll, StartRun, Before, history

LEMMA SkipKeeps ==
    ASSUME Inv, TypeOK', NEW t \in Trials, Skip(t)
    PROVE  Inv'
<1>1. Tally'
  BY SameTally DEF Inv, Skip, counts
<1>2. OncePerTrial'
  BY NoTrialApart DEF Inv, TypeOK, OncePerTrial, Skip
<1> QED BY <1>1, <1>2 DEF Inv, NothingYet, StatusLast, CompleteMeansAll, Skip, Before

LEMMA StartTrialKeeps ==
    ASSUME Inv, TypeOK', NEW t \in Trials, StartTrial(t)
    PROVE  Inv'
<1>1. /\ \A u \in Trials \ {t} : record'[u] = record[u]
      /\ record'[t].status = "running"
  BY DEF Inv, TypeOK, StartTrial
<1>2. ~Counted(record[t]) /\ ~Counted(record'[t])
  BY <1>1 DEF Inv, OncePerTrial, StartTrial, Counted
<1>3. Tally'
  BY <1>1, <1>2, SameTally DEF Inv, StartTrial, counts
<1>4. OncePerTrial'
  BY <1>1, <1>2, NoTrialApart DEF Inv, TypeOK, OncePerTrial, StartTrial, history, Counted
<1> QED BY <1>3, <1>4 DEF Inv, NothingYet, StatusLast, CompleteMeansAll, StartTrial, Before, history

LEMMA EndTrialKeeps ==
    ASSUME Inv, TypeOK', NEW o \in Outcomes, EndTrial(o)
    PROVE  Inv'
<1>1. current \in Trials /\ ~Counted(record[current])
  BY DEF Inv, TypeOK, OncePerTrial, EndTrial
<1>2. /\ \A u \in Trials \ {current} : record'[u] = record[u]
      /\ completed' = IF Counted(record'[current]) THEN completed + 1 ELSE completed
  BY <1>1, Zenon DEF Inv, TypeOK, EndTrial
<1>3. Tally'
  BY <1>1, <1>2, OneMore DEF Inv
<1>4. OncePerTrial'
  BY SMTT(30), <1>1, <1>2, NoTrialApart DEF Inv, TypeOK, OncePerTrial, EndTrial, history, Counted
<1> QED BY <1>3, <1>4 DEF Inv, NothingYet, StatusLast, CompleteMeansAll, EndTrial, Before, history

\* The last write of run(): everything planned was counted, so nothing was skipped.
LEMMA EndRunKeeps ==
    ASSUME Inv, TypeOK', EndRun
    PROVE  Inv'
<1>1. Tally'
  BY SameTally DEF Inv, EndRun, counts
<1>2. OncePerTrial' /\ NothingYet' /\ StatusLast'
  BY DEF Inv, OncePerTrial, NothingYet, StatusLast, EndRun, history, Before
<1>3. CompleteMeansAll'
  <2> SUFFICES ASSUME status' = "complete"
               PROVE  skipped = {} /\ \A t \in Trials : Counted(record[t])
    BY DEF CompleteMeansAll, EndRun, history, Counted
  <2>1. \A t \in Trials : Counted(record[t])
    BY AllCounted DEF EndRun, Inv, Tally
  <2>2. skipped = {}
    BY <2>1 DEF Inv, TypeOK, OncePerTrial
  <2> QED BY <2>1, <2>2
<1> QED BY <1>1, <1>2, <1>3 DEF Inv

LEMMA InvStep == Inv /\ [Next]_vars => Inv'
<1> SUFFICES ASSUME Inv, [Next]_vars PROVE Inv'
  OBVIOUS
<1>0. TypeOK'
  BY TypeStep DEF Inv
<1>1. CASE SourceChanges
  BY <1>0, <1>1, NoTrialMoves DEF SourceChanges, counts, history
<1>2. CASE Prepared
  BY <1>0, <1>2, NoTrialMoves DEF Prepared, counts, history, Before
<1>3. CASE EditBetween
  BY <1>0, <1>3, NoTrialMoves DEF EditBetween, counts, history
<1>4. CASE StartRun
  BY <1>0, <1>4, StartRunKeeps
<1>5. CASE EndRun
  BY <1>0, <1>5, EndRunKeeps
<1>6. CASE RunnerDies
  BY <1>0, <1>6, NoTrialMoves DEF RunnerDies, counts, history, Before
<1>7. ASSUME NEW s \in Systems, PrepareSystem(s) PROVE Inv'
  BY <1>0, <1>7, NoTrialMoves DEF PrepareSystem, counts, history
<1>8. ASSUME NEW s \in Systems, PreparationFails(s) PROVE Inv'
  BY <1>0, <1>8, NoTrialMoves DEF PreparationFails, counts, history, Before
<1>9. ASSUME NEW t \in Trials, Skip(t) PROVE Inv'
  BY <1>0, <1>9, SkipKeeps
<1>10. ASSUME NEW t \in Trials, StartTrial(t) PROVE Inv'
  BY <1>0, <1>10, StartTrialKeeps
<1>11. ASSUME NEW inPlace \in BOOLEAN, TrialWrites(inPlace) PROVE Inv'
  BY <1>0, <1>11, NoTrialMoves DEF TrialWrites, counts
<1>12. ASSUME NEW o \in Outcomes, EndTrial(o) PROVE Inv'
  BY <1>0, <1>12, EndTrialKeeps
<1>13. CASE UNCHANGED vars
  BY <1>0, <1>13, NoTrialMoves DEF vars, preparation, counts, history
<1> QED
  BY <1>1, <1>2, <1>3, <1>4, <1>5, <1>6, <1>7, <1>8, <1>9, <1>10, <1>11, <1>12, <1>13 DEF Next

\* A status.json that says complete speaks for every planned trial, however many
\* arms were stopped, corpora edited and trials run: the counter run() compares
\* with the plan counts distinct trials.
THEOREM CompleteMeansAllAlways == Spec => []CompleteMeansAll
<1>1. Inv => CompleteMeansAll
  BY DEF Inv
<1> QED BY InvInit, InvStep, <1>1, PTL DEF Spec

-----------------------------------------------------------------------------
(* Numbers, finite sets and recursion. *)

\* A set of numbers that is not empty has a least one.
LEMMA Least ==
    ASSUME NEW T, T \subseteq Nat, T # {}
    PROVE  \E x \in T : \A y \in T : x <= y
<1> DEFINE Less == {p \in Nat \X Nat : p[1] < p[2]}
<1>1. IsWellFoundedOn(Less, Nat)
  BY NatLessThanWellFounded DEF OpToRel
<1> HIDE DEF Less
<1>2. PICK x \in T : \A y \in T : ~ (<<y, x>> \in Less)
  BY <1>1, WFMin
<1>3. ASSUME NEW y \in T PROVE x <= y
  <2>1. x \in Nat /\ y \in Nat
    OBVIOUS
  <2>2. CASE y < x
    <3>1. <<y, x>> \in Less
      BY <2>1, <2>2 DEF Less
    <3> QED BY <1>2, <3>1
  <2> QED BY <2>1, <2>2
<1> QED BY <1>3

\* One that has 0, and with every number the next one, has them all.
LEMMA Induction ==
    ASSUME NEW T, T \subseteq Nat, 0 \in T, \A n \in T : n + 1 \in T
    PROVE  T = Nat
<1> SUFFICES ASSUME T # Nat PROVE FALSE
  OBVIOUS
<1>1. PICK x \in Nat \ T : \A y \in Nat \ T : x <= y
  BY Least
<1>2. x # 0 /\ x - 1 \in Nat
  BY <1>1
<1>3. x - 1 \in T
  BY <1>1, <1>2
<1> QED BY <1>1, <1>2, <1>3

\* Min of a set of numbers that is not empty is its least element.
LEMMA MinIn ==
    ASSUME NEW T, T \subseteq Nat, T # {}
    PROVE  Min(T) \in T /\ \A y \in T : Min(T) <= y
  BY Least DEF Min

\* A finite set of numbers that is not empty has a greatest one.
LEMMA MaxIn ==
    ASSUME NEW T, T \subseteq Nat, T # {}, IsFiniteSet(T)
    PROVE  Max(T) \in T /\ \A y \in T : y <= Max(T)
<1> DEFINE Highest(U) == \E x \in U : \A y \in U : y <= x
           A == {n \in Nat : \A U \in SUBSET T : Cardinality(U) = n + 1 => Highest(U)}
<1>1. \A U \in SUBSET T : IsFiniteSet(U) /\ Cardinality(U) \in Nat
  BY FS_Subset, FS_CardinalityType
<1>2. 0 \in A
  <2>1. ASSUME NEW U \in SUBSET T, Cardinality(U) = 1 PROVE Highest(U)
    <3>1. PICK x : U = {x}
      BY <1>1, <2>1, FS_Singleton
    <3> QED BY <3>1
  <2> QED BY <2>1
<1>3. ASSUME NEW n \in A PROVE n + 1 \in A
  <2>1. ASSUME NEW U \in SUBSET T, Cardinality(U) = (n + 1) + 1 PROVE Highest(U)
    <3>1. n \in Nat
      OBVIOUS
    <3>2. PICK x : x \in U
      <4>1. U # {}
        BY <2>1, <3>1, FS_EmptySet
      <4> QED BY <4>1
    <3>3. Cardinality(U \ {x}) = n + 1
      BY <1>1, <2>1, <3>1, <3>2, FS_RemoveElement
    <3>4. PICK z \in U \ {x} : \A y \in U \ {x} : y <= z
      BY <3>3
    <3>5. x \in Nat /\ z \in Nat
      BY <3>2
    <3>6. CASE x <= z
      BY <3>4, <3>6
    <3>7. CASE z < x
      <4>1. \A y \in U : y <= x
        BY <3>4, <3>5, <3>7
      <4> QED BY <3>2, <4>1
    <3> QED BY <3>5, <3>6, <3>7
  <2> HIDE DEF Highest
  <2> QED BY <2>1
<1>4. A = Nat
  <2>1. A \subseteq Nat
    OBVIOUS
  <2> HIDE DEF A
  <2> QED BY <1>2, <1>3, <2>1, Induction
<1>5. Highest(T)
  <2>1. Cardinality(T) \in Nat \ {0}
    BY <1>1, FS_EmptySet
  <2>2. Cardinality(T) - 1 \in A
    BY <1>4, <2>1
  <2>3. Cardinality(T) = (Cardinality(T) - 1) + 1
    BY <2>1
  <2> HIDE DEF Highest
  <2> QED BY <2>2, <2>3
<1> HIDE DEF A
<1> QED BY <1>5 DEF Max

\* A finite function has finitely many values.
LEMMA ImageFinite ==
    ASSUME NEW f, IsFiniteSet(DOMAIN f)
    PROVE  IsFiniteSet({f[x] : x \in DOMAIN f})
<1> DEFINE T == {f[x] : x \in DOMAIN f}
           g == [x \in DOMAIN f |-> f[x]]
<1>1. g \in Surjection(DOMAIN f, T)
  BY Fun_IsSurj
<1> QED
  BY <1>1, FS_Surjection

Follows(f, N, base, step) == f[0] = base /\ \A n \in 1 .. N : f[n] = step[n][f[n - 1]]

\* A recursion on numbers has a solution.
LEMMA Recursion ==
    ASSUME NEW N \in Nat, NEW A, NEW base \in A, NEW step \in [1 .. N -> [A -> A]]
    PROVE  \E f \in [0 .. N -> A] : Follows(f, N, base, step)
<1> DEFINE Solves(f, m) == f[0] = base /\ \A n \in 1 .. m : f[n] = step[n][f[n - 1]]
           Solvable == {m \in Nat : m <= N => \E f \in [0 .. m -> A] : Solves(f, m)}
<1>1. 0 \in Solvable
  <2> DEFINE g == [n \in 0 .. 0 |-> base]
  <2>1. g \in [0 .. 0 -> A] /\ Solves(g, 0)
    OBVIOUS
  <2> HIDE DEF g, Solves
  <2> QED BY <2>1
<1>2. ASSUME NEW m \in Solvable PROVE m + 1 \in Solvable
  <2> SUFFICES ASSUME m + 1 <= N PROVE \E f \in [0 .. m + 1 -> A] : Solves(f, m + 1)
    OBVIOUS
  <2>1. PICK g \in [0 .. m -> A] : Solves(g, m)
    OBVIOUS
  <2> DEFINE h == [n \in 0 .. m + 1 |-> IF n <= m THEN g[n] ELSE step[m + 1][g[m]]]
  <2>2. step[m + 1][g[m]] \in A
    OBVIOUS
  <2>3. h \in [0 .. m + 1 -> A]
    BY <2>2
  <2>4. h[m + 1] = step[m + 1][g[m]] /\ \A n \in 0 .. m : h[n] = g[n]
    OBVIOUS
  <2> HIDE DEF h
  <2>5. Solves(h, m + 1)
    BY <2>1, <2>4
  <2> HIDE DEF Solves
  <2> QED BY <2>3, <2>5
<1>3. Solvable = Nat
  <2>1. Solvable \subseteq Nat
    OBVIOUS
  <2> HIDE DEF Solvable
  <2> QED BY <1>1, <1>2, <2>1, Induction
<1> QED BY <1>3 DEF Follows

\* The sequence of a finite set has its elements.
LEMMA ElementsOf ==
    ASSUME NEW S, IsFiniteSet(S)
    PROVE  ToSet(SetToSeq(S)) = S /\ SetToSeq(S) \in Seq(S)
<1> DEFINE n == Cardinality(S)
           s == SetToSeq(S)
<1>1. n \in Nat /\ ExistsBijection(1 .. n, S)
  BY FS_CardinalityType
<1>2. \E f \in [1 .. n -> S] : IsInjective(f)
  <2>1. PICK f : f \in Bijection(1 .. n, S)
    BY <1>1 DEF ExistsBijection
  <2>2. f \in [1 .. n -> S] /\ \A a, b \in 1 .. n : f[a] = f[b] => a = b
    BY <2>1 DEF Bijection, Injection, IsInjective
  <2> QED BY <2>2 DEF IsInjective
<1>3. s \in [1 .. n -> S] /\ IsInjective(s)
  BY <1>2 DEF SetToSeq
<1> HIDE DEF s
<1>4. s \in Injection(1 .. n, S)
  BY <1>3 DEF Injection, IsInjective
<1>5. Cardinality(1 .. n) = n
  BY <1>1, FS_Interval
<1>6. s \in Surjection(1 .. n, S)
  BY <1>4, <1>5, FS_Injection
<1>7. \A y \in S : \E i \in 1 .. n : s[i] = y
  BY <1>6 DEF Surjection
<1>8. DOMAIN s = 1 .. n /\ \A i \in 1 .. n : s[i] \in S
  BY <1>3
<1>9. ToSet(s) = S
  BY <1>7, <1>8 DEF ToSet
<1>10. s \in Seq(S)
  <2> HIDE DEF n
  <2> QED BY <1>1, <1>3
<1> QED BY <1>9, <1>10 DEF s

-----------------------------------------------------------------------------
(* Transcripts: the elements picked from a sequence. *)

\* What is picked of the first n elements.
Picking(s, at, f) ==
    /\ f[0] = <<>>
    /\ \A n \in 1 .. Len(s) : f[n] = IF n \in at THEN Append(f[n - 1], s[n]) ELSE f[n - 1]

\* The elements are picked one by one.
LEMMA PickedReads ==
    ASSUME NEW S, NEW s \in Seq(S), NEW at
    PROVE  \E f \in [0 .. Len(s) -> Seq(S)] : Picking(s, at, f) /\ Picked(s, at) = f[Len(s)]
<1> DEFINE N == Len(s)
           Body(g, n) == IF n = 0 THEN <<>>
                         ELSE IF n \in at THEN Append(g[n - 1], s[n]) ELSE g[n - 1]
           step == [n \in 1 .. N |-> [r \in Seq(S) |-> IF n \in at THEN Append(r, s[n]) ELSE r]]
<1>1. N \in Nat /\ \A n \in 1 .. N : s[n] \in S
  OBVIOUS
<1>2. <<>> \in Seq(S)
  OBVIOUS
<1>3. step \in [1 .. N -> [Seq(S) -> Seq(S)]]
  <2> SUFFICES ASSUME NEW n \in 1 .. N, NEW r \in Seq(S)
               PROVE  (IF n \in at THEN Append(r, s[n]) ELSE r) \in Seq(S)
    OBVIOUS
  <2> QED BY <1>1
<1>4. PICK f \in [0 .. N -> Seq(S)] : f[0] = <<>> /\ \A n \in 1 .. N : f[n] = step[n][f[n - 1]]
  <2> HIDE DEF N, step
  <2>1. \E f \in [0 .. N -> Seq(S)] : Follows(f, N, <<>>, step)
    BY <1>1, <1>2, <1>3, Recursion
  <2> QED BY <2>1 DEF Follows
<1>5. ASSUME NEW n \in 1 .. N
      PROVE  f[n] = IF n \in at THEN Append(f[n - 1], s[n]) ELSE f[n - 1]
  <2>1. n - 1 \in 0 .. N
    BY <1>1
  <2>2. f[n - 1] \in Seq(S)
    BY <1>4, <2>1
  <2>3. step[n][f[n - 1]] = IF n \in at THEN Append(f[n - 1], s[n]) ELSE f[n - 1]
    BY <2>2
  <2> HIDE DEF step, N
  <2> QED BY <1>4, <2>3
<1>6. ASSUME NEW n \in 0 .. N PROVE f[n] = Body(f, n)
  <2>1. n # 0 => n \in 1 .. N
    BY <1>1
  <2> HIDE DEF N, step
  <2> QED BY <1>4, <1>5, <2>1
<1>7. f = [n \in 0 .. N |-> Body(f, n)]
  <2> HIDE DEF Body
  <2> QED BY <1>4, <1>6
<1> DEFINE J == CHOOSE g : g = [n \in 0 .. N |-> Body(g, n)]
<1>8. J = [n \in 0 .. N |-> Body(J, n)]
  <2> HIDE DEF Body, N
  <2> QED BY <1>7
<1>9. Picked(s, at) = J[N]
  BY DEF Picked
<1> HIDE DEF J
<1>10. ASSUME NEW n \in 0 .. N PROVE J[n] = Body(J, n)
  <2> HIDE DEF Body, N
  <2> QED BY <1>8
<1> DEFINE T == {n \in Nat : n <= N => J[n] = f[n]}
<1>11. 0 \in T
  <2>1. 0 \in 0 .. N
    BY <1>1
  <2>2. J[0] = <<>>
    BY <1>10, <2>1
  <2> QED BY <1>4, <2>2
<1>12. ASSUME NEW n \in T PROVE n + 1 \in T
  <2> SUFFICES ASSUME n + 1 <= N PROVE J[n + 1] = f[n + 1]
    OBVIOUS
  <2>1. n \in Nat /\ n + 1 \in 1 .. N /\ n + 1 \in 0 .. N /\ (n + 1) - 1 = n /\ n + 1 # 0
    BY <1>1
  <2>2. J[n] = f[n]
    BY <1>1, <2>1
  <2>3. J[n + 1] = IF n + 1 \in at THEN Append(J[n], s[n + 1]) ELSE J[n]
    BY <1>10, <2>1
  <2>4. f[n + 1] = IF n + 1 \in at THEN Append(f[n], s[n + 1]) ELSE f[n]
    BY <1>5, <2>1
  <2> HIDE DEF T
  <2> QED BY <2>2, <2>3, <2>4
<1>13. T = Nat
  <2>1. T \subseteq Nat
    OBVIOUS
  <2> HIDE DEF T
  <2> QED BY <1>11, <1>12, <2>1, Induction
<1>14. J[N] = f[N]
  <2>1. N \in T /\ N <= N
    BY <1>1, <1>13
  <2> QED BY <2>1
<1> QED BY <1>4, <1>5, <1>9, <1>14 DEF Picking

\* What holds of nothing and is kept by every element holds of what is picked.
LEMMA PickedInd ==
    ASSUME NEW S, NEW s \in Seq(S), NEW at, NEW f \in [0 .. Len(s) -> Seq(S)], Picking(s, at, f),
           NEW G, <<0, <<>>>> \in G,
           \A n \in 1 .. Len(s) : <<n - 1, f[n - 1]>> \in G => <<n, f[n]>> \in G
    PROVE  <<Len(s), f[Len(s)]>> \in G
<1> DEFINE N == Len(s)
           T == {n \in Nat : n <= N => <<n, f[n]>> \in G}
<1>1. N \in Nat /\ N <= N
  OBVIOUS
<1>2. 0 \in T
  BY DEF Picking
<1>3. ASSUME NEW n \in T PROVE n + 1 \in T
  <2> SUFFICES ASSUME n + 1 <= N PROVE <<n + 1, f[n + 1]>> \in G
    OBVIOUS
  <2>1. n \in Nat /\ n + 1 \in 1 .. N /\ (n + 1) - 1 = n /\ n <= N
    BY <1>1
  <2>2. <<n, f[n]>> \in G
    BY <2>1
  <2> HIDE DEF T
  <2> QED BY <2>1, <2>2
<1>4. T = Nat
  <2>1. T \subseteq Nat
    OBVIOUS
  <2> HIDE DEF T
  <2> QED BY <1>2, <1>3, <2>1, Induction
<1>5. N \in T
  BY <1>1, <1>4
<1> QED BY <1>1, <1>5

LEMMA PickedIn ==
    ASSUME NEW S, NEW s \in Seq(S), NEW at
    PROVE  Picked(s, at) \in Seq(S)
<1>1. PICK f \in [0 .. Len(s) -> Seq(S)] : Picking(s, at, f) /\ Picked(s, at) = f[Len(s)]
  BY PickedReads
<1>2. Len(s) \in 0 .. Len(s)
  OBVIOUS
<1> QED BY <1>1, <1>2
\* The positions that do not lie in a sequence do not matter; one more element
\* is picked last, if it is.
LEMMA PickedAppend ==
    ASSUME NEW S, NEW s \in Seq(S), NEW e \in S, NEW at, NEW bt,
           \A i \in DOMAIN s : i \in at <=> i \in bt
    PROVE  Picked(Append(s, e), bt) = IF Len(s) + 1 \in bt THEN Append(Picked(s, at), e) ELSE Picked(s, at)
<1> DEFINE N == Len(s)
           t == Append(s, e)
<1>1. /\ N \in Nat /\ t \in Seq(S) /\ Len(t) = N + 1 /\ t[N + 1] = e
      /\ \A n \in 1 .. N : t[n] = s[n] /\ n \in DOMAIN s
  OBVIOUS
<1>2. PICK f \in [0 .. N -> Seq(S)] : Picking(s, at, f) /\ Picked(s, at) = f[N]
  BY PickedReads
<1> HIDE DEF t
<1>3. PICK g \in [0 .. Len(t) -> Seq(S)] : Picking(t, bt, g) /\ Picked(t, bt) = g[Len(t)]
  BY <1>1, PickedReads
<1>4. /\ g[0] = <<>> /\ f[0] = <<>>
      /\ \A n \in 1 .. N : f[n] = IF n \in at THEN Append(f[n - 1], s[n]) ELSE f[n - 1]
      /\ \A n \in 1 .. N + 1 : g[n] = IF n \in bt THEN Append(g[n - 1], t[n]) ELSE g[n - 1]
  BY <1>1, <1>2, <1>3 DEF Picking
<1> DEFINE T == {n \in Nat : n <= N => g[n] = f[n]}
<1>5. 0 \in T
  BY <1>4
<1>6. ASSUME NEW n \in T PROVE n + 1 \in T
  <2> SUFFICES ASSUME n + 1 <= N PROVE g[n + 1] = f[n + 1]
    OBVIOUS
  <2> DEFINE m == n + 1
  <2>1. n \in Nat /\ m \in 1 .. N /\ m \in 1 .. N + 1 /\ m - 1 = n /\ n <= N
    BY <1>1
  <2>2. g[n] = f[n]
    BY <2>1
  <2> HIDE DEF T, m, N
  <2>3. t[m] = s[m] /\ (m \in at <=> m \in bt)
    BY <1>1, <2>1
  <2>4. /\ f[m] = IF m \in at THEN Append(f[n], s[m]) ELSE f[n]
        /\ g[m] = IF m \in bt THEN Append(g[n], t[m]) ELSE g[n]
    BY <1>4, <2>1
  <2>5. g[m] = f[m]
    BY <2>2, <2>3, <2>4
  <2> QED BY <2>5 DEF m
<1>7. T = Nat
  <2>1. T \subseteq Nat
    OBVIOUS
  <2> HIDE DEF T
  <2> QED BY <1>5, <1>6, <2>1, Induction
<1>8. g[N] = f[N]
  <2>1. N \in T /\ N <= N
    BY <1>1, <1>7
  <2> QED BY <2>1
<1> HIDE DEF T
<1>9. g[N + 1] = IF N + 1 \in bt THEN Append(g[N], e) ELSE g[N]
  <2>1. N + 1 \in 1 .. N + 1 /\ (N + 1) - 1 = N
    BY <1>1
  <2> QED BY <1>1, <1>4, <2>1
<1>10. Picked(t, bt) = g[N + 1]
  BY <1>1, <1>3
<1> QED BY <1>2, <1>8, <1>9, <1>10 DEF t

\* What is picked are the elements at the positions.
LEMMA PickedElements ==
    ASSUME NEW S, NEW s \in Seq(S), NEW at
    PROVE  ToSet(Picked(s, at)) = {s[i] : i \in at \cap DOMAIN s}
<1> DEFINE N == Len(s)
           To(n) == {s[i] : i \in at \cap (1 .. n)}
           G == {p \in Nat \X Seq(S) : ToSet(p[2]) = To(p[1])}
<1>1. PICK f \in [0 .. Len(s) -> Seq(S)] : Picking(s, at, f) /\ Picked(s, at) = f[Len(s)]
  BY PickedReads
<1>2. N \in Nat /\ DOMAIN s = 1 .. N
  OBVIOUS
<1>3. <<0, <<>>>> \in G
  <2>1. ToSet(<<>>) = {} /\ To(0) = {}
    BY DEF ToSet
  <2> QED BY <2>1
<1>4. ASSUME NEW n \in 1 .. N, <<n - 1, f[n - 1]>> \in G PROVE <<n, f[n]>> \in G
  <2> DEFINE m == n - 1
             r == f[m]
  <2>1. m \in Nat /\ n \in Nat /\ n \in 0 .. N /\ m \in 0 .. N /\ 1 .. n = (1 .. m) \cup {n}
    BY <1>2
  <2>2. r \in Seq(S) /\ f[n] \in Seq(S) /\ s[n] \in S
    <3>1. s[n] \in S
      BY <1>2
    <3>2. f[m] \in Seq(S) /\ f[n] \in Seq(S)
      <4> HIDE DEF m, N, To, G
      <4>1. m \in 0 .. Len(s) /\ n \in 0 .. Len(s)
        BY <2>1 DEF N
      <4> QED BY <1>1, <4>1
    <3> QED BY <3>1, <3>2
  <2>3. ToSet(r) = To(m)
    BY <1>4
  <2>4. f[n] = IF n \in at THEN Append(r, s[n]) ELSE r
    BY <1>1 DEF Picking
  <2>5. To(n) = IF n \in at THEN To(m) \cup {s[n]} ELSE To(m)
    <3> HIDE DEF m
    <3> QED BY <2>1
  <2> HIDE DEF r, m
  <2>6. ToSet(Append(r, s[n])) = ToSet(r) \cup {s[n]}
    <3>1. /\ DOMAIN Append(r, s[n]) = DOMAIN r \cup {Len(r) + 1}
          /\ Append(r, s[n])[Len(r) + 1] = s[n]
          /\ \A i \in DOMAIN r : Append(r, s[n])[i] = r[i]
      BY <2>2
    <3> QED BY <3>1 DEF ToSet
  <2> HIDE DEF To
  <2>7. ToSet(f[n]) = To(n)
    BY <2>3, <2>4, <2>5, <2>6
  <2> QED BY <2>1, <2>2, <2>7
<1> HIDE DEF G, N, To
<1>5. <<Len(s), f[Len(s)]>> \in G
  BY <1>1, <1>3, <1>4, PickedInd DEF N
<1> QED BY <1>1, <1>2, <1>5 DEF G, N, To

\* Of no position nothing is picked, of one that element.
LEMMA PickedOne ==
    ASSUME NEW S, NEW s \in Seq(S), NEW at
    PROVE  /\ at \cap DOMAIN s = {} => Picked(s, at) = <<>>
           /\ \A k : at \cap DOMAIN s = {k} => Picked(s, at) = <<s[k]>>
<1> DEFINE N == Len(s)
<1>1. PICK f \in [0 .. Len(s) -> Seq(S)] : Picking(s, at, f) /\ Picked(s, at) = f[Len(s)]
  BY PickedReads
<1>2. N \in Nat /\ DOMAIN s = 1 .. N
  OBVIOUS
<1>3. ASSUME at \cap DOMAIN s = {} PROVE Picked(s, at) = <<>>
  <2> DEFINE G == Nat \X {<<>>}
  <2>1. ASSUME NEW n \in 1 .. N, <<n - 1, f[n - 1]>> \in G PROVE <<n, f[n]>> \in G
    <3>1. n \notin at /\ n \in Nat
      BY <1>2, <1>3
    <3>2. f[n] = f[n - 1]
      BY <1>1, <3>1 DEF Picking
    <3> QED BY <2>1, <3>1, <3>2
  <2>2. <<0, <<>>>> \in G
    OBVIOUS
  <2> HIDE DEF G
  <2>3. <<Len(s), f[Len(s)]>> \in G
    BY <1>1, <2>1, <2>2, PickedInd
  <2> QED BY <1>1, <2>3 DEF G
<1>4. ASSUME NEW k, at \cap DOMAIN s = {k} PROVE Picked(s, at) = <<s[k]>>
  <2> DEFINE G == {p \in Nat \X {<<>>, <<s[k]>>} : p[2] = IF p[1] < k THEN <<>> ELSE <<s[k]>>}
  <2>1. k \in 1 .. N /\ k \in at
    BY <1>2, <1>4
  <2>2. ASSUME NEW n \in 1 .. N, <<n - 1, f[n - 1]>> \in G PROVE <<n, f[n]>> \in G
    <3>1. n \in Nat /\ k \in Nat /\ (n \in at <=> n = k)
      BY <1>2, <1>4, <2>1
    <3>2. f[n - 1] = IF n - 1 < k THEN <<>> ELSE <<s[k]>>
      BY <2>2
    <3>3. f[n] = IF n = k THEN Append(f[n - 1], s[n]) ELSE f[n - 1]
      BY <1>1, <3>1 DEF Picking
    <3>4. Append(<<>>, s[k]) = <<s[k]>>
      OBVIOUS
    <3>5. f[n] = IF n < k THEN <<>> ELSE <<s[k]>>
      <4>1. CASE n = k
        <5>1. n - 1 < k /\ ~(n < k)
          BY <3>1, <4>1
        <5> QED BY <3>2, <3>3, <3>4, <4>1, <5>1
      <4>2. CASE n # k
        <5>1. n - 1 < k <=> n < k
          BY <3>1, <4>2
        <5> QED BY <3>2, <3>3, <4>2, <5>1
      <4> QED BY <4>1, <4>2
    <3> QED BY <3>1, <3>5
  <2>3. <<0, <<>>>> \in G
    BY <2>1
  <2> HIDE DEF G
  <2>4. <<Len(s), f[Len(s)]>> \in G
    BY <1>1, <2>2, <2>3, PickedInd
  <2>5. ~(N < k)
    BY <1>2, <2>1
  <2> QED BY <1>1, <2>4, <2>5 DEF G
<1> QED BY <1>3, <1>4

\* A sequence, whatever its elements are.
IsList(s) == s \in Seq(ToSet(s))

LEMMA NoList == IsList(<<>>)
  BY DEF IsList

\* One more element is the last one.
LEMMA Lists ==
    ASSUME NEW s, IsList(s), NEW e
    PROVE  LET t == Append(s, e) IN
           /\ IsList(t) /\ Len(s) \in Nat /\ Len(t) = Len(s) + 1 /\ t[Len(s) + 1] = e /\ t # <<>>
           /\ DOMAIN s = 1 .. Len(s) /\ DOMAIN t = DOMAIN s \cup {Len(s) + 1}
           /\ \A i \in DOMAIN s : t[i] = s[i] /\ i # Len(s) + 1
           /\ ToSet(t) = ToSet(s) \cup {e} /\ ToSet(t) # {} /\ Last(t) = e
           /\ s \o <<e>> = t /\ s \o <<>> = s
<1> DEFINE t == Append(s, e)
<1> DEFINE S == ToSet(s) \cup {e}
<1> HIDE DEF S
<1>1. s \in Seq(S) /\ e \in S
  <2>1. s \in Seq(ToSet(s)) /\ ToSet(s) \subseteq S /\ e \in S
    BY DEF IsList, S
  <2> QED BY <2>1
<1>2. /\ t \in Seq(S) /\ Len(s) \in Nat /\ Len(t) = Len(s) + 1 /\ t[Len(s) + 1] = e
      /\ DOMAIN s = 1 .. Len(s) /\ DOMAIN t = 1 .. Len(t)
      /\ \A i \in DOMAIN s : t[i] = s[i]
  BY <1>1
<1>3. DOMAIN t = DOMAIN s \cup {Len(s) + 1} /\ \A i \in DOMAIN s : i # Len(s) + 1
  BY <1>2
<1>4. ToSet(t) = ToSet(s) \cup {e}
  BY <1>2, <1>3 DEF ToSet
<1>5. s \o <<e>> = t /\ s \o <<>> = s
  BY <1>1
<1>6. IsList(t)
  BY <1>2, <1>4 DEF IsList, S
<1>7. t # <<>> /\ Last(t) = e
  BY <1>2 DEF Last
<1> QED BY <1>2, <1>3, <1>4, <1>5, <1>6, <1>7

\* The events of a type, and the items of a kind, grow with the stream.
LEMMA OfTypeAppend ==
    ASSUME NEW s, IsList(s), NEW e, NEW ty
    PROVE  /\ OfType(Append(s, e), ty) = IF e.type = ty THEN Append(OfType(s, ty), e) ELSE OfType(s, ty)
           /\ IsList(OfType(s, ty)) /\ ToSet(OfType(s, ty)) = {x \in ToSet(s) : x.type = ty}
<1> DEFINE S == ToSet(s) \cup {e}
           t == Append(s, e)
           at == {i \in DOMAIN s : s[i].type = ty}
           bt == {i \in DOMAIN t : t[i].type = ty}
<1> HIDE DEF S
<1>1. s \in Seq(S) /\ e \in S
  <2>1. s \in Seq(ToSet(s)) /\ ToSet(s) \subseteq S /\ e \in S
    BY DEF IsList, S
  <2> QED BY <2>1
<1>2. /\ DOMAIN t = DOMAIN s \cup {Len(s) + 1} /\ t[Len(s) + 1] = e
      /\ \A i \in DOMAIN s : t[i] = s[i] /\ i # Len(s) + 1
  BY Lists
<1> HIDE DEF t
<1>3. (\A i \in DOMAIN s : i \in at <=> i \in bt) /\ (Len(s) + 1 \in bt <=> e.type = ty)
  BY <1>2
<1> HIDE DEF at, bt
<1>4. Picked(t, bt) = IF Len(s) + 1 \in bt THEN Append(Picked(s, at), e) ELSE Picked(s, at)
  BY <1>1, <1>3, PickedAppend DEF t
<1>5. s \in Seq(ToSet(s))
  BY DEF IsList
<1>6. ToSet(Picked(s, at)) = {s[i] : i \in at \cap DOMAIN s}
  BY <1>5, PickedElements
<1>7. IsList(Picked(s, at))
  <2>1. Picked(s, at) \in Seq(ToSet(s))
    BY <1>5, PickedIn
  <2> DEFINE p == Picked(s, at)
  <2> HIDE DEF p
  <2>2. p \in Seq(ToSet(p))
    BY <2>1 DEF p, ToSet
  <2> QED BY <2>2 DEF IsList, p
<1>8. {s[i] : i \in at \cap DOMAIN s} = {x \in ToSet(s) : x.type = ty}
  BY DEF at, ToSet
<1> QED BY <1>3, <1>4, <1>6, <1>7, <1>8 DEF OfType, t, at, bt

LEMMA ItemsAppend ==
    ASSUME NEW s, IsList(s), NEW e, NEW ty
    PROVE  /\ Items(Append(s, e), ty) = IF e.type = "item" /\ e.item = ty
                                        THEN Append(Items(s, ty), e) ELSE Items(s, ty)
           /\ IsList(Items(s, ty))
<1> DEFINE S == ToSet(s) \cup {e}
           t == Append(s, e)
           at == {i \in DOMAIN s : s[i].type = "item" /\ s[i].item = ty}
           bt == {i \in DOMAIN t : t[i].type = "item" /\ t[i].item = ty}
<1> HIDE DEF S
<1>1. s \in Seq(S) /\ e \in S
  <2>1. s \in Seq(ToSet(s)) /\ ToSet(s) \subseteq S /\ e \in S
    BY DEF IsList, S
  <2> QED BY <2>1
<1>2. /\ DOMAIN t = DOMAIN s \cup {Len(s) + 1} /\ t[Len(s) + 1] = e
      /\ \A i \in DOMAIN s : t[i] = s[i] /\ i # Len(s) + 1
  BY Lists
<1> HIDE DEF t
<1>3. (\A i \in DOMAIN s : i \in at <=> i \in bt) /\ (Len(s) + 1 \in bt <=> e.type = "item" /\ e.item = ty)
  BY <1>2
<1> HIDE DEF at, bt
<1>4. Picked(t, bt) = IF Len(s) + 1 \in bt THEN Append(Picked(s, at), e) ELSE Picked(s, at)
  BY <1>1, <1>3, PickedAppend DEF t
<1>5. s \in Seq(ToSet(s))
  BY DEF IsList
<1>7. IsList(Picked(s, at))
  <2>1. Picked(s, at) \in Seq(ToSet(s))
    BY <1>5, PickedIn
  <2> DEFINE p == Picked(s, at)
  <2> HIDE DEF p
  <2>2. p \in Seq(ToSet(p))
    BY <2>1 DEF p, ToSet
  <2> QED BY <2>2 DEF IsList, p
<1> QED BY <1>3, <1>4, <1>7 DEF Items, t, at, bt

\* What of a type and of a kind is in an empty stream.
LEMMA NothingPicked ==
    ASSUME NEW ty
    PROVE  OfType(<<>>, ty) = <<>> /\ Items(<<>>, ty) = <<>>
<1>1. <<>> \in Seq({}) /\ DOMAIN <<>> = {}
  OBVIOUS
<1>2. \A at : at \cap DOMAIN <<>> = {} => Picked(<<>>, at) = <<>>
  BY <1>1, PickedOne
<1> QED BY <1>1, <1>2 DEF OfType, Items

\* The replay reads the events one by one.
Nothing == [pending |-> <<>>, records |-> <<>>]
Reading(s, f) ==
    f[0] = Nothing /\ \A n \in 1 .. Len(s) : f[n] = ReadsEvent(f[n - 1], s[n])

LEMMA ReplayReads ==
    ASSUME NEW s, Len(s) \in Nat
    PROVE  \E f : Reading(s, f) /\ Replayed(s) = f[Len(s)]
<1> DEFINE N == Len(s)
           Body(g, n) == IF n = 0 THEN Nothing ELSE ReadsEvent(g[n - 1], s[n])
           T == {m \in Nat : \E g : g = [n \in 0 .. m |-> Body(g, n)]}
<1>1. 0 \in T
  <2> DEFINE g == [n \in 0 .. 0 |-> Nothing]
  <2>1. g = [n \in 0 .. 0 |-> Body(g, n)]
    OBVIOUS
  <2> HIDE DEF g, Body
  <2> QED BY <2>1
<1>2. ASSUME NEW m \in T PROVE m + 1 \in T
  <2>1. m \in Nat
    OBVIOUS
  <2>2. PICK g : g = [n \in 0 .. m |-> Body(g, n)]
    OBVIOUS
  <2> DEFINE h == [n \in 0 .. m + 1 |-> IF n = m + 1 THEN ReadsEvent(g[m], s[m + 1]) ELSE g[n]]
  <2>3. \A n \in 0 .. m : h[n] = g[n]
    BY <2>1
  <2>4. ASSUME NEW n \in 0 .. m + 1 PROVE h[n] = Body(h, n)
    <3>1. CASE n = m + 1
      <4>1. h[n] = ReadsEvent(g[m], s[m + 1]) /\ n # 0 /\ n - 1 = m /\ m \in 0 .. m
        BY <2>1, <3>1
      <4>2. h[m] = g[m]
        BY <2>3, <4>1
      <4> HIDE DEF h
      <4> QED BY <3>1, <4>1, <4>2
    <3>2. CASE n # m + 1
      <4>1. n \in 0 .. m /\ (n # 0 => n - 1 \in 0 .. m)
        BY <2>1, <3>2
      <4>2. g[n] = Body(g, n)
        <5> HIDE DEF Body
        <5> QED BY <2>2, <4>1
      <4>3. h[n] = g[n] /\ (n # 0 => h[n - 1] = g[n - 1])
        BY <2>3, <4>1
      <4> HIDE DEF h
      <4> QED BY <4>2, <4>3
    <3> QED BY <3>1, <3>2
  <2>5. h = [n \in 0 .. m + 1 |-> Body(h, n)]
    <3>1. h = [n \in 0 .. m + 1 |-> h[n]]
      OBVIOUS
    <3> HIDE DEF h, Body
    <3> QED BY <2>4, <3>1
  <2>6. m + 1 \in Nat
    BY <2>1
  <2> HIDE DEF h, Body
  <2> QED BY <2>5, <2>6
<1>3. T = Nat
  <2>1. T \subseteq Nat
    OBVIOUS
  <2> HIDE DEF T
  <2> QED BY <1>1, <1>2, <2>1, Induction
<1> DEFINE J == CHOOSE g : g = [n \in 0 .. N |-> Body(g, n)]
<1>4. J = [n \in 0 .. N |-> Body(J, n)]
  <2>1. N \in T
    BY <1>3
  <2>2. \E g : g = [n \in 0 .. N |-> Body(g, n)]
    BY <2>1
  <2> HIDE DEF Body, N, T
  <2> QED BY <2>2
<1>5. Replayed(s) = J[N]
  BY DEF Replayed, Nothing
<1> HIDE DEF J
<1>6. ASSUME NEW n \in 0 .. N PROVE J[n] = Body(J, n)
  <2> HIDE DEF Body, N
  <2> QED BY <1>4
<1>7. Reading(s, J)
  <2>1. 0 \in 0 .. N /\ \A n \in 1 .. N : n \in 0 .. N /\ n # 0
    OBVIOUS
  <2>2. J[0] = Nothing
    BY <1>6, <2>1
  <2>3. ASSUME NEW n \in 1 .. N PROVE J[n] = ReadsEvent(J[n - 1], s[n])
    BY <1>6, <2>1
  <2> QED BY <2>2, <2>3 DEF Reading
<1> QED BY <1>5, <1>7

LEMMA ReplayNone == Replayed(<<>>) = Nothing
<1>1. Len(<<>>) = 0
  OBVIOUS
<1>2. PICK f : Reading(<<>>, f) /\ Replayed(<<>>) = f[Len(<<>>)]
  BY <1>1, ReplayReads
<1> QED BY <1>1, <1>2 DEF Reading

LEMMA ReplayOne ==
    ASSUME NEW s, IsList(s), NEW e
    PROVE  Replayed(Append(s, e)) = ReadsEvent(Replayed(s), e)
<1> DEFINE t == Append(s, e)
           N == Len(s)
<1>1. /\ N \in Nat /\ Len(t) = N + 1 /\ t[N + 1] = e /\ DOMAIN s = 1 .. N
      /\ \A i \in DOMAIN s : t[i] = s[i]
  BY Lists
<1> HIDE DEF t
<1>2. PICK f : Reading(s, f) /\ Replayed(s) = f[N]
  BY <1>1, ReplayReads
<1>3. Len(t) \in Nat
  BY <1>1
<1>4. PICK g : Reading(t, g) /\ Replayed(t) = g[N + 1]
  BY <1>1, <1>3, ReplayReads
<1> DEFINE T == {n \in Nat : n <= N => g[n] = f[n]}
<1>5. 0 \in T
  BY <1>2, <1>4 DEF Reading
<1>6. ASSUME NEW n \in T PROVE n + 1 \in T
  <2> SUFFICES ASSUME n + 1 <= N PROVE g[n + 1] = f[n + 1]
    OBVIOUS
  <2> DEFINE m == n + 1
  <2>1. n \in Nat /\ m \in 1 .. N /\ m \in 1 .. N + 1 /\ m - 1 = n /\ n <= N
    BY <1>1
  <2>2. g[n] = f[n]
    BY <2>1
  <2> HIDE DEF T, m
  <2>3. f[m] = ReadsEvent(f[n], s[m]) /\ g[m] = ReadsEvent(g[n], t[m]) /\ t[m] = s[m]
    <3>1. f[m] = ReadsEvent(f[m - 1], s[m])
      BY <1>2, <2>1 DEF Reading
    <3>2. g[m] = ReadsEvent(g[m - 1], t[m])
      BY <1>1, <1>4, <2>1 DEF Reading
    <3>3. t[m] = s[m]
      BY <1>1, <2>1
    <3> QED BY <2>1, <3>1, <3>2, <3>3
  <2> QED BY <2>2, <2>3 DEF m
<1>7. T = Nat
  <2>1. T \subseteq Nat
    OBVIOUS
  <2> HIDE DEF T
  <2> QED BY <1>5, <1>6, <2>1, Induction
<1>8. g[N] = f[N]
  <2>1. N \in T /\ N <= N
    BY <1>1, <1>7
  <2> QED BY <2>1
<1> HIDE DEF T
<1>9. g[N + 1] = ReadsEvent(g[N], t[N + 1])
  <2>1. N + 1 \in 1 .. Len(t) /\ (N + 1) - 1 = N
    BY <1>1
  <2>2. g[N + 1] = ReadsEvent(g[(N + 1) - 1], t[N + 1])
    BY <1>4, <2>1 DEF Reading
  <2> QED BY <2>1, <2>2
<1> QED BY <1>1, <1>2, <1>4, <1>8, <1>9 DEF t

\* What a trial's variables may be.
TrialTypes ==
    /\ client \in {"claude", "codex", "opencode"}
    /\ nativeArm \in BOOLEAN /\ connected \in BOOLEAN /\ projectDoc \in BOOLEAN
    /\ client # "claude" => ~nativeArm /\ connected
    /\ client # "codex" => ~projectDoc
    /\ IsList(stream) /\ IsList(returned)
    /\ spent \in Seq(Nat) /\ message = Len(spent) /\ said \in 0 .. message
    /\ over \in {"no", "well", "badly"} /\ failure \in {"none", "client", "provider"}
    /\ IsFiniteSet(DOMAIN open) /\ DOMAIN open \subseteq 1 .. Made

\* The replay of Claude's stream has the open calls pending and the others recorded.
ClaudeReplays ==
    /\ Replayed(stream).records = [i \in DOMAIN returned |-> Call(returned[i])]
    /\ DOMAIN Replayed(stream).pending = DOMAIN open
    /\ \A id \in DOMAIN open : /\ Replayed(stream).pending[id].name = open[id].name
                               /\ Replayed(stream).pending[id].request = open[id].request

\* The items of the others are the calls that came back.
ItemsReplay ==
    LET done == IF client = "codex" THEN Items(stream, "call") ELSE OfType(stream, "tool_use")
    IN  DOMAIN done = DOMAIN returned /\ \A i \in DOMAIN returned : Call(done[i]) = Call(returned[i])

Replays == IF client = "claude" THEN ClaudeReplays ELSE ItemsReplay

\* What Claude's stream says while the session runs.
Blocks(events) == OfType(events, "assistant")
Firsts(events) == Picked(Blocks(events), {i \in DOMAIN Blocks(events) : FirstOfMessage(Blocks(events), i)})
BlockOf(events, m) == \E e \in ToSet(Blocks(events)) : e.id = m
HasBlock(m) == BlockOf(stream, m)

\* What is counted of the blocks: the messages so far, each once.
BlocksCounted ==
    /\ \A e \in ToSet(Blocks(stream)) : e.id \in 1 .. message
    /\ (\A m \in 1 .. message : HasBlock(m)) =>
          Len(Firsts(stream)) = message /\ \A k \in 1 .. message : Firsts(stream)[k].usage = spent[k]
    /\ message > 0 /\ ~HasBlock(message) /\ (\A m \in 1 .. message - 1 : HasBlock(m)) =>
          /\ Len(Firsts(stream)) = message - 1
          /\ \A k \in 1 .. message - 1 : Firsts(stream)[k].usage = spent[k]

ClaudeLives ==
    /\ ToSet(OfType(stream, "system")) = {InitEvent} /\ OfType(stream, "result") = <<>>
    /\ touched = {b.name : b \in {c \in {e.block : e \in ToSet(Blocks(stream))} : c.type = "tool_use"}}
                    \ Granted
    /\ failure = "none"
    /\ BlocksCounted

\* The names used are those of the calls that came back and those that are open.
NamesKept ==
    touched = ({returned[i].name : i \in DOMAIN returned} \cup {open[id].name : id \in DOMAIN open})
                 \ Granted

CodexLives ==
    /\ LastText(Items(stream, "agent_message")) = said
    /\ ErrorOf(stream) = failure /\ NamesKept
    /\ OfType(stream, "turn.completed") = <<>>

\* The texts of OpenCode's stream are of messages that started, the last one of
\* the message in which the agent spoke last.
Texts(events) == {i \in DOMAIN events : events[i].type = "text"}
TextsKnown ==
    /\ \A i \in Texts(stream) : stream[i].id = stream[i].text /\ stream[i].id \in 1 .. said
    /\ said > 0 => \E k : {i \in Texts(stream) : stream[i].id = said} = {k}

\* All messages but the one that runs have been finished.
StepsCounted ==
    /\ message = 0 => OfType(stream, "step_finish") = <<>>
    /\ message > 0 =>
          /\ Len(OfType(stream, "step_finish")) = message - 1
          /\ \A k \in 1 .. message - 1 : OfType(stream, "step_finish")[k].tokens = spent[k]

OpencodeLives ==
    /\ {e.id : e \in ToSet(OfType(stream, "step_start"))} = 1 .. message
    /\ TextsKnown /\ StepsCounted
    /\ ErrorOf(stream) = failure /\ NamesKept

Lives == CASE client = "claude" -> ClaudeLives [] client = "codex" -> CodexLives
           [] client = "opencode" -> OpencodeLives

TrialInv ==
    /\ TrialTypes /\ Replays
    /\ over = "no" => Lives
    /\ over # "no" => OutcomeAsLived /\ TokensOnce

\* One more event keeps a list, and none does.
LEMMA ListsOn ==
    ASSUME NEW s, IsList(s), NEW a, NEW b
    PROVE  /\ s \o <<>> \o <<>> = s
           /\ s \o <<>> \o <<b>> = Append(s, b)
           /\ s \o <<a>> \o <<b>> = Append(Append(s, a), b) /\ IsList(Append(s, a))
           /\ IsList(Append(Append(s, a), b))
<1>1. s \o <<>> = s /\ s \o <<b>> = Append(s, b) /\ s \o <<a>> = Append(s, a) /\ IsList(Append(s, a))
  BY Lists
<1> DEFINE t == Append(s, a)
<1>2. IsList(t)
  BY <1>1
<1> HIDE DEF t
<1>3. t \o <<b>> = Append(t, b) /\ IsList(Append(t, b))
  BY <1>2, Lists
<1> QED BY <1>1, <1>3 DEF t

\* A message's start adds at most the end of the one before it and its own start,
\* which only OpenCode writes.
LEMMA StartsStream ==
    ASSUME TrialTypes, NEW n \in Tokens, MessageStarts(n)
    PROVE  LET start == [type |-> "step_start", id |-> message + 1]
               finish == [type |-> "step_finish", tokens |-> spent[message]]
           IN  /\ client # "opencode" => stream' = stream
               /\ client = "opencode" /\ message = 0 => stream' = Append(stream, start)
               /\ client = "opencode" /\ message # 0 =>
                     stream' = Append(Append(stream, finish), start) /\ IsList(Append(stream, finish))
               /\ IsList(stream')
<1> DEFINE start == [type |-> "step_start", id |-> message + 1]
           finish == [type |-> "step_finish", tokens |-> spent[message]]
<1>1. /\ stream' = stream \o StepFinish \o (IF client = "opencode" THEN <<start>> ELSE <<>>)
      /\ IsList(stream) /\ message \in Nat
  BY DEF MessageStarts, TrialTypes
<1>2. StepFinish = IF client = "opencode" /\ message > 0 THEN <<finish>> ELSE <<>>
  BY DEF StepFinish
<1> HIDE DEF start, finish
<1>3. message > 0 <=> message # 0
  BY <1>1
<1>4. \A e : IsList(Append(stream, e))
  BY <1>1, Lists
<1>5. /\ stream \o <<>> \o <<>> = stream
      /\ stream \o <<>> \o <<start>> = Append(stream, start)
      /\ stream \o <<finish>> \o <<start>> = Append(Append(stream, finish), start)
      /\ IsList(Append(Append(stream, finish), start))
  BY <1>1, ListsOn
<1>6. CASE client # "opencode"
  BY <1>1, <1>2, <1>5, <1>6
<1>7. CASE client = "opencode" /\ message = 0
  <2>1. StepFinish = <<>>
    BY <1>2, <1>3, <1>7
  <2>2. stream' = Append(stream, start)
    BY <1>1, <1>5, <1>7, <2>1
  <2> QED BY <1>4, <1>7, <2>2 DEF start, finish
<1>8. CASE client = "opencode" /\ message # 0
  <2>1. StepFinish = <<finish>>
    BY <1>2, <1>3, <1>8
  <2>2. stream' = Append(Append(stream, finish), start)
    BY <1>1, <1>5, <1>8, <2>1
  <2> QED BY <1>4, <1>5, <1>8, <2>2 DEF start, finish
<1> QED BY <1>6, <1>7, <1>8

LEMMA FinishesStream ==
    ASSUME TrialTypes, NEW code \in {0, 1}, Finishes(code)
    PROVE  /\ client = "claude" =>
                 stream' = Append(stream, [type |-> "result", error |-> code # 0,
                                           subtype |-> "client_error", text |-> said,
                                           usage |-> Total(spent)])
           /\ client = "codex" => stream' = Append(stream, [type |-> "turn.completed", usage |-> Total(spent)])
           /\ client = "opencode" =>
                 stream' = IF message = 0 THEN stream
                           ELSE Append(stream, [type |-> "step_finish", tokens |-> spent[message]])
           /\ IsList(stream')
<1>1. IsList(stream) /\ message \in Nat /\ client \in {"claude", "codex", "opencode"}
  BY DEF TrialTypes
<1>2. message > 0 <=> message # 0
  BY <1>1
<1>3. \A e : stream \o <<e>> = Append(stream, e) /\ stream \o <<>> = stream /\ IsList(Append(stream, e))
  BY <1>1, Lists
<1>4. CASE client = "claude"
  BY <1>1, <1>3, <1>4 DEF Finishes
<1>5. CASE client = "codex"
  BY <1>1, <1>3, <1>5 DEF Finishes
<1>6. CASE client = "opencode"
  BY <1>1, <1>2, <1>3, <1>6 DEF Finishes, StepFinish
<1> QED BY <1>1, <1>4, <1>5, <1>6

-----------------------------------------------------------------------------
(* Transcripts: what the variables are. *)

LEMMA CountsMade ==
    ASSUME TrialTypes, over = "no" PROVE Made \in Nat /\ Len(returned) \in Nat /\ Cardinality(DOMAIN open) \in Nat
  <1>1. Len(returned) \in Nat
    BY Lists DEF TrialTypes
  <1> QED BY <1>1, FS_CardinalityType DEF TrialTypes, Made

LEMMA TrialTypesInit == TranscriptInit => TrialTypes
<1> SUFFICES ASSUME TranscriptInit PROVE TrialTypes
  OBVIOUS
<1>1. IsList(<<InitEvent>>)
  BY DEF IsList, ToSet
<1>2. IsList(<<>>) /\ DOMAIN <<>> = {} /\ IsFiniteSet({})
  BY NoList, FS_EmptySet
<1>3. client \in {"claude", "codex", "opencode"} /\ (client # "codex" => ~projectDoc)
  BY TranscriptAssumption DEF TranscriptInit
<1>4. <<>> \in Seq(Nat) /\ Len(<<>>) = 0 /\ 0 \in 0 .. 0
  OBVIOUS
<1>5. IsList(stream)
  BY <1>1, <1>2 DEF TranscriptInit
<1>6. open = <<>> /\ returned = <<>> /\ message = 0 /\ said = 0 /\ spent = <<>>
      /\ over = "no" /\ failure = "none"
      /\ nativeArm \in BOOLEAN /\ connected \in BOOLEAN /\ projectDoc \in BOOLEAN
      /\ (client # "claude" => ~nativeArm /\ connected)
  BY DEF TranscriptInit
<1>7. IsFiniteSet(DOMAIN open) /\ DOMAIN open \subseteq 1 .. Made
  BY <1>2, <1>6
<1> QED BY <1>2, <1>3, <1>4, <1>5, <1>6, <1>7 DEF TrialTypes

LEMMA TrialTypesStep ==
    ASSUME TrialTypes, [TranscriptNext]_transcriptVars
    PROVE  TrialTypes'
<1>1. CASE UNCHANGED transcriptVars
  BY <1>1 DEF transcriptVars, arm, lived, TrialTypes, Made, IsList
<1>2. ASSUME NEW n \in Tokens, MessageStarts(n) PROVE TrialTypes'
  <2>1. IsList(stream')
    BY <1>2, StartsStream
  <2>2. spent' \in Seq(Nat) /\ message' = Len(spent') /\ said' \in 0 .. message'
    <3>1. n \in Nat /\ spent \in Seq(Nat) /\ message = Len(spent) /\ said \in 0 .. message
      BY TranscriptAssumption DEF TrialTypes
    <3>2. spent' = Append(spent, n) /\ message' = message + 1 /\ said' = said
      BY <1>2 DEF MessageStarts
    <3>3. spent' \in Seq(Nat) /\ Len(spent') = Len(spent) + 1
      BY <3>1, <3>2
    <3> QED BY <3>1, <3>2, <3>3
  <2> QED BY <1>2, <2>1, <2>2 DEF TrialTypes, MessageStarts, arm, Made, IsList
<1>3. ASSUME Says PROVE TrialTypes'
  <2>1. IsList(stream')
    BY <1>3, Lists DEF Says, TrialTypes
  <2>2. said' \in 0 .. message'
    BY <1>3 DEF Says, TrialTypes
  <2> QED BY <1>3, <2>1, <2>2 DEF TrialTypes, Says, arm, Made, IsList
<1>4. ASSUME NEW c \in Offers, Calls(c.name, c.request) PROVE TrialTypes'
  <2>1. IsList(stream')
    BY <1>4, Lists DEF Calls, TrialTypes
  <2>2. Made \in Nat
    BY <1>4, CountsMade DEF Calls
  <2>3. DOMAIN open' = DOMAIN open \cup {Made + 1}
    BY <1>4 DEF Calls, With
  <2>4. IsFiniteSet(DOMAIN open) /\ DOMAIN open \subseteq 1 .. Made /\ Made + 1 \notin DOMAIN open
    BY <2>2 DEF TrialTypes
  <2>5. IsFiniteSet(DOMAIN open') /\ Cardinality(DOMAIN open') = Cardinality(DOMAIN open) + 1
    BY <2>3, <2>4, FS_AddElement
  <2>6. Made' = Made + 1
    BY <1>4, <2>2, <2>5, CountsMade DEF Made, Calls
  <2>7. DOMAIN open' \subseteq 1 .. Made'
    BY <2>2, <2>3, <2>4, <2>6
  <2> QED BY <1>4, <2>1, <2>5, <2>7 DEF TrialTypes, Calls, arm, IsList
<1>5. ASSUME NEW id \in DOMAIN open, NEW t \in Bodies, Results(id, t) PROVE TrialTypes'
  <2>1. IsList(stream') /\ IsList(returned') /\ Len(returned') = Len(returned) + 1
    <3>1. \A e : IsList(Append(stream, e))
      BY Lists DEF TrialTypes
    <3>2. \A e : IsList(Append(returned, e)) /\ Len(Append(returned, e)) = Len(returned) + 1
      BY Lists DEF TrialTypes
    <3> QED BY <1>5, <3>1, <3>2 DEF Results
  <2>2. DOMAIN open' = DOMAIN open \ {id}
    BY <1>5 DEF Results, Restrict
  <2>3. IsFiniteSet(DOMAIN open') /\ Cardinality(DOMAIN open') = Cardinality(DOMAIN open) - 1
    BY <2>2, FS_RemoveElement DEF TrialTypes
  <2>4. Made' = Made
    BY <1>5, <2>1, <2>3, CountsMade DEF Made, Results
  <2>5. DOMAIN open' \subseteq 1 .. Made'
    BY <2>2, <2>4 DEF TrialTypes
  <2> QED BY <1>5, <2>1, <2>3, <2>5 DEF TrialTypes, Results, arm, IsList
<1>6. ASSUME NEW p \in BOOLEAN, Errs(p) PROVE TrialTypes'
  <2>1. IsList(stream')
    BY <1>6, Lists DEF Errs, TrialTypes
  <2> QED BY <1>6, <2>1 DEF TrialTypes, Errs, arm, Made, IsList
<1>7. ASSUME NEW code \in {0, 1}, Finishes(code) PROVE TrialTypes'
  <2>1. IsList(stream')
    BY <1>7, FinishesStream
  <2> QED BY <1>7, <2>1 DEF TrialTypes, Finishes, arm, Made, IsList
<1> QED BY <1>1, <1>2, <1>3, <1>4, <1>5, <1>6, <1>7 DEF TranscriptNext

-----------------------------------------------------------------------------
(* Transcripts: the replay has the calls that came back. *)

\* One more call on both sides.
LEMMA CallsGrow ==
    ASSUME NEW s, IsList(s), NEW t, IsList(t), DOMAIN s = DOMAIN t,
           \A i \in DOMAIN t : Call(s[i]) = Call(t[i]),
           NEW e, NEW r, Call(e) = Call(r)
    PROVE  LET u == Append(s, e)
               v == Append(t, r)
           IN  DOMAIN u = DOMAIN v /\ \A i \in DOMAIN v : Call(u[i]) = Call(v[i])
<1> DEFINE u == Append(s, e)
           v == Append(t, r)
<1>1. Len(s) = Len(t)
  BY Lists
<1>2. /\ DOMAIN u = DOMAIN s \cup {Len(s) + 1} /\ u[Len(s) + 1] = e
      /\ \A i \in DOMAIN s : u[i] = s[i]
  BY Lists
<1>3. /\ DOMAIN v = DOMAIN t \cup {Len(t) + 1} /\ v[Len(t) + 1] = r
      /\ \A i \in DOMAIN t : v[i] = t[i]
  BY Lists
<1> HIDE DEF u, v
<1>4. DOMAIN u = DOMAIN v
  BY <1>1, <1>2, <1>3
<1>5. ASSUME NEW i \in DOMAIN v PROVE Call(u[i]) = Call(v[i])
  <2>1. CASE i \in DOMAIN t
    BY <1>2, <1>3, <2>1
  <2>2. CASE i = Len(t) + 1
    BY <1>1, <1>2, <1>3, <2>2
  <2> QED BY <1>3, <2>1, <2>2
<1> QED BY <1>4, <1>5 DEF u, v

LEMMA RecordsGrow ==
    ASSUME NEW s, IsList(s), NEW e
    PROVE  Append([i \in DOMAIN s |-> Call(s[i])], Call(e))
              = [i \in DOMAIN Append(s, e) |-> Call(Append(s, e)[i])]
<1> DEFINE t == Append(s, e)
           N == Len(s)
           f == [i \in DOMAIN s |-> Call(s[i])]
           g == [i \in DOMAIN t |-> Call(t[i])]
           S == {Call(s[i]) : i \in DOMAIN s} \cup {Call(e)}
<1>1. /\ N \in Nat /\ DOMAIN s = 1 .. N /\ DOMAIN t = DOMAIN s \cup {N + 1} /\ t[N + 1] = e
      /\ \A i \in DOMAIN s : t[i] = s[i]
  BY Lists
<1> HIDE DEF t, N
<1>2. f \in [1 .. N -> S] /\ Call(e) \in S
  BY <1>1
<1>3. DOMAIN g = 1 .. N + 1 /\ g[N + 1] = Call(e) /\ \A i \in 1 .. N : g[i] = f[i]
  BY <1>1
<1>4. \A i \in 1 .. N + 1 : i \in 1 .. N \/ i = N + 1
  BY <1>1
<1>5. g = [i \in 1 .. N + 1 |-> g[i]]
  BY <1>3
<1> HIDE DEF f, g, S
<1>6. f \in Seq(S) /\ Len(f) = N
  BY <1>1, <1>2
<1>7. ASSUME NEW c \in S
      PROVE  /\ Append(f, c) = [i \in 1 .. N + 1 |-> Append(f, c)[i]]
             /\ Append(f, c)[N + 1] = c /\ \A i \in 1 .. N : Append(f, c)[i] = f[i]
  <2> DEFINE h == Append(f, c)
  <2>1. h \in Seq(S) /\ Len(h) = N + 1 /\ h[N + 1] = c /\ \A i \in 1 .. N : h[i] = f[i]
    BY <1>1, <1>6
  <2> HIDE DEF h
  <2>2. h = [i \in 1 .. N + 1 |-> h[i]]
    BY <2>1
  <2> QED BY <2>1, <2>2 DEF h
<1> DEFINE c == Call(e)
           h == Append(f, c)
<1>8. h = [i \in 1 .. N + 1 |-> h[i]] /\ h[N + 1] = c /\ \A i \in 1 .. N : h[i] = f[i]
  BY <1>2, <1>7
<1> HIDE DEF h, c
<1>9. g[N + 1] = c
  BY <1>3 DEF c
<1>10. h = g
  BY <1>3, <1>4, <1>5, <1>8, <1>9
<1> QED BY <1>10 DEF h, c, f, g, t

\* An event that makes no call and answers none is no part of the replay.
NoBlock(e) == \/ e.type \notin {"assistant", "user"}
              \/ e.type = "assistant" /\ e.block.type # "tool_use"
NoItem(e) == \/ e.type \notin {"item", "tool_use"}
             \/ e.type = "item" /\ e.item # "call"

LEMMA NoCall ==
    ASSUME NEW s, IsList(s), NEW e, NEW t, t = Append(s, e)
    PROVE  /\ NoBlock(e) => Replayed(t) = Replayed(s)
           /\ NoItem(e) => Items(t, "call") = Items(s, "call") /\ OfType(t, "tool_use") = OfType(s, "tool_use")
<1>1. Replayed(t) = ReadsEvent(Replayed(s), e)
  BY ReplayOne
<1>2. Items(t, "call") = IF e.type = "item" /\ e.item = "call" THEN Append(Items(s, "call"), e)
                         ELSE Items(s, "call")
  BY ItemsAppend
<1>3. OfType(t, "tool_use") = IF e.type = "tool_use" THEN Append(OfType(s, "tool_use"), e)
                              ELSE OfType(s, "tool_use")
  BY OfTypeAppend
<1>4. ASSUME NoBlock(e) PROVE Replayed(t) = Replayed(s)
  BY <1>1, <1>4 DEF ReadsEvent, NoBlock
<1>5. ASSUME NoItem(e)
      PROVE  Items(t, "call") = Items(s, "call") /\ OfType(t, "tool_use") = OfType(s, "tool_use")
  BY <1>2, <1>3, <1>5 DEF NoItem
<1> QED BY <1>4, <1>5

\* The records that are written, and their fields.
LEMMA EventFields ==
    /\ \A c : [type |-> "system", connected |-> c].type = "system"
    /\ \A c : [type |-> "system", connected |-> c].connected = c
    /\ \A m, u, b : LET e == [type |-> "assistant", id |-> m, usage |-> u, block |-> b]
                    IN  e.type = "assistant" /\ e.id = m /\ e.usage = u /\ e.block = b
    /\ \A m : [type |-> "text", text |-> m].type = "text"
    /\ \A i, n, r : LET b == [type |-> "tool_use", id |-> i, name |-> n, request |-> r]
                    IN  b.type = "tool_use" /\ b.id = i /\ b.name = n /\ b.request = r
    /\ \A m : LET e == [type |-> "item", item |-> "agent_message", text |-> m]
              IN  e.type = "item" /\ e.item = "agent_message" /\ e.text = m
    /\ \A m : LET e == [type |-> "text", id |-> m, text |-> m]
              IN  e.type = "text" /\ e.id = m /\ e.text = m
    /\ \A i, b : LET e == [type |-> "user", id |-> i, body |-> b]
                 IN  e.type = "user" /\ e.id = i /\ e.body = b
    /\ \A n, r, b : LET e == [type |-> "item", item |-> "call", name |-> n, request |-> r, body |-> b]
                    IN  e.type = "item" /\ e.item = "call" /\ e.name = n /\ e.request = r /\ e.body = b
    /\ \A n, r, b : LET e == [type |-> "tool_use", name |-> n, request |-> r, body |-> b]
                    IN  e.type = "tool_use" /\ e.name = n /\ e.request = r /\ e.body = b
    /\ \A p : [type |-> "error", provider |-> p].type = "error" /\ [type |-> "error", provider |-> p].provider = p
    /\ \A m : [type |-> "step_start", id |-> m].type = "step_start" /\ [type |-> "step_start", id |-> m].id = m
    /\ \A n : /\ [type |-> "step_finish", tokens |-> n].type = "step_finish"
              /\ [type |-> "step_finish", tokens |-> n].tokens = n
    /\ \A n : /\ [type |-> "turn.completed", usage |-> n].type = "turn.completed"
              /\ [type |-> "turn.completed", usage |-> n].usage = n
    /\ \A x, y, z, w : LET e == [type |-> "result", error |-> x, subtype |-> y, text |-> z, usage |-> w]
                       IN  e.type = "result" /\ e.error = x /\ e.subtype = y /\ e.text = z
    /\ \A n, r, b, m : LET e == [name |-> n, request |-> r, body |-> b, message |-> m]
                       IN  e.name = n /\ e.request = r /\ e.body = b
    /\ \A n, r, m : LET e == [name |-> n, request |-> r, message |-> m]
                    IN  e.name = n /\ e.request = r /\ e.message = m
    /\ \A n, r, b : LET e == [name |-> n, request |-> r, body |-> b]
                    IN  e.name = n /\ e.request = r /\ e.body = b
  OBVIOUS

LEMMA ReplaysInit == TranscriptInit => Replays
<1> SUFFICES ASSUME TranscriptInit PROVE Replays
  OBVIOUS
<1>1. returned = <<>> /\ open = <<>> /\ DOMAIN <<>> = {}
      /\ stream = IF client = "claude" THEN <<InitEvent>> ELSE <<>>
  BY DEF TranscriptInit
<1>2. CASE client = "claude"
  <2>1. <<InitEvent>> = Append(<<>>, InitEvent)
    OBVIOUS
  <2>2. InitEvent.type = "system"
    BY DEF InitEvent
  <2>3. Replayed(<<InitEvent>>) = Nothing
    <3>1. NoBlock(InitEvent)
      BY <2>2 DEF NoBlock
    <3>2. Replayed(<<InitEvent>>) = Replayed(<<>>)
      BY <2>1, <3>1, NoList, NoCall
    <3> QED BY <3>2, ReplayNone
  <2>4. Replayed(stream).records = <<>> /\ Replayed(stream).pending = <<>>
    BY <1>1, <1>2, <2>3 DEF Nothing
  <2>5. [i \in DOMAIN returned |-> Call(returned[i])] = <<>>
    BY <1>1
  <2> QED BY <1>1, <1>2, <2>4, <2>5 DEF Replays, ClaudeReplays
<1>3. CASE client # "claude"
  BY <1>1, <1>3, NothingPicked DEF Replays, ItemsReplay
<1> QED BY <1>2, <1>3

\* An event without a call or a result leaves the replay alone.
LEMMA ReplaysNothing ==
    ASSUME TrialTypes, Replays, client' = client, returned' = returned, open' = open,
           NEW e, stream' = Append(stream, e),
           client = "claude" => NoBlock(e), client # "claude" => NoItem(e)
    PROVE  Replays'
<1>1. IsList(stream)
  BY DEF TrialTypes
<1>2. CASE client = "claude"
  <2>1. Replayed(stream') = Replayed(stream)
    BY <1>1, <1>2, NoCall
  <2> QED BY <1>2, <2>1 DEF Replays, ClaudeReplays
<1>3. CASE client # "claude"
  <2>1. Items(stream', "call") = Items(stream, "call") /\ OfType(stream', "tool_use") = OfType(stream, "tool_use")
    BY <1>1, <1>3, NoCall
  <2> QED BY <1>3, <2>1 DEF Replays, ItemsReplay
<1> QED BY <1>2, <1>3

LEMMA ReplaysSame ==
    ASSUME Replays, client' = client, returned' = returned, open' = open, stream' = stream
    PROVE  Replays'
  BY DEF Replays, ClaudeReplays, ItemsReplay

LEMMA ReplaysStarts ==
    ASSUME TrialTypes, Replays, NEW n \in Tokens, MessageStarts(n)
    PROVE  Replays'
<1>1. client' = client /\ returned' = returned /\ open' = open
  BY DEF MessageStarts, arm
<1>2. CASE client # "opencode"
  BY <1>1, <1>2, StartsStream, ReplaysSame
<1>3. CASE client = "opencode" /\ message = 0
  BY <1>1, <1>3, StartsStream, ReplaysNothing DEF NoItem
<1>4. CASE client = "opencode" /\ message # 0
  <2> DEFINE start == [type |-> "step_start", id |-> message + 1]
             finish == [type |-> "step_finish", tokens |-> spent[message]]
  <2>1. NoItem(start) /\ NoItem(finish)
    BY DEF NoItem
  <2>2. stream' = Append(Append(stream, finish), start) /\ IsList(Append(stream, finish)) /\ IsList(stream)
    BY <1>4, StartsStream DEF TrialTypes
  <2> HIDE DEF start, finish
  <2>3. OfType(Append(stream, finish), "tool_use") = OfType(stream, "tool_use")
    BY <2>1, <2>2, NoCall
  <2>4. OfType(stream', "tool_use") = OfType(Append(stream, finish), "tool_use")
    BY <2>1, <2>2, NoCall
  <2> QED BY <1>1, <1>4, <2>3, <2>4 DEF Replays, ItemsReplay
<1> QED BY <1>2, <1>3, <1>4

LEMMA ReplaysSays ==
    ASSUME TrialTypes, Replays, Says
    PROVE  Replays'
<1>1. client' = client /\ returned' = returned /\ open' = open /\ client \in {"claude", "codex", "opencode"}
  BY DEF Says, arm, TrialTypes
<1>2. CASE client = "claude"
  <2>1. stream' = Append(stream, Block([type |-> "text", text |-> message]))
    BY <1>2 DEF Says
  <2> QED BY <1>1, <1>2, <2>1, ReplaysNothing DEF Block, NoBlock
<1>3. CASE client = "codex"
  <2>1. stream' = Append(stream, [type |-> "item", item |-> "agent_message", text |-> message])
    BY <1>3 DEF Says
  <2> QED BY <1>1, <1>3, <2>1, ReplaysNothing DEF NoBlock, NoItem
<1>4. CASE client = "opencode"
  <2>1. stream' = Append(stream, [type |-> "text", id |-> message, text |-> message])
    BY <1>4 DEF Says
  <2> QED BY <1>1, <1>4, <2>1, ReplaysNothing DEF NoBlock, NoItem
<1> QED BY <1>1, <1>2, <1>3, <1>4

LEMMA ReplaysCalls ==
    ASSUME TrialTypes, Replays, NEW c \in Offers, Calls(c.name, c.request)
    PROVE  Replays'
<1>1. client' = client /\ returned' = returned
  BY DEF Calls, arm
<1>2. CASE client = "claude"
  <2> DEFINE id == Made + 1
             block == [type |-> "tool_use", id |-> id, name |-> c.name, request |-> c.request]
             new == [name |-> c.name, request |-> c.request, message |-> message]
             e == Block(block)
             r == Replayed(stream)
  <2>1. stream' = Append(stream, e) /\ open' = With(open, id, new) /\ IsList(stream)
    BY <1>2 DEF Calls, TrialTypes
  <2>2. e.type = "assistant" /\ e.block = block
    BY DEF Block
  <2>3. block.type = "tool_use" /\ block.id = id /\ block.name = c.name /\ block.request = c.request
        /\ new.name = c.name /\ new.request = c.request
    OBVIOUS
  <2> HIDE DEF e, block, new, id, r
  <2>4. Replayed(stream') = ReadsEvent(r, e)
    BY <2>1, ReplayOne DEF r
  <2>5. ReadsEvent(r, e) = [pending |-> With(r.pending, id, block), records |-> r.records]
    BY <2>2, <2>3 DEF ReadsEvent
  <2>6. Replayed(stream').pending = With(r.pending, id, block) /\ Replayed(stream').records = r.records
    BY <2>4, <2>5
  <2>7. DOMAIN r.pending = DOMAIN open /\ r.records = [i \in DOMAIN returned |-> Call(returned[i])]
        /\ \A x \in DOMAIN open : r.pending[x].name = open[x].name /\ r.pending[x].request = open[x].request
    BY <1>2 DEF Replays, ClaudeReplays, r
  <2>8. DOMAIN open' = DOMAIN open \cup {id} /\ DOMAIN Replayed(stream').pending = DOMAIN open \cup {id}
    BY <2>1, <2>6, <2>7 DEF With
  <2>9. ASSUME NEW x \in DOMAIN open \cup {id}
        PROVE  /\ Replayed(stream').pending[x].name = open'[x].name
               /\ Replayed(stream').pending[x].request = open'[x].request
    <3>1. open'[x] = IF x = id THEN new ELSE open[x]
      BY <2>1 DEF With
    <3>2. Replayed(stream').pending[x] = IF x = id THEN block ELSE r.pending[x]
      BY <2>6, <2>7 DEF With
    <3> QED BY <2>3, <2>7, <3>1, <3>2
  <2> QED BY <1>1, <1>2, <2>6, <2>7, <2>8, <2>9 DEF Replays, ClaudeReplays
<1>3. CASE client # "claude"
  <2>1. stream' = stream
    BY <1>3 DEF Calls
  <2> QED BY <1>1, <1>3, <2>1 DEF Replays, ItemsReplay
<1> QED BY <1>2, <1>3

LEMMA ReplaysResults ==
    ASSUME TrialTypes, Replays, NEW id \in DOMAIN open, NEW t \in Bodies, Results(id, t)
    PROVE  Replays'
<1> DEFINE call == open[id]
           entry == [name |-> call.name, request |-> call.request, body |-> t, message |-> call.message]
<1>1. client' = client /\ returned' = Append(returned, entry) /\ IsList(stream) /\ IsList(returned)
      /\ open' = Restrict(open, DOMAIN open \ {id}) /\ client \in {"claude", "codex", "opencode"}
  BY DEF Results, arm, TrialTypes
<1>2. Call(entry) = [name |-> call.name, request |-> call.request, body |-> t]
  BY DEF Call
<1>3. CASE client = "claude"
  <2> DEFINE e == [type |-> "user", id |-> id, body |-> t]
             r == Replayed(stream)
  <2>1. stream' = Append(stream, e)
    BY <1>3 DEF Results
  <2>2. e.type = "user" /\ e.id = id /\ e.body = t
    OBVIOUS
  <2> HIDE DEF e, r, entry, call
  <2>3. Replayed(stream') = ReadsEvent(r, e)
    BY <1>1, <2>1, ReplayOne DEF r
  <2>4. ReadsEvent(r, e) =
          [pending |-> Restrict(r.pending, DOMAIN r.pending \ {id}),
           records |-> Append(r.records, [name |-> r.pending[id].name,
                                          request |-> r.pending[id].request, body |-> t])]
    <3>1. e.type # "assistant"
      BY <2>2
    <3> QED BY <2>2, <3>1 DEF ReadsEvent, AnsweredBy
  <2>5. /\ Replayed(stream').pending = Restrict(r.pending, DOMAIN r.pending \ {id})
        /\ Replayed(stream').records = Append(r.records, [name |-> r.pending[id].name,
                                                 request |-> r.pending[id].request, body |-> t])
    BY <2>3, <2>4
  <2>6. DOMAIN r.pending = DOMAIN open /\ r.records = [i \in DOMAIN returned |-> Call(returned[i])]
        /\ \A x \in DOMAIN open : r.pending[x].name = open[x].name /\ r.pending[x].request = open[x].request
    BY <1>3 DEF Replays, ClaudeReplays, r
  <2>7. Replayed(stream').records = Append(r.records, Call(entry))
    BY <1>2, <2>5, <2>6 DEF call
  <2>8. Replayed(stream').records = [i \in DOMAIN returned' |-> Call(returned'[i])]
    BY <1>1, <2>6, <2>7, RecordsGrow
  <2>9. DOMAIN open' = DOMAIN open \ {id} /\ \A x \in DOMAIN open \ {id} : open'[x] = open[x]
    BY <1>1 DEF Restrict
  <2>10. /\ DOMAIN Replayed(stream').pending = DOMAIN open \ {id}
         /\ \A x \in DOMAIN open \ {id} : Replayed(stream').pending[x] = r.pending[x]
    BY <2>5, <2>6 DEF Restrict
  <2> QED BY <1>1, <1>3, <2>6, <2>8, <2>9, <2>10 DEF Replays, ClaudeReplays
<1>4. CASE client = "codex"
  <2> DEFINE e == [type |-> "item", item |-> "call", name |-> call.name, request |-> call.request, body |-> t]
             s == Items(stream, "call")
  <2>1. stream' = Append(stream, e)
    BY <1>4 DEF Results
  <2>2. e.type = "item" /\ e.item = "call" /\ Call(e) = Call(entry)
    BY <1>2 DEF Call
  <2> HIDE DEF e, entry, s
  <2>3. Items(stream', "call") = Append(s, e) /\ IsList(s)
    BY <1>1, <2>1, <2>2, ItemsAppend DEF s
  <2>4. DOMAIN s = DOMAIN returned /\ \A i \in DOMAIN returned : Call(s[i]) = Call(returned[i])
    BY <1>4 DEF Replays, ItemsReplay, s
  <2>5. DOMAIN Append(s, e) = DOMAIN returned'
        /\ \A i \in DOMAIN returned' : Call(Append(s, e)[i]) = Call(returned'[i])
    BY <1>1, <2>2, <2>3, <2>4, CallsGrow
  <2> QED BY <1>1, <1>4, <2>3, <2>5 DEF Replays, ItemsReplay
<1>5. CASE client = "opencode"
  <2> DEFINE e == [type |-> "tool_use", name |-> call.name, request |-> call.request, body |-> t]
             s == OfType(stream, "tool_use")
  <2>1. stream' = Append(stream, e)
    BY <1>5 DEF Results
  <2>2. e.type = "tool_use" /\ Call(e) = Call(entry)
    BY <1>2 DEF Call
  <2> HIDE DEF e, entry, s
  <2>3. OfType(stream', "tool_use") = Append(s, e) /\ IsList(s)
    BY <1>1, <2>1, <2>2, OfTypeAppend DEF s
  <2>4. DOMAIN s = DOMAIN returned /\ \A i \in DOMAIN returned : Call(s[i]) = Call(returned[i])
    BY <1>5 DEF Replays, ItemsReplay, s
  <2>5. DOMAIN Append(s, e) = DOMAIN returned'
        /\ \A i \in DOMAIN returned' : Call(Append(s, e)[i]) = Call(returned'[i])
    BY <1>1, <2>2, <2>3, <2>4, CallsGrow
  <2> QED BY <1>1, <1>5, <2>3, <2>5 DEF Replays, ItemsReplay
<1> QED BY <1>1, <1>3, <1>4, <1>5

LEMMA ReplaysErrs ==
    ASSUME TrialTypes, Replays, NEW p \in BOOLEAN, Errs(p)
    PROVE  Replays'
<1>1. client' = client /\ returned' = returned /\ open' = open
      /\ stream' = Append(stream, [type |-> "error", provider |-> p])
  BY DEF Errs, arm
<1> QED BY <1>1, ReplaysNothing DEF NoBlock, NoItem

LEMMA ReplaysFinishes ==
    ASSUME TrialTypes, Replays, NEW code \in {0, 1}, Finishes(code)
    PROVE  Replays'
<1>1. client' = client /\ returned' = returned /\ open' = open /\ client \in {"claude", "codex", "opencode"}
  BY DEF Finishes, arm, TrialTypes
<1>2. CASE client = "claude"
  BY <1>1, <1>2, FinishesStream, ReplaysNothing DEF NoBlock, NoItem
<1>3. CASE client = "codex"
  BY <1>1, <1>3, FinishesStream, ReplaysNothing DEF NoBlock, NoItem
<1>4. CASE client = "opencode" /\ message = 0
  BY <1>1, <1>4, FinishesStream, ReplaysSame
<1>5. CASE client = "opencode" /\ message # 0
  BY <1>1, <1>5, FinishesStream, ReplaysNothing DEF NoBlock, NoItem
<1> QED BY <1>1, <1>2, <1>3, <1>4, <1>5

LEMMA ReplaysStep ==
    ASSUME TrialTypes, Replays, [TranscriptNext]_transcriptVars
    PROVE  Replays'
<1>1. CASE UNCHANGED transcriptVars
  BY <1>1, ReplaysSame DEF transcriptVars, arm, lived
<1> QED
  BY <1>1, ReplaysStarts, ReplaysSays, ReplaysCalls, ReplaysResults, ReplaysErrs, ReplaysFinishes
  DEF TranscriptNext

-----------------------------------------------------------------------------
(* Transcripts: what the replay is read for. *)

LEMMA ReplaysAreCalls == TrialTypes /\ Replays => CallsAsMade
<1> SUFFICES ASSUME TrialTypes, Replays PROVE CallsAsMade
  OBVIOUS
<1>1. CASE client = "claude"
  BY <1>1 DEF Replays, ClaudeReplays, CallsAsMade, CallsFrom, ClaudeCalls
<1>2. CASE client # "claude"
  <2> DEFINE done == IF client = "codex" THEN Items(stream, "call") ELSE OfType(stream, "tool_use")
  <2>1. DOMAIN done = DOMAIN returned /\ \A i \in DOMAIN returned : Call(done[i]) = Call(returned[i])
    BY <1>2 DEF Replays, ItemsReplay
  <2> HIDE DEF done
  <2>2. [i \in DOMAIN done |-> Call(done[i])] = [i \in DOMAIN returned |-> Call(returned[i])]
    BY <2>1
  <2> QED BY <1>2, <2>2 DEF CallsAsMade, CallsFrom, done
<1> QED BY <1>1, <1>2

\* What the evidence is read from agrees with what was shown.
LEMMA EvidenceFollows == TrialTypes /\ CallsAsMade => EvidenceAgrees
<1> SUFFICES ASSUME TrialTypes, CallsAsMade PROVE EvidenceAgrees
  OBVIOUS
<1> DEFINE records == CallsFrom(stream)
           shown == [i \in DOMAIN returned |-> returned[i].request \cup returned[i].body]
<1>1. /\ DOMAIN records = DOMAIN returned /\ DOMAIN shown = DOMAIN returned
      /\ \A i \in DOMAIN returned : /\ Shown(records[i]) = shown[i]
                                    /\ records[i].body = returned[i].body
                                    /\ records[i].request = returned[i].request
      /\ DOMAIN returned \subseteq Nat
  <2>1. records = [i \in DOMAIN returned |-> Call(returned[i])]
    BY DEF CallsAsMade
  <2>2. DOMAIN returned \subseteq Nat
    BY Lists DEF TrialTypes
  <2> HIDE DEF records
  <2>3. ASSUME NEW i \in DOMAIN returned
        PROVE  /\ records[i].body = returned[i].body
               /\ records[i].request = returned[i].request
    BY <2>1 DEF Call
  <2> QED BY <2>1, <2>2, <2>3 DEF Shown
<1> HIDE DEF records, shown
<1>2. /\ UNION {Shown(r) : r \in ToSet(records)} = UNION {shown[i] : i \in DOMAIN returned}
      /\ UNION {r.body : r \in ToSet(records)} = UNION {returned[i].body : i \in DOMAIN returned}
  BY <1>1 DEF ToSet
<1>3. \A pair \in Gold : ToSet(pair) = {pair[1], pair[2]}
  BY TranscriptAssumption DEF ToSet
<1>4. /\ Hits(records) = {i \in DOMAIN returned : shown[i] \cap GoldMarkers # {}}
      /\ Hits(records) \subseteq Nat
  BY <1>1 DEF Hits
<1>5. /\ Hits(records) = {} => FirstHit(records) = 0
      /\ Hits(records) # {} => FirstHit(records) \in Hits(records) /\ \A i \in Hits(records) : FirstHit(records) <= i
  BY <1>4, MinIn DEF FirstHit
<1> DEFINE first == FirstHit(records)
<1>6. \A i \in DOMAIN returned : i \in Nat /\ i # 0
  <2>1. DOMAIN returned = 1 .. Len(returned) /\ Len(returned) \in Nat
    BY Lists DEF TrialTypes
  <2> QED BY <2>1
<1>7. ASSUME NEW pair \in Gold
      PROVE  (pair \in Unretrieved(records)) =
                (first = 0 \/ \E part \in ToSet(pair) :
                    \A i \in DOMAIN shown : i >= first => part \notin shown[i])
  <2>1. pair[1] \in GoldMarkers /\ pair[2] \in GoldMarkers
    BY DEF GoldMarkers
  <2>2. pair \in Unretrieved(records) <=>
           \E part \in {pair[1], pair[2]} : \A i \in DOMAIN returned : part \notin shown[i]
    BY <1>2 DEF Unretrieved, InFull
  <2>3. CASE Hits(records) = {}
    <3>1. \A i \in DOMAIN returned : pair[1] \notin shown[i]
      BY <1>4, <2>1, <2>3
    <3> QED BY <1>5, <2>2, <2>3, <3>1
  <2>4. CASE Hits(records) # {}
    <3>1. first # 0 /\ \A i \in Hits(records) : first <= i
      BY <1>4, <1>5, <1>6, <2>4
    <3>2. ASSUME NEW part \in {pair[1], pair[2]}, NEW i \in DOMAIN returned, part \in shown[i]
          PROVE  i >= first
      <4>1. i \in Hits(records)
        BY <1>4, <2>1, <3>2
      <4>2. first \in Nat /\ i \in Nat /\ first <= i
        BY <1>4, <1>5, <1>6, <2>4, <3>1, <4>1
      <4> HIDE DEF first
      <4> QED BY <4>2
    <3> HIDE DEF first
    <3> QED BY <1>1, <1>3, <2>2, <3>1, <3>2
  <2> QED BY <2>3, <2>4
<1>8. ClosureVerdict(records) = "evidence_seen" => Unretrieved(records) = {}
  <2> SUFFICES ASSUME OnScreen(records) = Gold PROVE Unretrieved(records) = {}
    BY DEF ClosureVerdict
  <2>1. ASSUME NEW pair \in Gold
        PROVE  InFull(UNION {Shown(r) : r \in ToSet(records)}, pair)
    <3>1. pair \in OnScreen(records)
      OBVIOUS
    <3>2. InFull(UNION {r.body : r \in ToSet(records)}, pair)
      BY <3>1 DEF OnScreen
    <3> QED BY <3>2 DEF InFull, Shown
  <2> QED BY <2>1 DEF Unretrieved
<1>9. ASSUME ClosureVerdict(records) = "premature_stop", Unretrieved(records) = {}
      PROVE  \E i \in DOMAIN returned : returned[i].request \cap GoldMarkers # {}
  <2>1. OnScreen(records) # Gold
    BY <1>9 DEF ClosureVerdict
  <2>2. PICK pair \in Gold : ~InFull(UNION {r.body : r \in ToSet(records)}, pair)
    BY <2>1 DEF OnScreen
  <2>3. InFull(UNION {Shown(r) : r \in ToSet(records)}, pair)
    BY <1>9 DEF Unretrieved
  <2>4. pair[1] \in GoldMarkers /\ pair[2] \in GoldMarkers
    BY DEF GoldMarkers
  <2>5. PICK part \in {pair[1], pair[2]} : \A i \in DOMAIN returned : part \notin returned[i].body
    BY <1>2, <2>2 DEF InFull
  <2>6. PICK i \in DOMAIN returned : part \in shown[i]
    BY <1>2, <2>3, <2>5 DEF InFull
  <2>7. part \in returned[i].request
    BY <2>5, <2>6 DEF shown
  <2> QED BY <2>4, <2>5, <2>7
<1> QED BY <1>7, <1>8, <1>9 DEF EvidenceAgrees, records, shown

-----------------------------------------------------------------------------
(* Transcripts: what the stream says while the session runs. *)

LEMMA NoneOfType ==
    ASSUME NEW s, IsList(s), NEW ty, \A e \in ToSet(s) : e.type # ty
    PROVE  OfType(s, ty) = <<>>
<1>1. s \in Seq(ToSet(s))
  BY DEF IsList
<1>2. {i \in DOMAIN s : s[i].type = ty} \cap DOMAIN s = {}
  BY DEF ToSet
<1> QED BY <1>1, <1>2, PickedOne DEF OfType

\* What the last error and the last text are when there is one more event.
LEMMA ErrorOfAppend ==
    ASSUME NEW s, IsList(s), NEW e
    PROVE  ErrorOf(Append(s, e)) = IF e.type = "error" THEN (IF e.provider THEN "provider" ELSE "client")
                                   ELSE ErrorOf(s)
<1> DEFINE t == Append(s, e)
           errors == OfType(s, "error")
<1>1. OfType(t, "error") = IF e.type = "error" THEN Append(errors, e) ELSE errors
  BY OfTypeAppend
<1>2. IsList(errors)
  BY OfTypeAppend
<1>3. Append(errors, e) # <<>> /\ Last(Append(errors, e)) = e
  BY <1>2, Lists
<1> HIDE DEF t, errors
<1>4. CASE e.type = "error"
  BY <1>1, <1>3, <1>4 DEF ErrorOf, ProviderFailure, t
<1>5. CASE e.type # "error"
  BY <1>1, <1>5 DEF ErrorOf, t, errors
<1> QED BY <1>4, <1>5

LEMMA LastTextAppend ==
    ASSUME NEW s, IsList(s), NEW e
    PROVE  LastText(Append(s, e)) = e.text
<1> DEFINE t == Append(s, e)
<1>1. t # <<>> /\ Last(t) = e
  BY Lists
<1> HIDE DEF t
<1> QED BY <1>1 DEF LastText, t

\* The first blocks of the messages when there is one more event.
GrowsBy(s, e, t) ==
    /\ ToSet(Blocks(t)) = ToSet(Blocks(s)) \cup {e}
    /\ Firsts(t) = IF BlockOf(s, e.id) THEN Firsts(s) ELSE Append(Firsts(s), e)

LEMMA FirstsAppend ==
    ASSUME NEW s, IsList(s), NEW e, NEW t, t = Append(s, e)
    PROVE  /\ IsList(Firsts(s)) /\ IsList(Blocks(s))
           /\ e.type # "assistant" => Blocks(t) = Blocks(s) /\ Firsts(t) = Firsts(s)
           /\ e.type = "assistant" => GrowsBy(s, e, t)
<1> DEFINE B == Blocks(s)
           C == Blocks(t)
           at == {i \in DOMAIN B : FirstOfMessage(B, i)}
           bt == {i \in DOMAIN C : FirstOfMessage(C, i)}
<1>1. IsList(B) /\ C = IF e.type = "assistant" THEN Append(B, e) ELSE B
  BY OfTypeAppend DEF Blocks
<1>2. Firsts(s) = Picked(B, at) /\ Firsts(t) = Picked(C, bt)
  BY DEF Firsts
<1> HIDE DEF B, C, at, bt
<1>3. IsList(Firsts(s))
  <2>1. B \in Seq(ToSet(B))
    BY <1>1 DEF IsList
  <2> DEFINE p == Picked(B, at)
  <2> HIDE DEF p
  <2>2. p \in Seq(ToSet(B))
    BY <2>1, PickedIn DEF p
  <2>3. p \in Seq(ToSet(p))
    BY <2>2 DEF ToSet
  <2> QED BY <1>2, <2>3 DEF IsList, p
<1>4. ASSUME e.type # "assistant" PROVE Blocks(t) = Blocks(s) /\ Firsts(t) = Firsts(s)
  <2>1. C = B
    BY <1>1, <1>4
  <2> QED BY <2>1 DEF B, C, Firsts
<1>5. ASSUME e.type = "assistant" PROVE GrowsBy(s, e, t)
  <2> DEFINE N == Len(B)
  <2>1. /\ C = Append(B, e) /\ N \in Nat /\ DOMAIN B = 1 .. N
        /\ DOMAIN C = DOMAIN B \cup {N + 1} /\ C[N + 1] = e
        /\ \A i \in DOMAIN B : C[i] = B[i]
        /\ ToSet(C) = ToSet(B) \cup {e}
    BY <1>1, <1>5, Lists
  <2> DEFINE S == ToSet(B) \cup {e}
  <2>2. B \in Seq(S) /\ e \in S
    <3>1. B \in Seq(ToSet(B))
      BY <1>1 DEF IsList
    <3> HIDE DEF B
    <3> QED BY <3>1
  <2> HIDE DEF S, N
  <2>3. ASSUME NEW i \in DOMAIN B PROVE i \in at <=> i \in bt
    <3>1. i \in 1 .. N /\ \A j \in 1 .. i - 1 : j \in DOMAIN B
      BY <2>1
    <3>2. \A j \in 1 .. i - 1 : C[j] = B[j]
      BY <2>1, <3>1
    <3> QED BY <2>1, <3>2 DEF at, bt, FirstOfMessage
  <2>4. N + 1 \in bt <=> ~\E b \in ToSet(B) : b.id = e.id
    <3>1. 1 .. (N + 1) - 1 = DOMAIN B
      BY <2>1
    <3>2. FirstOfMessage(C, N + 1) <=> \A j \in DOMAIN B : B[j].id # e.id
      BY <2>1, <3>1 DEF FirstOfMessage
    <3> QED BY <2>1, <3>2 DEF bt, ToSet
  <2>5. Picked(Append(B, e), bt) = IF N + 1 \in bt THEN Append(Picked(B, at), e) ELSE Picked(B, at)
    BY <2>2, <2>3, PickedAppend DEF N
  <2> QED BY <1>2, <2>1, <2>4, <2>5 DEF B, C, BlockOf, GrowsBy
<1> QED BY <1>1, <1>3, <1>4, <1>5 DEF B

\* A name that is used is open, and stays on record when its call comes back.
LEMMA NamesSame ==
    ASSUME NamesKept, arm' = arm, touched' = touched, returned' = returned, open' = open
    PROVE  NamesKept'
  BY DEF NamesKept, Granted, arm

LEMMA NamesCalls ==
    ASSUME TrialTypes, NamesKept, NEW c \in Offers, Calls(c.name, c.request)
    PROVE  NamesKept'
<1> DEFINE id == Made + 1
           new == [name |-> c.name, request |-> c.request, message |-> message]
<1>1. open' = With(open, id, new) /\ touched' = touched \cup ({c.name} \ Granted)
      /\ returned' = returned /\ Granted' = Granted
  BY DEF Calls, Granted, arm
<1>2. Made \in Nat /\ DOMAIN open \subseteq 1 .. Made
  BY CountsMade DEF TrialTypes, Calls
<1>3. id \notin DOMAIN open
  BY <1>2
<1>4. new.name = c.name
  OBVIOUS
<1> HIDE DEF id, new
<1>5. DOMAIN open' = DOMAIN open \cup {id} /\ open'[id] = new /\ \A x \in DOMAIN open : open'[x] = open[x]
  BY <1>1, <1>3 DEF With
<1>6. {open'[x].name : x \in DOMAIN open'} = {open[x].name : x \in DOMAIN open} \cup {c.name}
  BY <1>4, <1>5
<1>7. {returned'[i].name : i \in DOMAIN returned'} = {returned[i].name : i \in DOMAIN returned}
  BY <1>1
<1> QED BY <1>1, <1>6, <1>7 DEF NamesKept

LEMMA NamesResults ==
    ASSUME TrialTypes, NamesKept, NEW id \in DOMAIN open, NEW t \in Bodies, Results(id, t)
    PROVE  NamesKept'
<1> DEFINE call == open[id]
           entry == [name |-> call.name, request |-> call.request, body |-> t, message |-> call.message]
<1>1. open' = Restrict(open, DOMAIN open \ {id}) /\ touched' = touched
      /\ returned' = Append(returned, entry) /\ Granted' = Granted /\ IsList(returned)
  BY DEF Results, Granted, arm, TrialTypes
<1>2. entry.name = open[id].name
  OBVIOUS
<1> HIDE DEF entry
<1>3. DOMAIN open' = DOMAIN open \ {id} /\ \A x \in DOMAIN open \ {id} : open'[x] = open[x]
  BY <1>1 DEF Restrict
<1>4. /\ DOMAIN returned' = DOMAIN returned \cup {Len(returned) + 1}
      /\ returned'[Len(returned) + 1] = entry
      /\ \A i \in DOMAIN returned : returned'[i] = returned[i]
  BY <1>1, Lists
<1>5. {returned'[i].name : i \in DOMAIN returned'} = {returned[i].name : i \in DOMAIN returned} \cup {open[id].name}
  BY <1>2, <1>4
<1>6. {open[x].name : x \in DOMAIN open} = {open'[x].name : x \in DOMAIN open'} \cup {open[id].name}
  BY <1>3
<1> QED BY <1>1, <1>5, <1>6 DEF NamesKept

-----------------------------------------------------------------------------
(* Transcripts: Claude's stream. *)

LEMMA ClaudeInit ==
    ASSUME TranscriptInit, client = "claude" PROVE ClaudeLives
<1>1. /\ stream = <<InitEvent>> /\ message = 0 /\ touched = {} /\ failure = "none"
      /\ <<InitEvent>> = Append(<<>>, InitEvent)
  BY DEF TranscriptInit
<1>2. InitEvent.type = "system"
  BY DEF InitEvent
<1>3. \A ty : OfType(stream, ty) = IF "system" = ty THEN Append(<<>>, InitEvent) ELSE <<>>
  <2>1. ASSUME NEW ty PROVE OfType(stream, ty) = IF "system" = ty THEN Append(<<>>, InitEvent) ELSE <<>>
    <3> DEFINE t == Append(<<>>, InitEvent)
    <3>1. OfType(t, ty) = IF InitEvent.type = ty THEN Append(OfType(<<>>, ty), InitEvent) ELSE OfType(<<>>, ty)
      BY NoList, OfTypeAppend
    <3> HIDE DEF t
    <3>2. stream = t
      BY <1>1 DEF t
    <3> QED BY <1>2, <3>1, <3>2, NothingPicked
  <2> QED BY <2>1
<1>4. OfType(stream, "system") = <<InitEvent>> /\ OfType(stream, "result") = <<>>
      /\ Blocks(stream) = <<>>
  BY <1>1, <1>3 DEF Blocks
<1>5. ToSet(<<InitEvent>>) = {InitEvent} /\ ToSet(<<>>) = {}
  BY DEF ToSet
<1>6. Firsts(stream) = <<>>
  <2>1. <<>> \in Seq({}) /\ DOMAIN <<>> = {}
    OBVIOUS
  <2>2. \A at : at \cap DOMAIN <<>> = {} => Picked(<<>>, at) = <<>>
    BY <2>1, PickedOne
  <2> QED BY <1>4, <2>1, <2>2 DEF Firsts
<1>7. ToSet(Blocks(stream)) = {} /\ Len(Firsts(stream)) = message /\ 1 .. message = {}
  BY <1>1, <1>4, <1>5, <1>6
<1>8. ~ (message > 0)
  BY <1>1
<1> QED BY <1>1, <1>4, <1>5, <1>7, <1>8 DEF ClaudeLives, BlocksCounted

LEMMA BlocksStart ==
    ASSUME TrialTypes, BlocksCounted, NEW n \in Tokens, stream' = stream, message' = message + 1,
           spent' = Append(spent, n)
    PROVE  BlocksCounted'
<1>1. message \in Nat /\ spent \in Seq(Nat) /\ Len(spent) = message /\ n \in Nat
  BY TranscriptAssumption DEF TrialTypes
<1>2. \A k \in 1 .. message : spent'[k] = spent[k]
  BY <1>1
<1>3. /\ message' \in Nat /\ message' > 0 /\ message' - 1 = message
      /\ 1 .. message \subseteq 1 .. message' /\ message' \in 1 .. message' /\ message' \notin 1 .. message
  BY <1>1
<1>4. Blocks(stream') = Blocks(stream) /\ Firsts(stream') = Firsts(stream)
  OBVIOUS
<1>5. \A m : HasBlock(m)' <=> HasBlock(m)
  BY <1>4 DEF HasBlock, BlockOf
<1>6. ~HasBlock(message')
  BY <1>3 DEF HasBlock, BlockOf, BlocksCounted
<1>7. (\A m \in 1 .. message : HasBlock(m)) =>
          Len(Firsts(stream)) = message /\ \A k \in 1 .. message : Firsts(stream)[k].usage = spent[k]
  BY DEF BlocksCounted
<1>8. \A e \in ToSet(Blocks(stream)) : e.id \in 1 .. message
  BY DEF BlocksCounted
<1>9. \A e \in ToSet(Blocks(stream')) : e.id \in 1 .. message'
  BY <1>3, <1>4, <1>8
<1>10. ~ \A m \in 1 .. message' : HasBlock(m)
  BY <1>3, <1>6
<1> DEFINE H == \A m \in 1 .. message : HasBlock(m)
           F == Firsts(stream)
<1>11. H => Len(F) = message' - 1 /\ \A k \in 1 .. message' - 1 : F[k].usage = spent'[k]
  <2> HIDE DEF F, H
  <2> SUFFICES ASSUME H PROVE Len(F) = message' - 1 /\ \A k \in 1 .. message' - 1 : F[k].usage = spent'[k]
    OBVIOUS
  <2>1. Len(F) = message /\ \A k \in 1 .. message : F[k].usage = spent[k]
    BY <1>7 DEF H, F
  <2> QED BY <1>2, <1>3, <2>1
<1> HIDE DEF F
<1>12. \A m \in 1 .. message' - 1 : m \in 1 .. message
  BY <1>3
<1>13. (\A m \in 1 .. message' - 1 : HasBlock(m)') => H
  BY <1>3, <1>5
<1> HIDE DEF H
<1>14. ~ \A m \in 1 .. message' : HasBlock(m)'
  BY <1>5, <1>10
<1> QED BY <1>4, <1>9, <1>11, <1>13, <1>14 DEF BlocksCounted, F

LEMMA BlocksGrow ==
    ASSUME TrialTypes, BlocksCounted, message > 0, message' = message, spent' = spent,
           NEW e, stream' = Append(stream, e),
           e.type = "assistant", e.id = message, e.usage = spent[message]
    PROVE  BlocksCounted'
<1>1. message \in Nat /\ IsList(stream)
  <2>1. spent \in Seq(Nat) /\ Len(spent) = message
    BY DEF TrialTypes
  <2> QED BY <2>1 DEF TrialTypes
<1> DEFINE B == ToSet(Blocks(stream))
           F == Firsts(stream)
           G == Firsts(stream')
<1>2. /\ IsList(F) /\ ToSet(Blocks(stream')) = B \cup {e}
      /\ G = IF HasBlock(message) THEN F ELSE Append(F, e)
  <2>1. IsList(stream) /\ stream' = Append(stream, e) /\ e.type = "assistant"
    BY <1>1
  <2>2. IsList(Firsts(stream))
    BY <2>1, FirstsAppend
  <2>3. GrowsBy(stream, e, stream')
    BY <2>1, FirstsAppend
  <2>4. /\ ToSet(Blocks(stream')) = ToSet(Blocks(stream)) \cup {e}
        /\ Firsts(stream') = IF BlockOf(stream, e.id) THEN Firsts(stream) ELSE Append(Firsts(stream), e)
    BY <2>3, Zenon DEF GrowsBy
  <2>5. BlockOf(stream, e.id) <=> HasBlock(message)
    BY DEF HasBlock
  <2> QED BY <2>2, <2>4, <2>5
<1>3. /\ (\A m \in 1 .. message : HasBlock(m)) =>
             Len(F) = message /\ \A k \in 1 .. message : F[k].usage = spent[k]
      /\ message > 0 /\ ~HasBlock(message) /\ (\A m \in 1 .. message - 1 : HasBlock(m)) =>
             Len(F) = message - 1 /\ \A k \in 1 .. message - 1 : F[k].usage = spent[k]
      /\ \A b \in B : b.id \in 1 .. message
  BY DEF BlocksCounted
<1> HIDE DEF F, G
<1>4. \A m : HasBlock(m)' <=> HasBlock(m) \/ m = message
  BY <1>2 DEF HasBlock, BlockOf
<1>5. \A b \in ToSet(Blocks(stream')) : b.id \in 1 .. message
  BY <1>1, <1>2, <1>3
<1>6. HasBlock(message)'
  BY <1>4
<1>7. ASSUME \A m \in 1 .. message : HasBlock(m)'
      PROVE  Len(G) = message /\ \A k \in 1 .. message : G[k].usage = spent[k]
  <2>1. \A m \in 1 .. message - 1 : m \in 1 .. message /\ m # message
    BY <1>1
  <2>2. \A m \in 1 .. message - 1 : HasBlock(m)
    BY <1>4, <1>7, <2>1
  <2>3. CASE HasBlock(message)
    <3>1. \A m \in 1 .. message : m = message \/ m \in 1 .. message - 1
      BY <1>1
    <3>2. \A m \in 1 .. message : HasBlock(m)
      BY <2>2, <2>3, <3>1
    <3> QED BY <1>2, <1>3, <2>3, <3>2
  <2>4. CASE ~HasBlock(message)
    <3>1. G = Append(F, e) /\ Len(F) = message - 1 /\ \A k \in 1 .. message - 1 : F[k].usage = spent[k]
      BY <1>2, <1>3, <2>2, <2>4
    <3>2. /\ Len(Append(F, e)) = Len(F) + 1 /\ Append(F, e)[Len(F) + 1] = e
          /\ DOMAIN F = 1 .. Len(F) /\ \A i \in DOMAIN F : Append(F, e)[i] = F[i]
      BY <1>2, Lists
    <3>3. Len(F) + 1 = message
      BY <1>1, <3>1
    <3>4. Len(G) = message /\ G[message] = e
      BY <3>1, <3>2, <3>3
    <3>5. \A k \in 1 .. message - 1 : G[k].usage = spent[k]
      BY <3>1, <3>2
    <3>6. \A m \in 1 .. message : m = message \/ m \in 1 .. message - 1
      BY <1>1
    <3> QED BY <3>4, <3>5, <3>6
  <2> QED BY <2>3, <2>4
<1> DEFINE all == \A m \in 1 .. message : HasBlock(m)'
<1>8. all => Len(G) = message /\ \A k \in 1 .. message : G[k].usage = spent[k]
  BY <1>7
<1> HIDE DEF all
<1>9. (\A m \in 1 .. message' : HasBlock(m)') => all
  BY DEF all
<1>10. HasBlock(message)' /\ message' = message /\ spent' = spent
  BY <1>6
<1> QED BY <1>5, <1>8, <1>9, <1>10 DEF BlocksCounted, G

LEMMA BlocksSame ==
    ASSUME BlocksCounted, message' = message, spent' = spent,
           Blocks(stream') = Blocks(stream), Firsts(stream') = Firsts(stream)
    PROVE  BlocksCounted'
<1>1. \A m : HasBlock(m)' <=> HasBlock(m)
  BY DEF HasBlock, BlockOf
<1> QED BY <1>1 DEF BlocksCounted

LEMMA ClaudeStep ==
    ASSUME TrialTypes, ClaudeLives, client = "claude", over = "no", TranscriptNext, over' = "no"
    PROVE  ClaudeLives'
<1>1. IsList(stream) /\ message \in Nat
  <2>1. spent \in Seq(Nat) /\ Len(spent) = message
    BY DEF TrialTypes
  <2> QED BY <2>1 DEF TrialTypes
<1>2. ASSUME NEW n \in Tokens, MessageStarts(n) PROVE ClaudeLives'
  <2>1. stream' = stream /\ message' = message + 1 /\ spent' = Append(spent, n)
        /\ touched' = touched /\ failure' = failure /\ arm' = arm
    BY <1>2, StartsStream DEF MessageStarts
  <2>2. BlocksCounted'
    BY <2>1, BlocksStart DEF ClaudeLives
  <2>3. InitEvent' = InitEvent /\ Granted' = Granted
    BY <2>1 DEF InitEvent, Granted, arm
  <2> QED BY <2>1, <2>2, <2>3 DEF ClaudeLives
\* A block of the message.
<1>3. ASSUME NEW b, stream' = Append(stream, Block(b)), message > 0, message' = message, spent' = spent,
             failure' = failure, arm' = arm,
             touched' = touched \cup (IF b.type = "tool_use" THEN {b.name} \ Granted ELSE {})
      PROVE  ClaudeLives'
  <2> DEFINE e == Block(b)
             B == ToSet(Blocks(stream))
  <2>1. e.type = "assistant" /\ e.id = message /\ e.usage = spent[message] /\ e.block = b
    BY DEF Block
  <2> HIDE DEF e
  <2>2. stream' = Append(stream, e)
    BY <1>3 DEF e
  <2>3. BlocksCounted'
    BY <1>3, <2>1, <2>2, BlocksGrow DEF ClaudeLives
  <2>4. OfType(stream', "system") = OfType(stream, "system") /\ OfType(stream', "result") = OfType(stream, "result")
    BY <1>1, <2>1, <2>2, OfTypeAppend
  <2>5. ToSet(Blocks(stream')) = B \cup {e}
    BY <1>1, <2>1, <2>2, FirstsAppend, Zenon DEF GrowsBy
  <2>6. InitEvent' = InitEvent /\ Granted' = Granted
    BY <1>3 DEF InitEvent, Granted, arm
  <2> DEFINE Used(X) == {c.name : c \in {x \in {y.block : y \in X} : x.type = "tool_use"}}
  <2>7. Used(B \cup {e}) = Used(B) \cup (IF b.type = "tool_use" THEN {b.name} ELSE {})
    BY <2>1
  <2>8. touched = Used(B) \ Granted
    BY DEF ClaudeLives
  <2>9. touched' = Used(ToSet(Blocks(stream'))) \ Granted'
    BY <1>3, <2>5, <2>6, <2>7, <2>8
  <2> QED BY <1>3, <2>3, <2>4, <2>6, <2>9 DEF ClaudeLives
<1>4. ASSUME Says PROVE ClaudeLives'
  <2> DEFINE b == [type |-> "text", text |-> message]
  <2>1. stream' = Append(stream, Block(b)) /\ message' = message /\ spent' = spent
        /\ failure' = failure /\ arm' = arm /\ touched' = touched
    BY <1>4 DEF Says
  <2>2. message > 0
    BY <1>4 DEF Says, TrialTypes
  <2>3. b.type # "tool_use"
    OBVIOUS
  <2> HIDE DEF b
  <2> QED BY <1>3, <2>1, <2>2, <2>3
<1>5. ASSUME NEW c \in Offers, Calls(c.name, c.request) PROVE ClaudeLives'
  <2> DEFINE b == [type |-> "tool_use", id |-> Made + 1, name |-> c.name, request |-> c.request]
  <2>1. stream' = Append(stream, Block(b)) /\ message' = message /\ spent' = spent /\ message > 0
        /\ failure' = failure /\ arm' = arm /\ touched' = touched \cup ({c.name} \ Granted)
    BY <1>5 DEF Calls
  <2>2. b.type = "tool_use" /\ b.name = c.name
    OBVIOUS
  <2> HIDE DEF b
  <2> QED BY <1>3, <2>1, <2>2
<1>6. ASSUME NEW id \in DOMAIN open, NEW t \in Bodies, Results(id, t) PROVE ClaudeLives'
  <2> DEFINE e == [type |-> "user", id |-> id, body |-> t]
  <2>1. stream' = Append(stream, e) /\ message' = message /\ spent' = spent
        /\ failure' = failure /\ arm' = arm /\ touched' = touched
    BY <1>6 DEF Results
  <2>2. e.type = "user"
    OBVIOUS
  <2> HIDE DEF e
  <2>3. OfType(stream', "system") = OfType(stream, "system") /\ OfType(stream', "result") = OfType(stream, "result")
    BY <1>1, <2>1, <2>2, OfTypeAppend
  <2>4. Blocks(stream') = Blocks(stream) /\ Firsts(stream') = Firsts(stream)
    BY <1>1, <2>1, <2>2, FirstsAppend
  <2>5. BlocksCounted'
    BY <2>1, <2>4, BlocksSame DEF ClaudeLives
  <2>6. InitEvent' = InitEvent /\ Granted' = Granted
    BY <2>1 DEF InitEvent, Granted, arm
  <2> QED BY <2>1, <2>3, <2>4, <2>5, <2>6 DEF ClaudeLives
<1>7. ASSUME NEW p \in BOOLEAN, Errs(p) PROVE FALSE
  BY <1>7 DEF Errs
<1>8. ASSUME NEW code \in {0, 1}, Finishes(code) PROVE FALSE
  BY <1>8 DEF Finishes
<1> QED BY <1>2, <1>4, <1>5, <1>6, <1>7, <1>8 DEF TranscriptNext

-----------------------------------------------------------------------------
(* Transcripts: Codex's stream. *)

LEMMA CodexInit ==
    ASSUME TranscriptInit, client = "codex" PROVE CodexLives
<1>1. /\ stream = <<>> /\ said = 0 /\ touched = {} /\ failure = "none" /\ returned = <<>> /\ open = <<>>
      /\ DOMAIN <<>> = {}
  BY DEF TranscriptInit
<1>2. OfType(<<>>, "error") = <<>> /\ OfType(<<>>, "turn.completed") = <<>>
      /\ Items(<<>>, "agent_message") = <<>>
  BY NothingPicked
<1> QED BY <1>1, <1>2 DEF CodexLives, LastText, ErrorOf, NamesKept

LEMMA CodexStep ==
    ASSUME TrialTypes, CodexLives, client = "codex", over = "no", TranscriptNext, over' = "no"
    PROVE  CodexLives'
<1>1. IsList(stream)
  BY DEF TrialTypes
<1>2. ASSUME NEW n \in Tokens, MessageStarts(n) PROVE CodexLives'
  <2>1. stream' = stream
    BY <1>2, StartsStream
  <2>2. NamesKept'
    BY <1>2, NamesSame DEF MessageStarts, CodexLives
  <2> QED BY <1>2, <2>1, <2>2 DEF CodexLives, MessageStarts
<1>3. ASSUME Says PROVE CodexLives'
  <2> DEFINE e == [type |-> "item", item |-> "agent_message", text |-> message]
             s == Items(stream, "agent_message")
  <2>1. stream' = Append(stream, e)
    BY <1>3 DEF Says
  <2>2. e.type = "item" /\ e.item = "agent_message" /\ e.text = message
    OBVIOUS
  <2> HIDE DEF e, s
  <2>3. Items(stream', "agent_message") = Append(s, e) /\ IsList(s)
    BY <1>1, <2>1, <2>2, ItemsAppend DEF s
  <2>4. LastText(Items(stream', "agent_message")) = said'
    <3>1. LastText(Append(s, e)) = message
      BY <2>2, <2>3, LastTextAppend
    <3> QED BY <1>3, <2>3, <3>1 DEF Says
  <2>5. ErrorOf(stream') = ErrorOf(stream) /\ OfType(stream', "turn.completed") = OfType(stream, "turn.completed")
    BY <1>1, <2>1, <2>2, OfTypeAppend, ErrorOfAppend
  <2>6. NamesKept'
    BY <1>3, NamesSame DEF Says, CodexLives
  <2> QED BY <1>3, <2>4, <2>5, <2>6 DEF CodexLives, Says
<1>4. ASSUME NEW c \in Offers, Calls(c.name, c.request) PROVE CodexLives'
  <2>1. stream' = stream
    BY <1>4 DEF Calls
  <2>2. NamesKept'
    BY <1>4, NamesCalls DEF CodexLives
  <2> QED BY <1>4, <2>1, <2>2 DEF CodexLives, Calls
<1>5. ASSUME NEW id \in DOMAIN open, NEW t \in Bodies, Results(id, t) PROVE CodexLives'
  <2> DEFINE e == [type |-> "item", item |-> "call", name |-> open[id].name,
                   request |-> open[id].request, body |-> t]
  <2>1. stream' = Append(stream, e)
    BY <1>5 DEF Results
  <2>2. e.type = "item" /\ e.item = "call"
    OBVIOUS
  <2> HIDE DEF e
  <2>3. Items(stream', "agent_message") = Items(stream, "agent_message")
    BY <1>1, <2>1, <2>2, ItemsAppend
  <2>4. ErrorOf(stream') = ErrorOf(stream) /\ OfType(stream', "turn.completed") = OfType(stream, "turn.completed")
    BY <1>1, <2>1, <2>2, OfTypeAppend, ErrorOfAppend
  <2>5. NamesKept'
    BY <1>5, NamesResults DEF CodexLives
  <2> QED BY <1>5, <2>3, <2>4, <2>5 DEF CodexLives, Results
<1>6. ASSUME NEW p \in BOOLEAN, Errs(p) PROVE CodexLives'
  <2> DEFINE e == [type |-> "error", provider |-> p]
  <2>1. stream' = Append(stream, e)
    BY <1>6 DEF Errs
  <2>2. e.type = "error" /\ e.provider = p
    OBVIOUS
  <2> HIDE DEF e
  <2>3. Items(stream', "agent_message") = Items(stream, "agent_message")
    BY <1>1, <2>1, <2>2, ItemsAppend
  <2>4. ErrorOf(stream') = failure' /\ OfType(stream', "turn.completed") = OfType(stream, "turn.completed")
    BY <1>1, <1>6, <2>1, <2>2, OfTypeAppend, ErrorOfAppend DEF Errs
  <2>5. NamesKept'
    BY <1>6, NamesSame DEF Errs, CodexLives
  <2> QED BY <1>6, <2>3, <2>4, <2>5 DEF CodexLives, Errs
<1>7. ASSUME NEW code \in {0, 1}, Finishes(code) PROVE FALSE
  BY <1>7 DEF Finishes
<1> QED BY <1>2, <1>3, <1>4, <1>5, <1>6, <1>7 DEF TranscriptNext

-----------------------------------------------------------------------------
(* Transcripts: OpenCode's stream. *)

LEMMA OpencodeInit ==
    ASSUME TranscriptInit, client = "opencode" PROVE OpencodeLives
<1>1. /\ stream = <<>> /\ said = 0 /\ message = 0 /\ touched = {} /\ failure = "none" /\ returned = <<>>
      /\ open = <<>> /\ DOMAIN <<>> = {}
  BY DEF TranscriptInit
<1>2. /\ OfType(<<>>, "error") = <<>> /\ OfType(<<>>, "step_start") = <<>>
      /\ OfType(<<>>, "step_finish") = <<>>
  BY NothingPicked
<1>3. ToSet(<<>>) = {} /\ 1 .. 0 = {} /\ ~ (0 > 0)
  BY DEF ToSet
<1>4. TextsKnown /\ StepsCounted
  BY <1>1, <1>2, <1>3 DEF TextsKnown, StepsCounted, Texts
<1>5. ErrorOf(stream) = failure /\ NamesKept
  BY <1>1, <1>2 DEF ErrorOf, NamesKept
<1> QED BY <1>1, <1>2, <1>3, <1>4, <1>5 DEF OpencodeLives

\* Any event that is not a text leaves the texts alone.
LEMMA TextsSame ==
    ASSUME IsList(stream), TextsKnown, NEW e, stream' = Append(stream, e), e.type # "text", said' = said
    PROVE  TextsKnown'
<1>1. /\ DOMAIN stream' = DOMAIN stream \cup {Len(stream) + 1} /\ stream'[Len(stream) + 1] = e
      /\ \A i \in DOMAIN stream : stream'[i] = stream[i] /\ i # Len(stream) + 1
  BY Lists
<1>2. Texts(stream') = Texts(stream) /\ \A i \in Texts(stream) : stream'[i] = stream[i]
  BY <1>1 DEF Texts
<1>3. {i \in Texts(stream') : stream'[i].id = said'} = {i \in Texts(stream) : stream[i].id = said}
  BY <1>2
<1> QED BY <1>2, <1>3 DEF TextsKnown

LEMMA TextsSays ==
    ASSUME TrialTypes, TextsKnown, client = "opencode", Says
    PROVE  TextsKnown'
<1> DEFINE e == [type |-> "text", id |-> message, text |-> message]
           n == Len(stream) + 1
<1>1. stream' = Append(stream, e) /\ said' = message /\ message > said /\ said \in Nat /\ message \in Nat
  <2>1. spent \in Seq(Nat) /\ Len(spent) = message
    BY DEF TrialTypes
  <2> QED BY <2>1 DEF Says, TrialTypes
<1>2. e.type = "text" /\ e.id = message /\ e.text = message
  OBVIOUS
<1> HIDE DEF e
<1>3. /\ DOMAIN stream' = DOMAIN stream \cup {n} /\ stream'[n] = e
      /\ \A i \in DOMAIN stream : stream'[i] = stream[i] /\ i # n
  BY <1>1, Lists DEF TrialTypes
<1> HIDE DEF n
<1>4. Texts(stream') = Texts(stream) \cup {n} /\ \A i \in Texts(stream) : stream'[i] = stream[i] /\ i # n
  BY <1>2, <1>3 DEF Texts
<1>5. \A i \in Texts(stream) : stream'[i].id = stream'[i].text /\ stream'[i].id \in 1 .. said
  BY <1>4 DEF TextsKnown
<1>6. \A k \in 1 .. said : k \in 1 .. message /\ k # message
  BY <1>1
<1>7. message \in 1 .. message
  BY <1>1
<1>8. \A i \in Texts(stream') : stream'[i].id = stream'[i].text /\ stream'[i].id \in 1 .. said'
  <2> SUFFICES ASSUME NEW i \in Texts(stream')
               PROVE  stream'[i].id = stream'[i].text /\ stream'[i].id \in 1 .. said'
    OBVIOUS
  <2>1. CASE i \in Texts(stream)
    BY <1>1, <1>5, <1>6, <2>1
  <2>2. CASE i = n
    BY <1>1, <1>2, <1>3, <1>7, <2>2
  <2> QED BY <1>4, <2>1, <2>2
<1>9. {i \in Texts(stream') : stream'[i].id = said'} = {n}
  <2>1. stream'[n].id = said'
    BY <1>1, <1>2, <1>3
  <2>2. \A i \in Texts(stream) : stream'[i].id # said'
    BY <1>1, <1>5, <1>6
  <2> QED BY <1>4, <2>1, <2>2
<1> QED BY <1>8, <1>9 DEF TextsKnown

\* Any event that is not of a step leaves the steps alone.
LEMMA StepsSame ==
    ASSUME IsList(stream), NEW e, stream' = Append(stream, e), e.type \notin {"step_start", "step_finish"}
    PROVE  /\ OfType(stream', "step_start") = OfType(stream, "step_start")
           /\ OfType(stream', "step_finish") = OfType(stream, "step_finish")
<1>1. OfType(stream', "step_start") = OfType(stream, "step_start")
  BY OfTypeAppend
<1>2. OfType(stream', "step_finish") = OfType(stream, "step_finish")
  BY OfTypeAppend
<1> QED BY <1>1, <1>2

LEMMA OpencodeStarts ==
    ASSUME TrialTypes, OpencodeLives, client = "opencode", NEW m \in Tokens, MessageStarts(m)
    PROVE  OpencodeLives'
<1> DEFINE start == [type |-> "step_start", id |-> message + 1]
           finish == [type |-> "step_finish", tokens |-> spent[message]]
           s == IF message = 0 THEN stream ELSE Append(stream, finish)
<1>1. /\ IsList(stream) /\ message \in Nat /\ spent \in Seq(Nat) /\ Len(spent) = message /\ m \in Nat
      /\ message' = message + 1 /\ spent' = Append(spent, m) /\ said' = said /\ failure' = failure
  <2>1. spent \in Seq(Nat) /\ Len(spent) = message
    BY DEF TrialTypes
  <2> QED BY <2>1, TranscriptAssumption DEF MessageStarts, TrialTypes
<1>2. start.type = "step_start" /\ start.id = message + 1
      /\ finish.type = "step_finish" /\ finish.tokens = spent[message]
  OBVIOUS
<1>3. IsList(s) /\ stream' = Append(s, start)
  BY <1>1, StartsStream
<1>4. message # 0 => s = Append(stream, finish)
  OBVIOUS
<1>5. message = 0 => s = stream
  OBVIOUS
<1> HIDE DEF start, finish, s
\* What the end of the message before adds.
<1>6. OfType(s, "step_start") = OfType(stream, "step_start") /\ ErrorOf(s) = ErrorOf(stream)
      /\ OfType(s, "step_finish") = IF message = 0 THEN OfType(stream, "step_finish")
                                    ELSE Append(OfType(stream, "step_finish"), finish)
  <2>1. CASE message = 0
    BY <1>5, <2>1
  <2>2. CASE message # 0
    <3>1. OfType(Append(stream, finish), "step_start") = OfType(stream, "step_start")
      BY <1>1, <1>2, OfTypeAppend
    <3>2. OfType(Append(stream, finish), "step_finish") = Append(OfType(stream, "step_finish"), finish)
      BY <1>1, <1>2, OfTypeAppend
    <3>3. ErrorOf(Append(stream, finish)) = ErrorOf(stream)
      BY <1>1, <1>2, ErrorOfAppend
    <3> QED BY <1>4, <2>2, <3>1, <3>2, <3>3
  <2> QED BY <2>1, <2>2
<1>7. /\ OfType(stream', "step_start") = Append(OfType(s, "step_start"), start)
      /\ OfType(stream', "step_finish") = OfType(s, "step_finish")
      /\ ErrorOf(stream') = ErrorOf(s)
  BY <1>2, <1>3, OfTypeAppend, ErrorOfAppend
<1>8. {e.id : e \in ToSet(OfType(stream', "step_start"))} = 1 .. message'
  <2> DEFINE p == OfType(stream, "step_start")
  <2>1. IsList(p)
    BY <1>1, OfTypeAppend
  <2> HIDE DEF p
  <2>2. ToSet(Append(p, start)) = ToSet(p) \cup {start}
    BY <2>1, Lists
  <2>3. {e.id : e \in ToSet(p)} = 1 .. message
    BY DEF OpencodeLives, p
  <2>4. 1 .. message' = (1 .. message) \cup {message + 1}
    BY <1>1
  <2>5. ToSet(OfType(stream', "step_start")) = ToSet(p) \cup {start}
    BY <1>6, <1>7, <2>2 DEF p
  <2> QED BY <1>2, <2>3, <2>4, <2>5
<1>9. TextsKnown'
  <2> DEFINE T == {i \in Texts(stream) : stream[i].id = said}
  <2>1. Texts(s) = Texts(stream) /\ \A i \in Texts(stream) : s[i] = stream[i]
    <3>1. CASE message = 0
      BY <1>5, <3>1
    <3>2. CASE message # 0
      <4>1. /\ DOMAIN s = DOMAIN stream \cup {Len(stream) + 1} /\ s[Len(stream) + 1] = finish
            /\ \A i \in DOMAIN stream : s[i] = stream[i] /\ i # Len(stream) + 1
        <5>1. s = Append(stream, finish)
          BY <1>4, <3>2
        <5> QED BY <1>1, <5>1, Lists
      <4> QED BY <1>2, <4>1 DEF Texts
    <3> QED BY <3>1, <3>2
  <2>2. Texts(stream') = Texts(s) /\ \A i \in Texts(s) : stream'[i] = s[i]
    <3>1. /\ DOMAIN stream' = DOMAIN s \cup {Len(s) + 1} /\ stream'[Len(s) + 1] = start
          /\ \A i \in DOMAIN s : stream'[i] = s[i] /\ i # Len(s) + 1
      BY <1>3, Lists
    <3> QED BY <1>2, <3>1 DEF Texts
  <2>3. Texts(stream') = Texts(stream) /\ \A i \in Texts(stream) : stream'[i] = stream[i]
    BY <2>1, <2>2
  <2>4. {i \in Texts(stream') : stream'[i].id = said'} = {i \in Texts(stream) : stream[i].id = said}
    BY <1>1, <2>3
  <2>5. TextsKnown
    BY DEF OpencodeLives
  <2> QED BY <1>1, <2>3, <2>4, <2>5 DEF TextsKnown
<1>10. StepsCounted'
  <2> DEFINE f == OfType(stream, "step_finish")
             g == OfType(stream', "step_finish")
  <2>1. IsList(f) /\ g = IF message = 0 THEN f ELSE Append(f, finish)
    BY <1>1, <1>6, <1>7, OfTypeAppend
  <2>2. /\ message = 0 => f = <<>>
        /\ message > 0 => Len(f) = message - 1 /\ \A k \in 1 .. message - 1 : f[k].tokens = spent[k]
    BY DEF OpencodeLives, StepsCounted
  <2> HIDE DEF f, g
  <2>3. \A k \in 1 .. message : spent'[k] = spent[k]
    BY <1>1
  <2>4. Len(g) = message /\ \A k \in 1 .. message : g[k].tokens = spent[k]
    <3>1. CASE message = 0
      BY <2>1, <2>2, <3>1
    <3>2. CASE message # 0
      <4>1. Len(f) = message - 1 /\ \A k \in 1 .. message - 1 : f[k].tokens = spent[k]
        <5>1. message > 0
          BY <1>1, <3>2
        <5> QED BY <2>2, <5>1
      <4>2. /\ Len(Append(f, finish)) = Len(f) + 1 /\ Append(f, finish)[Len(f) + 1] = finish
            /\ DOMAIN f = 1 .. Len(f) /\ \A i \in DOMAIN f : Append(f, finish)[i] = f[i]
        BY <2>1, Lists
      <4>3. Len(f) + 1 = message
        BY <1>1, <4>1
      <4>4. Len(g) = message /\ g[message] = finish /\ \A k \in 1 .. message - 1 : g[k] = f[k]
        BY <2>1, <3>2, <4>1, <4>2, <4>3
      <4>5. \A k \in 1 .. message : k = message \/ k \in 1 .. message - 1
        BY <1>1
      <4> QED BY <1>2, <4>1, <4>4, <4>5
    <3> QED BY <3>1, <3>2
  <2>5. message' # 0 /\ message' - 1 = message
    BY <1>1
  <2>6. Len(g) = message' - 1 /\ \A k \in 1 .. message' - 1 : g[k].tokens = spent'[k]
    BY <2>3, <2>4, <2>5
  <2> QED BY <2>5, <2>6 DEF StepsCounted, g
<1>11. NamesKept'
  BY NamesSame DEF MessageStarts, OpencodeLives
<1> QED BY <1>1, <1>6, <1>7, <1>8, <1>9, <1>10, <1>11 DEF OpencodeLives

LEMMA OpencodeStep ==
    ASSUME TrialTypes, OpencodeLives, client = "opencode", over = "no", TranscriptNext, over' = "no"
    PROVE  OpencodeLives'
<1>1. IsList(stream)
  BY DEF TrialTypes
<1>2. ASSUME NEW n \in Tokens, MessageStarts(n) PROVE OpencodeLives'
  BY <1>2, OpencodeStarts
<1>3. ASSUME Says PROVE OpencodeLives'
  <2> DEFINE e == [type |-> "text", id |-> message, text |-> message]
  <2>1. stream' = Append(stream, e)
    BY <1>3 DEF Says
  <2>2. e.type = "text"
    OBVIOUS
  <2> HIDE DEF e
  <2>3. OfType(stream', "step_start") = OfType(stream, "step_start")
        /\ OfType(stream', "step_finish") = OfType(stream, "step_finish")
    BY <1>1, <2>1, <2>2, StepsSame
  <2>4. ErrorOf(stream') = ErrorOf(stream)
    BY <1>1, <2>1, <2>2, ErrorOfAppend
  <2>5. NamesKept' /\ TextsKnown'
    BY <1>3, NamesSame, TextsSays DEF Says, OpencodeLives
  <2>6. message' = message /\ spent' = spent /\ failure' = failure
    BY <1>3 DEF Says
  <2>7. StepsCounted'
    BY <2>3, <2>6 DEF StepsCounted, OpencodeLives
  <2> QED BY <2>3, <2>4, <2>5, <2>6, <2>7 DEF OpencodeLives
<1>4. ASSUME NEW c \in Offers, Calls(c.name, c.request) PROVE OpencodeLives'
  <2>1. stream' = stream /\ message' = message /\ spent' = spent /\ failure' = failure /\ said' = said
    BY <1>4 DEF Calls
  <2>2. NamesKept'
    BY <1>4, NamesCalls DEF OpencodeLives
  <2>3. StepsCounted' /\ TextsKnown'
    BY <2>1 DEF StepsCounted, TextsKnown, OpencodeLives
  <2> QED BY <2>1, <2>2, <2>3 DEF OpencodeLives
<1>5. ASSUME NEW id \in DOMAIN open, NEW t \in Bodies, Results(id, t) PROVE OpencodeLives'
  <2> DEFINE e == [type |-> "tool_use", name |-> open[id].name, request |-> open[id].request, body |-> t]
  <2>1. stream' = Append(stream, e)
    BY <1>5 DEF Results
  <2>2. e.type = "tool_use"
    OBVIOUS
  <2> HIDE DEF e
  <2>3. OfType(stream', "step_start") = OfType(stream, "step_start")
        /\ OfType(stream', "step_finish") = OfType(stream, "step_finish")
    BY <1>1, <2>1, <2>2, StepsSame
  <2>4. ErrorOf(stream') = ErrorOf(stream)
    BY <1>1, <2>1, <2>2, ErrorOfAppend
  <2>5. message' = message /\ spent' = spent /\ failure' = failure /\ said' = said
    BY <1>5 DEF Results
  <2>6. NamesKept' /\ TextsKnown'
    BY <1>1, <1>5, <2>1, <2>2, <2>5, NamesResults, TextsSame DEF OpencodeLives
  <2>7. StepsCounted'
    BY <2>3, <2>5 DEF StepsCounted, OpencodeLives
  <2> QED BY <2>3, <2>4, <2>5, <2>6, <2>7 DEF OpencodeLives
<1>6. ASSUME NEW p \in BOOLEAN, Errs(p) PROVE OpencodeLives'
  <2> DEFINE e == [type |-> "error", provider |-> p]
  <2>1. stream' = Append(stream, e)
    BY <1>6 DEF Errs
  <2>2. e.type = "error" /\ e.provider = p
    OBVIOUS
  <2> HIDE DEF e
  <2>3. OfType(stream', "step_start") = OfType(stream, "step_start")
        /\ OfType(stream', "step_finish") = OfType(stream, "step_finish")
    BY <1>1, <2>1, <2>2, StepsSame
  <2>4. ErrorOf(stream') = failure'
    BY <1>1, <1>6, <2>1, <2>2, ErrorOfAppend DEF Errs
  <2>5. message' = message /\ spent' = spent /\ said' = said
    BY <1>6 DEF Errs
  <2>6. NamesKept' /\ TextsKnown'
    BY <1>1, <1>6, <2>1, <2>2, <2>5, NamesSame, TextsSame DEF OpencodeLives, Errs
  <2>7. StepsCounted'
    BY <2>3, <2>5 DEF StepsCounted, OpencodeLives
  <2> QED BY <2>3, <2>4, <2>5, <2>6, <2>7 DEF OpencodeLives
<1>7. ASSUME NEW code \in {0, 1}, Finishes(code) PROVE FALSE
  BY <1>7 DEF Finishes
<1> QED BY <1>2, <1>3, <1>4, <1>5, <1>6, <1>7 DEF TranscriptNext

LEMMA LivesInit == TranscriptInit => Lives
  BY ClaudeInit, CodexInit, OpencodeInit, TrialTypesInit DEF Lives, TrialTypes

LEMMA LivesStep ==
    ASSUME TrialTypes, Lives, over = "no", [TranscriptNext]_transcriptVars, over' = "no"
    PROVE  Lives'
<1>1. client \in {"claude", "codex", "opencode"}
  BY DEF TrialTypes
<1>2. client' = client
  BY DEF TranscriptNext, transcriptVars, arm, MessageStarts, Says, Calls, Results, Errs, Finishes
<1>3. CASE TranscriptNext
  BY <1>1, <1>2, <1>3, ClaudeStep, CodexStep, OpencodeStep DEF Lives
<1>4. CASE UNCHANGED transcriptVars
  <2>1. ClaudeLives => ClaudeLives'
    <3> SUFFICES ASSUME ClaudeLives PROVE ClaudeLives'
      OBVIOUS
    <3>1. BlocksCounted'
      BY <1>4, BlocksSame DEF transcriptVars, arm, lived, ClaudeLives
    <3> QED BY <1>4, <3>1 DEF transcriptVars, arm, lived, ClaudeLives, InitEvent, Granted
  <2>2. NamesKept => NamesKept'
    BY <1>4, NamesSame DEF transcriptVars, arm, lived
  <2>3. CodexLives => CodexLives'
    BY <1>4, <2>2 DEF transcriptVars, arm, lived, CodexLives
  <2>4. OpencodeLives => OpencodeLives'
    BY <1>4, <2>2 DEF transcriptVars, arm, lived, OpencodeLives, TextsKnown, StepsCounted
  <2> QED BY <1>1, <1>2, <2>1, <2>3, <2>4 DEF Lives
<1> QED BY <1>3, <1>4

-----------------------------------------------------------------------------
(* Transcripts: how a session ends. *)

\* Numbers are added up one by one.
LEMMA TotalReads ==
    ASSUME NEW s \in Seq(Nat)
    PROVE  \E f \in [0 .. Len(s) -> Nat] :
              /\ f[0] = 0 /\ \A n \in 1 .. Len(s) : f[n] = f[n - 1] + s[n]
              /\ Total(s) = f[Len(s)]
<1> DEFINE N == Len(s)
           Body(g, n) == IF n = 0 THEN 0 ELSE g[n - 1] + s[n]
           step == [n \in 1 .. N |-> [r \in Nat |-> r + s[n]]]
<1>1. N \in Nat /\ \A n \in 1 .. N : s[n] \in Nat
  OBVIOUS
<1>2. step \in [1 .. N -> [Nat -> Nat]]
  BY <1>1
<1>3. PICK f \in [0 .. N -> Nat] : f[0] = 0 /\ \A n \in 1 .. N : f[n] = step[n][f[n - 1]]
  <2> HIDE DEF N, step
  <2>1. \E f \in [0 .. N -> Nat] : Follows(f, N, 0, step)
    BY <1>1, <1>2, Recursion
  <2> QED BY <2>1 DEF Follows
<1>4. ASSUME NEW n \in 1 .. N PROVE f[n] = f[n - 1] + s[n]
  <2>1. n - 1 \in 0 .. N
    BY <1>1
  <2>2. f[n - 1] \in Nat
    BY <1>3, <2>1
  <2>3. step[n][f[n - 1]] = f[n - 1] + s[n]
    BY <2>2
  <2> HIDE DEF step, N
  <2> QED BY <1>3, <2>3
<1>5. ASSUME NEW n \in 0 .. N PROVE f[n] = Body(f, n)
  <2>1. n # 0 => n \in 1 .. N
    BY <1>1
  <2> HIDE DEF N, step
  <2> QED BY <1>3, <1>4, <2>1
<1>6. f = [n \in 0 .. N |-> Body(f, n)]
  <2> HIDE DEF Body
  <2> QED BY <1>3, <1>5
<1> DEFINE J == CHOOSE g : g = [n \in 0 .. N |-> Body(g, n)]
<1>7. J = [n \in 0 .. N |-> Body(J, n)]
  <2> HIDE DEF Body, N
  <2> QED BY <1>6
<1>8. Total(s) = J[N]
  BY DEF Total
<1> HIDE DEF J
<1>9. ASSUME NEW n \in 0 .. N PROVE J[n] = Body(J, n)
  <2> HIDE DEF Body, N
  <2> QED BY <1>7
<1> DEFINE T == {n \in Nat : n <= N => J[n] = f[n]}
<1>10. 0 \in T
  <2>1. 0 \in 0 .. N
    BY <1>1
  <2>2. J[0] = 0
    BY <1>9, <2>1
  <2> QED BY <1>3, <2>2
<1>11. ASSUME NEW n \in T PROVE n + 1 \in T
  <2> SUFFICES ASSUME n + 1 <= N PROVE J[n + 1] = f[n + 1]
    OBVIOUS
  <2>1. n \in Nat /\ n + 1 \in 1 .. N /\ n + 1 \in 0 .. N /\ (n + 1) - 1 = n /\ n + 1 # 0
    BY <1>1
  <2>2. J[n] = f[n]
    BY <1>1, <2>1
  <2>3. J[n + 1] = J[n] + s[n + 1]
    BY <1>9, <2>1
  <2>4. f[n + 1] = f[n] + s[n + 1]
    BY <1>4, <2>1
  <2> HIDE DEF T
  <2> QED BY <2>2, <2>3, <2>4
<1>12. T = Nat
  <2>1. T \subseteq Nat
    OBVIOUS
  <2> HIDE DEF T
  <2> QED BY <1>10, <1>11, <2>1, Induction
<1>13. J[N] = f[N]
  <2>1. N \in T /\ N <= N
    BY <1>1, <1>12
  <2> QED BY <2>1
<1> QED BY <1>3, <1>4, <1>8, <1>13

LEMMA TotalOne ==
    ASSUME NEW x \in Nat PROVE Total(<<x>>) = x
<1>1. <<x>> \in Seq(Nat) /\ Len(<<x>>) = 1 /\ <<x>>[1] = x
  OBVIOUS
<1> DEFINE s == <<x>>
<1> HIDE DEF s
<1>2. PICK f \in [0 .. Len(s) -> Nat] :
              /\ f[0] = 0 /\ \A n \in 1 .. Len(s) : f[n] = f[n - 1] + s[n]
              /\ Total(s) = f[Len(s)]
  BY <1>1, TotalReads DEF s
<1>3. f[1] = f[0] + s[1]
  <2>1. 1 \in 1 .. Len(s) /\ 1 - 1 = 0
    BY <1>1 DEF s
  <2> QED BY <1>2, <2>1
<1> QED BY <1>1, <1>2, <1>3 DEF s

LEMMA TotalNat == ASSUME NEW s \in Seq(Nat) PROVE Total(s) \in Nat
<1>1. PICK f \in [0 .. Len(s) -> Nat] : Total(s) = f[Len(s)]
  BY TotalReads
<1>2. Len(s) \in 0 .. Len(s)
  OBVIOUS
<1> QED BY <1>1, <1>2

\* The outcome of a transcript whose last event is its only result.
UsedIn(events) ==
    {b.name : b \in {c \in {e.block : e \in ToSet(OfType(events, "assistant"))} : c.type = "tool_use"}}

OutcomeIs(o, s, res, allowed) ==
    /\ o.answer = res.text
    /\ o.client_error = IF res.error THEN res.subtype ELSE "none"
    /\ o.unexpected_tools = UsedIn(s) \ (Retrieval \cup allowed)
    /\ o.mcp_failures = \E e \in ToSet(OfType(s, "system")) : ~e.connected

LEMMA OutcomeOf ==
    ASSUME NEW s, IsList(s), OfType(s, "result") = <<>>,
           NEW res, res.type = "result", NEW allowed,
           NEW o, o = TranscriptOutcome(Append(s, res), allowed)
    PROVE  OutcomeIs(o, s, res, allowed)
<1> DEFINE t == Append(s, res)
           results == OfType(t, "result")
           failed == Picked(results, {i \in DOMAIN results : results[i].error})
<1>1. OfType(t, "result") = Append(<<>>, res)
  <2>1. OfType(t, "result") = IF res.type = "result" THEN Append(OfType(s, "result"), res)
                              ELSE OfType(s, "result")
    BY OfTypeAppend
  <2> HIDE DEF t
  <2> QED BY <2>1
<1>2. OfType(t, "assistant") = OfType(s, "assistant") /\ OfType(t, "system") = OfType(s, "system")
  BY OfTypeAppend
<1>3. results = <<res>>
  BY <1>1
<1>4. LastText(results) = res.text
  <2>1. LastText(Append(<<>>, res)) = res.text
    BY NoList, LastTextAppend
  <2> HIDE DEF results
  <2> QED BY <1>1, <2>1 DEF results
<1>5. failed = IF res.error THEN <<res>> ELSE <<>>
  <2> HIDE DEF results
  <2>1. results \in Seq({res}) /\ DOMAIN results = {1} /\ results[1] = res
    BY <1>3
  <2> DEFINE at == {i \in DOMAIN results : results[i].error}
  <2>2. at \cap DOMAIN results = IF res.error THEN {1} ELSE {}
    BY <2>1
  <2> HIDE DEF at
  <2>3. /\ at \cap DOMAIN results = {} => Picked(results, at) = <<>>
        /\ at \cap DOMAIN results = {1} => Picked(results, at) = <<results[1]>>
    BY <2>1, PickedOne
  <2> QED BY <2>1, <2>2, <2>3 DEF at
<1>6. <<res>> # <<>> /\ Last(<<res>>) = res
  BY DEF Last
<1>7. o = [answer |-> LastText(results),
           client_error |-> IF failed = <<>> THEN "none" ELSE Last(failed).subtype,
           unexpected_tools |-> UsedIn(t) \ (Retrieval \cup allowed),
           mcp_failures |-> \E e \in ToSet(OfType(t, "system")) : ~e.connected]
  BY DEF TranscriptOutcome, UsedIn
<1>8. UsedIn(t) = UsedIn(s)
  BY <1>2 DEF UsedIn
<1> HIDE DEF results, failed, t
<1>9. o.answer = LastText(results) /\ o.client_error = (IF failed = <<>> THEN "none" ELSE Last(failed).subtype)
  BY <1>7
<1>10. o.unexpected_tools = UsedIn(t) \ (Retrieval \cup allowed)
  BY <1>7
<1>11. o.mcp_failures = \E e \in ToSet(OfType(t, "system")) : ~e.connected
  BY <1>7
<1>12. (IF failed = <<>> THEN "none" ELSE Last(failed).subtype) = IF res.error THEN res.subtype ELSE "none"
  BY <1>5, <1>6
<1>13. (\E e \in ToSet(OfType(t, "system")) : ~e.connected) = \E e \in ToSet(OfType(s, "system")) : ~e.connected
  BY <1>2 DEF t
<1> QED BY <1>4, <1>8, <1>9, <1>10, <1>11, <1>12, <1>13 DEF OutcomeIs

\* The outcome of what a wrapper prints.
PrintedIs(o, outcome, code, extra, allowed) ==
    /\ o.answer = outcome.final
    /\ o.client_error = IF outcome.error # "none" THEN outcome.error
                        ELSE IF code # 0 THEN "client" ELSE "none"
    /\ o.unexpected_tools = (outcome.unexpected \cup extra) \ (Retrieval \cup allowed)
    /\ o.mcp_failures = FALSE

LEMMA PrintedOutcome ==
    ASSUME NEW outcome, NEW code, NEW extra, NEW allowed,
           IsFiniteSet(outcome.unexpected \cup extra),
           NEW o, o = TranscriptOutcome(Printed(outcome, code, extra), allowed)
    PROVE  PrintedIs(o, outcome, code, extra, allowed)
<1> DEFINE sys == [type |-> "system", connected |-> TRUE]
           used == outcome.unexpected \cup extra
           f == [n \in used |-> [type |-> "assistant", block |-> [type |-> "tool_use", name |-> n]]]
           S == {f[n] : n \in used}
           p == SetToSeq(S)
           res == [type |-> "result", error |-> outcome.error # "none" \/ code # 0,
                   subtype |-> IF outcome.error # "none" THEN outcome.error ELSE "client",
                   text |-> outcome.final]
           s == <<sys>> \o p
<1>1. sys.type = "system" /\ sys.connected = TRUE
  OBVIOUS
<1>2. res.type = "result" /\ res.text = outcome.final
      /\ res.error = (outcome.error # "none" \/ code # 0)
      /\ res.subtype = IF outcome.error # "none" THEN outcome.error ELSE "client"
  <2>1. \A x, y, z : LET r == [type |-> "result", error |-> x, subtype |-> y, text |-> z]
                     IN  r.type = "result" /\ r.error = x /\ r.subtype = y /\ r.text = z
    OBVIOUS
  <2> QED BY <2>1, Zenon
<1>3. \A n \in used : f[n].type = "assistant" /\ f[n].block.type = "tool_use" /\ f[n].block.name = n
  OBVIOUS
<1>4. Printed(outcome, code, extra) = s \o <<res>>
  <2>1. {[type |-> "assistant", block |-> [type |-> "tool_use", name |-> n]] :
                        n \in outcome.unexpected \cup extra} = S
    OBVIOUS
  <2> HIDE DEF S, res
  <2> QED BY <2>1 DEF Printed, res
<1>5. DOMAIN f = used
  OBVIOUS
<1> HIDE DEF f, res, sys
<1>6. IsFiniteSet(S)
  BY <1>5, ImageFinite
<1> HIDE DEF used
<1>7. ToSet(p) = S /\ p \in Seq(S)
  BY <1>6, ElementsOf
<1> HIDE DEF S, p
<1>8. ToSet(s) = {sys} \cup S /\ IsList(s)
  <2> DEFINE X == {sys} \cup S
  <2>1. p \in Seq(X) /\ <<sys>> \in Seq(X)
    BY <1>7
  <2> HIDE DEF X
  <2>2. /\ s \in Seq(X) /\ Len(s) = 1 + Len(p) /\ s[1] = sys /\ Len(p) \in Nat
        /\ \A i \in 1 .. Len(p) : s[1 + i] = p[i]
        /\ DOMAIN s = 1 .. Len(s) /\ DOMAIN p = 1 .. Len(p)
    BY <2>1
  <2> HIDE DEF s
  <2>3. \A i \in DOMAIN s : i = 1 \/ (i - 1 \in DOMAIN p /\ i = 1 + (i - 1))
    BY <2>2
  <2>4. 1 \in DOMAIN s /\ \A i \in DOMAIN p : 1 + i \in DOMAIN s
    BY <2>2
  <2>5. ToSet(s) = {sys} \cup ToSet(p)
    BY <2>2, <2>3, <2>4 DEF ToSet
  <2> QED BY <1>7, <2>2, <2>5 DEF IsList, X
<1> HIDE DEF s
<1>9. OfType(s, "result") = <<>>
  <2>1. \A e \in ToSet(s) : e.type # "result"
    BY <1>1, <1>3, <1>8 DEF S
  <2> QED BY <1>8, <2>1, NoneOfType
<1>10. Printed(outcome, code, extra) = Append(s, res)
  BY <1>4, <1>8, Lists
<1>11. /\ o.answer = res.text
       /\ o.client_error = IF res.error THEN res.subtype ELSE "none"
       /\ o.unexpected_tools = UsedIn(s) \ (Retrieval \cup allowed)
       /\ o.mcp_failures = \E e \in ToSet(OfType(s, "system")) : ~e.connected
  <2>1. o = TranscriptOutcome(Append(s, res), allowed)
    BY <1>10
  <2>2. IsList(s) /\ OfType(s, "result") = <<>> /\ res.type = "result"
    BY <1>2, <1>8, <1>9
  <2>3. OutcomeIs(o, s, res, allowed)
    BY <2>1, <2>2, OutcomeOf
  <2> QED BY <2>3 DEF OutcomeIs
<1>12. /\ ToSet(OfType(s, "system")) = {e \in ToSet(s) : e.type = "system"}
       /\ ToSet(OfType(s, "assistant")) = {e \in ToSet(s) : e.type = "assistant"}
  BY <1>8, OfTypeAppend
<1>13. ToSet(OfType(s, "system")) = {sys} /\ ToSet(OfType(s, "assistant")) = S
  BY <1>1, <1>3, <1>8, <1>12 DEF S
<1>14. UsedIn(s) = used
  BY <1>3, <1>13 DEF UsedIn, S
<1> QED BY <1>1, <1>2, <1>11, <1>13, <1>14 DEF used, PrintedIs

\* The final text of OpenCode's stream.
LEMMA FinalTextIs ==
    ASSUME NEW s, IsList(s), NEW m \in Nat, NEW n \in 0 .. m,
           {e.id : e \in ToSet(OfType(s, "step_start"))} = 1 .. m,
           \A i \in Texts(s) : s[i].id = s[i].text /\ s[i].id \in 1 .. n,
           n > 0 => \E k : {i \in Texts(s) : s[i].id = n} = {k}
    PROVE  FinalText(s) = n
<1> DEFINE started == {e.id : e \in ToSet(OfType(s, "step_start"))}
           spoken == {i \in DOMAIN s : s[i].type = "text" /\ s[i].id \in started}
           ids == {s[i].id : i \in spoken}
           latest == Max(ids \cup {0})
           at == {i \in spoken : s[i].id = latest}
<1>1. n \in Nat /\ 1 .. n \subseteq 1 .. m
  OBVIOUS
<1>2. spoken = Texts(s)
  BY <1>1 DEF Texts
<1>3. FinalText(s) = LastText(Picked(s, at))
  BY DEF FinalText
<1> HIDE DEF started, spoken
<1>4. ids \subseteq 1 .. n
  BY <1>2
<1>5. n > 0 => n \in ids
  BY <1>2
<1> HIDE DEF ids
<1>6. latest = n
  <2> DEFINE U == ids \cup {0}
  <2>1. U \subseteq 0 .. n /\ n \in U /\ U # {} /\ U \subseteq Nat
    BY <1>1, <1>4, <1>5
  <2>2. IsFiniteSet(U)
    <3>1. IsFiniteSet(0 .. n)
      BY <1>1, FS_Interval
    <3> HIDE DEF U
    <3> QED BY <2>1, <3>1, FS_Subset
  <2> HIDE DEF U
  <2>3. Max(U) \in U /\ \A y \in U : y <= Max(U)
    BY <2>1, <2>2, MaxIn
  <2>4. Max(U) \in 0 .. n /\ n <= Max(U)
    BY <2>1, <2>3
  <2> DEFINE x == Max(U)
  <2> HIDE DEF x
  <2>5. x \in 0 .. n /\ n <= x
    BY <2>4 DEF x
  <2>6. x = n
    BY <1>1, <2>5
  <2> QED BY <2>6 DEF x, U
<1> HIDE DEF latest
<1>7. s \in Seq(ToSet(s))
  BY DEF IsList
<1>8. CASE n = 0
  <2>1. at \cap DOMAIN s = {}
    BY <1>2, <1>6, <1>8
  <2> HIDE DEF at
  <2>2. Picked(s, at) = <<>>
    BY <1>7, <2>1, PickedOne
  <2> QED BY <1>3, <1>8, <2>2 DEF LastText
<1>9. CASE n # 0
  <2>1. n > 0
    BY <1>1, <1>9
  <2>2. PICK k : {i \in Texts(s) : s[i].id = n} = {k}
    BY <2>1, Zenon
  <2>3. at = {k} /\ k \in Texts(s) /\ s[k].id = n
    BY <1>2, <1>6, <2>2
  <2>4. at \cap DOMAIN s = {k} /\ s[k].text = n
    BY <2>3 DEF Texts
  <2> HIDE DEF at
  <2>5. Picked(s, at) = <<s[k]>>
    BY <1>7, <2>4, PickedOne
  <2>6. LastText(<<s[k]>>) = s[k].text
    BY DEF LastText, Last
  <2> QED BY <1>3, <2>4, <2>5, <2>6
<1> QED BY <1>8, <1>9

\* The outcome that is read from the transcript of the trial, and what is said of it.
Told == TranscriptOutcome(Transcript, IF nativeArm THEN ClientTools ELSE {})
Lived(o) ==
    /\ (o.client_error = "none") = (failure = "none")
    /\ (o.client_error = "provider") = (failure = "provider")
    /\ o.answer = said
    /\ (o.unexpected_tools = {}) = (touched = {} /\ ~projectDoc)
    /\ o.mcp_failures = ~connected

LEMMA ClaudeOutcome ==
    ASSUME TrialTypes, ClaudeLives, client = "claude", NEW code \in {0, 1}, Finishes(code)
    PROVE  Lived(Told)'
<1> DEFINE res == [type |-> "result", error |-> code # 0, subtype |-> "client_error", text |-> said,
                   usage |-> Total(spent)]
           allowed == IF nativeArm THEN ClientTools ELSE {}
           o == TranscriptOutcome(Append(stream, res), allowed)
<1>1. stream' = Append(stream, res) /\ IsList(stream)
  BY FinishesStream DEF TrialTypes
<1>2. res.type = "result" /\ res.text = said /\ res.error = (code # 0) /\ res.subtype = "client_error"
  OBVIOUS
<1>3. arm' = arm /\ said' = said /\ touched' = touched
      /\ failure' = IF code # 0 /\ failure = "none" THEN "client" ELSE failure
  BY DEF Finishes
<1>4. client' = client /\ nativeArm' = nativeArm /\ connected' = connected /\ projectDoc' = projectDoc
  BY <1>3 DEF arm
<1>5. Told' = o
  <2>1. Transcript' = stream'
    BY <1>4 DEF Transcript
  <2> HIDE DEF res
  <2> QED BY <1>1, <1>4, <2>1 DEF Told
<1> HIDE DEF res, o
<1>6. OutcomeIs(o, stream, res, allowed)
  <2>1. OfType(stream, "result") = <<>>
    BY DEF ClaudeLives
  <2> HIDE DEF allowed
  <2> QED BY <1>1, <1>2, <2>1, OutcomeOf DEF o
<1>7. o.answer = said /\ o.client_error = (IF code # 0 THEN "client_error" ELSE "none")
  BY <1>2, <1>6 DEF OutcomeIs
<1>8. failure = "none" /\ touched = UsedIn(stream) \ Granted /\ ToSet(OfType(stream, "system")) = {InitEvent}
  BY DEF ClaudeLives, UsedIn, Blocks
<1>9. o.unexpected_tools = touched
  <2>1. o.unexpected_tools = UsedIn(stream) \ (Retrieval \cup allowed)
    BY <1>6 DEF OutcomeIs
  <2>2. Granted = Retrieval \cup allowed
    BY DEF Granted
  <2> QED BY <1>8, <2>1, <2>2
<1>10. o.mcp_failures = ~connected
  <2>1. o.mcp_failures = \E e \in ToSet(OfType(stream, "system")) : ~e.connected
    BY <1>6 DEF OutcomeIs
  <2>2. InitEvent.connected = connected /\ connected \in BOOLEAN
    BY DEF InitEvent, TrialTypes
  <2>3. (\E e \in {InitEvent} : ~e.connected) <=> ~connected
    BY <2>2
  <2> QED BY <1>8, <2>1, <2>2, <2>3
<1>11. ~projectDoc /\ projectDoc \in BOOLEAN
  BY DEF TrialTypes
<1>12. (o.client_error = "none" <=> failure' = "none") /\ o.client_error # "provider" /\ failure' # "provider"
  BY <1>3, <1>7, <1>8
<1> QED BY <1>3, <1>4, <1>5, <1>7, <1>9, <1>10, <1>11, <1>12 DEF Lived

\* What the wrappers of the others make of their streams.
LEMMA ParsedOutcome ==
    ASSUME TrialTypes, client # "claude", NEW code \in {0, 1}, Finishes(code),
           NEW parsed, parsed.final = said, parsed.error = failure, parsed.unexpected = touched,
           IsFiniteSet(touched), touched \cap Granted = {},
           NEW extra, extra = IF projectDoc THEN {"project_doc"} ELSE {},
           NEW exit, exit = IF code = 0 THEN 0 ELSE 1,
           Transcript' = Printed(parsed, exit, extra)
    PROVE  Lived(Told)'
<1>1. arm' = arm /\ said' = said /\ touched' = touched
      /\ failure' = IF code # 0 /\ failure = "none" THEN "client" ELSE failure
  BY DEF Finishes
<1>2. client' = client /\ nativeArm' = nativeArm /\ connected' = connected /\ projectDoc' = projectDoc
  BY <1>1 DEF arm
<1>3. ~nativeArm /\ connected /\ projectDoc \in BOOLEAN /\ failure \in {"none", "client", "provider"}
  BY DEF TrialTypes
<1> DEFINE o == TranscriptOutcome(Printed(parsed, exit, extra), {})
<1>4. Told' = o
  <2>1. (IF nativeArm' THEN ClientTools ELSE {}) = {}
    BY <1>2, <1>3
  <2> QED BY <2>1 DEF Told
<1>5. IsFiniteSet(parsed.unexpected \cup extra)
  BY FS_EmptySet, FS_Singleton, FS_Union
<1> HIDE DEF o
<1>6. /\ o.answer = parsed.final
      /\ o.client_error = IF parsed.error # "none" THEN parsed.error
                          ELSE IF exit # 0 THEN "client" ELSE "none"
      /\ o.unexpected_tools = (parsed.unexpected \cup extra) \ (Retrieval \cup {})
      /\ o.mcp_failures = FALSE
  <2>1. PrintedIs(o, parsed, exit, extra, {})
    BY <1>5, PrintedOutcome DEF o
  <2> QED BY <2>1 DEF PrintedIs
<1>7. exit # 0 <=> code # 0
  OBVIOUS
<1>8. o.client_error = failure'
  BY <1>1, <1>6, <1>7
<1>9. o.unexpected_tools = {} <=> touched = {} /\ ~projectDoc
  <2>1. Retrieval \subseteq Granted /\ "project_doc" \notin Retrieval
    BY TranscriptAssumption DEF Granted
  <2> QED BY <1>3, <1>6, <2>1
<1> QED BY <1>1, <1>2, <1>3, <1>4, <1>6, <1>8, <1>9 DEF Lived

\* When no call is open, the names used are those of the calls that came back.
LEMMA NamesAtEnd ==
    ASSUME TrialTypes, Replays, NamesKept, client # "claude", open = <<>>,
           NEW done, done = IF client = "codex" THEN Items(stream, "call") ELSE OfType(stream, "tool_use")
    PROVE  /\ UnexpectedIn(done, Retrieval \cup ClientTools) = touched
           /\ IsFiniteSet(touched) /\ touched \cap Granted = {}
<1>1. DOMAIN done = DOMAIN returned /\ \A i \in DOMAIN returned : Call(done[i]) = Call(returned[i])
  BY DEF Replays, ItemsReplay
<1>2. \A x, y : Call(x) = Call(y) => x.name = y.name
  <2>1. ASSUME NEW x, NEW y, Call(x) = Call(y) PROVE x.name = y.name
    <3>1. Call(x).name = x.name /\ Call(y).name = y.name
      BY DEF Call
    <3> QED BY <2>1, <3>1
  <2> QED BY <2>1
<1> DEFINE names == {returned[i].name : i \in DOMAIN returned}
<1>3. {done[i].name : i \in DOMAIN done} = names
  BY <1>1, <1>2
<1>4. Granted = Retrieval \cup ClientTools
  BY DEF Granted
<1>5. touched = names \ Granted
  <2>1. {open[id].name : id \in DOMAIN open} = {}
    OBVIOUS
  <2> QED BY <2>1 DEF NamesKept
<1>6. IsFiniteSet(names)
  <2> DEFINE f == [i \in DOMAIN returned |-> returned[i].name]
  <2>1. DOMAIN returned = 1 .. Len(returned) /\ Len(returned) \in Nat
    BY Lists DEF TrialTypes
  <2>2. IsFiniteSet(DOMAIN f)
    BY <2>1, FS_Interval
  <2>3. names = {f[i] : i \in DOMAIN f}
    OBVIOUS
  <2> HIDE DEF f, names
  <2> QED BY <2>2, <2>3, ImageFinite
<1> HIDE DEF names
<1>7. IsFiniteSet(touched)
  BY <1>5, <1>6, FS_Subset
<1> QED BY <1>3, <1>4, <1>5, <1>7 DEF UnexpectedIn

LEMMA CodexOutcome ==
    ASSUME TrialTypes, Replays, CodexLives, client = "codex", NEW code \in {0, 1}, Finishes(code)
    PROVE  Lived(Told)'
<1> DEFINE e == [type |-> "turn.completed", usage |-> Total(spent)]
           parsed == ParseCodex(stream')
           extra == IF projectDoc THEN {"project_doc"} ELSE {}
           exit == IF code = 0 THEN 0 ELSE 1
<1>1. stream' = Append(stream, e) /\ IsList(stream)
  BY FinishesStream DEF TrialTypes
<1>2. e.type = "turn.completed"
  OBVIOUS
<1> HIDE DEF e
<1>3. /\ Items(stream', "agent_message") = Items(stream, "agent_message")
      /\ Items(stream', "call") = Items(stream, "call")
  BY <1>1, <1>2, ItemsAppend
<1>4. ErrorOf(stream') = ErrorOf(stream)
  BY <1>1, <1>2, ErrorOfAppend
<1>5. open = <<>> /\ NamesKept
  BY DEF Finishes, CodexLives
<1>6. /\ UnexpectedIn(Items(stream, "call"), Retrieval \cup ClientTools) = touched
      /\ IsFiniteSet(touched) /\ touched \cap Granted = {}
  BY <1>5, NamesAtEnd
<1>7. /\ parsed.final = LastText(Items(stream', "agent_message"))
      /\ parsed.error = ErrorOf(stream')
      /\ parsed.unexpected = UnexpectedIn(Items(stream', "call"), Retrieval \cup ClientTools)
  BY DEF ParseCodex
<1>8. LastText(Items(stream, "agent_message")) = said /\ ErrorOf(stream) = failure
  BY DEF CodexLives
<1>9. Transcript' = Printed(parsed, exit, extra)
  <2>1. client' = "codex" /\ projectDoc' = projectDoc /\ over' = IF code = 0 THEN "well" ELSE "badly"
    BY DEF Finishes, arm
  <2>2. (IF over' = "badly" THEN 1 ELSE 0) = exit
    BY <2>1
  <2>3. SessionInstructions' = extra
    BY <2>1 DEF SessionInstructions
  <2> HIDE DEF parsed, extra, exit
  <2> QED BY <2>1, <2>2, <2>3 DEF Transcript, parsed
<1> HIDE DEF parsed
<1>10. parsed.final = said /\ parsed.error = failure /\ parsed.unexpected = touched
  BY <1>3, <1>4, <1>6, <1>7, <1>8
<1> QED BY <1>6, <1>9, <1>10, ParsedOutcome

LEMMA OpencodeOutcome ==
    ASSUME TrialTypes, Replays, OpencodeLives, client = "opencode", NEW code \in {0, 1}, Finishes(code)
    PROVE  Lived(Told)'
<1> DEFINE e == [type |-> "step_finish", tokens |-> spent[message]]
           parsed == ParseOpencode(stream')
           extra == IF projectDoc THEN {"project_doc"} ELSE {}
           exit == IF code = 0 THEN 0 ELSE 1
<1>1. /\ IsList(stream) /\ IsList(stream') /\ message \in Nat
      /\ stream' = IF message = 0 THEN stream ELSE Append(stream, e)
  <2>1. spent \in Seq(Nat) /\ Len(spent) = message
    BY DEF TrialTypes
  <2> QED BY <2>1, FinishesStream DEF TrialTypes
<1>2. e.type = "step_finish"
  OBVIOUS
<1> HIDE DEF e
<1>3. /\ OfType(stream', "tool_use") = OfType(stream, "tool_use")
      /\ OfType(stream', "step_start") = OfType(stream, "step_start")
      /\ ErrorOf(stream') = ErrorOf(stream)
  <2>1. CASE message = 0
    BY <1>1, <2>1
  <2>2. CASE message # 0
    <3>1. stream' = Append(stream, e)
      BY <1>1, <2>2
    <3>2. OfType(stream', "tool_use") = OfType(stream, "tool_use")
      BY <1>1, <1>2, <3>1, OfTypeAppend
    <3>3. OfType(stream', "step_start") = OfType(stream, "step_start")
      BY <1>1, <1>2, <3>1, OfTypeAppend
    <3>4. ErrorOf(stream') = ErrorOf(stream)
      BY <1>1, <1>2, <3>1, ErrorOfAppend
    <3> QED BY <3>2, <3>3, <3>4
  <2> QED BY <2>1, <2>2
<1>4. TextsKnown' /\ said' = said
  <2>1. said' = said /\ TextsKnown
    BY DEF Finishes, OpencodeLives
  <2>2. CASE message = 0
    BY <1>1, <2>1, <2>2 DEF TextsKnown
  <2>3. CASE message # 0
    BY <1>1, <1>2, <2>1, <2>3, TextsSame
  <2> QED BY <2>1, <2>2, <2>3
<1>5. FinalText(stream') = said
  <2>1. said \in 0 .. message
    BY DEF TrialTypes
  <2>2. {x.id : x \in ToSet(OfType(stream', "step_start"))} = 1 .. message
    BY <1>3 DEF OpencodeLives
  <2>3. /\ \A i \in Texts(stream') : stream'[i].id = stream'[i].text /\ stream'[i].id \in 1 .. said
        /\ said > 0 => \E k : {i \in Texts(stream') : stream'[i].id = said} = {k}
    BY <1>4 DEF TextsKnown
  <2> QED BY <1>1, <2>1, <2>2, <2>3, FinalTextIs
<1>6. open = <<>> /\ NamesKept
  BY DEF Finishes, OpencodeLives
<1>7. /\ UnexpectedIn(OfType(stream, "tool_use"), Retrieval \cup ClientTools) = touched
      /\ IsFiniteSet(touched) /\ touched \cap Granted = {}
  BY <1>6, NamesAtEnd
<1>8. /\ parsed.final = FinalText(stream')
      /\ parsed.error = ErrorOf(stream')
      /\ parsed.unexpected = UnexpectedIn(OfType(stream', "tool_use"), Retrieval \cup ClientTools)
  BY DEF ParseOpencode
<1>9. ErrorOf(stream) = failure
  BY DEF OpencodeLives
<1>10. ~projectDoc
  BY DEF TrialTypes
<1>11. Transcript' = Printed(parsed, exit, extra)
  <2>1. client' = "opencode" /\ over' = IF code = 0 THEN "well" ELSE "badly"
    BY DEF Finishes, arm
  <2>2. (IF over' = "badly" THEN 1 ELSE 0) = exit
    BY <2>1
  <2>3. extra = {}
    BY <1>10
  <2> HIDE DEF parsed, extra, exit
  <2> QED BY <2>1, <2>2, <2>3 DEF Transcript, parsed
<1> HIDE DEF parsed
<1>12. parsed.final = said /\ parsed.error = failure /\ parsed.unexpected = touched
  BY <1>3, <1>5, <1>7, <1>8, <1>9
<1> QED BY <1>7, <1>11, <1>12, ParsedOutcome

LEMMA ClaudeTokens ==
    ASSUME TrialTypes, ClaudeLives, client = "claude", NEW code \in {0, 1}, Finishes(code)
    PROVE  TokensOnce'
<1> DEFINE res == [type |-> "result", error |-> code # 0, subtype |-> "client_error", text |-> said,
                   usage |-> Total(spent)]
<1>1. stream' = Append(stream, res) /\ IsList(stream)
  BY FinishesStream DEF TrialTypes
<1>2. res.type = "result"
  OBVIOUS
<1>3. client' = "claude" /\ message' = message /\ spent' = spent
  BY DEF Finishes, arm
<1> HIDE DEF res
<1>4. Blocks(stream') = Blocks(stream) /\ Firsts(stream') = Firsts(stream) /\ IsList(Firsts(stream))
  BY <1>1, <1>2, FirstsAppend
<1>5. StepsFrom(stream)' = [k \in DOMAIN Firsts(stream') |-> Firsts(stream')[k].usage]
  BY <1>3 DEF StepsFrom, Firsts, Blocks
<1>6. ASSUME \A m \in 1 .. message : HasBlock(m) PROVE StepsFrom(stream)' = spent
  <2>1. Len(Firsts(stream)) = message /\ \A k \in 1 .. message : Firsts(stream)[k].usage = spent[k]
    BY <1>6 DEF ClaudeLives, BlocksCounted
  <2>2. DOMAIN Firsts(stream) = 1 .. message
    BY <1>4, <2>1, Lists
  <2>3. spent = [k \in 1 .. message |-> spent[k]]
    BY DEF TrialTypes
  <2> QED BY <1>4, <1>5, <2>1, <2>2, <2>3
<1>7. (\A m \in 1 .. message' : \E e \in ToSet(OfType(stream', "assistant")) : e.id = m)
         => \A m \in 1 .. message : HasBlock(m)
  BY <1>3, <1>4 DEF HasBlock, BlockOf, Blocks
<1> QED BY <1>3, <1>6, <1>7 DEF TokensOnce

LEMMA CodexTokens ==
    ASSUME TrialTypes, CodexLives, client = "codex", NEW code \in {0, 1}, Finishes(code)
    PROVE  TokensOnce'
<1> DEFINE e == [type |-> "turn.completed", usage |-> Total(spent)]
           turns == OfType(stream', "turn.completed")
<1>1. stream' = Append(stream, e) /\ IsList(stream)
  BY FinishesStream DEF TrialTypes
<1>2. e.type = "turn.completed" /\ e.usage = Total(spent)
  OBVIOUS
<1>3. client' = "codex" /\ spent' = spent
  BY DEF Finishes, arm
<1> HIDE DEF e
<1>4. turns = <<e>>
  <2>1. turns = Append(OfType(stream, "turn.completed"), e)
    BY <1>1, <1>2, OfTypeAppend
  <2>2. OfType(stream, "turn.completed") = <<>>
    BY DEF CodexLives
  <2>3. Append(<<>>, e) = <<e>>
    OBVIOUS
  <2> HIDE DEF turns
  <2> QED BY <2>1, <2>2, <2>3, Zenon
<1>5. StepsFrom(stream)' = [k \in DOMAIN turns |-> turns[k].usage]
  BY <1>3 DEF StepsFrom
<1> HIDE DEF turns
<1>6. Total(spent) \in Nat
  BY TotalNat DEF TrialTypes
<1>7. [k \in DOMAIN turns |-> turns[k].usage] = <<Total(spent)>>
  <2> DEFINE x == Total(spent)
  <2>1. e.usage = x
    BY <1>2
  <2> HIDE DEF x
  <2>2. DOMAIN turns = 1 .. 1 /\ turns[1].usage = x
    BY <1>4, <2>1
  <2> QED BY <2>2 DEF x
<1>8. Total(StepsFrom(stream)') = Total(spent)
  BY <1>5, <1>6, <1>7, TotalOne
<1> QED BY <1>3, <1>8 DEF TokensOnce

LEMMA OpencodeTokens ==
    ASSUME TrialTypes, OpencodeLives, client = "opencode", NEW code \in {0, 1}, Finishes(code)
    PROVE  TokensOnce'
<1> DEFINE e == [type |-> "step_finish", tokens |-> spent[message]]
           f == OfType(stream, "step_finish")
           g == OfType(stream', "step_finish")
<1>1. /\ IsList(stream) /\ message \in Nat /\ spent \in Seq(Nat) /\ Len(spent) = message
      /\ stream' = IF message = 0 THEN stream ELSE Append(stream, e)
  <2>1. spent \in Seq(Nat) /\ Len(spent) = message
    BY DEF TrialTypes
  <2> QED BY <2>1, FinishesStream DEF TrialTypes
<1>2. e.type = "step_finish" /\ e.tokens = spent[message]
  OBVIOUS
<1>3. client' = "opencode" /\ spent' = spent
  BY DEF Finishes, arm
<1> HIDE DEF e
<1>4. IsList(f) /\ g = IF message = 0 THEN f ELSE Append(f, e)
  <2>1. IsList(f)
    BY <1>1, OfTypeAppend
  <2>2. OfType(Append(stream, e), "step_finish") = Append(f, e)
    BY <1>1, <1>2, OfTypeAppend
  <2> QED BY <1>1, <2>1, <2>2
<1>5. /\ message = 0 => f = <<>>
      /\ message > 0 => Len(f) = message - 1 /\ \A k \in 1 .. message - 1 : f[k].tokens = spent[k]
  BY DEF OpencodeLives, StepsCounted
<1>6. StepsFrom(stream)' = [k \in DOMAIN g |-> g[k].tokens]
  BY <1>3 DEF StepsFrom
<1> HIDE DEF f, g
<1>7. DOMAIN g = 1 .. message /\ \A k \in 1 .. message : g[k].tokens = spent[k]
  <2>1. CASE message = 0
    BY <1>4, <1>5, <2>1
  <2>2. CASE message # 0
    <3>1. Len(f) = message - 1 /\ \A k \in 1 .. message - 1 : f[k].tokens = spent[k]
      <4>1. message > 0
        BY <1>1, <2>2
      <4> QED BY <1>5, <4>1
    <3>2. /\ DOMAIN Append(f, e) = DOMAIN f \cup {Len(f) + 1} /\ Append(f, e)[Len(f) + 1] = e
          /\ DOMAIN f = 1 .. Len(f) /\ \A i \in DOMAIN f : Append(f, e)[i] = f[i]
      BY <1>4, Lists
    <3>3. Len(f) + 1 = message
      BY <1>1, <3>1
    <3>4. g = Append(f, e)
      BY <1>4, <2>2
    <3>5. 1 .. message = (1 .. message - 1) \cup {message}
      BY <1>1, <2>2
    <3> QED BY <1>2, <3>1, <3>2, <3>3, <3>4, <3>5
  <2> QED BY <2>1, <2>2
<1>8. [k \in DOMAIN g |-> g[k].tokens] = spent
  <2>1. spent = [k \in 1 .. message |-> spent[k]]
    BY <1>1
  <2> QED BY <1>7, <2>1
<1>9. StepsFrom(stream)' = spent
  BY <1>6, <1>8
<1> QED BY <1>3, <1>9 DEF TokensOnce

LEMMA LivedIs == OutcomeAsLived <=> (over # "no" => Lived(Told))
<1> DEFINE o == Told
<1>1. TranscriptOutcome(Transcript, IF nativeArm THEN ClientTools ELSE {}) = o
  BY DEF Told
<1> HIDE DEF o
<1>2. OutcomeAsLived <=> (over # "no" => Lived(o))
  BY <1>1 DEF OutcomeAsLived, Lived
<1> QED BY <1>2 DEF o

\* A session that has ended stays as it is.
LEMMA EndsStay ==
    ASSUME OutcomeAsLived /\ TokensOnce, UNCHANGED transcriptVars
    PROVE  OutcomeAsLived' /\ TokensOnce'
<1>1. /\ client' = client /\ nativeArm' = nativeArm /\ connected' = connected /\ projectDoc' = projectDoc
      /\ stream' = stream /\ message' = message /\ open' = open /\ over' = over /\ spent' = spent
      /\ returned' = returned /\ said' = said /\ touched' = touched /\ failure' = failure
  BY DEF transcriptVars, arm, lived
<1>2. Transcript' = Transcript
  BY <1>1 DEF Transcript, SessionInstructions
<1>3. OutcomeAsLived'
  BY <1>1, <1>2 DEF OutcomeAsLived
<1>4. StepsFrom(stream)' = StepsFrom(stream)
  BY <1>1 DEF StepsFrom
<1>5. TokensOnce'
  BY <1>1, <1>4 DEF TokensOnce
<1> QED BY <1>3, <1>5

LEMMA EndsOnce ==
    ASSUME TrialTypes, Replays, Lives, NEW code \in {0, 1}, Finishes(code)
    PROVE  OutcomeAsLived' /\ TokensOnce'
<1>1. client \in {"claude", "codex", "opencode"}
  BY DEF TrialTypes
<1>2. Lived(Told)'
  BY <1>1, ClaudeOutcome, CodexOutcome, OpencodeOutcome DEF Lives
<1>3. TokensOnce'
  BY <1>1, ClaudeTokens, CodexTokens, OpencodeTokens DEF Lives
<1>4. OutcomeAsLived'
  <2>1. (OutcomeAsLived <=> (over # "no" => Lived(Told)))'
    BY LivedIs, PTL
  <2> QED BY <1>2, <2>1
<1> QED BY <1>3, <1>4

LEMMA TrialInvInit == TranscriptInit => TrialInv
<1> SUFFICES ASSUME TranscriptInit PROVE TrialInv
  OBVIOUS
<1>1. over = "no"
  BY DEF TranscriptInit
<1> QED BY <1>1, TrialTypesInit, ReplaysInit, LivesInit DEF TrialInv

LEMMA TrialInvStep == TrialInv /\ [TranscriptNext]_transcriptVars => TrialInv'
<1> SUFFICES ASSUME TrialInv, [TranscriptNext]_transcriptVars PROVE TrialInv'
  OBVIOUS
<1>1. TrialTypes' /\ Replays'
  BY TrialTypesStep, ReplaysStep DEF TrialInv
<1>2. CASE over # "no"
  <2>1. UNCHANGED transcriptVars
    BY <1>2 DEF TranscriptNext, MessageStarts, Says, Calls, Results, Errs, Finishes
  <2>2. OutcomeAsLived' /\ TokensOnce'
    BY <1>2, <2>1, EndsStay DEF TrialInv
  <2>3. over' = over
    BY <2>1 DEF transcriptVars
  <2> QED BY <1>1, <1>2, <2>2, <2>3 DEF TrialInv
<1>3. CASE over = "no" /\ over' = "no"
  <2>1. Lives'
    BY <1>3, LivesStep DEF TrialInv
  <2> QED BY <1>1, <1>3, <2>1 DEF TrialInv
<1>4. CASE over = "no" /\ over' # "no"
  <2>1. PICK code \in {0, 1} : Finishes(code)
    BY <1>4 DEF TranscriptNext, transcriptVars, MessageStarts, Says, Calls, Results, Errs
  <2>2. OutcomeAsLived' /\ TokensOnce'
    BY <1>4, <2>1, EndsOnce DEF TrialInv
  <2> QED BY <1>1, <1>4, <2>2 DEF TrialInv
<1> QED BY <1>2, <1>3, <1>4

LEMMA TrialInvariant == TranscriptInit /\ [][TranscriptNext]_transcriptVars => []TrialInv
  BY TrialInvInit, TrialInvStep, PTL

\* At any moment, also that of a kill, the replay of whichever client's stream has
\* each call that came back once, in order, under its own name and request.
THEOREM Replay == TranscriptInit /\ [][TranscriptNext]_transcriptVars => []CallsAsMade
<1>1. TrialInv => CallsAsMade
  BY ReplaysAreCalls DEF TrialInv
<1> QED BY <1>1, TrialInvariant, PTL

\* The two readings of the evidence agree: first hit and unretrieved identities,
\* what end_to_end.py and closure_audit.py see of it.
THEOREM Evidence == TranscriptInit /\ [][TranscriptNext]_transcriptVars => []EvidenceAgrees
<1>1. TrialInv => EvidenceAgrees
  BY ReplaysAreCalls, EvidenceFollows DEF TrialInv
<1> QED BY <1>1, TrialInvariant, PTL

\* Whichever client ran, the outcome read from what its wrapper prints is the one
\* the agent lived.
THEOREM OutcomeTold == TranscriptInit /\ [][TranscriptNext]_transcriptVars => []OutcomeAsLived
<1>1. TrialInv => OutcomeAsLived
  BY DEF TrialInv, OutcomeAsLived
<1> QED BY <1>1, TrialInvariant, PTL

\* The steps of a finished session add up to what its messages cost.
THEOREM Costs == TranscriptInit /\ [][TranscriptNext]_transcriptVars => []TokensOnce
<1>1. TrialInv => TokensOnce
  BY DEF TrialInv, TokensOnce
<1> QED BY <1>1, TrialInvariant, PTL

=============================================================================
