----------------------- MODULE ResumableTrialsProofs -----------------------
(* Proofs about ResumableTrials for any number of runners, trials, edits    *)
(* and starts.                                                              *)
EXTENDS ResumableTrials, TLAPS

InTrial(p) == runner[p].pc \in {"launch", "trial", "record"}
Busy(p) == runner[p].pc \notin {"idle", "lock"}
Open == {"none", "planned", "running"}

\* A runner that is not idle has its arguments and the fingerprint it started from.
Started == \A p \in Runners : runner[p].pc # "idle" =>
    /\ runner[p].args \in Arguments
    /\ runner[p].before \in Corpora

\* The lock keeps two resumable runners apart, the fresh directory the others.
Exclusive ==
    /\ harness = "factor" => \A p \in Runners : Busy(p) => lock = p
    /\ harness # "factor" =>
         /\ \A p \in Runners : runner[p].pc # "idle" => made
         /\ \A p, q \in Runners : Busy(p) /\ Busy(q) => p = q
         /\ \A p \in Runners : runner[p].pc # "lock"

\* A runner in a trial works on the newest attempt, and that one is not finished.
Working == \A p \in Runners : InTrial(p) =>
    /\ Trial(p) \in Trials
    /\ tries[Trial(p)] \in 1..MaxTries
    /\ record[Current(p)].status \in Open
    /\ record[Current(p)].cells = runner[p].args.cells
    /\ \/ harness = "benchmark" /\ runner[p].pc = "launch"
       \/ record[Current(p)].checked = runner[p].before

\* Only the newest attempt of a trial can be finished well, and no attempt exists in advance.
NewestOnly == \A t \in Trials, n \in 1..MaxTries :
    /\ n < tries[t] => record[<<t, n>>].status # "completed"
    /\ n > tries[t] => record[<<t, n>>].status = "none"

OneWriter == \A p, q \in Runners : Busy(p) /\ Busy(q) => p = q

Inv == TypeOK /\ Started /\ Exclusive /\ Working /\ NewestOnly

LEMMA IdleType == Idle \in LocalStates
  BY CountsAssumption DEF Idle, LocalStates, Final

LEMMA BlankType == Blank \in Records
  BY DEF Blank, Records, Final

\* A step that changes one runner leaves the others alone.
LEMMA LocalChange ==
  ASSUME TypeOK, NEW p \in Runners, NEW changes \in LocalStates, Local(p, changes)
  PROVE  /\ runner' \in [Runners -> LocalStates]
         /\ runner'[p] = changes
         /\ \A q \in Runners \ {p} : runner'[q] = runner[q]
  BY DEF TypeOK, Local

LEMMA PcChange ==
  ASSUME TypeOK, NEW p \in Runners, NEW place, GoTo(p, place),
         place \in {"idle", "lock", "pin", "plan", "scan", "launch", "trial", "record", "return"}
  PROVE  /\ runner' \in [Runners -> LocalStates]
         /\ runner'[p] = [runner[p] EXCEPT !.pc = place]
         /\ \A q \in Runners \ {p} : runner'[q] = runner[q]
  <1>1. [runner[p] EXCEPT !.pc = place] \in LocalStates
    BY DEF TypeOK, LocalStates
  <1> QED
    BY <1>1, LocalChange DEF GoTo

LEMMA MovingOn ==
  ASSUME TypeOK, NEW p \in Runners, NEW place, GoTo(p, place)
  PROVE  /\ runner'[p].pc = place
         /\ runner'[p].args = runner[p].args
         /\ runner'[p].before = runner[p].before
         /\ runner'[p].index = runner[p].index
         /\ \A q \in Runners \ {p} : runner'[q] = runner[q]
  BY DEF TypeOK, LocalStates, GoTo, Local

LEMMA Leaving ==
  ASSUME TypeOK, NEW p \in Runners, Leaves(p)
  PROVE  /\ runner' \in [Runners -> LocalStates]
         /\ runner'[p] = Idle
         /\ \A q \in Runners \ {p} : runner'[q] = runner[q]
         /\ lock' \in Runners \union {None}
         /\ lock' = IF lock = p THEN None ELSE lock
  BY IdleType, LocalChange DEF Leaves, TypeOK

\* Where a runner in a trial works is a real attempt.
LEMMA CurrentType ==
  ASSUME TypeOK, Working, NEW p \in Runners, InTrial(p)
  PROVE  /\ Current(p) \in Attempts
         /\ Trial(p) \in Trials
         /\ record[Current(p)] \in Records
  BY DEF Working, Current, Attempts, TypeOK, Trial

LEMMA TypeStep ==
  ASSUME Inv, [Next]_vars
  PROVE  TypeOK'
<1> USE DEF disk
<1>1. TypeOK /\ Working /\ Started
  BY DEF Inv
<1>2. ASSUME NEW p \in Runners, NEW args \in Arguments, Start(p, args)
      PROVE  TypeOK'
  <2> DEFINE fresh == [Idle EXCEPT !.pc = IF harness = "factor" THEN "lock" ELSE "pin",
                                   !.args = args, !.before = corpus]
  <2>1. fresh \in LocalStates
    BY <1>1, IdleType DEF LocalStates, TypeOK
  <2>2. runner' \in [Runners -> LocalStates]
    BY <1>1, <1>2, <2>1, LocalChange DEF Start, TypeOK
  <2>3. starts' \in Nat
    BY <1>1, <1>2 DEF Start, TypeOK
  <2>4. made' \in BOOLEAN
    <3>1. made' = TRUE \/ made' = made
      BY <1>2, Zenon DEF Start
    <3> QED
      BY <1>1, <3>1, Zenon DEF TypeOK
  <2>5. UNCHANGED <<harness, corpus, manifest, plan, tries, record, serving, lock, edits>>
    BY <1>2 DEF Start
  <2> QED
    BY <1>1, <2>2, <2>3, <2>4, <2>5 DEF TypeOK
<1>3. ASSUME NEW p \in Runners, TakeLock(p)
      PROVE  TypeOK'
  BY <1>1, <1>3, PcChange, Leaving DEF TakeLock, TypeOK
<1>4. ASSUME NEW p \in Runners, Pin(p)
      PROVE  TypeOK'
  <2>1. runner[p].before \in Corpora \union {None}
    BY <1>1 DEF TypeOK, LocalStates
  <2> QED
    BY <1>1, <1>4, <2>1, PcChange, Leaving DEF Pin, TypeOK
<1>5. ASSUME NEW p \in Runners, StorePlan(p)
      PROVE  TypeOK'
  <2>1. runner[p].args.cells \in Cells
    BY <1>1, <1>5 DEF Started, Arguments, StorePlan, At
  <2> QED
    BY <1>1, <1>5, <2>1, PcChange DEF StorePlan, TypeOK
<1>6. ASSUME NEW p \in Runners, SkipTrial(p)
      PROVE  TypeOK'
  <2> DEFINE counted == [runner[p] EXCEPT !.index = @ + 1, !.completed = @ + 1]
             passed == [runner[p] EXCEPT !.index = @ + 1, !.failed = @ + 1]
  <2>1. runner[p] \in LocalStates /\ runner[p].index <= N
    BY <1>1, <1>6 DEF TypeOK, SkipTrial, Trial
  <2>2. counted \in LocalStates /\ passed \in LocalStates
    <3>1. runner[p].index \in 1..(N + 1) /\ runner[p].completed \in Nat /\ runner[p].failed \in Nat
      BY <2>1 DEF LocalStates
    <3>2. /\ runner[p].index + 1 \in 1..(N + 1)
          /\ runner[p].completed + 1 \in Nat /\ runner[p].failed + 1 \in Nat
      BY <2>1, <3>1, CountsAssumption
    <3> QED
      BY <2>1, <3>2 DEF LocalStates
  <2>3. Local(p, counted) \/ Local(p, passed)
    BY <1>6 DEF SkipTrial
  <2>4. runner' \in [Runners -> LocalStates]
    BY <1>1, <2>2, <2>3, LocalChange
  <2> QED
    BY <1>1, <1>6, <2>4 DEF SkipTrial, TypeOK
<1>7. ASSUME NEW p \in Runners, RefuseTrial(p)
      PROVE  TypeOK'
  BY <1>1, <1>7, Leaving DEF RefuseTrial, TypeOK
<1>8. ASSUME NEW p \in Runners, OpenAttempt(p)
      PROVE  TypeOK'
  <2>1. CASE Leaves(p) /\ UNCHANGED <<tries, record>>
    BY <1>1, <1>8, <2>1, Leaving DEF OpenAttempt, Opened, TypeOK
  <2>2. CASE ~(Leaves(p) /\ UNCHANGED <<tries, record>>)
    <3> DEFINE new == [Blank EXCEPT !.status = IF harness = "benchmark" THEN "planned" ELSE "none",
                           !.cells = runner[p].args.cells,
                           !.checked = IF harness = "benchmark" THEN None ELSE corpus]
               next == [runner[p] EXCEPT !.index = @ + 1]
    <3>0. runner[p].args.cells \in Cells
      BY <1>1, <1>8 DEF Started, Arguments, OpenAttempt, Opened, At
    <3>1. runner[p] \in LocalStates /\ Trial(p) \in Trials
      BY <1>1, <1>8 DEF TypeOK, OpenAttempt, Opened, Trial, LocalStates, Trials
    <3>2. new \in Records
      BY <1>1, <3>0, BlankType DEF Records, TypeOK
    <3>3. next \in LocalStates
      BY <3>1, CountsAssumption DEF LocalStates, Trial, Trials
    <3>4. runner' \in [Runners -> LocalStates]
      BY <1>1, <1>8, <2>2, <3>3, PcChange, LocalChange DEF OpenAttempt, Opened
    <3>5. tries[Trial(p)] + 1 \in 1..MaxTries
      BY <1>1, <1>8, <3>1, CountsAssumption DEF OpenAttempt, Opened, TypeOK
    <3>6. tries' \in [Trials -> 0..MaxTries]
      BY <1>1, <1>8, <2>2, <3>5 DEF OpenAttempt, Opened, TypeOK
    <3>7. record' = [record EXCEPT ![<<Trial(p), tries[Trial(p)] + 1>>] = new]
      BY <1>8, <2>2 DEF OpenAttempt, Opened
    <3>8. record' \in [Attempts -> Records]
      BY <1>1, <3>2, <3>7 DEF TypeOK
    <3> QED
      BY <1>1, <1>8, <2>2, <3>4, <3>6, <3>8 DEF OpenAttempt, Opened, TypeOK
  <2> QED
    BY <2>1, <2>2
<1>9. ASSUME NEW p \in Runners, Launch(p)
      PROVE  TypeOK'
  <2>1. Current(p) \in Attempts /\ record[Current(p)] \in Records
    BY <1>1, <1>9, CurrentType DEF Launch, At, InTrial
  <2>2. CASE Leaves(p) /\ UNCHANGED <<record, serving>>
    BY <1>1, <1>9, <2>2, Leaving DEF Launch, TypeOK
  <2>3. CASE ~(Leaves(p) /\ UNCHANGED <<record, serving>>)
    <3> DEFINE failing == [runner[p] EXCEPT !.pc = "record", !.result = "failed"]
               started == [record[Current(p)] EXCEPT !.status = "running",
                             !.checked = IF harness = "benchmark" THEN corpus ELSE @]
               checked == [record[Current(p)] EXCEPT !.checked = corpus]
    <3>1. failing \in LocalStates
      BY ZenonT(40), <1>1 DEF TypeOK, LocalStates, Final
    <3>2. started \in Records /\ checked \in Records
      BY <1>1, <2>1 DEF Records, TypeOK
    <3>3. CASE GoTo(p, "trial") /\ record' = [record EXCEPT ![Current(p)].status = "running",
                                  ![Current(p)].checked = IF harness = "benchmark" THEN corpus ELSE @]
      <4>1. record' = [record EXCEPT ![Current(p)] = started]
        BY <1>1, <2>1, <3>3 DEF TypeOK, Records
      <4>2. record' \in [Attempts -> Records]
        BY <1>1, <3>2, <4>1 DEF TypeOK
      <4> QED
        BY <1>1, <1>9, <2>1, <2>3, <3>3, <4>2, PcChange DEF Launch, TypeOK
    <3>4. CASE Local(p, failing) /\ record' = [record EXCEPT ![Current(p)].checked = corpus]
      <4>1. record' \in [Attempts -> Records]
        BY <1>1, <2>1, <3>2, <3>4 DEF TypeOK
      <4> QED
        BY <1>1, <1>9, <2>1, <2>3, <3>1, <3>4, <4>1, LocalChange DEF Launch, TypeOK
    <3> QED
      BY <1>9, <2>3, <3>3, <3>4 DEF Launch
  <2> QED
    BY <2>2, <2>3
<1>10. ASSUME NEW p \in Runners, NEW result \in Final, EndTrial(p, result)
       PROVE  TypeOK'
  <2>1. [runner[p] EXCEPT !.pc = "record", !.result = result] \in LocalStates
    BY ZenonT(40), <1>1 DEF TypeOK, LocalStates
  <2> QED
    BY <1>1, <1>10, <2>1, LocalChange DEF EndTrial, TypeOK
<1>11. ASSUME NEW p \in Runners, RecordTrial(p)
       PROVE  TypeOK'
  <2>1. Current(p) \in Attempts /\ record[Current(p)] \in Records /\ Trial(p) \in Trials
    BY <1>1, <1>11, CurrentType DEF RecordTrial, At, InTrial
  <2> DEFINE r == runner[p]
             failed == r.result # "completed"
             strikes == IF failed THEN r.strikes + 1 ELSE 0
             next == [r EXCEPT
                        !.pc = IF Halts(p, Unchanged(p), strikes) THEN "return" ELSE "scan",
                        !.index = @ + 1, !.strikes = strikes,
                        !.completed = IF failed THEN @ ELSE @ + 1,
                        !.failed = IF failed THEN @ + 1 ELSE @]
             done == [record[Current(p)] EXCEPT !.status = r.result, !.same = Unchanged(p),
                        !.sha = record[Current(p)].log]
  <2>2. next \in LocalStates
    <3>1. r \in LocalStates
      BY <1>1 DEF TypeOK
    <3>2. r.index \in 1..N /\ r.completed \in Nat /\ r.failed \in Nat /\ r.strikes \in Nat
      BY <2>1, <3>1 DEF LocalStates, Trial, Trials
    <3>3. /\ r.index + 1 \in 1..(N + 1) /\ strikes \in Nat
          /\ (IF failed THEN r.completed ELSE r.completed + 1) \in Nat
          /\ (IF failed THEN r.failed + 1 ELSE r.failed) \in Nat
      BY <3>2, CountsAssumption
    <3>4. (IF Halts(p, Unchanged(p), strikes) THEN "return" ELSE "scan") \in {"return", "scan"}
      OBVIOUS
    <3> HIDE DEF r, strikes, failed
    <3> QED
      BY <3>1, <3>3, <3>4 DEF LocalStates
  <2>3. runner' \in [Runners -> LocalStates] /\ lock' \in Runners \union {None}
    BY <1>1, <1>11, <2>2, LocalChange, Leaving DEF RecordTrial, TypeOK
  <2>4. record' = [record EXCEPT ![Current(p)] = done]
    BY <1>1, <1>11, <2>1 DEF RecordTrial, TypeOK
  <2>5. done \in Records
    BY <1>1, <2>1 DEF Records, Unchanged, TypeOK, LocalStates
  <2> QED
    BY <1>1, <1>11, <2>3, <2>4, <2>5 DEF RecordTrial, TypeOK
<1>12. ASSUME NEW p \in Runners, RecordRaises(p) \/ Return(p)
       PROVE  TypeOK'
  BY <1>1, <1>12, Leaving DEF RecordRaises, Return, TypeOK
<1>13. ASSUME NEW p \in Runners, Finish(p)
       PROVE  TypeOK'
  BY <1>1, <1>13, PcChange DEF Finish, TypeOK
<1>14. ASSUME NEW p \in Runners, Crash(p)
       PROVE  TypeOK'
  <2>1. record' \in [Attempts -> Records]
    <3>1. CASE record' = record
      BY <1>1, <3>1 DEF TypeOK
    <3>2. CASE (At(p, "launch") \/ At(p, "record")) /\ record' = [record EXCEPT ![Current(p)].status = "torn"]
      <4>1. Current(p) \in Attempts /\ record[Current(p)] \in Records
        BY <1>1, <3>2, CurrentType DEF At, InTrial
      <4>2. [record[Current(p)] EXCEPT !.status = "torn"] \in Records
        BY <4>1 DEF Records
      <4> QED
        BY <1>1, <3>2, <4>1, <4>2 DEF TypeOK
    <3> QED
      BY <1>14, <3>1, <3>2 DEF Crash
  <2> QED
    BY <1>1, <1>14, <2>1, Leaving DEF Crash, TypeOK
<1>15. ASSUME NEW a \in serving, ServerLogs(a) \/ ServerExits(a)
       PROVE  TypeOK'
  <2>1. a \in Attempts /\ record[a] \in Records
    BY <1>1 DEF TypeOK
  <2>2. [record[a] EXCEPT !.log = @ + 1] \in Records
    BY <2>1 DEF Records
  <2> QED
    BY <1>1, <1>15, <2>1, <2>2 DEF ServerLogs, ServerExits, TypeOK
<1>16. ASSUME NEW c \in Corpora, EditCorpus(c)
       PROVE  TypeOK'
  BY <1>1, <1>16 DEF EditCorpus, TypeOK
<1>17. CASE UNCHANGED vars
  BY <1>1, <1>17 DEF vars, TypeOK
<1> QED
  BY <1>2, <1>3, <1>4, <1>5, <1>6, <1>7, <1>8, <1>9, <1>10, <1>11, <1>12, <1>13, <1>14,
     <1>15, <1>16, <1>17 DEF Next, Step

LEMMA RecordedOn ==
  ASSUME TypeOK, NEW p \in Runners, RecordTrial(p), ~Leaves(p)
  PROVE  /\ lock' = lock
         /\ \A q \in Runners \ {p} : runner'[q] = runner[q]
         /\ runner'[p].pc \in {"return", "scan"}
         /\ runner'[p].args = runner[p].args /\ runner'[p].before = runner[p].before
<1> DEFINE r == runner[p]
           failed == r.result # "completed"
           strikes == IF failed THEN r.strikes + 1 ELSE 0
           place == IF Halts(p, Unchanged(p), strikes) THEN "return" ELSE "scan"
           completed == IF failed THEN r.completed ELSE r.completed + 1
           failures == IF failed THEN r.failed + 1 ELSE r.failed
           next == [r EXCEPT !.pc = place, !.index = @ + 1, !.strikes = strikes,
                             !.completed = completed, !.failed = failures]
<1>1. lock' = lock /\ runner' = [runner EXCEPT ![p] = next]
  BY DEF RecordTrial, Local
<1>2. place \in {"return", "scan"}
  OBVIOUS
<1>3. runner[p] \in LocalStates /\ runner \in [Runners -> LocalStates]
  BY DEF TypeOK
<1> HIDE DEF place, strikes, completed, failures
<1>4. next.pc = place /\ next.args = runner[p].args /\ next.before = runner[p].before
  BY <1>3 DEF LocalStates
<1> QED
  BY <1>1, <1>2, <1>3, <1>4

\* What a step of a runner does to the runners and the lock.
Moves(p) ==
    /\ runner[p].pc # "idle"
    /\ \A q \in Runners \ {p} : runner'[q] = runner[q]
    /\ harness' = harness /\ made' = made
    /\ runner'[p].pc # "idle" => /\ runner'[p].args = runner[p].args
                                 /\ runner'[p].before = runner[p].before
    /\ runner'[p].pc # "lock"
    /\ \/ /\ Busy(p)
          /\ \/ lock' = lock
             \/ lock' = None /\ lock = p /\ runner'[p].pc = "idle"
       \/ ~Busy(p) /\ runner[p].pc = "lock" /\ runner'[p].pc = "pin" /\ lock = None /\ lock' = p
       \/ ~Busy(p) /\ runner'[p].pc = "idle" /\ lock' = IF lock = p THEN None ELSE lock

LEMMA MovesStep ==
  ASSUME Inv, NEW p \in Runners, Step(p) \/ Crash(p)
  PROVE  Moves(p)
<1>1. TypeOK /\ runner \in [Runners -> LocalStates]
  BY DEF Inv, TypeOK
<1>2. Idle.pc = "idle"
  BY DEF Idle
<1>3. CASE TakeLock(p)
  <2>1. runner[p].pc = "lock" /\ harness' = harness /\ made' = made
    BY <1>3 DEF TakeLock, At, disk
  <2>2. CASE Leaves(p)
    BY <1>1, <1>2, <2>1, <2>2, Leaving DEF Moves, Busy
  <2>3. CASE lock = None /\ lock' = p /\ GoTo(p, "pin")
    BY <1>1, <2>1, <2>3, MovingOn DEF Moves, Busy
  <2> QED
    BY <1>3, <2>2, <2>3 DEF TakeLock
<1>4. CASE Pin(p)
  <2>1. runner[p].pc = "pin" /\ harness' = harness /\ made' = made
    BY <1>4 DEF Pin, At
  <2>2. CASE Leaves(p)
    BY <1>1, <1>2, <2>1, <2>2, Leaving DEF Moves, Busy
  <2>3. CASE lock' = lock /\ (GoTo(p, "plan") \/ GoTo(p, "scan"))
    BY <1>1, <2>1, <2>3, MovingOn DEF Moves, Busy
  <2> QED
    BY <1>4, <2>2, <2>3 DEF Pin
<1>5. CASE StorePlan(p) \/ Finish(p)
  <2>1. runner[p].pc \in {"plan", "scan"} /\ harness' = harness /\ made' = made /\ lock' = lock
    BY <1>5 DEF StorePlan, Finish, At, disk
  <2>2. GoTo(p, "scan") \/ GoTo(p, "return")
    BY <1>5 DEF StorePlan, Finish
  <2> QED
    BY <1>1, <2>1, <2>2, MovingOn DEF Moves, Busy
<1>6. CASE SkipTrial(p)
  BY ZenonT(40), <1>1, <1>6 DEF SkipTrial, Local, Moves, At, Busy, LocalStates, disk
<1>7. CASE RefuseTrial(p) \/ RecordRaises(p) \/ Return(p) \/ Crash(p)
  BY <1>1, <1>2, <1>7, Leaving DEF RefuseTrial, RecordRaises, Return, Crash, Moves, At, Busy, disk
<1>8. CASE OpenAttempt(p)
  BY <1>1, <1>2, <1>8, Leaving DEF OpenAttempt, Opened, Moves, At, Busy, Local, GoTo, LocalStates
<1>9. CASE Launch(p)
  <2>1. runner[p].pc = "launch" /\ harness' = harness /\ made' = made
    BY <1>9 DEF Launch, At
  <2>2. CASE Leaves(p)
    BY <1>1, <1>2, <2>1, <2>2, Leaving DEF Moves, Busy
  <2>3. CASE lock' = lock /\ GoTo(p, "trial")
    BY <1>1, <2>1, <2>3, MovingOn DEF Moves, Busy
  <2>4. CASE lock' = lock /\ Local(p, [runner[p] EXCEPT !.pc = "record", !.result = "failed"])
    BY <1>1, <2>1, <2>4 DEF Moves, Busy, Local, LocalStates
  <2> QED
    BY <1>9, <2>2, <2>3, <2>4 DEF Launch
<1>10. CASE RecordTrial(p)
  <2>1. runner[p].pc = "record" /\ harness' = harness /\ made' = made
    BY <1>10 DEF RecordTrial, At
  <2>2. CASE Leaves(p)
    BY <1>1, <1>2, <2>1, <2>2, Leaving DEF Moves, Busy
  <2>3. CASE ~Leaves(p)
    <3>1. /\ lock' = lock
          /\ \A q \in Runners \ {p} : runner'[q] = runner[q]
          /\ runner'[p].pc \in {"return", "scan"}
          /\ runner'[p].args = runner[p].args /\ runner'[p].before = runner[p].before
      BY <1>1, <1>10, <2>3, RecordedOn
    <3> QED
      BY <2>1, <3>1 DEF Moves, Busy
  <2> QED
    BY <2>2, <2>3
<1>11. CASE \E result \in Final : EndTrial(p, result)
  BY <1>1, <1>11 DEF EndTrial, Moves, At, Busy, Local, LocalStates, disk
<1> QED
  BY <1>3, <1>4, <1>5, <1>6, <1>7, <1>8, <1>9, <1>10, <1>11 DEF Step

LEMMA ExclusiveGivesOneWriter ==
  ASSUME Exclusive
  PROVE  OneWriter
  BY DEF Exclusive, OneWriter

LEMMA ExclusiveStep ==
  ASSUME Inv, [Next]_vars
  PROVE  Exclusive' /\ Started'
<1>1. TypeOK /\ Exclusive /\ Started
  BY DEF Inv
<1>2. ASSUME NEW p \in Runners, Step(p) \/ Crash(p)
      PROVE  Exclusive' /\ Started'
  <2>1. Moves(p)
    BY <1>2, MovesStep
  <2>2. Started'
    BY <1>1, <2>1 DEF Moves, Started
  <2>0. /\ \A q \in Runners \ {p} : (Busy(q))' = Busy(q) /\ runner'[q].pc = runner[q].pc
        /\ harness' = harness /\ made' = made /\ runner[p].pc # "idle" /\ runner'[p].pc # "lock"
        /\ Busy(p) = (runner[p].pc # "lock")
        /\ (Busy(p))' = (runner'[p].pc # "idle")
    BY <2>1, Zenon DEF Moves, Busy
  <2>3. CASE harness = "factor"
    <3>1. \A q \in Runners : Busy(q) => lock = q
      BY <1>1, <2>3 DEF Exclusive
    <3>2. \A q \in Runners : (Busy(q))' => lock' = q
      <4>1. \/ lock' = lock /\ Busy(p)
            \/ lock' = None /\ lock = p /\ runner'[p].pc = "idle"
            \/ lock' = p /\ lock = None
            \/ runner'[p].pc = "idle" /\ lock' = IF lock = p THEN None ELSE lock
        BY <2>1 DEF Moves
      <4>2. \A q \in Runners \ {p} : (Busy(q))' => lock = q /\ q # None
        BY <2>0, <3>1, NoneAssumption
      <4>3. Busy(p) => lock = p
        BY <3>1
      <4> QED
        BY <2>0, <4>1, <4>2, <4>3 DEF Busy
    <3>3. harness' = "factor"
      BY <2>0, <2>3
    <3> QED
      BY <2>2, <3>2, <3>3 DEF Exclusive, Busy
  <2>4. CASE harness # "factor"
    <3>1. /\ \A q \in Runners : runner[q].pc # "idle" => made
          /\ \A q, w \in Runners : Busy(q) /\ Busy(w) => q = w
          /\ \A q \in Runners : runner[q].pc # "lock"
      BY <1>1, <2>4 DEF Exclusive
    <3>2. \A q, w \in Runners : (Busy(q))' /\ (Busy(w))' => q = w
      BY <2>0, <3>1
    <3>3. \A q \in Runners : runner'[q].pc # "lock" /\ (runner'[q].pc # "idle" => made')
      BY <2>0, <3>1
    <3>4. harness' # "factor"
      BY <2>0, <2>4
    <3> QED
      BY <2>2, <3>2, <3>3, <3>4 DEF Exclusive, Busy
  <2> QED
    BY <2>2, <2>3, <2>4
<1>3. ASSUME NEW p \in Runners, NEW args \in Arguments, Start(p, args)
      PROVE  Exclusive' /\ Started'
  <2>1. CASE UNCHANGED <<made, runner>>
    BY <1>1, <1>3, <2>1 DEF Start, Exclusive, Started, Busy
  <2>2. CASE ~(UNCHANGED <<made, runner>>)
    <3>1. /\ made' = TRUE /\ (made => args.resume)
          /\ UNCHANGED <<harness, lock>> /\ (args.resume => harness = "factor")
          /\ runner' = [runner EXCEPT ![p] = [Idle EXCEPT
               !.pc = IF harness = "factor" THEN "lock" ELSE "pin",
               !.args = args, !.before = corpus]]
      BY <1>3, <2>2 DEF Start, Local
    <3>2. /\ runner'[p].pc = IF harness = "factor" THEN "lock" ELSE "pin"
          /\ runner'[p].args = args /\ runner'[p].before = corpus
          /\ \A q \in Runners \ {p} : runner'[q] = runner[q]
      BY <1>1, <3>1 DEF TypeOK, Idle
    <3> QED
      BY <1>1, <3>1, <3>2 DEF Exclusive, Started, Busy, TypeOK
  <2> QED
    BY <2>1, <2>2
<1>4. CASE UNCHANGED <<harness, made, lock, runner>>
  BY <1>1, <1>4 DEF Exclusive, Started, Busy
<1> QED
  BY <1>2, <1>3, <1>4 DEF Next, vars, ServerLogs, ServerExits, EditCorpus, disk

\* What a step of a runner writes in the directory: nothing, ...
WritesNothing(p) ==
    /\ UNCHANGED <<tries, record>>
    /\ (InTrial(p))' => runner[p].pc = "trial" /\ runner'[p].index = runner[p].index
\* ... the directory of a trial's next attempt, ...
OpensNext(p) ==
    /\ runner[p].pc = "scan" /\ Busy(p) /\ Trial(p) \in Trials
    /\ tries[Trial(p)] + 1 \in 1..MaxTries
    /\ ~Passed(Trial(p))
    /\ tries' = [tries EXCEPT ![Trial(p)] = @ + 1]
    /\ \E r \in Records :
         /\ record' = [record EXCEPT ![<<Trial(p), tries[Trial(p)] + 1>>] = r]
         /\ r.status \in Open /\ r.cells = runner[p].args.cells
         /\ \/ harness = "benchmark" /\ r.checked = None
            \/ r.checked = runner[p].before
    /\ (InTrial(p))' => runner'[p].index = runner[p].index /\ runner'[p].pc = "launch"
\* ... or the record of the attempt it works on, which it finishes or goes on with.
Rewrites(p) ==
    /\ Busy(p) /\ InTrial(p) /\ tries' = tries
    /\ \E r \in Records :
         /\ record' = [record EXCEPT ![Current(p)] = r]
         /\ r.cells = record[Current(p)].cells
         /\ \/ /\ (InTrial(p))' /\ runner'[p].index = runner[p].index
               /\ r.status \in Open /\ r.checked = runner[p].before
            \/ /\ ~(InTrial(p))' /\ (runner[p].pc = "record" \/ r.status = "torn")
               /\ r.checked = record[Current(p)].checked

LEMMA WritesStep ==
  ASSUME Inv, NEW p \in Runners, Step(p) \/ Crash(p)
  PROVE  WritesNothing(p) \/ OpensNext(p) \/ Rewrites(p)
<1>1. TypeOK /\ Working /\ Started /\ Exclusive
  BY DEF Inv
<1>2. runner[p] \in LocalStates /\ runner \in [Runners -> LocalStates]
  BY <1>1 DEF TypeOK
<1>3. Idle.pc = "idle"
  BY DEF Idle
<1>4. CASE TakeLock(p) \/ Pin(p) \/ StorePlan(p) \/ Finish(p)
  <2>1. UNCHANGED <<tries, record>>
    BY <1>4 DEF TakeLock, Pin, StorePlan, Finish, disk
  <2>2. Leaves(p) \/ GoTo(p, "pin") \/ GoTo(p, "plan") \/ GoTo(p, "scan") \/ GoTo(p, "return")
    BY <1>4 DEF TakeLock, Pin, StorePlan, Finish
  <2>3. runner'[p].pc \in {"idle", "pin", "plan", "scan", "return"}
    BY <1>1, <1>3, <2>2, Leaving, MovingOn
  <2> QED
    BY <2>1, <2>3 DEF WritesNothing, InTrial
<1>5. CASE SkipTrial(p)
  <2>1. UNCHANGED <<tries, record>>
    BY <1>5 DEF SkipTrial, disk
  <2>2. runner'[p].pc = "scan"
    BY <1>2, <1>5 DEF SkipTrial, Local, At, LocalStates
  <2> QED
    BY <2>1, <2>2 DEF WritesNothing, InTrial
<1>6. CASE RefuseTrial(p) \/ RecordRaises(p) \/ Return(p)
  <2>1. UNCHANGED <<tries, record>>
    BY <1>6 DEF RefuseTrial, RecordRaises, Return, disk
  <2>2. runner'[p].pc = "idle"
    BY <1>1, <1>3, <1>6, Leaving DEF RefuseTrial, RecordRaises, Return
  <2> QED
    BY <2>1, <2>2 DEF WritesNothing, InTrial
<1>7. CASE OpenAttempt(p)
  <2>1. runner[p].pc = "scan" /\ Trial(p) \in Trials
    BY <1>2, <1>7 DEF OpenAttempt, Opened, At, Trial, Trials, LocalStates
  <2>2. CASE Leaves(p) /\ UNCHANGED <<tries, record>>
    BY <1>1, <1>3, <2>2, Leaving DEF WritesNothing, InTrial
  <2>3. CASE ~(Leaves(p) /\ UNCHANGED <<tries, record>>)
    <3> DEFINE new == [Blank EXCEPT !.status = IF harness = "benchmark" THEN "planned" ELSE "none",
                           !.cells = runner[p].args.cells,
                           !.checked = IF harness = "benchmark" THEN None ELSE corpus]
    <3>1. harness = "benchmark" \/ corpus = runner[p].before
      BY <1>7, <2>3 DEF OpenAttempt, Opened, Unchanged
    <3>2. /\ tries' = [tries EXCEPT ![Trial(p)] = @ + 1]
          /\ record' = [record EXCEPT ![<<Trial(p), tries[Trial(p)] + 1>>] = new]
          /\ \/ Local(p, [runner[p] EXCEPT !.index = @ + 1])
             \/ GoTo(p, "launch")
      BY <1>7, <2>3, <3>1 DEF OpenAttempt, Opened, Unchanged
    <3>3. runner[p].args.cells \in Cells /\ corpus \in Corpora
      BY <1>1, <2>1 DEF Started, Arguments, TypeOK
    <3>4. new \in Records
      BY <3>3, BlankType DEF Records
    <3>5. /\ new.status \in Open /\ new.cells = runner[p].args.cells
          /\ new.checked = IF harness = "benchmark" THEN None ELSE corpus
      BY DEF Blank, Open
    <3>6. (InTrial(p))' => runner'[p].index = runner[p].index /\ runner'[p].pc = "launch"
      <4>1. CASE Local(p, [runner[p] EXCEPT !.index = @ + 1])
        BY <1>2, <2>1, <4>1 DEF Local, InTrial, LocalStates
      <4>2. CASE GoTo(p, "launch")
        BY <1>1, <4>2, MovingOn
      <4> QED
        BY <3>2, <4>1, <4>2
    <3>7. tries[Trial(p)] + 1 \in 1..MaxTries
      BY <1>1, <1>7, <2>1, CountsAssumption DEF OpenAttempt, Opened, TypeOK
    <3>8. ~Passed(Trial(p)) /\ Busy(p)
      BY <1>7, <2>1 DEF OpenAttempt, Opened, Wanted, Busy
    <3>9. (harness = "benchmark" /\ new.checked = None) \/ new.checked = runner[p].before
      BY <3>1, <3>5
    <3> HIDE DEF new
    <3> QED
      BY <2>1, <3>2, <3>4, <3>5, <3>6, <3>7, <3>8, <3>9 DEF OpensNext
  <2> QED
    BY <2>2, <2>3
<1>8. CASE Launch(p)
  <2>1. runner[p].pc = "launch" /\ InTrial(p) /\ Busy(p)
    BY <1>8 DEF Launch, At, InTrial, Busy
  <2>2. Current(p) \in Attempts /\ record[Current(p)] \in Records /\ record \in [Attempts -> Records]
    BY <1>1, <2>1, CurrentType DEF TypeOK
  <2>3. record[Current(p)].status \in Open
        /\ (harness # "benchmark" => record[Current(p)].checked = runner[p].before)
    BY <1>1, <2>1 DEF Working
  <2>4. CASE Leaves(p) /\ UNCHANGED <<record, serving>>
    BY <1>1, <1>3, <1>8, <2>4, Leaving DEF WritesNothing, InTrial, Launch
  <2>5. CASE ~(Leaves(p) /\ UNCHANGED <<record, serving>>)
    <3> DEFINE started == [record[Current(p)] EXCEPT !.status = "running",
                             !.checked = IF harness = "benchmark" THEN corpus ELSE @]
               checked == [record[Current(p)] EXCEPT !.checked = corpus]
    <3>1. harness = "benchmark" => corpus = runner[p].before
      BY <1>8, <2>5 DEF Launch, Unchanged
    <3>2. corpus \in Corpora
      BY <1>1 DEF TypeOK
    <3>3. CASE GoTo(p, "trial") /\ record' = [record EXCEPT ![Current(p)].status = "running",
                                  ![Current(p)].checked = IF harness = "benchmark" THEN corpus ELSE @]
      <4>1. record' = [record EXCEPT ![Current(p)] = started]
        BY <2>2, <3>3 DEF Records
      <4>2. started \in Records /\ started.status = "running"
            /\ started.cells = record[Current(p)].cells
            /\ started.checked = runner[p].before
        BY <2>2, <2>3, <3>1, <3>2 DEF Records
      <4>3. runner'[p].pc = "trial" /\ runner'[p].index = runner[p].index
        BY <1>1, <3>3, MovingOn
      <4>4. tries' = tries
        BY <1>8 DEF Launch
      <4> HIDE DEF started
      <4> QED
        BY <2>1, <4>1, <4>2, <4>3, <4>4 DEF Rewrites, InTrial, Open
    <3>4. CASE harness = "benchmark"
               /\ Local(p, [runner[p] EXCEPT !.pc = "record", !.result = "failed"])
               /\ record' = [record EXCEPT ![Current(p)].checked = corpus]
      <4>1. record' = [record EXCEPT ![Current(p)] = checked]
        BY <2>2, <3>4 DEF Records
      <4>2. checked \in Records /\ checked.status = record[Current(p)].status
            /\ checked.cells = record[Current(p)].cells
            /\ checked.checked = runner[p].before
        BY <2>2, <3>1, <3>2, <3>4 DEF Records
      <4>3. runner'[p].pc = "record" /\ runner'[p].index = runner[p].index
        BY <1>2, <3>4 DEF Local, LocalStates
      <4>4. tries' = tries
        BY <1>8 DEF Launch
      <4> HIDE DEF checked
      <4> QED
        BY <2>1, <2>3, <4>1, <4>2, <4>3, <4>4 DEF Rewrites, InTrial
    <3> QED
      BY <1>8, <2>5, <3>3, <3>4 DEF Launch
  <2> QED
    BY <2>4, <2>5
<1>9. CASE \E result \in Final : EndTrial(p, result)
  <2>1. UNCHANGED <<tries, record>> /\ runner[p].pc = "trial"
    BY <1>9 DEF EndTrial, disk, At
  <2>2. runner'[p].pc = "record" /\ runner'[p].index = runner[p].index
    BY <1>2, <1>9 DEF EndTrial, Local, LocalStates
  <2> QED
    BY <2>1, <2>2 DEF WritesNothing, InTrial
<1>10. CASE RecordTrial(p)
  <2>1. runner[p].pc = "record" /\ InTrial(p) /\ Busy(p)
    BY <1>10 DEF RecordTrial, At, InTrial, Busy
  <2>2. Current(p) \in Attempts /\ record[Current(p)] \in Records /\ record \in [Attempts -> Records]
    BY <1>1, <2>1, CurrentType DEF TypeOK
  <2> DEFINE done == [record[Current(p)] EXCEPT !.status = runner[p].result,
                        !.same = Unchanged(p), !.sha = record[Current(p)].log]
  <2>3. record' = [record EXCEPT ![Current(p)] = done] /\ tries' = tries
    BY <1>10, <2>2 DEF RecordTrial
  <2>4. record' \in [Attempts -> Records]
    BY TypeStep, <1>10 DEF Next, Step, TypeOK
  <2>5. done \in Records
    BY <2>2, <2>3, <2>4
  <2>6. done.cells = record[Current(p)].cells /\ done.checked = record[Current(p)].checked
    BY <2>2 DEF Records
  <2>7. runner'[p].pc \in {"idle", "return", "scan"}
    <3>1. CASE Leaves(p)
      BY <1>1, <1>3, <3>1, Leaving
    <3>2. CASE ~Leaves(p)
      BY <1>1, <1>10, <3>2, RecordedOn
    <3> QED
      BY <3>1, <3>2
  <2> HIDE DEF done
  <2> QED
    BY <2>1, <2>3, <2>5, <2>6, <2>7 DEF Rewrites, InTrial
<1>11. CASE Crash(p)
  <2>1. runner'[p].pc = "idle"
    BY <1>1, <1>3, <1>11, Leaving DEF Crash
  <2>2. CASE UNCHANGED <<tries, record>>
    BY <2>1, <2>2 DEF WritesNothing, InTrial
  <2>3. CASE (At(p, "launch") \/ At(p, "record")) /\ tries' = tries
             /\ record' = [record EXCEPT ![Current(p)].status = "torn"]
    <3>1. InTrial(p) /\ Busy(p)
      BY <2>3 DEF At, InTrial, Busy
    <3>2. Current(p) \in Attempts /\ record[Current(p)] \in Records /\ record \in [Attempts -> Records]
      BY <1>1, <3>1, CurrentType DEF TypeOK
    <3> DEFINE torn == [record[Current(p)] EXCEPT !.status = "torn"]
    <3>3. torn \in Records /\ torn.status = "torn" /\ torn.cells = record[Current(p)].cells
          /\ torn.checked = record[Current(p)].checked
      BY <3>2 DEF Records
    <3>4. record' = [record EXCEPT ![Current(p)] = torn]
      BY <2>3, <3>2
    <3> HIDE DEF torn
    <3> QED
      BY <2>1, <2>3, <3>1, <3>3, <3>4 DEF Rewrites, InTrial
  <2> QED
    BY <1>11, <2>2, <2>3 DEF Crash, disk
<1> QED
  BY <1>4, <1>5, <1>6, <1>7, <1>8, <1>9, <1>10, <1>11 DEF Step

\* While one runner writes, no other one is in a trial.
LEMMA OthersOut ==
  ASSUME Exclusive, NEW p \in Runners, NEW q \in Runners, Busy(p), InTrial(q)
  PROVE  q = p
  BY ExclusiveGivesOneWriter DEF OneWriter, Busy, InTrial

LEMMA RunnerKeepsWorking ==
  ASSUME Inv, NEW p \in Runners, Step(p) \/ Crash(p)
  PROVE  Working' /\ NewestOnly'
<1>1. TypeOK /\ Working /\ NewestOnly /\ Exclusive /\ Moves(p)
  BY MovesStep DEF Inv
<1>2. record \in [Attempts -> Records] /\ tries \in [Trials -> 0..MaxTries] /\ MaxTries \in Nat
  BY <1>1, CountsAssumption DEF TypeOK
<1>3. CASE WritesNothing(p)
  <2>1. NewestOnly'
    BY <1>1, <1>3 DEF NewestOnly, WritesNothing
  <2>2. ASSUME NEW q \in Runners, (InTrial(q))'
        PROVE  /\ InTrial(q) /\ runner'[q].index = runner[q].index
               /\ runner'[q].args = runner[q].args /\ runner'[q].before = runner[q].before
               /\ (harness' = "benchmark" /\ runner'[q].pc = "launch")
                     \/ ~(harness = "benchmark" /\ runner[q].pc = "launch")
    BY <1>1, <1>3, <2>2 DEF Moves, WritesNothing, InTrial
  <2>3. UNCHANGED <<tries, record>>
    BY <1>3 DEF WritesNothing
  <2> QED
    BY <1>1, <2>1, <2>2, <2>3 DEF Working, Trial, Current
<1>4. CASE OpensNext(p)
  <2> DEFINE t == Trial(p)
             n == tries[t] + 1
  <2>1. PICK r \in Records :
           /\ record' = [record EXCEPT ![<<t, n>>] = r]
           /\ r.status \in Open /\ r.cells = runner[p].args.cells
           /\ \/ harness = "benchmark" /\ r.checked = None
              \/ r.checked = runner[p].before
    BY <1>4 DEF OpensNext
  <2>2. /\ Busy(p) /\ t \in Trials /\ n \in 1..MaxTries /\ ~Passed(t)
        /\ tries' = [tries EXCEPT ![t] = n]
        /\ (InTrial(p))' => runner'[p].index = t /\ runner'[p].pc = "launch"
    BY <1>4 DEF OpensNext, Trial
  <2>3. <<t, n>> \in Attempts /\ tries[t] \in 0..MaxTries
    BY <1>2, <2>2 DEF Attempts
  <2>4. record'[<<t, n>>] = r /\ tries'[t] = n
    BY <1>2, <2>1, <2>2, <2>3
  <2>5. ASSUME NEW u \in Trials, NEW m \in 1..MaxTries
        PROVE  /\ m < tries'[u] => record'[<<u, m>>].status # "completed"
               /\ m > tries'[u] => record'[<<u, m>>].status = "none"
    <3>1. <<u, m>> \in Attempts
      BY DEF Attempts
    <3>2. CASE u # t
      BY <1>1, <1>2, <2>1, <2>2, <2>3, <3>1, <3>2 DEF NewestOnly
    <3>3. CASE u = t /\ m = n
      BY <2>4, <3>3, <1>2
    <3>4. CASE u = t /\ m # n
      <4>1. record'[<<u, m>>] = record[<<u, m>>] /\ tries'[u] = n
        BY <1>2, <2>1, <2>3, <2>4, <3>1, <3>4
      <4>2. CASE m = tries[t]
        BY <1>2, <2>2, <2>3, <3>4, <4>1, <4>2 DEF Passed, Last
      <4>3. CASE m < tries[t]
        BY <1>1, <1>2, <2>3, <3>4, <4>1, <4>3 DEF NewestOnly
      <4>4. CASE m > tries[t]
        BY <1>1, <1>2, <2>3, <3>4, <4>1, <4>4 DEF NewestOnly
      <4> QED
        BY <1>2, <2>3, <4>2, <4>3, <4>4
    <3> QED
      BY <3>2, <3>3, <3>4
  <2>6. NewestOnly'
    BY <2>5 DEF NewestOnly
  <2>7. ASSUME NEW q \in Runners, (InTrial(q))'
        PROVE  q = p
    BY <1>1, <2>2, <2>7, OthersOut DEF Moves, InTrial
  <2>8. runner'[p].pc # "idle" => runner'[p].args = runner[p].args /\ runner'[p].before = runner[p].before
    BY <1>1 DEF Moves
  <2>9. (InTrial(p))' =>
           /\ (Trial(p))' \in Trials
           /\ tries'[(Trial(p))'] \in 1..MaxTries
           /\ (Current(p))' = <<t, n>>
    BY <2>2, <2>4 DEF Trial, Current
  <2> QED
    BY <1>1, <2>1, <2>2, <2>4, <2>6, <2>7, <2>8, <2>9 DEF Working, InTrial, Moves
<1>5. CASE Rewrites(p)
  <2>1. PICK r \in Records :
           /\ record' = [record EXCEPT ![Current(p)] = r]
           /\ r.cells = record[Current(p)].cells
           /\ \/ /\ (InTrial(p))' /\ runner'[p].index = runner[p].index
                 /\ r.status \in Open /\ r.checked = runner[p].before
              \/ /\ ~(InTrial(p))' /\ (runner[p].pc = "record" \/ r.status = "torn")
                 /\ r.checked = record[Current(p)].checked
    BY <1>5 DEF Rewrites
  <2>2. Busy(p) /\ InTrial(p) /\ tries' = tries
    BY <1>5 DEF Rewrites
  <2>3. /\ Trial(p) \in Trials /\ tries[Trial(p)] \in 1..MaxTries
        /\ Current(p) = <<Trial(p), tries[Trial(p)]>> /\ Current(p) \in Attempts
        /\ record[Current(p)].cells = runner[p].args.cells
    BY <1>1, <2>2, CurrentType DEF Working, Current
  <2>4. ASSUME NEW u \in Trials, NEW m \in 1..MaxTries
        PROVE  /\ m < tries'[u] => record'[<<u, m>>].status # "completed"
               /\ m > tries'[u] => record'[<<u, m>>].status = "none"
    <3>1. <<u, m>> \in Attempts
      BY DEF Attempts
    <3>2. CASE <<u, m>> = Current(p)
      BY <1>2, <2>2, <2>3, <3>2
    <3>3. CASE <<u, m>> # Current(p)
      BY <1>1, <1>2, <2>1, <2>2, <3>1, <3>3 DEF NewestOnly
    <3> QED
      BY <3>2, <3>3
  <2>5. NewestOnly'
    BY <2>4 DEF NewestOnly
  <2>6. ASSUME NEW q \in Runners, (InTrial(q))'
        PROVE  q = p
    BY <1>1, <2>2, <2>6, OthersOut DEF Moves, InTrial
  <2>7. runner'[p].pc # "idle" => runner'[p].args = runner[p].args /\ runner'[p].before = runner[p].before
    BY <1>1 DEF Moves
  <2>8. record'[Current(p)] = r
    BY <1>2, <2>1, <2>3
  <2>9. (InTrial(p))' =>
           /\ (Trial(p))' \in Trials
           /\ tries'[(Trial(p))'] \in 1..MaxTries
           /\ (Current(p))' = Current(p)
           /\ r.status \in Open /\ r.checked = runner[p].before
    BY <2>1, <2>2, <2>3 DEF Trial, Current
  <2> QED
    BY <1>1, <2>1, <2>3, <2>5, <2>6, <2>7, <2>8, <2>9 DEF Working, InTrial, Moves
<1> QED
  BY <1>3, <1>4, <1>5, WritesStep

\* What everything else does: a start, a server, an edit, a stutter.
Outside == \/ \E p \in Runners, args \in Arguments : Start(p, args)
           \/ \E a \in serving : ServerLogs(a) \/ ServerExits(a)
           \/ \E c \in Corpora : EditCorpus(c)
           \/ UNCHANGED vars

LEMMA OutsideStep ==
  ASSUME Inv, Outside
  PROVE  /\ UNCHANGED <<harness, manifest, plan, tries>>
         /\ record' \in [Attempts -> Records]
         /\ \A a \in Attempts : /\ record'[a].status = record[a].status
                                /\ record'[a].cells = record[a].cells
                                /\ record'[a].checked = record[a].checked
                                /\ record'[a].same = record[a].same
         /\ \A p \in Runners :
              \/ runner'[p] = runner[p]
              \/ runner[p].pc = "idle" /\ runner'[p].pc \in {"lock", "pin"}
<1>1. TypeOK
  BY DEF Inv
<1>2. CASE \E p \in Runners, args \in Arguments : Start(p, args)
  <2>1. PICK p \in Runners, args \in Arguments : Start(p, args)
    BY <1>2
  <2>2. UNCHANGED <<harness, manifest, plan, tries, record>> /\ runner[p].pc = "idle"
    BY <2>1 DEF Start, At
  <2>3. runner' = runner \/ runner' = [runner EXCEPT ![p] = [Idle EXCEPT
               !.pc = IF harness = "factor" THEN "lock" ELSE "pin",
               !.args = args, !.before = corpus]]
    BY <2>1 DEF Start, Local
  <2>4. \A q \in Runners : \/ runner'[q] = runner[q]
                           \/ runner[q].pc = "idle" /\ runner'[q].pc \in {"lock", "pin"}
    BY <1>1, <2>2, <2>3 DEF TypeOK, Idle
  <2> QED
    BY <1>1, <2>2, <2>4 DEF TypeOK
<1>3. CASE \E a \in serving : ServerLogs(a)
  <2>1. PICK a \in serving : ServerLogs(a)
    BY <1>3
  <2>2. a \in Attempts /\ record \in [Attempts -> Records] /\ record[a] \in Records
    BY <1>1 DEF TypeOK
  <2>3. /\ UNCHANGED <<harness, manifest, plan, tries, runner>>
        /\ record' = [record EXCEPT ![a] = [record[a] EXCEPT !.log = @ + 1]]
    BY <2>1, <2>2 DEF ServerLogs
  <2>4. [record[a] EXCEPT !.log = @ + 1] \in Records
    BY <2>2 DEF Records
  <2> QED
    BY <2>2, <2>3, <2>4 DEF Records
<1>4. CASE \/ \E a \in serving : ServerExits(a)
           \/ \E c \in Corpora : EditCorpus(c)
           \/ UNCHANGED vars
  BY <1>1, <1>4 DEF ServerExits, EditCorpus, vars, disk, TypeOK
<1> QED
  BY <1>2, <1>3, <1>4 DEF Outside

LEMMA StepIsRunnerOrOutside ==
  ASSUME [Next]_vars
  PROVE  Outside \/ \E p \in Runners : Step(p) \/ Crash(p)
  BY DEF Next, Outside

LEMMA InvInit ==
  ASSUME Init
  PROVE  Inv
<1>1. Idle.pc = "idle" /\ Blank.status = "none"
  BY DEF Idle, Blank
<1>2. TypeOK
  <2>1. made \in BOOLEAN
    BY Zenon DEF Init
  <2>2. tries \in [Trials -> 0..MaxTries]
    BY CountsAssumption DEF Init
  <2>3. record \in [Attempts -> Records] /\ runner \in [Runners -> LocalStates]
    BY IdleType, BlankType DEF Init
  <2> QED
    BY <2>1, <2>2, <2>3 DEF Init, TypeOK
<1>3. Started /\ Exclusive /\ Working
  BY <1>1 DEF Init, Started, Exclusive, Working, InTrial, Busy
<1>4. NewestOnly
  BY <1>1, CountsAssumption DEF Init, NewestOnly, Attempts
<1> QED
  BY <1>2, <1>3, <1>4 DEF Inv

LEMMA InvStep ==
  ASSUME Inv, [Next]_vars
  PROVE  Inv'
<1>1. TypeOK' /\ Exclusive' /\ Started'
  BY TypeStep, ExclusiveStep
<1>2. Working' /\ NewestOnly'
  <2>1. CASE \E p \in Runners : Step(p) \/ Crash(p)
    BY <2>1, RunnerKeepsWorking
  <2>2. CASE Outside
    <3>1. Working /\ NewestOnly
      BY DEF Inv
    <3>2. NewestOnly'
      BY <2>2, <3>1, OutsideStep DEF NewestOnly, Attempts
    <3>3. ASSUME NEW p \in Runners, (InTrial(p))'
          PROVE  runner'[p] = runner[p] /\ InTrial(p)
      BY <2>2, <3>3, OutsideStep DEF InTrial
    <3>4. Working'
      <4>1. ASSUME NEW p \in Runners, (InTrial(p))'
            PROVE  /\ (Trial(p))' = Trial(p) /\ (Current(p))' = Current(p)
                   /\ Current(p) \in Attempts
        BY <2>2, <3>3, <4>1, OutsideStep, CurrentType DEF Trial, Current, Inv
      <4> QED
        BY <2>2, <3>1, <3>3, <4>1, OutsideStep DEF Working
    <3> QED
      BY <3>2, <3>4
  <2> QED
    BY <2>1, <2>2, StepIsRunnerOrOutside
<1> QED
  BY <1>1, <1>2 DEF Inv

\* Type correctness of every reachable state, with the facts the promises below rest on: one
\* runner at most is past the lock, it works on an attempt that is the newest of its trial and
\* not finished, and only a newest attempt is ever a completed one.
THEOREM Correctness == Spec => []Inv
  BY InvInit, InvStep, PTL DEF Spec
-----------------------------------------------------------------------------
\* The refinement: every step of the programs is a step of the ledger or leaves it alone.
LEMMA LedgerInit ==
  ASSUME Init
  PROVE  Ledger!Init
  BY DEF Init, Ledger!Init, Accepted

LEMMA LedgerStep ==
  ASSUME Inv, [Next]_vars
  PROVE  [Ledger!Next]_(Ledger!vars)
<1>1. TypeOK /\ Working /\ NewestOnly
  BY DEF Inv
<1>2. record \in [Attempts -> Records] /\ tries \in [Trials -> 0..MaxTries] /\ MaxTries \in Nat
  BY <1>1, CountsAssumption DEF TypeOK
<1>3. \A t \in Trials : Accepted[t] \subseteq {tries[t]}
  BY <1>1, <1>2 DEF Accepted, NewestOnly
<1>4. CASE Outside
  <2>1. UNCHANGED tries
    BY <1>4, OutsideStep
  <2>2. \A t \in Trials : \A n \in 1..tries[t] : record'[<<t, n>>].status = record[<<t, n>>].status
    BY <1>2, <1>4, OutsideStep DEF Attempts
  <2>3. Accepted' = Accepted
    BY <2>1, <2>2 DEF Accepted
  <2> QED
    BY <2>1, <2>3 DEF Ledger!vars
<1>5. ASSUME NEW p \in Runners, Step(p) \/ Crash(p)
      PROVE  [Ledger!Next]_(Ledger!vars)
  <2>1. CASE WritesNothing(p)
    BY <2>1 DEF WritesNothing, Ledger!vars, Accepted
  <2>2. CASE OpensNext(p)
    <3> DEFINE t == Trial(p)
               n == tries[t] + 1
    <3>1. PICK r \in Records : record' = [record EXCEPT ![<<t, n>>] = r] /\ r.status \in Open
      BY <2>2 DEF OpensNext
    <3>2. /\ t \in Trials /\ n \in 1..MaxTries /\ ~Passed(t)
          /\ tries' = [tries EXCEPT ![t] = @ + 1]
      BY <2>2 DEF OpensNext
    <3>3. Accepted[t] = {}
      BY <1>2, <1>3, <3>2 DEF Accepted, Passed, Last
    <3>4. ASSUME NEW u \in Trials
          PROVE  Accepted'[u] = Accepted[u]
      <4>1. \A m \in 1..tries[u] : <<u, m>> \in Attempts /\ <<u, m>> # <<t, n>>
        BY <1>2, <3>2 DEF Attempts
      <4>2. \A m \in 1..tries[u] : record'[<<u, m>>] = record[<<u, m>>]
        BY <1>2, <3>1, <4>1
      <4>3. CASE u # t
        BY <1>2, <3>2, <4>2, <4>3 DEF Accepted
      <4>4. CASE u = t
        <5>1. tries'[u] = n /\ <<t, n>> \in Attempts /\ n \in Nat
          BY <1>2, <3>2, <4>4 DEF Attempts
        <5>2. record'[<<t, n>>].status # "completed"
          BY <1>2, <3>1, <5>1 DEF Open
        <5>3. Accepted'[u] = {m \in 1..n : record'[<<u, m>>].status = "completed"}
          BY <5>1 DEF Accepted
        <5>4. \A m \in 1..n : m = n \/ m \in 1..tries[u]
          BY <1>2, <3>2, <4>4
        <5> QED
          BY <3>3, <4>2, <4>4, <5>2, <5>3, <5>4 DEF Accepted
      <4> QED
        BY <4>3, <4>4
    <3>5. Accepted' = Accepted
      BY <3>4 DEF Accepted
    <3> QED
      BY <3>2, <3>3, <3>5 DEF Ledger!Next, Ledger!Try
  <2>3. CASE Rewrites(p)
    <3> DEFINE t == Trial(p)
               n == tries[t]
    <3>1. PICK r \in Records : record' = [record EXCEPT ![Current(p)] = r]
      BY <2>3 DEF Rewrites
    <3>2. /\ t \in Trials /\ n \in 1..MaxTries /\ Current(p) = <<t, n>>
          /\ record[<<t, n>>].status # "completed" /\ <<t, n>> \in Attempts
          /\ tries' = tries
      BY <1>1, <2>3, CurrentType DEF Rewrites, Working, Current, Open
    <3>3. Accepted[t] = {}
      BY <1>2, <1>3, <3>2 DEF Accepted
    <3>4. ASSUME NEW u \in Trials, u # t
          PROVE  Accepted'[u] = Accepted[u]
      <4>1. \A m \in 1..tries[u] : record'[<<u, m>>] = record[<<u, m>>]
        BY <1>2, <3>1, <3>2, <3>4 DEF Attempts
      <4> QED
        BY <3>2, <4>1 DEF Accepted
    <3>5. Accepted'[t] = {} \/ Accepted'[t] = {n}
      <4>1. \A m \in 1..n : m # n => record'[<<t, m>>] = record[<<t, m>>]
        BY <1>2, <3>1, <3>2 DEF Attempts
      <4>2. \A m \in 1..n : record[<<t, m>>].status # "completed"
        BY <3>2, <3>3 DEF Accepted
      <4>3. Accepted'[t] \subseteq {n}
        BY <3>2, <4>1, <4>2 DEF Accepted
      <4> QED
        BY <4>3
    <3>6. Accepted = [u \in Trials |-> Accepted[u]] /\ Accepted' = [u \in Trials |-> Accepted'[u]]
      BY DEF Accepted
    <3>7. CASE Accepted'[t] = {}
      <4>1. Accepted' = Accepted
        BY <3>3, <3>4, <3>6, <3>7
      <4> QED
        BY <3>2, <4>1 DEF Ledger!vars
    <3>8. CASE Accepted'[t] = {n}
      <4>1. Accepted' = [Accepted EXCEPT ![t] = {n}]
        BY <3>4, <3>6, <3>8
      <4>2. n > 0
        BY <1>2, <3>2
      <4>3. Ledger!Accept(t)
        BY <3>2, <3>3, <4>1, <4>2 DEF Ledger!Accept
      <4> QED
        BY <3>2, <4>3 DEF Ledger!Next
    <3> QED
      BY <3>5, <3>7, <3>8
  <2> QED
    BY <1>5, <2>1, <2>2, <2>3, WritesStep
<1> QED
  BY <1>4, <1>5, StepIsRunnerOrOutside

\* However many runners are started, killed and resumed on one directory, it keeps the promise of
\* TrialLedger: no trial is accepted twice, none is tried again once accepted, and no accepted
\* trial is lost.
THEOREM Refinement == Spec => KeepsLedger
<1>1. Init => Ledger!Init
  BY LedgerInit
<1>2. Inv /\ [Next]_vars => [Ledger!Next]_(Ledger!vars)
  BY LedgerStep
<1> QED
  BY <1>1, <1>2, Correctness, PTL DEF Spec, KeepsLedger, Ledger!Spec
-----------------------------------------------------------------------------
\* Finished first attempts stay as they are.
LEMMA PrimaryStep ==
  ASSUME Inv, [Next]_vars, NEW t \in Trials, Primary(t).status \in Final
  PROVE  (Primary(t))'.status = Primary(t).status /\ (Primary(t))'.same = Primary(t).same
<1>1. TypeOK /\ Working /\ NewestOnly
  BY DEF Inv
<1>2. /\ <<t, 1>> \in Attempts /\ record \in [Attempts -> Records]
      /\ tries \in [Trials -> 0..MaxTries] /\ 1 \in 1..MaxTries
  BY <1>1, CountsAssumption DEF Attempts, TypeOK
<1>3. tries[t] # 0
  BY <1>1, <1>2 DEF NewestOnly, Primary, Final
<1>4. CASE Outside
  BY <1>2, <1>4, OutsideStep DEF Primary
<1>5. ASSUME NEW p \in Runners, Step(p) \/ Crash(p)
      PROVE  record'[<<t, 1>>] = record[<<t, 1>>]
  <2>1. CASE WritesNothing(p)
    BY <2>1 DEF WritesNothing
  <2>2. CASE OpensNext(p)
    <3>1. PICK r \in Records :
             record' = [record EXCEPT ![<<Trial(p), tries[Trial(p)] + 1>>] = r]
      BY <2>2 DEF OpensNext
    <3>2. <<Trial(p), tries[Trial(p)] + 1>> # <<t, 1>>
      BY <1>2, <1>3
    <3> QED
      BY <1>2, <3>1, <3>2
  <2>3. CASE Rewrites(p)
    <3>1. PICK r \in Records : record' = [record EXCEPT ![Current(p)] = r]
      BY <2>3 DEF Rewrites
    <3>2. record[Current(p)].status \in Open
      BY <1>1, <2>3 DEF Rewrites, Working
    <3>3. Current(p) # <<t, 1>>
      BY <3>2 DEF Primary, Final, Open
    <3> QED
      BY <1>2, <3>1, <3>3
  <2> QED
    BY <1>5, <2>1, <2>2, <2>3, WritesStep
<1> QED
  BY <1>4, <1>5, StepIsRunnerOrOutside DEF Primary

\* The first attempt of a trial is the one the analysis reads: no retry, no resume and no second
\* runner changes what it recorded once it is finished.
THEOREM PrimaryStays == Spec => PrimaryFixed
<1>1. Inv /\ [Next]_vars => [\A t \in Trials : Primary(t).status \in Final =>
        Primary(t).status' = Primary(t).status /\ Primary(t).same' = Primary(t).same]_vars
  BY PrimaryStep
<1> QED
  BY <1>1, Correctness, PTL DEF Spec, PrimaryFixed
-----------------------------------------------------------------------------
\* What every run has agreed on before it opens an attempt, and what every attempt was made under.
OnPlan ==
    /\ \A p \in Runners :
         /\ runner[p].pc \notin {"idle", "lock", "pin"} => manifest = runner[p].before
         /\ runner[p].pc \notin {"idle", "lock", "pin", "plan"} => plan = runner[p].args.cells
         /\ runner[p].pc = "plan" => plan = None
    /\ manifest = None => plan = None
    /\ plan \notin Cells => \A t \in Trials : tries[t] = 0
    /\ \A t \in Trials, n \in 1..MaxTries : n <= tries[t] =>
         /\ record[<<t, n>>].cells = plan
         /\ record[<<t, n>>].status = "completed" => record[<<t, n>>].checked = manifest

\* What a step of a runner does to the manifest and the plan.
KeepsPlan(p) ==
    /\ UNCHANGED <<manifest, plan>>
    /\ \/ runner'[p].pc \in {"idle", "pin"}
       \/ runner[p].pc \notin {"idle", "lock", "pin", "plan"} /\ runner'[p].pc # "plan"
       \/ /\ runner[p].pc = "pin" /\ runner'[p].pc = "scan"
          /\ manifest = runner[p].before /\ plan = runner[p].args.cells
WritesPlan(p) ==
    /\ UNCHANGED <<tries, record>> /\ Busy(p)
    /\ \/ /\ runner[p].pc = "pin" /\ manifest = None /\ plan' = plan
          /\ \/ manifest' = "torn" /\ runner'[p].pc = "idle"
             \/ manifest' = runner[p].before /\ runner'[p].pc = "plan"
       \/ /\ runner[p].pc = "plan" /\ manifest' = manifest
          /\ \/ plan' = "torn" /\ runner'[p].pc = "idle"
             \/ plan' = runner[p].args.cells /\ runner'[p].pc = "scan"

LEMMA PlanStep ==
  ASSUME Inv, NEW p \in Runners, Step(p) \/ Crash(p)
  PROVE  KeepsPlan(p) \/ WritesPlan(p)
<1>1. TypeOK /\ runner[p] \in LocalStates /\ runner \in [Runners -> LocalStates]
  BY DEF Inv, TypeOK
<1>2. Idle.pc = "idle"
  BY DEF Idle
<1>3. CASE TakeLock(p)
  <2>1. runner'[p].pc \in {"idle", "pin"}
    BY <1>1, <1>2, <1>3, Leaving, MovingOn DEF TakeLock
  <2> QED
    BY <1>3, <2>1 DEF TakeLock, disk, KeepsPlan
<1>4. CASE Pin(p)
  <2>1. runner[p].pc = "pin" /\ UNCHANGED <<plan, tries, record>>
    BY <1>4 DEF Pin, At
  <2>2. CASE manifest = None
    <3>1. manifest' = runner[p].before /\ runner'[p].pc = "plan"
      BY <1>1, <1>4, <2>2, MovingOn DEF Pin
    <3> QED
      BY <2>1, <2>2, <3>1 DEF WritesPlan, Busy
  <2>3. CASE manifest # None /\ Leaves(p)
    BY <1>1, <1>2, <1>4, <2>1, <2>3, Leaving DEF KeepsPlan, Pin
  <2>4. CASE manifest # None /\ GoTo(p, "scan") /\ SameManifest(p) /\ SamePlan(p)
    BY <1>1, <1>4, <2>1, <2>4, MovingOn DEF KeepsPlan, Pin, SameManifest, SamePlan
  <2> QED
    BY <1>4, <2>2, <2>3, <2>4 DEF Pin
<1>5. CASE StorePlan(p)
  <2>1. runner[p].pc = "plan" /\ runner'[p].pc = "scan"
    BY <1>1, <1>5, MovingOn DEF StorePlan, At
  <2> QED
    BY <1>5, <2>1 DEF StorePlan, WritesPlan, Busy
<1>6. CASE RefuseTrial(p) \/ RecordRaises(p) \/ Return(p)
  BY <1>1, <1>2, <1>6, Leaving DEF RefuseTrial, RecordRaises, Return, KeepsPlan, disk
<1>7. CASE Finish(p) \/ SkipTrial(p)
  <2>1. runner[p].pc = "scan" /\ UNCHANGED <<manifest, plan>>
    BY <1>7 DEF Finish, SkipTrial, At, disk
  <2>2. runner'[p].pc \in {"scan", "return"}
    <3>1. CASE Finish(p)
      BY <1>1, <3>1, MovingOn DEF Finish
    <3>2. CASE SkipTrial(p)
      BY ZenonT(40), <1>1, <2>1, <3>2 DEF SkipTrial, Local, LocalStates
    <3> QED
      BY <1>7, <3>1, <3>2
  <2> QED
    BY <2>1, <2>2 DEF KeepsPlan
<1>8. CASE OpenAttempt(p)
  <2>1. runner[p].pc = "scan" /\ UNCHANGED <<manifest, plan>>
    BY <1>8 DEF OpenAttempt, Opened, At
  <2>2. \/ Leaves(p) \/ GoTo(p, "launch")
        \/ Local(p, [runner[p] EXCEPT !.index = @ + 1])
    BY <1>8 DEF OpenAttempt, Opened
  <2>3. runner'[p].pc \in {"idle", "launch", "scan"}
    BY <1>1, <1>2, <2>1, <2>2, Leaving, MovingOn DEF Local, LocalStates
  <2> QED
    BY <2>1, <2>3 DEF KeepsPlan
<1>9. CASE Launch(p)
  <2>1. runner[p].pc = "launch" /\ UNCHANGED <<manifest, plan>>
    BY <1>9 DEF Launch, At
  <2>2. \/ Leaves(p) \/ GoTo(p, "trial")
        \/ Local(p, [runner[p] EXCEPT !.pc = "record", !.result = "failed"])
    BY <1>9 DEF Launch
  <2>3. runner'[p].pc \in {"idle", "trial", "record"}
    <3>1. CASE Local(p, [runner[p] EXCEPT !.pc = "record", !.result = "failed"])
      BY <1>1, <3>1 DEF Local, LocalStates
    <3> QED
      BY <1>1, <1>2, <2>2, <3>1, Leaving, MovingOn
  <2> QED
    BY <2>1, <2>3 DEF KeepsPlan
<1>10. CASE \E result \in Final : EndTrial(p, result)
  <2>1. runner[p].pc = "trial" /\ UNCHANGED <<manifest, plan>>
    BY <1>10 DEF EndTrial, At, disk
  <2>2. runner'[p].pc = "record"
    BY <1>1, <1>10 DEF EndTrial, Local, LocalStates
  <2> QED
    BY <2>1, <2>2 DEF KeepsPlan
<1>11. CASE RecordTrial(p)
  <2>1. runner[p].pc = "record" /\ UNCHANGED <<manifest, plan>>
    BY <1>11 DEF RecordTrial, At
  <2>2. runner'[p].pc \in {"idle", "return", "scan"}
    BY <1>1, <1>2, <1>11, Leaving, RecordedOn
  <2> QED
    BY <2>1, <2>2 DEF KeepsPlan
<1>12. CASE Crash(p)
  <2>1. runner'[p].pc = "idle"
    BY <1>1, <1>2, <1>12, Leaving DEF Crash
  <2> QED
    BY <1>12, <2>1 DEF Crash, At, KeepsPlan, WritesPlan, Busy, disk
<1> QED
  BY <1>3, <1>4, <1>5, <1>6, <1>7, <1>8, <1>9, <1>10, <1>11, <1>12 DEF Step

LEMMA OnPlanInit ==
  ASSUME Init
  PROVE  OnPlan
<1>1. Idle.pc = "idle" /\ \A t \in Trials : tries[t] = 0
  BY DEF Idle, Init
<1>2. \A p \in Runners : runner[p].pc = "idle"
  BY <1>1 DEF Init
<1>3. \A n \in 1..MaxTries : ~(n <= 0)
  BY CountsAssumption
<1> QED
  BY <1>1, <1>2, <1>3 DEF Init, OnPlan

LEMMA OnPlanStep ==
  ASSUME Inv, OnPlan, [Next]_vars
  PROVE  OnPlan'
<1>1. TypeOK /\ Working /\ NewestOnly /\ Started /\ Exclusive
  BY DEF Inv
<1>2. /\ record \in [Attempts -> Records] /\ tries \in [Trials -> 0..MaxTries]
      /\ MaxTries \in Nat /\ None \notin Cells /\ None \notin Corpora
      /\ "torn" \notin Cells /\ "torn" \notin Corpora
  BY <1>1, CountsAssumption, NoneAssumption DEF TypeOK
<1>3. CASE Outside
  <2>1. \A p \in Runners : \/ runner'[p] = runner[p]
                           \/ runner[p].pc = "idle" /\ runner'[p].pc \in {"lock", "pin"}
    BY <1>3, OutsideStep
  <2>2. UNCHANGED <<manifest, plan, tries>>
    BY <1>3, OutsideStep
  <2>3. \A t \in Trials, n \in 1..MaxTries :
           /\ record'[<<t, n>>].cells = record[<<t, n>>].cells
           /\ record'[<<t, n>>].status = record[<<t, n>>].status
           /\ record'[<<t, n>>].checked = record[<<t, n>>].checked
    BY <1>3, OutsideStep DEF Attempts
  <2> QED
    BY <2>1, <2>2, <2>3 DEF OnPlan
<1>4. ASSUME NEW p \in Runners, Step(p) \/ Crash(p)
      PROVE  OnPlan'
  <2>1. Moves(p)
    BY <1>4, MovesStep
  <2>2. /\ runner[p].pc # "idle" /\ runner[p].args \in Arguments
        /\ runner[p].before \in Corpora /\ runner[p].args.cells \in Cells
    BY <1>1, <2>1 DEF Moves, Started, Arguments
  <2>3. CASE WritesPlan(p)
    <3>1. \A q \in Runners \ {p} : runner'[q].pc \in {"idle", "lock"}
      BY <1>1, <2>1, <2>3, ExclusiveGivesOneWriter DEF Moves, WritesPlan, OneWriter, Busy
    <3>2. UNCHANGED <<tries, record>>
      BY <2>3 DEF WritesPlan
    <3>3. \A t \in Trials : tries[t] = 0
      BY <1>2, <2>3 DEF WritesPlan, OnPlan
    <3>4. \A t \in Trials, n \in 1..MaxTries : ~(n <= tries'[t])
      BY <1>2, <3>2, <3>3
    <3>5. /\ runner'[p].pc \notin {"idle", "lock", "pin"} => manifest' = runner'[p].before
          /\ runner'[p].pc \notin {"idle", "lock", "pin", "plan"} => plan' = runner'[p].args.cells
          /\ runner'[p].pc = "plan" => plan' = None
          /\ manifest' = None => plan' = None
      <4>1. runner'[p].pc # "idle" => /\ runner'[p].args = runner[p].args
                                      /\ runner'[p].before = runner[p].before
        BY <2>1 DEF Moves
      <4>2. CASE runner[p].pc = "pin"
        BY <1>2, <2>2, <2>3, <4>1, <4>2 DEF WritesPlan, OnPlan
      <4>3. CASE runner[p].pc = "plan"
        BY <1>2, <2>2, <2>3, <4>1, <4>3 DEF WritesPlan, OnPlan
      <4> QED
        BY <2>3, <4>2, <4>3 DEF WritesPlan
    <3> QED
      BY <3>1, <3>2, <3>3, <3>4, <3>5 DEF OnPlan
  <2>4. CASE KeepsPlan(p)
    <3>1. UNCHANGED <<manifest, plan>>
      BY <2>4 DEF KeepsPlan
    <3>2. /\ runner'[p].pc \notin {"idle", "lock", "pin"} => manifest' = runner'[p].before
          /\ runner'[p].pc \notin {"idle", "lock", "pin", "plan"} => plan' = runner'[p].args.cells
          /\ runner'[p].pc = "plan" => plan' = None
      BY <2>1, <2>4, <3>1 DEF KeepsPlan, OnPlan, Moves
    <3>3. \A q \in Runners :
          /\ runner'[q].pc \notin {"idle", "lock", "pin"} => manifest' = runner'[q].before
          /\ runner'[q].pc \notin {"idle", "lock", "pin", "plan"} => plan' = runner'[q].args.cells
          /\ runner'[q].pc = "plan" => plan' = None
      BY <2>1, <3>1, <3>2 DEF OnPlan, Moves
    <3>4. /\ plan' \notin Cells => \A t \in Trials : tries'[t] = 0
          /\ \A t \in Trials, n \in 1..MaxTries : n <= tries'[t] =>
               /\ record'[<<t, n>>].cells = plan'
               /\ record'[<<t, n>>].status = "completed" => record'[<<t, n>>].checked = manifest'
      <4>1. CASE WritesNothing(p)
        BY <3>1, <4>1 DEF WritesNothing, OnPlan
      <4>2. CASE OpensNext(p)
        <5> DEFINE t == Trial(p)
                   n == tries[t] + 1
        <5>1. PICK r \in Records :
                 /\ record' = [record EXCEPT ![<<t, n>>] = r]
                 /\ r.status \in Open /\ r.cells = runner[p].args.cells
          BY <4>2 DEF OpensNext
        <5>2. /\ t \in Trials /\ n \in 1..MaxTries /\ tries' = [tries EXCEPT ![t] = @ + 1]
              /\ Busy(p)
          BY <4>2 DEF OpensNext
        <5>3. plan = runner[p].args.cells
          BY <4>2 DEF OpensNext, OnPlan
        <5>4. ASSUME NEW u \in Trials, NEW m \in 1..MaxTries, m <= tries'[u]
              PROVE  /\ record'[<<u, m>>].cells = plan'
                     /\ record'[<<u, m>>].status = "completed" => record'[<<u, m>>].checked = manifest'
          <6>1. <<u, m>> \in Attempts /\ <<t, n>> \in Attempts
            BY <5>2 DEF Attempts
          <6>2. CASE u = t /\ m = n
            BY <1>2, <3>1, <5>1, <5>3, <6>1, <6>2 DEF Open
          <6>3. CASE ~(u = t /\ m = n)
            <7>1. record'[<<u, m>>] = record[<<u, m>>]
              BY <1>2, <5>1, <6>1, <6>3
            <7>2. m <= tries[u]
              BY <1>2, <5>2, <5>4, <6>3
            <7> QED
              BY <3>1, <7>1, <7>2 DEF OnPlan
          <6> QED
            BY <6>2, <6>3
        <5> QED
          BY <2>2, <3>1, <5>3, <5>4
      <4>3. CASE Rewrites(p)
        <5>1. PICK r \in Records :
                 /\ record' = [record EXCEPT ![Current(p)] = r]
                 /\ r.cells = record[Current(p)].cells
                 /\ \/ r.status \in Open \cup {"torn"}
                    \/ runner[p].pc = "record" /\ r.checked = record[Current(p)].checked
          BY <4>3 DEF Rewrites
        <5>2. tries' = tries /\ Current(p) \in Attempts /\ InTrial(p)
          BY <1>1, <4>3, CurrentType DEF Rewrites
        <5>3. runner[p].pc = "record" => record[Current(p)].checked = manifest
          BY <1>1, <5>2 DEF Working, OnPlan
        <5>4. ASSUME NEW u \in Trials, NEW m \in 1..MaxTries, m <= tries'[u]
              PROVE  /\ record'[<<u, m>>].cells = plan'
                     /\ record'[<<u, m>>].status = "completed" => record'[<<u, m>>].checked = manifest'
          <6>1. <<u, m>> \in Attempts
            BY DEF Attempts
          <6>2. /\ record[<<u, m>>].cells = plan
                /\ record[<<u, m>>].status = "completed" => record[<<u, m>>].checked = manifest
            BY <5>2, <5>4 DEF OnPlan
          <6>3. CASE <<u, m>> = Current(p)
            BY <1>2, <3>1, <5>1, <5>2, <5>3, <6>2, <6>3 DEF Open
          <6>4. CASE <<u, m>> # Current(p)
            BY <1>2, <3>1, <5>1, <6>1, <6>2, <6>4
          <6> QED
            BY <6>3, <6>4
        <5> QED
          BY <3>1, <5>2, <5>4 DEF OnPlan
      <4> QED
        BY <1>4, <4>1, <4>2, <4>3, WritesStep
    <3>5. manifest' = None => plan' = None
      BY <3>1 DEF OnPlan
    <3> QED
      BY <3>3, <3>4, <3>5 DEF OnPlan
  <2> QED
    BY <1>4, <2>3, <2>4, PlanStep
<1> QED
  BY <1>3, <1>4, StepIsRunnerOrOutside

\* What the analysis counts as eligible was checked against the repository of the manifest and
\* made for the stored plan, whichever run, resumed or not, recorded it.
THEOREM EligibleStays == Spec => []EligibleOnPinned
<1>1. Inv /\ OnPlan => EligibleOnPinned
  <2>1. ASSUME Inv, OnPlan, NEW t \in Trials, NEW n \in 1..MaxTries, Eligible(<<t, n>>)
        PROVE  record[<<t, n>>].checked = manifest /\ record[<<t, n>>].cells = plan
    <3>1. record[<<t, n>>].status = "completed" /\ tries[t] \in 0..MaxTries /\ MaxTries \in Nat
      BY <2>1, CountsAssumption DEF Eligible, Inv, TypeOK
    <3>2. n <= tries[t]
      BY <2>1, <3>1 DEF Inv, NewestOnly
    <3> QED
      BY <2>1, <3>1, <3>2 DEF OnPlan
  <2> QED
    BY <2>1 DEF EligibleOnPinned, Attempts
<1>2. Init => OnPlan
  BY OnPlanInit
<1>3. Inv /\ OnPlan /\ [Next]_vars => OnPlan'
  BY OnPlanStep
<1> QED
  BY <1>1, <1>2, <1>3, Correctness, PTL DEF Spec
=============================================================================
