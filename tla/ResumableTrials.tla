-------------------------- MODULE ResumableTrials --------------------------
(* The three programs that work through a plan of model trials and keep     *)
(* every attempt on disk: factor_runner.py (may be stopped and resumed, and *)
(* may retry what failed), competency_runner.py and benchmark.py (one run   *)
(* fills a fresh directory).  Several of them may be started on the same    *)
(* output; each may be killed between any two writes, and in the middle of  *)
(* one (write_json truncates the file before it writes it).  The repository *)
(* under test may be edited at any time.                                    *)
EXTENDS Integers, FiniteSets

CONSTANTS
    Runners,      \* processes an operator may start
    N,            \* trials of the plan
    MaxTries,     \* bound: attempts of one trial
    Corpora,      \* contents the repository may have
    Cells,        \* what --cells and --control select: part of the plan only
    Harnesses,    \* which of the three programs
    Patience,     \* failures in a row that end a run (3 in the code)
    MaxStarts,    \* bound: programs started
    MaxEdits,     \* bound: edits of the repository
    MaxLines,     \* bound: lines of one server log
    None

ASSUME CountsAssumption ==
    /\ N \in Nat \ {0} /\ MaxTries \in Nat \ {0} /\ Patience \in Nat \ {0}
    /\ MaxStarts \in Nat /\ MaxStarts <= MaxTries   \* so that MaxTries never stops a run
    /\ MaxEdits \in Nat /\ MaxLines \in Nat
ASSUME HarnessAssumption == Harnesses \subseteq {"factor", "competency", "benchmark"}
ASSUME NoneAssumption == None \notin Runners /\ None \notin Corpora /\ None \notin Cells
    /\ "torn" \notin Corpora /\ "torn" \notin Cells
    /\ None \notin [resume : BOOLEAN, retry : BOOLEAN, dry : BOOLEAN, cells : Cells]

Trials == 1..N
Attempts == Trials \X (1..MaxTries)

VARIABLES
    harness,      \* the program of this behaviour
    corpus,       \* the repository's fingerprint
    made,         \* the output directory exists
    manifest,     \* the corpus manifest.json pins; None: no file; "torn": truncated
    plan,         \* the cells of plan.json; None: no file; "torn": truncated
    tries,        \* attempt directories of each trial
    record,       \* run.json of each attempt and what is on disk beside it
    serving,      \* attempts whose retrieval server is still alive
    lock,         \* holder of .runner.lock, or None
    runner,       \* the local state of each process
    starts, edits \* what the bounds count

disk == <<made, manifest, plan, tries, record>>
vars == <<harness, corpus, made, manifest, plan, tries, record, serving, lock,
          runner, starts, edits>>

\* "timeout" is recorded apart and counts like "failed" everywhere: one value here.
Final == {"completed", "failed"}
Blank == [status |-> "none", checked |-> None, same |-> FALSE, cells |-> None,
          sha |-> 0, log |-> 0]
Arguments == [resume : BOOLEAN, retry : BOOLEAN, dry : BOOLEAN, cells : Cells]
Idle == [pc |-> "idle", args |-> None, before |-> None, index |-> 1, completed |-> 0,
         failed |-> 0, strikes |-> 0, result |-> "none"]

Init ==
    /\ harness \in Harnesses
    /\ corpus \in Corpora
    /\ made = FALSE
    /\ manifest = None /\ plan = None
    /\ tries = [t \in Trials |-> 0]
    /\ record = [a \in Attempts |-> Blank]
    /\ serving = {}
    /\ lock = None
    /\ runner = [p \in Runners |-> Idle]
    /\ starts = 0 /\ edits = 0

At(p, place) == runner[p].pc = place
Trial(p) == runner[p].index
\* Mutant: every attempt goes to the first directory.
CurrentFirst(p) == <<Trial(p), 1>>
Current(p) == <<Trial(p), tries[Trial(p)]>>

Local(p, changes) == runner' = [runner EXCEPT ![p] = changes]
GoTo(p, place) == Local(p, [runner[p] EXCEPT !.pc = place])

\* The process ends, with a result or an exception: the kernel drops its lock.
Leaves(p) == /\ Local(p, Idle)
             /\ lock' = IF lock = p THEN None ELSE lock

\* Only factor_runner has --resume and --retry-failed, only benchmark.py has --dry-run.
\* The arguments, the fingerprint of the repository and output.mkdir(exist_ok=args.resume).
Start(p, args) ==
    /\ At(p, "idle") /\ starts < MaxStarts
    /\ args.resume => harness = "factor"
    /\ args.retry => args.resume      \* alone it changes nothing: no attempts in a fresh directory
    /\ args.dry => harness = "benchmark"
    /\ starts' = starts + 1
    /\ IF made /\ ~args.resume
       THEN UNCHANGED <<made, runner>>
       ELSE /\ made' = TRUE
            /\ Local(p, [Idle EXCEPT !.pc = IF harness = "factor" THEN "lock" ELSE "pin",
                                     !.args = args, !.before = corpus])
    /\ UNCHANGED <<harness, corpus, manifest, plan, tries, record, serving, lock, edits>>

\* Mutant: the lock file is opened and not locked.
TakeLockAnyway(p) ==
    /\ At(p, "lock")
    /\ lock' = p /\ GoTo(p, "pin")
    /\ UNCHANGED <<harness, corpus, disk, serving, starts, edits>>

\* flock(LOCK_EX | LOCK_NB): the second one does not wait.
TakeLock(p) ==
    /\ At(p, "lock")
    /\ IF lock = None THEN lock' = p /\ GoTo(p, "pin")
                      ELSE Leaves(p)
    /\ UNCHANGED <<harness, corpus, disk, serving, starts, edits>>

\* A resume goes on only under the manifest and the plan that are stored.
\* Mutant: the stored manifest is not compared.
SameManifestAny(p) == runner[p].args.resume
SameManifest(p) == runner[p].args.resume /\ manifest = runner[p].before
SamePlan(p) == plan = runner[p].args.cells

Pin(p) ==
    /\ At(p, "pin")
    /\ IF manifest = None
       THEN /\ manifest' = runner[p].before
            /\ GoTo(p, "plan") /\ UNCHANGED lock
       ELSE /\ IF SameManifest(p) /\ SamePlan(p) THEN GoTo(p, "scan") /\ UNCHANGED lock
                                                 ELSE Leaves(p)
            /\ UNCHANGED manifest
    /\ UNCHANGED <<harness, corpus, made, plan, tries, record, serving, starts, edits>>

StorePlan(p) ==
    /\ At(p, "plan")
    /\ plan' = runner[p].args.cells
    /\ GoTo(p, "scan")
    /\ UNCHANGED <<harness, corpus, made, manifest, tries, record, serving, lock, starts, edits>>

\* What the newest attempt of the trial says of it.
Last(t) == record[<<t, tries[t]>>]
Passed(t) == tries[t] > 0 /\ Last(t).status = "completed"
Intact(t) == Last(t).sha = Last(t).log
Torn(t) == tries[t] > 0 /\ Last(t).status = "torn"

\* Counted and left alone: accepted before, or failed before and not to be retried.
SkipTrial(p) ==
    /\ At(p, "scan") /\ Trial(p) <= N
    /\ \/ /\ Passed(Trial(p)) /\ Intact(Trial(p))
          /\ Local(p, [runner[p] EXCEPT !.index = @ + 1, !.completed = @ + 1])
       \/ /\ tries[Trial(p)] > 0 /\ ~Passed(Trial(p)) /\ ~Torn(Trial(p)) /\ ~runner[p].args.retry
          /\ Local(p, [runner[p] EXCEPT !.index = @ + 1, !.failed = @ + 1])
    /\ UNCHANGED <<harness, corpus, disk, serving, lock, starts, edits>>

\* An accepted attempt whose artifacts changed, or a record that does not parse, ends the run.
RefuseTrial(p) ==
    /\ At(p, "scan") /\ Trial(p) <= N
    /\ Torn(Trial(p)) \/ (Passed(Trial(p)) /\ ~Intact(Trial(p)))
    /\ Leaves(p)
    /\ UNCHANGED <<harness, corpus, disk, serving, starts, edits>>

Wanted(p) == LET t == Trial(p) IN ~Passed(t) /\ ~Torn(t) /\ (tries[t] > 0 => runner[p].args.retry)
Unchanged(p) == corpus = runner[p].before

\* What a new attempt holds before its agent runs: the files that describe it, and in
\* benchmark.py a "planned" record.  The other two have just fingerprinted the corpus.
Opened(p) ==
    [Blank EXCEPT !.status = IF harness = "benchmark" THEN "planned" ELSE "none",
                  !.cells = runner[p].args.cells,
                  !.checked = IF harness = "benchmark" THEN None ELSE corpus]

\* The next attempt's directory.  benchmark.py writes its plan of the trial before it looks at
\* the repository; the other two look first.
OpenAttempt(p) ==
    /\ At(p, "scan") /\ Trial(p) <= N /\ Wanted(p)
    /\ tries[Trial(p)] < MaxTries
    /\ IF harness # "benchmark" /\ ~Unchanged(p)
       THEN Leaves(p) /\ UNCHANGED <<tries, record>>
       ELSE /\ tries' = [tries EXCEPT ![Trial(p)] = @ + 1]
            /\ record' = [record EXCEPT ![<<Trial(p), tries[Trial(p)] + 1>>] = Opened(p)]
            /\ IF runner[p].args.dry THEN Local(p, [runner[p] EXCEPT !.index = @ + 1])
                                ELSE GoTo(p, "launch")
            /\ UNCHANGED lock
    /\ UNCHANGED <<harness, corpus, made, manifest, plan, serving, starts, edits>>

\* "running" is written, then the agent starts in a session of its own.  A preflight that
\* fails makes the attempt a failed one without an agent.
Launch(p) ==
    /\ At(p, "launch")
    /\ IF harness = "benchmark" /\ ~Unchanged(p)
       THEN Leaves(p) /\ UNCHANGED <<record, serving>>
       ELSE /\ \/ /\ GoTo(p, "trial")
                  /\ serving' = serving \union {Current(p)}
                  /\ record' = [record EXCEPT ![Current(p)].status = "running",
                                  ![Current(p)].checked = IF harness = "benchmark" THEN corpus ELSE @]
               \/ /\ harness = "benchmark"
                  /\ Local(p, [runner[p] EXCEPT !.pc = "record", !.result = "failed"])
                  /\ record' = [record EXCEPT ![Current(p)].checked = corpus]
                  /\ UNCHANGED serving
            /\ UNCHANGED lock
    /\ UNCHANGED <<harness, corpus, made, manifest, plan, tries, starts, edits>>

\* The agent answers, fails or runs out of time.  stop_process kills the agent's group; the
\* server behind a policy gate was started in a session of its own and is not in it.
EndTrial(p, result) ==
    /\ At(p, "trial")
    /\ Local(p, [runner[p] EXCEPT !.pc = "record", !.result = result])
    /\ serving' = IF harness = "benchmark" THEN serving \ {Current(p)} ELSE serving
    /\ UNCHANGED <<harness, corpus, disk, lock, starts, edits>>

Halts(p, same, strikes) == \/ ~same
                           \/ harness # "competency" /\ strikes >= Patience

\* The finally block: fingerprint, digests, the finished run.json, the tally and what it ends.
RecordTrial(p) ==
    /\ At(p, "record")
    /\ LET r == runner[p]
           failed == r.result # "completed"
           strikes == IF failed THEN r.strikes + 1 ELSE 0
       IN /\ record' = [record EXCEPT ![Current(p)] =
                [@ EXCEPT !.status = r.result, !.same = Unchanged(p),
                           !.sha = record[Current(p)].log]]
          /\ IF harness = "benchmark" /\ ~Unchanged(p)
             THEN Leaves(p)
             ELSE /\ Local(p, [r EXCEPT
                        !.pc = IF Halts(p, Unchanged(p), strikes) THEN "return" ELSE "scan",
                        !.index = @ + 1, !.strikes = strikes,
                        !.completed = IF failed THEN @ ELSE @ + 1,
                        !.failed = IF failed THEN @ + 1 ELSE @])
                  /\ UNCHANGED lock
    /\ UNCHANGED <<harness, corpus, made, manifest, plan, tries, serving, starts, edits>>

\* A gate killed in the middle of a line leaves a log that does not parse: the exception in the
\* finally block ends the run with the attempt still "running".
RecordRaises(p) ==
    /\ At(p, "record") /\ harness # "benchmark"
    /\ Leaves(p)
    /\ UNCHANGED <<harness, corpus, disk, serving, starts, edits>>

Finish(p) ==
    /\ At(p, "scan") /\ Trial(p) > N
    /\ GoTo(p, "return")
    /\ UNCHANGED <<harness, corpus, disk, serving, lock, starts, edits>>

Return(p) ==
    /\ At(p, "return")
    /\ Leaves(p)
    /\ UNCHANGED <<harness, corpus, disk, serving, starts, edits>>

\* The runner is killed; the file it was about to write may be left truncated.
Crash(p) ==
    /\ ~At(p, "idle")
    /\ Leaves(p)
    /\ \/ UNCHANGED disk
       \/ At(p, "pin") /\ manifest = None /\ manifest' = "torn" /\ UNCHANGED <<made, plan, tries, record>>
       \/ At(p, "plan") /\ plan' = "torn" /\ UNCHANGED <<made, manifest, tries, record>>
       \/ /\ At(p, "launch") \/ At(p, "record")
          /\ record' = [record EXCEPT ![Current(p)].status = "torn"]
          /\ UNCHANGED <<made, manifest, plan, tries>>
    /\ UNCHANGED <<harness, corpus, serving, starts, edits>>

\* A retrieval server logs a call, or exits once its input is closed.
ServerLogs(a) ==
    /\ a \in serving /\ record[a].log < MaxLines
    /\ record' = [record EXCEPT ![a].log = @ + 1]
    /\ UNCHANGED <<harness, corpus, made, manifest, plan, tries, serving, lock, runner, starts, edits>>

ServerExits(a) ==
    /\ a \in serving
    /\ serving' = serving \ {a}
    /\ UNCHANGED <<harness, corpus, disk, lock, runner, starts, edits>>

EditCorpus(c) ==
    /\ c # corpus /\ edits < MaxEdits
    /\ corpus' = c /\ edits' = edits + 1
    /\ UNCHANGED <<harness, disk, serving, lock, runner, starts>>

Step(p) == \/ TakeLock(p) \/ Pin(p) \/ StorePlan(p) \/ SkipTrial(p) \/ RefuseTrial(p)
           \/ OpenAttempt(p) \/ Launch(p) \/ RecordTrial(p) \/ RecordRaises(p)
           \/ Finish(p) \/ Return(p)
           \/ \E result \in Final : EndTrial(p, result)

Next == \/ \E p \in Runners : \/ Step(p)
                              \/ Crash(p)
                              \/ \E args \in Arguments : Start(p, args)
        \/ \E a \in serving : ServerLogs(a) \/ ServerExits(a)
        \/ \E c \in Corpora : EditCorpus(c)

Spec == Init /\ [][Next]_vars
-----------------------------------------------------------------------------
Records ==
    [status : Final \union {"none", "planned", "running", "torn"},
     checked : Corpora \union {None}, same : BOOLEAN, cells : Cells \union {None},
     sha : Nat, log : Nat]
LocalStates ==
    [pc : {"idle", "lock", "pin", "plan", "scan", "launch", "trial", "record", "return"},
     args : Arguments \union {None}, before : Corpora \union {None},
     index : 1..(N + 1), completed : Nat, failed : Nat,
     strikes : Nat, result : Final \union {"none"}]

TypeOK ==
    /\ harness \in Harnesses
    /\ corpus \in Corpora
    /\ made \in BOOLEAN
    /\ manifest \in Corpora \union {None, "torn"}
    /\ plan \in Cells \union {None, "torn"}
    /\ tries \in [Trials -> 0..MaxTries]
    /\ record \in [Attempts -> Records]
    /\ serving \subseteq Attempts
    /\ lock \in Runners \union {None}
    /\ runner \in [Runners -> LocalStates]
    /\ starts \in Nat
    /\ edits \in Nat

\* The directory keeps the promise of TrialLedger: across crashes, resumes, retries and a second
\* runner a trial is accepted once, in its newest attempt, and never tried again after that.
Accepted == [t \in Trials |-> {n \in 1..tries[t] : record[<<t, n>>].status = "completed"}]
Ledger == INSTANCE TrialLedger WITH tries <- tries, accepted <- Accepted
KeepsLedger == Ledger!Spec

\* What analyze_factors.report calls eligible was checked before and after on the repository the
\* manifest pins, and belongs to the stored plan, whichever run of the program recorded it.
Eligible(a) == record[a].status = "completed" /\ record[a].same
EligibleOnPinned == \A a \in Attempts : Eligible(a) =>
    record[a].checked = manifest /\ record[a].cells = plan

\* The first attempt is primary: once it is finished no retry and no second runner rewrites it.
Primary(t) == record[<<t, 1>>]
PrimaryFixed == [][\A t \in Trials : Primary(t).status \in Final =>
    Primary(t).status' = Primary(t).status /\ Primary(t).same' = Primary(t).same]_vars
=============================================================================
