--------------------------- MODULE ComparisonStudy ---------------------------
(***************************************************************************)
(* comparison_runner.py (src/experiments/): prepare() gives every arm its  *)
(* own corpus and records it, run() runs the shuffled trials of all arms   *)
(* against those corpora, and analyze_comparison.py decides which of them  *)
(* may be compared.                                                        *)
(*                                                                         *)
(* A corpus is a version: 0 is the source as prepare found it.  A suite    *)
(* either shares one corpus per arm, copied, or pins one per question,     *)
(* linked: then the arms' trees share inodes.                              *)
(***************************************************************************)
EXTENDS Naturals, FiniteSets

CONSTANTS
    Systems,    \* the arms
    Native,     \* those with no MCP server
    Oracles,    \* those whose prompt names the files of the gold answer
    Tasks,
    Pathless,   \* tasks whose gold answer names no path-qualified symbol
    Repetitions,
    Seed,       \* --seed
    Whole,      \* the arm-wide corpus, kept apart from the tasks
    Outcomes,   \* what a trial's agent may come to; see Outcome
    MaxFailures,\* consecutive failures that stop an arm: 3 in the code
    MaxEdits    \* bound: changes to any tree

\* How the agent ended, and what its transcript and the gate's files say.
Outcome == [exit : {0, 1}, timeout : BOOLEAN, answer : BOOLEAN,
            error : {"none", "provider_error", "other"},
            mcpFailures : BOOLEAN, files : BOOLEAN, unexpected : BOOLEAN]

ASSUME StudyAssumption ==
    /\ IsFiniteSet(Systems) /\ Cardinality(Systems) >= 2
    /\ Native \subseteq Systems /\ Oracles \subseteq Systems
    /\ IsFiniteSet(Tasks) /\ Whole \notin Tasks /\ Pathless \subseteq Tasks
    /\ Repetitions \in Nat \ {0} /\ MaxFailures \in Nat \ {0} /\ MaxEdits \in Nat
    /\ Outcomes \subseteq Outcome

Trials == [system : Systems, task : Tasks, repetition : 1 .. Repetitions]
Roots == Systems \X (Tasks \cup {Whole})

VARIABLES
    perQuestion,    \* every question of the suite pins its own corpus
    phase,          \* "preparing", "failed", "prepared", "running", "done", "dead"
    source,         \* the source corpus
    tree,           \* what is in every root; 0 before it is made as well
    made,           \* arms prepare() has finished with
    binary,         \* the file each arm's server names: 0 as prepared
    edits,
    plan,           \* plan.json and manifest.json: the seed each records, or "none"
    pending,        \* trials not reached yet, in an order nobody can tell
    current,        \* the trial under way, or none
    before,         \* source_fingerprint(root) as it started
    record,         \* run.json of every trial
    failures, completed, aborted,
    status,         \* status.json: "absent", or whether it says complete
    skipped,        \* history: the trials passed over
    writers         \* history: the arms whose trials changed each root

preparation == <<perQuestion, source, made>>
counts == <<failures, completed, aborted>>
history == <<skipped, writers>>
vars == <<preparation, phase, tree, binary, edits, plan, pending, current, before,
          record, counts, status, history>>

NoTrial == [system |-> "none", task |-> Whole, repetition |-> 0]
NoRecord == [status |-> "absent", unchanged |-> FALSE, searched |-> 0, outcome |-> "none"]

Init ==
    /\ perQuestion \in BOOLEAN
    /\ phase = "preparing" /\ source = 0
    /\ tree = [r \in Roots |-> 0] /\ made = {}
    /\ binary = [s \in Systems |-> 0] /\ edits = 0
    /\ plan = [seed |-> "none", manifest |-> "none"] /\ pending = {}
    /\ current = NoTrial /\ before = 0
    /\ record = [t \in Trials |-> NoRecord]
    /\ failures = [s \in Systems |-> 0] /\ completed = 0 /\ aborted = FALSE
    /\ status = "absent"
    /\ skipped = {} /\ writers = [r \in Roots |-> {}]

-----------------------------------------------------------------------------
(* prepare(). *)

\* The source is edited while the arms are being prepared.
SourceChanges ==
    /\ phase = "preparing" /\ edits < MaxEdits
    /\ edits' = edits + 1 /\ source' = edits + 1
    /\ UNCHANGED <<perQuestion, phase, tree, made, binary, plan, pending, current, before,
                   record, counts, status, history>>

\* source_fingerprint, and what command_digests says of the file an arm's
\* server names: versions are told apart by what they hold.
Fingerprint(r) == tree[r]
Digests(s) == binary[s]

\* One arm: its copy must be the source as it was first read, and a preparation
\* command may edit the copy.  The trees of the questions are links to their
\* own snapshots.
PrepareSystem(s) ==
    /\ phase = "preparing" /\ s \notin made /\ source = 0
    /\ made' = made \cup {s}
    /\ \/ UNCHANGED <<tree, edits>>
       \/ /\ s \notin Native /\ edits < MaxEdits
          /\ edits' = edits + 1
          /\ tree' = [tree EXCEPT ![<<s, Whole>>] = edits + 1]
    /\ UNCHANGED <<perQuestion, phase, source, binary, plan, pending, current, before, record,
                   counts, status, history>>

\* The copy differs, or a command of the arm fails: failed.json, and no more.
PreparationFails(s) ==
    /\ phase = "preparing" /\ s \notin made
    /\ phase' = "failed"
    /\ UNCHANGED <<preparation, tree, binary, edits, plan, pending, current, before, record,
                   counts, status, history>>

\* prepared.json is written if the source is still what was copied.
Prepared ==
    /\ phase = "preparing" /\ made = Systems
    /\ phase' = IF source = 0 THEN "prepared" ELSE "failed"
    /\ UNCHANGED <<preparation, tree, binary, edits, plan, pending, current, before, record,
                   counts, status, history>>

-----------------------------------------------------------------------------
(* run() before its first trial. *)

\* Between the two commands anything may be edited: a tree, a server binary.
EditBetween ==
    /\ phase = "prepared" /\ edits < MaxEdits
    /\ edits' = edits + 1
    /\ \/ \E r \in Roots :
            /\ r[2] = Whole \/ perQuestion
            /\ tree' = [tree EXCEPT ![r] = edits + 1] /\ UNCHANGED binary
       \/ \E s \in Systems : binary' = [binary EXCEPT ![s] = edits + 1] /\ UNCHANGED tree
    /\ UNCHANGED <<preparation, phase, plan, pending, current, before, record, counts,
                   status, history>>

\* The arm-wide trees are the recorded source, and the servers the recorded
\* files.  The trees of the questions are not looked at.
ValidatePrepared ==
    /\ \A s \in Systems : Fingerprint(<<s, Whole>>) = 0
    /\ \A s \in Systems : Digests(s) = 0

\* make_plan cannot seed an oracle from a gold answer that names no path.
Plannable == Oracles # {} => Pathless = {}

\* The seed make_plan shuffles by and records: its parameter is reassigned in
\* the loop to the last trial's preamble, empty for an arm that is no oracle.
PlanSeed == IF Oracles = Systems THEN "preamble" ELSE ""

StartRun ==
    /\ phase = "prepared"
    /\ ValidatePrepared /\ Plannable
    /\ phase' = "running"
    /\ plan' = [seed |-> PlanSeed, manifest |-> Seed]
    /\ pending' = Trials
    /\ UNCHANGED <<preparation, tree, binary, edits, current, before, record, counts,
                   status, history>>

-----------------------------------------------------------------------------
(* run(), trial by trial. *)

\* corpus_root: the pair wins when it is there.
CorpusRoot(t) == <<t.system, IF perQuestion THEN t.task ELSE Whole>>

\* What placeholders() puts for {root} in the commands of the trial's servers:
\* the tree of the trial, not that of the arm.
ServerRoot(t) == CorpusRoot(t)

\* Too many strikes, or the provider has failed: the arm's trials are passed over.
Stopped(s) == aborted \/ failures[s] >= MaxFailures

Skip(t) ==
    /\ phase = "running" /\ current = NoTrial /\ t \in pending
    /\ Stopped(t.system)
    /\ pending' = pending \ {t} /\ skipped' = skipped \cup {t}
    /\ UNCHANGED <<preparation, phase, tree, binary, edits, plan, current, before, record,
                   counts, status, writers>>

\* run.json says "running", the corpus is fingerprinted, the agent is started.
StartTrial(t) ==
    /\ phase = "running" /\ current = NoTrial /\ t \in pending
    /\ ~Stopped(t.system)
    /\ pending' = pending \ {t} /\ current' = t
    /\ before' = Fingerprint(CorpusRoot(t))
    /\ record' = [record EXCEPT ![t].status = "running", ![t].searched = Fingerprint(ServerRoot(t))]
    /\ UNCHANGED <<preparation, phase, tree, binary, edits, plan, counts, status, history>>

\* Mutant of Reached: nothing seals the linked files.
ReachedUnsealed(r, inPlace) ==
    IF inPlace /\ perQuestion THEN {q \in Roots : q[2] = r[2]} ELSE {r}

\* The roots a write by a trial on root r reaches.  Directories are not sealed,
\* so a file can be replaced in any tree; a file written in place would be the
\* same inode in every arm, and 0o444 refuses it.
Reached(r, inPlace) == IF inPlace /\ perQuestion THEN {} ELSE {r}

\* The agent, or its server, changes the corpus of the trial.
TrialWrites(inPlace) ==
    /\ phase = "running" /\ current # NoTrial /\ edits < MaxEdits
    /\ LET reached == Reached(CorpusRoot(current), inPlace) IN
       /\ reached # {}
       /\ edits' = edits + 1
       /\ tree' = [r \in Roots |-> IF r \in reached THEN edits + 1 ELSE tree[r]]
       /\ writers' = [r \in Roots |-> IF r \in reached
                                      THEN writers[r] \cup {current.system} ELSE writers[r]]
    /\ UNCHANGED <<preparation, phase, binary, plan, pending, current, before, record,
                   counts, status, skipped>>

Healthy(t, o) == t.system \in Native \/ (~o.mcpFailures /\ o.files)

\* The status a trial is given: the provider's failures are not the arm's.
StatusOf(t, o) ==
    CASE o.timeout -> "timeout"
      [] ~o.timeout /\ o.exit = 0 /\ o.answer /\ o.error = "none" /\ Healthy(t, o) -> "completed"
      [] ~o.timeout /\ o.error = "provider_error" -> "provider_error"
      [] OTHER -> "failed"

\* Mutant of Counted: the corpus need not have stayed as it was.
CountedAnyway(r) == r.status = "completed"

Counted(r) == r.status = "completed" /\ r.unchanged

Failures(s, r) ==
    IF Counted(r) THEN 0
    ELSE IF r.status = "provider_error" THEN failures[s] ELSE failures[s] + 1

\* The agent's group is killed, the transcript read, the corpus fingerprinted
\* again and run.json written for good.
EndTrial(o) ==
    /\ phase = "running" /\ current # NoTrial
    /\ LET r == [status |-> StatusOf(current, o), unchanged |-> Fingerprint(CorpusRoot(current)) = before,
                 searched |-> before, outcome |-> o]
       IN  /\ record' = [record EXCEPT ![current] = r]
           /\ failures' = [failures EXCEPT ![current.system] = Failures(current.system, r)]
           /\ completed' = IF Counted(r) THEN completed + 1 ELSE completed
           /\ aborted' = (aborted \/ r.status = "provider_error")
    /\ current' = NoTrial /\ before' = 0
    /\ UNCHANGED <<preparation, phase, tree, binary, edits, plan, pending, status, history>>

\* status.json.
EndRun ==
    /\ phase = "running" /\ current = NoTrial /\ pending = {}
    /\ phase' = "done"
    /\ status' = IF ~aborted /\ completed = Cardinality(Trials) THEN "complete" ELSE "incomplete"
    /\ UNCHANGED <<preparation, tree, binary, edits, plan, pending, current, before, record,
                   counts, history>>

\* The runner is interrupted; its output directory cannot be run into again.
RunnerDies ==
    /\ phase = "running"
    /\ phase' = "dead"
    /\ UNCHANGED <<preparation, tree, binary, edits, plan, pending, current, before, record,
                   counts, status, history>>

Next ==
    \/ SourceChanges \/ Prepared \/ EditBetween \/ StartRun \/ EndRun \/ RunnerDies
    \/ \E s \in Systems : PrepareSystem(s) \/ PreparationFails(s)
    \/ \E t \in Trials : Skip(t) \/ StartTrial(t)
    \/ \E inPlace \in BOOLEAN : TrialWrites(inPlace)
    \/ \E o \in Outcomes : EndTrial(o)

Spec == Init /\ [][Next]_vars

-----------------------------------------------------------------------------
(* analyze_comparison. *)

Eligible(t) ==
    /\ record[t].status = "completed" /\ record[t].unchanged
    /\ ~record[t].outcome.unexpected /\ record[t].outcome.error = "none"
    /\ ~record[t].outcome.mcpFailures

\* The trials a pair of arms is compared on: the same question, the same
\* repetition, both eligible.
Pairs == {p \in Trials \X Trials :
             /\ p[1].system # p[2].system
             /\ p[1].task = p[2].task /\ p[1].repetition = p[2].repetition
             /\ Eligible(p[1]) /\ Eligible(p[2])}

-----------------------------------------------------------------------------
(* Properties. *)

\* A status file that says complete speaks for every planned trial: none was
\* skipped, failed, or ended on another corpus than it began with.
CompleteMeansAll ==
    status = "complete" =>
        /\ skipped = {} /\ \A t \in Trials : record[t].status = "completed" /\ record[t].unchanged

\* What one arm writes, by its own trials, never reaches what another searches,
\* although linked trees share their files.
ArmsApart == \A r \in Roots : writers[r] \subseteq {r[1]}

\* What README.md and link_tree say of a comparison: the arms of a pair search
\* byte-identical trees.
PairsOnSameTree == \A p \in Pairs : record[p[1]].searched = record[p[2]].searched
=============================================================================
