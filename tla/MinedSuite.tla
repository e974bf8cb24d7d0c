------------------------------ MODULE MinedSuite ------------------------------
(***************************************************************************)
(* A suite mined from upstream commits (commit_suite.py).  A Python file   *)
(* is written, pinned as the corpus, and changed by commits; the miner     *)
(* goes through the commits, attributes the lines each one changed to the  *)
(* definitions around them (study_b.attribution, audit_failures.enclosing) *)
(* and emits a question or a reason for refusing.  A second file of the    *)
(* corpus, Elsewhere, never changes.                                       *)
(*                                                                         *)
(* A line is a record of its kind, the name it defines or calls, its       *)
(* indentation and its revision:                                           *)
(*   "def"    the header of a definition     "block"  any other header     *)
(*   "stmt"   a statement, calling `name`    "blank"  nothing, or comment  *)
(*   "close"  the tail of the statement before it, at its indentation      *)
(*                                                                         *)
(* Names, TestNames  what may be defined, and the names that tests have    *)
(* Called    the names that statements call                                *)
(* Added     the lines that a commit may add                               *)
(* Messages  commit messages: the names they spell, and whether the length *)
(*           band or the maintenance rule refuses them                     *)
(* MaxLines, MaxDepth, MaxCommits bound the source; Limit and              *)
(* MaxDefinitions are arguments of the miner.                              *)
(***************************************************************************)
EXTENDS SuiteCheck

CONSTANTS Names, TestNames, Called, Added, Messages, Elsewhere, Limit, MaxDefinitions,
          MaxLines, MaxDepth, MaxCommits

Code(line) == line.kind \in {"def", "block", "stmt"}
Header(line) == line.kind \in {"def", "block"}

SourceLine ==
    {line \in [kind : {"def", "block", "stmt", "blank", "close"}, name : Names \cup {""},
               indent : Nat, rev : Nat] : line.kind = "def" => line.name # ""}

ASSUME MinedSuiteAssumption ==
    /\ IsFiniteSet(Names) /\ TestNames \cup Called \subseteq Names
    /\ {"", Wrong.name} \cap Names = {}
    /\ Elsewhere \in Seq(SourceLine) /\ Added \subseteq SourceLine
    /\ {Limit, MaxDefinitions, MaxLines, MaxDepth, MaxCommits} \subseteq Nat

VARIABLES source,      \* the lines of the file, at the tip of the history
          pinned,      \* the lines of the file in the corpus, <<>> until it is pinned
          commits,     \* the history after the pinned revision
          considered,  \* commits the miner has looked at
          questions,   \* the questions it emitted
          refused      \* how many commits it refused

mineVars == <<source, pinned, commits, considered, questions, refused>>

MineInit ==
    /\ source = <<>> /\ pinned = <<>> /\ commits = <<>>
    /\ considered = 0 /\ questions = <<>> /\ refused = 0

File == "m"
Other == "o"

-----------------------------------------------------------------------------
(* The nearest definition that is indented less. *)
EnclosingLoose(file, at) ==
    LET above == {p \in 1..(at - 1) : file[p].kind = "def" /\ file[p].indent < file[at].indent}
    IN IF above = {} THEN "" ELSE file[Max(above)].name

(* audit_failures.enclosing for Python: read upwards from the line, and    *)
(* let every statement shallower than the bound tighten it.  After n lines *)
(* there is the bound, and the name when a definition was found.           *)
Enclosing(file, at) ==
    LET read[n \in 0..(at - 1)] ==
            IF n = 0 THEN [bound |-> file[at].indent, name |-> ""]
            ELSE LET line == file[at - n]
                 IN IF read[n - 1].name # "" \/ ~Code(line) \/ line.indent >= read[n - 1].bound
                    THEN read[n - 1]
                    ELSE [bound |-> line.indent,
                          name |-> IF line.kind = "def" THEN line.name ELSE ""]
    IN read[at - 1].name

(* study_b.attribution: a row that starts on blank lines or comments       *)
(* points at the code after them, and a declaration points at itself.      *)
Attribution(file, at) ==
    LET onwards == {p \in at..Len(file) : file[p].kind # "blank"}
        p == IF onwards = {} THEN at ELSE Min(onwards)
    IN IF at \notin DOMAIN file THEN ""
       ELSE IF file[p].kind = "def" THEN file[p].name ELSE Enclosing(file, p)

(* quality_pass.definitions and definition_counts. *)
Defines(file) == {file[p].name : p \in {q \in DOMAIN file : file[q].kind = "def"}}
Corpus == [f \in {File, Other} |-> IF f = File THEN pinned ELSE Elsewhere]
Index == [n \in Names |-> {f \in DOMAIN Corpus : n \in Defines(Corpus[f])}]
Times(d) ==
    LET file == Corpus[d.path]
    IN  Cardinality({p \in DOMAIN file : file[p].kind = "def" /\ file[p].name = d.leaf})

CorpusPlaces == [path : DOMAIN Corpus, leaf : Names]

CallLines(f, name) == {p \in DOMAIN Corpus[f] : Corpus[f][p].kind = "stmt" /\ Corpus[f][p].name = name}

(* Callers by the nearest header above that is indented less. *)
TrueCallersLoose(d) ==
    {c \in CorpusPlaces : /\ c.path # d.path
                          /\ \E p \in CallLines(c.path, d.leaf) : EnclosingLoose(Corpus[c.path], p) = c.leaf}

(* audit_failures.true_callers: the definitions around the calls of this   *)
(* name, those in the file that defines it left out.                       *)
TrueCallers(d) ==
    {c \in CorpusPlaces : /\ c.path # d.path
                          /\ \E p \in CallLines(c.path, d.leaf) : Enclosing(Corpus[c.path], p) = c.leaf}

DefinitionCounts == [d \in CorpusPlaces |-> Times(d)]
CallersByPlace == [d \in CorpusPlaces |-> TrueCallers(d)]

-----------------------------------------------------------------------------
(* Lines that Python accepts after these. *)
LastCode(file) == LET code == {p \in DOMAIN file : Code(file[p])}
                  IN IF code = {} THEN 0 ELSE Max(code)
MayFollow(file, line) ==
    LET at == LastCode(file)
    IN CASE Code(line) -> IF at = 0 THEN line.indent = 0
                          ELSE IF Header(file[at]) THEN line.indent = file[at].indent + 1
                          ELSE line.indent <= file[at].indent
         [] line.kind = "close" -> at # 0 /\ at = Len(file) /\ line.indent = file[at].indent
         [] OTHER -> TRUE
Complete(file) == LastCode(file) # 0 /\ ~Header(file[LastCode(file)])
Parses(file) ==
    /\ Complete(file)
    /\ \A p \in DOMAIN file : MayFollow(SubSeq(file, 1, p - 1), file[p])

Lines ==
    [kind : {"def"}, name : Names, indent : 0..MaxDepth, rev : {0}]
      \cup [kind : {"block", "close"}, name : {""}, indent : 0..MaxDepth, rev : {0}]
      \cup [kind : {"stmt"}, name : Called \cup {""}, indent : 0..MaxDepth, rev : {0}]
      \cup [kind : {"blank"}, name : {""}, indent : {0}, rev : {0}]

WriteLine(line) ==
    /\ pinned = <<>> /\ Len(source) < MaxLines /\ MayFollow(source, line)
    /\ source' = Append(source, line)
    /\ UNCHANGED <<pinned, commits, considered, questions, refused>>

Pins ==
    /\ pinned = <<>> /\ Complete(source)
    /\ pinned' = source
    /\ UNCHANGED <<source, commits, considered, questions, refused>>

(* One commit rewrites a line, deletes one, or adds one after another.     *)
(* preimage_lines reads the hunk header: an addition names the line it     *)
(* comes after.                                                            *)
Edits ==
    {[hunk |-> p, after |-> [source EXCEPT ![p] = [source[p] EXCEPT !.rev = @ + 1]]] :
        p \in DOMAIN source}
      \cup {[hunk |-> p, after |-> RemoveAt(source, p)] : p \in DOMAIN source}
      \cup {[hunk |-> p, after |-> InsertAt(source, p + 1, l)] : p \in DOMAIN source, l \in Added}

Commits(edit, message) ==
    /\ pinned # <<>> /\ Len(commits) < MaxCommits /\ considered = 0
    /\ Parses(edit.after) /\ edit.after # source
    /\ commits' = Append(commits, [before |-> source, after |-> edit.after,
                                   hunk |-> edit.hunk, message |-> message])
    /\ source' = edit.after
    /\ UNCHANGED <<pinned, considered, questions, refused>>

-----------------------------------------------------------------------------
(* The definitions touched, wherever they are defined. *)
TouchedAnywhere(c) == {Attribution(c.before, c.hunk)} \ ({""} \cup TestNames)

(* definitions_touched, kept when the grader's index of the pinned corpus  *)
(* places the name in this file, and test code left out.                   *)
Touched(c) ==
    {n \in {Attribution(c.before, c.hunk)} : n \in Names /\ File \in Index[n]} \ TestNames

Leaks(c) == c.message.words \cap (Touched(c) \cup {File}) # {}

(* alternates: the first three other definitions of the file. *)
Alternates(c) ==
    LET others == Defines(pinned) \ Touched(c)
        first(n) == Min({p \in DOMAIN pinned : pinned[p].kind = "def" /\ pinned[p].name = n})
    IN {Identity(File, n) : n \in {n \in others :
          Cardinality({m \in others : first(m) < first(n)}) < 3}}

Refuses(c) ==
    \/ c.message.outside \/ c.message.maintenance
    \/ Touched(c) = {} \/ Cardinality(Touched(c)) > MaxDefinitions
    \/ Leaks(c) \/ Alternates(c) = {}

Question(c) ==
    LET gold == SetToSeq({Identity(File, n) : n \in Touched(c)})
    IN [gold |-> IF Len(gold) = 1 THEN Claimed(gold[1]) ELSE Listed(gold),
        alternates |-> Alternates(c), words |-> c.message.words, asksPath |-> TRUE,
        helper |-> NoHelper, evidence |-> [path |-> File, leaf |-> gold[1].name],
        id |-> considered + 1]

(* Of the commits after the pinned revision, the one nearest to it that was *)
(* not looked at yet: drift grows with distance.                            *)
NextCommit == commits[considered + 1]

(* One commit, until the suite has its questions. *)
Mine ==
    /\ pinned # <<>> /\ considered < Len(commits)
    /\ Limit = 0 \/ Len(questions) < Limit
    /\ LET c == NextCommit
       IN IF Refuses(c) THEN refused' = refused + 1 /\ UNCHANGED questions
          ELSE questions' = Append(questions, Question(c)) /\ UNCHANGED refused
    /\ considered' = considered + 1
    /\ UNCHANGED <<source, pinned, commits>>

MineNext ==
    \/ \E line \in Lines : WriteLine(line)
    \/ Pins
    \/ \E edit \in Edits, message \in Messages : Commits(edit, message)
    \/ Mine

-----------------------------------------------------------------------------
(* The definitions whose block holds a line, by the grammar. *)
Holders(file, at) ==
    {d \in 1..(at - 1) : /\ file[d].kind = "def"
                         /\ \A p \in (d + 1)..at : Code(file[p]) => file[p].indent > file[d].indent}
Scope(file, at) ==
    LET h == Holders(file, at) IN IF h = {} THEN "" ELSE file[Max(h)].name

(* The text of a definition: its header and what its block holds. *)
BodyOf(file, name) ==
    LET mine == {d \in DOMAIN file : file[d].kind = "def" /\ file[d].name = name}
    IN SelectSeq([p \in DOMAIN file |->
                    IF p \in mine \/ Holders(file, p) \cap mine # {}
                    THEN file[p] ELSE [file[p] EXCEPT !.kind = "blank"]], Code)

(* Read upwards with a tightening bound, a line of code is attributed to   *)
(* the definition whose block the grammar puts it in. (audit_failures.py   *)
(* enclosing, study_b.py attribution)                                      *)
AttributedToScope ==
    \A p \in DOMAIN source : Code(source[p]) =>
        /\ Enclosing(source, p) = Scope(source, p)
        /\ source[p].kind # "def" => Attribution(source, p) = Scope(source, p)

(* Every question the miner emits compiles: its gold is where the corpus   *)
(* defines it however far the history has moved, its text spells no gold,  *)
(* and the grader credits the gold, its share in prose, and none of the    *)
(* alternates.  The runner loads the suite. (commit_suite.py build,        *)
(* validate_suite.py validate, comparison_runner.py load_questions)        *)
MinedCompiles ==
    /\ Validate(questions, Index, DefinitionCounts, CallersByPlace) = {}
    /\ questions # <<>> => Loads(questions)

(* A caller question that compiles and claims to be exhaustive has for its *)
(* gold exactly the definitions whose block calls the helper, and when no  *)
(* trial solves it the failure audit does not blame the gold.              *)
(* (validate_suite.py check_question, audit_failures.py true_callers,      *)
(* audit)                                                                  *)
CallerQuestion(helper, leaves) ==
    [gold |-> Listed(SetToSeq({Identity(File, n) : n \in leaves})), alternates |-> {},
     words |-> {}, asksPath |-> TRUE, helper |-> [path |-> Other, leaf |-> helper],
     hops |-> 1, exhaustive |-> TRUE, saysTwice |-> FALSE]
CallersOf(helper) ==
    {Scope(pinned, p) : p \in {q \in DOMAIN pinned : pinned[q].kind = "stmt"
                                                     /\ pinned[q].name = helper}} \ {""}
AdmittedCallersCall ==
    pinned # <<>> /\ commits = <<>> =>
        \A helper \in Defines(Elsewhere), leaves \in SUBSET Names \ {{}} :
            CheckQuestion(CallerQuestion(helper, leaves), Index, DefinitionCounts, CallersByPlace) = {}
              => /\ leaves = CallersOf(helper)
                 /\ ~GoldDefect(CallerQuestion(helper, leaves), CallersByPlace)

(* The gold of a mined question is a definition that its commit modified.  *)
(* (commit_suite.py)                                                       *)
GoldWasModified ==
    \A i \in DOMAIN questions :
        LET c == commits[questions[i].id]
        IN \A g \in ToSet(Flatten(questions[i].gold)) :
               BodyOf(c.before, g.name) # BodyOf(c.after, g.name)
=============================================================================
