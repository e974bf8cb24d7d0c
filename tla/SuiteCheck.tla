------------------------------ MODULE SuiteCheck ------------------------------
(***************************************************************************)
(* validate_suite.validate: what a compiled suite has proved of a          *)
(* question before any model answers it.  A question is a record:          *)
(*   gold        the typed answer          words    the identifiers its    *)
(*   alternates  the wrong answers it has           text spells            *)
(*   asksPath    its text asks for a path::name                            *)
(*   helper, hops, exhaustive   what a caller question is about            *)
(*   evidence    the definition its evidence quotes      id                *)
(* callers[d] is true_callers: an oracle over the source that gives the    *)
(* definitions that call d; MinedSuite says how a line is attributed to a  *)
(* definition.  times[d] is definition_counts: how often the file of d     *)
(* defines its name.                                                       *)
(***************************************************************************)
EXTENDS Answers

NoHelper == [path |-> "", leaf |-> ""]

(* path::leaf, as a suite spells it. *)
Identity(path, leaf) ==
    [spelled |-> TRUE, owner |-> "", name |-> leaf, paths |-> {path}, segments |-> {},
     words |-> {leaf}]
PathOf(identity) == CHOOSE p \in identity.paths : TRUE
Place(identity) == [path |-> PathOf(identity), leaf |-> identity.name]

(* The sentence a model would write for these identities. *)
InProse(identities) ==
    [spelled |-> FALSE, owner |-> "", name |-> "", segments |-> {{}},
     paths |-> UNION {i.paths : i \in ToSet(identities)},
     words |-> {i.name : i \in ToSet(identities)}]
BareName(name) ==
    [spelled |-> TRUE, owner |-> "", name |-> name, paths |-> {}, segments |-> {},
     words |-> {name}]
Wrong == Identity("not a path", "not a symbol")

(* The callers a gold may claim: those of the helper, or at two hops those *)
(* of its callers. *)
Verified(q, callers) ==
    LET direct == callers[q.helper]
    IN IF q.hops = 1 THEN direct \ {q.helper} ELSE UNION {callers[d] : d \in direct}

(* What is wrong with a caller question.  The further checks on wording (test  *)
(* callers, module scope, the defining file) only refuse more questions and    *)
(* are left out.                                                               *)
CallerProblems(q, index, times, callers) ==
    LET direct == callers[q.helper]
        verified == Verified(q, callers)
        claimed == {Place(i) : i \in ToSet(Flatten(q.gold))} \ {q.helper}
    IN {p \in {"helper misplaced", "twin callers", "namesake expanded", "reached twice", 
               "claims no caller", "omits a caller"} :
          CASE p = "helper misplaced" -> q.helper.path \notin Defining(index, q.helper.leaf)
            [] p = "twin callers" -> \E d \in direct : times[d] > 1
            [] p = "namesake expanded" ->
                 q.hops = 2 /\ \E d \in direct : Cardinality(Defining(index, d.leaf)) > 1
            [] p = "reached twice" -> q.hops = 2 /\ direct \cap verified # {} /\ ~q.saysTwice
            [] p = "claims no caller" -> ~(claimed \subseteq verified)
            [] p = "omits a caller" -> q.exhaustive /\ ~(verified \subseteq claimed)}

(* Whether the grader treats this gold, its share in a sentence, another       *)
(* container, a wrong answer and the rejected ones as they deserve.            *)
GraderProblems(q, index) ==
    LET ids == Flatten(q.gold)
        scores(v) == Credit(v, q.gold, index)
    IN {p \in {"gold misgraded", "prose misgraded", "container misgraded", "wrong credited",
                "share misgraded", "bare namesake credited", "alternate credited"} :
          CASE p = "gold misgraded" -> scores(q.gold) # Full
            [] p = "prose misgraded" -> scores(Claimed(InProse(ids))) # Full
            [] p = "container misgraded" ->
                 \/ q.gold.kind = "list" /\ scores(Keyed([answer |-> q.gold])) # Full
                 \/ /\ q.gold.kind = "object" /\ Cardinality(DOMAIN q.gold.keys) = 1
                    /\ scores(OnlyOf(q.gold)) # Full
            [] p = "wrong credited" -> scores(Claimed(Wrong)) # 0
            [] p = "share misgraded" ->
                 Len(ids) > 1 /\ scores(Claimed(InProse(<<ids[1]>>))) # Full \div Len(ids)
            [] p = "bare namesake credited" ->
                 \E i \in ToSet(ids) : /\ Cardinality(Defining(index, i.name)) > 1
                                       /\ scores(Claimed(BareName(i.name))) > 0
            [] p = "alternate credited" -> \E a \in q.alternates : scores(Claimed(a)) > 0}

CheckQuestion(q, index, times, callers) ==
    LET ids == Flatten(q.gold)
    IN IF q.gold = Null THEN {}
       ELSE {p \in {"leaks a target", "gold misplaced", "asks no path"} :
          CASE p = "leaks a target" -> \E i \in ToSet(ids) : i.name \in q.words
            [] p = "gold misplaced" ->
                 \E i \in ToSet(ids) : ~(i.paths \subseteq Defining(index, i.name))
            [] p = "asks no path" -> /\ ~q.asksPath
                                     /\ \E i \in ToSet(ids) : Cardinality(Defining(index, i.name)) > 1}
       \cup GraderProblems(q, index)
       \cup IF q.helper = NoHelper THEN {} ELSE CallerProblems(q, index, times, callers)

(* What a question must have before its gold is looked at: a wrong answer  *)
(* to reject, and evidence whose line the corpus holds.  The other fields  *)
(* are written by every builder.                                           *)
CheckStructure(q, index) ==
    {p \in {"no alternate", "evidence absent"} :
        CASE p = "no alternate" -> q.alternates = {}
          [] p = "evidence absent" -> q.evidence.path \notin Defining(index, q.evidence.leaf)}

(* The questions of a suite with problems: a repeated id is one. *)
Validate(tasks, index, times, callers) ==
    {i \in DOMAIN tasks :
        \/ CheckStructure(tasks[i], index) # {}
        \/ \E j \in 1..(i - 1) : tasks[j].id = tasks[i].id
        \/ CheckQuestion(tasks[i], index, times, callers) # {}}

(* Whether the failure audit finds the gold of an unsolved caller question *)
(* to be other than the callers it counts. *)
GoldDefect(q, callers) ==
    LET claimed == {Place(i) : i \in ToSet(Flatten(q.gold))} \ {q.helper}
    IN q.helper # NoHelper /\ callers[q.helper] # {} /\ claimed # callers[q.helper]

(* comparison_runner.load_questions: the strict grader passes the gold     *)
(* itself, and no id is given twice.  No builder asks for an answer set.   *)
Loads(tasks) ==
    /\ tasks # <<>>
    /\ \A i \in DOMAIN tasks :
          GradeAnswer(StrictV3(<<Text("bare", "answer", tasks[i].gold)>>), tasks[i].gold, FALSE).correct
    /\ \A i, j \in DOMAIN tasks : tasks[i].id = tasks[j].id => i = j
=============================================================================
