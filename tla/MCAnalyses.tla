------------------------------ MODULE MCAnalyses ------------------------------
(***************************************************************************)
(* The offline programs, one of which runs: the analysis of a server log,  *)
(* the reading of a client's transcript, the grading of a run, the two     *)
(* programs that build a suite, and the gates its questions pass.  They    *)
(* share no state, and what one does is checked without the others.        *)
(***************************************************************************)
EXTENDS ToolLog, Transcripts, GradedRun, MinedSuite, LocbenchSuite, SuiteGates

VARIABLE program  \* the one that runs

\* ToolLog: one call that covers a file, one line of it, two spellings of it.
MCRequests ==
    {[tool |-> "search_concept", args |-> [limit |-> 20]],
     [tool |-> "read_source", args |-> [path |-> "f", end_line |-> 100]],
     [tool |-> "read_source", args |-> [path |-> "./f"]]}
MCOutcomes ==
    {[error |-> FALSE, results |-> Len(found), locations |-> found] :
        found \in {<<>>, <<<<"f", 2, 2>>, <<"f", 1, 1>>>>, <<<<"f", 1, 2>>>>}}
MCCanonical == [p \in {"f", "./f", "."} |-> IF p = "./f" THEN "f" ELSE p]
MCProfiles == <<"A", "B">>
MCMetadata == {[status |-> "completed", unchanged |-> TRUE, unexpected |-> u] : u \in BOOLEAN}

\* Transcripts: a retrieval tool, a native one, and one nobody was granted.
MCOffers == {[name |-> "search", request |-> {}], [name |-> "Read", request |-> {"f"}],
             [name |-> "web", request |-> {}]}
MCBodies == {{"f"}, {"g"}}
MCGold == {<<"f", "g">>}

\* GradedRun: a question with two gold symbols and one with one, corpora that
\* are indexed otherwise at the second of three versions, and replies in every
\* form the grader distinguishes.
Claim(name, paths, segments) ==
    [spelled |-> TRUE, owner |-> "", name |-> name, paths |-> paths,
     segments |-> segments, words |-> {name}]
AF == Claim("f", {"a"}, {})
BG == Claim("g", {"b"}, {})
InA == Claim("f", {}, {{"a"}})
MCTrials == 1 .. 2
MCAsked == <<[gold |-> Listed(<<AF, BG>>), set |-> TRUE, corpus |-> "c"],
             [gold |-> Claimed(AF), set |-> FALSE, corpus |-> "c"]>>
Holding(a, b) == [c |-> [f |-> a, g |-> b]]
MCTables == <<Holding({"a"}, {"b"}), Holding({"a", "b"}, {"b"}), Holding({"a"}, {"b"})>>
MCRegrades == {"c"}
MCSegments ==
    {Text("prose", "decline", Null), Text("text", "code", Null),
     Text("json", "answer", Listed(<<>>)), Text("json", "answer", Listed(<<BG, AF>>)),
     Text("bare", "twice", Listed(<<AF, BG>>)), Text("bare", "answer", Claimed(InA)),
     Text("json", "answer", Claimed(AF))}
MCMaxReply == <<3, 1>>

\* MinedSuite: a module that is written up to four lines long, then edited by
\* two commits; another file that defines and calls g.
Written(kind, name, indent) == [kind |-> kind, name |-> name, indent |-> indent, rev |-> 0]
MCElsewhere == <<Written("def", "g", 0), Written("stmt", "", 1)>>
MCAdded == {Written("def", "f", 0)}
MCMessages == {[words |-> w, outside |-> FALSE, maintenance |-> FALSE] : w \in {{"g"}}}

\* LocbenchSuite: four rows over two commits of two files; the versions x and z
\* of a file have the same size.
Edit(path, leaf) == [path |-> path, leaf |-> leaf]
MCRows ==
    <<[commit |-> "c1", edits |-> <<Edit("a", "f")>>, words |-> {"a"}, adds |-> FALSE],
      [commit |-> "c2", edits |-> <<Edit("a", "f"), Edit("b", "g")>>, words |-> {"h"}, adds |-> FALSE],
      [commit |-> "c2", edits |-> <<Edit("b", "g")>>, words |-> {}, adds |-> FALSE],
      [commit |-> "c2", edits |-> <<Edit("b", "g")>>, words |-> {}, adds |-> TRUE]>>
MCTrees == [c1 |-> [a |-> "x", b |-> "y"], c2 |-> [a |-> "z", b |-> "y"]]
MCHolds == [absent |-> {}, x |-> {"f", "k"}, y |-> {"g", "h"}, z |-> {"f", "k"}]
MCSizeOf == [absent |-> 0, x |-> 5, y |-> 6, z |-> 5]
MCFiles == <<"a", "b">>

\* SuiteGates: one definition calls itself and three others, another calls the
\* first beyond what a read of the call shows; six paths, the fourth of which
\* consumes what it was not shown.
Has(defs, calls, others) == [defs |-> defs, calls |-> calls, others |-> others]
MCSource ==
    [a |-> <<Has({"fn"}, {}, {}), Has({}, {"fn", "go", "hi", "jo"}, {}), Has({}, {}, {}), Has({"ka"}, {}, {}), Has({}, {"fn"}, {"wd"})>>,
     b |-> <<Has({"go"}, {"jo"}, {}), Has({}, {}, {"wd"}), Has({"mu"}, {}, {"jo"}), Has({}, {"hi"}, {})>>]
Step(call, uses, expect) == [call |-> call, uses |-> uses, expect |-> {expect}]
Reads(f, span) == [tool |-> "read_source", path |-> f, lines |-> span]
CallersIn(n) == [tool |-> "find_callers", name |-> n]
Concept == [tool |-> "search_concept", found |-> {<<"a", 1>>}, words |-> {}]
MCPaths ==
    {<<Step(Search("hi"), <<>>, <<"a", "fn">>), Step(CallersIn("fn"), <<"a", "fn">>, <<"a", "ka">>)>>,
     <<Step(Concept, <<>>, <<"a", "fn">>), Step(Reads("a", 2 .. 4), <<"a", "fn">>, <<"a", "ka">>)>>,
     <<Step(Search("wd"), <<>>, <<"a", "fn">>), Step(CallersIn("fn"), <<"a", "fn">>, <<"a", "ka">>)>>,
     <<Step(Search("wd"), <<>>, <<"a", "fn">>), Step(Search("jo"), <<"a", "jo">>, <<"b", "go">>)>>,
     <<Step(Search("hi"), <<>>, <<"a", "jo">>), Step(Search("jo"), <<"a", "jo">>, <<"b", "go">>)>>,
     <<Step(Search("fn"), <<>>, <<"a", "hi">>), Step(CallersIn("fn"), <<"a", "fn">>, <<"a", "ka">>),
       Step(CallersIn("hi"), <<"a", "hi">>, <<"b", "mu">>)>>}
MCQuestions ==
    {[gold |-> gold, words |-> words] :
        gold \in {{<<"a", "ka">>}, {<<"b", "go">>}, {<<"a", "ka">>, <<"b", "mu">>}},
        words \in {{"fn"}, {"wd"}, {"hi"}, {}}}
MCRanked == {{}, {<<"a", 1>>}}

-----------------------------------------------------------------------------
vars == <<program, logVars, transcriptVars, gradeVars, mineVars, locVars, gateVars>>

\* Of the programs that do not run only one initial state matters.
Init ==
    /\ program \in {"log", "transcript", "grade", "mine", "locbench", "gates"}
    /\ LogInit /\ TranscriptInit /\ GradeInit /\ MineInit /\ LocInit /\ GatesInit
    /\ program # "transcript" => client = "codex" /\ ~projectDoc
    /\ program # "gates" => task = CHOOSE t \in Questions : TRUE

Next ==
    \/ /\ program = "log" /\ LogNext
       /\ UNCHANGED <<program, transcriptVars, gradeVars, mineVars, locVars, gateVars>>
    \/ /\ program = "transcript" /\ TranscriptNext
       /\ UNCHANGED <<program, logVars, gradeVars, mineVars, locVars, gateVars>>
    \/ /\ program = "grade" /\ GradeNext
       /\ UNCHANGED <<program, logVars, transcriptVars, mineVars, locVars, gateVars>>
    \/ /\ program = "mine" /\ MineNext
       /\ UNCHANGED <<program, logVars, transcriptVars, gradeVars, locVars, gateVars>>
    \/ /\ program = "locbench" /\ LocNext
       /\ UNCHANGED <<program, logVars, transcriptVars, gradeVars, mineVars, gateVars>>
    \/ /\ program = "gates" /\ GatesNext
       /\ UNCHANGED <<program, logVars, transcriptVars, gradeVars, mineVars, locVars>>

Spec == Init /\ [][Next]_vars
=============================================================================
