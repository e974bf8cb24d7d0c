------------------------------ MODULE SuiteGates ------------------------------
(***************************************************************************)
(* The two gates a finished question has to pass (src/experiments/).       *)
(* tool_reachability.py executes the path its author wrote and proves that *)
(* it ends at the gold.  lexical_oracle.py lets a bounded crawl loose on   *)
(* it, which starts from the question's own words and follows what every   *)
(* answer shows; a question the crawl solves says nothing about the        *)
(* structural tools.                                                       *)
(*                                                                         *)
(* A line of source is the names it defines, the names it calls as an      *)
(* attribute, and the others it mentions; a place is a line of a file.     *)
(* Counts only order what the crawl tries next: here it takes any of the   *)
(* best moves, and any three harvested names for the three most common.    *)
(* The pages of the searches are wider than any answer of the instance.    *)
(***************************************************************************)
EXTENDS Integers, Sequences, FiniteSets, SequencesExt, FiniteSetsExt

CONSTANTS
    Source,       \* the lines of every file
    Questions,    \* gold pairs and the question's words
    Paths,        \* tool paths an author may write for one
    Ranked,       \* what search_concept may find: sets of places of definitions
    WithCallers,  \* --with-tool find_callers
    Window,       \* --read-window
    Budget,       \* --budget
    MaxVain     \* bound: calls a server answers with isError

ASSUME GatesAssumption == {Window, Budget} \subseteq Nat \ {0} /\ MaxVain \in Nat

VARIABLES task,    \* the question
          terms, queried, traced, read,  \* Crawl: what to search, what was
          names, reads,   \* names harvested, and lines that were pointed at
          got,     \* the rows of every answer: Crawl.text
          asked,   \* the calls that were answered,
          used, failed,  \* how many were made, how many of them in vain
          verdict  \* "crawling", "solved", "gave_up", "out_of_budget"

gateVars == <<task, terms, queried, traced, read, names, reads, got, asked, used, failed, verdict>>

-----------------------------------------------------------------------------
(* The server, as far as the gates look at it. *)
Spots == {<<f, i>> : f \in DOMAIN Source, i \in 1 .. Max({Len(Source[f]) : f \in DOMAIN Source})}
Real == {p \in Spots : p[2] <= Len(Source[p[1]])}
LineAt(p) == Source[p[1]][p[2]]
Words(p) == LineAt(p).defs \cup LineAt(p).calls \cup LineAt(p).others

\* The definition a call site is attributed to; none at the top of a file.
Holder(p) ==
    LET above == {i \in 1 .. p[2] : Source[p[1]][i].defs # {}}
    IN IF above = {} THEN {} ELSE Source[p[1]][Max(above)].defs

\* A row shows its file and what is `said`; it may point at its line.  harvest() takes
\* the names under certain keys, and the definitions and attributes of the text.
Row(p, hit, keys, shown) == [at |-> p, hit |-> hit, keys |-> keys, said |-> shown]
Quoted(p, hit, keys) == Row(p, hit, keys \cup LineAt(p).defs \cup LineAt(p).calls, keys \cup Words(p))

Payload(call) ==
    CASE call.tool = "search_concept" -> {Row(p, FALSE, {}, LineAt(p).defs) : p \in call.found}
      [] call.tool = "search_exact" -> {Quoted(p, TRUE, {}) : p \in {q \in Real : call.name \in Words(q)}}
      [] call.tool = "read_source" ->
            {Quoted(p, FALSE, {}) : p \in {q \in Real : q[1] = call.path /\ q[2] \in call.lines}}
      [] call.tool = "find_symbol" ->
            {Quoted(p, TRUE, {call.name}) : p \in {q \in Real : call.name \in LineAt(q).defs}}
      [] call.tool = "find_callers" ->
            {Quoted(p, TRUE, {call.name} \cup Holder(p)) :
                p \in {q \in Real : call.name \in LineAt(q).calls \cup LineAt(q).defs}}

-----------------------------------------------------------------------------
(* lexical_oracle.py *)

\* Every identifier a set of rows exposes as worth querying, and the lines it
\* points at.
Harvest(rows) == UNION {r.keys : r \in rows}
HitLines(rows) == {r.at : r \in {q \in rows : q.hit}}

\* The pairs visible in what tools returned: path and name, not necessarily of
\* the same row.
Exposed(rows, pairs) ==
    {pair \in pairs : /\ \E r \in rows : r.at[1] = pair[1]
                      /\ \E r \in rows : pair[2] \in r.said}

Identities(t) == t.gold
Solved(rows) == task.gold # {} /\ Exposed(rows, Identities(task)) = task.gold

\* The words of the question, minus every gold name.
QuestionTerms(t) == t.words \ {pair[2] : pair \in t.gold}

GatesInit ==
    /\ task \in Questions
    /\ terms = QuestionTerms(task) /\ queried = {} /\ traced = {} /\ read = {}
    /\ names = {} /\ reads = {} /\ got = {} /\ asked = {} /\ used = 0 /\ failed = 0
    /\ verdict = "crawling"

\* A window of lines counts as read when one line of it was read around.
Bucket(p) == <<p[1], p[2] \div Window>>
Around(p) == LET start == Max({1, p[2] - Window \div 2})
             IN [tool |-> "read_source", path |-> p[1], lines |-> start .. start + Window]
Search(n) == [tool |-> "search_exact", name |-> n]

\* What the crawl has left, strongest first.
TermsLeft == terms \ queried
CallersLeft == IF WithCallers THEN names \ traced ELSE {}
ReadsLeft == {p \in reads : Bucket(p) \notin read}
NamesLeft == names \ queried

\* Mutant of Remembered: only the names that become terms are kept.
RememberedTop(rows, top) == top
Remembered(rows, top) == Harvest(rows)

\* absorb(): up to three of the harvested names become terms at once.
Absorb(rows) ==
    \E top \in kSubset(Min({3, Cardinality(Harvest(rows))}), Harvest(rows)) :
        /\ names' = names \cup Remembered(rows, top)
        /\ terms' = terms \cup (top \ queried')
        /\ reads' = reads \cup HitLines(rows)
        /\ got' = got \cup rows
        /\ verdict' = IF Solved(got') THEN "solved" ELSE verdict

\* One call of the crawl; an error costs the call and shows nothing.
Asks(call) ==
    /\ verdict = "crawling" /\ used < Budget
    /\ used' = used + 1
    /\ \/ Absorb(Payload(call)) /\ asked' = asked \cup {call} /\ UNCHANGED failed
       \/ /\ failed < MaxVain /\ failed' = failed + 1
          /\ UNCHANGED <<names, terms, reads, got, asked, verdict>>
    /\ UNCHANGED task

AsksConcept ==
    /\ used = 0
    /\ UNCHANGED <<queried, traced, read>>
    /\ \E found \in Ranked : Asks([tool |-> "search_concept", found |-> found])

AsksTerm ==
    /\ used > 0
    /\ \E n \in TermsLeft : queried' = queried \cup {n} /\ Asks(Search(n))
    /\ UNCHANGED <<traced, read>>

AsksCallers ==
    /\ used > 0 /\ TermsLeft = {}
    /\ \E n \in CallersLeft :
          traced' = traced \cup {n} /\ queried' = queried /\ Asks([tool |-> "find_callers", name |-> n])
    /\ UNCHANGED read

AsksAround ==
    /\ used > 0 /\ TermsLeft = {} /\ CallersLeft = {}
    /\ \E p \in ReadsLeft :
          read' = read \cup {Bucket(p)} /\ queried' = queried /\ Asks(Around(p))
    /\ UNCHANGED traced

AsksName ==
    /\ used > 0 /\ TermsLeft = {} /\ CallersLeft = {} /\ ReadsLeft = {}
    /\ \E n \in NamesLeft : queried' = queried \cup {n} /\ Asks(Search(n))
    /\ UNCHANGED <<traced, read>>

GivesUp ==
    /\ verdict = "crawling"
    /\ \/ used = Budget /\ verdict' = "out_of_budget"
       \/ /\ used > 0 /\ used < Budget
          /\ TermsLeft = {} /\ CallersLeft = {} /\ ReadsLeft = {} /\ NamesLeft = {}
          /\ verdict' = "gave_up"
    /\ UNCHANGED <<task, terms, queried, traced, read, names, reads, got, asked, used, failed>>

GatesNext == \/ AsksConcept \/ AsksTerm \/ AsksCallers \/ AsksAround \/ AsksName \/ GivesUp

-----------------------------------------------------------------------------
(* tool_reachability.py *)

\* A marker is present when a row of its own file carries the name.
Present(rows, pair) == \E r \in rows : r.at[1] = pair[1] /\ pair[2] \in r.said

\* The words the arguments of a step hold.
ArgumentWords(call) ==
    CASE call.tool = "search_concept" -> call.words
      [] call.tool = "read_source" -> {call.path}
      [] OTHER -> {call.name}

\* Every step expects something; the first seeds the path without a gold name,
\* a later one consumes a marker by its name or by its path.
PathProblems(path) ==
    {i \in DOMAIN path :
        \/ path[i].expect = {}
        \/ i = 1 /\ path[i].call.tool \notin {"search_exact", "find_symbol", "search_concept"}
        \/ i = 1 /\ ArgumentWords(path[i].call) \cap {pair[2] : pair \in task.gold} # {}
        \/ i > 1 /\ ArgumentWords(path[i].call) \cap ToSet(path[i].uses) = {}}

\* The rows of the first n steps.
Output(path, n) == UNION {Payload(path[i].call) : i \in 1 .. n}

Execute(path) ==
    /\ path # <<>> /\ PathProblems(path) = {}
    /\ \A i \in DOMAIN path :
          /\ i > 1 => Present(Output(path, i - 1), path[i].uses)
          /\ \A marker \in path[i].expect : Present(Payload(path[i].call), marker)
    /\ \A pair \in task.gold : Present(Output(path, Len(path)), pair)

-----------------------------------------------------------------------------
\* Whether the crawl had what a step of a path takes: the same ranking, a name
\* it was asked with or shown, or lines it has read.
Taken(call) ==
    LET had == QuestionTerms(task) \cup Harvest(got)
    IN CASE call.tool = "search_concept" -> \E c \in asked : c.tool = call.tool /\ call.found \subseteq c.found
         [] call.tool = "search_exact" -> call.name \in had
         [] call.tool = "read_source" ->
               call.lines \subseteq UNION {c.lines : c \in {d \in asked : d.tool = call.tool /\ d.path = call.path}}
         [] call.tool = "find_callers" -> WithCallers /\ call.name \in Harvest(got)
         [] OTHER -> FALSE

\* The two gates fit together: when a crawl that met no error runs out of moves
\* before its budget and has not the gold, every path proved to reach it makes
\* a call the crawl could not make, so the question does test what such a crawl
\* lacks.  A question without an identity in its gold has nothing to reach, and no
\* crawl solves it. (Crawl.next_action and absorb against tool_reachability.execute)
ResistantNeedsMore ==
    verdict = "gave_up" /\ failed = 0 /\ task.gold # {} =>
        \A path \in Paths : Execute(path) => \E i \in DOMAIN path : ~Taken(path[i].call)
=============================================================================
