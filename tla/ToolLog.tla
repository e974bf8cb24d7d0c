------------------------------- MODULE ToolLog --------------------------------
(***************************************************************************)
(* server.jsonl and what analyze.py reads out of it.  One server process   *)
(* at a time answers calls that overlap and appends two lines for each, a  *)
(* start and an end; it may be killed, also in the middle of a line, and a *)
(* later process of the same trial appends to what is there.  When the     *)
(* client ends, the trial is analysed and compared with the trials of the  *)
(* other profiles of the same question.                                    *)
(*                                                                         *)
(* `served`, `known` and the `calls` of an archived trial are history:     *)
(* what the server did, which the analysis cannot see.                     *)
(***************************************************************************)
EXTENDS Integers, Sequences, FiniteSets, SequencesExt, FiniteSetsExt, Functions, TLC

CONSTANTS
    Requests,      \* requests the client makes, [tool, args]
    Outcomes,      \* results of a call, [error, results, locations]
    Canonical,     \* posixpath.normpath on the paths that occur
    Metadata,      \* ends of a trial, [status, unchanged, unexpected]
    Profiles,      \* the profiles of a question, in the order they run
    MaxServed,     \* calls of one trial (bound)
    MaxProcesses   \* server processes of one trial (bound)

\* A location is <<path, first line, last line>>.
ASSUME LogAssumption == \A o \in Outcomes : o.locations \in Seq(STRING \X Nat \X Nat)

VARIABLES
    lines,     \* the lines of server.jsonl; Torn stands for an undecodable one
    cut,       \* whether the last line has no end of line yet
    process,   \* number of the server process, its session_id
    sequence,  \* the process's counter of calls
    serving,   \* the calls in flight, sequence -> [request, begun]
    served,    \* every call of the trial that began, <<process, sequence>> -> request
    known,     \* the calls whose end was in the log when a call began
    archive    \* the analysed trials, one per profile

logVars == <<lines, cut, process, sequence, serving, served, known, archive>>

Put(f, k, v) == [x \in DOMAIN f \cup {k} |-> IF x = k THEN v ELSE f[x]]

Torn == [event |-> "torn"]
Line(kind, n, request, outcome) ==
    [event |-> kind, session |-> process, sequence |-> n, request |-> request, outcome |-> outcome]
NoOutcome == [error |-> FALSE, results |-> 0, locations |-> <<>>]
Dropped == [error |-> TRUE, results |-> 0, locations |-> <<>>]

-----------------------------------------------------------------------------
(* The server: logging/mod.rs as the harness sees it.                        *)

FreshLog ==
    /\ lines = <<>> /\ cut = FALSE
    /\ process = 1 /\ sequence = 0
    /\ serving = <<>> /\ served = <<>> /\ known = <<>>

LogInit == FreshLog /\ archive = <<>>

\* A line appended after a cut one is glued to it, and neither can be read.
Appended(line) == IF cut THEN Front(lines) \o <<Torn>> ELSE Append(lines, line)

EndLogged == {<<lines[i].session, lines[i].sequence>> :
                 i \in {j \in DOMAIN lines : lines[j].event = "tool_end"}}

\* The counter is read before the lock of the file is taken, so that the start
\* lines of two calls may appear in the other order.
CallArrives(request) ==
    /\ Cardinality(DOMAIN served \cup {<<process, n>> : n \in DOMAIN serving}) < MaxServed
    /\ sequence' = sequence + 1
    /\ serving' = Put(serving, sequence + 1, [request |-> request, begun |-> FALSE])
    /\ UNCHANGED <<lines, cut, process, served, known, archive>>

CallBegins(n) ==
    /\ ~serving[n].begun
    /\ serving' = Put(serving, n, [request |-> serving[n].request, begun |-> TRUE])
    /\ lines' = Appended(Line("tool_start", n, serving[n].request, NoOutcome))
    /\ cut' = FALSE
    /\ served' = Put(served, <<process, n>>, serving[n].request)
    /\ known' = Put(known, <<process, n>>, EndLogged)
    /\ UNCHANGED <<process, sequence, archive>>

\* The handler returns, or its future is dropped and Drop writes the line.
CallEnds(n, outcome) ==
    /\ serving[n].begun
    /\ serving' = Restrict(serving, DOMAIN serving \ {n})
    /\ lines' = Appended(Line("tool_end", n, serving[n].request, outcome))
    /\ cut' = FALSE
    /\ UNCHANGED <<process, sequence, served, known, archive>>

\* The process is killed between two lines, or while it writes one: the start of
\* a call that arrived, or the end of one that began.
ServerKilled ==
    /\ process < MaxProcesses
    /\ \/ UNCHANGED <<lines, cut, served>>
       \/ \E n \in DOMAIN serving :
             /\ ~cut
             /\ lines' = Append(lines, Torn) /\ cut' = TRUE
             /\ served' = Put(served, <<process, n>>, serving[n].request)
    /\ process' = process + 1 /\ sequence' = 0 /\ serving' = <<>>
    /\ UNCHANGED <<known, archive>>

-----------------------------------------------------------------------------
(* The analysis of one log.                                                  *)

LowLevel == {"search_exact", "read_source"}
Structural == {"find_symbol", "find_callers", "trace_dependencies"}
Advanced == Structural \cup {"search_concept"}

MethodOf(tool) == IF tool \in Structural THEN "structural" ELSE tool

Defaults(tool) ==
    CASE tool = "search_exact" ->
             [path |-> ".", regex |-> FALSE, case_sensitive |-> TRUE, limit |-> 20, offset |-> 0]
      [] tool = "find_symbol" -> [path |-> ".", limit |-> 20, offset |-> 0]
      [] tool = "find_callers" ->
             [path |-> ".", include_references |-> FALSE, limit |-> 20, offset |-> 0]
      [] tool = "trace_dependencies" ->
             [direction |-> "callers", depth |-> 3, path |-> ".", limit |-> 20, offset |-> 0]
      [] tool = "search_concept" -> [limit |-> 20, offset |-> 0]
      [] tool = "read_source" -> [start_line |-> 1]

\* Two spellings of one request have one normal form.
NormalizedArguments(request) ==
    LET given == request.args @@ Defaults(request.tool)
        merged == IF request.tool = "read_source"
                  THEN given @@ ("end_line" :> given.start_line + 99) ELSE given
    IN  <<request.tool, [k \in DOMAIN merged |->
            IF k = "path" THEN Canonical[merged[k]] ELSE merged[k]]>>

Overlap(a, b) ==
    a[1] = b[1] /\ Max({a[2], b[2]}) <= Min({a[3], b[3]})

\* The earlier intervals of the file, by first line; the position moves past those
\* that reach it, and the scan breaks at the first gap: no later one reaches it.
Covered(interval, previous) ==
    LET At(line) == {i \in previous : i[1] = interval[1] /\ i[2] = line}
        position[line \in 0 .. interval[3]] ==
            IF line = 0 THEN interval[2]
            ELSE IF line > position[line - 1] THEN position[line - 1]
            ELSE Max({position[line - 1]} \cup {i[3] + 1 : i \in At(line)})
    IN  position[interval[3]] > interval[3]

\* The events, each under the number of its line.
ReadEvents(log) == Restrict(log, {i \in DOMAIN log : log[i] # Torn})
\* A plausible bug: lines that cannot be read are skipped without a word.
UndecodableIgnored(log) == 0
Undecodable(log) == Cardinality({i \in DOMAIN log : log[i] = Torn})

Sessions(events) == {events[i].session : i \in DOMAIN events}
CallsIn(events) == {<<events[i].session, events[i].sequence>> : i \in DOMAIN events}

\* Position of the first line of its kind of a call, 0 if there is none.
Position(events, kind, s, n) ==
    LET found == {i \in DOMAIN events : /\ events[i].event = kind
                                        /\ events[i].session = s /\ events[i].sequence = n}
    IN  IF found = {} THEN 0 ELSE Min(found)
Begun(events, s, n) == Position(events, "tool_start", s, n)
Completed(events, s, n) == Position(events, "tool_end", s, n)

Sequences(events, s) == {events[i].sequence : i \in {j \in DOMAIN events : events[j].session = s}}
Ordered(events, s) == {n \in Sequences(events, s) : Begun(events, s, n) > 0}

Request(events, s, n) == events[Begun(events, s, n)].request
Outcome(events, s, n) == events[Completed(events, s, n)].outcome

\* A second line of its kind, and an end without a start, are only warned of.
Duplicated(events) ==
    {i \in DOMAIN events : i # Position(events, events[i].event, events[i].session, events[i].sequence)}
Orphans(events) == {c \in CallsIn(events) : Begun(events, c[1], c[2]) = 0}
WarningsOf(log) ==
    LET events == ReadEvents(log)
    IN  Undecodable(log) + Cardinality(Duplicated(events)) + Cardinality(Orphans(events))

Succeeded(events, s, n) == Completed(events, s, n) > 0 /\ ~Outcome(events, s, n).error

\* A plausible bug: calls that overlap count as earlier ones.
PrecedesOverlapping(events, s, m, n) == m < n /\ Completed(events, s, m) > 0

\* The order of the lines is the test that one call ended before another began.
Precedes(events, s, m, n) ==
    /\ m < n /\ Completed(events, s, m) > 0
    /\ Completed(events, s, m) < Begun(events, s, n)
Prior(events, s, n) == {m \in Ordered(events, s) : Precedes(events, s, m, n)}
Successful(events, s, n) == {m \in Prior(events, s, n) : Succeeded(events, s, m)}

\* Call n falls back on another method after the call that ended last before it.
Fallback(events, s, m, n) ==
    /\ m \in Prior(events, s, n)
    /\ \A k \in Prior(events, s, n) : Completed(events, s, k) <= Completed(events, s, m)
    /\ MethodOf(Request(events, s, m).tool) # MethodOf(Request(events, s, n).tool)
    /\ Outcome(events, s, m).error \/ Outcome(events, s, m).results = 0

\* Call n asks again for what m was the last to answer.
Duplicate(events, s, m, n) ==
    LET same == {k \in Successful(events, s, n) :
                    NormalizedArguments(Request(events, s, k))
                        = NormalizedArguments(Request(events, s, n))}
    IN  Succeeded(events, s, n) /\ same # {} /\ m = Max(same)

\* The locations the earlier calls returned, those of the tools given.
OldLocations(events, s, n, tools) ==
    UNION {ToSet(Outcome(events, s, m).locations) :
              m \in {k \in Successful(events, s, n) : Request(events, s, k).tool \in tools}}

Repeats(events, s, tools) ==
    {n \in Ordered(events, s) :
        LET now == Outcome(events, s, n).locations
            old == OldLocations(events, s, n, tools)
        IN  /\ Succeeded(events, s, n) /\ Request(events, s, n).tool \in tools
            /\ now # <<>>
            /\ \A i \in ToSet(now) : Covered(i, old)}
RepeatedLocations(events, s) == Repeats(events, s, Advanced \cup LowLevel)
RedundantReads(events, s) == Repeats(events, s, {"read_source"})

\* Calls that follow the answer of an advanced tool, and the reads that verify it.
Followup(events, s, n, m) ==
    /\ Request(events, s, n).tool \in Advanced
    /\ Succeeded(events, s, n) /\ Outcome(events, s, n).results > 0
    /\ m > n /\ Begun(events, s, m) > Completed(events, s, n)
Overlapping(events, s, n, m) ==
    /\ Succeeded(events, s, m)
    /\ \E a \in ToSet(Outcome(events, s, n).locations), b \in ToSet(Outcome(events, s, m).locations) :
          Overlap(a, b)
Verification(events, s, n, m) ==
    /\ Followup(events, s, n, m)
    /\ Request(events, s, m).tool = "read_source" /\ Overlapping(events, s, n, m)
-----------------------------------------------------------------------------
(* The comparison of the trials.                                             *)

\* Calls of every session, by tool, and whether each of them has an end.
ToolCounts(events) ==
    [t \in Advanced \cup LowLevel |->
        Cardinality({c \in CallsIn(events) : /\ Begun(events, c[1], c[2]) > 0
                                           /\ Request(events, c[1], c[2]).tool = t})]
AllComplete(events) ==
    \A s \in Sessions(events) : \A n \in Ordered(events, s) : Completed(events, s, n) > 0

EligibleLog(log, metadata) ==
    /\ metadata.status = "completed" /\ metadata.unchanged /\ ~metadata.unexpected
    /\ WarningsOf(log) = 0
    /\ AllComplete(ReadEvents(log))

\* The client ends, whatever the server is doing, and its trial is analysed.
TrialEnds(metadata) ==
    /\ Len(archive) < Len(Profiles)
    /\ archive' = Append(archive,
          [profile |-> Profiles[Len(archive) + 1],
           eligible |-> EligibleLog(lines, metadata),
           counts |-> ToolCounts(ReadEvents(lines)),
           calls |-> [t \in Advanced \cup LowLevel |->
                         Cardinality({c \in DOMAIN served : served[c].tool = t})]])
    /\ lines' = <<>> /\ cut' = FALSE /\ process' = 1 /\ sequence' = 0
    /\ serving' = <<>> /\ served' = <<>> /\ known' = <<>>

\* Baselines and variants that are compared, in the order of the list.
Comparisons == {<<"A", "B">>, <<"A", "C">>, <<"A", "D">>, <<"B", "D">>, <<"C", "D">>}
Compared ==
    {p \in (DOMAIN archive) \X (DOMAIN archive) :
        /\ <<archive[p[1]].profile, archive[p[2]].profile>> \in Comparisons
        /\ archive[p[1]].eligible /\ archive[p[2]].eligible}
Saved(i, j, t) == archive[i].counts[t] - archive[j].counts[t]

\* The strata, one question of one category: what the eligible trials of a profile
\* add up to, and what its eligible pairs with a baseline saved.
EligibleOf(profile) == {i \in DOMAIN archive : archive[i].profile = profile /\ archive[i].eligible}
Stratum(profile) ==
    [planned |-> Cardinality({i \in DOMAIN archive : archive[i].profile = profile}),
     eligible |-> Cardinality(EligibleOf(profile)),
     calls |-> [t \in Advanced \cup LowLevel |->
                   SumFunction([i \in EligibleOf(profile) |-> archive[i].counts[t]])]]
PairsOf(baseline, variant) ==
    {p \in Compared : archive[p[1]].profile = baseline /\ archive[p[2]].profile = variant}
MatchedSaved(baseline, variant, t) ==
    SumFunction([p \in PairsOf(baseline, variant) |-> Saved(p[1], p[2], t)])

LogNext ==
    \/ Len(archive) < Len(Profiles)
       /\ \/ \E request \in Requests : CallArrives(request)
          \/ \E n \in DOMAIN serving :
                CallBegins(n) \/ \E o \in Outcomes \cup {Dropped} : CallEnds(n, o)
          \/ ServerKilled
    \/ \E metadata \in Metadata : TrialEnds(metadata)

-----------------------------------------------------------------------------
\* What a pair of trials is said to have saved is the difference between the calls
\* the two servers began, whichever lines a kill tore or swallowed: a log that
\* does not show them all has no eligible trial (analyze_directory).  A stratum
\* whose trials are all eligible counts every call of its servers, and two of
\* them differ by what their pairs saved (category_summaries).
SavedIsTrue ==
    LET profiles == {archive[i].profile : i \in DOMAIN archive}
        stratum == [profile \in profiles |-> Stratum(profile)]
        whole == {p \in profiles : stratum[p].eligible = stratum[p].planned}
        began(i, t) == archive[i].calls[t]
    IN  /\ \A p \in Compared : \A t \in Advanced \cup LowLevel :
              Saved(p[1], p[2], t) = began(p[1], t) - began(p[2], t)
        /\ \A p \in whole : \A t \in Advanced \cup LowLevel :
              stratum[p].calls[t] = SumFunction([i \in EligibleOf(p) |-> began(i, t)])
        /\ \A pair \in Comparisons \cap (whole \X whole) :
              (\A q \in ToSet(pair) : stratum[q].planned = 1) =>
                 \A t \in Advanced \cup LowLevel :
                     MatchedSaved(pair[1], pair[2], t)
                         = stratum[pair[1]].calls[t] - stratum[pair[2]].calls[t]

LinesOf(locations) ==
    UNION {{<<i[1], k>> : k \in i[2] .. i[3]} : i \in ToSet(locations)}

\* A call is blamed on another one only when that one had answered before it
\* began: a fallback on a failure the client had seen, a repeat of a request whose
\* answer was there, a location every line of which had been delivered, a reading
\* of lines that an answer had just named.  Calls that overlap, and start lines in
\* the other order, accuse nobody (analyze_events).  Every trial starts with an
\* empty log, so the logs of the first are all there are.
BlamesThePast ==
    LET events == ReadEvents(lines)
    IN  archive = <<>> => \A s \in Sessions(events) :
            /\ \A m, n \in Ordered(events, s) :
                  Fallback(events, s, m, n) \/ Duplicate(events, s, m, n) \/ Followup(events, s, m, n)
                      => <<s, m>> \in known[<<s, n>>]
            /\ \A m, n \in Ordered(events, s) :
                  Verification(events, s, m, n) =>
                      LinesOf(Outcome(events, s, m).locations)
                        \cap LinesOf(Outcome(events, s, n).locations) # {}
            /\ \A n \in RepeatedLocations(events, s) \cup RedundantReads(events, s) :
                  LinesOf(Outcome(events, s, n).locations)
                    \subseteq UNION {LinesOf(Outcome(events, s, m).locations) :
                                       m \in {k \in Ordered(events, s) :
                                                /\ <<s, k>> \in known[<<s, n>>]
                                                /\ Succeeded(events, s, k)}}

=============================================================================
