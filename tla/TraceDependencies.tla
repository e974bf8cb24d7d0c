--------------------------- MODULE TraceDependencies ---------------------------
(***************************************************************************)
(* trace_dependencies, asked page by page: the breadth-first walk over an  *)
(* index (StructuralIndex::trace_edges and trace_dependencies) and the     *)
(* rounds that build that index a hop at a time from the files that name   *)
(* what has been found so far (Retrieval::trace_dependencies), all in      *)
(* src/src/index/mod.rs.                                                   *)
(*                                                                         *)
(* A repository is a sequence of files, in the order the walk lists them;  *)
(* a file is the sequence of its call sites, by line.  A call site has the *)
(* name it calls and the definition it stands in, or None outside of any.  *)
(* The repository does not change while it is asked about, and no build of *)
(* an index runs out of budget: that is IndexBuild's subject.              *)
(***************************************************************************)
EXTENDS Naturals, FiniteSets, FiniteSetsExt, SequencesExt

CONSTANTS
    Repos,      \* sequences of files, each a sequence of [caller, callee, line]
    Root,       \* the name the trace starts from
    None,       \* no enclosing definition; no path argument
    Paths,      \* values of `path`: None, or a file the call sites must be in
    Depths,     \* values of `depth` a client passes
    Limits,     \* values of `limit` a client passes
    MaxDepth,   \* largest depth (5 in the code)
    MaxLimit,   \* pagination(): largest limit (100 in the code)
    MaxOffset   \* pagination(): largest offset (10000 in the code)

ASSUME TraceAssumption ==
    /\ \A files \in Repos :
          /\ IsFiniteSet(DOMAIN files)
          /\ \A f \in DOMAIN files :
                /\ IsFiniteSet(DOMAIN files[f])
                /\ \A i \in DOMAIN files[f] : files[f][i].callee # None
    /\ Root # None
    /\ Depths \subseteq Nat /\ Limits \subseteq Nat
    /\ MaxDepth \in Nat /\ MaxLimit \in Nat /\ MaxOffset \in Nat

VARIABLES
    repo, direction, path, depth, limit,    \* the repository and the question
    phase,      \* "asking", "scanning", "tracing", "traced", "done" or "failed"
    offset,     \* the offset of the current call
    names, round,       \* what the round scans for, and its number
    index,      \* the files of the round's index, which are merged in walk order
    queue, expanded,    \* trace_edges: names to expand, names expanded
    here, todo,         \* the name being expanded, and the places still to follow
    edges,      \* trace_edges: results
    got         \* every edge the client has received

question == <<repo, direction, path, depth, limit>>
walk     == <<queue, expanded, here, todo, edges>>
vars     == <<question, phase, offset, names, round, index, walk, got>>

Files == DOMAIN repo

Init ==
    /\ repo \in Repos
    /\ direction \in {"callers", "callees"}
    /\ path \in Paths
    /\ depth \in Depths
    /\ limit \in Limits
    /\ phase = "asking"
    /\ offset = 0
    /\ names = {} /\ round = 0
    /\ index = {}
    /\ queue = <<>> /\ expanded = {}
    /\ here = [name |-> Root, depth |-> 0] /\ todo = {}
    /\ edges = <<>>
    /\ got = {}

-----------------------------------------------------------------------------
(* A round: the index. *)

Valid == depth \in 1 .. MaxDepth /\ limit \in 1 .. MaxLimit /\ offset <= MaxOffset

\* A question out of bounds is an error of the first round.
Refuse ==
    /\ phase = "asking"
    /\ ~Valid
    /\ phase' = "failed"
    /\ UNCHANGED <<question, offset, names, round, index, walk, got>>

\* The first round scans for the name the client asked about.
Ask ==
    /\ phase = "asking"
    /\ Valid
    /\ phase' = "scanning"
    /\ names' = {Root}
    /\ round' = 1
    /\ UNCHANGED <<question, offset, index, walk, got>>

\* The names a file writes: those it calls, and those it defines.
Writes(f) == (UNION {{site.callee, site.caller} : site \in ToSet(repo[f])}) \ {None}

\* A place is a file and the number of one of its call sites.
Places(files) == UNION {{<<f, i>> : i \in DOMAIN repo[f]} : f \in files}
SiteAt(place) ==
    LET site == repo[place[1]][place[2]]
    IN  [caller |-> site.caller, callee |-> site.callee, file |-> place[1], line |-> site.line]

\* files_naming and build: the files that write one of the names, in walk order;
\* the walk begins again at the root.
Scan ==
    /\ phase = "scanning"
    /\ phase' = "tracing"
    /\ index' = {f \in Files : Writes(f) \cap names # {}}
    /\ queue' = <<[name |-> Root, depth |-> 0]>>
    /\ expanded' = {}
    /\ todo' = {}
    /\ edges' = <<>>
    /\ UNCHANGED <<question, offset, names, round, here, got>>

-----------------------------------------------------------------------------
(* trace_edges. *)

\* The end of a site where it is found, and the other one.
Near(site) == IF direction = "callers" THEN site.callee ELSE site.caller
Far(site) == IF direction = "callers" THEN site.caller ELSE site.callee

\* references_by_name or calls_by_caller: where the index has a name.
References(name) == {place \in Places(index) : Near(SiteAt(place)) = name}

MaxResults == offset + limit + 1

\* `depth >= max_depth || !expanded.insert(name)`: there is nothing to expand.
PassedBy(entry) == entry.depth >= depth \/ entry.name \in expanded

Pop ==
    /\ phase = "tracing" /\ todo = {} /\ queue # <<>>
    /\ queue' = Tail(queue)
    /\ IF PassedBy(Head(queue))
       THEN UNCHANGED <<expanded, here, todo>>
       ELSE /\ expanded' = expanded \cup {Head(queue).name}
            /\ here' = Head(queue)
            /\ todo' = References(Head(queue).name)
    /\ UNCHANGED <<question, phase, offset, names, round, index, edges, got>>

InScope(site) == path = None \/ site.file = path

\* The references of a name come in the order of the index.
Before(p, q) == p[1] < q[1] \/ (p[1] = q[1] /\ p[2] < q[2])
IsNext(place) == place \in todo /\ \A other \in todo : ~Before(other, place)

\* A site outside of the scope or of any definition.
PassSite(place) ==
    /\ phase = "tracing" /\ IsNext(place)
    /\ ~InScope(SiteAt(place)) \/ SiteAt(place).caller = None
    /\ todo' = todo \ {place}
    /\ UNCHANGED <<question, phase, offset, names, round, index, queue, expanded, here, edges, got>>

EdgeOf(site) ==
    [caller |-> site.caller, callee |-> site.callee, file |-> site.file, line |-> site.line,
     depth |-> here.depth + 1]

SiteOf(edge) == [caller |-> edge.caller, callee |-> edge.callee,
                 file |-> edge.file, line |-> edge.line]

\* seen_edges: two calls of a name on one line of one definition are one edge.
Seen(site) == \E i \in DOMAIN edges : SiteOf(edges[i]) = site

\* `results.len() >= max_results`, asked when an edge was added.
Enough(found) == Len(found) >= MaxResults

\* Mutant of Pushed: what was found last is expanded first.
PushedFirst(name) ==
    IF here.depth + 1 < depth THEN <<[name |-> name, depth |-> here.depth + 1]>> \o queue
    ELSE queue

\* The queue with the other end of an edge, when a hop is left to expand it.
Pushed(name) ==
    IF here.depth + 1 < depth THEN Append(queue, [name |-> name, depth |-> here.depth + 1])
    ELSE queue

\* A call site is followed: an edge of its own unless it was seen, and the last
\* one when there are enough.
Follow(place) ==
    /\ phase = "tracing" /\ IsNext(place)
    /\ LET site == SiteAt(place) IN
        /\ InScope(site) /\ site.caller # None
        /\ edges' = IF Seen(site) THEN edges ELSE Append(edges, EdgeOf(site))
        /\ IF ~Seen(site) /\ Enough(edges')
           THEN phase' = "traced" /\ UNCHANGED queue
           ELSE queue' = Pushed(Far(site)) /\ UNCHANGED phase
    /\ todo' = todo \ {place}
    /\ UNCHANGED <<question, offset, names, round, index, expanded, here, got>>

\* Nothing is left to expand.
WalkEnds ==
    /\ phase = "tracing" /\ todo = {} /\ queue = <<>>
    /\ phase' = "traced"
    /\ UNCHANGED <<question, offset, names, round, index, walk, got>>

-----------------------------------------------------------------------------
(* The page of a round, and what follows it. *)

Page    == SubSeq(edges, offset + 1, Min({offset + limit, Len(edges)}))
HasMore == Len(edges) > offset + limit

Rounds == depth

Grown == names \cup UNION {{edge.caller, edge.callee} : edge \in ToSet(Page)}

LastRound == round = Rounds \/ Grown = names

\* Mutant of Widen: a round scans for the new names only.
WidenAfresh ==
    /\ phase = "traced" /\ ~LastRound
    /\ phase' = "scanning"
    /\ names' = Grown \ names
    /\ round' = round + 1
    /\ UNCHANGED <<question, offset, index, walk, got>>

\* The page names what was not scanned for: another round.
Widen ==
    /\ phase = "traced" /\ ~LastRound
    /\ phase' = "scanning"
    /\ names' = Grown
    /\ round' = round + 1
    /\ UNCHANGED <<question, offset, index, walk, got>>

NextOffset == offset + limit

\* The reply is sent, and the client asks for the next page if there is one.
Reply ==
    /\ phase = "traced" /\ LastRound
    /\ got' = got \cup ToSet(Page)
    /\ IF HasMore THEN phase' = "asking" /\ offset' = NextOffset
                  ELSE phase' = "done" /\ UNCHANGED offset
    /\ UNCHANGED <<question, names, round, index, walk>>

Step ==
    \/ Refuse
    \/ Ask
    \/ Scan
    \/ Pop
    \/ \E place \in todo : PassSite(place) \/ Follow(place)
    \/ WalkEnds
    \/ Widen
    \/ Reply

Over == phase \in {"done", "failed"}

Next == Step \/ (Over /\ UNCHANGED vars)

\* The server answers and the client goes on asking.
Spec == Init /\ [][Next]_vars /\ WF_vars(Step)

-----------------------------------------------------------------------------
(* What a trace is: the call sites within so many hops of the root. *)

Calls(files) == {site \in {SiteAt(place) : place \in Places(files)} :
                    InScope(site) /\ site.caller # None}

\* The names within d hops of the root, for each d up to the depth.
Within(files) ==
    LET calls == Calls(files)
        near[d \in 0 .. depth] ==
            IF d = 0 THEN {Root}
            ELSE near[d - 1] \cup {Far(site) : site \in {s \in calls : Near(s) \in near[d - 1]}}
    IN  near

CallsWithin(files) ==
    LET near == Within(files) IN {site \in Calls(files) : Near(site) \in near[depth - 1]}

SitesOf(found) == {SiteOf(edge) : edge \in found}

\* The edges of a walk come hop by hop, each at the length of the shortest way to
\* it in what was indexed, and none twice: cycles and names met again included.
ShortestFirst ==
    phase = "traced" =>
        LET near == Within(index) IN
        /\ \A i, j \in DOMAIN edges :
                i < j => edges[i].depth <= edges[j].depth /\ SiteOf(edges[i]) # SiteOf(edges[j])
        /\ \A i \in DOMAIN edges :
                edges[i].depth = Min({d \in 1 .. depth : Near(edges[i]) \in near[d - 1]})

\* A trace answered in one page is that of the whole repository, although no round
\* read all of it: the rounds converge.
RoundsConverge ==
    phase = "done" /\ offset = 0 => SitesOf(got) = CallsWithin(Files)

\* "Each round scans for every name the previous round's edges named": so a trace
\* followed by next_offset to the end of its pages is whole, too.
PagesConverge ==
    phase = "done" => SitesOf(got) = CallsWithin(Files)

=============================================================================
