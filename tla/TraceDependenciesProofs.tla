----------------------- MODULE TraceDependenciesProofs -----------------------
(***************************************************************************)
(* What trace_dependencies promises, for every repository, every question  *)
(* and every bound: the edges of a walk come nearest first, each at its    *)
(* distance and none twice, and a trace that fits on one page is that of   *)
(* the whole repository, although no round reads all of it.                *)
(*                                                                         *)
(* The walk is breadth first because its queue holds the names of one      *)
(* level before those of the next, every name nearer than the level is     *)
(* expanded, and what an expanded name leads to is expanded, queued or     *)
(* still to be followed.  The rounds converge because the n-th scans for   *)
(* every name within n - 1 hops: the calls from those names are in the     *)
(* files it reads, and a walk that fits on the page has them all.          *)
(***************************************************************************)
EXTENDS TraceDependencies, FunctionTheorems, FiniteSetTheorems, WellFoundedInduction, TLAPS

-----------------------------------------------------------------------------
(* The inductive invariant. *)

Phases == {"asking", "scanning", "tracing", "traced", "done", "failed"}

\* The files a round reads for a set of names.
Naming(words) == {f \in Files : Writes(f) \cap words # {}}

TypeOK ==
    /\ repo \in Repos /\ depth \in Depths /\ limit \in Limits
    /\ phase \in Phases /\ offset \in Nat
    /\ phase \in {"scanning", "tracing", "traced"} =>
         depth \in Nat \ {0} /\ limit \in Nat \ {0} /\ round \in 1 .. depth /\ Root \in names
    /\ phase \in {"tracing", "traced"} => index = Naming(names)

Reach(files) == {Root} \cup {Far(site) : site \in Calls(files)}
Entries == [name : Reach(index), depth : Nat]
\* A call with its distance.
EdgeAt(site, d) == [caller |-> site.caller, callee |-> site.callee, file |-> site.file,
                    line |-> site.line, depth |-> d]
EdgeSet == {EdgeAt(site, d) : site \in Calls(index), d \in Nat}

\* Hops from the root to the name that is being expanded.
Level == IF expanded = {} THEN 0 ELSE here.depth
DueNames == {queue[i].name : i \in {k \in DOMAIN queue : queue[k].depth <= Level}}
Queued == {queue[i].name : i \in DOMAIN queue}
Hops == Within(index)

\* The queue: names of this level and of the next, in this order, each at most as
\* many hops away as it says.
QueueOrdered ==
    /\ queue \in Seq(Entries)
    /\ \A i \in DOMAIN queue : /\ Level <= queue[i].depth /\ queue[i].depth <= Level + 1
                               /\ queue[i].depth < depth /\ queue[i].name \in Hops[queue[i].depth]
    /\ \A i, j \in DOMAIN queue : i < j => queue[i].depth <= queue[j].depth

\* Every name nearer than this level is expanded, and those at it are or will be.
NearerExpanded ==
    /\ \A d \in Nat : d < Level => Hops[d] \subseteq expanded
    /\ Hops[Level] \subseteq expanded \cup DueNames

\* What an expanded name leads to is expanded, queued or still to be followed.
NextQueued ==
    Level + 1 < depth => \A site \in Calls(index) : Near(site) \in expanded =>
        Far(site) \in expanded \cup Queued \/ \E place \in todo : SiteAt(place) = site

\* The name being expanded is at its level and at no nearer one.
HereNearest ==
    /\ expanded = {} => todo = {} /\ edges = <<>>
    /\ expanded # {} => /\ here.depth \in Nat /\ here.depth < depth
                        /\ here.name \in Hops[here.depth]
                        /\ \A d \in Nat : d < here.depth => here.name \notin Hops[d]
    /\ todo \subseteq References(here.name)

\* The edges: of calls in the index, each at its distance, in this order, once.
EdgesNearest ==
    /\ edges \in Seq(EdgeSet)
    /\ \A i \in DOMAIN edges :
         /\ edges[i].depth \in 1 .. depth
         /\ Near(edges[i]) \in Hops[edges[i].depth - 1]
         /\ \A d \in Nat : d < edges[i].depth - 1 => Near(edges[i]) \notin Hops[d]
    /\ \A i, j \in DOMAIN edges :
         i < j => edges[i].depth <= edges[j].depth /\ SiteOf(edges[i]) # SiteOf(edges[j])

EdgesBehind == \A i \in DOMAIN edges : edges[i].depth <= Level + 1

\* A call from an expanded name is an edge, or still to be followed.
CallsFollowed ==
    \A site \in Calls(index) : Near(site) \in expanded =>
        \/ \E i \in DOMAIN edges : SiteOf(edges[i]) = site
        \/ \E place \in todo : SiteAt(place) = site

WalkInv ==
    phase = "tracing" =>
        /\ QueueOrdered /\ NearerExpanded /\ NextQueued /\ HereNearest /\ EdgesBehind /\ CallsFollowed

EdgesInv == phase \in {"tracing", "traced"} => EdgesNearest

\* A walk that is over has found enough, or everything there is.
WalkWhole ==
    phase = "traced" =>
        Len(edges) > offset + limit \/ SitesOf(ToSet(edges)) = CallsWithin(index)

\* A round of the first page scans for every name within one hop less than its
\* number, or for names that lead to more calls than a page holds.
RoundsAhead ==
    phase \in {"scanning", "tracing", "traced"} /\ offset = 0 =>
        \/ Within(Files)[round - 1] \subseteq names
        \/ Cardinality(CallsWithin(Naming(names))) > limit

\* The client has nothing yet of the first page.
NothingGot == offset = 0 /\ phase # "done" => got = {}


-----------------------------------------------------------------------------
(* Numbers, finite sets and recursion. *)

\* A set of numbers that is not empty has a least one.
LEMMA Least ==
    ASSUME NEW T, T \subseteq Nat, T # {}
    PROVE  \E x \in T : \A y \in T : x <= y
<1> DEFINE Less == {p \in Nat \X Nat : p[1] < p[2]}
<1>1. IsWellFoundedOn(Less, Nat)
  BY NatLessThanWellFounded DEF OpToRel
<1> HIDE DEF Less
<1>2. PICK x \in T : \A y \in T : ~ (<<y, x>> \in Less)
  BY <1>1, WFMin
<1>3. ASSUME NEW y \in T PROVE x <= y
  <2>1. x \in Nat /\ y \in Nat
    OBVIOUS
  <2>2. CASE y < x
    <3>1. <<y, x>> \in Less
      BY <2>1, <2>2 DEF Less
    <3> QED BY <1>2, <3>1
  <2> QED BY <2>1, <2>2
<1> QED BY <1>3

\* One that has 0, and with every number the next one, has them all.
LEMMA Induction ==
    ASSUME NEW T, T \subseteq Nat, 0 \in T, \A n \in T : n + 1 \in T
    PROVE  T = Nat
<1> SUFFICES ASSUME T # Nat PROVE FALSE
  OBVIOUS
<1>1. PICK x \in Nat \ T : \A y \in Nat \ T : x <= y
  BY Least
<1>2. x # 0 /\ x - 1 \in Nat
  BY <1>1
<1>3. x - 1 \in T
  BY <1>1, <1>2
<1> QED BY <1>1, <1>2, <1>3

\* Min of a set of numbers that is not empty is its least element.
LEMMA MinIn ==
    ASSUME NEW T, T \subseteq Nat, T # {}
    PROVE  Min(T) \in T /\ \A y \in T : Min(T) <= y
  BY Least DEF Min

\* A finite set of numbers that is not empty has a greatest one.
LEMMA MaxIn ==
    ASSUME NEW T, T \subseteq Nat, T # {}, IsFiniteSet(T)
    PROVE  Max(T) \in T /\ \A y \in T : y <= Max(T)
<1> DEFINE Highest(U) == \E x \in U : \A y \in U : y <= x
           A == {n \in Nat : \A U \in SUBSET T : Cardinality(U) = n + 1 => Highest(U)}
<1>1. \A U \in SUBSET T : IsFiniteSet(U) /\ Cardinality(U) \in Nat
  BY FS_Subset, FS_CardinalityType
<1>2. 0 \in A
  <2>1. ASSUME NEW U \in SUBSET T, Cardinality(U) = 1 PROVE Highest(U)
    <3>1. PICK x : U = {x}
      BY <1>1, <2>1, FS_Singleton
    <3> QED BY <3>1
  <2> QED BY <2>1
<1>3. ASSUME NEW n \in A PROVE n + 1 \in A
  <2>1. ASSUME NEW U \in SUBSET T, Cardinality(U) = (n + 1) + 1 PROVE Highest(U)
    <3>1. n \in Nat
      OBVIOUS
    <3>2. PICK x : x \in U
      <4>1. U # {}
        BY <2>1, <3>1, FS_EmptySet
      <4> QED BY <4>1
    <3>3. Cardinality(U \ {x}) = n + 1
      BY <1>1, <2>1, <3>1, <3>2, FS_RemoveElement
    <3>4. PICK z \in U \ {x} : \A y \in U \ {x} : y <= z
      BY <3>3
    <3>5. x \in Nat /\ z \in Nat
      BY <3>2
    <3>6. CASE x <= z
      BY <3>4, <3>6
    <3>7. CASE z < x
      <4>1. \A y \in U : y <= x
        BY <3>4, <3>5, <3>7
      <4> QED BY <3>2, <4>1
    <3> QED BY <3>5, <3>6, <3>7
  <2> HIDE DEF Highest
  <2> QED BY <2>1
<1>4. A = Nat
  <2>1. A \subseteq Nat
    OBVIOUS
  <2> HIDE DEF A
  <2> QED BY <1>2, <1>3, <2>1, Induction
<1>5. Highest(T)
  <2>1. Cardinality(T) \in Nat \ {0}
    BY <1>1, FS_EmptySet
  <2>2. Cardinality(T) - 1 \in A
    BY <1>4, <2>1
  <2>3. Cardinality(T) = (Cardinality(T) - 1) + 1
    BY <2>1
  <2> HIDE DEF Highest
  <2> QED BY <2>2, <2>3
<1> HIDE DEF A
<1> QED BY <1>5 DEF Max

\* A finite function has finitely many values.
LEMMA ImageFinite ==
    ASSUME NEW f, IsFiniteSet(DOMAIN f)
    PROVE  IsFiniteSet({f[x] : x \in DOMAIN f})
<1> DEFINE T == {f[x] : x \in DOMAIN f}
           g == [x \in DOMAIN f |-> f[x]]
<1>1. g \in Surjection(DOMAIN f, T)
  BY Fun_IsSurj
<1> QED
  BY <1>1, FS_Surjection

Follows(f, N, base, step) == f[0] = base /\ \A n \in 1 .. N : f[n] = step[n][f[n - 1]]

\* A recursion on numbers has a solution.
LEMMA Recursion ==
    ASSUME NEW N \in Nat, NEW A, NEW base \in A, NEW step \in [1 .. N -> [A -> A]]
    PROVE  \E f \in [0 .. N -> A] : Follows(f, N, base, step)
<1> DEFINE Solves(f, m) == f[0] = base /\ \A n \in 1 .. m : f[n] = step[n][f[n - 1]]
           Solvable == {m \in Nat : m <= N => \E f \in [0 .. m -> A] : Solves(f, m)}
<1>1. 0 \in Solvable
  <2> DEFINE g == [n \in 0 .. 0 |-> base]
  <2>1. g \in [0 .. 0 -> A] /\ Solves(g, 0)
    OBVIOUS
  <2> HIDE DEF g, Solves
  <2> QED BY <2>1
<1>2. ASSUME NEW m \in Solvable PROVE m + 1 \in Solvable
  <2> SUFFICES ASSUME m + 1 <= N PROVE \E f \in [0 .. m + 1 -> A] : Solves(f, m + 1)
    OBVIOUS
  <2>1. PICK g \in [0 .. m -> A] : Solves(g, m)
    OBVIOUS
  <2> DEFINE h == [n \in 0 .. m + 1 |-> IF n <= m THEN g[n] ELSE step[m + 1][g[m]]]
  <2>2. step[m + 1][g[m]] \in A
    OBVIOUS
  <2>3. h \in [0 .. m + 1 -> A]
    BY <2>2
  <2>4. h[m + 1] = step[m + 1][g[m]] /\ \A n \in 0 .. m : h[n] = g[n]
    OBVIOUS
  <2> HIDE DEF h
  <2>5. Solves(h, m + 1)
    BY <2>1, <2>4
  <2> HIDE DEF Solves
  <2> QED BY <2>3, <2>5
<1>3. Solvable = Nat
  <2>1. Solvable \subseteq Nat
    OBVIOUS
  <2> HIDE DEF Solvable
  <2> QED BY <1>1, <1>2, <2>1, Induction
<1> QED BY <1>3 DEF Follows

-----------------------------------------------------------------------------
(* The names within so many hops. *)

\* The names the calls of some names lead to.
Found(files, near) == {Far(site) : site \in {s \in Calls(files) : Near(s) \in near}}

\* Within is what its recursion says.
LEMMA WithinUnfolds ==
    ASSUME NEW files, depth \in Nat
    PROVE  /\ Within(files)[0] = {Root}
           /\ \A d \in 1 .. depth :
                Within(files)[d] = Within(files)[d - 1] \cup Found(files, Within(files)[d - 1])
<1> DEFINE N == depth
           A == SUBSET Reach(files)
           base == {Root}
           Body(g, d) == IF d = 0 THEN {Root} ELSE g[d - 1] \cup Found(files, g[d - 1])
           step == [d \in 1 .. N |-> [X \in A |-> X \cup Found(files, X)]]
<1>1. step \in [1 .. N -> [A -> A]]
  <2>1. ASSUME NEW X \in A PROVE X \cup Found(files, X) \in A
    BY DEF Found, Reach
  <2> HIDE DEF A
  <2> QED BY <2>1
<1>2. base \in A
  BY DEF Reach
<1>3. PICK f \in [0 .. N -> A] : f[0] = {Root} /\ \A d \in 1 .. N : f[d] = step[d][f[d - 1]]
  <2>1. N \in Nat
    OBVIOUS
  <2> HIDE DEF N, step, A, base
  <2>2. \E f \in [0 .. N -> A] : Follows(f, N, base, step)
    BY <1>1, <1>2, <2>1, Recursion
  <2> QED BY <2>2 DEF base, Follows
<1>4. ASSUME NEW d \in 0 .. N PROVE f[d] = Body(f, d)
  <2>1. CASE d = 0
    BY <1>3, <2>1
  <2>2. CASE d # 0
    <3>1. d \in 1 .. N /\ d - 1 \in 0 .. N
      BY <2>2
    <3>2. f[d - 1] \in A
      <4> HIDE DEF A, N
      <4> QED BY <3>1
    <3>3. step[d][f[d - 1]] = f[d - 1] \cup Found(files, f[d - 1])
      <4> HIDE DEF A, N
      <4> QED BY <3>1, <3>2
    <3> HIDE DEF step, N, A
    <3> QED BY <1>3, <2>2, <3>1, <3>3
  <2> QED BY <2>1, <2>2
<1>5. f = [d \in 0 .. N |-> f[d]]
  <2> HIDE DEF A
  <2> QED OBVIOUS
<1>6. f = [d \in 0 .. N |-> Body(f, d)]
  <2> HIDE DEF Body
  <2> QED BY <1>4, <1>5
<1> DEFINE J == Within(files)
<1>7. J = CHOOSE g : g = [d \in 0 .. N |-> Body(g, d)]
  BY DEF Within, Found
<1>8. J = [d \in 0 .. N |-> Body(J, d)]
  <2> HIDE DEF Body, J, N
  <2> QED BY <1>6, <1>7
<1> HIDE DEF J
<1>9. J[0] = {Root}
  BY <1>8
<1>10. ASSUME NEW d \in 1 .. N PROVE J[d] = Body(J, d) /\ d # 0
  <2>1. d \in 0 .. N /\ d # 0
    OBVIOUS
  <2> HIDE DEF Body
  <2> QED BY <1>8, <2>1
<1> QED BY <1>9, <1>10 DEF J

\* A name at most d hops away is at most e hops away.
LEMMA WithinGrows ==
    ASSUME NEW files, depth \in Nat, NEW d \in 0 .. depth, NEW e \in 0 .. depth, d <= e
    PROVE  Within(files)[d] \subseteq Within(files)[e]
<1> DEFINE W == Within(files)
           T == {n \in Nat : d + n <= depth => W[d] \subseteq W[d + n]}
<1>1. 0 \in T
  OBVIOUS
<1>2. ASSUME NEW n \in T PROVE n + 1 \in T
  <2> SUFFICES ASSUME d + (n + 1) <= depth PROVE W[d] \subseteq W[d + (n + 1)]
    OBVIOUS
  <2>1. d + (n + 1) \in 1 .. depth /\ (d + (n + 1)) - 1 = d + n /\ d + n <= depth
    OBVIOUS
  <2>2. W[d + (n + 1)] = W[d + n] \cup Found(files, W[d + n])
    BY <2>1, WithinUnfolds
  <2>3. W[d] \subseteq W[d + n]
    BY <2>1
  <2> QED BY <2>2, <2>3
<1>3. T = Nat
  <2>1. T \subseteq Nat
    OBVIOUS
  <2> HIDE DEF T
  <2> QED BY <1>1, <1>2, <2>1, Induction
<1>4. e - d \in T /\ d + (e - d) = e
  <2> HIDE DEF T
  <2> QED BY <1>3
<1> QED BY <1>4

\* Another hop follows the calls.
LEMMA WithinFollows ==
    ASSUME NEW files, depth \in Nat, NEW d \in Nat, d < depth
    PROVE  /\ \A site \in Calls(files) : Near(site) \in Within(files)[d] => Far(site) \in Within(files)[d + 1]
           /\ \A name \in Within(files)[d + 1] :
                name \in Within(files)[d]
                \/ \E site \in Calls(files) : Near(site) \in Within(files)[d] /\ Far(site) = name
<1>1. d + 1 \in 1 .. depth /\ (d + 1) - 1 = d
  OBVIOUS
<1>2. Within(files)[d + 1] = Within(files)[d] \cup Found(files, Within(files)[d])
  BY <1>1, WithinUnfolds
<1> QED BY <1>2 DEF Found

\* A set of names that has the root and what its calls lead to has them all.
LEMMA WithinClosed ==
    ASSUME NEW files, depth \in Nat, NEW T, NEW D \in 0 .. depth, Root \in T,
           \A d \in Nat : d < D /\ Within(files)[d] \subseteq T =>
                \A site \in Calls(files) : Near(site) \in Within(files)[d] => Far(site) \in T
    PROVE  \A d \in 0 .. D : Within(files)[d] \subseteq T
<1> DEFINE W == Within(files)
           P == {n \in Nat : n <= D => W[n] \subseteq T}
<1>1. 0 \in P
  BY WithinUnfolds
<1>2. ASSUME NEW n \in P PROVE n + 1 \in P
  <2> SUFFICES ASSUME n + 1 <= D PROVE W[n + 1] \subseteq T
    OBVIOUS
  <2>1. n < depth /\ n < D /\ W[n] \subseteq T
    OBVIOUS
  <2> HIDE DEF W
  <2>2. \A name \in W[n + 1] :
                name \in W[n]
                \/ \E site \in Calls(files) : Near(site) \in W[n] /\ Far(site) = name
    BY <2>1, WithinFollows DEF W
  <2> QED BY <2>1, <2>2 DEF W
<1>3. P = Nat
  <2>1. P \subseteq Nat
    OBVIOUS
  <2> HIDE DEF P
  <2> QED BY <1>1, <1>2, <2>1, Induction
<1> HIDE DEF W
<1>4. \A n \in Nat : n <= D => W[n] \subseteq T
  BY <1>3
<1> QED BY <1>4 DEF W

-----------------------------------------------------------------------------
(* The calls of some files. *)

\* A call is a site of a place of the files.
LEMMA CallPlaced ==
    ASSUME NEW files, NEW site \in Calls(files)
    PROVE  /\ InScope(site) /\ site.caller # None
           /\ \E place \in Places(files) : SiteAt(place) = site
  BY DEF Calls

\* A site in scope and in a definition is a call.
LEMMA PlaceCalls ==
    ASSUME NEW files, NEW place \in Places(files), InScope(SiteAt(place)), SiteAt(place).caller # None
    PROVE  SiteAt(place) \in Calls(files)
<1> HIDE DEF SiteAt
<1> QED BY DEF Calls

\* More files have more calls.
LEMMA CallsGrow ==
    ASSUME NEW less, NEW more, less \subseteq more
    PROVE  Calls(less) \subseteq Calls(more)
<1>1. Places(less) \subseteq Places(more)
  BY DEF Places
<1> QED BY <1>1 DEF Calls

\* The calls of the repository are finitely many.
LEMMA CallsFinite ==
    ASSUME repo \in Repos, NEW files, files \subseteq Files
    PROVE  IsFiniteSet(Calls(files))
<1> DEFINE Of(f) == {<<f, i>> : i \in DOMAIN repo[f]}
           parts == [f \in Files |-> Of(f)]
           all == UNION {parts[f] : f \in DOMAIN parts}
           sites == [place \in Places(Files) |-> SiteAt(place)]
<1>1. IsFiniteSet(Files) /\ \A f \in Files : IsFiniteSet(DOMAIN repo[f])
  BY TraceAssumption DEF Files
<1>2. ASSUME NEW f \in Files PROVE IsFiniteSet(Of(f))
  <2> DEFINE g == [i \in DOMAIN repo[f] |-> <<f, i>>]
  <2>1. IsFiniteSet(DOMAIN g)
    BY <1>1
  <2>2. {g[i] : i \in DOMAIN g} = Of(f)
    OBVIOUS
  <2> HIDE DEF g, Of
  <2> QED BY <2>1, <2>2, ImageFinite
<1>3. IsFiniteSet({parts[f] : f \in DOMAIN parts})
  <2>1. IsFiniteSet(DOMAIN parts)
    BY <1>1
  <2> HIDE DEF parts
  <2> QED BY <2>1, ImageFinite
<1>4. IsFiniteSet(all)
  <2>1. \A part \in {parts[f] : f \in DOMAIN parts} : IsFiniteSet(part)
    <3> HIDE DEF Of
    <3> QED BY <1>2
  <2> DEFINE Parts == {parts[f] : f \in DOMAIN parts}
  <2> HIDE DEF Parts
  <2>2. IsFiniteSet(UNION Parts)
    BY <1>3, <2>1, FS_UNION DEF Parts
  <2> QED BY <2>2 DEF Parts
<1>5. all = Places(Files)
  BY DEF Places
<1>6. IsFiniteSet({sites[place] : place \in DOMAIN sites})
  <2>1. IsFiniteSet(DOMAIN sites)
    <3> HIDE DEF all
    <3> QED BY <1>4, <1>5
  <2> HIDE DEF sites
  <2> QED BY <2>1, ImageFinite
<1>7. Calls(Files) \subseteq {sites[place] : place \in DOMAIN sites}
  BY DEF Calls
<1>8. Calls(files) \subseteq Calls(Files)
  BY CallsGrow
<1> HIDE DEF sites
<1> QED BY <1>6, <1>7, <1>8, FS_Subset

\* In more files no name is further away.
LEMMA WithinMore ==
    ASSUME depth \in Nat, NEW less, NEW more, less \subseteq more
    PROVE  \A d \in 0 .. depth : Within(less)[d] \subseteq Within(more)[d]
<1> DEFINE P == {n \in Nat : n <= depth => Within(less)[n] \subseteq Within(more)[n]}
<1>1. 0 \in P
  BY WithinUnfolds
<1>2. ASSUME NEW n \in P PROVE n + 1 \in P
  <2> SUFFICES ASSUME n + 1 <= depth PROVE Within(less)[n + 1] \subseteq Within(more)[n + 1]
    OBVIOUS
  <2>1. n < depth /\ n \in Nat
    OBVIOUS
  <2>2. Within(less)[n] \subseteq Within(more)[n]
    OBVIOUS
  <2>3. \A name \in Within(less)[n + 1] :
                name \in Within(less)[n]
                \/ \E site \in Calls(less) : Near(site) \in Within(less)[n] /\ Far(site) = name
    BY <2>1, WithinFollows
  <2>4. \A site \in Calls(more) : Near(site) \in Within(more)[n] => Far(site) \in Within(more)[n + 1]
    BY <2>1, WithinFollows
  <2>5. Within(more)[n] \subseteq Within(more)[n + 1]
    <3>1. n \in 0 .. depth /\ n + 1 \in 0 .. depth /\ n <= n + 1
      BY <2>1
    <3> QED BY <3>1, WithinGrows
  <2> QED BY <2>2, <2>3, <2>4, <2>5, CallsGrow
<1>3. P = Nat
  <2>1. P \subseteq Nat
    OBVIOUS
  <2> HIDE DEF P
  <2> QED BY <1>1, <1>2, <2>1, Induction
<1> QED BY <1>3

\* So more calls are within the depth.
LEMMA CallsWithinGrow ==
    ASSUME depth \in Nat \ {0}, NEW less, NEW more, less \subseteq more
    PROVE  CallsWithin(less) \subseteq CallsWithin(more)
<1>1. depth - 1 \in 0 .. depth
  OBVIOUS
<1>2. Within(less)[depth - 1] \subseteq Within(more)[depth - 1]
  BY <1>1, WithinMore
<1> QED BY <1>2, CallsGrow DEF CallsWithin

-----------------------------------------------------------------------------
(* A round's files. *)

\* A call from a name that is scanned for is in the index of the round.
LEMMA NamedIndexed ==
    ASSUME repo \in Repos, NEW words, NEW site \in Calls(Files), Near(site) \in words
    PROVE  site \in Calls(Naming(words))
<1>1. PICK place \in Places(Files) : SiteAt(place) = site
  BY CallPlaced
<1> DEFINE f == place[1]
           i == place[2]
<1>2. f \in Files /\ i \in DOMAIN repo[f] /\ place = <<f, i>>
  BY DEF Places
<1>3. site.callee = repo[f][i].callee /\ site.caller = repo[f][i].caller
  BY <1>1 DEF SiteAt
<1>4. repo[f][i].callee # None /\ site.caller # None
  BY <1>2, CallPlaced, TraceAssumption DEF Files
<1>5. repo[f][i] \in ToSet(repo[f])
  BY <1>2 DEF ToSet
<1>6. site.callee \in Writes(f) /\ site.caller \in Writes(f)
  <2> DEFINE s == repo[f][i]
             Ends == {{t.callee, t.caller} : t \in ToSet(repo[f])}
  <2>1. {s.callee, s.caller} \in Ends
    BY <1>5
  <2>2. site.callee \in UNION Ends /\ site.caller \in UNION Ends
    <3> HIDE DEF Ends
    <3> QED BY <1>3, <2>1
  <2>3. site.callee # None /\ site.caller # None
    BY <1>3, <1>4
  <2>4. Writes(f) = (UNION Ends) \ {None}
    BY DEF Writes
  <2> HIDE DEF Ends
  <2> QED BY <2>2, <2>3, <2>4
<1>7. Near(site) \in Writes(f)
  BY <1>6 DEF Near
<1>8. f \in Naming(words)
  BY <1>2, <1>7 DEF Naming
<1>9. place \in Places(Naming(words))
  BY <1>2, <1>8 DEF Places
<1> QED BY <1>1, <1>9, CallPlaced, PlaceCalls

\* What is within so many hops of the repository is so in the index, as far as the
\* round scans for the names on the way.
LEMMA SameNear ==
    ASSUME repo \in Repos, depth \in Nat, NEW words, NEW D \in 0 .. depth,
           \A d \in Nat : d < D => Within(Files)[d] \subseteq words
    PROVE  \A d \in 0 .. D : Within(Files)[d] \subseteq Within(Naming(words))[d]
<1> DEFINE I == Naming(words)
           P == {n \in Nat : n <= D => Within(Files)[n] \subseteq Within(I)[n]}
<1>1. 0 \in P
  BY WithinUnfolds
<1>2. ASSUME NEW n \in P PROVE n + 1 \in P
  <2> SUFFICES ASSUME n + 1 <= D PROVE Within(Files)[n + 1] \subseteq Within(I)[n + 1]
    OBVIOUS
  <2>1. n < depth /\ n \in Nat /\ n < D
    OBVIOUS
  <2>2. Within(Files)[n] \subseteq Within(I)[n] /\ Within(Files)[n] \subseteq words
    BY <2>1
  <2> HIDE DEF I
  <2>3. \A name \in Within(Files)[n + 1] :
                name \in Within(Files)[n]
                \/ \E site \in Calls(Files) : Near(site) \in Within(Files)[n] /\ Far(site) = name
    BY <2>1, WithinFollows
  <2>4. \A site \in Calls(I) : Near(site) \in Within(I)[n] => Far(site) \in Within(I)[n + 1]
    BY <2>1, WithinFollows
  <2>5. Within(I)[n] \subseteq Within(I)[n + 1]
    <3>1. n \in 0 .. depth /\ n + 1 \in 0 .. depth /\ n <= n + 1
      BY <2>1
    <3> QED BY <3>1, WithinGrows
  <2>6. \A site \in Calls(Files) : Near(site) \in Within(Files)[n] => site \in Calls(I)
    BY <2>2, NamedIndexed DEF I
  <2> QED BY <2>2, <2>3, <2>4, <2>5, <2>6
<1>3. P = Nat
  <2>1. P \subseteq Nat
    OBVIOUS
  <2> HIDE DEF P
  <2> QED BY <1>1, <1>2, <2>1, Induction
<1> QED BY <1>3

-----------------------------------------------------------------------------
(* What a step of a walk leaves alone. *)

Kept == UNCHANGED <<repo, direction, path, depth>>

\* The calls depend on the question and the repository alone.
LEMMA CallsKept ==
    ASSUME Kept, NEW files
    PROVE  Calls(files)' = Calls(files)
<1> repo' = repo /\ path' = path
  BY DEF Kept
<1>1. Places(files)' = Places(files)
  BY DEF Places
<1>2. {SiteAt(place) : place \in Places(files)}' = {SiteAt(place) : place \in Places(files)}
  BY <1>1 DEF SiteAt
<1> QED BY <1>1, <1>2 DEF Calls, InScope

\* Within, of what it depends on.
Spread(dir, dep, calls) ==
    LET near[d \in 0 .. dep] ==
            IF d = 0 THEN {Root}
            ELSE near[d - 1] \cup
                 {IF dir = "callers" THEN site.caller ELSE site.callee :
                    site \in {s \in calls :
                        (IF dir = "callers" THEN s.callee ELSE s.caller) \in near[d - 1]}}
    IN  near

\* So do the names within so many hops.
LEMMA WithinKept ==
    ASSUME Kept, NEW files
    PROVE  Within(files)' = Within(files)
<1>1. Calls(files)' = Calls(files)
  BY CallsKept
<1>2. depth' = depth /\ direction' = direction
  BY DEF Kept
<1>3. Within(files) = Spread(direction, depth, Calls(files))
  BY DEF Within, Spread, Near, Far
<1>4. Within(files)' = Spread(direction', depth', Calls(files)')
  BY DEF Within, Spread, Near, Far
<1> QED BY <1>1, <1>2, <1>3, <1>4

\* And those of an index that stays.
LEMMA IndexKept ==
    ASSUME Kept, index' = index
    PROVE  Calls(index)' = Calls(index) /\ Within(index)' = Within(index)
<1> QED BY Zenon, CallsKept, WithinKept

-----------------------------------------------------------------------------
(* Edges and entries. *)

\* A call is its four fields.
LEMMA CallShape ==
    ASSUME NEW files, NEW site \in Calls(files)
    PROVE  site = [caller |-> site.caller, callee |-> site.callee, file |-> site.file, line |-> site.line]
<1>1. PICK place \in Places(files) : SiteAt(place) = site
  BY CallPlaced
<1> QED BY <1>1 DEF SiteAt

\* An edge is a call of the index, with its ends and a distance.
LEMMA EdgeFacts ==
    ASSUME NEW e \in EdgeSet
    PROVE  /\ SiteOf(e) \in Calls(index) /\ e.depth \in Nat
           /\ Near(SiteOf(e)) = Near(e) /\ Far(SiteOf(e)) = Far(e)
<1>1. PICK site \in Calls(index), d \in Nat : e = EdgeAt(site, d)
  BY DEF EdgeSet
<1>2. SiteOf(e) = site
  BY <1>1, CallShape DEF EdgeAt, SiteOf
<1>3. e.depth = d
  BY <1>1 DEF EdgeAt
<1>4. Near(SiteOf(e)) = Near(e) /\ Far(SiteOf(e)) = Far(e)
  BY DEF SiteOf, Near, Far
<1> QED BY <1>2, <1>3, <1>4

\* The edge of a call is one, a hop further than the name it is reached from.
LEMMA EdgeMade ==
    ASSUME NEW site \in Calls(index), here.depth \in Nat
    PROVE  /\ EdgeOf(site) \in EdgeSet
           /\ SiteOf(EdgeOf(site)) = site
           /\ EdgeOf(site).depth = here.depth + 1
           /\ Near(EdgeOf(site)) = Near(site)
<1>1. EdgeOf(site) = EdgeAt(site, here.depth + 1)
  BY DEF EdgeOf, EdgeAt
<1>2. EdgeOf(site) \in EdgeSet
  BY <1>1 DEF EdgeSet
<1>3. SiteOf(EdgeOf(site)) = site
  BY CallShape DEF EdgeOf, SiteOf
<1>4. EdgeOf(site).depth = here.depth + 1
  BY DEF EdgeOf
<1>5. Near(EdgeOf(site)) = Near(site)
  BY DEF EdgeOf, Near
<1> QED BY <1>2, <1>3, <1>4, <1>5

\* Entries name what the index reaches.
LEMMA EntryMade ==
    /\ \A n \in Reach(index), d \in Nat : [name |-> n, depth |-> d] \in Entries
    /\ \A e \in Entries : e.depth \in Nat /\ e.name \in Reach(index)
  BY DEF Entries

\* The tail of a sequence is the rest of it.
LEMMA TailFacts ==
    ASSUME NEW S, NEW q \in Seq(S), q # <<>>
    PROVE  /\ Tail(q) \in Seq(S) /\ Head(q) = q[1] /\ 1 \in DOMAIN q
           /\ \A i \in DOMAIN Tail(q) : i \in Nat /\ i + 1 \in DOMAIN q /\ Tail(q)[i] = q[i + 1]
           /\ \A i \in DOMAIN q : i \in Nat /\ (i # 1 => i - 1 \in DOMAIN Tail(q) /\ Tail(q)[i - 1] = q[i])
  OBVIOUS

\* A sequence with one more is the same before it.
LEMMA AppendFacts ==
    ASSUME NEW S, NEW q \in Seq(S), NEW x \in S
    PROVE  /\ Append(q, x) \in Seq(S) /\ Len(Append(q, x)) = Len(q) + 1
           /\ \A i \in DOMAIN q : i \in DOMAIN Append(q, x) /\ Append(q, x)[i] = q[i]
           /\ Len(q) + 1 \in DOMAIN Append(q, x) /\ Append(q, x)[Len(q) + 1] = x
           /\ \A i \in DOMAIN Append(q, x) : i \in Nat /\ (i \in DOMAIN q \/ i = Len(q) + 1)
           /\ \A i \in DOMAIN q : i < Len(q) + 1
  OBVIOUS

\* What a walk refers to stays while the question and the index do.
LEMMA KeptIndex ==
    ASSUME Kept, index' = index
    PROVE  /\ Calls(index)' = Calls(index) /\ Hops' = Hops
           /\ Reach(index)' = Reach(index) /\ Entries' = Entries /\ EdgeSet' = EdgeSet
           /\ \A site : Near(site)' = Near(site) /\ Far(site)' = Far(site)
<1>1. Calls(index)' = Calls(index) /\ Hops' = Hops
  BY IndexKept DEF Hops
<1>2. \A site : Near(site)' = Near(site) /\ Far(site)' = Far(site)
  BY DEF Kept, Near, Far
<1>3. direction' = direction
  BY DEF Kept
<1>4. {Far(site) : site \in Calls(index)}' = {Far(site) : site \in Calls(index)}
  BY <1>1, <1>3 DEF Far
<1>5. Reach(index)' = Reach(index)
  BY <1>4 DEF Reach
<1>6. Entries' = Entries
  BY <1>5 DEF Entries
<1>7. EdgeSet' = EdgeSet
  BY <1>1 DEF EdgeSet, EdgeAt
<1> QED BY <1>1, <1>2, <1>5, <1>6, <1>7

-----------------------------------------------------------------------------
(* Pop: the next name. *)

Walking ==
    /\ phase = "tracing" /\ depth \in Nat \ {0}
    /\ QueueOrdered /\ NearerExpanded /\ NextQueued /\ HereNearest
    /\ EdgesBehind /\ CallsFollowed /\ EdgesNearest

\* The level is less than the depth.
LEMMA LevelIn ==
    ASSUME Walking
    PROVE  Level \in Nat /\ Level < depth
  BY DEF Walking, Level, HereNearest

\* An entry of the queue that names an expanded name is not needed.
LEMMA PopPasses ==
    ASSUME Walking, Pop, PassedBy(Head(queue))
    PROVE  Walking'
<1>1. /\ queue # <<>> /\ queue' = Tail(queue) /\ UNCHANGED <<expanded, here, todo, edges>>
      /\ phase' = phase /\ depth' = depth /\ Kept /\ index' = index
  BY DEF Pop, Kept, question
<1>2. /\ Calls(index)' = Calls(index) /\ Hops' = Hops
      /\ Entries' = Entries /\ EdgeSet' = EdgeSet
      /\ \A site : Near(site)' = Near(site) /\ Far(site)' = Far(site)
  BY <1>1, KeptIndex
<1>3. Level' = Level /\ Level \in Nat /\ Level < depth
  BY <1>1, LevelIn DEF Level
<1>4. queue \in Seq(Entries)
  BY DEF Walking, QueueOrdered
<1> DEFINE q == Tail(queue)
<1>5. /\ q \in Seq(Entries) /\ Head(queue) = queue[1] /\ 1 \in DOMAIN queue
      /\ \A i \in DOMAIN q : i \in Nat /\ i + 1 \in DOMAIN queue /\ q[i] = queue[i + 1]
      /\ \A i \in DOMAIN queue : i \in Nat /\ (i # 1 => i - 1 \in DOMAIN q /\ q[i - 1] = queue[i])
  <2> HIDE DEF Entries
  <2> QED BY <1>1, <1>4, TailFacts
<1>6. queue[1].name \in expanded
  <2>1. queue[1].depth < depth /\ queue[1].depth \in Nat /\ depth \in Nat
    BY <1>4, <1>5, EntryMade DEF Walking, QueueOrdered
  <2>2. ~(queue[1].depth >= depth)
    BY <2>1
  <2> QED BY <1>5, <2>2 DEF PassedBy
<1>7. queue' = q
  BY <1>1
<1> HIDE DEF q
<1>8. QueueOrdered'
  <2>1. q \in Seq(Entries)' /\ \A i \in DOMAIN q : /\ Level <= q[i].depth /\ q[i].depth <= Level + 1
                                                  /\ q[i].depth < depth /\ q[i].name \in Hops[q[i].depth]
    BY <1>2, <1>5 DEF Walking, QueueOrdered
  <2>2. \A i, j \in DOMAIN q : i < j => q[i].depth <= q[j].depth
    <3> SUFFICES ASSUME NEW i \in DOMAIN q, NEW j \in DOMAIN q, i < j PROVE q[i].depth <= q[j].depth
      OBVIOUS
    <3>1. /\ i + 1 \in DOMAIN queue /\ j + 1 \in DOMAIN queue /\ i + 1 < j + 1
         /\ q[i] = queue[i + 1] /\ q[j] = queue[j + 1]
      BY <1>5
    <3>2. queue[i + 1].depth <= queue[j + 1].depth
      BY <3>1 DEF Walking, QueueOrdered
    <3> QED BY <3>1, <3>2
  <2> QED BY <1>1, <1>2, <1>3, <1>7, <2>1, <2>2 DEF QueueOrdered
<1>9. DueNames \subseteq DueNames' \cup expanded /\ Queued \subseteq Queued' \cup expanded
  BY <1>3, <1>5, <1>6, <1>7 DEF DueNames, Queued
<1>10. NearerExpanded'
  BY <1>1, <1>2, <1>3, <1>9 DEF Walking, NearerExpanded
<1>11. NextQueued'
  BY <1>1, <1>2, <1>3, <1>9 DEF Walking, NextQueued, SiteAt, Kept
<1>12. HereNearest'
  BY <1>1, <1>2 DEF Walking, HereNearest, References, Places, SiteAt, Kept
<1>13. EdgesBehind' /\ EdgesNearest'
  BY <1>1, <1>2, <1>3 DEF Walking, EdgesBehind, EdgesNearest, SiteOf
<1>14. CallsFollowed'
  BY <1>1, <1>2 DEF Walking, CallsFollowed, SiteOf, SiteAt, Kept
<1> QED BY <1>1, <1>8, <1>10, <1>11, <1>12, <1>13, <1>14 DEF Walking
\* Every name at the level of a name that is now expanded, or before it, is
\* expanded or waits in the queue.
LEMMA PopReaches ==
    ASSUME Walking, todo = {}, queue # <<>>
    PROVE  /\ Head(queue) \in Entries /\ Head(queue).depth \in {Level, Level + 1}
           /\ \A d \in Nat : d < Head(queue).depth => Hops[d] \subseteq expanded
           /\ Hops[Head(queue).depth] \subseteq
                expanded \cup {queue[i].name : i \in {k \in DOMAIN queue : queue[k].depth <= Head(queue).depth}}
<1> DEFINE e == Head(queue)
<1>1. Level \in Nat /\ Level < depth /\ depth \in Nat
  BY LevelIn DEF Walking
<1>2. queue \in Seq(Entries)
  BY DEF Walking, QueueOrdered
<1>3. e = queue[1] /\ 1 \in DOMAIN queue /\ \A i \in DOMAIN queue : i \in Nat /\ 1 <= i
  <2> HIDE DEF Entries
  <2> QED BY <1>2
<1>4. e \in Entries /\ e.depth \in Nat /\ \A i \in DOMAIN queue : queue[i].depth \in Nat
  <2>1. \A i \in DOMAIN queue : queue[i] \in Entries
    <3> HIDE DEF Entries
    <3> QED BY <1>2
  <2> HIDE DEF e, Entries
  <2> QED BY <1>3, <2>1, EntryMade
<1> HIDE DEF e
<1>5. Level <= e.depth /\ e.depth <= Level + 1 /\ e.depth < depth
  BY <1>3 DEF Walking, QueueOrdered
<1>6. \A i \in DOMAIN queue : e.depth <= queue[i].depth /\ queue[i].depth <= Level + 1
  <2>1. \A i \in DOMAIN queue : i # 1 => 1 < i
    BY <1>3
  <2> QED BY <1>3, <1>4, <2>1 DEF Walking, QueueOrdered
<1>7. CASE e.depth = Level
  <2>1. \A d \in Nat : d < e.depth => Hops[d] \subseteq expanded
    BY <1>7 DEF Walking, NearerExpanded
  <2>2. Hops[Level] \subseteq expanded \cup DueNames
    BY DEF Walking, NearerExpanded
  <2> QED BY <1>4, <1>7, <2>1, <2>2 DEF DueNames, e
<1>8. CASE e.depth = Level + 1
  <2>1. DueNames = {}
    BY <1>1, <1>4, <1>6, <1>8 DEF DueNames
  <2>2. Hops[Level] \subseteq expanded
    BY <2>1 DEF Walking, NearerExpanded
  <2>3. \A d \in Nat : d < e.depth => Hops[d] \subseteq expanded
    <3>1. ASSUME NEW d \in Nat, d < e.depth PROVE d < Level \/ d = Level
      BY <1>1, <1>8, <3>1
    <3> QED BY <2>2, <3>1 DEF Walking, NearerExpanded
  <2>4. Level + 1 < depth
    BY <1>5, <1>8
  <2>5. ASSUME NEW name \in Hops[Level + 1] PROVE name \in expanded \cup Queued
    <3>1. name \in Hops[Level] \/ \E site \in Calls(index) : Near(site) \in Hops[Level] /\ Far(site) = name
      BY <1>1, <2>5, WithinFollows DEF Hops
    <3>2. CASE name \in Hops[Level]
      BY <2>2, <3>2
    <3>3. ASSUME NEW site \in Calls(index), Near(site) \in Hops[Level], Far(site) = name
          PROVE  name \in expanded \cup Queued
      BY <2>2, <2>4, <3>3 DEF Walking, NextQueued
    <3> QED BY <3>1, <3>2, <3>3
  <2>6. Queued = {queue[i].name : i \in {k \in DOMAIN queue : queue[k].depth <= e.depth}}
    BY <1>6, <1>8 DEF Queued
  <2> QED BY <1>4, <1>8, <2>3, <2>5, <2>6 DEF e
<1>9. e.depth = Level \/ e.depth = Level + 1
  BY <1>1, <1>4, <1>5
<1> QED BY <1>7, <1>8, <1>9

\* The next name is expanded.
LEMMA PopExpands ==
    ASSUME Walking, Pop, ~PassedBy(Head(queue))
    PROVE  Walking'
<1> DEFINE e == Head(queue)
           q == Tail(queue)
<1>1. /\ queue # <<>> /\ todo = {} /\ queue' = q /\ edges' = edges
      /\ expanded' = expanded \cup {e.name} /\ here' = e /\ todo' = References(e.name)
      /\ phase' = phase /\ depth' = depth /\ Kept /\ index' = index
      /\ e.name \notin expanded
  BY DEF Pop, Kept, question, PassedBy
<1>2. /\ Calls(index)' = Calls(index) /\ Hops' = Hops
      /\ Entries' = Entries /\ EdgeSet' = EdgeSet
      /\ \A site : Near(site)' = Near(site) /\ Far(site)' = Far(site)
  BY <1>1, KeptIndex
<1>3. Level' = e.depth /\ Level \in Nat /\ Level < depth /\ depth \in Nat
  BY <1>1, LevelIn DEF Level, Walking
<1>4. queue \in Seq(Entries)
  BY DEF Walking, QueueOrdered
<1>5. /\ q \in Seq(Entries) /\ e = queue[1] /\ 1 \in DOMAIN queue
      /\ \A i \in DOMAIN q : i \in Nat /\ i + 1 \in DOMAIN queue /\ q[i] = queue[i + 1]
      /\ \A i \in DOMAIN queue : i \in Nat /\ (i # 1 => i - 1 \in DOMAIN q /\ q[i - 1] = queue[i])
  <2> HIDE DEF Entries
  <2> QED BY <1>1, <1>4, TailFacts
<1>6. /\ e \in Entries /\ e.depth \in {Level, Level + 1}
      /\ \A d \in Nat : d < e.depth => Hops[d] \subseteq expanded
      /\ Hops[e.depth] \subseteq
           expanded \cup {queue[i].name : i \in {k \in DOMAIN queue : queue[k].depth <= e.depth}}
  BY <1>1, PopReaches
<1>7. e.depth \in Nat /\ e.depth < depth /\ e.name \in Hops[e.depth]
  BY <1>5, <1>6, EntryMade DEF Walking, QueueOrdered
<1> HIDE DEF e, q
<1>8. QueueOrdered'
  <2>1. \A i \in DOMAIN q : e.depth <= q[i].depth /\ q[i].depth <= e.depth + 1
    <3>1. ASSUME NEW i \in DOMAIN q PROVE e.depth <= q[i].depth /\ q[i].depth <= e.depth + 1
      <4>1. i + 1 \in DOMAIN queue /\ q[i] = queue[i + 1] /\ 1 < i + 1 /\ queue[i + 1] \in Entries
        <5> HIDE DEF Entries
        <5> QED BY <1>4, <1>5
      <4>2. queue[i + 1].depth \in Nat
        BY <4>1, EntryMade
      <4>3. queue[1].depth <= queue[i + 1].depth /\ queue[i + 1].depth <= Level + 1
        BY <1>5, <4>1 DEF Walking, QueueOrdered
      <4> QED BY <1>3, <1>5, <1>6, <1>7, <4>1, <4>2, <4>3
    <3> QED BY <3>1
  <2>2. q \in Seq(Entries)' /\ \A i \in DOMAIN q : q[i].depth < depth /\ q[i].name \in Hops[q[i].depth]
    BY <1>2, <1>5 DEF Walking, QueueOrdered
  <2>3. \A i, j \in DOMAIN q : i < j => q[i].depth <= q[j].depth
    <3> SUFFICES ASSUME NEW i \in DOMAIN q, NEW j \in DOMAIN q, i < j PROVE q[i].depth <= q[j].depth
      OBVIOUS
    <3>1. /\ i + 1 \in DOMAIN queue /\ j + 1 \in DOMAIN queue /\ i + 1 < j + 1
         /\ q[i] = queue[i + 1] /\ q[j] = queue[j + 1]
      BY <1>5
    <3>2. queue[i + 1].depth <= queue[j + 1].depth
      BY <3>1 DEF Walking, QueueOrdered
    <3> QED BY <3>1, <3>2
  <2> QED BY <1>1, <1>2, <1>3, <2>1, <2>2, <2>3 DEF QueueOrdered
<1>9. Queued \subseteq Queued' \cup expanded'
  BY <1>1, <1>5 DEF Queued
<1>10. NearerExpanded'
  <2>1. {queue[i].name : i \in {k \in DOMAIN queue : queue[k].depth <= e.depth}} \subseteq DueNames' \cup expanded'
    BY <1>1, <1>3, <1>5 DEF DueNames
  <2> QED BY <1>1, <1>2, <1>3, <1>6, <2>1 DEF NearerExpanded
<1>11. ASSUME NEW site \in Calls(index), Near(site) = e.name
       PROVE  \E place \in todo' : SiteAt(place)' = site
  <2>1. PICK place \in Places(index) : SiteAt(place) = site
    BY CallPlaced
  <2>2. place \in todo'
    BY <1>1, <1>11, <2>1 DEF References
  <2>3. SiteAt(place)' = SiteAt(place)
    BY <1>1 DEF SiteAt, Kept
  <2> QED BY <2>1, <2>2, <2>3
<1>12. NextQueued'
  <2> SUFFICES ASSUME Level' + 1 < depth', NEW site \in Calls(index), Near(site) \in expanded'
               PROVE  Far(site) \in (expanded \cup Queued)' \/ \E place \in todo' : SiteAt(place)' = site
    BY <1>2 DEF NextQueued
  <2>1. CASE Near(site) = e.name
    BY <1>11, <2>1
  <2>2. CASE Near(site) \in expanded
    <3>1. Level + 1 < depth
      BY <1>1, <1>3, <1>6
    <3>2. Far(site) \in expanded \cup Queued
      BY <1>1, <2>2, <3>1 DEF Walking, NextQueued
    <3> QED BY <1>1, <1>9, <3>2
  <2> QED BY <1>1, <2>1, <2>2
<1>13. HereNearest'
  <2>1. todo' = References(here.name)'
    BY <1>1, <1>2 DEF References, Places, SiteAt, Kept
  <2>2. \A d \in Nat : d < e.depth => e.name \notin Hops[d]
    BY <1>1, <1>6
  <2>3. expanded' # {}
    BY <1>1
  <2> QED BY <1>1, <1>2, <1>7, <2>1, <2>2, <2>3 DEF HereNearest
<1>14. EdgesNearest'
  BY <1>1, <1>2 DEF Walking, EdgesNearest, SiteOf
<1>15. EdgesBehind'
  <2>1. ASSUME NEW i \in DOMAIN edges PROVE edges[i].depth <= e.depth + 1
    <3>1. edges[i].depth <= Level + 1 /\ edges[i].depth \in Nat
      BY DEF Walking, EdgesBehind, EdgesNearest
    <3> QED BY <1>3, <1>6, <1>7, <3>1
  <2> QED BY <1>1, <1>3, <2>1 DEF EdgesBehind
<1>16. CallsFollowed'
  <2> SUFFICES ASSUME NEW site \in Calls(index), Near(site) \in expanded'
               PROVE  \/ \E i \in DOMAIN edges' : SiteOf(edges[i])' = site
                      \/ \E place \in todo' : SiteAt(place)' = site
    BY <1>2 DEF CallsFollowed
  <2>1. CASE Near(site) = e.name
    BY <1>11, <2>1
  <2>2. CASE Near(site) \in expanded
    BY <1>1, <2>2 DEF Walking, CallsFollowed, SiteOf
  <2> QED BY <1>1, <2>1, <2>2
<1> QED BY <1>1, <1>8, <1>10, <1>12, <1>13, <1>14, <1>15, <1>16 DEF Walking

-----------------------------------------------------------------------------
(* The places of the name that is expanded. *)

\* A site that is passed by is no call.
LEMMA PassKeeps ==
    ASSUME Walking, NEW place \in todo, PassSite(place)
    PROVE  Walking'
<1>1. /\ todo' = todo \ {place} /\ UNCHANGED <<queue, expanded, here, edges>>
      /\ phase' = phase /\ depth' = depth /\ Kept /\ index' = index
      /\ ~InScope(SiteAt(place)) \/ SiteAt(place).caller = None
  BY DEF PassSite, Kept, question
<1>2. /\ Calls(index)' = Calls(index) /\ Hops' = Hops
      /\ Entries' = Entries /\ EdgeSet' = EdgeSet
      /\ \A site : Near(site)' = Near(site) /\ Far(site)' = Far(site)
  BY <1>1, KeptIndex
<1>3. Level' = Level
  BY <1>1 DEF Level
<1>4. ASSUME NEW site \in Calls(index), NEW p \in todo, SiteAt(p) = site
      PROVE  \E q \in todo' : SiteAt(q)' = site
  <2>1. p # place
    BY <1>1, <1>4, CallPlaced
  <2>2. SiteAt(p)' = SiteAt(p)
    BY <1>1 DEF SiteAt, Kept
  <2> QED BY <1>1, <1>4, <2>1, <2>2
<1>5. QueueOrdered'
  BY <1>1, <1>2, <1>3 DEF Walking, QueueOrdered
<1>6. NearerExpanded'
  BY <1>1, <1>2, <1>3 DEF Walking, NearerExpanded, DueNames
<1>7. NextQueued'
  BY <1>1, <1>2, <1>3, <1>4 DEF Walking, NextQueued, Queued
<1>8. HereNearest'
  <2>1. todo' \subseteq References(here.name)'
    BY <1>1, <1>2 DEF Walking, HereNearest, References, Places, SiteAt, Kept
  <2> QED BY <1>1, <1>2, <2>1 DEF Walking, HereNearest
<1>9. EdgesBehind' /\ EdgesNearest'
  BY <1>1, <1>2, <1>3 DEF Walking, EdgesBehind, EdgesNearest, SiteOf
<1>10. CallsFollowed'
  BY <1>1, <1>2, <1>4 DEF Walking, CallsFollowed, SiteOf
<1> QED BY <1>1, <1>5, <1>6, <1>7, <1>8, <1>9, <1>10 DEF Walking

\* The site that is followed is a call of the name that is expanded.
LEMMA FollowsCall ==
    ASSUME Walking, NEW place \in todo, InScope(SiteAt(place)), SiteAt(place).caller # None
    PROVE  /\ SiteAt(place) \in Calls(index) /\ Near(SiteAt(place)) = here.name
           /\ expanded # {} /\ Level = here.depth
<1>1. place \in References(here.name) /\ expanded # {}
  BY DEF Walking, HereNearest
<1>2. place \in Places(index) /\ Near(SiteAt(place)) = here.name
  <2> HIDE DEF SiteAt
  <2> QED BY <1>1 DEF References
<1>3. SiteAt(place) \in Calls(index)
  BY <1>2, PlaceCalls
<1> QED BY <1>1, <1>2, <1>3 DEF Level

\* The edges with one more, of a call that is in none of them.
LEMMA EdgeAdded ==
    ASSUME Walking, NEW site \in Calls(index), ~Seen(site),
           Near(site) = here.name, expanded # {}, Level = here.depth,
           edges' = Append(edges, EdgeOf(site)), Kept, index' = index
    PROVE  /\ EdgesNearest'
           /\ \A i \in DOMAIN edges' : edges'[i].depth <= Level + 1
<1> DEFINE x == EdgeOf(site)
           m == Append(edges, x)
<1>1. /\ here.depth \in Nat /\ here.depth < depth /\ here.name \in Hops[here.depth]
      /\ \A d \in Nat : d < here.depth => here.name \notin Hops[d]
  BY DEF Walking, HereNearest
<1>2. x \in EdgeSet /\ SiteOf(x) = site /\ x.depth = here.depth + 1 /\ Near(x) = here.name
  BY <1>1, EdgeMade
<1>3. edges \in Seq(EdgeSet) /\ depth \in Nat
  BY DEF Walking, EdgesNearest
<1> HIDE DEF x
<1>4. /\ m \in Seq(EdgeSet)
      /\ \A i \in DOMAIN edges : m[i] = edges[i] /\ i < Len(edges) + 1
      /\ m[Len(edges) + 1] = x
      /\ \A i \in DOMAIN m : i \in Nat /\ (i \in DOMAIN edges \/ i = Len(edges) + 1)
  <2> HIDE DEF EdgeSet
  <2> QED BY <1>2, <1>3, AppendFacts
<1>5. \A i \in DOMAIN edges : edges[i].depth \in 1 .. depth /\ edges[i].depth <= here.depth + 1
                              /\ SiteOf(edges[i]) # site
  BY DEF Walking, EdgesNearest, EdgesBehind, Seen
<1> HIDE DEF m
<1>6. \A i \in DOMAIN m :
         /\ m[i].depth \in 1 .. depth
         /\ Near(m[i]) \in Hops[m[i].depth - 1]
         /\ \A d \in Nat : d < m[i].depth - 1 => Near(m[i]) \notin Hops[d]
  <2>1. ASSUME NEW i \in DOMAIN edges
        PROVE  /\ m[i].depth \in 1 .. depth
               /\ Near(m[i]) \in Hops[m[i].depth - 1]
               /\ \A d \in Nat : d < m[i].depth - 1 => Near(m[i]) \notin Hops[d]
    <3>1. m[i] = edges[i]
      BY <1>4
    <3> QED BY <3>1 DEF Walking, EdgesNearest
  <2>2. /\ x.depth \in 1 .. depth /\ x.depth - 1 = here.depth
    BY <1>1, <1>2, <1>3
  <2> QED BY <1>1, <1>2, <1>4, <2>1, <2>2
<1>7. \A i \in DOMAIN m : m[i].depth <= here.depth + 1
  BY <1>1, <1>2, <1>4, <1>5
<1>8. \A i, j \in DOMAIN m : i < j => m[i].depth <= m[j].depth /\ SiteOf(m[i]) # SiteOf(m[j])
  <2> SUFFICES ASSUME NEW i \in DOMAIN m, NEW j \in DOMAIN m, i < j
               PROVE  m[i].depth <= m[j].depth /\ SiteOf(m[i]) # SiteOf(m[j])
    OBVIOUS
  <2>1. CASE i \in DOMAIN edges /\ j \in DOMAIN edges
    BY <1>4, <2>1 DEF Walking, EdgesNearest
  <2>2. CASE i \in DOMAIN edges /\ j = Len(edges) + 1
    <3>1. m[i] = edges[i] /\ m[j] = x
      BY <1>4, <2>2
    <3>2. edges[i].depth <= x.depth /\ SiteOf(edges[i]) # SiteOf(x)
      BY <1>2, <1>5, <2>2
    <3> QED BY <3>1, <3>2
  <2>3. CASE i = Len(edges) + 1
    <3>1. j \in Nat /\ (j \in DOMAIN edges \/ j = Len(edges) + 1) /\ Len(edges) \in Nat
      BY <1>3, <1>4
    <3>2. j \in DOMAIN edges => j < Len(edges) + 1
      BY <1>4
    <3> QED BY <2>3, <3>1, <3>2
  <2> QED BY <1>4, <2>1, <2>2, <2>3
<1>9. /\ Hops' = Hops /\ EdgeSet' = EdgeSet /\ depth' = depth /\ edges' = m
      /\ \A s : Near(s)' = Near(s)
  BY KeptIndex DEF Kept, m, x
<1>10. EdgesNearest'
  BY <1>4, <1>6, <1>8, <1>9 DEF EdgesNearest, SiteOf
<1> QED BY <1>7, <1>9, <1>10

\* A call is followed: its other end waits in the queue, and it is an edge.
LEMMA FollowKeeps ==
    ASSUME Walking, NEW place \in todo, Follow(place), phase' = "tracing"
    PROVE  Walking'
<1> DEFINE site == SiteAt(place)
           more == here.depth + 1 < depth
           entry == [name |-> Far(site), depth |-> here.depth + 1]
<1>1. /\ InScope(site) /\ site.caller # None
      /\ todo' = todo \ {place} /\ UNCHANGED <<expanded, here>>
      /\ phase' = phase /\ depth' = depth /\ Kept /\ index' = index
      /\ edges' = IF Seen(site) THEN edges ELSE Append(edges, EdgeOf(site))
      /\ queue' = IF more THEN Append(queue, entry) ELSE queue
  BY DEF Follow, Kept, question, Walking, Pushed
<1>2. /\ Calls(index)' = Calls(index) /\ Hops' = Hops
      /\ Entries' = Entries /\ EdgeSet' = EdgeSet
      /\ \A s : Near(s)' = Near(s) /\ Far(s)' = Far(s)
  BY <1>1, KeptIndex
<1>3. /\ site \in Calls(index) /\ Near(site) = here.name
      /\ expanded # {} /\ Level = here.depth
  BY <1>1, FollowsCall
<1>4. /\ here.depth \in Nat /\ here.depth < depth /\ here.name \in Hops[here.depth] /\ depth \in Nat
      /\ Level' = Level
  BY <1>1, <1>3 DEF Walking, HereNearest, Level
<1>5. queue \in Seq(Entries)
  BY DEF Walking, QueueOrdered
<1>6. SiteAt(place)' = SiteAt(place) /\ \A p : SiteAt(p)' = SiteAt(p)
  BY <1>1 DEF SiteAt, Kept
<1> HIDE DEF site
<1>7. ASSUME more
      PROVE  /\ queue' \in Seq(Entries) /\ Len(queue') = Len(queue) + 1
             /\ \A i \in DOMAIN queue : i \in DOMAIN queue' /\ queue'[i] = queue[i] /\ i < Len(queue) + 1
             /\ Len(queue) + 1 \in DOMAIN queue' /\ queue'[Len(queue) + 1] = entry
             /\ \A i \in DOMAIN queue' : i \in Nat /\ (i \in DOMAIN queue \/ i = Len(queue) + 1)
  <2>1. Far(site) \in Reach(index)
    BY <1>3 DEF Reach
  <2>2. entry \in Entries
    BY <1>4, <2>1, EntryMade
  <2>3. queue' = Append(queue, entry)
    BY <1>1, <1>7
  <2> HIDE DEF entry, Entries
  <2> QED BY <1>5, <2>2, <2>3, AppendFacts
<1>8. entry.depth = here.depth + 1 /\ entry.name = Far(site)
  OBVIOUS
<1> HIDE DEF entry
<1>9. \A i \in DOMAIN queue : i \in DOMAIN queue' /\ queue'[i] = queue[i]
  BY <1>1, <1>7
<1>10. QueueOrdered'
  <2>1. CASE ~more
    BY <1>1, <1>2, <1>4, <2>1 DEF Walking, QueueOrdered
  <2>2. CASE more
    <3>1. entry.depth < depth /\ entry.depth = Level + 1 /\ entry.depth \in Nat
      BY <1>3, <1>4, <1>8, <2>2
    <3>2. entry.name \in Hops[entry.depth]
      BY <1>3, <1>4, <1>8, WithinFollows DEF Hops
    <3>3. \A i \in DOMAIN queue : /\ Level <= queue[i].depth /\ queue[i].depth <= entry.depth
                                  /\ queue[i].depth < depth /\ queue[i].name \in Hops[queue[i].depth]
      BY <3>1 DEF Walking, QueueOrdered
    <3>4. \A i, j \in DOMAIN queue : i < j => queue[i].depth <= queue[j].depth
      BY DEF Walking, QueueOrdered
    <3>5. \A i \in DOMAIN queue' : /\ Level <= queue'[i].depth /\ queue'[i].depth <= Level + 1
                                   /\ queue'[i].depth < depth /\ queue'[i].name \in Hops[queue'[i].depth]
      <4>1. Level \in Nat
        BY <1>3, <1>4
      <4>2. ASSUME NEW i \in DOMAIN queue
            PROVE  /\ Level <= queue'[i].depth /\ queue'[i].depth <= Level + 1
                   /\ queue'[i].depth < depth /\ queue'[i].name \in Hops[queue'[i].depth]
        BY <1>9, <3>1, <3>3
      <4>3. /\ Level <= entry.depth /\ entry.depth <= Level + 1
            /\ entry.depth < depth /\ entry.name \in Hops[entry.depth]
        BY <3>1, <3>2, <4>1
      <4> QED BY <1>7, <2>2, <4>2, <4>3
    <3>6. \A i, j \in DOMAIN queue' : i < j => queue'[i].depth <= queue'[j].depth
      <4> SUFFICES ASSUME NEW i \in DOMAIN queue', NEW j \in DOMAIN queue', i < j
                   PROVE  queue'[i].depth <= queue'[j].depth
        OBVIOUS
      <4>1. CASE i \in DOMAIN queue /\ j \in DOMAIN queue
        BY <1>9, <3>4, <4>1
      <4>2. CASE i \in DOMAIN queue /\ j = Len(queue) + 1
        BY <1>7, <1>9, <2>2, <3>3, <4>2
      <4>3. CASE i = Len(queue) + 1
        <5>1. Len(queue) \in Nat
          BY <1>5
        <5> QED BY <1>7, <2>2, <4>3, <5>1
      <4> QED BY <1>7, <2>2, <4>1, <4>2, <4>3
    <3> QED BY <1>1, <1>2, <1>4, <1>7, <2>2, <3>5, <3>6 DEF QueueOrdered
  <2> QED BY <2>1, <2>2
<1>11. DueNames \subseteq DueNames' /\ Queued \subseteq Queued'
  BY <1>4, <1>9 DEF DueNames, Queued
<1>12. NearerExpanded'
  BY <1>1, <1>2, <1>4, <1>11 DEF Walking, NearerExpanded
<1>13. NextQueued'
  <2> SUFFICES ASSUME Level' + 1 < depth', NEW s \in Calls(index), Near(s) \in expanded
               PROVE  Far(s) \in (expanded \cup Queued)' \/ \E p \in todo' : SiteAt(p)' = s
    BY <1>1, <1>2 DEF NextQueued
  <2>1. more
    BY <1>1, <1>3, <1>4
  <2>2. Far(site) \in Queued'
    BY <1>7, <1>8, <2>1 DEF Queued
  <2>3. Far(s) \in expanded \cup Queued \/ \E p \in todo : SiteAt(p) = s
    BY <1>1, <1>4 DEF Walking, NextQueued
  <2>4. CASE Far(s) \in expanded \cup Queued
    BY <1>1, <1>11, <2>4
  <2>5. ASSUME NEW p \in todo, SiteAt(p) = s
        PROVE  Far(s) \in (expanded \cup Queued)' \/ \E p2 \in todo' : SiteAt(p2)' = s
    <3>1. CASE p = place
      BY <2>2, <2>5, <3>1 DEF site
    <3>2. CASE p # place
      BY <1>1, <1>6, <2>5, <3>2
    <3> QED BY <3>1, <3>2
  <2> QED BY <2>3, <2>4, <2>5
<1>14. HereNearest'
  <2>1. todo' \subseteq References(here.name)'
    BY <1>1, <1>2 DEF Walking, HereNearest, References, Places, SiteAt, Kept
  <2> QED BY <1>1, <1>2, <1>3, <2>1 DEF Walking, HereNearest
<1>15. EdgesNearest' /\ EdgesBehind'
  <2>1. CASE Seen(site)
    BY <1>1, <1>2, <1>4, <2>1 DEF Walking, EdgesBehind, EdgesNearest, SiteOf
  <2>2. CASE ~Seen(site)
    BY <1>1, <1>3, <1>4, <2>2, EdgeAdded DEF EdgesBehind
  <2> QED BY <2>1, <2>2
<1>16. CallsFollowed'
  <2> SUFFICES ASSUME NEW s \in Calls(index), Near(s) \in expanded
               PROVE  \/ \E i \in DOMAIN edges' : SiteOf(edges'[i]) = s
                      \/ \E p \in todo' : SiteAt(p)' = s
    BY <1>1, <1>2 DEF CallsFollowed, SiteOf
  <2>1. edges \in Seq(EdgeSet) /\ EdgeOf(site) \in EdgeSet /\ SiteOf(EdgeOf(site)) = site
    BY <1>3, <1>4, EdgeMade DEF Walking, EdgesNearest
  <2>2. \A i \in DOMAIN edges : i \in DOMAIN edges' /\ edges'[i] = edges[i]
    <3>1. CASE Seen(site)
      BY <1>1, <3>1
    <3>2. CASE ~Seen(site)
      <4> HIDE DEF EdgeSet
      <4> QED BY <1>1, <2>1, <3>2, AppendFacts
    <3> QED BY <3>1, <3>2
  <2>3. \E i \in DOMAIN edges' : SiteOf(edges'[i]) = site
    <3>1. CASE Seen(site)
      BY <2>2, <3>1 DEF Seen
    <3>2. CASE ~Seen(site)
      <4>1. Len(edges) + 1 \in DOMAIN edges' /\ edges'[Len(edges) + 1] = EdgeOf(site)
        <5> HIDE DEF EdgeSet
        <5> QED BY <1>1, <2>1, <3>2, AppendFacts
      <4> QED BY <2>1, <4>1
    <3> QED BY <3>1, <3>2
  <2>4. (\E i \in DOMAIN edges : SiteOf(edges[i]) = s) \/ (\E p \in todo : SiteAt(p) = s)
    BY DEF Walking, CallsFollowed
  <2>5. ASSUME NEW p \in todo, SiteAt(p) = s
        PROVE  \/ \E i \in DOMAIN edges' : SiteOf(edges'[i]) = s
               \/ \E p2 \in todo' : SiteAt(p2)' = s
    <3>1. CASE p = place
      BY <2>3, <2>5, <3>1 DEF site
    <3>2. CASE p # place
      BY <1>1, <1>6, <2>5, <3>2
    <3> QED BY <3>1, <3>2
  <2> QED BY <2>2, <2>4, <2>5
<1> QED BY <1>1, <1>10, <1>12, <1>13, <1>14, <1>15, <1>16 DEF Walking

\* A walk that has enough stops with its edges in order.
LEMMA FollowStops ==
    ASSUME Walking, offset \in Nat, limit \in Nat,
           NEW place \in todo, Follow(place), phase' # "tracing"
    PROVE  phase' = "traced" /\ EdgesNearest' /\ Len(edges') > offset + limit
<1> DEFINE site == SiteAt(place)
<1>1. /\ InScope(site) /\ site.caller # None /\ ~Seen(site)
      /\ phase' = "traced" /\ Kept /\ index' = index
      /\ edges' = Append(edges, EdgeOf(site)) /\ Enough(edges')
  BY DEF Follow, Kept, question, Walking
<1>2. /\ site \in Calls(index) /\ Near(site) = here.name
      /\ expanded # {} /\ Level = here.depth
  BY <1>1, FollowsCall
<1> HIDE DEF site
<1>3. EdgesNearest'
  BY <1>1, <1>2, EdgeAdded
<1>4. Len(edges') \in Nat
  <2>1. edges' \in Seq(EdgeSet')
    BY <1>3 DEF EdgesNearest
  <2> HIDE DEF EdgeSet
  <2> QED BY <2>1
<1>5. Len(edges') >= offset + limit + 1
  BY <1>1 DEF Enough, MaxResults
<1> QED BY <1>1, <1>3, <1>4, <1>5

-----------------------------------------------------------------------------
(* The end of a walk. *)

\* The edges are of calls within the depth.
LEMMA EdgesWithin ==
    ASSUME depth \in Nat \ {0}, EdgesNearest
    PROVE  SitesOf(ToSet(edges)) \subseteq CallsWithin(index)
<1>1. ASSUME NEW i \in DOMAIN edges PROVE SiteOf(edges[i]) \in CallsWithin(index)
  <2>1. edges[i] \in EdgeSet
    <3> HIDE DEF EdgeSet
    <3> QED BY DEF EdgesNearest
  <2>2. SiteOf(edges[i]) \in Calls(index) /\ Near(SiteOf(edges[i])) = Near(edges[i])
    BY <2>1, EdgeFacts
  <2>3. edges[i].depth \in 1 .. depth /\ Near(edges[i]) \in Hops[edges[i].depth - 1]
    BY DEF EdgesNearest
  <2>4. /\ edges[i].depth - 1 \in 0 .. depth /\ depth - 1 \in 0 .. depth
        /\ edges[i].depth - 1 <= depth - 1
    BY <2>3
  <2>5. Hops[edges[i].depth - 1] \subseteq Hops[depth - 1]
    BY <2>4, WithinGrows DEF Hops
  <2> QED BY <2>2, <2>3, <2>5 DEF CallsWithin, Hops
<1> QED BY <1>1 DEF SitesOf, ToSet

\* A walk with nothing left has followed every call within the depth.
LEMMA WalkedAll ==
    ASSUME Walking, todo = {}, queue = <<>>
    PROVE  SitesOf(ToSet(edges)) = CallsWithin(index)
<1>1. Level \in Nat /\ Level < depth /\ depth \in Nat \ {0}
  BY LevelIn DEF Walking
<1>2. DueNames = {} /\ Queued = {}
  BY DEF DueNames, Queued
<1>3. Hops[Level] \subseteq expanded
  BY <1>2 DEF Walking, NearerExpanded
<1> DEFINE P == {n \in Nat : Level + n < depth => Hops[Level + n] \subseteq expanded}
<1>4. 0 \in P
  BY <1>1, <1>3
<1>5. ASSUME NEW n \in P PROVE n + 1 \in P
  <2> SUFFICES ASSUME Level + (n + 1) < depth PROVE Hops[Level + (n + 1)] \subseteq expanded
    OBVIOUS
  <2>1. /\ Level + n \in Nat /\ Level + n < depth /\ (Level + n) + 1 = Level + (n + 1)
        /\ Level + 1 < depth
    BY <1>1
  <2>2. Hops[Level + n] \subseteq expanded
    BY <2>1
  <2>3. \A name \in Hops[Level + (n + 1)] :
                name \in Hops[Level + n]
                \/ \E site \in Calls(index) : Near(site) \in Hops[Level + n] /\ Far(site) = name
    BY <1>1, <2>1, WithinFollows DEF Hops
  <2>4. \A site \in Calls(index) : Near(site) \in expanded => Far(site) \in expanded
    BY <1>2, <2>1 DEF Walking, NextQueued
  <2> QED BY <2>2, <2>3, <2>4
<1>6. P = Nat
  <2>1. P \subseteq Nat
    OBVIOUS
  <2> HIDE DEF P
  <2> QED BY <1>4, <1>5, <2>1, Induction
<1>7. Hops[depth - 1] \subseteq expanded
  <2>1. (depth - 1) - Level \in P /\ Level + ((depth - 1) - Level) = depth - 1
    <3>1. (depth - 1) - Level \in Nat /\ Level + ((depth - 1) - Level) = depth - 1
      BY <1>1
    <3> HIDE DEF P
    <3> QED BY <1>6, <3>1
  <2> QED BY <1>1, <2>1
<1>8. ASSUME NEW site \in CallsWithin(index) PROVE site \in SitesOf(ToSet(edges))
  <2>1. site \in Calls(index) /\ Near(site) \in expanded
    BY <1>7 DEF CallsWithin, Hops
  <2>2. PICK i \in DOMAIN edges : SiteOf(edges[i]) = site
    BY <2>1 DEF Walking, CallsFollowed
  <2> QED BY <2>2 DEF SitesOf, ToSet
<1> QED BY <1>1, <1>8, EdgesWithin DEF Walking

-----------------------------------------------------------------------------
(* The page of a first call. *)

\* As many sites as edges, at most.
LEMMA SitesAtMost ==
    ASSUME NEW S, edges \in Seq(S)
    PROVE  IsFiniteSet(SitesOf(ToSet(edges))) /\ Cardinality(SitesOf(ToSet(edges))) <= Len(edges)
<1> DEFINE T == SitesOf(ToSet(edges))
           f == [i \in 1 .. Len(edges) |-> SiteOf(edges[i])]
<1>1. Len(edges) \in Nat /\ DOMAIN edges = 1 .. Len(edges)
  OBVIOUS
<1>2. f \in Surjection(1 .. Len(edges), T)
  <2>1. T = {f[i] : i \in 1 .. Len(edges)}
    BY <1>1 DEF SitesOf, ToSet
  <2>2. f \in [1 .. Len(edges) -> T]
    BY <1>1 DEF SitesOf, ToSet
  <2>3. \A t \in T : \E i \in 1 .. Len(edges) : f[i] = t
    BY <2>1
  <2> HIDE DEF f, T
  <2> QED BY <2>2, <2>3 DEF Surjection
<1>3. IsFiniteSet(1 .. Len(edges)) /\ Cardinality(1 .. Len(edges)) = Len(edges)
  BY <1>1, FS_Interval
<1> HIDE DEF f, T
<1> QED BY <1>2, <1>3, FS_Surjection DEF T

\* The edges of a walk are of as many sites as there are edges.
LEMMA SitesAtLeast ==
    ASSUME repo \in Repos, depth \in Nat \ {0}, index \subseteq Files, EdgesNearest
    PROVE  /\ IsFiniteSet(CallsWithin(index)) /\ Cardinality(CallsWithin(index)) \in Nat
           /\ Len(edges) \in Nat /\ Len(edges) <= Cardinality(CallsWithin(index))
<1> DEFINE T == CallsWithin(index)
           f == [i \in 1 .. Len(edges) |-> SiteOf(edges[i])]
<1>1. Len(edges) \in Nat /\ DOMAIN edges = 1 .. Len(edges)
  <2>1. edges \in Seq(EdgeSet)
    BY DEF EdgesNearest
  <2> HIDE DEF EdgeSet
  <2> QED BY <2>1
<1>2. IsFiniteSet(T)
  <2>1. IsFiniteSet(Calls(index))
    BY CallsFinite
  <2>2. T \subseteq Calls(index)
    BY DEF CallsWithin
  <2> HIDE DEF T
  <2> QED BY <2>1, <2>2, FS_Subset
<1>3. f \in [1 .. Len(edges) -> T]
  <2>1. \A i \in 1 .. Len(edges) : SiteOf(edges[i]) \in T
    BY <1>1, EdgesWithin DEF SitesOf, ToSet
  <2> HIDE DEF T
  <2> QED BY <2>1
<1>4. ASSUME NEW i \in 1 .. Len(edges), NEW j \in 1 .. Len(edges), f[i] = f[j]
      PROVE  i = j
  <2>1. f[i] = SiteOf(edges[i]) /\ f[j] = SiteOf(edges[j])
    OBVIOUS
  <2> HIDE DEF f
  <2>2. ~(i < j) /\ ~(j < i)
    BY <1>1, <1>4, <2>1 DEF EdgesNearest
  <2> QED BY <1>1, <2>2
<1>5. f \in Injection(1 .. Len(edges), T)
  <2> HIDE DEF f, T
  <2> QED BY <1>3, <1>4 DEF Injection, IsInjective
<1>6. Cardinality(1 .. Len(edges)) = Len(edges)
  <2> HIDE DEF f, T
  <2>1. 1 \in Int /\ Len(edges) \in Int
    BY <1>1
  <2>2. Cardinality(1 .. Len(edges)) = IF 1 > Len(edges) THEN 0 ELSE Len(edges) - 1 + 1
    BY <2>1, FS_Interval
  <2> QED BY <1>1, <2>2
<1> HIDE DEF f, T
<1>7. Len(edges) <= Cardinality(T)
  BY <1>2, <1>5, <1>6, FS_Injection
<1> QED BY <1>1, <1>2, <1>7, FS_CardinalityType DEF T

\* A round reads files of the repository.
LEMMA NamingFiles == ASSUME NEW words PROVE Naming(words) \subseteq Files
  BY DEF Naming

\* More names are written in more files.
LEMMA NamingMore ==
    ASSUME NEW less, NEW more, less \subseteq more
    PROVE  Naming(less) \subseteq Naming(more)
  BY DEF Naming

\* A round for more names finds no fewer calls.
LEMMA MoreCalls ==
    ASSUME repo \in Repos, depth \in Nat \ {0}, NEW less, NEW more, less \subseteq more, NEW n \in Nat,
           Cardinality(CallsWithin(Naming(less))) > n
    PROVE  Cardinality(CallsWithin(Naming(more))) > n
<1> DEFINE L == CallsWithin(Naming(less))
           M == CallsWithin(Naming(more))
<1>1. L \subseteq M
  BY NamingMore, CallsWithinGrow
<1>2. IsFiniteSet(M)
  <2>1. IsFiniteSet(Calls(Naming(more)))
    BY CallsFinite, NamingFiles
  <2>2. M \subseteq Calls(Naming(more))
    BY DEF CallsWithin
  <2> HIDE DEF M
  <2> QED BY <2>1, <2>2, FS_Subset
<1>3. Cardinality(L) > n
  OBVIOUS
<1> HIDE DEF L, M
<1>4. IsFiniteSet(L) /\ Cardinality(L) <= Cardinality(M)
  BY <1>1, <1>2, FS_Subset
<1>5. Cardinality(L) \in Nat /\ Cardinality(M) \in Nat
  BY <1>2, <1>4, FS_CardinalityType
<1> QED BY <1>3, <1>4, <1>5 DEF M

\* A walk that fits on the page is the page.
LEMMA PageWhole ==
    ASSUME NEW S, edges \in Seq(S), offset = 0, limit \in Nat, Len(edges) <= limit
    PROVE  ToSet(Page) = ToSet(edges)
<1>1. Len(edges) \in Nat /\ offset + limit = limit /\ offset + 1 = 1
  OBVIOUS
<1>2. Min({offset + limit, Len(edges)}) = Len(edges)
  <2> DEFINE T == {offset + limit, Len(edges)}
  <2>1. T \subseteq Nat /\ T # {}
    BY <1>1
  <2>2. Min(T) \in T /\ \A y \in T : Min(T) <= y
    <3> HIDE DEF T
    <3> QED BY <2>1, MinIn
  <2> QED BY <1>1, <2>2
<1>3. Page = SubSeq(edges, 1, Len(edges))
  BY <1>1, <1>2 DEF Page
<1>4. SubSeq(edges, 1, Len(edges)) = edges
  OBVIOUS
<1> QED BY <1>3, <1>4

\* What the round of a first page knows when it fits on the page: every call within
\* the depth in its index is an edge, and it scanned for the names of a hop less.
RoundFits ==
    /\ repo \in Repos /\ depth \in Nat \ {0} /\ limit \in Nat /\ round \in 1 .. depth
    /\ Root \in names /\ index = Naming(names)
    /\ offset = 0 /\ Len(edges) <= limit
    /\ EdgesNearest /\ WalkWhole /\ RoundsAhead /\ phase = "traced"

\* That is so when the walk fits on the page.
LEMMA RoundKnows ==
    ASSUME RoundFits
    PROVE  /\ ToSet(Page) = ToSet(edges) /\ SitesOf(ToSet(edges)) = CallsWithin(index)
           /\ Within(Files)[round - 1] \subseteq names
<1>1. edges \in Seq(EdgeSet)
  BY DEF RoundFits, EdgesNearest
<1>2. Len(edges) \in Nat
  <2> HIDE DEF EdgeSet
  <2> QED BY <1>1
<1>3. SitesOf(ToSet(edges)) = CallsWithin(index)
  BY <1>2 DEF RoundFits, WalkWhole
<1>4. ~(Cardinality(CallsWithin(index)) > limit)
  <2>1. Cardinality(CallsWithin(index)) <= Len(edges) /\ IsFiniteSet(CallsWithin(index))
    BY <1>1, <1>3, SitesAtMost
  <2>2. Cardinality(CallsWithin(index)) \in Nat
    BY <2>1, FS_CardinalityType
  <2> QED BY <1>2, <2>1, <2>2 DEF RoundFits
<1>5. Within(Files)[round - 1] \subseteq names
  BY <1>4 DEF RoundFits, RoundsAhead
<1>6. ToSet(Page) = ToSet(edges)
  BY <1>1, PageWhole DEF RoundFits
<1> QED BY <1>3, <1>5, <1>6

\* The names a page grows by.
LEMMA GrownHas ==
    /\ names \subseteq Grown
    /\ \A edge \in ToSet(Page) : Near(edge) \in Grown /\ Far(edge) \in Grown
<1>1. ASSUME NEW edge \in ToSet(Page) PROVE edge.caller \in Grown /\ edge.callee \in Grown
  <2> DEFINE Ends == {{x.caller, x.callee} : x \in ToSet(Page)}
  <2>1. {edge.caller, edge.callee} \in Ends
    OBVIOUS
  <2>2. Grown = names \cup UNION Ends
    BY DEF Grown
  <2> HIDE DEF Ends
  <2> QED BY <2>1, <2>2
<1> QED BY <1>1 DEF Grown, Near, Far

\* Then the names it grows to have those of the next hop.
LEMMA GrownReaches ==
    ASSUME RoundFits, NEW d \in Nat, d < depth, Within(Files)[d] \subseteq names
    PROVE  Within(Files)[d + 1] \subseteq Grown
<1>1. repo \in Repos /\ depth \in Nat \ {0} /\ index = Naming(names)
  BY DEF RoundFits
<1>2. ASSUME NEW site \in Calls(Files), Near(site) \in Within(Files)[d] PROVE Far(site) \in Grown
  <2>1. site \in Calls(index)
    BY <1>1, <1>2, NamedIndexed
  <2>2. Near(site) \in Within(index)[depth - 1]
    <3>1. /\ d \in 0 .. depth /\ depth - 1 \in 0 .. depth /\ d <= depth - 1
          /\ depth \in Nat
      BY <1>1
    <3>2. ASSUME NEW k \in Nat, k < d PROVE Within(Files)[k] \subseteq names
      <4>1. k \in 0 .. depth /\ k <= d
        BY <3>1, <3>2
      <4> QED BY <1>1, <3>1, <4>1, WithinGrows
    <3>3. Within(Files)[d] \subseteq Within(Naming(names))[d]
      <4>1. repo \in Repos /\ depth \in Nat /\ d \in 0 .. depth /\ d \in 0 .. d
        BY <1>1, <3>1
      <4>2. \A k \in 0 .. d : Within(Files)[k] \subseteq Within(Naming(names))[k]
        BY <3>2, <4>1, SameNear
      <4> QED BY <4>1, <4>2
    <3>4. Within(index)[d] \subseteq Within(index)[depth - 1]
      BY <1>1, <3>1, WithinGrows
    <3> QED BY <1>1, <1>2, <3>3, <3>4
  <2>3. site \in SitesOf(ToSet(Page))
    BY <2>1, <2>2, RoundKnows DEF CallsWithin
  <2>4. PICK edge \in ToSet(Page) : SiteOf(edge) = site
    BY <2>3 DEF SitesOf
  <2>5. Far(edge) = Far(site)
    BY <2>4 DEF SiteOf, Far
  <2> QED BY <2>4, <2>5, GrownHas
<1>3. ASSUME NEW name \in Within(Files)[d + 1]
      PROVE  name \in Within(Files)[d]
             \/ \E site \in Calls(Files) : Near(site) \in Within(Files)[d] /\ Far(site) = name
  BY <1>1, WithinFollows
<1> QED BY <1>2, <1>3, GrownHas

\* A trace that needs no other round, on one page, is whole.
LEMMA LastRoundWhole ==
    ASSUME RoundFits, LastRound
    PROVE  SitesOf(ToSet(Page)) = CallsWithin(Files)
<1>1. /\ repo \in Repos /\ depth \in Nat \ {0} /\ index = Naming(names) /\ round \in 1 .. depth
      /\ Root \in names /\ index \subseteq Files
  BY NamingFiles DEF RoundFits
<1>2. Within(Files)[depth - 1] \subseteq names
  <2>1. CASE round = depth
    BY <2>1, RoundKnows
  <2>2. CASE Grown = names
    <3>1. depth - 1 \in 0 .. depth /\ depth \in Nat
      BY <1>1
    <3>2. ASSUME NEW d \in Nat, d < depth - 1, Within(Files)[d] \subseteq names,
                 NEW site \in Calls(Files), Near(site) \in Within(Files)[d]
          PROVE  Far(site) \in names
      <4>1. d < depth
        BY <3>1, <3>2
      <4>2. Within(Files)[d + 1] \subseteq names
        BY <2>2, <3>2, <4>1, GrownReaches
      <4>3. Far(site) \in Within(Files)[d + 1]
        BY <3>1, <3>2, <4>1, WithinFollows
      <4> QED BY <4>2, <4>3
    <3>3. \A d \in 0 .. depth - 1 : Within(Files)[d] \subseteq names
      BY <1>1, <3>1, <3>2, WithinClosed
    <3> QED BY <3>1, <3>3
  <2> QED BY <2>1, <2>2 DEF LastRound, Rounds
<1>3. CallsWithin(index) \subseteq CallsWithin(Files)
  BY <1>1, CallsWithinGrow
<1>4. ASSUME NEW site \in CallsWithin(Files) PROVE site \in CallsWithin(index)
  <2>1. site \in Calls(Files) /\ Near(site) \in Within(Files)[depth - 1]
    BY DEF CallsWithin
  <2>2. site \in Calls(index)
    BY <1>1, <1>2, <2>1, NamedIndexed
  <2>3. depth \in Nat /\ depth - 1 \in 0 .. depth
    BY <1>1
  <2>4. ASSUME NEW k \in Nat, k < depth - 1 PROVE Within(Files)[k] \subseteq names
    <3>1. k \in 0 .. depth /\ k <= depth - 1
      BY <2>3, <2>4
    <3> QED BY <1>2, <2>3, <3>1, WithinGrows
  <2>5. Within(Files)[depth - 1] \subseteq Within(Naming(names))[depth - 1]
    BY <1>1, <2>3, <2>4, SameNear
  <2> QED BY <1>1, <2>1, <2>2, <2>5 DEF CallsWithin
<1> QED BY <1>3, <1>4, RoundKnows

-----------------------------------------------------------------------------
(* Every step. *)

TraceInv ==
    /\ TypeOK /\ WalkInv /\ EdgesInv /\ WalkWhole /\ RoundsAhead /\ NothingGot /\ RoundsConverge

\* What the rounds refer to stays while the question does.
LEMMA KeptFiles ==
    ASSUME Kept
    PROVE  /\ Files' = Files /\ Within(Files)' = Within(Files)
           /\ CallsWithin(Files)' = CallsWithin(Files)
           /\ \A words : Naming(words)' = Naming(words)
           /\ \A files : CallsWithin(files)' = CallsWithin(files)
<1>1. Files' = Files
  BY DEF Files, Kept
<1>2. Within(Files)' = Within(Files)
  BY Zenon, <1>1, WithinKept
<1>3. \A words : Naming(words)' = Naming(words)
  BY <1>1 DEF Naming, Writes, Kept
<1>4. ASSUME NEW files PROVE CallsWithin(files)' = CallsWithin(files)
  <2>1. Calls(files)' = Calls(files) /\ Within(files)' = Within(files)
    BY CallsKept, WithinKept
  <2>2. depth' = depth /\ direction' = direction
    BY DEF Kept
  <2> QED BY <2>1, <2>2 DEF CallsWithin, Near
<1>5. CallsWithin(Files)' = CallsWithin(Files)
  BY Zenon, <1>1, <1>4
<1> QED BY <1>1, <1>2, <1>3, <1>4, <1>5

\* Edges in order are what ShortestFirst says.
LEMMA OrderGives ==
    ASSUME TraceInv
    PROVE  ShortestFirst
<1> SUFFICES ASSUME phase = "traced"
             PROVE  /\ \A i, j \in DOMAIN edges :
                        i < j => edges[i].depth <= edges[j].depth /\ SiteOf(edges[i]) # SiteOf(edges[j])
                    /\ \A i \in DOMAIN edges :
                        edges[i].depth = Min({d \in 1 .. depth : Near(edges[i]) \in Within(index)[d - 1]})
  BY DEF ShortestFirst
<1>1. EdgesNearest
  BY DEF TraceInv, EdgesInv
<1>2. ASSUME NEW i \in DOMAIN edges
      PROVE  edges[i].depth = Min({d \in 1 .. depth : Near(edges[i]) \in Within(index)[d - 1]})
  <2> DEFINE T == {d \in 1 .. depth : Near(edges[i]) \in Within(index)[d - 1]}
             k == edges[i].depth
  <2>1. k \in 1 .. depth /\ k \in T /\ \A d \in Nat : d < k - 1 => Near(edges[i]) \notin Hops[d]
    BY <1>1 DEF EdgesNearest, Hops
  <2>2. \A d \in T : k <= d
    <3> SUFFICES ASSUME NEW d \in T, d < k PROVE FALSE
      BY <2>1
    <3>1. d - 1 \in Nat /\ d - 1 < k - 1 /\ Near(edges[i]) \in Hops[d - 1]
      BY <2>1 DEF Hops
    <3> QED BY <2>1, <3>1
  <2>3. T \subseteq Nat /\ T # {}
    BY <2>1
  <2>4. Min(T) \in T /\ \A y \in T : Min(T) <= y
    <3> HIDE DEF T
    <3> QED BY <2>3, MinIn
  <2>5. k <= Min(T) /\ Min(T) <= k /\ k \in Nat /\ Min(T) \in Nat
    <3> HIDE DEF T, k
    <3> QED BY <2>1, <2>2, <2>3, <2>4
  <2> HIDE DEF T, k
  <2>6. k = Min(T)
    BY <2>5
  <2> QED BY <2>6 DEF T, k
<1> QED BY <1>1, <1>2 DEF EdgesNearest

\* The invariant holds at first.
LEMMA TraceInit == Init => TraceInv
<1> SUFFICES ASSUME Init PROVE TraceInv
  OBVIOUS
<1>1. TypeOK
  BY DEF Init, TypeOK, Phases
<1>2. /\ phase = "asking" /\ got = {}
  BY DEF Init
<1> QED BY <1>1, <1>2 DEF TraceInv, WalkInv, EdgesInv, WalkWhole, RoundsAhead, NothingGot, RoundsConverge

\* What holds of an invariant that a step outside of the walk does not touch.
LEMMA RefuseKeeps == ASSUME TraceInv, Refuse PROVE TraceInv'
<1>1. phase = "asking" /\ phase' = "failed" /\ UNCHANGED <<question, offset, names, round, index, walk, got>>
  BY DEF Refuse
<1>2. TypeOK'
  BY <1>1 DEF TraceInv, TypeOK, Phases, question
<1> QED BY <1>1, <1>2 DEF TraceInv, WalkInv, EdgesInv, WalkWhole, RoundsAhead, NothingGot, RoundsConverge

\* The first round scans for the root, which is all there is within no hop.
LEMMA AskKeeps == ASSUME TraceInv, Ask PROVE TraceInv'
<1>1. /\ phase = "asking" /\ Valid /\ phase' = "scanning" /\ names' = {Root} /\ round' = 1
      /\ UNCHANGED <<question, offset, got>>
  BY DEF Ask
<1>2. depth \in Nat \ {0} /\ limit \in Nat \ {0}
  BY <1>1, TraceAssumption DEF Valid
<1>3. TypeOK'
  BY <1>1, <1>2 DEF TraceInv, TypeOK, Phases, question
<1>4. Within(Files)'[round' - 1] = {Root}
  <2>1. Kept
    BY <1>1 DEF Kept, question
  <2>2. Within(Files)' = Within(Files)
    BY <2>1, KeptFiles
  <2>3. Within(Files)[0] = {Root}
    BY <1>2, WithinUnfolds
  <2> QED BY <1>1, <2>2, <2>3
<1>5. RoundsAhead'
  BY <1>1, <1>4 DEF RoundsAhead
<1> QED BY <1>1, <1>3, <1>5 DEF TraceInv, WalkInv, EdgesInv, WalkWhole, NothingGot, RoundsConverge

\* The walk begins with the root.
LEMMA ScanKeeps == ASSUME TraceInv, Scan PROVE TraceInv'
<1> DEFINE I == Naming(names)
           start == [name |-> Root, depth |-> 0]
<1>1. /\ phase = "scanning" /\ phase' = "tracing" /\ index' = I
      /\ queue' = <<start>> /\ expanded' = {} /\ todo' = {} /\ edges' = <<>>
      /\ UNCHANGED <<question, offset, names, round, here, got>>
  BY DEF Scan, Naming
<1>2. depth \in Nat \ {0}
  BY <1>1 DEF TraceInv, TypeOK
<1>3. Kept
  BY <1>1 DEF Kept, question
<1>4. \A words : Naming(words)' = Naming(words)
  BY <1>3, KeptFiles
<1>5. TypeOK'
  <2>1. index' = Naming(names)'
    BY Zenon, <1>1, <1>4
  <2> QED BY <1>1, <2>1 DEF TraceInv, TypeOK, Phases, question
<1>6. Hops'[0] = {Root}
  <2>1. Within(index)' = Within(I)
    BY Zenon, <1>1, <1>3, WithinKept
  <2> HIDE DEF I
  <2>2. Within(I)[0] = {Root}
    BY <1>2, WithinUnfolds
  <2> QED BY <2>1, <2>2 DEF Hops
<1>7. Level' = 0 /\ depth' = depth
  BY <1>1, <1>3 DEF Level, Kept
<1>8. start \in Entries' /\ start.depth = 0 /\ start.name = Root
  BY DEF Entries, Reach
<1> HIDE DEF start
<1>9. queue' \in Seq(Entries') /\ DOMAIN queue' = {1} /\ queue'[1] = start
  <2> HIDE DEF Entries
  <2> QED BY <1>1, <1>8
<1>10. QueueOrdered'
  BY <1>2, <1>6, <1>7, <1>8, <1>9 DEF QueueOrdered
<1>11. NearerExpanded'
  <2>1. Root \in DueNames'
    BY <1>7, <1>8, <1>9 DEF DueNames
  <2> QED BY <1>6, <1>7, <2>1 DEF NearerExpanded
<1>12. NextQueued' /\ CallsFollowed'
  BY <1>1 DEF NextQueued, CallsFollowed
<1>13. HereNearest'
  BY <1>1 DEF HereNearest
<1>14. EdgesNearest' /\ EdgesBehind'
  <2>1. edges' \in Seq(EdgeSet')
    <3> HIDE DEF EdgeSet
    <3> QED BY <1>1
  <2>2. DOMAIN edges' = {}
    BY <1>1
  <2> QED BY <2>1, <2>2 DEF EdgesNearest, EdgesBehind
<1>15. RoundsAhead'
  <2>1. Within(Files)' = Within(Files) /\ CallsWithin(Naming(names))' = CallsWithin(Naming(names))
    BY Zenon, <1>1, <1>3, KeptFiles
  <2> QED BY <1>1, <2>1 DEF TraceInv, RoundsAhead, question
<1> QED BY <1>1, <1>5, <1>10, <1>11, <1>12, <1>13, <1>14, <1>15
        DEF TraceInv, WalkInv, EdgesInv, WalkWhole, NothingGot, RoundsConverge

\* A step of the walk.
WalkStep ==
    \/ Pop
    \/ \E place \in todo : PassSite(place) \/ Follow(place)
    \/ WalkEnds

\* The steps of a walk keep the invariant.
LEMMA WalkKeeps == ASSUME TraceInv, WalkStep PROVE TraceInv'
<1>1. /\ phase = "tracing" /\ phase' \in {"tracing", "traced"}
      /\ UNCHANGED <<question, offset, names, round, index, got>>
  BY DEF WalkStep, Pop, PassSite, Follow, WalkEnds, walk
<1>2. Kept /\ index' = index
  BY <1>1 DEF Kept, question
<1>3. Walking /\ offset \in Nat /\ limit \in Nat
  BY <1>1 DEF TraceInv, TypeOK, WalkInv, EdgesInv, Walking
<1>4. TypeOK'
  <2>1. Naming(names)' = Naming(names)
    BY Zenon, <1>1, <1>2, KeptFiles
  <2> QED BY <1>1, <2>1 DEF TraceInv, TypeOK, Phases, question
<1>5. RoundsAhead'
  <2>1. Within(Files)' = Within(Files) /\ CallsWithin(Naming(names))' = CallsWithin(Naming(names))
    BY Zenon, <1>1, <1>2, KeptFiles
  <2> QED BY <1>1, <2>1 DEF TraceInv, RoundsAhead, question
<1>6. NothingGot' /\ RoundsConverge'
  BY <1>1 DEF TraceInv, NothingGot, RoundsConverge
<1>7. (phase' = "tracing" /\ Walking')
      \/ (phase' = "traced" /\ EdgesNearest' /\ WalkWhole')
  <2>1. CASE Pop
    <3>1. Walking'
      BY <1>3, <2>1, PopPasses, PopExpands
    <3> QED BY <3>1 DEF Walking
  <2>2. ASSUME NEW place \in todo, PassSite(place) PROVE Walking'
    BY <1>3, <2>2, PassKeeps
  <2>3. ASSUME NEW place \in todo, Follow(place)
        PROVE  (phase' = "tracing" /\ Walking')
               \/ (phase' = "traced" /\ EdgesNearest' /\ WalkWhole')
    <3>1. CASE phase' = "tracing"
      BY <1>3, <2>3, <3>1, FollowKeeps
    <3>2. CASE phase' # "tracing"
      <4>1. phase' = "traced" /\ EdgesNearest' /\ Len(edges') > offset + limit
        BY <1>3, <2>3, <3>2, FollowStops
      <4> QED BY <1>1, <4>1 DEF WalkWhole, question
    <3> QED BY <3>1, <3>2
  <2>4. CASE WalkEnds
    <3>1. phase' = "traced" /\ todo = {} /\ queue = <<>> /\ UNCHANGED walk
      BY <2>4 DEF WalkEnds
    <3>2. SitesOf(ToSet(edges)) = CallsWithin(index)
      BY <1>3, <3>1, WalkedAll
    <3>3. EdgesNearest'
      <4>1. Hops' = Hops /\ EdgeSet' = EdgeSet /\ \A site : Near(site)' = Near(site)
        BY <1>2, KeptIndex
      <4> QED BY <1>2, <1>3, <3>1, <4>1 DEF Walking, EdgesNearest, SiteOf, walk, Kept
    <3>4. CallsWithin(index)' = CallsWithin(index)
      BY Zenon, <1>2, KeptFiles
    <3> QED BY <1>1, <3>1, <3>2, <3>3, <3>4 DEF WalkWhole, SitesOf, SiteOf, walk
  <2> QED BY <2>1, <2>2, <2>3, <2>4 DEF WalkStep, Walking
<1>8. WalkInv' /\ EdgesInv' /\ WalkWhole'
  BY <1>7 DEF WalkInv, EdgesInv, WalkWhole, Walking
<1> QED BY <1>4, <1>5, <1>6, <1>8 DEF TraceInv

\* Another round scans for every name of one more hop, or has too many calls.
LEMMA WidenKeeps == ASSUME TraceInv, Widen PROVE TraceInv'
<1>1. /\ phase = "traced" /\ ~LastRound /\ phase' = "scanning" /\ names' = Grown /\ round' = round + 1
      /\ UNCHANGED <<question, offset, index, got>>
  BY DEF Widen
<1>2. /\ depth \in Nat \ {0} /\ limit \in Nat \ {0} /\ round \in 1 .. depth /\ Root \in names
      /\ repo \in Repos /\ index = Naming(names) /\ offset \in Nat
  BY <1>1 DEF TraceInv, TypeOK
<1>3. round < depth
  BY <1>1, <1>2 DEF LastRound, Rounds
<1>4. Root \in names' /\ names \subseteq names'
  BY <1>1, <1>2, GrownHas
<1>5. TypeOK'
  BY <1>1, <1>2, <1>3, <1>4 DEF TraceInv, TypeOK, Phases, question
<1>6. EdgesNearest
  BY <1>1 DEF TraceInv, EdgesInv
<1>7. Kept
  BY <1>1 DEF Kept, question
<1>8. RoundsAhead'
  <2> SUFFICES ASSUME offset = 0
               PROVE  \/ Within(Files)[round] \subseteq Grown
                      \/ Cardinality(CallsWithin(Naming(Grown))) > limit
    <3>1. Within(Files)' = Within(Files)
      BY <1>7, KeptFiles
    <3>2. CallsWithin(Naming(names))' = CallsWithin(Naming(Grown))
      BY Zenon, <1>1, <1>7, KeptFiles
    <3>3. limit' = limit /\ offset' = offset /\ round' - 1 = round
      BY <1>1, <1>2 DEF question
    <3> QED BY <1>1, <3>1, <3>2, <3>3 DEF RoundsAhead
  <2>1. edges \in Seq(EdgeSet) /\ Len(edges) \in Nat
    <3> HIDE DEF EdgeSet
    <3> QED BY <1>6 DEF EdgesNearest
  <2>2. CASE Len(edges) <= limit
    <3>1. RoundFits
      BY <1>1, <1>2, <1>6, <2>2 DEF RoundFits, TraceInv
    <3>2. Within(Files)[round - 1] \subseteq names
      BY <3>1, RoundKnows
    <3>3. round - 1 \in Nat /\ round - 1 < depth /\ (round - 1) + 1 = round
      BY <1>2
    <3>4. Within(Files)[(round - 1) + 1] \subseteq Grown
      BY <3>1, <3>2, <3>3, GrownReaches
    <3> QED BY <3>3, <3>4
  <2>3. CASE Len(edges) > limit
    <3>1. /\ Cardinality(CallsWithin(index)) \in Nat /\ Len(edges) <= Cardinality(CallsWithin(index))
      BY <1>2, <1>6, NamingFiles, SitesAtLeast
    <3>2. Cardinality(CallsWithin(Naming(names))) > limit
      BY <1>2, <2>1, <2>3, <3>1
    <3> QED BY <1>2, <3>2, GrownHas, MoreCalls
  <2> QED BY <1>2, <2>1, <2>2, <2>3
<1>9. NothingGot'
  BY <1>1 DEF TraceInv, NothingGot
<1> QED BY <1>1, <1>5, <1>8, <1>9 DEF TraceInv, WalkInv, EdgesInv, WalkWhole, RoundsConverge

\* The reply to a first page that is the last one is the whole trace.
LEMMA ReplyKeeps == ASSUME TraceInv, Reply PROVE TraceInv'
<1>1. /\ phase = "traced" /\ LastRound /\ got' = got \cup ToSet(Page)
      /\ HasMore => phase' = "asking" /\ offset' = offset + limit
      /\ ~HasMore => phase' = "done" /\ offset' = offset
      /\ UNCHANGED <<question, names, round, index, walk>>
  BY DEF Reply, NextOffset
<1>2. /\ depth \in Nat \ {0} /\ limit \in Nat \ {0} /\ round \in 1 .. depth /\ Root \in names
      /\ repo \in Repos /\ index = Naming(names) /\ offset \in Nat
  BY <1>1 DEF TraceInv, TypeOK
<1>3. phase' \in {"asking", "done"} /\ offset' \in Nat
  BY <1>1, <1>2
<1>4. TypeOK'
  BY <1>1, <1>3 DEF TraceInv, TypeOK, Phases, question
<1>5. NothingGot'
  BY <1>1, <1>2 DEF NothingGot
<1>6. RoundsConverge'
  <2> SUFFICES ASSUME phase' = "done", offset' = 0 PROVE SitesOf(got)' = CallsWithin(Files)'
    BY DEF RoundsConverge
  <2>1. ~HasMore /\ offset = 0
    BY <1>1
  <2>2. EdgesNearest
    BY <1>1 DEF TraceInv, EdgesInv
  <2>3. Len(edges) \in Nat
    <3>1. edges \in Seq(EdgeSet)
      BY <2>2 DEF EdgesNearest
    <3> HIDE DEF EdgeSet
    <3> QED BY <3>1
  <2>4. Len(edges) <= limit
    BY <1>2, <2>1, <2>3 DEF HasMore
  <2>5. RoundFits
    BY <1>1, <1>2, <2>1, <2>2, <2>4 DEF RoundFits, TraceInv
  <2>6. SitesOf(ToSet(Page)) = CallsWithin(Files)
    BY <1>1, <2>5, LastRoundWhole
  <2>7. got = {}
    BY <1>1, <2>1 DEF TraceInv, NothingGot
  <2>8. got' = ToSet(Page)
    BY <1>1, <2>7
  <2>9. SitesOf(got)' = SitesOf(ToSet(Page))
    BY <2>8 DEF SitesOf, SiteOf
  <2>10. CallsWithin(Files)' = CallsWithin(Files)
    <3>1. Kept
      BY <1>1 DEF Kept, question
    <3> QED BY <3>1, KeptFiles
  <2> QED BY <2>6, <2>9, <2>10
<1> QED BY <1>3, <1>4, <1>5, <1>6 DEF TraceInv, WalkInv, EdgesInv, WalkWhole, RoundsAhead

\* Nothing changes.
LEMMA StutterKeeps == ASSUME TraceInv, UNCHANGED vars PROVE TraceInv'
<1>1. UNCHANGED <<question, phase, offset, names, round, index, queue, expanded, here, todo, edges, got>>
  BY DEF vars, walk
<1>2. Kept /\ index' = index
  BY <1>1 DEF Kept, question
<1>3. /\ Calls(index)' = Calls(index) /\ Hops' = Hops
      /\ Entries' = Entries /\ EdgeSet' = EdgeSet
      /\ \A site : Near(site)' = Near(site) /\ Far(site)' = Far(site)
  BY <1>2, KeptIndex
<1>4. /\ Within(Files)' = Within(Files) /\ CallsWithin(Naming(names))' = CallsWithin(Naming(names))
      /\ Naming(names)' = Naming(names) /\ CallsWithin(index)' = CallsWithin(index)
      /\ CallsWithin(Files)' = CallsWithin(Files)
  BY Zenon, <1>1, <1>2, KeptFiles
<1>5. TypeOK'
  BY <1>1, <1>4 DEF TraceInv, TypeOK, Phases, question
<1>6. EdgesNearest => EdgesNearest'
  BY <1>1, <1>2, <1>3 DEF EdgesNearest, SiteOf, Kept
<1>7. WalkInv'
  <2>1. CASE phase # "tracing"
    BY <1>1, <2>1 DEF WalkInv
  <2>2. CASE phase = "tracing"
    <3>1. Level' = Level /\ DueNames' = DueNames /\ Queued' = Queued
      BY <1>1 DEF Level, DueNames, Queued
    <3>2. \A place : SiteAt(place)' = SiteAt(place)
      BY <1>2 DEF SiteAt, Kept
    <3>3. QueueOrdered' /\ NearerExpanded' /\ NextQueued'
      BY <1>1, <1>2, <1>3, <2>2, <3>1, <3>2 DEF TraceInv, WalkInv, QueueOrdered, NearerExpanded, NextQueued, Kept
    <3>4. References(here.name)' = References(here.name)
      BY <1>1, <1>2, <1>3 DEF References, Places, SiteAt, Kept
    <3>5. HereNearest'
      BY <1>1, <1>2, <1>3, <2>2, <3>4 DEF TraceInv, WalkInv, HereNearest, Kept
    <3>6. EdgesBehind' /\ CallsFollowed'
      BY <1>1, <1>3, <2>2, <3>1, <3>2 DEF TraceInv, WalkInv, EdgesBehind, CallsFollowed, SiteOf
    <3> QED BY <3>3, <3>5, <3>6 DEF WalkInv
  <2> QED BY <2>1, <2>2
<1>8. EdgesInv'
  BY <1>1, <1>6 DEF TraceInv, EdgesInv
<1>9. WalkWhole' /\ RoundsAhead' /\ NothingGot' /\ RoundsConverge'
  BY <1>1, <1>4 DEF TraceInv, WalkWhole, RoundsAhead, NothingGot, RoundsConverge, SitesOf, SiteOf, question
<1> QED BY <1>5, <1>7, <1>8, <1>9 DEF TraceInv

\* Every step keeps it.
LEMMA TraceStep == TraceInv /\ [Next]_vars => TraceInv'
<1> SUFFICES ASSUME TraceInv, [Next]_vars PROVE TraceInv'
  OBVIOUS
<1>1. CASE Refuse
  BY <1>1, RefuseKeeps
<1>2. CASE Ask
  BY <1>2, AskKeeps
<1>3. CASE Scan
  BY <1>3, ScanKeeps
<1>4. CASE WalkStep
  BY <1>4, WalkKeeps
<1>5. CASE Widen
  BY <1>5, WidenKeeps
<1>6. CASE Reply
  BY <1>6, ReplyKeeps
<1>7. CASE UNCHANGED vars
  BY <1>7, StutterKeeps
<1> QED BY <1>1, <1>2, <1>3, <1>4, <1>5, <1>6, <1>7 DEF Next, Step, WalkStep

\* The invariant holds throughout.
THEOREM TraceCorrectness == Spec => []TraceInv
<1> QED BY TraceInit, TraceStep, PTL DEF Spec

\* The edges of every walk come nearest first, at their distance, and none twice:
\* trace_edges, on every repository and at every depth.
THEOREM Shortest == Spec => []ShortestFirst
<1>1. TraceInv => ShortestFirst
  BY OrderGives
<1> QED BY <1>1, TraceCorrectness, PTL

\* A trace that fits on one page is that of the whole repository, although each
\* round reads only the files that name what was found before it.
THEOREM Convergence == Spec => []RoundsConverge
<1>1. TraceInv => RoundsConverge
  BY DEF TraceInv
<1> QED BY <1>1, TraceCorrectness, PTL
=============================================================================
