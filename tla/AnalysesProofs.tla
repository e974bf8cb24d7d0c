--------------------------- MODULE AnalysesProofs ----------------------------
(***************************************************************************)
(* What the offline programs promise, for every log, run, history, suite   *)
(* and bound.                                                              *)
(*                                                                         *)
(* ToolLog: the analysis blames no call on one that had not answered       *)
(* before it began, because the ends that lie above a start in the log     *)
(* were there when the call began; and it counts what the servers did,     *)
(* because a log without a line that cannot be read has the start of every *)
(* call.  GradedRun: the change records lead back to the first scores,     *)
(* because the regrades come after all trials.  MinedSuite: reading        *)
(* upwards from a line finds its block, because the bound is the least     *)
(* indentation of the lines read; so what is mined compiles and a caller   *)
(* question that compiles has all callers.  LocbenchSuite: what is shipped *)
(* stands on its trees, because each question was built of its row.        *)
(* SuiteGates: a question the crawl gave up on needs a structural tool,    *)
(* because what an answer showed stays harvested.                          *)
(***************************************************************************)
EXTENDS ToolLog, GradedRun, MinedSuite, LocbenchSuite, SuiteGates, FunctionTheorems, FiniteSetTheorems, SequenceTheorems,
        WellFoundedInduction, TLAPS

-----------------------------------------------------------------------------
(* Numbers, finite sets and recursion. *)

\* A set of numbers that is not empty has a least one.
LEMMA Least ==
    ASSUME NEW T, T \subseteq Nat, T # {}
    PROVE  \E x \in T : \A y \in T : x <= y
<1> DEFINE Less == {p \in Nat \X Nat : p[1] < p[2]}
<1>1. IsWellFoundedOn(Less, Nat)
  BY NatLessThanWellFounded DEF OpToRel
<1> HIDE DEF Less
<1>2. PICK x \in T : \A y \in T : ~ (<<y, x>> \in Less)
  BY <1>1, WFMin
<1>3. ASSUME NEW y \in T PROVE x <= y
  <2>1. x \in Nat /\ y \in Nat
    OBVIOUS
  <2>2. CASE y < x
    <3>1. <<y, x>> \in Less
      BY <2>1, <2>2 DEF Less
    <3> QED BY <1>2, <3>1
  <2> QED BY <2>1, <2>2
<1> QED BY <1>3

\* One that has 0, and with every number the next one, has them all.
LEMMA Induction ==
    ASSUME NEW T, T \subseteq Nat, 0 \in T, \A n \in T : n + 1 \in T
    PROVE  T = Nat
<1> SUFFICES ASSUME T # Nat PROVE FALSE
  OBVIOUS
<1>1. PICK x \in Nat \ T : \A y \in Nat \ T : x <= y
  BY Least
<1>2. x # 0 /\ x - 1 \in Nat
  BY <1>1
<1>3. x - 1 \in T
  BY <1>1, <1>2
<1> QED BY <1>1, <1>2, <1>3

\* Min of a set of numbers that is not empty is its least element.
LEMMA MinIn ==
    ASSUME NEW T, T \subseteq Nat, T # {}
    PROVE  Min(T) \in T /\ \A y \in T : Min(T) <= y
  BY Least DEF Min

\* A finite set of numbers that is not empty has a greatest one.
LEMMA MaxIn ==
    ASSUME NEW T, T \subseteq Nat, T # {}, IsFiniteSet(T)
    PROVE  Max(T) \in T /\ \A y \in T : y <= Max(T)
<1> DEFINE Highest(U) == \E x \in U : \A y \in U : y <= x
           A == {n \in Nat : \A U \in SUBSET T : Cardinality(U) = n + 1 => Highest(U)}
<1>1. \A U \in SUBSET T : IsFiniteSet(U) /\ Cardinality(U) \in Nat
  BY FS_Subset, FS_CardinalityType
<1>2. 0 \in A
  <2>1. ASSUME NEW U \in SUBSET T, Cardinality(U) = 1 PROVE Highest(U)
    <3>1. PICK x : U = {x}
      BY <1>1, <2>1, FS_Singleton
    <3> QED BY <3>1
  <2> QED BY <2>1
<1>3. ASSUME NEW n \in A PROVE n + 1 \in A
  <2>1. ASSUME NEW U \in SUBSET T, Cardinality(U) = (n + 1) + 1 PROVE Highest(U)
    <3>1. n \in Nat
      OBVIOUS
    <3>2. PICK x : x \in U
      <4>1. U # {}
        BY <2>1, <3>1, FS_EmptySet
      <4> QED BY <4>1
    <3>3. Cardinality(U \ {x}) = n + 1
      BY <1>1, <2>1, <3>1, <3>2, FS_RemoveElement
    <3>4. PICK z \in U \ {x} : \A y \in U \ {x} : y <= z
      BY <3>3
    <3>5. x \in Nat /\ z \in Nat
      BY <3>2
    <3>6. CASE x <= z
      BY <3>4, <3>6
    <3>7. CASE z < x
      <4>1. \A y \in U : y <= x
        BY <3>4, <3>5, <3>7
      <4> QED BY <3>2, <4>1
    <3> QED BY <3>5, <3>6, <3>7
  <2> HIDE DEF Highest
  <2> QED BY <2>1
<1>4. A = Nat
  <2>1. A \subseteq Nat
    OBVIOUS
  <2> HIDE DEF A
  <2> QED BY <1>2, <1>3, <2>1, Induction
<1>5. Highest(T)
  <2>1. Cardinality(T) \in Nat \ {0}
    BY <1>1, FS_EmptySet
  <2>2. Cardinality(T) - 1 \in A
    BY <1>4, <2>1
  <2>3. Cardinality(T) = (Cardinality(T) - 1) + 1
    BY <2>1
  <2> HIDE DEF Highest
  <2> QED BY <2>2, <2>3
<1> HIDE DEF A
<1> QED BY <1>5 DEF Max

\* A finite function has finitely many values.
LEMMA ImageFinite ==
    ASSUME NEW f, IsFiniteSet(DOMAIN f)
    PROVE  IsFiniteSet({f[x] : x \in DOMAIN f})
<1> DEFINE T == {f[x] : x \in DOMAIN f}
           g == [x \in DOMAIN f |-> f[x]]
<1>1. g \in Surjection(DOMAIN f, T)
  BY Fun_IsSurj
<1> QED
  BY <1>1, FS_Surjection

Follows(f, N, base, step) == f[0] = base /\ \A n \in 1 .. N : f[n] = step[n][f[n - 1]]

\* A recursion on numbers has a solution.
LEMMA Recursion ==
    ASSUME NEW N \in Nat, NEW A, NEW base \in A, NEW step \in [1 .. N -> [A -> A]]
    PROVE  \E f \in [0 .. N -> A] : Follows(f, N, base, step)
<1> DEFINE Solves(f, m) == f[0] = base /\ \A n \in 1 .. m : f[n] = step[n][f[n - 1]]
           Solvable == {m \in Nat : m <= N => \E f \in [0 .. m -> A] : Solves(f, m)}
<1>1. 0 \in Solvable
  <2> DEFINE g == [n \in 0 .. 0 |-> base]
  <2>1. g \in [0 .. 0 -> A] /\ Solves(g, 0)
    OBVIOUS
  <2> HIDE DEF g, Solves
  <2> QED BY <2>1
<1>2. ASSUME NEW m \in Solvable PROVE m + 1 \in Solvable
  <2> SUFFICES ASSUME m + 1 <= N PROVE \E f \in [0 .. m + 1 -> A] : Solves(f, m + 1)
    OBVIOUS
  <2>1. PICK g \in [0 .. m -> A] : Solves(g, m)
    OBVIOUS
  <2> DEFINE h == [n \in 0 .. m + 1 |-> IF n <= m THEN g[n] ELSE step[m + 1][g[m]]]
  <2>2. step[m + 1][g[m]] \in A
    OBVIOUS
  <2>3. h \in [0 .. m + 1 -> A]
    BY <2>2
  <2>4. h[m + 1] = step[m + 1][g[m]] /\ \A n \in 0 .. m : h[n] = g[n]
    OBVIOUS
  <2> HIDE DEF h
  <2>5. Solves(h, m + 1)
    BY <2>1, <2>4
  <2> HIDE DEF Solves
  <2> QED BY <2>3, <2>5
<1>3. Solvable = Nat
  <2>1. Solvable \subseteq Nat
    OBVIOUS
  <2> HIDE DEF Solvable
  <2> QED BY <1>1, <1>2, <2>1, Induction
<1> QED BY <1>3 DEF Follows

\* A sequence is one over its own elements.
LEMMA OwnElements ==
    ASSUME NEW S, NEW s \in Seq(S)
    PROVE  /\ s \in Seq({s[i] : i \in DOMAIN s})
           /\ s \in Seq(ToSet(s))
<1>1. s \in Seq({s[i] : i \in DOMAIN s})
  OBVIOUS
<1>2. s \in Seq(ToSet(s))
  BY DEF ToSet
<1> QED BY <1>1, <1>2

-----------------------------------------------------------------------------
(* covered: the scan says yes only when every line is among the earlier ones. *)

Interval == STRING \X Nat \X Nat

\* A line of an interval is in one of the earlier intervals.
InEarlier(interval, previous, line) ==
    \E o \in previous : o[1] = interval[1] /\ o[2] <= line /\ line <= o[3]

\* Every line of an interval the scan calls covered lies in one of the earlier ones.
LEMMA CoveredSound ==
    ASSUME NEW interval \in Interval, NEW previous \in SUBSET Interval, IsFiniteSet(previous),
           Covered(interval, previous), NEW line \in interval[2] .. interval[3]
    PROVE  InEarlier(interval, previous, line)
<1> DEFINE N == interval[3]
           Starting(k) == {o \in previous : o[1] = interval[1] /\ o[2] = k}
           Ends(k, p) == {p} \cup {o[3] + 1 : o \in Starting(k)}
           Body(f, k) == IF k = 0 THEN interval[2]
                         ELSE IF k > f[k - 1] THEN f[k - 1] ELSE Max(Ends(k, f[k - 1]))
           step == [k \in 1 .. N |-> [p \in Nat |-> IF k > p THEN p ELSE Max(Ends(k, p))]]
<1>1. N \in Nat /\ interval[2] \in Nat
  BY DEF Interval
<1>2. ASSUME NEW k \in 1 .. N, NEW p \in Nat
      PROVE  /\ Ends(k, p) \subseteq Nat
             /\ Max(Ends(k, p)) \in Ends(k, p)
             /\ \A e \in Ends(k, p) : e <= Max(Ends(k, p))
  <2>1. Ends(k, p) \subseteq Nat
    BY <1>2 DEF Interval
  <2>2. IsFiniteSet(Starting(k))
    BY FS_Subset
  <2> DEFINE g == [o \in Starting(k) |-> o[3] + 1]
  <2>3. IsFiniteSet({g[o] : o \in DOMAIN g})
    <3>1. DOMAIN g = Starting(k)
      OBVIOUS
    <3> HIDE DEF g, Starting
    <3> QED BY <2>2, <3>1, ImageFinite
  <2>4. {g[o] : o \in DOMAIN g} = {o[3] + 1 : o \in Starting(k)}
    OBVIOUS
  <2> HIDE DEF g
  <2>5. IsFiniteSet(Ends(k, p))
    BY <2>3, <2>4, FS_Singleton, FS_Union
  <2>6. Ends(k, p) # {}
    OBVIOUS
  <2> HIDE DEF Ends
  <2> QED BY <2>1, <2>5, <2>6, MaxIn
<1>3. step \in [1 .. N -> [Nat -> Nat]]
  <2>1. ASSUME NEW k \in 1 .. N, NEW p \in Nat PROVE Max(Ends(k, p)) \in Nat
    <3> HIDE DEF Ends
    <3> QED BY <1>2
  <2> HIDE DEF Ends
  <2> QED BY <2>1
<1>4. PICK f \in [0 .. N -> Nat] : Follows(f, N, interval[2], step)
  <2> HIDE DEF step, N
  <2> QED BY <1>1, <1>3, Recursion
<1>5. \A k \in 0 .. N : f[k] = Body(f, k)
  <2>1. f[0] = interval[2]
    BY <1>4 DEF Follows
  <2>2. ASSUME NEW k \in 1 .. N PROVE f[k] = Body(f, k)
    <3>1. k - 1 \in 0 .. N
      BY <1>1
    <3>2. f[k - 1] \in Nat
      BY <1>4, <3>1
    <3>3. f[k] = step[k][f[k - 1]]
      BY <1>4 DEF Follows
    <3> HIDE DEF Ends
    <3> QED BY <3>2, <3>3
  <2> HIDE DEF Ends
  <2> QED BY <1>1, <2>1, <2>2
<1>6. f = [k \in 0 .. N |-> Body(f, k)]
  <2>1. f = [k \in 0 .. N |-> f[k]]
    OBVIOUS
  <2> HIDE DEF Body
  <2> QED BY <1>5, <2>1
<1> DEFINE P == CHOOSE g : g = [k \in 0 .. N |-> Body(g, k)]
<1>7. P[N] > N
  BY DEF Covered
<1>8. P = [k \in 0 .. N |-> Body(P, k)]
  <2> HIDE DEF Body, N
  <2> QED BY <1>6
<1> HIDE DEF P
<1>9. P[0] = interval[2]
  BY <1>1, <1>8
<1>10. ASSUME NEW k \in 1 .. N
       PROVE  P[k] = IF k > P[k - 1] THEN P[k - 1] ELSE Max(Ends(k, P[k - 1]))
  <2>1. k \in 0 .. N /\ k # 0
    BY <1>1
  <2>2. P[k] = Body(P, k)
    <3> HIDE DEF Body, N
    <3> QED BY <1>8, <2>1
  <2> HIDE DEF Ends
  <2> QED BY <2>1, <2>2
<1> HIDE DEF Ends
<1> DEFINE Met(k) == /\ P[k] \in Nat
                     /\ \A l \in Nat : interval[2] <= l /\ l < P[k] => InEarlier(interval, previous, l)
           T == {k \in Nat : k <= N => Met(k)}
<1>11. 0 \in T
  BY <1>1, <1>9
<1>12. ASSUME NEW k \in T PROVE k + 1 \in T
  <2> SUFFICES ASSUME k + 1 <= N PROVE Met(k + 1)
    OBVIOUS
  <2>1. k \in Nat /\ Met(k) /\ k + 1 \in 1 .. N /\ (k + 1) - 1 = k
    BY <1>1
  <2>2. P[k + 1] = IF k + 1 > P[k] THEN P[k] ELSE Max(Ends(k + 1, P[k]))
    BY <1>10, <2>1
  <2>3. CASE k + 1 > P[k]
    BY <2>1, <2>2, <2>3
  <2>4. CASE ~(k + 1 > P[k])
    <3>1. P[k + 1] = Max(Ends(k + 1, P[k])) /\ k + 1 <= P[k] /\ P[k] \in Nat
      BY <2>1, <2>2, <2>4
    <3>2. P[k + 1] \in Ends(k + 1, P[k]) /\ Ends(k + 1, P[k]) \subseteq Nat
      BY <1>2, <2>1, <3>1
    <3>3. CASE P[k + 1] = P[k]
      BY <2>1, <3>3
    <3>4. CASE P[k + 1] # P[k]
      <4>1. PICK o \in previous : o[1] = interval[1] /\ o[2] = k + 1 /\ P[k + 1] = o[3] + 1
        BY <3>2, <3>4 DEF Ends
      <4>2. o[3] \in Nat
        BY DEF Interval
      <4>3. ASSUME NEW l \in Nat, interval[2] <= l, l < P[k + 1]
            PROVE  InEarlier(interval, previous, l)
        <5>1. CASE l < P[k]
          BY <2>1, <4>3, <5>1
        <5>2. CASE ~(l < P[k])
          <6>1. o[2] <= l /\ l <= o[3]
            BY <2>1, <3>1, <4>1, <4>2, <4>3, <5>2
          <6> QED BY <4>1, <6>1 DEF InEarlier
        <5> QED BY <5>1, <5>2
      <4> QED BY <3>2, <4>3
    <3> QED BY <3>3, <3>4
  <2> QED BY <2>3, <2>4
<1>13. T = Nat
  <2>1. T \subseteq Nat
    OBVIOUS
  <2> HIDE DEF T
  <2> QED BY <1>11, <1>12, <2>1, Induction
<1>14. Met(N)
  BY <1>1, <1>13
<1>15. line \in Nat /\ interval[2] <= line /\ line < P[N]
  BY <1>1, <1>7, <1>14
<1> QED BY <1>14, <1>15

-----------------------------------------------------------------------------
(* ToolLog: the inductive invariant. *)

LogLine == {Torn} \cup [event : {"tool_start", "tool_end"}, session : Nat, sequence : Nat,
                        request : Requests, outcome : Outcomes \cup {Dropped, NoOutcome}]
Tools == Advanced \cup LowLevel

LogTypeOK ==
    /\ lines \in Seq(LogLine) /\ cut \in BOOLEAN
    /\ process \in Nat /\ sequence \in Nat
    /\ DOMAIN serving \subseteq 1 .. sequence
    /\ \A n \in DOMAIN serving : serving[n] \in [request : Requests, begun : BOOLEAN]

KeyOf(i) == <<lines[i].session, lines[i].sequence>>
Starts(i) == lines[i].event = "tool_start"
Ends(i) == lines[i].event = "tool_end"

\* A line without its end is the last and cannot be read.
CutIsTorn == cut => lines # <<>> /\ lines[Len(lines)] = Torn

\* A start line is of a call that began, in this process or an earlier one, and has
\* its request.
StartsServed ==
    \A i \in DOMAIN lines : Starts(i) =>
        /\ KeyOf(i) \in DOMAIN served /\ KeyOf(i) \in DOMAIN known
        /\ served[KeyOf(i)] = lines[i].request
        /\ lines[i].session <= process
        /\ lines[i].session = process =>
             /\ lines[i].sequence <= sequence
             /\ lines[i].sequence \in DOMAIN serving => serving[lines[i].sequence].begun

\* A call that began has a start line, or some line was torn.
ServedShown ==
    \A c \in DOMAIN served : \/ \E i \in DOMAIN lines : Starts(i) /\ KeyOf(i) = c
                             \/ \E i \in DOMAIN lines : lines[i] = Torn

\* The calls of this process that began have numbers that were given out, and those
\* in flight their own request.
ServedNumbered ==
    \A c \in DOMAIN served :
        /\ c[1] \in Nat /\ c[1] <= process
        /\ c[1] = process => c[2] \in 1 .. sequence
        /\ c[1] = process /\ c[2] \in DOMAIN serving => served[c] = serving[c[2]].request

\* What ended on an earlier line than a call began was known when it began.
EndsKnown ==
    \A j, i \in DOMAIN lines : j < i /\ Ends(j) /\ Starts(i) => KeyOf(j) \in known[KeyOf(i)]

\* An eligible trial counts the calls that began.
CountsTrue ==
    \A i \in DOMAIN archive :
        /\ \A t \in Tools : archive[i].counts[t] \in Nat
        /\ archive[i].eligible => \A t \in Tools : archive[i].counts[t] = archive[i].calls[t]

LogInv ==
    /\ LogTypeOK /\ CutIsTorn /\ StartsServed /\ ServedShown /\ ServedNumbered /\ EndsKnown
    /\ archive \in Seq({archive[i] : i \in DOMAIN archive}) /\ CountsTrue

-----------------------------------------------------------------------------
(* The log and the tables of calls. *)

\* The fields of a start and of an end.
LEMMA LineFacts ==
    ASSUME NEW l \in LogLine, l.event \in {"tool_start", "tool_end"}
    PROVE  /\ l.session \in Nat /\ l.sequence \in Nat /\ l.request \in Requests
           /\ l.outcome \in Outcomes \cup {Dropped, NoOutcome}
           /\ l # Torn
<1>1. Torn.event = "torn"
  BY DEF Torn
<1> QED BY <1>1 DEF LogLine

\* What Append adds and what it keeps.
LEMMA AppendFacts ==
    ASSUME NEW S, NEW s \in Seq(S), NEW e \in S
    PROVE  /\ Append(s, e) \in Seq(S)
           /\ DOMAIN Append(s, e) = DOMAIN s \cup {Len(s) + 1}
           /\ Append(s, e)[Len(s) + 1] = e
           /\ \A j \in DOMAIN s : Append(s, e)[j] = s[j] /\ j < Len(s) + 1
  OBVIOUS

\* A sequence without its last element and with it again is the same sequence.
LEMMA FrontAgain ==
    ASSUME NEW S, NEW s \in Seq(S), s # <<>>, NEW e \in S, s[Len(s)] = e
    PROVE  Front(s) \o <<e>> = s
<1>1. Front(s) = SubSeq(s, 1, Len(s) - 1)
  BY DEF Front
<1> QED BY <1>1

\* The log is as it was, and one line more, or one line that cannot be read.
Grown(line) ==
    /\ lines' \in Seq(LogLine)
    /\ \A i \in DOMAIN lines : i \in DOMAIN lines' /\ lines'[i] = lines[i]
    /\ \A i \in DOMAIN lines' \ DOMAIN lines : lines'[i] = line /\ \A j \in DOMAIN lines : j < i
    /\ \A i, j \in DOMAIN lines' \ DOMAIN lines : i = j
    /\ \E i \in DOMAIN lines' : lines'[i] = line \/ lines'[i] = Torn

\* A line that is appended adds one line to the log.
LEMMA AppendGrows ==
    ASSUME lines \in Seq(LogLine), NEW l \in LogLine, lines' = Append(lines, l)
    PROVE  Grown(l)
<1> DEFINE S == LogLine
<1>1. lines \in Seq(S) /\ l \in S
  OBVIOUS
<1> HIDE DEF S
<1>2. /\ Append(lines, l) \in Seq(S)
      /\ DOMAIN Append(lines, l) = DOMAIN lines \cup {Len(lines) + 1}
      /\ Append(lines, l)[Len(lines) + 1] = l
      /\ \A j \in DOMAIN lines : Append(lines, l)[j] = lines[j] /\ j < Len(lines) + 1
  BY <1>1, AppendFacts
<1>3. lines' \in Seq(LogLine)
  BY <1>2 DEF S
<1> QED BY <1>2, <1>3 DEF Grown

\* So does one that may be swallowed by a cut line, or else the log stays.
LEMMA AppendedGrows ==
    ASSUME lines \in Seq(LogLine), CutIsTorn, cut \in BOOLEAN, NEW l \in LogLine, lines' = Appended(l)
    PROVE  Grown(l)
<1>1. CASE cut
  <2>1. lines # <<>> /\ lines[Len(lines)] = Torn /\ lines' = Front(lines) \o <<Torn>>
    BY <1>1 DEF CutIsTorn, Appended
  <2>2. Torn \in LogLine
    BY DEF LogLine
  <2>3. lines' = lines
    <3> DEFINE S == LogLine
    <3>1. lines \in Seq(S) /\ Torn \in S
      BY <2>2
    <3> HIDE DEF S
    <3> QED BY <2>1, <3>1, FrontAgain
  <2>4. Len(lines) \in DOMAIN lines
    <3> DEFINE S == LogLine
    <3>1. lines \in Seq(S)
      OBVIOUS
    <3> HIDE DEF S
    <3> QED BY <2>1, <3>1
  <2>5. \E i \in DOMAIN lines' : lines'[i] = Torn
    BY <2>1, <2>3, <2>4
  <2>6. lines' \in Seq(LogLine)
    BY <2>3
  <2> HIDE DEF CutIsTorn
  <2> QED BY <2>3, <2>5, <2>6, Zenon DEF Grown
<1>2. CASE ~cut
  BY <1>2, AppendGrows DEF Appended
<1> QED BY <1>1, <1>2

-----------------------------------------------------------------------------
\* The invariant holds of an empty log.
LEMMA LogStart == LogInit => LogInv
<1> SUFFICES ASSUME LogInit PROVE LogInv
  OBVIOUS
<1>1. /\ lines = <<>> /\ cut = FALSE /\ process = 1 /\ sequence = 0
      /\ serving = <<>> /\ served = <<>> /\ known = <<>> /\ archive = <<>>
  BY DEF LogInit, FreshLog
<1>2. DOMAIN lines = {} /\ DOMAIN serving = {} /\ DOMAIN served = {} /\ DOMAIN archive = {}
  BY <1>1
<1>3. LogTypeOK
  <2> DEFINE S == LogLine
  <2>1. lines \in Seq(S)
    BY <1>1
  <2> HIDE DEF S
  <2>2. DOMAIN serving \subseteq 1 .. sequence /\ \A n \in DOMAIN serving : serving[n] \in [request : Requests, begun : BOOLEAN]
    BY <1>2
  <2> QED BY <1>1, <2>1, <2>2 DEF LogTypeOK, S
<1>4. archive \in Seq({archive[i] : i \in DOMAIN archive})
  BY <1>1
<1> QED
  BY <1>1, <1>2, <1>3, <1>4
  DEF LogInv, CutIsTorn, StartsServed, ServedShown, ServedNumbered, EndsKnown, CountsTrue

\* What the steps of the server leave alone.
LEMMA ArchiveKept ==
    ASSUME LogInv, UNCHANGED archive
    PROVE  archive' \in Seq({archive'[i] : i \in DOMAIN archive'}) /\ CountsTrue'
  BY DEF LogInv, CountsTrue

\* A call that arrives keeps the invariant: its number is new.
LEMMA StepArrives ==
    ASSUME LogInv, NEW request \in Requests, CallArrives(request)
    PROVE  LogInv'
<1>1. /\ sequence' = sequence + 1
      /\ serving' = Put(serving, sequence + 1, [request |-> request, begun |-> FALSE])
      /\ UNCHANGED <<lines, cut, process, served, known, archive>>
  BY DEF CallArrives
<1> DEFINE n == sequence + 1
<1>2. /\ DOMAIN serving' = DOMAIN serving \cup {n}
      /\ serving'[n] = [request |-> request, begun |-> FALSE]
      /\ \A m \in DOMAIN serving : m # n => serving'[m] = serving[m]
  <2> DEFINE P == Put(serving, n, [request |-> request, begun |-> FALSE])
  <2>1. /\ DOMAIN P = DOMAIN serving \cup {n}
        /\ P[n] = [request |-> request, begun |-> FALSE]
        /\ \A m \in DOMAIN serving : m # n => P[m] = serving[m]
    <3> HIDE DEF n
    <3> QED BY DEF Put
  <2>2. serving' = P
    BY <1>1
  <2> HIDE DEF P
  <2> QED BY <2>1, <2>2
<1>3. sequence \in Nat /\ process \in Nat /\ DOMAIN serving \subseteq 1 .. sequence
  BY DEF LogInv, LogTypeOK
<1>4. \A m \in DOMAIN serving : m # n
  BY <1>3
<1>5. LogTypeOK'
  <2>1. DOMAIN serving' \subseteq 1 .. sequence'
    BY <1>1, <1>2, <1>3
  <2>2. \A m \in DOMAIN serving' : serving'[m] \in [request : Requests, begun : BOOLEAN]
    <3>1. \A m \in DOMAIN serving : serving[m] \in [request : Requests, begun : BOOLEAN]
      BY DEF LogInv, LogTypeOK
    <3>2. [request |-> request, begun |-> FALSE] \in [request : Requests, begun : BOOLEAN]
      OBVIOUS
    <3> QED BY <1>2, <1>4, <3>1, <3>2
  <2>3. /\ lines' \in Seq(LogLine) /\ cut' \in BOOLEAN /\ process' \in Nat /\ sequence' \in Nat
    BY <1>1, <1>3 DEF LogInv, LogTypeOK
  <2> QED BY <2>1, <2>2, <2>3 DEF LogTypeOK
<1>6. CutIsTorn' /\ ServedShown' /\ EndsKnown'
  BY <1>1 DEF LogInv, CutIsTorn, ServedShown, EndsKnown, Starts, Ends, KeyOf
<1>7. StartsServed'
  <2> SUFFICES ASSUME NEW i \in DOMAIN lines, Starts(i)
               PROVE  /\ KeyOf(i) \in DOMAIN served /\ KeyOf(i) \in DOMAIN known
                      /\ served[KeyOf(i)] = lines[i].request
                      /\ lines[i].session <= process
                      /\ lines[i].session = process =>
                           /\ lines[i].sequence <= sequence + 1
                           /\ lines[i].sequence \in DOMAIN serving' => serving'[lines[i].sequence].begun
    BY <1>1 DEF StartsServed, Starts, KeyOf
  <2>1. lines[i].sequence \in Nat
    <3> DEFINE S == LogLine
    <3>1. lines \in Seq(S)
      BY DEF LogInv, LogTypeOK
    <3> HIDE DEF S
    <3>2. lines[i] \in S
      BY <3>1
    <3> QED BY <3>2, LineFacts DEF S, Starts
  <2>2. /\ KeyOf(i) \in DOMAIN served /\ KeyOf(i) \in DOMAIN known
        /\ served[KeyOf(i)] = lines[i].request
        /\ lines[i].session <= process
        /\ lines[i].session = process =>
             /\ lines[i].sequence <= sequence
             /\ lines[i].sequence \in DOMAIN serving => serving[lines[i].sequence].begun
    BY DEF LogInv, StartsServed
  <2> QED BY <1>2, <1>3, <1>4, <2>1, <2>2
<1>8. ServedNumbered'
  <2> SUFFICES ASSUME NEW c \in DOMAIN served
               PROVE  /\ c[1] \in Nat /\ c[1] <= process
                      /\ c[1] = process => c[2] \in 1 .. sequence + 1
                      /\ c[1] = process /\ c[2] \in DOMAIN serving' => served[c] = serving'[c[2]].request
    BY <1>1 DEF ServedNumbered
  <2>1. /\ c[1] \in Nat /\ c[1] <= process
        /\ c[1] = process => c[2] \in 1 .. sequence
        /\ c[1] = process /\ c[2] \in DOMAIN serving => served[c] = serving[c[2]].request
    BY DEF LogInv, ServedNumbered
  <2> QED BY <1>2, <1>3, <1>4, <2>1
<1> QED BY <1>1, <1>5, <1>6, <1>7, <1>8, ArchiveKept DEF LogInv

\* The lines of the log are typed, and the keys of the starts among them.
LEMMA LineOf ==
    ASSUME lines \in Seq(LogLine), NEW i \in DOMAIN lines
    PROVE  lines[i] \in LogLine
<1> DEFINE S == LogLine
<1>1. lines \in Seq(S)
  OBVIOUS
<1> HIDE DEF S
<1>2. lines[i] \in S
  BY <1>1
<1> QED BY <1>2 DEF S

\* The line a call writes is typed, and has the call's number and request.
LEMMA LineIn ==
    ASSUME NEW kind \in {"tool_start", "tool_end"}, process \in Nat, NEW n \in Nat,
           NEW request \in Requests, NEW outcome \in Outcomes \cup {Dropped, NoOutcome}
    PROVE  /\ Line(kind, n, request, outcome) \in LogLine
           /\ Line(kind, n, request, outcome).event = kind
           /\ Line(kind, n, request, outcome).session = process
           /\ Line(kind, n, request, outcome).sequence = n
           /\ Line(kind, n, request, outcome).request = request
  BY DEF Line, LogLine

\* A call that begins keeps the invariant: its key is new, and what it knows is every end there is.
LEMMA StepBegins ==
    ASSUME LogInv, NEW n \in DOMAIN serving, CallBegins(n)
    PROVE  LogInv'
<1> DEFINE l == Line("tool_start", n, serving[n].request, NoOutcome)
           key == <<process, n>>
<1>1. /\ ~serving[n].begun
      /\ serving' = Put(serving, n, [request |-> serving[n].request, begun |-> TRUE])
      /\ lines' = Appended(l) /\ cut' = FALSE
      /\ served' = Put(served, key, serving[n].request)
      /\ known' = Put(known, key, EndLogged)
      /\ UNCHANGED <<process, sequence, archive>>
  BY DEF CallBegins
<1>2. /\ process \in Nat /\ sequence \in Nat /\ n \in 1 .. sequence /\ n \in Nat
      /\ serving[n].request \in Requests /\ lines \in Seq(LogLine) /\ cut \in BOOLEAN
  BY DEF LogInv, LogTypeOK
<1>3. /\ l \in LogLine /\ l.event = "tool_start" /\ l.session = process /\ l.sequence = n
      /\ l.request = serving[n].request
  <2> HIDE DEF l
  <2> QED BY <1>2, LineIn DEF l
<1> HIDE DEF l
<1>4. Grown(l)
  BY <1>1, <1>2, <1>3, AppendedGrows DEF LogInv
<1>5. /\ DOMAIN serving' = DOMAIN serving /\ serving'[n].begun
      /\ \A m \in DOMAIN serving : /\ serving'[m].request = serving[m].request
                                   /\ m # n => serving'[m] = serving[m]
      /\ \A m \in DOMAIN serving' : serving'[m] \in [request : Requests, begun : BOOLEAN]
  <2> DEFINE new == [request |-> serving[n].request, begun |-> TRUE]
             P == Put(serving, n, new)
  <2>1. DOMAIN P = DOMAIN serving \cup {n} /\ P[n] = new
        /\ \A m \in DOMAIN serving : m # n => P[m] = serving[m]
    <3> HIDE DEF new
    <3> QED BY DEF Put
  <2>2. serving' = P
    BY <1>1
  <2> HIDE DEF P
  <2>3. new.begun /\ new.request = serving[n].request /\ new \in [request : Requests, begun : BOOLEAN]
    BY <1>2
  <2> HIDE DEF new
  <2>4. \A m \in DOMAIN serving : serving[m] \in [request : Requests, begun : BOOLEAN]
    BY DEF LogInv, LogTypeOK
  <2> QED BY <2>1, <2>2, <2>3, <2>4
<1>6. /\ DOMAIN served' = DOMAIN served \cup {key} /\ served'[key] = serving[n].request
      /\ \A c \in DOMAIN served : c # key => served'[c] = served[c]
      /\ DOMAIN known' = DOMAIN known \cup {key} /\ known'[key] = EndLogged
      /\ \A c \in DOMAIN known : c # key => known'[c] = known[c]
  <2> DEFINE P == Put(served, key, serving[n].request)
             Q == Put(known, key, EndLogged)
  <2>1. /\ DOMAIN P = DOMAIN served \cup {key} /\ P[key] = serving[n].request
        /\ \A c \in DOMAIN served : c # key => P[c] = served[c]
    <3> HIDE DEF key
    <3> QED BY DEF Put
  <2>2. /\ DOMAIN Q = DOMAIN known \cup {key} /\ Q[key] = EndLogged
        /\ \A c \in DOMAIN known : c # key => Q[c] = known[c]
    <3> HIDE DEF key
    <3> QED BY DEF Put
  <2>3. served' = P /\ known' = Q
    BY <1>1
  <2> HIDE DEF P, Q, key
  <2> QED BY <2>1, <2>2, <2>3
<1>7. ASSUME NEW i \in DOMAIN lines, Starts(i) PROVE KeyOf(i) # key
  BY <1>1, <1>7 DEF LogInv, StartsServed, KeyOf
<1>8. LogTypeOK' /\ CutIsTorn'
  <2>1. LogTypeOK'
    BY <1>1, <1>2, <1>4, <1>5 DEF LogInv, LogTypeOK, Grown
  <2> QED BY <1>1, <2>1 DEF CutIsTorn
<1>9. ASSUME NEW i \in DOMAIN lines'
      PROVE  \/ i \in DOMAIN lines /\ lines'[i] = lines[i]
             \/ i \notin DOMAIN lines /\ lines'[i] = l /\ \A j \in DOMAIN lines : j < i
  BY <1>4 DEF Grown
<1>10. StartsServed'
  <2> SUFFICES ASSUME NEW i \in DOMAIN lines', lines'[i].event = "tool_start"
               PROVE  LET k == <<lines'[i].session, lines'[i].sequence>> IN
                      /\ k \in DOMAIN served' /\ k \in DOMAIN known'
                      /\ served'[k] = lines'[i].request
                      /\ lines'[i].session <= process
                      /\ lines'[i].session = process =>
                           /\ lines'[i].sequence <= sequence
                           /\ lines'[i].sequence \in DOMAIN serving => serving'[lines'[i].sequence].begun
    BY <1>1, <1>5 DEF StartsServed, Starts, KeyOf
  <2>1. CASE i \in DOMAIN lines /\ lines'[i] = lines[i]
    <3>1. Starts(i) /\ KeyOf(i) # key
      BY <1>7, <2>1 DEF Starts
    <3>2. /\ KeyOf(i) \in DOMAIN served /\ KeyOf(i) \in DOMAIN known
          /\ served[KeyOf(i)] = lines[i].request
          /\ lines[i].session <= process
          /\ lines[i].session = process =>
               /\ lines[i].sequence <= sequence
               /\ lines[i].sequence \in DOMAIN serving => serving[lines[i].sequence].begun
      BY <2>1, <3>1 DEF LogInv, StartsServed
    <3>3. served'[KeyOf(i)] = served[KeyOf(i)] /\ KeyOf(i) \in DOMAIN served' /\ KeyOf(i) \in DOMAIN known'
      BY <1>6, <3>1, <3>2
    <3>4. lines[i].sequence \in DOMAIN serving /\ serving[lines[i].sequence].begun
              => serving'[lines[i].sequence].begun
      BY <1>5
    <3> HIDE DEF key
    <3> QED BY <2>1, <3>2, <3>3, <3>4 DEF KeyOf
  <2>2. CASE lines'[i] = l
    BY <1>2, <1>3, <1>5, <1>6, <2>2, SMTT(30)
  <2> QED BY <1>9, <2>1, <2>2
<1>11. ServedShown'
  <2> SUFFICES ASSUME NEW c \in DOMAIN served'
               PROVE  \E i \in DOMAIN lines' :
                          \/ lines'[i].event = "tool_start" /\ <<lines'[i].session, lines'[i].sequence>> = c
                          \/ lines'[i] = Torn
    BY DEF ServedShown, Starts, KeyOf
  <2>1. CASE c \in DOMAIN served
    BY <1>4, <2>1 DEF LogInv, ServedShown, Starts, KeyOf, Grown
  <2>2. CASE c = key
    BY <1>3, <1>4, <2>2 DEF Grown
  <2> QED BY <1>6, <2>1, <2>2
<1>12. ServedNumbered'
  <2> DEFINE Numbered(c) == /\ c[1] \in Nat /\ c[1] <= process
                            /\ c[1] = process => c[2] \in 1 .. sequence
                            /\ c[1] = process /\ c[2] \in DOMAIN serving
                               => served'[c] = serving[c[2]].request
  <2>1. ASSUME NEW c, Numbered(c)
        PROVE  /\ c[1] \in Nat /\ c[1] <= process'
               /\ c[1] = process' => c[2] \in 1 .. sequence'
               /\ c[1] = process' /\ c[2] \in DOMAIN serving' => served'[c] = serving'[c[2]].request
    <3>1. process' = process /\ sequence' = sequence
      BY <1>1
    <3>2. \A m \in DOMAIN serving' : m \in DOMAIN serving /\ serving'[m].request = serving[m].request
      BY <1>5
    <3> QED BY <2>1, <3>1, <3>2
  <2>2. (\A c \in DOMAIN served' : Numbered(c)) => ServedNumbered'
    <3> HIDE DEF Numbered
    <3> QED BY <2>1, Zenon DEF ServedNumbered
  <2> SUFFICES ASSUME NEW c \in DOMAIN served' PROVE Numbered(c)
    BY <2>2
  <2>3. CASE c = key
    BY <1>2, <1>6, <2>3
  <2>4. CASE c # key /\ c \in DOMAIN served
    BY <1>6, <2>4 DEF LogInv, ServedNumbered
  <2> QED BY <1>6, <2>3, <2>4
<1>13. EndsKnown'
  <2> SUFFICES ASSUME NEW j \in DOMAIN lines', NEW i \in DOMAIN lines', j < i,
                      lines'[j].event = "tool_end", lines'[i].event = "tool_start"
               PROVE  <<lines'[j].session, lines'[j].sequence>>
                        \in known'[<<lines'[i].session, lines'[i].sequence>>]
    BY DEF EndsKnown, Starts, Ends, KeyOf
  <2>1. j \in DOMAIN lines /\ lines'[j] = lines[j] /\ Ends(j)
    BY <1>3, <1>9 DEF Ends
  <2>2. CASE i \in DOMAIN lines /\ lines'[i] = lines[i]
    <3>1. Starts(i) /\ KeyOf(i) # key /\ KeyOf(i) \in DOMAIN known
      BY <1>7, <2>2 DEF Starts, LogInv, StartsServed
    <3>2. KeyOf(j) \in known[KeyOf(i)]
      BY <2>1, <2>2, <3>1 DEF LogInv, EndsKnown
    <3>3. known'[KeyOf(i)] = known[KeyOf(i)]
      BY <1>6, <3>1
    <3> QED BY <2>1, <2>2, <3>2, <3>3 DEF KeyOf
  <2>3. CASE lines'[i] = l
    <3>1. <<lines'[i].session, lines'[i].sequence>> = key
      BY <1>3, <2>3
    <3>2. <<lines[j].session, lines[j].sequence>> \in EndLogged
      BY <2>1 DEF EndLogged, Ends
    <3> QED BY <1>6, <2>1, <3>1, <3>2
  <2> QED BY <1>9, <2>2, <2>3
<1> QED BY <1>1, <1>8, <1>10, <1>11, <1>12, <1>13, ArchiveKept DEF LogInv

\* A call that ends keeps the invariant: its line lies below every start.
LEMMA StepEnds ==
    ASSUME LogInv, NEW n \in DOMAIN serving, NEW outcome \in Outcomes \cup {Dropped},
           CallEnds(n, outcome)
    PROVE  LogInv'
<1> DEFINE l == Line("tool_end", n, serving[n].request, outcome)
<1>1. /\ serving' = Restrict(serving, DOMAIN serving \ {n})
      /\ lines' = Appended(l) /\ cut' = FALSE
      /\ UNCHANGED <<process, sequence, served, known, archive>>
  BY DEF CallEnds
<1>2. /\ process \in Nat /\ sequence \in Nat /\ n \in 1 .. sequence /\ n \in Nat
      /\ serving[n].request \in Requests /\ lines \in Seq(LogLine) /\ cut \in BOOLEAN
  BY DEF LogInv, LogTypeOK
<1>3. l \in LogLine /\ l.event = "tool_end"
  <2> HIDE DEF l
  <2> QED BY <1>2, LineIn DEF l
<1> HIDE DEF l
<1>4. Grown(l)
  BY <1>1, <1>2, <1>3, AppendedGrows DEF LogInv
<1>5. DOMAIN serving' \subseteq DOMAIN serving /\ \A m \in DOMAIN serving' : serving'[m] = serving[m]
  <2> DEFINE P == Restrict(serving, DOMAIN serving \ {n})
  <2>1. DOMAIN P \subseteq DOMAIN serving /\ \A m \in DOMAIN P : P[m] = serving[m]
    BY DEF Restrict
  <2>2. serving' = P
    BY <1>1
  <2> HIDE DEF P
  <2> QED BY <2>1, <2>2
<1>6. LogTypeOK'
  <2>1. \A m \in DOMAIN serving' : serving'[m] \in [request : Requests, begun : BOOLEAN]
    BY <1>5 DEF LogInv, LogTypeOK
  <2>2. DOMAIN serving' \subseteq 1 .. sequence'
    BY <1>1, <1>5 DEF LogInv, LogTypeOK
  <2> QED BY <1>1, <1>2, <1>4, <2>1, <2>2 DEF LogTypeOK, Grown
<1>7. CutIsTorn'
  BY <1>1 DEF CutIsTorn
<1>8. ASSUME NEW i \in DOMAIN lines', lines'[i].event = "tool_start"
      PROVE  i \in DOMAIN lines /\ lines'[i] = lines[i]
  BY <1>3, <1>4, <1>8 DEF Grown
<1>9. StartsServed'
  <2> SUFFICES ASSUME NEW i \in DOMAIN lines', lines'[i].event = "tool_start"
               PROVE  LET k == <<lines'[i].session, lines'[i].sequence>> IN
                      /\ k \in DOMAIN served /\ k \in DOMAIN known
                      /\ served[k] = lines'[i].request
                      /\ lines'[i].session <= process
                      /\ lines'[i].session = process =>
                           /\ lines'[i].sequence <= sequence
                           /\ lines'[i].sequence \in DOMAIN serving' => serving'[lines'[i].sequence].begun
    BY <1>1 DEF StartsServed, Starts, KeyOf
  <2>1. i \in DOMAIN lines /\ lines'[i] = lines[i]
    BY <1>8
  <2>2. /\ KeyOf(i) \in DOMAIN served /\ KeyOf(i) \in DOMAIN known
        /\ served[KeyOf(i)] = lines[i].request
        /\ lines[i].session <= process
        /\ lines[i].session = process =>
             /\ lines[i].sequence <= sequence
             /\ lines[i].sequence \in DOMAIN serving => serving[lines[i].sequence].begun
    BY <2>1 DEF LogInv, StartsServed, Starts
  <2> QED BY <1>5, <2>1, <2>2 DEF KeyOf
<1>10. ServedShown'
  <2> SUFFICES ASSUME NEW c \in DOMAIN served
               PROVE  \E i \in DOMAIN lines' :
                          \/ lines'[i].event = "tool_start" /\ <<lines'[i].session, lines'[i].sequence>> = c
                          \/ lines'[i] = Torn
    BY <1>1 DEF ServedShown, Starts, KeyOf
  <2> QED BY <1>4 DEF LogInv, ServedShown, Starts, KeyOf, Grown
<1>11. ServedNumbered'
  BY <1>1, <1>5 DEF LogInv, ServedNumbered
<1>12. EndsKnown'
  <2> SUFFICES ASSUME NEW j \in DOMAIN lines', NEW i \in DOMAIN lines', j < i,
                      lines'[j].event = "tool_end", lines'[i].event = "tool_start"
               PROVE  <<lines'[j].session, lines'[j].sequence>>
                        \in known[<<lines'[i].session, lines'[i].sequence>>]
    BY <1>1 DEF EndsKnown, Starts, Ends, KeyOf
  <2>1. i \in DOMAIN lines /\ lines'[i] = lines[i] /\ Starts(i)
    BY <1>8 DEF Starts
  <2>2. j \in DOMAIN lines /\ lines'[j] = lines[j] /\ Ends(j)
    <3>1. j \in Nat /\ i \in Nat
      <4> DEFINE S == LogLine
      <4>1. lines' \in Seq(S)
        BY <1>4 DEF Grown
      <4> HIDE DEF S
      <4> QED BY <4>1
    <3>2. j \notin DOMAIN lines => i < j
      BY <1>4, <2>1 DEF Grown
    <3>3. j \in DOMAIN lines
      BY <3>1, <3>2
    <3> QED BY <1>4, <3>3 DEF Grown, Ends
  <2> QED BY <2>1, <2>2 DEF LogInv, EndsKnown, KeyOf
<1> QED BY <1>1, <1>6, <1>7, <1>9, <1>10, <1>11, <1>12, ArchiveKept DEF LogInv

\* The new process answers no call of the old one; what the old one began stays.
LEMMA NextProcess ==
    ASSUME LogInv, process' = process + 1, sequence' = 0, serving' = <<>>,
           UNCHANGED <<known, archive>>, UNCHANGED <<lines, cut, served>>
    PROVE  LogInv'
<1>1. DOMAIN serving' = {}
  OBVIOUS
<1>2. process \in Nat
  BY DEF LogInv, LogTypeOK
<1>3. LogTypeOK'
  BY <1>1, <1>2 DEF LogInv, LogTypeOK
<1>4. CutIsTorn' /\ ServedShown' /\ EndsKnown'
  BY DEF LogInv, CutIsTorn, ServedShown, EndsKnown, Starts, Ends, KeyOf
<1>5. StartsServed'
  <2> SUFFICES ASSUME NEW i \in DOMAIN lines, Starts(i)
               PROVE  /\ KeyOf(i) \in DOMAIN served /\ KeyOf(i) \in DOMAIN known
                      /\ served[KeyOf(i)] = lines[i].request
                      /\ lines[i].session <= process + 1
                      /\ lines[i].session # process + 1
    BY <1>1 DEF StartsServed, Starts, KeyOf
  <2>1. lines[i].session \in Nat
    BY LineOf, LineFacts DEF LogInv, LogTypeOK, Starts
  <2> QED BY <1>2, <2>1 DEF LogInv, StartsServed
<1>6. ServedNumbered'
  <2> SUFFICES ASSUME NEW c \in DOMAIN served
               PROVE  c[1] \in Nat /\ c[1] <= process + 1 /\ c[1] # process + 1
    BY <1>1 DEF ServedNumbered
  <2> QED BY <1>2 DEF LogInv, ServedNumbered
<1> QED BY <1>3, <1>4, <1>5, <1>6, ArchiveKept DEF LogInv

\* A kill keeps the invariant, also one that tears a line.
LEMMA StepKilled ==
    ASSUME LogInv, ServerKilled
    PROVE  LogInv'
<1>1. process' = process + 1 /\ sequence' = 0 /\ serving' = <<>> /\ UNCHANGED <<known, archive>>
  BY DEF ServerKilled
<1>2. CASE UNCHANGED <<lines, cut, served>>
  BY <1>1, <1>2, NextProcess
<1>3. CASE \E n \in DOMAIN serving :
              /\ ~cut
              /\ lines' = Append(lines, Torn) /\ cut' = TRUE
              /\ served' = Put(served, <<process, n>>, serving[n].request)
  <2>1. PICK n \in DOMAIN serving :
              /\ lines' = Append(lines, Torn) /\ cut' = TRUE
              /\ served' = Put(served, <<process, n>>, serving[n].request)
    BY <1>3
  <2> DEFINE key == <<process, n>>
  <2>2. process \in Nat /\ n \in Nat /\ n \in 1 .. sequence /\ lines \in Seq(LogLine)
    BY DEF LogInv, LogTypeOK
  <2>3. Torn \in LogLine /\ Torn.event = "torn"
    BY DEF LogLine, Torn
  <2>4. Grown(Torn)
    BY <2>1, <2>2, <2>3, AppendGrows
  <2>5. DOMAIN serving' = {}
    BY <1>1
  <2>6. /\ DOMAIN served' = DOMAIN served \cup {key} /\ served'[key] = serving[n].request
        /\ \A c \in DOMAIN served : c # key => served'[c] = served[c]
    <3> DEFINE P == Put(served, key, serving[n].request)
    <3>1. /\ DOMAIN P = DOMAIN served \cup {key} /\ P[key] = serving[n].request
          /\ \A c \in DOMAIN served : c # key => P[c] = served[c]
      <4> HIDE DEF key
      <4> QED BY DEF Put
    <3>2. served' = P
      BY <2>1
    <3> HIDE DEF P, key
    <3> QED BY <3>1, <3>2
  <2>7. \A c \in DOMAIN served : c \in DOMAIN served' /\ served'[c] = served[c]
    <3> SUFFICES ASSUME NEW c \in DOMAIN served, c = key PROVE served'[c] = served[c]
      <4> HIDE DEF key
      <4> QED BY <2>6
    <3>1. c[1] = process /\ c[2] = n
      OBVIOUS
    <3>2. served[c] = serving[n].request
      BY <3>1 DEF LogInv, ServedNumbered
    <3> HIDE DEF key
    <3> QED BY <2>6, <3>2
  <2>8. LogTypeOK'
    BY <1>1, <2>1, <2>2, <2>4, <2>5 DEF LogTypeOK, Grown
  <2>9. CutIsTorn'
    <3> DEFINE S == LogLine
    <3>1. lines \in Seq(S) /\ Torn \in S
      BY <2>2, <2>3
    <3> HIDE DEF S
    <3> QED BY <2>1, <3>1 DEF CutIsTorn
  <2>10. ASSUME NEW i \in DOMAIN lines', lines'[i].event # "torn"
         PROVE  i \in DOMAIN lines /\ lines'[i] = lines[i]
    BY <2>3, <2>4, <2>10 DEF Grown
  <2>11. StartsServed'
    <3> SUFFICES ASSUME NEW i \in DOMAIN lines', lines'[i].event = "tool_start"
                 PROVE  LET k == <<lines'[i].session, lines'[i].sequence>> IN
                        /\ k \in DOMAIN served' /\ k \in DOMAIN known
                        /\ served'[k] = lines'[i].request
                        /\ lines'[i].session <= process + 1 /\ lines'[i].session # process + 1
      BY <1>1, <2>5 DEF StartsServed, Starts, KeyOf
    <3>1. i \in DOMAIN lines /\ lines'[i] = lines[i]
      BY <2>10
    <3>2. Starts(i) /\ lines[i].session \in Nat
      BY <2>2, <3>1, LineOf, LineFacts DEF Starts
    <3>3. /\ KeyOf(i) \in DOMAIN served /\ KeyOf(i) \in DOMAIN known
          /\ served[KeyOf(i)] = lines[i].request
          /\ lines[i].session <= process
      BY <3>1, <3>2 DEF LogInv, StartsServed
    <3>4. lines[i].session <= process + 1 /\ lines[i].session # process + 1
      BY <2>2, <3>2, <3>3
    <3>5. KeyOf(i) \in DOMAIN served' /\ served'[KeyOf(i)] = lines[i].request
      BY <2>7, <3>3
    <3> QED BY <3>1, <3>3, <3>4, <3>5 DEF KeyOf
  <2>12. ServedShown'
    BY <2>4 DEF ServedShown, Grown
  <2>13. ServedNumbered'
    <3> SUFFICES ASSUME NEW c \in DOMAIN served'
                 PROVE  c[1] \in Nat /\ c[1] <= process + 1 /\ c[1] # process + 1
      BY <1>1, <2>5 DEF ServedNumbered
    <3>1. c[1] \in Nat /\ c[1] <= process
      <4>1. CASE c \in DOMAIN served
        BY <4>1 DEF LogInv, ServedNumbered
      <4>2. CASE c = key
        BY <2>2, <4>2
      <4> QED BY <2>6, <4>1, <4>2
    <3> QED BY <2>2, <3>1
  <2>14. EndsKnown'
    <3> SUFFICES ASSUME NEW j \in DOMAIN lines', NEW i \in DOMAIN lines', j < i,
                        lines'[j].event = "tool_end", lines'[i].event = "tool_start"
                 PROVE  <<lines'[j].session, lines'[j].sequence>>
                          \in known[<<lines'[i].session, lines'[i].sequence>>]
      BY <1>1 DEF EndsKnown, Starts, Ends, KeyOf
    <3>1. j \in DOMAIN lines /\ lines'[j] = lines[j] /\ i \in DOMAIN lines /\ lines'[i] = lines[i]
      BY <2>10
    <3>2. Ends(j) /\ Starts(i)
      BY <3>1 DEF Starts, Ends
    <3> QED BY <3>1, <3>2 DEF LogInv, EndsKnown, KeyOf
  <2> QED BY <1>1, <2>8, <2>9, <2>11, <2>12, <2>13, <2>14, ArchiveKept DEF LogInv
<1> QED BY <1>2, <1>3 DEF ServerKilled

-----------------------------------------------------------------------------
(* What the analysis reads out of the log. *)

\* The events are the lines that can be read, and each is a start or an end.
LEMMA EventFacts ==
    ASSUME LogInv
    PROVE  /\ DOMAIN ReadEvents(lines) = {i \in DOMAIN lines : lines[i] # Torn}
           /\ \A i \in DOMAIN ReadEvents(lines) :
                 /\ ReadEvents(lines)[i] = lines[i] /\ i \in DOMAIN lines /\ i \in Nat \ {0}
                 /\ lines[i].event \in {"tool_start", "tool_end"}
<1>1. DOMAIN ReadEvents(lines) = {i \in DOMAIN lines : lines[i] # Torn}
  BY DEF ReadEvents, Restrict
<1>2. ASSUME NEW i \in DOMAIN ReadEvents(lines)
      PROVE  /\ ReadEvents(lines)[i] = lines[i] /\ i \in DOMAIN lines /\ i \in Nat \ {0}
             /\ lines[i].event \in {"tool_start", "tool_end"}
  <2>1. i \in DOMAIN lines /\ lines[i] # Torn /\ ReadEvents(lines)[i] = lines[i]
    BY DEF ReadEvents, Restrict
  <2>2. lines[i] \in LogLine
    BY <2>1, LineOf DEF LogInv, LogTypeOK
  <2>3. lines[i].event \in {"tool_start", "tool_end"}
    BY <2>1, <2>2 DEF LogLine
  <2>4. i \in Nat \ {0}
    <3> DEFINE S == LogLine
    <3>1. lines \in Seq(S)
      BY DEF LogInv, LogTypeOK
    <3> HIDE DEF S
    <3> QED BY <2>1, <3>1
  <2> QED BY <2>1, <2>3, <2>4
<1> QED BY <1>1, <1>2

\* A line of its kind and its call.
IsOf(i, kind, s, n) ==
    i \in DOMAIN lines /\ lines[i].event = kind /\ lines[i].session = s /\ lines[i].sequence = n

\* Position is 0 when a call has no line of the kind, and else the number of such a line.
LEMMA PositionFacts ==
    ASSUME LogInv, NEW kind \in {"tool_start", "tool_end"}, NEW s, NEW n
    PROVE  LET p == Position(ReadEvents(lines), kind, s, n)
           IN  \/ p = 0 /\ \A i \in DOMAIN lines : ~IsOf(i, kind, s, n)
               \/ p \in Nat /\ p > 0 /\ IsOf(p, kind, s, n) /\ ReadEvents(lines)[p] = lines[p]
<1> DEFINE e == ReadEvents(lines)
           found == {i \in DOMAIN e : e[i].event = kind /\ e[i].session = s /\ e[i].sequence = n}
           p == Position(e, kind, s, n)
<1>1. p = IF found = {} THEN 0 ELSE Min(found)
  BY DEF Position
<1>2. \A i \in DOMAIN e : e[i] = lines[i] /\ i \in DOMAIN lines /\ i \in Nat \ {0}
  BY EventFacts
<1>3. \A i \in DOMAIN lines : IsOf(i, kind, s, n) => i \in found
  <2>1. \A i \in DOMAIN lines : lines[i].event = kind => i \in DOMAIN e
    <3>1. Torn.event = "torn"
      BY DEF Torn
    <3> QED BY <3>1, EventFacts
  <2> HIDE DEF e
  <2> QED BY <1>2, <2>1 DEF IsOf
<1>4. CASE found = {}
  <2>1. p = 0
    BY <1>1, <1>4
  <2> HIDE DEF found, e, p
  <2> QED BY <1>3, <1>4, <2>1 DEF e, p
<1>5. CASE found # {}
  <2>1. p \in found
    <3>1. found \subseteq Nat
      BY <1>2
    <3> HIDE DEF found, p
    <3> QED BY <1>1, <1>5, <3>1, MinIn
  <2>2. IsOf(p, kind, s, n) /\ p \in Nat \ {0} /\ e[p] = lines[p]
    <3> HIDE DEF e, p
    <3> QED BY <1>2, <2>1 DEF IsOf
  <2> HIDE DEF found, e, p
  <2> QED BY <2>2 DEF e, p
<1> QED BY <1>4, <1>5

\* A set of lines is finite, and empty when it counts none.
LEMMA LinesFinite ==
    ASSUME LogInv, NEW T, T \subseteq DOMAIN lines
    PROVE  IsFiniteSet(T) /\ Cardinality(T) \in Nat /\ (Cardinality(T) = 0 => T = {})
<1>1. DOMAIN lines = 1 .. Len(lines) /\ Len(lines) \in Nat
  <2> DEFINE S == LogLine
  <2>1. lines \in Seq(S)
    BY DEF LogInv, LogTypeOK
  <2> HIDE DEF S
  <2> QED BY <2>1
<1>2. IsFiniteSet(DOMAIN lines)
  BY <1>1, FS_Interval
<1>3. IsFiniteSet(T)
  BY <1>2, FS_Subset
<1> QED BY <1>3, FS_CardinalityType, FS_EmptySet

\* So is a set of calls in the log.
LEMMA CallsFinite ==
    ASSUME LogInv, NEW T, T \subseteq CallsIn(ReadEvents(lines))
    PROVE  IsFiniteSet(T) /\ Cardinality(T) \in Nat /\ (Cardinality(T) = 0 => T = {})
<1> DEFINE e == ReadEvents(lines)
           f == [i \in DOMAIN e |-> <<e[i].session, e[i].sequence>>]
<1>1. IsFiniteSet(DOMAIN e)
  BY EventFacts, LinesFinite
<1>2. IsFiniteSet({f[i] : i \in DOMAIN f})
  <2>1. DOMAIN f = DOMAIN e
    OBVIOUS
  <2> HIDE DEF f, e
  <2> QED BY <1>1, <2>1, ImageFinite
<1>3. {f[i] : i \in DOMAIN f} = CallsIn(e)
  BY DEF CallsIn
<1>4. IsFiniteSet(T)
  BY <1>2, <1>3, FS_Subset
<1> QED BY <1>4, FS_CardinalityType, FS_EmptySet

\* A log without warnings has no line that cannot be read.
LEMMA CleanLog ==
    ASSUME LogInv, WarningsOf(lines) = 0
    PROVE  \A i \in DOMAIN lines : lines[i] # Torn
<1> DEFINE e == ReadEvents(lines)
           T == {i \in DOMAIN lines : lines[i] = Torn}
<1>1. Cardinality(T) \in Nat /\ (Cardinality(T) = 0 => T = {})
  BY LinesFinite
<1>2. Cardinality(Duplicated(e)) \in Nat
  <2>1. Duplicated(e) \subseteq DOMAIN lines
    BY EventFacts DEF Duplicated
  <2> HIDE DEF e
  <2> QED BY <2>1, LinesFinite
<1>3. Cardinality(Orphans(e)) \in Nat
  <2>1. Orphans(e) \subseteq CallsIn(e)
    BY DEF Orphans
  <2> QED BY <2>1, CallsFinite
<1>4. Cardinality(T) + Cardinality(Duplicated(e)) + Cardinality(Orphans(e)) = 0
  BY DEF WarningsOf, Undecodable
<1>5. Cardinality(T) = 0
  <2> HIDE DEF T, e
  <2> QED BY <1>1, <1>2, <1>3, <1>4
<1> QED BY <1>1, <1>5

\* The calls the analysis counts for a tool.
CountedFor(t) ==
    {c \in CallsIn(ReadEvents(lines)) :
        /\ Begun(ReadEvents(lines), c[1], c[2]) > 0
        /\ Request(ReadEvents(lines), c[1], c[2]).tool = t}

\* What ToolCounts gives for a tool is how many calls are counted for it.
LEMMA Counting ==
    ASSUME NEW t \in Tools
    PROVE  ToolCounts(ReadEvents(lines))[t] = Cardinality(CountedFor(t))
  BY DEF ToolCounts, CountedFor, Tools

\* A log without warnings shows every call that began, with its tool.
LEMMA CountsServed ==
    ASSUME LogInv, WarningsOf(lines) = 0, NEW t
    PROVE  CountedFor(t) = {c \in DOMAIN served : served[c].tool = t}
<1> DEFINE e == ReadEvents(lines)
<1>1. ASSUME NEW c, NEW p, IsOf(p, "tool_start", c[1], c[2]), c = <<c[1], c[2]>>
      PROVE  c \in DOMAIN served /\ served[c] = lines[p].request
  BY <1>1 DEF LogInv, StartsServed, Starts, KeyOf, IsOf
<1>2. ASSUME NEW c \in CountedFor(t) PROVE c \in DOMAIN served /\ served[c].tool = t
  <2>1. c \in CallsIn(e) /\ Begun(e, c[1], c[2]) > 0 /\ Request(e, c[1], c[2]).tool = t
    BY DEF CountedFor
  <2>2. c = <<c[1], c[2]>>
    BY <2>1 DEF CallsIn
  <2>3. IsOf(Begun(e, c[1], c[2]), "tool_start", c[1], c[2])
        /\ e[Begun(e, c[1], c[2])] = lines[Begun(e, c[1], c[2])]
    BY <2>1, PositionFacts DEF Begun
  <2>4. c \in DOMAIN served /\ served[c] = lines[Begun(e, c[1], c[2])].request
    <3> HIDE DEF e
    <3> QED BY <1>1, <2>2, <2>3
  <2> QED BY <2>1, <2>3, <2>4 DEF Request
<1>3. ASSUME NEW c \in DOMAIN served, served[c].tool = t PROVE c \in CountedFor(t)
  <2>1. PICK i \in DOMAIN lines : Starts(i) /\ KeyOf(i) = c
    BY CleanLog DEF LogInv, ServedShown
  <2>2. c = <<c[1], c[2]>> /\ IsOf(i, "tool_start", c[1], c[2])
    BY <2>1 DEF IsOf, Starts, KeyOf
  <2>3. c \in CallsIn(e)
    <3>1. i \in DOMAIN e /\ e[i] = lines[i]
      BY CleanLog, EventFacts
    <3> HIDE DEF e
    <3> QED BY <2>1, <3>1 DEF CallsIn, KeyOf
  <2>4. /\ Begun(e, c[1], c[2]) > 0
        /\ IsOf(Begun(e, c[1], c[2]), "tool_start", c[1], c[2])
        /\ e[Begun(e, c[1], c[2])] = lines[Begun(e, c[1], c[2])]
    BY <2>2, PositionFacts DEF Begun
  <2>5. served[c] = lines[Begun(e, c[1], c[2])].request
    <3> HIDE DEF e
    <3> QED BY <1>1, <2>2, <2>4
  <2> QED BY <1>3, <2>3, <2>4, <2>5 DEF CountedFor, Request
<1> QED BY <1>2, <1>3

\* The end of a trial keeps the invariant: what is archived was counted.
LEMMA StepTrialEnds ==
    ASSUME LogInv, NEW metadata \in Metadata, TrialEnds(metadata)
    PROVE  LogInv'
<1> DEFINE e == ReadEvents(lines)
           calls == [t \in Tools |-> Cardinality({c \in DOMAIN served : served[c].tool = t})]
           trial == [profile |-> Profiles[Len(archive) + 1],
                     eligible |-> EligibleLog(lines, metadata),
                     counts |-> ToolCounts(e), calls |-> calls]
<1>1. /\ archive' = Append(archive, trial)
      /\ lines' = <<>> /\ cut' = FALSE /\ process' = 1 /\ sequence' = 0
      /\ serving' = <<>> /\ served' = <<>> /\ known' = <<>>
  BY DEF TrialEnds, Tools
<1>2. ASSUME NEW t \in Tools
      PROVE  /\ trial.counts[t] \in Nat
             /\ trial.eligible => trial.counts[t] = trial.calls[t]
  <2>1. trial.counts[t] = Cardinality(CountedFor(t))
    BY Counting
  <2>2. Cardinality(CountedFor(t)) \in Nat
    BY CallsFinite DEF CountedFor
  <2>3. ASSUME trial.eligible PROVE trial.counts[t] = trial.calls[t]
    <3>1. WarningsOf(lines) = 0
      BY <2>3 DEF EligibleLog
    <3>2. CountedFor(t) = {c \in DOMAIN served : served[c].tool = t}
      BY <3>1, CountsServed
    <3>3. trial.calls[t] = Cardinality({c \in DOMAIN served : served[c].tool = t})
      OBVIOUS
    <3> HIDE DEF trial
    <3> QED BY <2>1, <3>2, <3>3
  <2> HIDE DEF trial
  <2> QED BY <2>1, <2>2, <2>3
<1> HIDE DEF trial
<1> DEFINE S == {archive[i] : i \in DOMAIN archive}
           U == S \cup {trial}
<1>3. archive \in Seq(U) /\ trial \in U
  <2>1. archive \in Seq(S)
    BY DEF LogInv
  <2>2. S \subseteq U /\ trial \in U
    OBVIOUS
  <2> HIDE DEF S, U
  <2> QED BY <2>1, <2>2
<1> HIDE DEF S, U
<1>4. /\ archive' \in Seq(U)
      /\ DOMAIN archive' = DOMAIN archive \cup {Len(archive) + 1}
      /\ archive'[Len(archive) + 1] = trial
      /\ \A i \in DOMAIN archive : archive'[i] = archive[i]
  BY <1>1, <1>3, AppendFacts
<1>5. archive' \in Seq({archive'[i] : i \in DOMAIN archive'})
  BY <1>4, OwnElements
<1>6. CountsTrue'
  <2> SUFFICES ASSUME NEW i \in DOMAIN archive', NEW t \in Tools
               PROVE  /\ archive'[i].counts[t] \in Nat
                      /\ archive'[i].eligible => archive'[i].counts[t] = archive'[i].calls[t]
    BY DEF CountsTrue
  <2>1. CASE i \in DOMAIN archive
    BY <1>4, <2>1 DEF LogInv, CountsTrue
  <2>2. CASE i = Len(archive) + 1
    BY <1>2, <1>4, <2>2
  <2> QED BY <1>4, <2>1, <2>2
<1>7. DOMAIN lines' = {} /\ DOMAIN serving' = {} /\ DOMAIN served' = {}
  BY <1>1
<1>8. LogTypeOK'
  <2> DEFINE L == LogLine
  <2>1. lines' \in Seq(L)
    BY <1>1
  <2> HIDE DEF L
  <2>2. /\ DOMAIN serving' \subseteq 1 .. sequence'
        /\ \A n \in DOMAIN serving' : serving'[n] \in [request : Requests, begun : BOOLEAN]
    BY <1>7
  <2> QED BY <1>1, <2>1, <2>2 DEF LogTypeOK, L
<1> QED
  BY <1>1, <1>5, <1>6, <1>7, <1>8
  DEF LogInv, CutIsTorn, StartsServed, ServedShown, ServedNumbered, EndsKnown

\* Every step keeps the invariant.
LEMMA LogStep == LogInv /\ [LogNext]_logVars => LogInv'
<1> SUFFICES ASSUME LogInv, [LogNext]_logVars PROVE LogInv'
  OBVIOUS
<1>1. ASSUME NEW request \in Requests, CallArrives(request) PROVE LogInv'
  BY <1>1, StepArrives
<1>2. ASSUME NEW n \in DOMAIN serving, CallBegins(n) PROVE LogInv'
  BY <1>2, StepBegins
<1>3. ASSUME NEW n \in DOMAIN serving, NEW o \in Outcomes \cup {Dropped}, CallEnds(n, o) PROVE LogInv'
  BY <1>3, StepEnds
<1>4. ASSUME ServerKilled PROVE LogInv'
  BY <1>4, StepKilled
<1>5. ASSUME NEW metadata \in Metadata, TrialEnds(metadata) PROVE LogInv'
  BY <1>5, StepTrialEnds
<1>6. ASSUME UNCHANGED logVars PROVE LogInv'
  <2>1. UNCHANGED <<lines, cut, process, sequence, serving, served, known, archive>>
    BY <1>6 DEF logVars
  <2>2. UNCHANGED <<LogTypeOK, CutIsTorn, StartsServed>>
    BY <2>1 DEF LogTypeOK, CutIsTorn, StartsServed, Starts, KeyOf
  <2>3. UNCHANGED <<ServedShown, ServedNumbered, EndsKnown>>
    BY <2>1 DEF ServedShown, ServedNumbered, EndsKnown, Starts, Ends, KeyOf
  <2> QED BY <2>1, <2>2, <2>3, ArchiveKept DEF LogInv
<1> QED BY <1>1, <1>2, <1>3, <1>4, <1>5, <1>6 DEF LogNext

-----------------------------------------------------------------------------
(* Who is blamed. *)

\* An outcome in the log returned intervals.
LEMMA OutcomeLocated ==
    ASSUME LogInv, NEW i \in DOMAIN lines, lines[i].event \in {"tool_start", "tool_end"}
    PROVE  lines[i].outcome.locations \in Seq(Interval)
<1>1. lines[i].outcome \in Outcomes \cup {Dropped, NoOutcome}
  BY LineOf, LineFacts DEF LogInv, LogTypeOK
<1>2. CASE lines[i].outcome \in Outcomes
  BY <1>2, LogAssumption DEF Interval
<1>3. CASE lines[i].outcome \in {Dropped, NoOutcome}
  <2> DEFINE S == Interval
  <2>1. lines[i].outcome.locations = <<>>
    BY <1>3 DEF Dropped, NoOutcome
  <2>2. <<>> \in Seq(S)
    OBVIOUS
  <2> QED BY <2>1, <2>2
<1> QED BY <1>1, <1>2, <1>3

\* So did the outcome of a call that succeeded.
LEMMA Located ==
    ASSUME LogInv, NEW s, NEW n, Succeeded(ReadEvents(lines), s, n)
    PROVE  Outcome(ReadEvents(lines), s, n).locations \in Seq(Interval)
<1> DEFINE e == ReadEvents(lines)
           p == Completed(e, s, n)
<1>1. p > 0
  BY DEF Succeeded
<1>2. IsOf(p, "tool_end", s, n) /\ e[p] = lines[p]
  BY <1>1, PositionFacts DEF Completed
<1>3. Outcome(e, s, n) = e[p].outcome
  BY DEF Outcome
<1> HIDE DEF p, e
<1>4. lines[p].outcome.locations \in Seq(Interval)
  BY <1>2, OutcomeLocated DEF IsOf
<1> QED BY <1>2, <1>3, <1>4 DEF e

\* The locations of an answer are a finite set of intervals.
LEMMA LocationsIn ==
    ASSUME NEW q \in Seq(Interval)
    PROVE  ToSet(q) \in SUBSET Interval /\ IsFiniteSet(ToSet(q))
<1>1. DOMAIN q = 1 .. Len(q) /\ Len(q) \in Nat
  <2> DEFINE S == Interval
  <2>1. q \in Seq(S)
    OBVIOUS
  <2> HIDE DEF S
  <2> QED BY <2>1
<1>2. ToSet(q) = {q[i] : i \in DOMAIN q}
  BY DEF ToSet
<1>3. IsFiniteSet(DOMAIN q)
  BY <1>1, FS_Interval
<1>4. \A i \in DOMAIN q : q[i] \in Interval
  <2> DEFINE S == Interval
  <2>1. q \in Seq(S)
    OBVIOUS
  <2> HIDE DEF S
  <2>2. \A i \in DOMAIN q : q[i] \in S
    BY <2>1
  <2> QED BY <2>2 DEF S
<1> QED BY <1>2, <1>3, <1>4, ImageFinite

\* What ended before a call began was known to it.
LEMMA EndedKnown ==
    ASSUME LogInv, NEW s, NEW m, NEW n,
           Completed(ReadEvents(lines), s, m) > 0,
           Begun(ReadEvents(lines), s, n) > 0,
           Completed(ReadEvents(lines), s, m) < Begun(ReadEvents(lines), s, n)
    PROVE  <<s, m>> \in known[<<s, n>>]
<1> DEFINE e == ReadEvents(lines)
           j == Completed(e, s, m)
           i == Begun(e, s, n)
<1>1. IsOf(j, "tool_end", s, m)
  BY PositionFacts DEF Completed
<1>2. IsOf(i, "tool_start", s, n)
  BY PositionFacts DEF Begun
<1>3. j < i
  OBVIOUS
<1> HIDE DEF j, i
<1> QED BY <1>1, <1>2, <1>3 DEF LogInv, EndsKnown, Ends, Starts, KeyOf, IsOf

\* The numbers of the calls of a session are finitely many.
LEMMA SequencesIn ==
    ASSUME LogInv, NEW s
    PROVE  IsFiniteSet(Sequences(ReadEvents(lines), s)) /\ Sequences(ReadEvents(lines), s) \subseteq Nat
<1> DEFINE e == ReadEvents(lines)
           D == {i \in DOMAIN e : e[i].session = s}
           f == [i \in D |-> e[i].sequence]
<1>1. IsFiniteSet(D)
  <2>1. D \subseteq DOMAIN lines
    BY EventFacts
  <2> QED BY <2>1, LinesFinite
<1>2. {f[i] : i \in DOMAIN f} = Sequences(e, s)
  BY DEF Sequences
<1>3. IsFiniteSet({f[i] : i \in DOMAIN f})
  <2>1. DOMAIN f = D
    OBVIOUS
  <2> HIDE DEF f, D
  <2> QED BY <1>1, <2>1, ImageFinite
<1>4. ASSUME NEW i \in DOMAIN e PROVE e[i].sequence \in Nat
  <2>1. i \in DOMAIN lines /\ e[i] = lines[i] /\ lines[i].event \in {"tool_start", "tool_end"}
    BY EventFacts
  <2> HIDE DEF e
  <2> QED BY <2>1, LineOf, LineFacts DEF LogInv, LogTypeOK
<1>5. Sequences(e, s) \subseteq Nat
  BY <1>4 DEF Sequences
<1> QED BY <1>2, <1>3, <1>5

\* A successful earlier call was known, and returned intervals.
LEMMA SuccessfulKnown ==
    ASSUME LogInv, NEW s, NEW n \in Ordered(ReadEvents(lines), s),
           NEW m \in Prior(ReadEvents(lines), s, n)
    PROVE  m \in Ordered(ReadEvents(lines), s) /\ <<s, m>> \in known[<<s, n>>]
<1> DEFINE e == ReadEvents(lines)
<1>1. m \in Ordered(e, s) /\ Completed(e, s, m) > 0 /\ Completed(e, s, m) < Begun(e, s, n)
  BY DEF Prior, Precedes
<1>2. Begun(e, s, n) > 0
  BY DEF Ordered
<1> HIDE DEF e
<1> QED BY <1>1, <1>2, EndedKnown DEF e

\* Fallbacks, duplicates and followups concern a call that was known.
LEMMA OneIsKnown ==
    ASSUME LogInv, NEW s, NEW m \in Ordered(ReadEvents(lines), s),
           NEW n \in Ordered(ReadEvents(lines), s),
           \/ Fallback(ReadEvents(lines), s, m, n)
           \/ Duplicate(ReadEvents(lines), s, m, n)
           \/ Followup(ReadEvents(lines), s, m, n)
    PROVE  <<s, m>> \in known[<<s, n>>]
<1> DEFINE e == ReadEvents(lines)
<1>1. CASE Fallback(e, s, m, n)
  BY <1>1, SuccessfulKnown DEF Fallback
<1>2. CASE Duplicate(e, s, m, n)
  <2> DEFINE same == {k \in Successful(e, s, n) :
                        NormalizedArguments(Request(e, s, k)) = NormalizedArguments(Request(e, s, n))}
  <2>1. same # {} /\ m = Max(same)
    BY <1>2 DEF Duplicate
  <2>2. same \subseteq Prior(e, s, n) /\ same \subseteq Sequences(e, s)
    BY DEF Successful, Prior, Ordered
  <2>3. IsFiniteSet(same) /\ same \subseteq Nat
    <3> HIDE DEF same
    <3> QED BY <2>2, SequencesIn, FS_Subset
  <2>4. m \in same
    <3> HIDE DEF same
    <3> QED BY <2>1, <2>3, MaxIn
  <2> HIDE DEF same
  <2> QED BY <2>2, <2>4, SuccessfulKnown
<1>3. CASE Followup(e, s, m, n)
  <2>1. Completed(e, s, m) > 0 /\ Begun(e, s, n) > Completed(e, s, m)
    BY <1>3 DEF Followup, Succeeded
  <2>2. Begun(e, s, n) \in Nat /\ Completed(e, s, m) \in Nat
    BY PositionFacts DEF Begun, Completed
  <2>3. Begun(e, s, n) > 0 /\ Completed(e, s, m) < Begun(e, s, n)
    <3> HIDE DEF e
    <3> QED BY <2>1, <2>2
  <2> QED BY <2>1, <2>3, EndedKnown
<1> QED BY <1>1, <1>2, <1>3

\* Intervals that overlap have a line in common.
LEMMA OverlapShares ==
    ASSUME NEW a \in Interval, NEW b \in Interval, Overlap(a, b)
    PROVE  \E k \in Nat : k \in a[2] .. a[3] /\ k \in b[2] .. b[3] /\ a[1] = b[1]
<1>1. /\ a[2] \in Nat /\ a[3] \in Nat /\ b[2] \in Nat /\ b[3] \in Nat
      /\ a[1] = b[1] /\ Max({a[2], b[2]}) <= Min({a[3], b[3]})
  BY DEF Interval, Overlap
<1> DEFINE low == Max({a[2], b[2]})
           high == Min({a[3], b[3]})
<1>2. low \in {a[2], b[2]} /\ a[2] <= low /\ b[2] <= low
  <2> DEFINE T == {a[2], b[2]}
  <2>1. T \subseteq Nat /\ T # {} /\ T = {a[2]} \cup {b[2]}
    BY <1>1
  <2>2. a[2] \in T /\ b[2] \in T
    OBVIOUS
  <2> HIDE DEF T
  <2>3. IsFiniteSet(T)
    BY <2>1, FS_Singleton, FS_Union
  <2>4. Max(T) \in T /\ \A y \in T : y <= Max(T)
    BY <2>1, <2>3, MaxIn
  <2> QED BY <2>2, <2>4 DEF T
<1>3. high \in {a[3], b[3]} /\ high <= a[3] /\ high <= b[3]
  <2> DEFINE T == {a[3], b[3]}
  <2>1. T \subseteq Nat /\ T # {}
    BY <1>1
  <2>2. a[3] \in T /\ b[3] \in T
    OBVIOUS
  <2> HIDE DEF T
  <2>3. Min(T) \in T /\ \A y \in T : Min(T) <= y
    BY <2>1, MinIn
  <2> QED BY <2>2, <2>3 DEF T
<1>4. low <= high
  BY <1>1
<1> HIDE DEF low, high
<1>5. low \in Nat /\ low \in a[2] .. a[3] /\ low \in b[2] .. b[3]
  BY <1>1, <1>2, <1>3, <1>4
<1> QED BY <1>1, <1>5

\* What verifies an answer reads a line of it.
LEMMA VerifiedShares ==
    ASSUME LogInv, NEW s, NEW m, NEW n, Verification(ReadEvents(lines), s, m, n)
    PROVE  LinesOf(Outcome(ReadEvents(lines), s, m).locations)
             \cap LinesOf(Outcome(ReadEvents(lines), s, n).locations) # {}
<1> DEFINE e == ReadEvents(lines)
           before == Outcome(e, s, m).locations
           after == Outcome(e, s, n).locations
<1>1. Succeeded(e, s, m) /\ Overlapping(e, s, m, n)
  BY DEF Verification, Followup
<1>2. Succeeded(e, s, n) /\ \E a \in ToSet(before), b \in ToSet(after) : Overlap(a, b)
  BY <1>1 DEF Overlapping
<1>3. before \in Seq(Interval) /\ after \in Seq(Interval)
  BY <1>1, <1>2, Located
<1> HIDE DEF before, after, e
<1>4. PICK a \in ToSet(before), b \in ToSet(after) : Overlap(a, b)
  BY <1>2
<1>5. a \in Interval /\ b \in Interval
  BY <1>3, LocationsIn
<1>6. PICK k \in Nat : k \in a[2] .. a[3] /\ k \in b[2] .. b[3] /\ a[1] = b[1]
  BY <1>4, <1>5, OverlapShares
<1>7. <<a[1], k>> \in LinesOf(before) /\ <<a[1], k>> \in LinesOf(after)
  BY <1>6 DEF LinesOf
<1> QED BY <1>7 DEF before, after, e

\* The earlier locations are finitely many intervals.
LEMMA OldIn ==
    ASSUME LogInv, NEW s, NEW n, NEW tools
    PROVE  /\ OldLocations(ReadEvents(lines), s, n, tools) \in SUBSET Interval
           /\ IsFiniteSet(OldLocations(ReadEvents(lines), s, n, tools))
<1> DEFINE e == ReadEvents(lines)
           M == {k \in Successful(e, s, n) : Request(e, s, k).tool \in tools}
           f == [m \in M |-> ToSet(Outcome(e, s, m).locations)]
           R == {f[m] : m \in DOMAIN f}
<1>1. OldLocations(e, s, n, tools) = UNION R
  BY DEF OldLocations
<1>2. ASSUME NEW T \in R PROVE T \in SUBSET Interval /\ IsFiniteSet(T)
  <2>1. PICK m \in M : T = ToSet(Outcome(e, s, m).locations)
    OBVIOUS
  <2>2. Succeeded(e, s, m)
    BY DEF Successful
  <2>3. Outcome(e, s, m).locations \in Seq(Interval)
    BY <2>2, Located
  <2> HIDE DEF e, R
  <2> QED BY <2>1, <2>3, LocationsIn
<1>3. IsFiniteSet(R)
  <2>1. M \subseteq Sequences(e, s)
    BY DEF Successful, Prior, Ordered
  <2>2. IsFiniteSet(M)
    <3> HIDE DEF M
    <3> QED BY <2>1, SequencesIn, FS_Subset
  <2>3. DOMAIN f = M
    OBVIOUS
  <2> HIDE DEF M, f
  <2> QED BY <2>2, <2>3, ImageFinite
<1> HIDE DEF R
<1>4. IsFiniteSet(UNION R)
  BY <1>2, <1>3, FS_UNION
<1>5. UNION R \in SUBSET Interval
  BY <1>2
<1> QED BY <1>1, <1>4, <1>5

\* The lines that the calls a call knew had delivered.
Delivered(s, n) ==
    UNION {LinesOf(Outcome(ReadEvents(lines), s, m).locations) :
              m \in {k \in Ordered(ReadEvents(lines), s) :
                       /\ <<s, k>> \in known[<<s, n>>]
                       /\ Succeeded(ReadEvents(lines), s, k)}}

\* What repeats locations, or reads again, had been delivered.
LEMMA RepeatsDelivered ==
    ASSUME LogInv, NEW s, NEW tools, NEW n \in Repeats(ReadEvents(lines), s, tools)
    PROVE  LinesOf(Outcome(ReadEvents(lines), s, n).locations) \subseteq Delivered(s, n)
<1> DEFINE e == ReadEvents(lines)
           now == Outcome(e, s, n).locations
           old == OldLocations(e, s, n, tools)
<1>1. n \in Ordered(e, s) /\ Succeeded(e, s, n) /\ \A i \in ToSet(now) : Covered(i, old)
  BY DEF Repeats
<1>2. now \in Seq(Interval)
  BY <1>1, Located
<1>3. old \in SUBSET Interval /\ IsFiniteSet(old)
  BY OldIn
<1>4. ASSUME NEW o \in old
      PROVE  \E m \in Ordered(e, s) : /\ <<s, m>> \in known[<<s, n>>] /\ Succeeded(e, s, m)
                                      /\ o \in ToSet(Outcome(e, s, m).locations)
  <2>1. PICK m \in Successful(e, s, n) : o \in ToSet(Outcome(e, s, m).locations)
    BY DEF OldLocations
  <2>2. m \in Prior(e, s, n) /\ Succeeded(e, s, m)
    BY DEF Successful
  <2>3. m \in Ordered(e, s) /\ <<s, m>> \in known[<<s, n>>]
    BY <1>1, <2>2, SuccessfulKnown
  <2> QED BY <2>1, <2>2, <2>3
<1> HIDE DEF now, old, e
<1>5. ASSUME NEW i \in ToSet(now), NEW k \in i[2] .. i[3] PROVE <<i[1], k>> \in Delivered(s, n)
  <2>1. i \in Interval
    BY <1>2, LocationsIn
  <2>2. InEarlier(i, old, k)
    BY <1>1, <1>3, <2>1, CoveredSound
  <2>3. PICK o \in old : o[1] = i[1] /\ o[2] <= k /\ k <= o[3]
    BY <2>2 DEF InEarlier
  <2>4. PICK m \in Ordered(e, s) : /\ <<s, m>> \in known[<<s, n>>] /\ Succeeded(e, s, m)
                                   /\ o \in ToSet(Outcome(e, s, m).locations)
    BY <1>4
  <2>5. k \in o[2] .. o[3]
    BY <1>3, <2>1, <2>3 DEF Interval
  <2>6. <<i[1], k>> \in LinesOf(Outcome(e, s, m).locations)
    BY <2>3, <2>4, <2>5 DEF LinesOf
  <2> QED BY <2>4, <2>6 DEF Delivered, e
<1>6. LinesOf(now) \subseteq Delivered(s, n)
  BY <1>5 DEF LinesOf
<1> QED BY <1>6 DEF now, e

\* The invariant gives BlamesThePast.
LEMMA LogBlames == LogInv => BlamesThePast
<1> SUFFICES ASSUME LogInv, NEW s
             PROVE  LET events == ReadEvents(lines) IN
            /\ \A m, n \in Ordered(events, s) :
                  Fallback(events, s, m, n) \/ Duplicate(events, s, m, n) \/ Followup(events, s, m, n)
                      => <<s, m>> \in known[<<s, n>>]
            /\ \A m, n \in Ordered(events, s) :
                  Verification(events, s, m, n) =>
                      LinesOf(Outcome(events, s, m).locations)
                        \cap LinesOf(Outcome(events, s, n).locations) # {}
            /\ \A n \in RepeatedLocations(events, s) \cup RedundantReads(events, s) :
                  LinesOf(Outcome(events, s, n).locations) \subseteq Delivered(s, n)
  BY DEF BlamesThePast, Delivered
<1> QED BY OneIsKnown, VerifiedShares, RepeatsDelivered DEF RepeatedLocations, RedundantReads

\* A call is blamed on another one only when that one had answered before it began.
THEOREM Blame == LogInit /\ [][LogNext]_logVars => []BlamesThePast
<1>1. LogInv /\ [LogNext]_logVars => LogInv'
  BY LogStep
<1> QED BY <1>1, LogStart, LogBlames, PTL

-----------------------------------------------------------------------------
(* What is said to be saved. *)

\* The sum of one number is that number.
LEMMA SumOne ==
    ASSUME NEW a, NEW f, DOMAIN f = {a}, f[a] \in Int
    PROVE  SumFunction(f) = f[a]
<1> DEFINE D == SUBSET {a}
           pick(s) == CHOOSE x \in s : TRUE
           Body(g, s) == IF s = {} THEN 0 ELSE f[pick(s)] + g[s \ {pick(s)}]
           P == CHOOSE g : g = [s \in D |-> Body(g, s)]
           w == [s \in D |-> IF s = {} THEN 0 ELSE f[a]]
<1>1. SumFunction(f) = P[{a}]
  BY DEF SumFunction, SumFunctionOnSet, FoldFunctionOnSet, MapThenFoldSet
<1>2. pick({a}) = a
  OBVIOUS
<1>3. w = [s \in D |-> Body(w, s)]
  <2>1. w[{}] = 0 /\ w[{a}] = f[a]
    OBVIOUS
  <2>2. Body(w, {}) = 0
    OBVIOUS
  <2>3. Body(w, {a}) = f[a] + w[{a} \ {a}]
    BY <1>2
  <2>4. {a} \ {a} = {}
    OBVIOUS
  <2>5. Body(w, {a}) = f[a]
    <3> HIDE DEF Body, w
    <3>1. w[{a} \ {a}] = w[{}]
      BY <2>4, Zenon
    <3>2. w[{a} \ {a}] = 0
      BY <2>1, <3>1, Zenon
    <3> QED BY <2>3, <3>2
  <2>6. \A s \in D : s = {} \/ s = {a}
    OBVIOUS
  <2>7. \A s \in D : w[s] = Body(w, s)
    <3> HIDE DEF Body, w, D
    <3> QED BY <2>1, <2>2, <2>5, <2>6
  <2>8. w = [s \in D |-> w[s]]
    OBVIOUS
  <2> HIDE DEF Body, w, D
  <2> QED BY <2>7, <2>8
<1>4. P = [s \in D |-> Body(P, s)]
  <2> HIDE DEF Body, D, w
  <2> QED BY <1>3
<1> HIDE DEF P
<1>5. P[{}] = 0
  <2>1. {} \in D
    OBVIOUS
  <2> HIDE DEF D
  <2> QED BY <1>4, <2>1
<1>6. P[{a}] = f[pick({a})] + P[{a} \ {pick({a})}]
  <2>1. {a} \in D /\ {a} # {}
    OBVIOUS
  <2>2. P[{a}] = Body(P, {a})
    <3> HIDE DEF D, Body
    <3> QED BY <1>4, <2>1
  <2> HIDE DEF D, pick
  <2> QED BY <2>1, <2>2
<1>7. {a} \ {a} = {}
  OBVIOUS
<1> HIDE DEF pick
<1>8. f[pick({a})] = f[a] /\ P[{a} \ {pick({a})}] = P[{}]
  BY <1>2, <1>7, Zenon
<1>9. P[{a}] = f[a] + P[{}]
  BY <1>6, <1>8, Zenon
<1>10. P[{a}] = f[a]
  BY <1>5, <1>9
<1> QED BY <1>1, <1>10, Zenon

\* A set with one element, from its number of elements.
LEMMA OneTrial ==
    ASSUME LogInv, NEW T, T \subseteq DOMAIN archive, Cardinality(T) = 1
    PROVE  \E i \in DOMAIN archive : T = {i}
<1>1. IsFiniteSet(DOMAIN archive)
  <2> DEFINE S == {archive[i] : i \in DOMAIN archive}
  <2>1. archive \in Seq(S)
    BY DEF LogInv
  <2> HIDE DEF S
  <2>2. DOMAIN archive = 1 .. Len(archive) /\ Len(archive) \in Nat
    BY <2>1
  <2> QED BY <2>2, FS_Interval
<1>2. IsFiniteSet(T)
  BY <1>1, FS_Subset
<1>3. PICK i : T = {i}
  BY <1>2, FS_Singleton
<1> QED BY <1>3

\* What a profile is said to add up to, by its counts and by its calls.
CountsOf(profile, t) == [i \in EligibleOf(profile) |-> archive[i].counts[t]]
CallsOf(profile, t) == [i \in EligibleOf(profile) |-> archive[i].calls[t]]
SavedBy(baseline, variant, t) == [p \in PairsOf(baseline, variant) |-> Saved(p[1], p[2], t)]

\* An eligible trial counts its calls.
LEMMA EligibleCounts ==
    ASSUME LogInv, NEW i \in DOMAIN archive, NEW t \in Tools
    PROVE  /\ archive[i].counts[t] \in Nat
           /\ archive[i].eligible => archive[i].counts[t] = archive[i].calls[t]
  BY DEF LogInv, CountsTrue

\* The calls of a stratum are the sum of the counts of its eligible trials.
LEMMA StratumCalls ==
    ASSUME NEW profile, NEW t \in Tools
    PROVE  Stratum(profile).calls[t] = SumFunction(CountsOf(profile, t))
<1> DEFINE c == [u \in Tools |-> SumFunction(CountsOf(profile, u))]
<1>1. Stratum(profile).calls = c
  BY DEF Stratum, Tools, CountsOf
<1>2. c[t] = SumFunction(CountsOf(profile, t))
  OBVIOUS
<1> HIDE DEF c
<1> QED BY <1>1, <1>2

\* Those counts are the calls their servers began.
LEMMA CountsAreCalls ==
    ASSUME LogInv, NEW profile, NEW t \in Tools
    PROVE  CountsOf(profile, t) = CallsOf(profile, t)
<1>1. \A i \in EligibleOf(profile) : archive[i].counts[t] = archive[i].calls[t]
  BY EligibleCounts DEF EligibleOf
<1> QED BY <1>1 DEF CountsOf, CallsOf

\* Both trials of a pair are eligible.
LEMMA ComparedEligible ==
    ASSUME NEW p \in Compared
    PROVE  /\ p[1] \in DOMAIN archive /\ p[2] \in DOMAIN archive
           /\ archive[p[1]].eligible /\ archive[p[2]].eligible
  BY DEF Compared

\* What a pair saved is the difference of the calls.
LEMMA PairSaved ==
    ASSUME LogInv, NEW p \in Compared, NEW t \in Tools
    PROVE  Saved(p[1], p[2], t) = archive[p[1]].calls[t] - archive[p[2]].calls[t]
  BY ComparedEligible, EligibleCounts DEF Saved

\* Two profiles of one eligible trial each differ by what their pair saved.
LEMMA OnePair ==
    ASSUME LogInv, NEW t \in Tools, NEW pair \in Comparisons,
           NEW i \in DOMAIN archive, EligibleOf(pair[1]) = {i},
           NEW j \in DOMAIN archive, EligibleOf(pair[2]) = {j}
    PROVE  MatchedSaved(pair[1], pair[2], t)
             = Stratum(pair[1]).calls[t] - Stratum(pair[2]).calls[t]
<1>1. /\ archive[i].profile = pair[1] /\ archive[i].eligible
      /\ archive[j].profile = pair[2] /\ archive[j].eligible
  BY DEF EligibleOf
<1>2. pair = <<pair[1], pair[2]>>
  BY DEF Comparisons
<1>3. PairsOf(pair[1], pair[2]) = {<<i, j>>}
  <2>1. <<i, j>> \in PairsOf(pair[1], pair[2])
    BY <1>1, <1>2 DEF PairsOf, Compared
  <2>2. ASSUME NEW p \in PairsOf(pair[1], pair[2]) PROVE p = <<i, j>>
    <3>1. /\ p = <<p[1], p[2]>> /\ p[1] \in DOMAIN archive /\ p[2] \in DOMAIN archive
          /\ archive[p[1]].eligible /\ archive[p[2]].eligible
          /\ archive[p[1]].profile = pair[1] /\ archive[p[2]].profile = pair[2]
      BY DEF PairsOf, Compared
    <3>2. p[1] \in EligibleOf(pair[1]) /\ p[2] \in EligibleOf(pair[2])
      BY <3>1 DEF EligibleOf
    <3> QED BY <3>1, <3>2
  <2> QED BY <2>1, <2>2
<1>4. archive[i].counts[t] \in Nat /\ archive[j].counts[t] \in Nat
  BY EligibleCounts
<1>5. Stratum(pair[1]).calls[t] = archive[i].counts[t]
  <2> DEFINE f == CountsOf(pair[1], t)
  <2>1. DOMAIN f = {i} /\ f[i] = archive[i].counts[t]
    BY DEF CountsOf
  <2>2. Stratum(pair[1]).calls[t] = SumFunction(f)
    BY StratumCalls
  <2> HIDE DEF f
  <2>3. f[i] \in Int
    BY <1>4, <2>1
  <2> QED BY <2>1, <2>2, <2>3, SumOne
<1>6. Stratum(pair[2]).calls[t] = archive[j].counts[t]
  <2> DEFINE f == CountsOf(pair[2], t)
  <2>1. DOMAIN f = {j} /\ f[j] = archive[j].counts[t]
    BY DEF CountsOf
  <2>2. Stratum(pair[2]).calls[t] = SumFunction(f)
    BY StratumCalls
  <2> HIDE DEF f
  <2>3. f[j] \in Int
    BY <1>4, <2>1
  <2> QED BY <2>1, <2>2, <2>3, SumOne
<1>7. MatchedSaved(pair[1], pair[2], t) = archive[i].counts[t] - archive[j].counts[t]
  <2> DEFINE f == SavedBy(pair[1], pair[2], t)
  <2>1. DOMAIN f = {<<i, j>>} /\ f[<<i, j>>] = archive[i].counts[t] - archive[j].counts[t]
    BY <1>3 DEF SavedBy, Saved
  <2>2. MatchedSaved(pair[1], pair[2], t) = SumFunction(f)
    BY DEF MatchedSaved, SavedBy
  <2> HIDE DEF f
  <2>3. f[<<i, j>>] \in Int
    BY <1>4, <2>1
  <2> QED BY <2>1, <2>2, <2>3, SumOne
<1> QED BY <1>5, <1>6, <1>7

\* The invariant gives SavedIsTrue.
LEMMA LogSaves == LogInv => SavedIsTrue
<1> SUFFICES ASSUME LogInv PROVE SavedIsTrue
  OBVIOUS
<1> DEFINE profiles == {archive[i].profile : i \in DOMAIN archive}
           stratum == [profile \in profiles |-> Stratum(profile)]
           whole == {p \in profiles : stratum[p].eligible = stratum[p].planned}
<1>1. \A p \in profiles : stratum[p] = Stratum(p)
  OBVIOUS
<1>2. \A p \in Compared : \A t \in Tools :
          Saved(p[1], p[2], t) = archive[p[1]].calls[t] - archive[p[2]].calls[t]
  BY PairSaved
<1>3. \A p \in whole : \A t \in Tools : stratum[p].calls[t] = SumFunction(CallsOf(p, t))
  <2> SUFFICES ASSUME NEW p \in whole, NEW t \in Tools
               PROVE  stratum[p].calls[t] = SumFunction(CallsOf(p, t))
    OBVIOUS
  <2>1. stratum[p] = Stratum(p)
    OBVIOUS
  <2> HIDE DEF stratum, whole
  <2> QED BY <2>1, StratumCalls, CountsAreCalls
<1>4. ASSUME NEW pair \in Comparisons \cap (whole \X whole),
             \A q \in ToSet(pair) : stratum[q].planned = 1, NEW t \in Tools
      PROVE  MatchedSaved(pair[1], pair[2], t)
               = stratum[pair[1]].calls[t] - stratum[pair[2]].calls[t]
  <2>1. pair[1] \in whole /\ pair[2] \in whole /\ pair \in Comparisons
    OBVIOUS
  <2>2. pair[1] \in ToSet(pair) /\ pair[2] \in ToSet(pair)
    BY <2>1 DEF Comparisons, ToSet
  <2>3. ASSUME NEW q \in whole, q \in ToSet(pair)
        PROVE  stratum[q] = Stratum(q) /\ \E i \in DOMAIN archive : EligibleOf(q) = {i}
    <3>1. stratum[q] = Stratum(q)
      OBVIOUS
    <3>2. Stratum(q).planned = 1 /\ Stratum(q).eligible = 1
      BY <1>4, <2>3, <3>1
    <3>3. Cardinality(EligibleOf(q)) = 1
      BY <3>2 DEF Stratum
    <3>4. EligibleOf(q) \subseteq DOMAIN archive
      BY DEF EligibleOf
    <3> QED BY <3>1, <3>3, <3>4, OneTrial
  <2> HIDE DEF whole, stratum
  <2>4. PICK i \in DOMAIN archive : EligibleOf(pair[1]) = {i}
    BY <2>1, <2>2, <2>3
  <2>5. PICK j \in DOMAIN archive : EligibleOf(pair[2]) = {j}
    BY <2>1, <2>2, <2>3
  <2>6. stratum[pair[1]] = Stratum(pair[1]) /\ stratum[pair[2]] = Stratum(pair[2])
    BY <2>1, <2>2, <2>3
  <2> QED BY <2>1, <2>4, <2>5, <2>6, OnePair
<1> HIDE DEF stratum, whole
<1> QED BY <1>2, <1>3, <1>4 DEF SavedIsTrue, Tools, CallsOf, stratum, whole

\* What a pair of trials is said to have saved is the difference of what the servers did.
THEOREM Savings == LogInit /\ [][LogNext]_logVars => []SavedIsTrue
<1>1. LogInv /\ [LogNext]_logVars => LogInv'
  BY LogStep
<1> QED BY <1>1, LogStart, LogSaves, PTL

-----------------------------------------------------------------------------
(* GradedRun: the score a trial was first given. *)

\* The credits a reply of the run may ever get, and those of a trial not ended.
Credits ==
    {-1} \cup {Credit(AnswerJson(r), Asked[t].gold, Tables[v][c]) :
                  r \in Seq(Segments), t \in Trials, v \in DOMAIN Tables, c \in DOMAIN Tables[1]}
Scores == [credit : Credits, before : Credits, resolved : BOOLEAN, strict : BOOLEAN]
Changes == [trial : Trials, from : Credits, to : Credits]

GradeTypes ==
    /\ reply \in [Trials -> Seq(Segments)]
    /\ run \in [Trials -> Scores]
    /\ version \in DOMAIN Tables
    /\ regrade \in [corpus : Regrades \cup {"none"}, at : Nat, changes : Seq(Changes)]
    /\ ledger \in Seq(Seq(Changes))
    /\ frozen \in [Trials -> Credits]
    /\ deaths \in Nat

\* Nothing is regraded, or was, before every trial has ended.
RegradesLast ==
    /\ regrade # NoRegrade => Ended = Trials /\ regrade.corpus \in Regrades
    /\ Ended # Trials => ledger = <<>>

GradeInv == GradeTypes /\ RegradesLast /\ ReadsBack

LEMMA GradeStart == GradeInit => GradeInv
<1> SUFFICES ASSUME GradeInit PROVE GradeInv
  OBVIOUS
<1> USE DEF GradeInit
<1>1. NoScore \in Scores
  BY DEF NoScore, Scores, Credits
<1>2. NoRegrade \in [corpus : Regrades \cup {"none"}, at : Nat, changes : Seq(Changes)]
  BY DEF NoRegrade
<1>3. -1 \in Credits
  BY DEF Credits
<1>4. 1 \in DOMAIN Tables
  BY GradedRunAssumption
<1>5. GradeTypes
  BY <1>1, <1>2, <1>3, <1>4 DEF GradeTypes
<1>6. RegradesLast
  BY DEF RegradesLast
<1>7. Ended = {}
  BY DEF Ended
<1> QED BY <1>5, <1>6, <1>7 DEF GradeInv, ReadsBack

\* The credit of a reply is one of the credits.
LEMMA CreditIn ==
    ASSUME GradeTypes, NEW t \in Trials, NEW corpus \in DOMAIN Tables[1]
    PROVE  ResolvedCredit(t, corpus) \in Credits
<1>1. reply[t] \in Seq(Segments) /\ version \in DOMAIN Tables
  BY DEF GradeTypes
<1> QED BY <1>1 DEF ResolvedCredit, Credits

\* The trial at hand is one that has not ended.
LEMMA CurrentOpen ==
    ASSUME Ended # Trials
    PROVE  Current \in Trials \ Ended
<1>1. Trials \subseteq Nat
  <2>1. Cardinality(Trials) \in Nat /\ Trials = 1 .. Cardinality(Trials)
    BY GradedRunAssumption, FS_CardinalityType
  <2> QED BY <2>1
<1>2. Trials \ Ended # {}
  BY DEF Ended
<1>3. \E t \in Trials \ Ended : \A u \in Trials \ Ended : t <= u
  BY <1>1, <1>2, Least
<1> QED BY <1>3 DEF Current

\* The lists are the ledger and, behind it, the changes of the regrade that runs.
LEMMA ListsAre ==
    ASSUME GradeTypes
    PROVE  /\ Len(ledger) \in Nat /\ DOMAIN Lists = 1 .. Len(ledger) + 1
           /\ \A i \in 1 .. Len(ledger) : Lists[i] = ledger[i]
           /\ Lists[Len(ledger) + 1] = regrade.changes
<1> HIDE DEF Changes
<1>1. ledger \in Seq(Seq(Changes)) /\ regrade.changes \in Seq(Changes)
  BY DEF GradeTypes
<1> QED BY <1>1 DEF Lists

LEMMA StepWrites ==
    ASSUME GradeInv, NEW segment \in Segments, Writes(segment)
    PROVE  GradeInv'
<1> USE DEF GradeInv, Writes
<1>1. Current \in Trials
  BY CurrentOpen
<1>2. reply' \in [Trials -> Seq(Segments)]
  <2>1. Append(reply[Current], segment) \in Seq(Segments)
    BY <1>1 DEF GradeTypes
  <2> QED BY <1>1, <2>1 DEF GradeTypes
<1>3. GradeTypes'
  BY <1>2 DEF GradeTypes
<1>4. RegradesLast'
  BY DEF RegradesLast, Ended
<1>5. ReadsBack'
  BY DEF ReadsBack, Ended, Lists, FirstNames, Silent
<1> QED BY <1>3, <1>4, <1>5

LEMMA StepEndTrial ==
    ASSUME GradeInv, EndTrial
    PROVE  GradeInv'
<1> USE DEF GradeInv
<1> DEFINE t == Current
<1>1. t \in Trials \ Ended
  BY CurrentOpen DEF EndTrial
<1>2. PICK credit \in {ResolvedCredit(t, Asked[t].corpus)}, strict \in BOOLEAN :
         /\ run' = [run EXCEPT ![t] = [credit |-> credit, before |-> -1,
                                       resolved |-> credit = Full, strict |-> strict]]
         /\ frozen' = [frozen EXCEPT ![t] = credit]
  BY DEF EndTrial
<1>3. UNCHANGED <<reply, version, regrade, ledger, deaths>> /\ Ended # Trials
  BY DEF EndTrial
<1> HIDE DEF t
<1>4. credit \in Credits
  BY <1>1, <1>2, CreditIn, GradedRunAssumption
<1>5. GradeTypes'
  <2>1. -1 \in Credits
    BY DEF Credits
  <2>2. [credit |-> credit, before |-> -1, resolved |-> credit = Full, strict |-> strict] \in Scores
    BY <1>4, <2>1 DEF Scores
  <2> HIDE DEF Scores, Credits
  <2> QED BY <1>1, <1>2, <1>3, <1>4, <2>2 DEF GradeTypes
<1>6. regrade = NoRegrade /\ ledger = <<>>
  BY <1>3 DEF RegradesLast
<1>7. RegradesLast'
  BY <1>3, <1>6 DEF RegradesLast
<1>8. ReadsBack'
  <2>1. Lists' = Lists /\ Lists = <<<<>>>>
    BY <1>3, <1>6 DEF Lists, NoRegrade
  <2>2. ASSUME deaths = 0, NEW u \in Ended' PROVE frozen'[u] = run'[u].credit
    <3>1. CASE u = t
      BY <1>1, <1>2, <3>1 DEF GradeTypes
    <3>2. CASE u # t
      <4>1. u \in Trials /\ run'[u] = run[u] /\ frozen'[u] = frozen[u]
        BY <1>1, <1>2, <3>2 DEF GradeTypes, Ended
      <4>2. u \in Ended
        BY <4>1 DEF Ended
      <4>3. \A i \in DOMAIN Lists : Silent(Lists[i], u)
        BY <2>1 DEF Silent
      <4> QED BY <2>2, <4>1, <4>2, <4>3 DEF ReadsBack
    <3> QED BY <3>1, <3>2
  <2>3. \A i \in DOMAIN Lists : DOMAIN Lists[i] = {}
    BY <2>1
  <2> QED BY <1>3, <2>1, <2>2, <2>3 DEF ReadsBack
<1> QED BY <1>5, <1>7, <1>8

LEMMA StepRepair ==
    ASSUME GradeInv, Repair
    PROVE  GradeInv'
<1> USE DEF GradeInv, Repair
<1>1. version' \in DOMAIN Tables
  BY GradedRunAssumption DEF GradeTypes
<1>2. GradeTypes'
  BY <1>1 DEF GradeTypes
<1>3. RegradesLast'
  BY DEF RegradesLast, Ended
<1>4. ReadsBack'
  BY DEF ReadsBack, Ended, Lists, FirstNames, Silent
<1> QED BY <1>2, <1>3, <1>4

LEMMA StepRegradeStarts ==
    ASSUME GradeInv, NEW corpus \in Regrades, RegradeStarts(corpus)
    PROVE  GradeInv'
<1> USE DEF GradeInv, RegradeStarts
<1>1. GradeTypes'
  <2>1. regrade' \in [corpus : Regrades \cup {"none"}, at : Nat, changes : Seq(Changes)]
    OBVIOUS
  <2> QED BY <2>1 DEF GradeTypes
<1>2. RegradesLast'
  BY DEF RegradesLast, Ended
<1>3. Lists' = Lists
  BY DEF Lists, NoRegrade
<1>4. ReadsBack'
  BY <1>3 DEF ReadsBack, Ended, FirstNames, Silent
<1> QED BY <1>1, <1>2, <1>4

LEMMA StepRegradeDies ==
    ASSUME GradeInv, RegradeDies
    PROVE  GradeInv'
<1> USE DEF GradeInv, RegradeDies
<1>1. GradeTypes'
  <2>1. NoRegrade \in [corpus : Regrades \cup {"none"}, at : Nat, changes : Seq(Changes)]
    BY DEF NoRegrade
  <2> QED BY <2>1 DEF GradeTypes
<1>2. RegradesLast'
  BY DEF RegradesLast, Ended
<1>3. deaths' # 0
  BY DEF GradeTypes
<1>4. ReadsBack'
  BY <1>3 DEF ReadsBack
<1> QED BY <1>1, <1>2, <1>4

LEMMA StepRegradeEnds ==
    ASSUME GradeInv, RegradeEnds
    PROVE  GradeInv'
<1> USE DEF GradeInv, RegradeEnds
<1>1. GradeTypes'
  <2>1. NoRegrade \in [corpus : Regrades \cup {"none"}, at : Nat, changes : Seq(Changes)]
    BY DEF NoRegrade
  <2> HIDE DEF Changes
  <2>2. ledger' \in Seq(Seq(Changes))
    <3>1. regrade.changes \in Seq(Changes) /\ ledger \in Seq(Seq(Changes))
      BY DEF GradeTypes
    <3> DEFINE S == Seq(Changes)
    <3> HIDE DEF S
    <3> QED BY <3>1 DEF S
  <2> QED BY <2>1, <2>2 DEF GradeTypes
<1>2. RegradesLast'
  BY DEF RegradesLast, Ended
<1>3. /\ DOMAIN Lists' = 1 .. Len(ledger) + 2
      /\ \A i \in 1 .. Len(ledger) + 1 : Lists'[i] = Lists[i]
      /\ Lists'[Len(ledger) + 2] = <<>>
  <2>1. Lists' = Append(Lists, <<>>)
    BY DEF Lists, NoRegrade
  <2>2. Lists \in Seq(Seq(Changes)) /\ Len(Lists) = Len(ledger) + 1
    <3> HIDE DEF Changes
    <3>1. regrade.changes \in Seq(Changes) /\ ledger \in Seq(Seq(Changes))
      BY DEF GradeTypes
    <3> QED BY <3>1 DEF Lists
  <2> HIDE DEF Changes
  <2> QED BY <2>1, <2>2, ListsAre
<1>4. ReadsBack'
  <2> SUFFICES ASSUME deaths = 0, NEW t \in Ended
               PROVE  /\ (\A i \in DOMAIN Lists' : Silent(Lists'[i], t)) => frozen[t] = run[t].credit
                      /\ \A i \in DOMAIN Lists' : \A j \in DOMAIN Lists'[i] :
                            FirstNames(i, j, t)' => frozen[t] = Lists'[i][j].from
    BY DEF ReadsBack, Ended, Silent
  <2>1. DOMAIN Lists = 1 .. Len(ledger) + 1 /\ Len(ledger) \in Nat
    BY ListsAre
  <2>2. ASSUME \A i \in DOMAIN Lists' : Silent(Lists'[i], t) PROVE frozen[t] = run[t].credit
    <3>1. \A i \in DOMAIN Lists : Silent(Lists[i], t)
      BY <1>3, <2>1, <2>2
    <3> QED BY <3>1 DEF ReadsBack
  <2>3. ASSUME NEW i \in DOMAIN Lists', NEW j \in DOMAIN Lists'[i], FirstNames(i, j, t)'
        PROVE  frozen[t] = Lists'[i][j].from
    <3>1. i \in DOMAIN Lists /\ Lists'[i] = Lists[i]
      BY <1>3, <2>1
    <3>2. \A k \in 1 .. (i - 1) : Lists'[k] = Lists[k]
      BY <1>3, <2>1, <3>1
    <3>3. FirstNames(i, j, t)
      BY <2>3, <3>1, <3>2 DEF FirstNames, Silent
    <3> QED BY <3>1, <3>3 DEF ReadsBack
  <2> QED BY <2>2, <2>3
<1> QED BY <1>1, <1>2, <1>4

LEMMA StepRegradeTrial ==
    ASSUME GradeInv, RegradeTrial
    PROVE  GradeInv'
<1> USE DEF GradeInv
<1> DEFINE t == regrade.at
           n == Len(ledger) + 1
           change == Change(t)
<1>1. t \in Trials /\ Ended = Trials /\ regrade.corpus \in DOMAIN Tables[1] /\ t + 1 \in Nat
  BY GradedRunAssumption DEF RegradeTrial, RegradesLast, GradeTypes
<1>2. UNCHANGED <<reply, version, ledger, frozen, deaths>>
  BY DEF RegradeTrial
<1>3. /\ change \in Changes /\ change.trial = t /\ change.from = run[t].credit
      /\ change.to = ResolvedCredit(t, regrade.corpus) /\ change.to \in Credits
  <2>1. ResolvedCredit(t, regrade.corpus) \in Credits
    BY <1>1, CreditIn
  <2>2. run[t].credit \in Credits
    BY <1>1 DEF GradeTypes, Scores
  <2> HIDE DEF Credits
  <2> QED BY <1>1, <2>1, <2>2 DEF Change, Changes
<1>4. /\ Len(ledger) \in Nat /\ DOMAIN Lists = 1 .. n
      /\ \A i \in 1 .. Len(ledger) : Lists[i] = ledger[i]
      /\ Lists[n] = regrade.changes
  BY ListsAre
<1>5. CASE ~Moved(t)
  <2>1. regrade' = [regrade EXCEPT !.at = t + 1] /\ run' = run
    BY <1>5 DEF RegradeTrial
  <2>2. GradeTypes'
    BY <1>1, <1>2, <2>1 DEF GradeTypes
  <2>3. RegradesLast'
    <3>1. regrade'.corpus = regrade.corpus /\ regrade.corpus \in Regrades
      BY <2>1 DEF RegradeTrial, RegradesLast, GradeTypes
    <3>2. Ended' = Trials
      BY <1>1, <2>1 DEF Ended
    <3> QED BY <3>1, <3>2 DEF RegradesLast
  <2>4. regrade'.changes = regrade.changes
    BY <2>1 DEF GradeTypes
  <2>5. Lists' = Lists
    BY <1>2, <2>4 DEF Lists
  <2>6. ReadsBack'
    BY <1>2, <2>1, <2>5 DEF ReadsBack, Ended, FirstNames, Silent
  <2> QED BY <2>2, <2>3, <2>6
<1>6. CASE Moved(t)
  <2> DEFINE score == [credit |-> change.to, before |-> change.from,
                       resolved |-> change.to = Full, strict |-> run[t].strict]
  <2>1. /\ run' = [run EXCEPT ![t] = score]
        /\ regrade' = [regrade EXCEPT !.at = t + 1, !.changes = Append(@, change)]
    BY <1>6 DEF RegradeTrial
  <2>2. score \in Scores
    <3>1. run[t] \in Scores
      BY <1>1 DEF GradeTypes
    <3> HIDE DEF change
    <3> QED BY <1>3, <3>1 DEF Scores, Changes
  <2>3. score # NoScore
    BY <1>3, <1>6 DEF Moved, NoScore
  <2> HIDE DEF score, change
  <2>4. regrade.changes \in Seq(Changes) /\ Append(regrade.changes, change) \in Seq(Changes)
    <3>1. regrade.changes \in Seq(Changes)
      BY DEF GradeTypes
    <3> HIDE DEF Changes
    <3> QED BY <1>3, <3>1
  <2>5. /\ regrade'.changes = Append(regrade.changes, change) /\ regrade'.at = t + 1
        /\ regrade'.corpus = regrade.corpus
        /\ regrade' \in [corpus : Regrades \cup {"none"}, at : Nat, changes : Seq(Changes)]
    <3> DEFINE C == Seq(Changes)
    <3> HIDE DEF C
    <3>1. regrade \in [corpus : Regrades \cup {"none"}, at : Nat, changes : C]
      BY DEF GradeTypes, C
    <3>2. Append(regrade.changes, change) \in C
      BY <2>4 DEF C
    <3> QED BY <1>1, <2>1, <3>1, <3>2 DEF C
  <2>6. GradeTypes'
    BY <1>1, <1>2, <2>1, <2>2, <2>5 DEF GradeTypes
  <2>7. Ended' = Trials
    <3>1. ASSUME NEW u \in Trials PROVE run'[u] # NoScore
      <4>1. run[u] # NoScore
        BY <1>1 DEF Ended
      <4> QED BY <1>1, <2>1, <2>3, <4>1 DEF GradeTypes
    <3> QED BY <3>1 DEF Ended
  <2>8. RegradesLast'
    <3>1. regrade.corpus \in Regrades
      BY DEF RegradeTrial, RegradesLast
    <3> QED BY <1>2, <2>5, <2>7, <3>1 DEF RegradesLast
  <2>9. /\ DOMAIN Lists' = 1 .. n
        /\ \A i \in 1 .. Len(ledger) : Lists'[i] = Lists[i]
        /\ Lists'[n] = Append(Lists[n], change)
    <3> DEFINE C == Seq(Changes)
               more == Append(regrade.changes, change)
    <3>1. ledger \in Seq(C) /\ more \in C /\ Lists' = Append(ledger, more)
      BY <1>2, <2>4, <2>5 DEF GradeTypes, Lists
    <3> HIDE DEF C, more
    <3>2. /\ DOMAIN Lists' = 1 .. n /\ Lists'[n] = more
          /\ \A i \in 1 .. Len(ledger) : Lists'[i] = ledger[i]
      BY <3>1
    <3> QED BY <1>4, <3>2 DEF more
  <2>10. ReadsBack'
    <3> SUFFICES ASSUME deaths = 0, NEW u \in Trials
                 PROVE  /\ (\A i \in DOMAIN Lists' : Silent(Lists'[i], u)) => frozen[u] = run'[u].credit
                        /\ \A i \in DOMAIN Lists' : \A j \in DOMAIN Lists'[i] :
                              FirstNames(i, j, u)' => frozen[u] = Lists'[i][j].from
      BY <1>2, <2>7 DEF ReadsBack, Silent
    <3> DEFINE m == Len(regrade.changes)
    <3>1. /\ m \in Nat /\ DOMAIN Lists[n] = 1 .. m /\ DOMAIN Lists'[n] = 1 .. m + 1
          /\ \A j \in 1 .. m : Lists'[n][j] = Lists[n][j]
          /\ Lists'[n][m + 1] = change
      <4> HIDE DEF Changes
      <4>1. regrade.changes \in Seq(Changes) /\ change \in Changes
        BY <1>3, <2>4 DEF change
      <4> QED BY <1>4, <2>9, <4>1
    <3> HIDE DEF m
    <3>2. ASSUME \A i \in DOMAIN Lists' : Silent(Lists'[i], u) PROVE frozen[u] = run'[u].credit
      <4>1. u # t
        <5>1. Lists'[n][m + 1].trial # u
          BY <1>4, <2>9, <3>1, <3>2 DEF Silent
        <5> QED BY <1>3, <3>1, <5>1 DEF change
      <4>2. \A i \in DOMAIN Lists : Silent(Lists[i], u)
        <5>1. ASSUME NEW i \in 1 .. n PROVE Silent(Lists[i], u)
          <6>1. CASE i = n
            <7>1. ASSUME NEW l \in 1 .. m PROVE Lists[n][l].trial # u
              <8>1. l \in DOMAIN Lists'[n] /\ n \in DOMAIN Lists'
                BY <1>4, <2>9, <3>1
              <8>2. Lists'[n][l].trial # u
                BY <3>2, <8>1 DEF Silent
              <8> QED BY <3>1, <8>2
            <7> QED BY <3>1, <6>1, <7>1 DEF Silent
          <6>2. CASE i # n
            BY <1>4, <2>9, <3>2, <6>2 DEF Silent
          <6> QED BY <6>1, <6>2
        <5> QED BY <1>4, <5>1
      <4>3. run'[u] = run[u]
        BY <2>1, <4>1 DEF GradeTypes
      <4> QED BY <1>1, <4>2, <4>3 DEF ReadsBack
    <3>3. ASSUME NEW i \in DOMAIN Lists', NEW j \in DOMAIN Lists'[i], FirstNames(i, j, u)'
          PROVE  frozen[u] = Lists'[i][j].from
      <4>1. ASSUME NEW k \in 1 .. (i - 1) PROVE Lists'[k] = Lists[k]
        BY <1>4, <2>9
      <4>2. CASE i # n \/ j # m + 1
        <5>1. i \in DOMAIN Lists /\ j \in DOMAIN Lists[i] /\ Lists'[i][j] = Lists[i][j]
          BY <1>4, <2>9, <3>1, <4>2, SMTT(30)
        <5>2. \A l \in 1 .. (j - 1) : Lists'[i][l] = Lists[i][l]
          <6>1. CASE i = n
            <7>1. j \in 1 .. m
              BY <3>1, <4>2, <6>1
            <7> QED BY <3>1, <6>1, <7>1
          <6>2. CASE i # n
            BY <1>4, <2>9, <6>2
          <6> QED BY <6>1, <6>2
        <5>3. FirstNames(i, j, u)
          BY <3>3, <4>1, <5>1, <5>2 DEF FirstNames, Silent
        <5> QED BY <1>1, <5>1, <5>3 DEF ReadsBack
      <4>3. CASE i = n /\ j = m + 1
        <5>1. u = t /\ Lists'[i][j].from = run[t].credit
          <6>1. Lists'[i][j].trial = u
            BY <3>3 DEF FirstNames
          <6> QED BY <1>3, <3>1, <4>3, <6>1 DEF change
        <5>2. \A k \in DOMAIN Lists : Silent(Lists[k], u)
          <6>1. ASSUME NEW k \in 1 .. n PROVE Silent(Lists[k], u)
            <7>1. CASE k = n
              <8>1. ASSUME NEW l \in 1 .. m PROVE Lists[n][l].trial # u
                <9>1. Lists'[n][l].trial # u
                  BY <3>1, <3>3, <4>3 DEF FirstNames
                <9> QED BY <3>1, <9>1
              <8> QED BY <3>1, <7>1, <8>1 DEF Silent
            <7>2. CASE k # n
              <8>1. k \in 1 .. (i - 1)
                BY <1>4, <4>3, <7>2
              <8>2. Silent(Lists'[k], u)
                BY <3>3, <8>1 DEF FirstNames, Silent
              <8> QED BY <4>1, <8>1, <8>2
            <7> QED BY <7>1, <7>2
          <6> QED BY <1>4, <6>1
        <5> QED BY <1>1, <5>1, <5>2 DEF ReadsBack
      <4> QED BY <4>2, <4>3
    <3> QED BY <3>2, <3>3
  <2> QED BY <2>6, <2>8, <2>10
<1> QED BY <1>5, <1>6

LEMMA GradeStep == GradeInv /\ [GradeNext]_gradeVars => GradeInv'
<1> SUFFICES ASSUME GradeInv, [GradeNext]_gradeVars PROVE GradeInv'
  OBVIOUS
<1>1. CASE GradeNext
  BY <1>1, StepWrites, StepEndTrial, StepRepair, StepRegradeStarts, StepRegradeTrial,
     StepRegradeEnds, StepRegradeDies DEF GradeNext
<1>2. CASE UNCHANGED gradeVars
  <2> USE <1>2 DEF gradeVars, GradeInv
  <2>1. GradeTypes'
    BY DEF GradeTypes
  <2>2. RegradesLast'
    BY DEF RegradesLast, Ended
  <2>3. ReadsBack'
    BY DEF ReadsBack, Ended, Lists, FirstNames, Silent
  <2> QED BY <2>1, <2>2, <2>3
<1> QED BY <1>1, <1>2

\* The score a trial was first given can be read back from what a run keeps,
\* as long as no regrade died. (regrade.py)
THEOREM ReadBack == GradeInit /\ [][GradeNext]_gradeVars => []ReadsBack
<1>1. GradeInv => ReadsBack
  BY DEF GradeInv
<1> QED BY <1>1, GradeStart, GradeStep, PTL

-----------------------------------------------------------------------------
(* MinedSuite: reading upwards finds the block a line is in. *)

\* What is known after some lines: the bound, and the name that was found.
Reading == [bound : Nat, name : Names \cup {""}]

\* What one more line makes of it.
Reads(line, upto) ==
    IF upto.name # "" \/ ~Code(line) \/ line.indent >= upto.bound THEN upto
    ELSE [bound |-> line.indent, name |-> IF line.kind = "def" THEN line.name ELSE ""]

\* What one more line makes of what is known.
LEMMA ReadsOne ==
    ASSUME NEW line \in SourceLine, NEW upto \in Reading
    PROVE  /\ Reads(line, upto) \in Reading
           /\ upto.name # "" \/ ~Code(line) \/ line.indent >= upto.bound => Reads(line, upto) = upto
           /\ ~(upto.name # "" \/ ~Code(line) \/ line.indent >= upto.bound)
              => /\ Reads(line, upto).bound = line.indent
                 /\ Reads(line, upto).name = IF line.kind = "def" THEN line.name ELSE ""
<1> DEFINE found == IF line.kind = "def" THEN line.name ELSE ""
           next == [bound |-> line.indent, name |-> found]
           Still == upto.name # "" \/ ~Code(line) \/ line.indent >= upto.bound
<1>1. line.indent \in Nat /\ found \in Names \cup {""}
  BY DEF SourceLine
<1>2. next \in Reading /\ next.bound = line.indent /\ next.name = found
  <2> HIDE DEF found
  <2> QED BY <1>1 DEF Reading
<1>3. Reads(line, upto) = IF Still THEN upto ELSE next
  BY DEF Reads
<1> HIDE DEF Still, next, found
<1>4. /\ Reads(line, upto) \in Reading
      /\ Still => Reads(line, upto) = upto
      /\ ~Still => Reads(line, upto) = next
  BY <1>2, <1>3
<1> QED BY <1>2, <1>4 DEF Still, found

\* The lines above one are read one by one.
LEMMA EnclosingReads ==
    ASSUME NEW file \in Seq(SourceLine), NEW at \in DOMAIN file
    PROVE  \E upto \in [0 .. at - 1 -> Reading] :
              /\ upto[0] = [bound |-> file[at].indent, name |-> ""]
              /\ \A n \in 1 .. at - 1 : upto[n] = Reads(file[at - n], upto[n - 1])
              /\ Enclosing(file, at) = upto[at - 1].name
<1> DEFINE N == at - 1
           start == [bound |-> file[at].indent, name |-> ""]
           Body(g, n) == IF n = 0 THEN start ELSE Reads(file[at - n], g[n - 1])
           step == [n \in 1 .. N |-> [r \in Reading |-> Reads(file[at - n], r)]]
<1>1. N \in Nat /\ at \in Nat /\ \A n \in 0 .. N : at - n \in DOMAIN file
  OBVIOUS
<1>2. \A p \in DOMAIN file : file[p] \in SourceLine
  <2> HIDE DEF SourceLine
  <2> QED OBVIOUS
<1>3. start \in Reading
  BY <1>2 DEF Reading, SourceLine
<1>4. step \in [1 .. N -> [Reading -> Reading]]
  <2> SUFFICES ASSUME NEW n \in 1 .. N, NEW r \in Reading PROVE Reads(file[at - n], r) \in Reading
    OBVIOUS
  <2>1. file[at - n] \in SourceLine
    BY <1>1, <1>2
  <2> QED BY <2>1, ReadsOne
<1>5. PICK f \in [0 .. N -> Reading] : f[0] = start /\ \A n \in 1 .. N : f[n] = step[n][f[n - 1]]
  <2> HIDE DEF N, step, start
  <2>1. \E f \in [0 .. N -> Reading] : Follows(f, N, start, step)
    BY <1>1, <1>3, <1>4, Recursion
  <2> QED BY <2>1 DEF Follows
<1>6. ASSUME NEW n \in 0 .. N PROVE f[n] = Body(f, n)
  <2>1. CASE n = 0
    BY <1>5, <2>1
  <2>2. CASE n # 0
    <3>1. n \in 1 .. N /\ n - 1 \in 0 .. N
      BY <1>1, <2>2
    <3>2. f[n - 1] \in Reading
      BY <1>5, <3>1
    <3>3. step[n][f[n - 1]] = Reads(file[at - n], f[n - 1])
      BY <3>1, <3>2
    <3> HIDE DEF step, N
    <3> QED BY <1>5, <2>2, <3>1, <3>3
  <2> QED BY <2>1, <2>2
<1>7. f = [n \in 0 .. N |-> Body(f, n)]
  <2> HIDE DEF Body
  <2> QED BY <1>5, <1>6
<1> DEFINE J == CHOOSE g : g = [n \in 0 .. N |-> Body(g, n)]
<1>8. J = [n \in 0 .. N |-> Body(J, n)]
  <2> HIDE DEF Body, N
  <2> QED BY <1>7
<1>9. Enclosing(file, at) = J[N].name
  BY DEF Enclosing, Reads
<1> HIDE DEF J
<1>10. J[0] = start /\ \A n \in 1 .. N : J[n] = Reads(file[at - n], J[n - 1])
  <2> HIDE DEF N
  <2>1. J[0] = start
    <3>1. 0 \in 0 .. N
      BY <1>1
    <3>2. Body(J, 0) = start
      OBVIOUS
    <3> HIDE DEF Body
    <3> QED BY <1>8, <3>1, <3>2
  <2>2. ASSUME NEW n \in 1 .. N PROVE J[n] = Body(J, n) /\ n # 0
    <3>1. n \in 0 .. N /\ n # 0
      BY <1>1
    <3> HIDE DEF Body
    <3> QED BY <1>8, <3>1
  <2> QED BY <2>1, <2>2
<1> DEFINE T == {n \in Nat : n <= N => J[n] \in Reading}
<1>11. 0 \in T
  BY <1>3, <1>10
<1>12. ASSUME NEW n \in T PROVE n + 1 \in T
  <2> SUFFICES ASSUME n + 1 <= N PROVE J[n + 1] \in Reading
    OBVIOUS
  <2>1. n \in Nat /\ n + 1 \in 1 .. N /\ (n + 1) - 1 = n
    BY <1>1
  <2>2. J[n] \in Reading
    BY <1>1, <2>1
  <2>3. J[n + 1] = Reads(file[at - (n + 1)], J[n])
    BY <1>10, <2>1
  <2>4. step[n + 1][J[n]] \in Reading /\ step[n + 1][J[n]] = Reads(file[at - (n + 1)], J[n])
    BY <1>4, <2>1, <2>2
  <2> HIDE DEF T, N
  <2> QED BY <2>3, <2>4
<1>13. T = Nat
  <2>1. T \subseteq Nat
    OBVIOUS
  <2> HIDE DEF T
  <2> QED BY <1>11, <1>12, <2>1, Induction
<1>14. ASSUME NEW n \in 0 .. N PROVE J[n] \in Reading
  <2>1. n \in T /\ n <= N
    BY <1>1, <1>13
  <2> QED BY <2>1
<1>15. J \in [0 .. N -> Reading]
  <2> HIDE DEF Body, N
  <2> QED BY <1>8, <1>14
<1> QED BY <1>9, <1>10, <1>15

\* The definitions found among some lines above one hold it, the innermost first.
HoldsAt(file, at, d) ==
    /\ d \in 1 .. at - 1 /\ file[d].kind = "def"
    /\ \A p \in d + 1 .. at : Code(file[p]) => file[p].indent > file[d].indent

\* What is known once all lines from one down to another are read: while no
\* name is found, the bound is the least indentation of the code among them and
\* no definition among them holds the line; a name found is that of the
\* innermost that does.
SoFar(file, at, low, upto) ==
    IF upto.name = ""
    THEN /\ \A p \in low .. at : Code(file[p]) => upto.bound <= file[p].indent
         /\ \E p \in low .. at : Code(file[p]) /\ upto.bound = file[p].indent
         /\ \A d \in low .. at - 1 : ~HoldsAt(file, at, d)
    ELSE \E d \in low .. at - 1 :
            /\ HoldsAt(file, at, d) /\ upto.name = file[d].name
            /\ \A e \in d + 1 .. at - 1 : ~HoldsAt(file, at, e)

\* Of the lines down from one what matters here.
LinesTo(file, at) ==
    \A p \in 1 .. at :
        /\ file[p] \in SourceLine /\ file[p].indent \in Nat
        /\ file[p].kind = "def" => file[p].name # "" /\ Code(file[p])

LEMMA LinesAreLines ==
    ASSUME NEW file \in Seq(SourceLine), NEW at \in DOMAIN file
    PROVE  LinesTo(file, at) /\ at \in Nat \ {0}
<1>1. ASSUME NEW p \in DOMAIN file PROVE file[p] \in SourceLine
  <2> HIDE DEF SourceLine
  <2> QED OBVIOUS
<1>2. at \in Nat \ {0} /\ 1 .. at \subseteq DOMAIN file
  OBVIOUS
<1>3. ASSUME NEW line \in SourceLine
      PROVE  line.indent \in Nat /\ (line.kind = "def" => line.name # "" /\ Code(line))
  BY DEF SourceLine, Code
<1> QED BY <1>1, <1>2, <1>3 DEF LinesTo

\* One line more keeps it.
LEMMA SoFarGoesOn ==
    ASSUME NEW file, NEW at \in Nat, NEW d \in 1 .. at - 1, LinesTo(file, at),
           NEW upto \in Reading, SoFar(file, at, d + 1, upto)
    PROVE  SoFar(file, at, d, Reads(file[d], upto))
<1> DEFINE line == file[d]
           next == Reads(line, upto)
           i == line.indent
           b == upto.bound
<1>1. /\ at \in Nat /\ d \in Nat /\ d <= at - 1 /\ d \in 1 .. at
      /\ d \in d .. at - 1 /\ d \in d .. at
      /\ \A p \in d .. at : p = d \/ p \in d + 1 .. at
      /\ \A p \in d .. at - 1 : p = d \/ p \in d + 1 .. at - 1
      /\ d + 1 .. at \subseteq d .. at /\ d + 1 .. at - 1 \subseteq d .. at - 1
      /\ d .. at \subseteq 1 .. at
  OBVIOUS
<1>2. i \in Nat
  BY <1>1 DEF LinesTo
<1>21. line \in SourceLine
  BY <1>1 DEF LinesTo
<1>22. line.kind = "def" => line.name # "" /\ Code(line)
  BY <1>1 DEF LinesTo
<1>3. \A p \in d .. at : file[p].indent \in Nat
  BY <1>1 DEF LinesTo
<1>4. /\ upto.name # "" \/ ~Code(line) \/ i >= b => next = upto
      /\ ~(upto.name # "" \/ ~Code(line) \/ i >= b)
         => next.bound = i /\ next.name = IF line.kind = "def" THEN line.name ELSE ""
  BY <1>21, ReadsOne
<1>5. b \in Nat
  BY DEF Reading
<1>6. HoldsAt(file, at, d) <=> /\ line.kind = "def"
                               /\ \A p \in d + 1 .. at : Code(file[p]) => file[p].indent > i
  BY DEF HoldsAt
<1> HIDE DEF i, b, next, line
<1>7. CASE upto.name # ""
  <2>1. PICK e \in d + 1 .. at - 1 :
            /\ HoldsAt(file, at, e) /\ upto.name = file[e].name
            /\ \A g \in e + 1 .. at - 1 : ~HoldsAt(file, at, g)
    BY <1>7 DEF SoFar
  <2>2. e \in d .. at - 1 /\ next = upto
    BY <1>1, <1>4, <1>7
  <2>3. SoFar(file, at, d, next)
    BY <1>7, <2>1, <2>2 DEF SoFar
  <2> QED BY <2>3 DEF next, line
<1>8. CASE upto.name = ""
  <2>1. /\ \A p \in d + 1 .. at : Code(file[p]) => b <= file[p].indent
        /\ \E p \in d + 1 .. at : Code(file[p]) /\ b = file[p].indent
        /\ \A e \in d + 1 .. at - 1 : ~HoldsAt(file, at, e)
    BY <1>8 DEF SoFar, b
  <2>2. CASE ~Code(line) \/ i >= b
    <3>1. next = upto
      BY <1>4, <2>2
    <3>2. ~HoldsAt(file, at, d)
      <4>1. CASE ~Code(line)
        BY <1>22, <1>6, <4>1
      <4>2. CASE i >= b
        <5>1. PICK p \in d + 1 .. at : Code(file[p]) /\ b = file[p].indent
          BY <2>1
        <5>2. ~(file[p].indent > i)
          BY <1>2, <1>5, <4>2, <5>1
        <5> QED BY <1>6, <5>1, <5>2
      <4> QED BY <2>2, <4>1, <4>2
    <3>3. Code(file[d]) => b <= file[d].indent
      BY <1>2, <1>5, <2>2 DEF i, line
    <3>4. \A p \in d .. at : Code(file[p]) => b <= file[p].indent
      BY <1>1, <2>1, <3>3
    <3>5. \E p \in d .. at : Code(file[p]) /\ b = file[p].indent
      BY <1>1, <2>1
    <3>6. \A e \in d .. at - 1 : ~HoldsAt(file, at, e)
      BY <1>1, <2>1, <3>2
    <3>7. SoFar(file, at, d, upto)
      BY <1>8, <3>4, <3>5, <3>6 DEF SoFar, b
    <3> QED BY <3>1, <3>7 DEF next, line
  <2>3. CASE Code(line) /\ ~(i >= b)
    <3>1. next.bound = i /\ next.name = IF line.kind = "def" THEN line.name ELSE ""
      BY <1>4, <1>8, <2>3
    <3>2. ASSUME NEW p \in d + 1 .. at, Code(file[p]) PROVE file[p].indent > i
      <4>1. b <= file[p].indent /\ file[p].indent \in Nat
        BY <1>1, <1>3, <2>1, <3>2
      <4> QED BY <1>2, <1>5, <2>3, <4>1
    <3>3. CASE line.kind = "def"
      <4>1. HoldsAt(file, at, d)
        BY <1>6, <3>2, <3>3
      <4>2. next.name = file[d].name /\ next.name # ""
        BY <1>22, <3>1, <3>3 DEF line
      <4>3. SoFar(file, at, d, next)
        BY <1>1, <2>1, <4>1, <4>2 DEF SoFar
      <4> QED BY <4>3 DEF next, line
    <3>4. CASE line.kind # "def"
      <4>1. next.name = ""
        BY <3>1, <3>4
      <4>2. ~HoldsAt(file, at, d)
        BY <1>6, <3>4
      <4>3. \A p \in d .. at : Code(file[p]) => i <= file[p].indent
        <5> SUFFICES ASSUME NEW p \in d .. at, Code(file[p]) PROVE i <= file[p].indent
          OBVIOUS
        <5>1. CASE p = d
          BY <1>2, <5>1 DEF i, line
        <5>2. CASE p \in d + 1 .. at
          <6>1. file[p].indent > i /\ file[p].indent \in Nat
            BY <1>3, <3>2, <5>2
          <6> QED BY <1>2, <6>1
        <5> QED BY <1>1, <5>1, <5>2
      <4>4. \E p \in d .. at : Code(file[p]) /\ i = file[p].indent
        BY <1>1, <2>3 DEF i, line
      <4>5. \A e \in d .. at - 1 : ~HoldsAt(file, at, e)
        BY <1>1, <2>1, <4>2
      <4>6. SoFar(file, at, d, next)
        BY <3>1, <4>1, <4>3, <4>4, <4>5 DEF SoFar
      <4> QED BY <4>6 DEF next, line
    <3> QED BY <3>3, <3>4
  <2> QED BY <2>2, <2>3
<1> QED BY <1>7, <1>8

\* The last of some places, none of which comes after it.
LEMMA Highest ==
    ASSUME NEW n \in Nat, NEW d \in 1 .. n - 1, NEW H, d \in H,
           \A e \in H : e \in 1 .. n - 1 /\ e \notin d + 1 .. n - 1
    PROVE  H # {} /\ Max(H) = d
<1>1. d \in Nat /\ \A e \in H : e \in Nat /\ e <= d
  OBVIOUS
<1>2. \A x : (x \in H /\ \A e \in H : x >= e) => x = d
  BY <1>1
<1>3. Max(H) \in H /\ \A e \in H : Max(H) >= e
  BY <1>1 DEF Max
<1> QED BY <1>2, <1>3

\* What is known of a line of code when those above it are read one by one.
ReadFrom(file, at, upto) ==
    /\ LinesTo(file, at) /\ Code(file[at])
    /\ upto \in [0 .. at - 1 -> Reading]
    /\ upto[0].bound = file[at].indent /\ upto[0].name = ""
    /\ \A n \in 1 .. at - 1 : upto[n] = Reads(file[at - n], upto[n - 1])

\* When all lines above are read it is SoFar of them all.
LEMMA ReadsAllAbove ==
    ASSUME NEW file, NEW at \in Nat, at # 0, NEW upto, ReadFrom(file, at, upto)
    PROVE  SoFar(file, at, 1, upto[at - 1])
<1> DEFINE N == at - 1
           T == {n \in Nat : n <= N => SoFar(file, at, at - n, upto[n])}
<1>1. N \in Nat /\ at - 0 = at /\ at - N = 1 /\ N \in 0 .. at - 1
  OBVIOUS
<1>2. 0 \in T
  <2>1. SoFar(file, at, at, upto[0])
    <3>1. (\A p \in at .. at : p = at) /\ at \in at .. at /\ (\A p \in at .. at - 1 : FALSE)
      OBVIOUS
    <3>2. file[at].indent <= file[at].indent
      <4>1. at \in 1 .. at
        OBVIOUS
      <4>2. file[at].indent \in Nat
        BY <4>1 DEF LinesTo, ReadFrom
      <4> QED BY <4>2
    <3>3. Code(file[at]) /\ upto[0].bound = file[at].indent /\ upto[0].name = ""
      BY DEF ReadFrom
    <3>4. \A p \in at .. at : Code(file[p]) => upto[0].bound <= file[p].indent
      BY <3>1, <3>2, <3>3
    <3>5. \E p \in at .. at : Code(file[p]) /\ upto[0].bound = file[p].indent
      BY <3>1, <3>3
    <3>6. \A d \in at .. at - 1 : ~HoldsAt(file, at, d)
      BY <3>1
    <3> QED BY <3>3, <3>4, <3>5, <3>6 DEF SoFar
  <2> HIDE DEF N
  <2> QED BY <1>1, <2>1
<1>3. ASSUME NEW n \in T PROVE n + 1 \in T
  <2> SUFFICES ASSUME n + 1 <= N PROVE SoFar(file, at, at - (n + 1), upto[n + 1])
    OBVIOUS
  <2> DEFINE d == at - (n + 1)
             m == n + 1
  <2>1. n \in Nat /\ (n <= N => SoFar(file, at, at - n, upto[n]))
    OBVIOUS
  <2> HIDE DEF T
  <2>2. /\ m \in 1 .. at - 1 /\ m - 1 = n /\ n <= N /\ n \in 0 .. at - 1
        /\ d \in 1 .. at - 1 /\ d + 1 = at - n
    BY <2>1
  <2>3. upto[n] \in Reading
    BY <2>2 DEF ReadFrom
  <2>4. SoFar(file, at, d + 1, upto[n])
    BY <2>1, <2>2
  <2>5. upto[m] = Reads(file[at - m], upto[m - 1])
    BY <2>2 DEF ReadFrom
  <2>6. LinesTo(file, at)
    BY DEF ReadFrom
  <2> HIDE DEF N
  <2>7. SoFar(file, at, d, Reads(file[d], upto[n]))
    BY <2>2, <2>3, <2>4, <2>6, SoFarGoesOn
  <2> QED BY <2>2, <2>5, <2>7
<1>4. T = Nat
  <2>1. T \subseteq Nat
    OBVIOUS
  <2> HIDE DEF T
  <2> QED BY <1>2, <1>3, <2>1, Induction
<1>5. SoFar(file, at, at - N, upto[N])
  <2>1. N \in T /\ N <= N
    BY <1>1, <1>4
  <2> HIDE DEF N
  <2> QED BY <2>1
<1> HIDE DEF T
<1> QED BY <1>1, <1>5

\* Reading upwards with a tightening bound finds the innermost definition
\* whose block holds a line of code, or none when no block does.
LEMMA EnclosingIsScope ==
    ASSUME NEW file \in Seq(SourceLine), NEW at \in DOMAIN file, Code(file[at])
    PROVE  Enclosing(file, at) = Scope(file, at)
<1>1. PICK upto \in [0 .. at - 1 -> Reading] :
              /\ upto[0] = [bound |-> file[at].indent, name |-> ""]
              /\ \A n \in 1 .. at - 1 : upto[n] = Reads(file[at - n], upto[n - 1])
              /\ Enclosing(file, at) = upto[at - 1].name
  BY EnclosingReads
<1> DEFINE last == upto[at - 1]
<1>2. at \in Nat /\ at # 0 /\ LinesTo(file, at)
  BY LinesAreLines
<1>3. ReadFrom(file, at, upto)
  <2>1. \A b : [bound |-> b, name |-> ""].bound = b /\ [bound |-> b, name |-> ""].name = ""
    OBVIOUS
  <2>2. upto[0].bound = file[at].indent /\ upto[0].name = ""
    BY <1>1, <2>1, Zenon
  <2> QED BY <1>1, <1>2, <2>2, Zenon DEF ReadFrom
<1>4. SoFar(file, at, 1, last)
  BY <1>2, <1>3, ReadsAllAbove
<1>5. Enclosing(file, at) = last.name
  BY <1>1
<1> HIDE DEF last
<1>7. \A d : d \in Holders(file, at) <=> HoldsAt(file, at, d)
  BY DEF Holders, HoldsAt
<1>8. CASE last.name = ""
  <2>1. \A d \in 1 .. at - 1 : ~HoldsAt(file, at, d)
    BY <1>4, <1>8 DEF SoFar
  <2>2. Holders(file, at) = {}
    BY <1>7, <2>1 DEF HoldsAt
  <2> QED BY <1>5, <1>8, <2>2 DEF Scope
<1>9. CASE last.name # ""
  <2>1. PICK d \in 1 .. at - 1 : /\ HoldsAt(file, at, d) /\ last.name = file[d].name
                                 /\ \A e \in d + 1 .. at - 1 : ~HoldsAt(file, at, e)
    BY <1>4, <1>9 DEF SoFar
  <2> DEFINE H == Holders(file, at)
  <2>2. H # {} /\ Max(H) = d
    <3>1. d \in H /\ \A e \in H : e \in 1 .. at - 1 /\ e \notin d + 1 .. at - 1
      BY <1>7, <2>1 DEF HoldsAt
    <3> HIDE DEF H
    <3> QED BY <1>2, <2>1, <3>1, Highest
  <2>3. Scope(file, at) = IF H = {} THEN "" ELSE file[Max(H)].name
    BY DEF Scope
  <2> HIDE DEF H
  <2> QED BY <1>5, <2>1, <2>2, <2>3
<1> QED BY <1>8, <1>9
-----------------------------------------------------------------------------
(* MinedSuite: the miner's questions. *)

\* A question that was mined: its gold is a definition of the file, which its
\* text does not spell, and its wrong answers are other definitions of it.
Mined(q, n) ==
    /\ n \in Names /\ File \in Index[n] /\ n \notin q.words
    /\ q.gold = Claimed(Identity(File, n))
    /\ q.alternates # {}
    /\ \A a \in q.alternates : \E m \in Names : m # n /\ a = Identity(File, m)
    /\ q.helper = NoHelper /\ q.evidence = [path |-> File, leaf |-> n] /\ q.asksPath

MineInv ==
    /\ source \in Seq(SourceLine) /\ pinned \in Seq(SourceLine)
    /\ considered \in Nat
    /\ questions \in Seq(ToSet(questions))
    /\ pinned = <<>> => questions = <<>>
    /\ \A i \in DOMAIN questions :
          /\ \E n \in Names : Mined(questions[i], n)
          /\ questions[i].id \in Nat /\ questions[i].id <= considered
          /\ \A j \in 1 .. i - 1 : questions[j].id # questions[i].id

LEMMA MineStart == MineInit => MineInv
<1> SUFFICES ASSUME MineInit PROVE MineInv
  OBVIOUS
<1>1. source = <<>> /\ pinned = <<>> /\ considered = 0 /\ questions = <<>>
  BY DEF MineInit
<1>2. <<>> \in Seq(SourceLine) /\ DOMAIN <<>> = {}
  <2> HIDE DEF SourceLine
  <2> QED OBVIOUS
<1>3. <<>> \in Seq(ToSet(<<>>))
  BY DEF ToSet
<1> QED BY <1>1, <1>2, <1>3 DEF MineInv

\* One more revision of a line is a line.
LEMMA LineRevised ==
    ASSUME NEW l \in SourceLine
    PROVE  [l EXCEPT !.rev = @ + 1] \in SourceLine
<1>1. /\ l \in [kind : {"def", "block", "stmt", "blank", "close"}, name : Names \cup {""},
               indent : Nat, rev : Nat]
      /\ l.kind = "def" => l.name # ""
  BY DEF SourceLine
<1>2. /\ l.kind \in {"def", "block", "stmt", "blank", "close"} /\ l.name \in Names \cup {""}
      /\ l.indent \in Nat /\ l.rev \in Nat
  BY <1>1
<1>3. ASSUME NEW r \in Nat, NEW f, f = [l EXCEPT !.rev = r] PROVE f \in SourceLine
  <2>1. /\ f \in [kind : {"def", "block", "stmt", "blank", "close"}, name : Names \cup {""},
                 indent : Nat, rev : Nat]
        /\ f.kind = l.kind /\ f.name = l.name
    BY <1>1, <1>3
  <2> QED BY <1>1, <2>1 DEF SourceLine
<1>4. [l EXCEPT !.rev = @ + 1] = [l EXCEPT !.rev = l.rev + 1]
  OBVIOUS
<1>5. l.rev + 1 \in Nat
  <2>1. \A r \in Nat : r + 1 \in Nat
    OBVIOUS
  <2> QED BY <1>2, <2>1, Zenon
<1> QED BY <1>3, <1>4, <1>5

\* The lines that are written are lines.
LEMMA WrittenLines == Lines \subseteq SourceLine
<1> DEFINE AnyLine == [kind : {"def", "block", "stmt", "blank", "close"}, name : Names \cup {""},
                   indent : Nat, rev : Nat]
           Depths == 0 .. MaxDepth
<1>1. Called \subseteq Names /\ "" \notin Names
  BY MinedSuiteAssumption
<1>2. Depths \subseteq Nat /\ {0} \subseteq Nat
  OBVIOUS
<1> HIDE DEF Depths
<1>3. /\ [kind : {"def"}, name : Names, indent : Depths, rev : {0}] \subseteq AnyLine
      /\ [kind : {"block", "close"}, name : {""}, indent : Depths, rev : {0}] \subseteq AnyLine
      /\ [kind : {"stmt"}, name : Called \cup {""}, indent : Depths, rev : {0}] \subseteq AnyLine
      /\ [kind : {"blank"}, name : {""}, indent : {0}, rev : {0}] \subseteq AnyLine
  BY <1>1, <1>2
<1>4. ASSUME NEW line \in Lines PROVE line \in AnyLine /\ (line.kind = "def" => line.name # "")
  BY <1>1, <1>3, <1>4 DEF Lines, Depths
<1> QED BY <1>4 DEF SourceLine

\* What an edit leaves is lines.
LEMMA EditedLines ==
    ASSUME source \in Seq(SourceLine), NEW edit \in Edits
    PROVE  edit.after \in Seq(SourceLine)
<1>1. CASE \E p \in DOMAIN source :
              edit = [hunk |-> p, after |-> [source EXCEPT ![p] = [source[p] EXCEPT !.rev = @ + 1]]]
  <2>1. PICK p \in DOMAIN source :
              edit = [hunk |-> p, after |-> [source EXCEPT ![p] = [source[p] EXCEPT !.rev = @ + 1]]]
    BY <1>1
  <2> DEFINE line == [source[p] EXCEPT !.rev = @ + 1]
  <2>3. line \in SourceLine
    <3>1. source[p] \in SourceLine
      <4> HIDE DEF SourceLine
      <4> QED OBVIOUS
    <3> HIDE DEF SourceLine
    <3> QED BY <3>1, LineRevised
  <2>4. edit.after = [source EXCEPT ![p] = line]
    BY <2>1
  <2> HIDE DEF SourceLine, line
  <2> QED BY <2>3, <2>4
<1>2. CASE \E p \in DOMAIN source : edit = [hunk |-> p, after |-> RemoveAt(source, p)]
  <2>1. PICK p \in DOMAIN source : edit = [hunk |-> p, after |-> RemoveAt(source, p)]
    BY <1>2
  <2> HIDE DEF SourceLine
  <2> QED BY <2>1 DEF RemoveAt
<1>3. CASE \E p \in DOMAIN source, l \in Added : edit = [hunk |-> p, after |-> InsertAt(source, p + 1, l)]
  <2>1. PICK p \in DOMAIN source, l \in Added : edit = [hunk |-> p, after |-> InsertAt(source, p + 1, l)]
    BY <1>3
  <2>2. l \in SourceLine
    BY MinedSuiteAssumption
  <2> HIDE DEF SourceLine
  <2>3. /\ SubSeq(source, 1, (p + 1) - 1) \in Seq(SourceLine) /\ <<l>> \in Seq(SourceLine)
        /\ SubSeq(source, p + 1, Len(source)) \in Seq(SourceLine)
    BY <2>2
  <2> QED BY <2>1, <2>3 DEF InsertAt
<1> QED BY <1>1, <1>2, <1>3 DEF Edits

\* Only one element is in the sequence of a set of one.
LEMMA OneOf ==
    ASSUME NEW x
    PROVE  SetToSeq({x}) = <<x>>
<1>1. Cardinality({x}) = 1
  BY FS_Singleton
<1>2. <<x>> \in [1 .. 1 -> {x}] /\ IsInjective(<<x>>)
  BY DEF IsInjective
<1>3. ASSUME NEW f \in [1 .. 1 -> {x}] PROVE f = <<x>>
  OBVIOUS
<1>4. SetToSeq({x}) \in [1 .. 1 -> {x}]
  BY <1>1, <1>2 DEF SetToSeq
<1> QED BY <1>3, <1>4

\* The sequence of a finite set has its elements.
LEMMA ElementsOf ==
    ASSUME NEW S, IsFiniteSet(S)
    PROVE  ToSet(SetToSeq(S)) = S
<1> DEFINE n == Cardinality(S)
           s == SetToSeq(S)
<1>1. n \in Nat /\ ExistsBijection(1 .. n, S)
  BY FS_CardinalityType
<1>2. \E f \in [1 .. n -> S] : IsInjective(f)
  <2>1. PICK f : f \in Bijection(1 .. n, S)
    BY <1>1 DEF ExistsBijection
  <2>2. f \in [1 .. n -> S] /\ \A a, b \in 1 .. n : f[a] = f[b] => a = b
    BY <2>1 DEF Bijection, Injection, IsInjective
  <2> QED BY <2>2 DEF IsInjective
<1>3. s \in [1 .. n -> S] /\ IsInjective(s)
  BY <1>2 DEF SetToSeq
<1> HIDE DEF s
<1>4. s \in Injection(1 .. n, S)
  BY <1>3 DEF Injection, IsInjective
<1>5. Cardinality(1 .. n) = n
  BY <1>1, FS_Interval
<1>6. s \in Surjection(1 .. n, S)
  BY <1>4, <1>5, FS_Injection
<1>7. \A y \in S : \E i \in 1 .. n : s[i] = y
  BY <1>6 DEF Surjection
<1>8. DOMAIN s = 1 .. n /\ \A i \in 1 .. n : s[i] \in S
  BY <1>3
<1> QED BY <1>7, <1>8 DEF ToSet, s
\* Of a file's lines, those that define something define a name.
LEMMA DefinedNames ==
    ASSUME NEW file \in Seq(SourceLine)
    PROVE  Defines(file) \subseteq Names
<1> SUFFICES ASSUME NEW p \in DOMAIN file, file[p].kind = "def" PROVE file[p].name \in Names
  BY DEF Defines
<1>1. file[p] \in SourceLine
  <2> HIDE DEF SourceLine
  <2> QED OBVIOUS
<1>2. ASSUME NEW l \in SourceLine, l.kind = "def" PROVE l.name \in Names
  BY <1>2 DEF SourceLine
<1> QED BY <1>1, <1>2

\* The question of a commit that is not refused.
LEMMA QuestionMined ==
    ASSUME MineInv, NEW c, ~Refuses(c)
    PROVE  /\ \E n \in Names : Mined(Question(c), n)
           /\ Question(c).id = considered + 1
<1> DEFINE q == Question(c)
           gold == SetToSeq({Identity(File, n) : n \in Touched(c)})
<1>1. Touched(c) # {} /\ ~Leaks(c) /\ Alternates(c) # {}
  BY DEF Refuses
<1>2. PICK n \in Names : Touched(c) = {n} /\ File \in Index[n]
  BY <1>1 DEF Touched
<1>3. {Identity(File, m) : m \in Touched(c)} = {Identity(File, n)}
  BY <1>2
<1>4. gold = <<Identity(File, n)>>
  BY <1>3, OneOf
<1>5. /\ q.gold = IF Len(gold) = 1 THEN Claimed(gold[1]) ELSE Listed(gold)
      /\ q.alternates = Alternates(c) /\ q.words = c.message.words /\ q.asksPath
      /\ q.helper = NoHelper /\ q.evidence = [path |-> File, leaf |-> gold[1].name]
      /\ q.id = considered + 1
  BY DEF Question
<1> HIDE DEF q, gold
<1>6. gold[1] = Identity(File, n) /\ Len(gold) = 1 /\ gold[1].name = n
  BY <1>4 DEF Identity
<1>7. n \notin c.message.words
  BY <1>1, <1>2 DEF Leaks
<1>8. ASSUME NEW a \in Alternates(c) PROVE \E m \in Names : m # n /\ a = Identity(File, m)
  <2>1. \E m \in Defines(pinned) \ Touched(c) : a = Identity(File, m)
    BY DEF Alternates
  <2>2. Defines(pinned) \subseteq Names
    BY DefinedNames DEF MineInv
  <2> QED BY <1>2, <2>1, <2>2
<1>9. q.gold = Claimed(Identity(File, n)) /\ q.evidence = [path |-> File, leaf |-> n]
  BY <1>5, <1>6
<1>10. Mined(q, n)
  BY <1>1, <1>2, <1>5, <1>7, <1>8, <1>9 DEF Mined
<1> QED BY <1>5, <1>10 DEF q

\* One more question, with the number of the commit it is of.
LEMMA StepMines ==
    ASSUME MineInv, Mine
    PROVE  MineInv'
<1> DEFINE c == NextCommit
           new == Question(c)
<1>1. /\ pinned # <<>> /\ considered' = considered + 1 /\ UNCHANGED <<source, pinned>>
      /\ \/ UNCHANGED questions
         \/ ~Refuses(c) /\ questions' = Append(questions, new)
  BY DEF Mine
<1>2. /\ considered \in Nat /\ considered' \in Nat /\ considered <= considered'
      /\ source \in Seq(SourceLine) /\ pinned \in Seq(SourceLine)
  <2> HIDE DEF SourceLine
  <2> QED BY <1>1 DEF MineInv
<1>3. \A q, n : Mined(q, n)' <=> Mined(q, n)
  BY <1>1 DEF Mined, Index, Corpus, Defines
<1>4. /\ questions \in Seq(ToSet(questions))
      /\ \A i \in DOMAIN questions :
          /\ \E n \in Names : Mined(questions[i], n)
          /\ questions[i].id \in Nat /\ questions[i].id <= considered
          /\ \A j \in 1 .. i - 1 : questions[j].id # questions[i].id
  BY DEF MineInv
<1>5. \A k \in Nat : k <= considered => k <= considered'
  BY <1>1, <1>2
<1>6. CASE UNCHANGED questions
  BY <1>1, <1>2, <1>3, <1>4, <1>5, <1>6, Zenon DEF MineInv
<1>7. CASE ~Refuses(c) /\ questions' = Append(questions, new)
  <2>1. (\E n \in Names : Mined(new, n)) /\ new.id = considered + 1
    BY <1>7, QuestionMined
  <2> HIDE DEF new, c
  <2>2. /\ Len(questions) \in Nat /\ DOMAIN questions = 1 .. Len(questions)
        /\ DOMAIN questions' = 1 .. Len(questions) + 1 /\ Len(questions') = Len(questions) + 1
        /\ \A i \in 1 .. Len(questions) : questions'[i] = questions[i]
        /\ questions'[Len(questions) + 1] = new
    BY <1>4, <1>7
  <2>3. ASSUME NEW i \in DOMAIN questions'
        PROVE  /\ \E n \in Names : Mined(questions[i], n)'
               /\ questions'[i].id \in Nat /\ questions'[i].id <= considered'
               /\ \A j \in 1 .. i - 1 : questions'[j].id # questions'[i].id
    <3>1. CASE i \in DOMAIN questions
      <4>1. questions'[i] = questions[i] /\ \A j \in 1 .. i - 1 : questions'[j] = questions[j]
        BY <2>2, <3>1
      <4>2. \E n \in Names : Mined(questions[i], n)'
        BY <1>3, <1>4, <3>1, <4>1
      <4>3. questions[i].id \in Nat /\ questions[i].id <= considered'
        BY <1>4, <1>5, <3>1
      <4>4. \A j \in 1 .. i - 1 : questions[j].id # questions[i].id
        BY <1>4, <3>1
      <4> QED BY <4>1, <4>2, <4>3, <4>4, Zenon
    <3>2. CASE i = Len(questions) + 1
      <4>1. questions'[i] = new /\ \A j \in 1 .. i - 1 : j \in DOMAIN questions /\ questions'[j] = questions[j]
        BY <2>2, <3>2
      <4>2. new.id \in Nat /\ new.id <= considered'
        BY <1>1, <1>2, <2>1
      <4>3. ASSUME NEW j \in 1 .. i - 1 PROVE questions'[j].id # new.id
        <5>1. questions'[j].id \in Nat /\ questions'[j].id <= considered
          BY <1>4, <4>1
        <5> QED BY <1>2, <2>1, <5>1
      <4>4. \E n \in Names : Mined(questions[i], n)'
        BY <1>3, <2>1, <4>1
      <4> QED BY <4>1, <4>2, <4>3, <4>4, Zenon
    <3> QED BY <2>2, <3>1, <3>2
  <2>4. questions' \in Seq(ToSet(questions'))
    <3>1. questions \in Seq({new} \cup ToSet(questions)) /\ new \in {new} \cup ToSet(questions)
      BY <1>4
    <3>2. questions' \in Seq({new} \cup ToSet(questions))
      BY <1>7, <3>1
    <3> QED BY <3>2, OwnElements
  <2> QED BY <1>1, <1>2, <2>3, <2>4, Zenon DEF MineInv
<1> QED BY <1>1, <1>6, <1>7

LEMMA MineStep == MineInv /\ [MineNext]_mineVars => MineInv'
<1> SUFFICES ASSUME MineInv, [MineNext]_mineVars PROVE MineInv'
  OBVIOUS
<1>1. ASSUME UNCHANGED <<pinned, considered, questions>>, source' \in Seq(SourceLine)
      PROVE  MineInv'
  <2>1. \A q, n : Mined(q, n)' <=> Mined(q, n)
    BY <1>1 DEF Mined, Index, Corpus, Defines
  <2> HIDE DEF SourceLine
  <2> QED BY <1>1, <2>1, Zenon DEF MineInv
<1>2. ASSUME NEW line \in Lines, WriteLine(line) PROVE MineInv'
  <2>1. line \in SourceLine
    BY WrittenLines
  <2>2. source' = Append(source, line) /\ UNCHANGED <<pinned, considered, questions>>
    BY <1>2 DEF WriteLine
  <2>3. source' \in Seq(SourceLine)
    <3> HIDE DEF SourceLine
    <3> QED BY <2>1, <2>2 DEF MineInv
  <2> QED BY <1>1, <2>2, <2>3
<1>3. ASSUME Pins PROVE MineInv'
  <2>1. /\ pinned = <<>> /\ pinned' = source /\ UNCHANGED <<source, considered, questions>>
    BY <1>3 DEF Pins
  <2>2. questions = <<>> /\ DOMAIN questions = {}
    BY <2>1 DEF MineInv
  <2> HIDE DEF SourceLine
  <2> QED BY <2>1, <2>2 DEF MineInv
<1>4. ASSUME NEW edit \in Edits, NEW message \in Messages, Commits(edit, message) PROVE MineInv'
  <2>1. source' = edit.after /\ UNCHANGED <<pinned, considered, questions>>
    BY <1>4 DEF Commits
  <2>2. edit.after \in Seq(SourceLine)
    BY EditedLines DEF MineInv
  <2> QED BY <1>1, <2>1, <2>2
<1>5. CASE UNCHANGED mineVars
  <2>1. UNCHANGED <<pinned, considered, questions>> /\ source' = source
    BY <1>5 DEF mineVars
  <2>2. source \in Seq(SourceLine)
    BY DEF MineInv
  <2> QED BY <1>1, <2>1, <2>2
<1> QED BY <1>2, <1>3, <1>4, <1>5, StepMines DEF MineNext
-----------------------------------------------------------------------------
(* MinedSuite: what holds of the source, and of what the miner emits. *)

\* The first line of code after one that is code is the line itself.
LEMMA LinesInScope == MineInv => AttributedToScope
<1> SUFFICES ASSUME MineInv, NEW p \in DOMAIN source, Code(source[p])
             PROVE  /\ Enclosing(source, p) = Scope(source, p)
                    /\ source[p].kind # "def" => Attribution(source, p) = Scope(source, p)
  BY DEF AttributedToScope
<1>1. source \in Seq(SourceLine)
  BY DEF MineInv
<1>2. Enclosing(source, p) = Scope(source, p)
  BY <1>1, EnclosingIsScope
<1>3. ASSUME source[p].kind # "def" PROVE Attribution(source, p) = Scope(source, p)
  <2> DEFINE onwards == {q \in p .. Len(source) : source[q].kind # "blank"}
  <2>1. source[p].kind # "blank"
    BY DEF Code
  <2>2. p \in Nat /\ Len(source) \in Nat /\ p <= Len(source)
    <3> HIDE DEF SourceLine
    <3> QED BY <1>1
  <2>3. p \in onwards /\ \A q \in onwards : q \in Nat /\ p <= q
    BY <2>1, <2>2
  <2>4. Attribution(source, p) =
          IF p \notin DOMAIN source THEN ""
          ELSE IF source[IF onwards = {} THEN p ELSE Min(onwards)].kind = "def"
               THEN source[IF onwards = {} THEN p ELSE Min(onwards)].name
               ELSE Enclosing(source, IF onwards = {} THEN p ELSE Min(onwards))
    BY Zenon DEF Attribution
  <2> HIDE DEF onwards
  <2>5. Min(onwards) = p
    <3>1. \A x : (x \in onwards /\ \A q \in onwards : x <= q) => x = p
      BY <2>2, <2>3
    <3>2. Min(onwards) \in onwards /\ \A q \in onwards : Min(onwards) <= q
      BY <2>2, <2>3 DEF Min
    <3> QED BY <3>1, <3>2
  <2>6. onwards # {}
    BY <2>3
  <2> QED BY <1>2, <1>3, <2>4, <2>5, <2>6, Zenon
<1> QED BY <1>2, <1>3

\* A set with an element has that one, or has it and others.
LEMMA OneOrMore ==
    ASSUME NEW S, IsFiniteSet(S), NEW x \in S
    PROVE  /\ Cardinality(S) \in Nat \ {0}
           /\ Cardinality(S) <= 1 => S = {x}
           /\ Cardinality({x}) = 1
<1>1. Cardinality(S) \in Nat \ {0}
  BY FS_CardinalityType, FS_EmptySet
<1>2. Cardinality(S) = 1 => S = {x}
  BY FS_Singleton
<1>3. Cardinality({x}) = 1
  BY FS_Singleton
<1> QED BY <1>1, <1>2, <1>3

\* What the corpus says of a name it has in the mined file.
LEMMA Indexed ==
    ASSUME NEW n \in Names, File \in Index[n]
    PROVE  /\ DOMAIN Index = Names /\ Defining(Index, n) = Index[n]
           /\ IsFiniteSet(Index[n])
<1>1. DOMAIN Index = Names /\ Index[n] \subseteq DOMAIN Corpus /\ DOMAIN Corpus = {File, Other}
  BY DEF Index, Corpus
<1>2. IsFiniteSet({File, Other})
  <2>1. IsFiniteSet({File}) /\ IsFiniteSet({Other}) /\ {File, Other} = {File} \cup {Other}
    BY FS_Singleton
  <2> QED BY <2>1, FS_Union
<1>3. IsFiniteSet(Index[n])
  BY <1>1, <1>2, FS_Subset
<1> QED BY <1>1, <1>3 DEF Defining

\* Where a mined gold is, and what a sentence with its path and its name says.
LEMMA Resolved ==
    ASSUME NEW n \in Names, File \in Index[n], NEW c,
           ParseSymbol(c, Index).name = n, c.paths = {File}
    PROVE  Resolve(c, Index).files = {File}
<1> DEFINE paths == Index[n]
           mentioned == paths \cap c.paths
           within == {p \in paths : \A s \in c.segments : p \in s}
<1>1. Defining(Index, n) = paths /\ IsFiniteSet(paths)
  BY Indexed
<1>2. mentioned = {File} /\ Cardinality(mentioned) = 1
  <2>1. Cardinality({File}) = 1
    BY FS_Singleton
  <2>2. mentioned = {File}
    OBVIOUS
  <2> QED BY <2>1, <2>2
<1>3. Cardinality(paths) <= 1 => paths = {File}
  BY <1>1, OneOrMore
<1>4. Narrowed(paths, c) = IF Cardinality(paths) <= 1 THEN paths
                           ELSE IF Cardinality(mentioned) = 1 THEN mentioned
                           ELSE IF Cardinality(within) = 1 THEN within ELSE paths
  BY DEF Narrowed
<1> HIDE DEF paths, mentioned, within
<1>5. Narrowed(paths, c) = {File}
  BY <1>2, <1>3, <1>4
<1>6. Resolve(c, Index).files = Narrowed(Defining(Index, n), c)
  BY DEF Resolve, Meaning
<1> QED BY <1>1, <1>5, <1>6

\* How the grader scores one claim against another.
LEMMA ClaimScores ==
    ASSUME NEW c, NEW gold
    PROVE  Credit(Claimed(c), Claimed(gold), Index) = IF Same(c, gold, Index) THEN Full ELSE 0
<1>1. /\ Claimed(c).kind = "claim" /\ Claimed(gold).kind = "claim"
      /\ Claimed(c).claim = c /\ Claimed(gold).claim = gold
  BY DEF Claimed
<1>2. Credit(Claimed(c), Claimed(gold), Index) = PlainCredit(Claimed(c), Claimed(gold), Index)
  BY <1>1 DEF Credit
<1> QED BY <1>1, <1>2 DEF PlainCredit

\* What is said of the same name in the same file is the same.
LEMMA SaysTheSame ==
    ASSUME NEW n \in Names, File \in Index[n], NEW c,
           c = Identity(File, n) \/ c = InProse(<<Identity(File, n)>>)
    PROVE  /\ ParseSymbol(c, Index) = [owner |-> "", name |-> n]
           /\ Resolve(c, Index).files = {File}
           /\ Resolve(c, Index).symbol = [owner |-> "", name |-> n]
<1> DEFINE identity == Identity(File, n)
<1>1. DOMAIN Index = Names
  BY Indexed
<1>2. CASE c = identity
  <2>1. c.spelled /\ c.owner = "" /\ c.name = n /\ c.paths = {File}
    BY <1>2 DEF Identity
  <2> QED BY <2>1, Resolved DEF ParseSymbol, Resolve, Meaning
<1>3. CASE c = InProse(<<identity>>)
  <2>1. ToSet(<<identity>>) = {identity} /\ identity.name = n /\ identity.paths = {File}
    <3>1. identity.name = n /\ identity.paths = {File}
      BY DEF Identity
    <3> HIDE DEF identity
    <3>2. ToSet(<<identity>>) = {identity}
      BY DEF ToSet
    <3> QED BY <3>1, <3>2
  <2>2. ~c.spelled /\ c.paths = {File} /\ c.words = {n}
    <3> HIDE DEF identity
    <3>1. /\ c.spelled = FALSE /\ c.paths = UNION {i.paths : i \in ToSet(<<identity>>)}
          /\ c.words = {i.name : i \in ToSet(<<identity>>)}
      BY <1>3 DEF InProse
    <3> QED BY <2>1, <3>1
  <2> DEFINE named == {w \in c.words \cap DOMAIN Index : Index[w] # {}}
             near == {w \in named : Index[w] \cap c.paths # {}}
             chosen == IF Cardinality(named) > 1 /\ c.paths # {} THEN near ELSE named
  <2>3. named = {n} /\ near = {n}
    BY <1>1, <2>2
  <2>4. ParseSymbol(c, Index) = IF Cardinality(chosen) = 1
                                THEN [owner |-> "", name |-> CHOOSE w \in chosen : TRUE] ELSE NoSymbol
    BY <2>2 DEF ParseSymbol
  <2> HIDE DEF named, near
  <2>5. chosen = {n} /\ Cardinality({n}) = 1
    BY <2>3, FS_Singleton
  <2> HIDE DEF chosen
  <2>6. ParseSymbol(c, Index) = [owner |-> "", name |-> n]
    <3>1. (CHOOSE w \in {n} : TRUE) = n
      OBVIOUS
    <3> QED BY <2>4, <2>5, <3>1, Zenon
  <2>7. ParseSymbol(c, Index).name = n
    <3>1. [owner |-> "", name |-> n].name = n
      OBVIOUS
    <3> QED BY <2>6, <3>1, Zenon
  <2> QED BY <2>2, <2>6, <2>7, Resolved DEF Resolve, Meaning
<1> QED BY <1>2, <1>3
\* One with another name or another spelling says something else.
LEMMA SaysAnother ==
    ASSUME NEW n \in Names, File \in Index[n], NEW c, c # Identity(File, n),
           Cardinality(Resolve(c, Index).files) = 1 => Resolve(c, Index).symbol.name # n
    PROVE  ~Same(c, Identity(File, n), Index)
<1> DEFINE left == Resolve(c, Index)
           right == Resolve(Identity(File, n), Index)
<1>1. right.symbol = [owner |-> "", name |-> n]
  BY SaysTheSame
<1>2. left.claim = c /\ right.claim = Identity(File, n)
  BY DEF Resolve, Meaning
<1>3. right.symbol.name = n
  <2>1. [owner |-> "", name |-> n].name = n
    OBVIOUS
  <2> QED BY <1>1, <2>1, Zenon
<1>4. Same(c, Identity(File, n), Index) = SameMeaning(left, right)
  BY DEF Same
<1> HIDE DEF left, right
<1>5. ~SameMeaning(left, right)
  BY <1>2, <1>3 DEF SameMeaning, left
<1> QED BY <1>4, <1>5

\* The grader treats a mined question as it should.
LEMMA GradesMined ==
    ASSUME NEW q, NEW n \in Names, Mined(q, n)
    PROVE  GraderProblems(q, Index) = {}
<1> DEFINE gold == Identity(File, n)
           ids == Flatten(q.gold)
           scores(v) == Credit(v, q.gold, Index)
<1>1. /\ File \in Index[n] /\ q.gold = Claimed(gold)
      /\ \A a \in q.alternates : \E m \in Names : m # n /\ a = Identity(File, m)
  BY DEF Mined
<1>2. q.gold.kind = "claim" /\ q.gold.claim = gold
  BY <1>1 DEF Claimed
<1>3. ids = <<gold>>
  BY <1>2 DEF Flatten, Pieces
<1>4. ASSUME NEW c PROVE scores(Claimed(c)) = IF Same(c, gold, Index) THEN Full ELSE 0
  BY <1>1, ClaimScores
<1>5. DOMAIN Index = Names
  BY <1>1, Indexed
<1>6. ASSUME NEW c, c = gold \/ c = InProse(<<gold>>) PROVE Same(c, gold, Index)
  <2>1. /\ Resolve(c, Index).files = {File} /\ Resolve(gold, Index).files = {File}
        /\ Resolve(c, Index).symbol = [owner |-> "", name |-> n]
        /\ Resolve(gold, Index).symbol = [owner |-> "", name |-> n]
    BY <1>1, <1>6, SaysTheSame
  <2>2. Cardinality({File}) = 1
    BY FS_Singleton
  <2> QED BY <2>1, <2>2 DEF Same, SameMeaning
<1>7. scores(Claimed(gold)) = Full /\ scores(Claimed(InProse(ids))) = Full
  BY <1>3, <1>4, <1>6
<1>8. ASSUME NEW c, c.spelled, c.name # n PROVE ~Same(c, gold, Index)
  <2>1. c # gold
    <3>1. gold.name = n
      BY DEF Identity
    <3> HIDE DEF gold
    <3> QED BY <1>8, <3>1, Zenon
  <2>2. Resolve(c, Index).symbol.name = c.name
    BY <1>8 DEF Resolve, Meaning, ParseSymbol
  <2> QED BY <1>1, <1>8, <2>1, <2>2, SaysAnother
<1>9. scores(Claimed(Wrong)) = 0
  <2>1. Wrong.spelled /\ Wrong.name # n
    <3>1. Wrong.name \notin Names
      BY MinedSuiteAssumption
    <3>2. Wrong.spelled
      BY DEF Wrong, Identity
    <3> QED BY <3>1, <3>2
  <2> QED BY <1>4, <1>8, <2>1
<1>10. ASSUME NEW a \in q.alternates PROVE scores(Claimed(a)) = 0
  <2>1. PICK m \in Names : m # n /\ a = Identity(File, m)
    BY <1>1
  <2>2. a.spelled /\ a.name = m
    BY <2>1 DEF Identity
  <2> QED BY <1>4, <1>8, <2>1, <2>2
<1>11. ASSUME Cardinality(Index[n]) > 1 PROVE scores(Claimed(BareName(n))) = 0
  <2> DEFINE c == BareName(n)
             paths == Index[n]
  <2>1. c.spelled /\ c.name = n /\ c.paths = {} /\ c.segments = {} /\ c.owner = ""
    BY DEF BareName
  <2>2. c # gold
    <3>1. gold.paths = {File}
      BY DEF Identity
    <3> QED BY <2>1, <3>1
  <2>3. Resolve(c, Index).files = Narrowed(paths, c)
    <3>1. ParseSymbol(c, Index).name = n
      BY <2>1 DEF ParseSymbol
    <3>2. Defining(Index, n) = paths
      BY <1>1, Indexed
    <3> HIDE DEF c, paths
    <3> QED BY <3>1, <3>2 DEF Resolve, Meaning
  <2> HIDE DEF c
  <2>4. Narrowed(paths, c) = paths
    <3> DEFINE mentioned == paths \cap c.paths
               within == {p \in paths : \A s \in c.segments : p \in s}
    <3>1. mentioned = {} /\ within = paths
      BY <2>1
    <3>2. Cardinality({}) = 0
      BY FS_EmptySet
    <3>3. Narrowed(paths, c) = IF Cardinality(paths) <= 1 THEN paths
                               ELSE IF Cardinality(mentioned) = 1 THEN mentioned
                               ELSE IF Cardinality(within) = 1 THEN within ELSE paths
      BY DEF Narrowed
    <3> HIDE DEF paths, mentioned, within
    <3> QED BY <3>1, <3>2, <3>3
  <2>5. Cardinality(Resolve(c, Index).files) # 1
    <3>1. Cardinality(paths) \in Nat
      BY <1>1, Indexed, FS_CardinalityType
    <3> QED BY <1>11, <2>3, <2>4, <3>1
  <2>6. ~Same(c, gold, Index)
    BY <1>1, <2>2, <2>5, SaysAnother
  <2> QED BY <1>4, <2>6 DEF c
<1>12. gold.name = n /\ Defining(Index, n) = Index[n] /\ ToSet(ids) = {gold} /\ Len(ids) = 1
  <2>1. gold.name = n
    BY DEF Identity
  <2>2. Defining(Index, n) = Index[n]
    BY <1>1, Indexed
  <2>3. ToSet(<<gold>>) = {gold} /\ Len(<<gold>>) = 1
    <3> HIDE DEF gold
    <3> QED BY DEF ToSet
  <2> QED BY <1>3, <2>1, <2>2, <2>3
<1> DEFINE wrong == GraderProblems(q, Index)
<1>13. "gold misgraded" \notin wrong /\ "prose misgraded" \notin wrong
  BY <1>1, <1>7 DEF GraderProblems
<1>14. "container misgraded" \notin wrong
  BY <1>2 DEF GraderProblems
<1>15. "wrong credited" \notin wrong
  BY <1>9 DEF GraderProblems
<1>16. "share misgraded" \notin wrong
  BY <1>12 DEF GraderProblems
<1>17. "bare namesake credited" \notin wrong
  BY <1>11, <1>12 DEF GraderProblems
<1>18. "alternate credited" \notin wrong
  BY <1>10 DEF GraderProblems
<1>19. wrong \subseteq {"gold misgraded", "prose misgraded", "container misgraded", "wrong credited",
                "share misgraded", "bare namesake credited", "alternate credited"}
  BY DEF GraderProblems
<1> HIDE DEF wrong
<1>20. wrong = {}
  BY <1>13, <1>14, <1>15, <1>16, <1>17, <1>18, <1>19
<1> QED BY <1>20 DEF wrong
\* Everything that the miner emits compiles, and loads.
LEMMA MinedStands == MineInv => MinedCompiles
<1> SUFFICES ASSUME MineInv PROVE MinedCompiles
  OBVIOUS
<1>1. ASSUME NEW i \in DOMAIN questions
      PROVE  /\ \E n \in Names : Mined(questions[i], n)
             /\ \A j \in 1 .. i - 1 : questions[j].id # questions[i].id
  BY DEF MineInv
<1>2. ASSUME NEW q, NEW n \in Names, Mined(q, n)
      PROVE  /\ CheckStructure(q, Index) = {}
             /\ CheckQuestion(q, Index, DefinitionCounts, CallersByPlace) = {}
             /\ GradeAnswer(StrictV3(<<Text("bare", "answer", q.gold)>>), q.gold, FALSE).correct
  <2> DEFINE gold == Identity(File, n)
             ids == Flatten(q.gold)
  <2>1. /\ q.gold = Claimed(gold) /\ q.helper = NoHelper /\ q.asksPath /\ n \notin q.words
        /\ q.evidence = [path |-> File, leaf |-> n] /\ q.alternates # {} /\ File \in Index[n]
    BY <1>2 DEF Mined
  <2>2. Defining(Index, n) = Index[n]
    BY <2>1, Indexed
  <2>3. gold.name = n /\ gold.paths = {File}
    BY DEF Identity
  <2>4. q.gold.kind = "claim" /\ q.gold.claim = gold
    BY <2>1 DEF Claimed
  <2>5. ids = <<gold>>
    BY <2>4 DEF Flatten, Pieces
  <2>6. ToSet(ids) = {gold}
    <3>1. ToSet(<<gold>>) = {gold}
      <4> HIDE DEF gold
      <4> QED BY DEF ToSet
    <3> QED BY <2>5, <3>1
  <2>7. CheckStructure(q, Index) = {}
    <3>1. q.evidence.path = File /\ q.evidence.leaf = n
      BY <2>1
    <3> QED BY <2>1, <2>2, <3>1 DEF CheckStructure
  <2>8. CheckQuestion(q, Index, DefinitionCounts, CallersByPlace) = {}
    <3>1. GraderProblems(q, Index) = {}
      BY <1>2, GradesMined
    <3> DEFINE wrong ==
          {p \in {"leaks a target", "gold misplaced", "asks no path"} :
             CASE p = "leaks a target" -> \E i \in ToSet(ids) : i.name \in q.words
               [] p = "gold misplaced" ->
                    \E i \in ToSet(ids) : ~(i.paths \subseteq Defining(Index, i.name))
               [] p = "asks no path" -> /\ ~q.asksPath
                                        /\ \E i \in ToSet(ids) : Cardinality(Defining(Index, i.name)) > 1}
    <3>2. /\ ~ \E i \in ToSet(ids) : i.name \in q.words
          /\ ~ \E i \in ToSet(ids) : ~(i.paths \subseteq Defining(Index, i.name))
      BY <2>1, <2>2, <2>3, <2>6
    <3>3. wrong = {}
      BY <2>1, <3>2
    <3>4. \/ CheckQuestion(q, Index, DefinitionCounts, CallersByPlace) = {}
          \/ CheckQuestion(q, Index, DefinitionCounts, CallersByPlace)
               = wrong \cup GraderProblems(q, Index) \cup {}
      BY <2>1, Zenon DEF CheckQuestion
    <3> HIDE DEF wrong
    <3> QED BY <3>1, <3>3, <3>4
  <2>9. GradeAnswer(StrictV3(<<Text("bare", "answer", q.gold)>>), q.gold, FALSE).correct
    <3> DEFINE t == Text("bare", "answer", q.gold)
               whole == <<t>>
    <3>1. t.kind = "bare" /\ t.payload = "answer" /\ t.value = q.gold
      BY DEF Text
    <3> HIDE DEF t
    <3>2. Len(whole) = 1 /\ whole[1] = t /\ DOMAIN whole = {1}
      OBVIOUS
    <3> HIDE DEF whole
    <3>3. CandidatesV3(whole) = {} /\ Whole(whole) = t
      BY <3>1, <3>2 DEF CandidatesV3, Fences, Fenced, Whole
    <3>4. StrictV3(whole) = t
      BY <3>3 DEF StrictV3
    <3>5. Matches(t, q.gold, FALSE)
      BY <3>1 DEF Matches
    <3> QED BY <3>4, <3>5 DEF GradeAnswer, whole, t
  <2> QED BY <2>7, <2>8, <2>9
<1>3. Validate(questions, Index, DefinitionCounts, CallersByPlace) = {}
  <2> SUFFICES ASSUME NEW i \in DOMAIN questions
               PROVE  /\ CheckStructure(questions[i], Index) = {}
                      /\ ~ \E j \in 1 .. i - 1 : questions[j].id = questions[i].id
                      /\ CheckQuestion(questions[i], Index, DefinitionCounts, CallersByPlace) = {}
    BY DEF Validate
  <2> QED BY <1>1, <1>2
<1>4. Loads(questions) \/ questions = <<>>
  <2>1. ASSUME NEW i \in DOMAIN questions, NEW j \in DOMAIN questions, questions[i].id = questions[j].id
        PROVE  i = j
    <3>1. i \in Nat \ {0} /\ j \in Nat \ {0}
      <4>1. questions \in Seq(ToSet(questions))
        BY DEF MineInv
      <4> QED BY <4>1
    <3>2. CASE i < j
      <4>1. i \in 1 .. j - 1
        BY <3>1, <3>2
      <4> QED BY <1>1, <2>1, <4>1
    <3>3. CASE j < i
      <4>1. j \in 1 .. i - 1
        BY <3>1, <3>3
      <4> QED BY <1>1, <2>1, <4>1
    <3> QED BY <3>1, <3>2, <3>3
  <2>2. ASSUME NEW i \in DOMAIN questions
        PROVE  GradeAnswer(StrictV3(<<Text("bare", "answer", questions[i].gold)>>),
                           questions[i].gold, FALSE).correct
    BY <1>1, <1>2
  <2> QED BY <2>1, <2>2 DEF Loads
<1> QED BY <1>3, <1>4 DEF MinedCompiles
-----------------------------------------------------------------------------
(* MinedSuite: a caller question that compiles has the callers for its gold. *)

\* Around a line of code there is a definition of the file, or none.
LEMMA ScopeNames ==
    ASSUME NEW file \in Seq(SourceLine), NEW at \in DOMAIN file
    PROVE  Scope(file, at) \in Names \cup {""}
<1> DEFINE H == Holders(file, at)
<1>1. \A d \in H : d \in 1 .. at - 1
  BY DEF Holders
<1>2. at \in Nat /\ at # 0 /\ LinesTo(file, at)
  BY LinesAreLines
<1>3. CASE H = {}
  BY <1>3 DEF Scope
<1>4. CASE H # {}
  <2>1. H \subseteq 1 .. at - 1
    BY <1>1
  <2>2. Max(H) \in H
    <3> HIDE DEF H
    <3>1. IsFiniteSet(1 .. at - 1) /\ 1 .. at - 1 \subseteq Nat
      <4>1. at - 1 \in Int /\ 1 \in Int /\ \A m \in Int : 1 .. m \subseteq Nat
        BY <1>2
      <4> QED BY <4>1, FS_Interval
    <3>2. IsFiniteSet(H) /\ H \subseteq Nat
      BY <2>1, <3>1, FS_Subset
    <3> QED BY <1>4, <3>2, MaxIn
  <2>3. file[Max(H)].kind = "def" /\ Max(H) \in DOMAIN file
    <3>1. \A d \in H : file[d].kind = "def"
      BY DEF Holders
    <3>2. \A d \in 1 .. at - 1 : d \in DOMAIN file
      <4> HIDE DEF SourceLine
      <4> QED BY <1>2
    <3> HIDE DEF H, SourceLine
    <3> QED BY <2>1, <2>2, <3>1, <3>2
  <2>4. file[Max(H)].name \in Names
    <3>1. file[Max(H)].name \in Defines(file)
      BY <2>3, Zenon DEF Defines
    <3> QED BY <3>1, DefinedNames
  <2>5. Scope(file, at) = file[Max(H)].name
    BY <1>4 DEF Scope
  <2> QED BY <2>4, <2>5
<1> QED BY <1>3, <1>4

\* What the oracle gives for a helper of the other file.
LEMMA CallersCounted ==
    ASSUME pinned \in Seq(SourceLine), NEW helper \in Names
    PROVE  CallersByPlace[[path |-> Other, leaf |-> helper]]
             = {[path |-> File, leaf |-> n] : n \in CallersOf(helper)}
<1> DEFINE d == [path |-> Other, leaf |-> helper]
           calls == {q \in DOMAIN pinned : pinned[q].kind = "stmt" /\ pinned[q].name = helper}
<1>1. DOMAIN Corpus = {File, Other} /\ File # Other /\ Corpus[File] = pinned
  BY DEF Corpus, File, Other
<1>2. d \in CorpusPlaces /\ d.path = Other /\ d.leaf = helper
  BY <1>1 DEF CorpusPlaces
<1>3. CallLines(File, helper) = calls
  BY <1>1 DEF CallLines
<1>4. CallersByPlace[d] = TrueCallers(d)
  BY <1>2 DEF CallersByPlace
<1>5. ASSUME NEW p \in calls
      PROVE  Enclosing(pinned, p) = Scope(pinned, p) /\ Scope(pinned, p) \in Names \cup {""}
  <2>1. p \in DOMAIN pinned /\ Code(pinned[p])
    BY DEF Code
  <2> QED BY <2>1, EnclosingIsScope, ScopeNames
<1>6. "" \notin Names
  BY MinedSuiteAssumption
<1>7. CallersOf(helper) = {Scope(pinned, p) : p \in calls} \ {""}
  BY DEF CallersOf
<1> HIDE DEF calls
<1>8. \A n \in Names : (n \in CallersOf(helper) <=> \E p \in calls : Enclosing(pinned, p) = n)
  BY <1>5, <1>6, <1>7
<1>9. CallersOf(helper) \subseteq Names
  BY <1>5, <1>7
<1>10. ASSUME NEW c
       PROVE  c \in TrueCallers(d) <=> \E n \in CallersOf(helper) : c = [path |-> File, leaf |-> n]
  <2>1. c \in TrueCallers(d) <=> /\ c \in CorpusPlaces /\ c.path # Other
                                 /\ \E p \in CallLines(c.path, helper) : Enclosing(Corpus[c.path], p) = c.leaf
    <3> HIDE DEF d
    <3> QED BY <1>2 DEF TrueCallers
  <2>2. c \in CorpusPlaces /\ c.path # Other <=> \E n \in Names : c = [path |-> File, leaf |-> n]
    BY <1>1 DEF CorpusPlaces
  <2>3. ASSUME NEW n \in Names, c = [path |-> File, leaf |-> n]
        PROVE  c \in TrueCallers(d) <=> n \in CallersOf(helper)
    <3>1. c.path = File /\ c.leaf = n
      BY <2>3
    <3> HIDE DEF d
    <3> QED BY <1>1, <1>3, <1>8, <2>1, <2>2, <2>3, <3>1
  <2>4. \A n, m : [path |-> File, leaf |-> n] = [path |-> File, leaf |-> m] => n = m
    OBVIOUS
  <2> HIDE DEF d
  <2> QED BY <1>9, <2>1, <2>2, <2>3
<1>11. TrueCallers(d) = {[path |-> File, leaf |-> n] : n \in CallersOf(helper)}
  <2> HIDE DEF d
  <2> QED BY <1>10
<1> QED BY <1>4, <1>11

LEMMA MinedAdmits == MineInv => AdmittedCallersCall
<1> SUFFICES ASSUME MineInv, NEW helper \in Defines(Elsewhere), NEW leaves \in SUBSET Names \ {{}},
                    CheckQuestion(CallerQuestion(helper, leaves), Index, DefinitionCounts,
                                  CallersByPlace) = {}
             PROVE  /\ leaves = CallersOf(helper)
                    /\ ~GoldDefect(CallerQuestion(helper, leaves), CallersByPlace)
  BY DEF AdmittedCallersCall
<1> DEFINE q == CallerQuestion(helper, leaves)
           d == [path |-> Other, leaf |-> helper]
           gold == {Identity(File, n) : n \in leaves}
           In(some) == {[path |-> File, leaf |-> n] : n \in some}
           claimed == {Place(i) : i \in ToSet(Flatten(q.gold))} \ {q.helper}
<1>1. helper \in Names /\ pinned \in Seq(SourceLine) /\ leaves \subseteq Names /\ helper # ""
  BY DefinedNames, MinedSuiteAssumption DEF MineInv
<1>2. /\ q.gold = Listed(SetToSeq(gold)) /\ q.helper = d /\ q.hops = 1 /\ q.exhaustive
  BY DEF CallerQuestion
<1>3. q.gold.kind = "list" /\ q.gold.items = SetToSeq(gold)
  BY <1>2 DEF Listed
<1>4. q.gold # Null /\ q.helper # NoHelper /\ d.path = Other
  <2>1. Null.kind = "null" /\ NoHelper.leaf = "" /\ d.leaf = helper
    BY DEF Null, NoHelper
  <2> QED BY <1>1, <1>2, <1>3, <2>1
<1>5. Flatten(q.gold) = SetToSeq(gold)
  BY <1>3 DEF Flatten, Pieces
<1>6. IsFiniteSet(gold)
  <2>1. IsFiniteSet(leaves)
    BY <1>1, MinedSuiteAssumption, FS_Subset
  <2> DEFINE f == [n \in leaves |-> Identity(File, n)]
  <2>2. IsFiniteSet({f[n] : n \in DOMAIN f})
    <3>1. DOMAIN f = leaves
      OBVIOUS
    <3> HIDE DEF f
    <3> QED BY <2>1, <3>1, ImageFinite
  <2>3. {f[n] : n \in DOMAIN f} = gold
    OBVIOUS
  <2> QED BY <2>2, <2>3
<1>7. ToSet(Flatten(q.gold)) = gold
  BY <1>5, <1>6, ElementsOf
<1>8. {Place(i) : i \in gold} = In(leaves)
  <2>1. ASSUME NEW n PROVE Place(Identity(File, n)) = [path |-> File, leaf |-> n]
    BY DEF Place, PathOf, Identity
  <2> QED BY <2>1
<1>9. claimed = In(leaves)
  <2>1. d \notin In(leaves)
    BY DEF File, Other
  <2> HIDE DEF In, d, gold
  <2> QED BY <1>2, <1>7, <1>8, <2>1
<1>10. CallersByPlace[d] = In(CallersOf(helper)) /\ d \notin In(CallersOf(helper))
  <2>1. d \notin In(CallersOf(helper))
    BY DEF File, Other
  <2> QED BY <1>1, <2>1, CallersCounted
<1> HIDE DEF In, gold, claimed, q
<1>11. Verified(q, CallersByPlace) = In(CallersOf(helper))
  <2> HIDE DEF d
  <2> QED BY <1>2, <1>10 DEF Verified
<1>12. CallerProblems(q, Index, DefinitionCounts, CallersByPlace) = {}
  <2> HIDE DEF d
  <2>1. CheckQuestion(q, Index, DefinitionCounts, CallersByPlace) = {}
    BY DEF q
  <2> QED BY <1>4, <2>1, Zenon DEF CheckQuestion
<1>13. claimed = Verified(q, CallersByPlace)
  <2>1. "claims no caller" \notin CallerProblems(q, Index, DefinitionCounts, CallersByPlace)
    BY <1>12
  <2>2. "omits a caller" \notin CallerProblems(q, Index, DefinitionCounts, CallersByPlace)
    BY <1>12
  <2>3. claimed \subseteq Verified(q, CallersByPlace)
    BY <2>1 DEF CallerProblems, claimed
  <2>4. Verified(q, CallersByPlace) \subseteq claimed
    BY <1>2, <2>2 DEF CallerProblems, claimed
  <2> QED BY <2>3, <2>4
<1>14. In(leaves) = In(CallersOf(helper))
  BY <1>9, <1>11, <1>13
<1>15. leaves = CallersOf(helper)
  <2>1. \A n, m : [path |-> File, leaf |-> n] = [path |-> File, leaf |-> m] => n = m
    OBVIOUS
  <2>2. ASSUME NEW some, NEW n PROVE [path |-> File, leaf |-> n] \in In(some) <=> n \in some
    BY <2>1 DEF In
  <2> QED BY <1>14, <2>2
<1>16. ~GoldDefect(q, CallersByPlace)
  <2> HIDE DEF d
  <2> QED BY <1>2, <1>9, <1>10, <1>15, Zenon DEF GoldDefect, claimed
<1> QED BY <1>15, <1>16 DEF q

\* Read upwards with a tightening bound, a line of code is attributed to the
\* definition whose block the grammar puts it in. (AttributedToScope)
THEOREM Attributed == MineInit /\ [][MineNext]_mineVars => []AttributedToScope
<1>1. MineInit => MineInv
  BY MineStart
<1>2. MineInv /\ [MineNext]_mineVars => MineInv'
  BY MineStep
<1>3. MineInv => AttributedToScope
  BY LinesInScope
<1> QED BY <1>1, <1>2, <1>3, PTL

\* Every question the miner emits compiles, and the runner loads the suite.
\* (MinedCompiles)
THEOREM Compiling == MineInit /\ [][MineNext]_mineVars => []MinedCompiles
<1>1. MineInit => MineInv
  BY MineStart
<1>2. MineInv /\ [MineNext]_mineVars => MineInv'
  BY MineStep
<1>3. MineInv => MinedCompiles
  BY MinedStands
<1> QED BY <1>1, <1>2, <1>3, PTL

\* A caller question that compiles has exactly the callers for its gold.
\* (AdmittedCallersCall)
THEOREM Admission == MineInit /\ [][MineNext]_mineVars => []AdmittedCallersCall
<1>1. MineInit => MineInv
  BY MineStart
<1>2. MineInv /\ [MineNext]_mineVars => MineInv'
  BY MineStep
<1>3. MineInv => AdmittedCallersCall
  BY MinedAdmits
<1> QED BY <1>1, <1>2, <1>3, PTL

-----------------------------------------------------------------------------
(* LocbenchSuite: what is shipped stands on its trees. *)

\* A question that was built of a row: the row's words, and a gold that says
\* of each of its names where it is.
Built(q) ==
    /\ q.row \in DOMAIN Rows /\ q.words = Rows[q.row].words
    /\ q.gold # Null
    /\ \A i \in ToSet(Flatten(q.gold)) : \E p : i.paths = {p}

LocInv ==
    /\ phase \in {"fetch", "checkout", "mark", "gold"} => row \in DOMAIN Rows
    /\ entries \in Seq(ToSet(entries)) /\ \A k \in DOMAIN entries : Built(entries[k])
    /\ phase = "done" => problems = {k \in DOMAIN entries : Uncompilable(entries[k])}

\* What question_for makes of a row is such a question.
LEMMA EntryBuilt ==
    ASSUME row \in DOMAIN Rows, NEW files, Rows[row].edits # <<>>
    PROVE  Built(Entry(Rows[row], files))
<1> DEFINE r == Rows[row]
           gold == [i \in DOMAIN r.edits |-> Identity(r.edits[i].path, r.edits[i].leaf)]
           q == Entry(r, files)
<1>1. /\ q.row = row /\ q.words = r.words
      /\ q.gold = IF Len(gold) = 1 THEN Claimed(gold[1]) ELSE Listed(gold)
  BY DEF Entry
<1>2. Len(r.edits) \in Nat /\ DOMAIN r.edits = 1 .. Len(r.edits)
  BY LocbenchAssumption
<1>3. ASSUME NEW i \in DOMAIN gold PROVE \E p : gold[i].paths = {p}
  BY DEF Identity
<1>4. Len(gold) = Len(r.edits)
  BY <1>2
<1> HIDE DEF q, gold
<1>5. CASE Len(gold) = 1
  <2>1. 1 \in DOMAIN gold
    BY <1>2, <1>4, <1>5 DEF gold
  <2>2. q.gold = Claimed(gold[1])
    BY <1>1, <1>5
  <2>3. q.gold # Null /\ Flatten(q.gold) = <<gold[1]>>
    BY <2>2 DEF Claimed, Null, Flatten, Pieces
  <2>4. ToSet(Flatten(q.gold)) = {gold[1]}
    BY <2>3 DEF ToSet
  <2> QED BY <1>1, <1>3, <2>1, <2>3, <2>4 DEF Built, q
<1>6. CASE Len(gold) # 1
  <2>1. q.gold = Listed(gold)
    BY <1>1, <1>6
  <2>2. q.gold # Null /\ Flatten(q.gold) = gold
    BY <2>1 DEF Listed, Null, Flatten, Pieces
  <2> QED BY <1>1, <1>3, <2>2 DEF Built, q, ToSet
<1> QED BY <1>5, <1>6

LEMMA LocStart == LocInit => LocInv
  BY LocbenchAssumption DEF LocInit, LocInv, ToSet

\* The row is left, with a question or without one.
LEMMA RowLeft ==
    ASSUME LocInv, phase \in {"fetch", "gold"}, NEW keeps, NextRow(keeps),
           keeps = <<>> \/ \E q : Built(q) /\ keeps = <<q>>
    PROVE  LocInv'
<1>1. row \in 1 .. Len(Rows) /\ DOMAIN Rows = 1 .. Len(Rows) /\ Len(Rows) \in Nat
  BY LocbenchAssumption DEF LocInv
<1>2. phase' \in {"fetch", "link"} /\ (phase' = "fetch" => row' \in DOMAIN Rows)
  <2>1. CASE row = Len(Rows)
    BY <2>1 DEF NextRow
  <2>2. CASE row # Len(Rows)
    <3>1. row' = row + 1 /\ phase' = "fetch"
      BY <2>2 DEF NextRow
    <3> DEFINE n == Len(Rows)
    <3>2. row + 1 \in 1 .. Len(Rows)
      <4>1. n \in Nat /\ row \in 1 .. n /\ row # n
        BY <1>1, <2>2
      <4> HIDE DEF n
      <4>2. row + 1 \in 1 .. n
        BY <4>1
      <4> QED BY <4>2 DEF n
    <3>3. row + 1 \in DOMAIN Rows
      BY <1>1, <3>2
    <3> QED BY <3>1, <3>3
  <2> QED BY <2>1, <2>2
<1>3. entries' \in Seq(ToSet(entries')) /\ \A k \in DOMAIN entries' : Built(entries'[k])
  <2>1. CASE keeps = <<>>
    BY <2>1 DEF NextRow, LocInv
  <2>2. ASSUME NEW q, Built(q), keeps = <<q>>
        PROVE  entries' \in Seq(ToSet(entries')) /\ \A k \in DOMAIN entries' : Built(entries'[k])
    <3> DEFINE S == ToSet(entries)
               B == {x \in S \cup {q} : Built(x)}
    <3>1. entries' = entries \o <<q>>
      BY <2>2 DEF NextRow
    <3>2. entries \in Seq(B)
      BY DEF LocInv, ToSet
    <3>3. q \in B
      BY <2>2
    <3>4. \A x \in B : Built(x)
      OBVIOUS
    <3> HIDE DEF B
    <3>5. entries' \in Seq(B)
      BY <3>1, <3>2, <3>3
    <3>6. entries' \in Seq(ToSet(entries'))
      BY <3>5, OwnElements
    <3>7. \A k \in DOMAIN entries' : entries'[k] \in B
      BY <3>5
    <3> QED BY <3>4, <3>6, <3>7
  <2> QED BY <2>1, <2>2
<1> QED BY <1>2, <1>3 DEF LocInv

LEMMA LocStep == LocInv /\ [LocNext]_locVars => LocInv'
<1> SUFFICES ASSUME LocInv, [LocNext]_locVars PROVE LocInv'
  OBVIOUS
<1>1. CASE SkipRow
  BY <1>1, RowLeft DEF SkipRow
<1>2. CASE Reuse
  BY <1>2 DEF Reuse, LocInv
<1>3. CASE Fetch
  <2>1. CASE NextRow(<<>>)
    BY <1>3, <2>1, RowLeft DEF Fetch
  <2>2. CASE phase' = "checkout" /\ UNCHANGED <<row, entries, skipped, place, seen, original, problems, kills>>
    BY <1>3, <2>2 DEF Fetch, LocInv
  <2> QED BY <1>3, <2>1, <2>2 DEF Fetch
<1>4. CASE Checkout
  BY <1>4 DEF Checkout, LocInv
<1>5. CASE Mark
  BY <1>5 DEF Mark, LocInv
<1>6. CASE BuildEntry
  <2> DEFINE r == Rows[row]
             files == disk[row].files
  <2>1. row \in DOMAIN Rows /\ phase = "gold"
    BY <1>6 DEF BuildEntry, LocInv
  <2>2. CASE NextRow(<<>>)
    BY <2>1, <2>2, RowLeft
  <2>3. CASE NextRow(<<Entry(r, files)>>) /\ GoldPlaced(r, TreeIndex(files))
    <3>1. Built(Entry(r, files))
      BY <2>1, <2>3, EntryBuilt DEF GoldPlaced
    <3> HIDE DEF r, files
    <3> QED BY <2>1, <2>3, <3>1, RowLeft
  <2> QED BY <1>6, <2>2, <2>3 DEF BuildEntry
<1>7. CASE Dedupe
  <2>1. phase' \in {"link", "relink"} /\ UNCHANGED <<entries>>
    BY <1>7 DEF Dedupe
  <2> QED BY <2>1 DEF LocInv
<1>8. CASE Relink
  BY <1>8 DEF Relink, LocInv
<1>9. CASE LinksDone
  BY <1>9 DEF LinksDone, LocInv
<1>10. CASE Compile
  <2>1. disk' = disk /\ entries' = entries /\ phase' = "done"
        /\ problems' = {k \in DOMAIN entries : Uncompilable(entries[k])}
    BY <1>10 DEF Compile
  <2>2. \A q : Uncompilable(q)' <=> Uncompilable(q)
    BY <2>1 DEF Uncompilable, CorpusNow
  <2> QED BY <2>1, <2>2 DEF LocInv
<1>11. CASE LocKilled
  BY <1>11 DEF LocKilled, LocInv
<1>12. CASE LocRestart
  BY <1>12, LocbenchAssumption DEF LocRestart, LocInv, ToSet
<1>13. CASE UNCHANGED locVars
  <2>1. \A q : Uncompilable(q)' <=> Uncompilable(q)
    BY <1>13 DEF locVars, Uncompilable, CorpusNow
  <2> QED BY <1>13, <2>1 DEF locVars, LocInv
<1> QED BY <1>1, <1>2, <1>3, <1>4, <1>5, <1>6, <1>7, <1>8, <1>9, <1>10, <1>11, <1>12, <1>13 DEF LocNext

\* A question that compiles alone has its evidence, and a gold that stands and
\* is not told.
LEMMA CompilesAlone ==
    ASSUME NEW q, Built(q), ~Uncompilable(q)
    PROVE  LET index == TreeIndex(CorpusNow(q))
           IN  /\ \A i \in ToSet(Flatten(q.gold)) :
                     i.paths \subseteq Defining(index, i.name) /\ i.name \notin q.words
               /\ q.evidence.path \in Defining(index, q.evidence.leaf)
<1> DEFINE index == TreeIndex(CorpusNow(q))
           one == <<q>>
<1> HIDE DEF index
<1>1. DOMAIN one = {1} /\ one[1] = q
  OBVIOUS
<1>2. Validate(one, index, <<>>, <<>>) = {}
  BY DEF Uncompilable, index
<1> HIDE DEF one
<1>3. CheckStructure(q, index) = {} /\ CheckQuestion(q, index, <<>>, <<>>) = {}
  BY <1>1, <1>2 DEF Validate
<1>4. q.evidence.path \in Defining(index, q.evidence.leaf)
  <2>1. "evidence absent" \notin CheckStructure(q, index)
    BY <1>3
  <2> QED BY <2>1 DEF CheckStructure
<1>5. ASSUME NEW i \in ToSet(Flatten(q.gold))
      PROVE  i.paths \subseteq Defining(index, i.name) /\ i.name \notin q.words
  <2>1. q.gold # Null
    BY DEF Built
  <2>2. /\ "leaks a target" \notin CheckQuestion(q, index, <<>>, <<>>)
        /\ "gold misplaced" \notin CheckQuestion(q, index, <<>>, <<>>)
    BY <1>3
  <2> QED BY <2>1, <2>2 DEF CheckQuestion
<1> QED BY <1>4, <1>5 DEF index

LEMMA LocStands == LocInv => ShippedGoldStands
<1> SUFFICES ASSUME LocInv, Succeeds, NEW q \in ToSet(entries)
             PROVE  LET index == TreeIndex(disk[q.row].files)
                    IN /\ \A i \in ToSet(Flatten(q.gold)) :
                             /\ PathOf(i) \in Defining(index, i.name)
                             /\ i.name \notin Rows[q.row].words
                       /\ q.evidence.path \in Defining(index, q.evidence.leaf)
  BY DEF ShippedGoldStands
<1>1. PICK k \in DOMAIN entries : q = entries[k]
  BY DEF ToSet
<1>2. Built(q) /\ ~Uncompilable(q)
  BY <1>1 DEF LocInv, Succeeds
<1>3. CorpusNow(q) = disk[q.row].files /\ q.words = Rows[q.row].words
  BY <1>2 DEF CorpusNow, Built
<1> DEFINE index == TreeIndex(disk[q.row].files)
<1>4. /\ \A i \in ToSet(Flatten(q.gold)) :
            i.paths \subseteq Defining(index, i.name) /\ i.name \notin q.words
      /\ q.evidence.path \in Defining(index, q.evidence.leaf)
  BY <1>2, <1>3, CompilesAlone
<1> HIDE DEF index
<1>5. ASSUME NEW i \in ToSet(Flatten(q.gold)) PROVE PathOf(i) \in i.paths
  BY <1>2 DEF Built, PathOf
<1> QED BY <1>3, <1>4, <1>5 DEF index

\* A suite that is reported good stands on its trees, whatever the checkouts
\* and links did before. (locbench_suite.py main, compile_each)
THEOREM Shipped == LocInit /\ [][LocNext]_locVars => []ShippedGoldStands
  BY LocStart, LocStep, LocStands, PTL

-----------------------------------------------------------------------------
(* SuiteGates: the inductive invariant.  What an answer showed stays harvested, *)
(* and what was queried without an error has been answered.                     *)

TraceOf(n) == [tool |-> "find_callers", name |-> n]

\* The crawl knows the words of the question and every name it was shown.
KnowsNames == QuestionTerms(task) \subseteq terms /\ Harvest(got) \subseteq names

\* The rows of every answer are among what was got.
AnswersKept == \A c \in asked : Payload(c) \subseteq got

\* Without an error, a name that was queried or traced has an answer.
QueriesAnswered ==
    failed = 0 => /\ \A n \in queried : Search(n) \in asked
                  /\ \A n \in traced : TraceOf(n) \in asked

\* A crawl that solves its question stops there and then.
Unsolved == verdict # "solved" => ~Solved(got)

\* A crawl that gave up had nothing left to ask with.
NothingLeft == verdict = "gave_up" => TermsLeft = {} /\ CallersLeft = {} /\ NamesLeft = {}

GatesInv == /\ failed \in Nat
            /\ KnowsNames /\ AnswersKept /\ QueriesAnswered /\ Unsolved /\ NothingLeft

-----------------------------------------------------------------------------
\* The invariant holds before the crawl asks anything.
LEMMA GatesStart == GatesInit => GatesInv
<1> SUFFICES ASSUME GatesInit PROVE GatesInv
  OBVIOUS
<1> USE DEF GatesInit
<1>1. failed \in Nat
  OBVIOUS
<1>2. KnowsNames
  BY DEF KnowsNames, Harvest
<1>3. AnswersKept /\ QueriesAnswered /\ NothingLeft
  BY DEF AnswersKept, QueriesAnswered, NothingLeft
<1>4. ~Solved(got)
  BY DEF Solved, Exposed, Identities
<1> QED
  BY <1>1, <1>2, <1>3, <1>4, Zenon DEF GatesInv, Unsolved

\* One call keeps the invariant, whichever move of the crawl made it, as long as
\* the move only counts as queried or traced what the call asks about.
LEMMA CallKeeps ==
    ASSUME GatesInv, NEW call, Asks(call),
           \A n \in queried' : n \in queried \/ call = Search(n),
           \A n \in traced' : n \in traced \/ call = TraceOf(n)
    PROVE  GatesInv'
<1>1. verdict = "crawling" /\ task' = task
  BY DEF Asks
<1>2. CASE Absorb(Payload(call)) /\ asked' = asked \cup {call} /\ UNCHANGED failed
  <2>1. PICK top : /\ top \subseteq Harvest(Payload(call))
                   /\ names' = names \cup Harvest(Payload(call))
                   /\ terms' = terms \cup (top \ queried')
                   /\ got' = got \cup Payload(call)
                   /\ verdict' = IF Solved(got') THEN "solved" ELSE verdict
    BY <1>2 DEF Absorb, Remembered, kSubset
  <2>2. KnowsNames'
    <3>1. Harvest(got') = Harvest(got) \cup Harvest(Payload(call))
      BY <2>1 DEF Harvest
    <3>2. Harvest(got)' = Harvest(got')
      BY DEF Harvest
    <3>3. QuestionTerms(task)' = QuestionTerms(task)
      BY <1>1 DEF QuestionTerms
    <3> QED
      BY <2>1, <3>1, <3>2, <3>3 DEF GatesInv, KnowsNames
  <2>3. AnswersKept'
    <3>1. ASSUME NEW c \in asked' PROVE Payload(c) \subseteq got'
      BY <1>2, <2>1, <3>1, Zenon DEF GatesInv, AnswersKept
    <3> QED
      BY <3>1 DEF AnswersKept
  <2>4. QueriesAnswered'
    BY <1>2 DEF GatesInv, QueriesAnswered
  <2>5. Unsolved'
    <3>1. Solved(got)' = Solved(got')
      BY <1>1 DEF Solved, Exposed, Identities
    <3> QED
      BY <2>1, <3>1, Zenon DEF Unsolved
  <2>6. verdict' # "gave_up" /\ failed' \in Nat
    BY <1>1, <1>2, <2>1 DEF GatesInv
  <2> QED
    BY <2>2, <2>3, <2>4, <2>5, <2>6 DEF GatesInv, NothingLeft
<1>3. CASE /\ failed' = failed + 1
           /\ UNCHANGED <<names, terms, reads, got, asked, verdict>>
  <2>1. KnowsNames'
    BY <1>1, <1>3 DEF GatesInv, KnowsNames, QuestionTerms, Harvest
  <2>2. AnswersKept'
    BY <1>3 DEF GatesInv, AnswersKept
  <2>3. failed' \in Nat /\ QueriesAnswered'
    BY <1>3 DEF GatesInv, QueriesAnswered
  <2>4. Unsolved'
    BY <1>1, <1>3 DEF GatesInv, Unsolved, Solved, Exposed, Identities
  <2>5. NothingLeft'
    BY <1>1, <1>3 DEF NothingLeft
  <2> QED
    BY <2>1, <2>2, <2>3, <2>4, <2>5 DEF GatesInv
<1> QED
  BY <1>2, <1>3 DEF Asks

\* Every step of the crawl keeps the invariant.
LEMMA GatesStep == GatesInv /\ [GatesNext]_gateVars => GatesInv'
<1> SUFFICES ASSUME GatesInv, [GatesNext]_gateVars PROVE GatesInv'
  OBVIOUS
<1>1. CASE AsksConcept
  BY <1>1, CallKeeps DEF AsksConcept
<1>2. CASE AsksTerm
  <2>1. PICK n \in TermsLeft : queried' = queried \cup {n} /\ Asks(Search(n))
    BY <1>2 DEF AsksTerm
  <2> QED
    BY <1>2, <2>1, CallKeeps DEF AsksTerm
<1>3. CASE AsksCallers
  <2>1. PICK n \in CallersLeft : /\ traced' = traced \cup {n} /\ queried' = queried
                                 /\ Asks(TraceOf(n))
    BY <1>3 DEF AsksCallers, TraceOf
  <2> QED
    BY <2>1, CallKeeps
<1>4. CASE AsksAround
  <2>1. PICK p \in ReadsLeft : queried' = queried /\ Asks(Around(p))
    BY <1>4 DEF AsksAround
  <2> QED
    BY <1>4, <2>1, CallKeeps DEF AsksAround
<1>5. CASE AsksName
  <2>1. PICK n \in NamesLeft : queried' = queried \cup {n} /\ Asks(Search(n))
    BY <1>5 DEF AsksName
  <2> QED
    BY <1>5, <2>1, CallKeeps DEF AsksName
<1>6. CASE GivesUp
  <2> USE <1>6 DEF GivesUp
  <2>1. KnowsNames'
    BY DEF GatesInv, KnowsNames, QuestionTerms, Harvest
  <2>2. AnswersKept' /\ QueriesAnswered' /\ failed' \in Nat
    BY DEF GatesInv, AnswersKept, QueriesAnswered
  <2>3. Unsolved'
    BY DEF GatesInv, Unsolved, Solved, Exposed, Identities
  <2>4. NothingLeft'
    BY DEF NothingLeft, TermsLeft, CallersLeft, NamesLeft
  <2> QED
    BY <2>1, <2>2, <2>3, <2>4 DEF GatesInv
<1>7. CASE UNCHANGED gateVars
  <2> USE <1>7 DEF gateVars
  <2>1. KnowsNames'
    BY DEF GatesInv, KnowsNames, QuestionTerms, Harvest
  <2>2. AnswersKept' /\ QueriesAnswered' /\ failed' \in Nat
    BY DEF GatesInv, AnswersKept, QueriesAnswered
  <2>3. Unsolved'
    BY DEF GatesInv, Unsolved, Solved, Exposed, Identities
  <2>4. NothingLeft'
    BY DEF GatesInv, NothingLeft, TermsLeft, CallersLeft, NamesLeft
  <2> QED
    BY <2>1, <2>2, <2>3, <2>4 DEF GatesInv
<1> QED
  BY <1>1, <1>2, <1>3, <1>4, <1>5, <1>6, <1>7 DEF GatesNext

\* What a taken step shows, a crawl that gave up without an error was shown.
LEMMA TakenShown ==
    ASSUME GatesInv, verdict = "gave_up", failed = 0, NEW call, Taken(call)
    PROVE  Payload(call) \subseteq got
<1>1. QuestionTerms(task) \cup Harvest(got) \subseteq queried
  BY DEF GatesInv, KnowsNames, NothingLeft, TermsLeft, NamesLeft
<1>2. CASE call.tool = "search_concept"
  <2>1. PICK c \in asked : c.tool = call.tool /\ call.found \subseteq c.found
    BY <1>2, Zenon DEF Taken
  <2>2. Payload(call) \subseteq Payload(c)
    BY <1>2, <2>1 DEF Payload
  <2> QED
    BY <2>1, <2>2 DEF GatesInv, AnswersKept
<1>3. CASE call.tool = "search_exact"
  <2>1. Search(call.name) \in asked
    BY <1>1, <1>3 DEF Taken, GatesInv, QueriesAnswered
  <2>2. Payload(call) = Payload(Search(call.name))
    BY <1>3 DEF Payload, Search
  <2> QED
    BY <2>1, <2>2 DEF GatesInv, AnswersKept
<1>4. CASE call.tool = "read_source"
  <2>1. call.lines \subseteq UNION {c.lines : c \in {d \in asked : d.tool = call.tool /\ d.path = call.path}}
    BY <1>4 DEF Taken
  <2>2. ASSUME NEW r \in Payload(call) PROVE r \in got
    <3>1. PICK p \in Real : p[1] = call.path /\ p[2] \in call.lines /\ r = Quoted(p, FALSE, {})
      BY <1>4, <2>2 DEF Payload
    <3>2. PICK c \in asked : c.tool = "read_source" /\ c.path = call.path /\ p[2] \in c.lines
      BY <1>4, <2>1, <3>1
    <3>3. r \in Payload(c)
      BY <3>1, <3>2 DEF Payload
    <3> QED
      BY <3>2, <3>3 DEF GatesInv, AnswersKept
  <2> QED
    BY <2>2
<1>5. CASE call.tool = "find_callers"
  <2>1. WithCallers /\ call.name \in Harvest(got)
    BY <1>5 DEF Taken
  <2>2. TraceOf(call.name) \in asked
    BY <2>1 DEF GatesInv, KnowsNames, NothingLeft, CallersLeft, QueriesAnswered
  <2>3. Payload(call) = Payload(TraceOf(call.name))
    BY <1>5 DEF Payload, TraceOf
  <2> QED
    BY <2>2, <2>3 DEF GatesInv, AnswersKept
<1> QED
  BY <1>2, <1>3, <1>4, <1>5, Zenon DEF Taken

\* The invariant gives ResistantNeedsMore.
LEMMA GatesAgree == GatesInv => ResistantNeedsMore
<1> SUFFICES ASSUME GatesInv, verdict = "gave_up", failed = 0, task.gold # {},
                    NEW path \in Paths, Execute(path),
                    \A i \in DOMAIN path : Taken(path[i].call)
             PROVE  FALSE
  BY Zenon DEF ResistantNeedsMore
<1>1. ASSUME NEW i \in DOMAIN path PROVE Payload(path[i].call) \subseteq got
  BY <1>1, TakenShown
<1>2. ASSUME NEW pair \in task.gold PROVE pair \in Exposed(got, task.gold)
  <2>1. PICK r \in Output(path, Len(path)) : r.at[1] = pair[1] /\ pair[2] \in r.said
    BY <1>2 DEF Execute, Present
  <2>2. r \in got
    BY <1>1 DEF Output
  <2> QED
    BY <2>1, <2>2 DEF Exposed
<1>3. Solved(got)
  BY <1>2 DEF Solved, Exposed, Identities
<1> QED
  BY <1>3 DEF GatesInv, Unsolved

\* A crawl that gave up without an error has seen less than any path that was proved
\* to reach the gold, whatever the source, the questions and the paths are
\* (lexical_oracle.py against tool_reachability.py).
THEOREM Resistance == GatesInit /\ [][GatesNext]_gateVars => []ResistantNeedsMore
<1> QED
  BY GatesStart, GatesStep, GatesAgree, PTL
==============================================================================
