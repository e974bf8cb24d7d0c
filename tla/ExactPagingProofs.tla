-------------------------- MODULE ExactPagingProofs --------------------------
(***************************************************************************)
(* Theorems of ExactPaging, for any corpus, any number of patterns, any    *)
(* limits and any room in a response: the types, BatchEqualsSingle,        *)
(* NothingLost and PagesFollow.                                            *)
(***************************************************************************)
EXTENDS ExactPaging, SequenceTheorems, FiniteSetTheorems, WellFoundedInduction, TLAPS

Match == [file : Nat, line : Nat, kind : Kinds, pattern : Nat]

TypeOK ==
    /\ corpus \in Corpora /\ limit \in Nat /\ offset \in Nat
    /\ phase \in {"asking", "walking", "done", "failed"}
    /\ file \in 1 .. Len(corpus) + 1
    /\ pattern \in Patterns
    /\ line \in Nat \ {0}
    /\ hits \in [Patterns -> Seq(Match)]
    /\ seen \in [Patterns -> Nat]
    /\ got \in [Patterns -> Seq(Match)]
    /\ cut \in BOOLEAN

Lesser(a, b) == IF a <= b THEN a ELSE b

\* How many matches of p the first f files have.
Behind(p, f) == Len(Joined(InFile(p))[f])

\* How many matches of p a walk has behind it that is at file f, pattern q, line l.
Before(p, f, q, l) ==
    Behind(p, f - 1) + (IF f \notin Files THEN 0
                        ELSE IF p < q THEN Len(corpus[f][p])
                        ELSE IF p = q THEN l - 1 ELSE 0)
Passed(p) == Before(p, file, pattern, line)

\* Where the walk is.
Position ==
    phase = "walking" =>
        IF file \in Files THEN line <= Len(Here) + 1 ELSE pattern = 1 /\ line = 1

\* A pattern's page is what the first k matches make it, and these are all the
\* walk has passed, unless the page is full.
Gathered(p, k) ==
    /\ k \in 0 .. Passed(p)
    /\ hits[p] = RowsAfter(Matches(p), offset)[k]
    /\ seen[p] = Lesser(offset, k)
    /\ Len(hits[p]) <= limit + 1
    /\ k = Passed(p) \/ Len(hits[p]) = limit + 1
PagesSoFar == phase = "walking" => \A p \in Patterns : \E k \in Nat : Gathered(p, k)

\* Nothing but rows of the pattern is received, and, unless a page of several
\* patterns was trimmed, all of them the offset has passed.
Received(p) ==
    /\ \A i \in DOMAIN got[p] :
         \E k \in DOMAIN Matches(p) : got[p][i] = Matches(p)[k] /\ IsRow(Matches(p)[k])
    /\ ~cut => \A k \in DOMAIN Matches(p) :
         (k <= offset \/ phase = "done") /\ IsRow(Matches(p)[k]) =>
             \E i \in DOMAIN got[p] : got[p][i] = Matches(p)[k]
ReceivedAll == \A p \in Patterns : Received(p)

\* Where all matches are rows, what is received is the first of them, as many as
\* the offset says.
OnlyRows(p) == \A k \in DOMAIN Matches(p) : IsRow(Matches(p)[k])
InOrder(p) ==
    /\ Len(got[p]) <= Len(Matches(p))
    /\ \A i \in DOMAIN got[p] : got[p][i] = Matches(p)[i]
    /\ phase # "done" => Len(got[p]) = Lesser(offset, Len(Matches(p)))
Consecutive == ~cut => \A p \in Patterns : OnlyRows(p) => InOrder(p)

Inv == TypeOK /\ Position /\ PagesSoFar /\ ReceivedAll /\ Consecutive

-----------------------------------------------------------------------------
(* Induction, as a fact about sets of numbers. *)

\* A set of numbers that is not empty has a least one.
LEMMA Least ==
    ASSUME NEW T, T \subseteq Nat, T # {}
    PROVE  \E x \in T : \A y \in T : x <= y
<1> DEFINE Less == {p \in Nat \X Nat : p[1] < p[2]}
<1>1. IsWellFoundedOn(Less, Nat)
  BY NatLessThanWellFounded DEF OpToRel
<1> HIDE DEF Less
<1>2. PICK x \in T : \A y \in T : ~ (<<y, x>> \in Less)
  BY <1>1, WFMin
<1>3. ASSUME NEW y \in T PROVE x <= y
  <2>1. x \in Nat /\ y \in Nat
    OBVIOUS
  <2>2. CASE y < x
    <3>1. <<y, x>> \in Less
      BY <2>1, <2>2 DEF Less
    <3> QED BY <1>2, <3>1
  <2> QED BY <2>1, <2>2
<1> QED BY <1>3

\* One that has 0, and with every number the next one, has them all.
LEMMA Induction ==
    ASSUME NEW T, T \subseteq Nat, 0 \in T, \A n \in T : n + 1 \in T
    PROVE  T = Nat
<1> SUFFICES ASSUME T # Nat PROVE FALSE
  OBVIOUS
<1>1. PICK x \in Nat \ T : \A y \in Nat \ T : x <= y
  BY Least
<1>2. x # 0 /\ x - 1 \in Nat
  BY <1>1
<1>3. x - 1 \in T
  BY <1>1, <1>2
<1> QED BY <1>1, <1>2, <1>3

Follows(f, N, base, step) == f[0] = base /\ \A n \in 1 .. N : f[n] = step[n][f[n - 1]]

\* A recursion on numbers has a solution.
LEMMA Recursion ==
    ASSUME NEW N \in Nat, NEW A, NEW base \in A, NEW step \in [1 .. N -> [A -> A]]
    PROVE  \E f \in [0 .. N -> A] : Follows(f, N, base, step)
<1> DEFINE Solves(f, m) == f[0] = base /\ \A n \in 1 .. m : f[n] = step[n][f[n - 1]]
           Solved == {m \in Nat : m <= N => \E f \in [0 .. m -> A] : Solves(f, m)}
<1>1. 0 \in Solved
  <2> DEFINE g == [n \in 0 .. 0 |-> base]
  <2>1. g \in [0 .. 0 -> A] /\ Solves(g, 0)
    OBVIOUS
  <2> HIDE DEF g, Solves
  <2> QED BY <2>1
<1>2. ASSUME NEW m \in Solved PROVE m + 1 \in Solved
  <2> SUFFICES ASSUME m + 1 <= N PROVE \E f \in [0 .. m + 1 -> A] : Solves(f, m + 1)
    OBVIOUS
  <2>1. PICK g \in [0 .. m -> A] : Solves(g, m)
    OBVIOUS
  <2> DEFINE h == [n \in 0 .. m + 1 |-> IF n <= m THEN g[n] ELSE step[m + 1][g[m]]]
  <2>2. step[m + 1][g[m]] \in A
    OBVIOUS
  <2>3. h \in [0 .. m + 1 -> A]
    BY <2>2
  <2>4. h[m + 1] = step[m + 1][g[m]] /\ \A n \in 0 .. m : h[n] = g[n]
    OBVIOUS
  <2> HIDE DEF h
  <2>5. Solves(h, m + 1)
    BY <2>1, <2>4
  <2> HIDE DEF Solves
  <2> QED BY <2>3, <2>5
<1>3. Solved = Nat
  <2>1. Solved \subseteq Nat
    OBVIOUS
  <2> HIDE DEF Solved
  <2> QED BY <1>1, <1>2, <2>1, Induction
<1> QED BY <1>3 DEF Follows

-----------------------------------------------------------------------------
(* Sequences one behind the other. *)

\* The elements of two sequences one behind the other.
LEMMA Concat ==
    ASSUME NEW S, NEW s \in Seq(S), NEW t \in Seq(S)
    PROVE  /\ s \o t \in Seq(S) /\ Len(s) \in Nat /\ Len(t) \in Nat
           /\ Len(s \o t) = Len(s) + Len(t)
           /\ \A i \in 1 .. Len(s) : (s \o t)[i] = s[i]
           /\ \A i \in 1 .. Len(t) : (s \o t)[Len(s) + i] = t[i]
  OBVIOUS

\* The first n parts are the first n - 1 and the n-th behind them.
LEMMA JoinedUnfolds ==
    ASSUME NEW S, NEW parts \in Seq(Seq(S))
    PROVE  /\ Joined(parts)[0] = <<>>
           /\ \A n \in 1 .. Len(parts) : Joined(parts)[n] = Joined(parts)[n - 1] \o parts[n]
           /\ \A n \in 0 .. Len(parts) : Joined(parts)[n] \in Seq(S)
<1> DEFINE N == Len(parts)
           Body(g, n) == IF n = 0 THEN <<>> ELSE g[n - 1] \o parts[n]
           step == [n \in 1 .. N |-> [x \in Seq(S) |-> x \o parts[n]]]
<1>1. N \in Nat /\ \A n \in 1 .. N : parts[n] \in Seq(S)
  OBVIOUS
<1>2. step \in [1 .. N -> [Seq(S) -> Seq(S)]]
  BY <1>1
<1>3. <<>> \in Seq(S)
  OBVIOUS
<1>4. PICK f \in [0 .. N -> Seq(S)] : f[0] = <<>> /\ \A n \in 1 .. N : f[n] = step[n][f[n - 1]]
  <2> DEFINE A == Seq(S)
             none == <<>>
  <2>1. N \in Nat /\ none \in A /\ step \in [1 .. N -> [A -> A]]
    BY <1>1, <1>2, <1>3
  <2> HIDE DEF N, step, A, none
  <2>2. \E f \in [0 .. N -> A] : Follows(f, N, none, step)
    BY <2>1, Recursion
  <2> QED BY <2>2 DEF A, none, Follows
<1>5. ASSUME NEW n \in 0 .. N PROVE f[n] = Body(f, n)
  <2>1. CASE n = 0
    BY <1>4, <2>1
  <2>2. CASE n # 0
    <3>1. n \in 1 .. N /\ n - 1 \in 0 .. N
      BY <1>1, <2>2
    <3>2. f[n - 1] \in Seq(S)
      BY <1>4, <3>1
    <3>3. step[n][f[n - 1]] = f[n - 1] \o parts[n]
      BY <3>1, <3>2
    <3> HIDE DEF step, N
    <3> QED BY <1>4, <2>2, <3>1, <3>3
  <2> QED BY <2>1, <2>2
<1>6. f = [n \in 0 .. N |-> f[n]]
  OBVIOUS
<1>7. f = [n \in 0 .. N |-> Body(f, n)]
  <2> HIDE DEF Body
  <2> QED BY <1>5, <1>6
<1> DEFINE J == Joined(parts)
<1>8. J = CHOOSE g : g = [n \in 0 .. N |-> Body(g, n)]
  BY DEF Joined
<1>9. J = [n \in 0 .. N |-> Body(J, n)]
  <2> HIDE DEF Body, J, N
  <2> QED BY <1>7, <1>8
<1> HIDE DEF J
<1>10. J[0] = <<>> /\ \A n \in 1 .. N : J[n] = J[n - 1] \o parts[n]
  <2> HIDE DEF N
  <2>1. J[0] = Body(J, 0)
    BY <1>1, <1>9
  <2>2. ASSUME NEW n \in 1 .. N PROVE J[n] = Body(J, n) /\ n # 0
    <3>1. n \in 0 .. N /\ n # 0
      BY <1>1
    <3> HIDE DEF Body
    <3> QED BY <1>9, <3>1
  <2> QED BY <2>1, <2>2
<1> DEFINE T == {n \in Nat : n <= N => J[n] \in Seq(S)}
<1>11. 0 \in T
  BY <1>3, <1>10
<1>12. ASSUME NEW n \in T PROVE n + 1 \in T
  <2> SUFFICES ASSUME n + 1 <= N PROVE J[n + 1] \in Seq(S)
    OBVIOUS
  <2>1. n \in Nat /\ n + 1 \in 1 .. N /\ (n + 1) - 1 = n
    BY <1>1
  <2>2. J[n] \in Seq(S) /\ parts[n + 1] \in Seq(S)
    BY <1>1, <2>1
  <2>3. J[n + 1] = J[n] \o parts[n + 1]
    BY <1>10, <2>1
  <2> HIDE DEF T, N
  <2> QED BY <2>2, <2>3
<1>13. T = Nat
  <2>1. T \subseteq Nat
    OBVIOUS
  <2> HIDE DEF T
  <2> QED BY <1>11, <1>12, <2>1, Induction
<1>14. ASSUME NEW n \in 0 .. N PROVE J[n] \in Seq(S)
  <2>1. n \in T /\ n <= N
    BY <1>1, <1>13
  <2> QED BY <2>1
<1> QED BY <1>10, <1>14 DEF J

Begins(s, t) == Len(s) <= Len(t) /\ \A i \in 1 .. Len(s) : t[i] = s[i]

\* What a sequence begins with, a longer one begins with.
LEMMA BeginsLonger ==
    ASSUME NEW S, NEW s \in Seq(S), NEW t \in Seq(S), NEW u \in Seq(S), Begins(s, t)
    PROVE  Begins(s, t \o u)
<1>1. Len(s) \in Nat /\ Len(t) \in Nat /\ Len(u) \in Nat /\ Len(t \o u) = Len(t) + Len(u)
  OBVIOUS
<1>2. ASSUME NEW i \in 1 .. Len(s) PROVE (t \o u)[i] = t[i]
  <2>1. i \in 1 .. Len(t)
    BY <1>1 DEF Begins
  <2> QED BY <2>1
<1> QED BY <1>1, <1>2 DEF Begins

\* What fewer of them make up is the beginning of what more of them make up.
LEMMA JoinedGrows ==
    ASSUME NEW S, NEW parts \in Seq(Seq(S)), NEW m \in 0 .. Len(parts), NEW n \in m .. Len(parts)
    PROVE  Begins(Joined(parts)[m], Joined(parts)[n])
<1> DEFINE N == Len(parts)
           J == Joined(parts)
           T == {k \in Nat : m + k <= N => Begins(J[m], J[m + k])}
<1>1. /\ N \in Nat /\ \A k \in 1 .. N : parts[k] \in Seq(S)
      /\ \A k \in 1 .. N : J[k] = J[k - 1] \o parts[k]
  <2>1. N \in Nat /\ \A k \in 1 .. N : parts[k] \in Seq(S)
    OBVIOUS
  <2> QED BY <2>1, JoinedUnfolds
<1>2. \A k \in 0 .. N : J[k] \in Seq(S)
  BY JoinedUnfolds
<1>3. m \in Nat /\ n \in Nat /\ m <= n /\ n <= N
  OBVIOUS
<1> HIDE DEF J, N
<1>4. 0 \in T
  <2>1. Begins(J[m], J[m])
    BY <1>1, <1>2, <1>3 DEF Begins
  <2> QED BY <1>3, <2>1
<1>5. ASSUME NEW k \in T PROVE k + 1 \in T
  <2> SUFFICES ASSUME m + (k + 1) <= N PROVE Begins(J[m], J[m + (k + 1)])
    OBVIOUS
  <2>1. k \in Nat /\ Begins(J[m], J[m + k])
    BY <1>1, <1>3
  <2>2. m + (k + 1) \in 1 .. N /\ (m + (k + 1)) - 1 = m + k /\ m \in 0 .. N /\ m + k \in 0 .. N
    BY <1>1, <1>3, <2>1
  <2>3. /\ J[m + (k + 1)] = J[m + k] \o parts[m + (k + 1)]
        /\ J[m] \in Seq(S) /\ J[m + k] \in Seq(S) /\ parts[m + (k + 1)] \in Seq(S)
    BY <1>1, <1>2, <2>2
  <2> HIDE DEF T
  <2> QED BY <2>1, <2>3, BeginsLonger
<1>6. T = Nat
  <2>1. T \subseteq Nat
    OBVIOUS
  <2> HIDE DEF T
  <2> QED BY <1>4, <1>5, <2>1, Induction
<1>7. n - m \in T /\ m + (n - m) = n
  <2>1. n - m \in Nat /\ m + (n - m) = n
    BY <1>3
  <2> HIDE DEF T
  <2> QED BY <1>6, <2>1
<1> QED BY <1>3, <1>7 DEF J

-----------------------------------------------------------------------------
(* The rows among matches, past an offset. *)

\* The rows of the first n matches are those of the first n - 1, and the n-th match
\* if it is a row past the offset.
LEMMA RowsUnfold ==
    ASSUME NEW S, NEW ms \in Seq(S), NEW o \in Nat
    PROVE  /\ \A n \in 0 .. Len(ms) : RowsAfter(ms, o)[n] \in Seq(S)
           /\ \A n \in 0 .. Len(ms) : n <= o => RowsAfter(ms, o)[n] = <<>>
           /\ \A n \in 1 .. Len(ms) : n > o /\ IsRow(ms[n]) =>
                RowsAfter(ms, o)[n] = Append(RowsAfter(ms, o)[n - 1], ms[n])
           /\ \A n \in 1 .. Len(ms) : n > o /\ ~IsRow(ms[n]) =>
                RowsAfter(ms, o)[n] = RowsAfter(ms, o)[n - 1]
<1> DEFINE N == Len(ms)
           After(x, n) == IF n <= o THEN <<>> ELSE IF IsRow(ms[n]) THEN Append(x, ms[n]) ELSE x
           Body(g, n) == IF n <= o THEN <<>>
                         ELSE IF IsRow(ms[n]) THEN Append(g[n - 1], ms[n]) ELSE g[n - 1]
           step == [n \in 1 .. N |-> [x \in Seq(S) |-> After(x, n)]]
<1>1. N \in Nat /\ \A n \in 1 .. N : ms[n] \in S
  OBVIOUS
<1>2. step \in [1 .. N -> [Seq(S) -> Seq(S)]]
  <2>1. ASSUME NEW n \in 1 .. N, NEW x \in Seq(S) PROVE After(x, n) \in Seq(S)
    BY <1>1
  <2> HIDE DEF After
  <2> QED BY <2>1
<1>3. <<>> \in Seq(S)
  OBVIOUS
<1>4. PICK f \in [0 .. N -> Seq(S)] : f[0] = <<>> /\ \A n \in 1 .. N : f[n] = step[n][f[n - 1]]
  <2> DEFINE A == Seq(S)
             none == <<>>
  <2>1. N \in Nat /\ none \in A /\ step \in [1 .. N -> [A -> A]]
    BY <1>1, <1>2, <1>3
  <2> HIDE DEF N, step, A, none
  <2>2. \E f \in [0 .. N -> A] : Follows(f, N, none, step)
    BY <2>1, Recursion
  <2> QED BY <2>2 DEF A, none, Follows
<1>5. ASSUME NEW n \in 0 .. N PROVE f[n] = Body(f, n)
  <2>1. CASE n = 0
    BY <1>4, <2>1
  <2>2. CASE n # 0
    <3>1. n \in 1 .. N /\ n - 1 \in 0 .. N
      BY <1>1, <2>2
    <3>2. f[n - 1] \in Seq(S)
      BY <1>4, <3>1
    <3> HIDE DEF After
    <3>3. step[n][f[n - 1]] = After(f[n - 1], n)
      BY <3>1, <3>2
    <3> HIDE DEF step, N
    <3> QED BY <1>4, <3>1, <3>3 DEF After
  <2> QED BY <2>1, <2>2
<1>6. f = [n \in 0 .. N |-> f[n]]
  OBVIOUS
<1>7. f = [n \in 0 .. N |-> Body(f, n)]
  <2> HIDE DEF Body
  <2> QED BY <1>5, <1>6
<1> DEFINE R == RowsAfter(ms, o)
<1>8. R = CHOOSE g : g = [n \in 0 .. N |-> Body(g, n)]
  BY DEF RowsAfter
<1>9. R = [n \in 0 .. N |-> Body(R, n)]
  <2> HIDE DEF Body, R, N
  <2> QED BY <1>7, <1>8
<1> HIDE DEF R
<1>10. ASSUME NEW n \in 0 .. N PROVE R[n] = Body(R, n)
  <2> HIDE DEF Body, N
  <2> QED BY <1>9
<1> DEFINE T == {n \in Nat : n <= N => R[n] \in Seq(S)}
<1>11. 0 \in T
  <2>1. 0 \in 0 .. N /\ 0 <= o
    BY <1>1
  <2>2. R[0] = <<>>
    BY <1>10, <2>1
  <2> QED BY <1>3, <2>2
<1>12. ASSUME NEW n \in T PROVE n + 1 \in T
  <2> SUFFICES ASSUME n + 1 <= N PROVE R[n + 1] \in Seq(S)
    OBVIOUS
  <2>1. n \in Nat /\ n + 1 \in 1 .. N /\ n + 1 \in 0 .. N /\ (n + 1) - 1 = n
    BY <1>1
  <2>2. R[n] \in Seq(S) /\ ms[n + 1] \in S
    BY <1>1, <2>1
  <2>3. R[n + 1] = Body(R, n + 1)
    BY <1>10, <2>1
  <2> HIDE DEF T, N
  <2> QED BY <1>3, <2>1, <2>2, <2>3
<1>13. T = Nat
  <2>1. T \subseteq Nat
    OBVIOUS
  <2> HIDE DEF T
  <2> QED BY <1>11, <1>12, <2>1, Induction
<1>14. ASSUME NEW n \in 0 .. N PROVE R[n] \in Seq(S) /\ (n <= o => R[n] = <<>>)
  <2>1. n \in T /\ n <= N
    BY <1>1, <1>13
  <2> QED BY <1>10, <2>1
<1>15. ASSUME NEW n \in 1 .. N, n > o
       PROVE  R[n] = IF IsRow(ms[n]) THEN Append(R[n - 1], ms[n]) ELSE R[n - 1]
  <2>1. n \in 0 .. N /\ ~(n <= o)
    BY <1>1, <1>15
  <2> HIDE DEF N
  <2> QED BY <1>10, <2>1
<1> QED BY <1>14, <1>15 DEF R

\* Fewer matches have the beginning of the rows of more of them.
LEMMA RowsGrow ==
    ASSUME NEW S, NEW ms \in Seq(S), NEW o \in Nat, NEW m \in 0 .. Len(ms), NEW n \in m .. Len(ms)
    PROVE  Begins(RowsAfter(ms, o)[m], RowsAfter(ms, o)[n])
<1> DEFINE N == Len(ms)
           R == RowsAfter(ms, o)
           T == {k \in Nat : m + k <= N => Begins(R[m], R[m + k])}
<1>1. N \in Nat /\ m \in Nat /\ n \in Nat /\ m <= n /\ n <= N /\ m \in 0 .. N
  OBVIOUS
<1>2. \A k \in 0 .. N : R[k] \in Seq(S) /\ (k <= o => R[k] = <<>>)
  BY RowsUnfold
<1>3. \A k \in 1 .. N : k > o =>
        R[k] = R[k - 1] \/ (ms[k] \in S /\ R[k] = Append(R[k - 1], ms[k]))
  <2>1. \A k \in 1 .. N : ms[k] \in S
    OBVIOUS
  <2> QED BY <2>1, RowsUnfold
<1> HIDE DEF R, N
<1>4. 0 \in T
  <2>1. Begins(R[m], R[m])
    BY <1>1, <1>2 DEF Begins
  <2> QED BY <1>1, <2>1
<1>5. ASSUME NEW k \in T PROVE k + 1 \in T
  <2> SUFFICES ASSUME m + (k + 1) <= N PROVE Begins(R[m], R[m + (k + 1)])
    OBVIOUS
  <2>1. k \in Nat /\ Begins(R[m], R[m + k])
    BY <1>1
  <2>2. m + (k + 1) \in 1 .. N /\ (m + (k + 1)) - 1 = m + k /\ m + k \in 0 .. N
    BY <1>1, <2>1
  <2>3. R[m] \in Seq(S) /\ R[m + k] \in Seq(S)
    BY <1>1, <1>2, <2>2
  <2>4. CASE m + (k + 1) <= o
    <3>1. m + k <= o /\ R[m + (k + 1)] = <<>> /\ R[m + k] = <<>>
      <4>1. m + k <= o /\ m + (k + 1) \in 0 .. N
        BY <1>1, <2>1, <2>2, <2>4
      <4> HIDE DEF T
      <4> QED BY <1>2, <2>2, <2>4, <4>1
    <3> QED BY <2>1, <3>1
  <2>5. CASE m + (k + 1) > o
    <3>1. \/ R[m + (k + 1)] = R[m + k]
          \/ ms[m + (k + 1)] \in S /\ R[m + (k + 1)] = Append(R[m + k], ms[m + (k + 1)])
      BY <1>3, <2>2, <2>5
    <3>2. ASSUME NEW s \in Seq(S), NEW t \in Seq(S), NEW e \in S, Begins(s, t)
          PROVE  Begins(s, Append(t, e))
      BY <3>2 DEF Begins
    <3> HIDE DEF T
    <3> QED BY <2>1, <2>3, <3>1, <3>2
  <2> QED BY <1>1, <2>1, <2>4, <2>5
<1>6. T = Nat
  <2>1. T \subseteq Nat
    OBVIOUS
  <2> HIDE DEF T
  <2> QED BY <1>4, <1>5, <2>1, Induction
<1>7. n - m \in T /\ m + (n - m) = n
  <2>1. n - m \in Nat /\ m + (n - m) = n
    BY <1>1
  <2> HIDE DEF T
  <2> QED BY <1>6, <2>1
<1> QED BY <1>1, <1>7 DEF R

\* The rows past the offset are at most as many as the matches past it.
LEMMA RowsCount ==
    ASSUME NEW S, NEW ms \in Seq(S), NEW o \in Nat, NEW n \in 0 .. Len(ms)
    PROVE  Len(RowsAfter(ms, o)[n]) <= (IF n <= o THEN 0 ELSE n - o)
<1> DEFINE N == Len(ms)
           R == RowsAfter(ms, o)
           Most(k) == IF k <= o THEN 0 ELSE k - o
           T == {k \in Nat : k <= N => Len(R[k]) <= Most(k)}
<1>1. N \in Nat /\ n \in 0 .. N /\ \A k \in 1 .. N : ms[k] \in S
  OBVIOUS
<1>2. \A k \in 0 .. N : R[k] \in Seq(S) /\ (k <= o => R[k] = <<>>)
  BY RowsUnfold
<1>3. \A k \in 1 .. N : k > o => R[k] = R[k - 1] \/ R[k] = Append(R[k - 1], ms[k])
  BY RowsUnfold
<1> HIDE DEF R, N
<1>4. 0 \in T
  BY <1>1, <1>2
<1>5. ASSUME NEW k \in T PROVE k + 1 \in T
  <2> SUFFICES ASSUME k + 1 <= N PROVE Len(R[k + 1]) <= Most(k + 1)
    OBVIOUS
  <2>1. /\ k \in Nat /\ k + 1 \in 1 .. N /\ k + 1 \in 0 .. N /\ (k + 1) - 1 = k /\ k \in 0 .. N
        /\ Len(R[k]) <= Most(k)
    BY <1>1
  <2>2. R[k] \in Seq(S) /\ ms[k + 1] \in S
    BY <1>1, <1>2, <2>1
  <2> HIDE DEF T
  <2>3. CASE k + 1 <= o
    BY <1>2, <2>1, <2>3
  <2>4. CASE k + 1 > o
    <3>1. R[k + 1] = R[k] \/ R[k + 1] = Append(R[k], ms[k + 1])
      BY <1>3, <2>1, <2>4
    <3>2. Len(R[k]) \in Nat /\ Len(R[k + 1]) <= Len(R[k]) + 1 /\ Len(R[k + 1]) \in Nat
      BY <2>2, <3>1
    <3>3. Most(k) + 1 <= Most(k + 1)
      BY <2>1, <2>4
    <3> HIDE DEF Most
    <3>4. Most(k) \in Nat /\ Most(k + 1) \in Nat
      BY <2>1 DEF Most
    <3> QED BY <2>1, <3>2, <3>3, <3>4
  <2> QED BY <2>1, <2>3, <2>4
<1>6. T = Nat
  <2>1. T \subseteq Nat
    OBVIOUS
  <2> HIDE DEF T
  <2> QED BY <1>4, <1>5, <2>1, Induction
<1>7. n \in T /\ n <= N
  BY <1>1, <1>6
<1> QED BY <1>7 DEF R

\* Of the first n matches, those past the offset are where the rows come from.
Matched(rows, ms, o, n) ==
    \A i \in 1 .. Len(rows) : \E k \in 1 .. n : k > o /\ IsRow(ms[k]) /\ rows[i] = ms[k]

\* Each row is a match past the offset.
LEMMA RowsFrom ==
    ASSUME NEW S, NEW ms \in Seq(S), NEW o \in Nat, NEW n \in 0 .. Len(ms)
    PROVE  Matched(RowsAfter(ms, o)[n], ms, o, n)
<1> DEFINE N == Len(ms)
           R == RowsAfter(ms, o)
           Come(k) == \A i \in 1 .. Len(R[k]) :
                        \E j \in 1 .. k : j > o /\ IsRow(ms[j]) /\ R[k][i] = ms[j]
           T == {k \in Nat : k <= N => Come(k)}
<1>1. N \in Nat /\ n \in 0 .. N /\ \A k \in 1 .. N : ms[k] \in S
  OBVIOUS
<1>2. \A k \in 0 .. N : R[k] \in Seq(S) /\ (k <= o => R[k] = <<>>)
  BY RowsUnfold
<1>3. \A k \in 1 .. N : k > o =>
        R[k] = R[k - 1] \/ (IsRow(ms[k]) /\ R[k] = Append(R[k - 1], ms[k]))
  BY RowsUnfold
<1> HIDE DEF R, N
<1>4. 0 \in T
  BY <1>1, <1>2
<1>5. ASSUME NEW k \in T PROVE k + 1 \in T
  <2> SUFFICES ASSUME k + 1 <= N PROVE Come(k + 1)
    <3> HIDE DEF Come
    <3> QED OBVIOUS
  <2>1. /\ k \in Nat /\ k + 1 \in 1 .. N /\ k + 1 \in 0 .. N /\ (k + 1) - 1 = k /\ k \in 0 .. N
        /\ Come(k)
    <3> HIDE DEF Come
    <3>1. k \in Nat /\ (k <= N => Come(k))
      OBVIOUS
    <3> QED BY <1>1, <3>1
  <2>2. R[k] \in Seq(S) /\ ms[k + 1] \in S
    BY <1>1, <1>2, <2>1
  <2> HIDE DEF T
  <2>3. CASE k + 1 <= o
    BY <1>2, <2>1, <2>3
  <2>4. CASE k + 1 > o
    <3>1. SUFFICES ASSUME NEW i \in 1 .. Len(R[k + 1])
                   PROVE  \E j \in 1 .. k + 1 : j > o /\ IsRow(ms[j]) /\ R[k + 1][i] = ms[j]
      OBVIOUS
    <3>2. CASE R[k + 1] = R[k]
      <4>1. PICK j \in 1 .. k : j > o /\ IsRow(ms[j]) /\ R[k][i] = ms[j]
        BY <2>1, <3>2
      <4>2. j \in 1 .. k + 1
        BY <2>1
      <4> QED BY <3>2, <4>1, <4>2
    <3>3. CASE IsRow(ms[k + 1]) /\ R[k + 1] = Append(R[k], ms[k + 1])
      <4>1. \/ i \in 1 .. Len(R[k]) /\ R[k + 1][i] = R[k][i]
            \/ R[k + 1][i] = ms[k + 1]
        BY <2>2, <3>3
      <4>2. CASE i \in 1 .. Len(R[k]) /\ R[k + 1][i] = R[k][i]
        <5>1. PICK j \in 1 .. k : j > o /\ IsRow(ms[j]) /\ R[k][i] = ms[j]
          BY <2>1, <4>2
        <5>2. j \in 1 .. k + 1
          BY <2>1
        <5> QED BY <4>2, <5>1, <5>2
      <4>3. CASE R[k + 1][i] = ms[k + 1]
        <5>1. k + 1 \in 1 .. k + 1
          BY <2>1
        <5> QED BY <2>4, <3>3, <4>3, <5>1
      <4> QED BY <4>1, <4>2, <4>3
    <3> QED BY <1>3, <2>1, <2>4, <3>2, <3>3
  <2> QED BY <2>1, <2>3, <2>4
<1>6. T = Nat
  <2>1. T \subseteq Nat
    OBVIOUS
  <2> HIDE DEF T
  <2> QED BY <1>4, <1>5, <2>1, Induction
<1>7. n \in T /\ n <= N
  BY <1>1, <1>6
<1> QED BY <1>7 DEF R, Matched

\* The k-th match, d past the offset, is one of the first d rows.
HasMatch(rows, ms, o, k) == \E i \in 1 .. Len(rows) : i <= k - o /\ rows[i] = ms[k]

\* A row among the first d matches past the offset is among the first d rows past it.
LEMMA RowsHold ==
    ASSUME NEW S, NEW ms \in Seq(S), NEW o \in Nat, NEW n \in 0 .. Len(ms),
           NEW k \in 1 .. n, k > o, IsRow(ms[k])
    PROVE  HasMatch(RowsAfter(ms, o)[n], ms, o, k)
<1> DEFINE R == RowsAfter(ms, o)
<1>1. /\ k \in 1 .. Len(ms) /\ k \in 0 .. Len(ms) /\ n \in k .. Len(ms) /\ k - 1 \in 0 .. Len(ms)
      /\ ms[k] \in S /\ ~(k <= o)
  OBVIOUS
<1>2. R[k] = Append(R[k - 1], ms[k]) /\ R[k - 1] \in Seq(S)
  BY <1>1, RowsUnfold
<1>3. Len(R[k]) <= k - o
  BY <1>1, RowsCount
<1>4. Begins(R[k], R[n])
  BY <1>1, RowsGrow
<1>5. R[n] \in Seq(S)
  BY RowsUnfold
<1> HIDE DEF R
<1>6. Len(R[k]) \in Nat \ {0} /\ R[k][Len(R[k])] = ms[k] /\ Len(R[n]) \in Nat
  BY <1>1, <1>2, <1>5
<1>7. Len(R[k]) \in 1 .. Len(R[n]) /\ R[n][Len(R[k])] = ms[k]
  BY <1>4, <1>6 DEF Begins
<1> QED BY <1>3, <1>7 DEF R, HasMatch

\* Where all matches are rows, those past the offset follow it one by one.
LEMMA RowsAll ==
    ASSUME NEW S, NEW ms \in Seq(S), NEW o \in Nat, NEW n \in 0 .. Len(ms), n >= o,
           \A k \in 1 .. Len(ms) : IsRow(ms[k])
    PROVE  /\ Len(RowsAfter(ms, o)[n]) = n - o
           /\ \A i \in 1 .. n - o : RowsAfter(ms, o)[n][i] = ms[o + i]
<1> DEFINE N == Len(ms)
           R == RowsAfter(ms, o)
           Follow(k) == Len(R[k]) = k - o /\ \A i \in 1 .. k - o : R[k][i] = ms[o + i]
           T == {k \in Nat : o + k <= N => Follow(o + k)}
<1>1. N \in Nat /\ n \in Nat /\ n <= N /\ \A k \in 1 .. N : ms[k] \in S
  OBVIOUS
<1>2. \A k \in 0 .. N : R[k] \in Seq(S) /\ (k <= o => R[k] = <<>>)
  BY RowsUnfold
<1>3. \A k \in 1 .. N : k > o => R[k] = Append(R[k - 1], ms[k])
  BY RowsUnfold
<1> HIDE DEF R, N
<1>4. 0 \in T
  <2> SUFFICES ASSUME o <= N PROVE Follow(o)
    OBVIOUS
  <2>1. R[o] = <<>>
    BY <1>1, <1>2
  <2> QED BY <2>1
<1>5. ASSUME NEW k \in T PROVE k + 1 \in T
  <2> SUFFICES ASSUME o + (k + 1) <= N PROVE Follow(o + (k + 1))
    OBVIOUS
  <2>1. k \in Nat /\ Follow(o + k)
    BY <1>1
  <2>2. /\ o + (k + 1) \in 1 .. N /\ (o + (k + 1)) - 1 = o + k /\ o + k \in 0 .. N
        /\ o + (k + 1) > o /\ (o + k) - o = k /\ (o + (k + 1)) - o = k + 1
    BY <1>1, <2>1
  <2>3. R[o + k] \in Seq(S) /\ ms[o + (k + 1)] \in S
    BY <1>1, <1>2, <2>2
  <2>4. R[o + (k + 1)] = Append(R[o + k], ms[o + (k + 1)])
    BY <1>3, <2>2
  <2>5. Len(R[o + k]) = k /\ \A i \in 1 .. k : R[o + k][i] = ms[o + i]
    BY <2>1, <2>2
  <2> HIDE DEF T
  <2>6. Len(R[o + (k + 1)]) = k + 1
    BY <2>3, <2>4, <2>5
  <2>7. ASSUME NEW i \in 1 .. k + 1 PROVE R[o + (k + 1)][i] = ms[o + i]
    BY <2>1, <2>3, <2>4, <2>5
  <2> QED BY <2>2, <2>6, <2>7
<1>6. T = Nat
  <2>1. T \subseteq Nat
    OBVIOUS
  <2> HIDE DEF T
  <2> QED BY <1>4, <1>5, <2>1, Induction
<1>7. n - o \in T /\ o + (n - o) = n
  <2>1. n - o \in Nat /\ o + (n - o) = n
    BY <1>1
  <2> HIDE DEF T
  <2> QED BY <1>6, <2>1
<1> QED BY <1>1, <1>7 DEF R

-----------------------------------------------------------------------------
(* The corpus, and the matches in it. *)

\* The corpus is files of patterns of kinds of lines, and none of these is empty
\* but the lines.
LEMMA CorpusFacts ==
    ASSUME corpus \in Corpora
    PROVE  /\ Len(corpus) \in Nat \ {0} /\ Files = 1 .. Len(corpus)
           /\ Len(corpus[1]) \in Nat \ {0} /\ Patterns = 1 .. Len(corpus[1])
           /\ \A f \in Files : \A p \in Patterns :
                /\ corpus[f][p] \in Seq(Kinds)
                /\ Len(corpus[f][p]) \in Nat /\ DOMAIN corpus[f][p] = 1 .. Len(corpus[f][p])
                /\ \A l \in DOMAIN corpus[f][p] : corpus[f][p][l] \in Kinds
<1> DEFINE L == Seq(Kinds)
           F == Seq(L)
<1>1. /\ corpus \in Seq(F) /\ corpus # <<>> /\ corpus[1] # <<>>
      /\ \A f \in DOMAIN corpus : DOMAIN corpus[f] = DOMAIN corpus[1]
  BY PagingAssumption
<1> HIDE DEF F
<1>2. Len(corpus) \in Nat \ {0} /\ Files = 1 .. Len(corpus) /\ \A f \in Files : corpus[f] \in F
  BY <1>1 DEF Files
<1>3. corpus[1] \in F /\ 1 \in Files
  BY <1>2
<1> HIDE DEF L
<1>4. Len(corpus[1]) \in Nat \ {0} /\ Patterns = 1 .. Len(corpus[1])
  BY <1>1, <1>3 DEF Patterns, F
<1>5. ASSUME NEW f \in Files, NEW p \in Patterns PROVE corpus[f][p] \in L
  <2>1. corpus[f] \in Seq(L) /\ p \in DOMAIN corpus[f]
    BY <1>1, <1>2 DEF F, Patterns, Files
  <2> QED BY <2>1
<1>6. ASSUME NEW s \in L
      PROVE  Len(s) \in Nat /\ DOMAIN s = 1 .. Len(s) /\ \A l \in DOMAIN s : s[l] \in Kinds
  BY DEF L
<1> QED BY <1>2, <1>4, <1>5, <1>6 DEF L

\* The matches of p in a file, one for every line of it.
LEMMA InFileFacts ==
    ASSUME corpus \in Corpora, NEW p \in Patterns
    PROVE  /\ InFile(p) \in Seq(Seq(Match)) /\ Len(InFile(p)) = Len(corpus)
           /\ \A f \in Files :
                /\ InFile(p)[f] \in Seq(Match) /\ Len(InFile(p)[f]) = Len(corpus[f][p])
                /\ \A l \in DOMAIN corpus[f][p] : InFile(p)[f][l] =
                     [file |-> f, line |-> l, kind |-> corpus[f][p][l], pattern |-> p]
<1>1. ASSUME NEW f \in Files
      PROVE  /\ InFile(p)[f] \in Seq(Match) /\ Len(InFile(p)[f]) = Len(corpus[f][p])
             /\ \A l \in DOMAIN corpus[f][p] : InFile(p)[f][l] =
                  [file |-> f, line |-> l, kind |-> corpus[f][p][l], pattern |-> p]
  <2> DEFINE e(l) == [file |-> f, line |-> l, kind |-> corpus[f][p][l], pattern |-> p]
             n == Len(corpus[f][p])
  <2>1. n \in Nat /\ DOMAIN corpus[f][p] = 1 .. n /\ p \in Nat /\ f \in Nat
    BY CorpusFacts
  <2>2. InFile(p)[f] = [l \in 1 .. n |-> e(l)]
    BY <2>1 DEF InFile
  <2>3. \A l \in 1 .. n : e(l) \in Match
    BY <2>1, CorpusFacts DEF Match
  <2> HIDE DEF n, e
  <2>4. InFile(p)[f] \in Seq(Match) /\ Len(InFile(p)[f]) = n
    BY <2>1, <2>2, <2>3
  <2> QED BY <2>1, <2>2, <2>4 DEF n, e
<1>2. InFile(p) \in Seq(Seq(Match)) /\ Len(InFile(p)) = Len(corpus)
  <2> DEFINE M == Seq(Match)
             g(f) == InFile(p)[f]
  <2>1. InFile(p) = [f \in 1 .. Len(corpus) |-> g(f)]
    BY CorpusFacts DEF InFile
  <2>2. \A f \in 1 .. Len(corpus) : g(f) \in M
    BY <1>1, CorpusFacts
  <2>3. Len(corpus) \in Nat
    BY CorpusFacts
  <2> HIDE DEF M, g
  <2>4. InFile(p) \in Seq(M) /\ Len(InFile(p)) = Len(corpus)
    BY <2>1, <2>2, <2>3
  <2> QED BY <2>4 DEF M
<1> QED BY <1>1, <1>2

\* All matches of p: each file's behind those of the files before.
LEMMA MatchesFacts ==
    ASSUME corpus \in Corpora, NEW p \in Patterns
    PROVE  /\ Matches(p) \in Seq(Match)
           /\ Behind(p, 0) = 0 /\ Behind(p, Len(corpus)) = Len(Matches(p))
           /\ \A f \in 0 .. Len(corpus) : Behind(p, f) \in Nat /\ Behind(p, f) <= Len(Matches(p))
           /\ \A f \in Files : /\ Behind(p, f) = Behind(p, f - 1) + Len(corpus[f][p])
                               /\ Behind(p, f) \in Nat /\ Behind(p, f - 1) \in Nat
           /\ \A f \in Files : \A l \in DOMAIN corpus[f][p] :
                /\ Behind(p, f - 1) + l \in 1 .. Len(Matches(p))
                /\ Matches(p)[Behind(p, f - 1) + l] =
                     [file |-> f, line |-> l, kind |-> corpus[f][p][l], pattern |-> p]
<1> DEFINE J == Joined(InFile(p))
           N == Len(corpus)
<1>1. N \in Nat \ {0} /\ Files = 1 .. N
  BY CorpusFacts
<1>2. InFile(p) \in Seq(Seq(Match)) /\ Len(InFile(p)) = N
  BY InFileFacts
<1>3. /\ J[0] = <<>> /\ \A f \in 0 .. N : J[f] \in Seq(Match)
      /\ \A f \in 1 .. N : J[f] = J[f - 1] \o InFile(p)[f]
  BY <1>2, JoinedUnfolds
<1>4. Matches(p) = J[N]
  BY DEF Matches
<1>5. \A f \in 0 .. N : Begins(J[f], J[N])
  <2>1. ASSUME NEW f \in 0 .. N PROVE Begins(J[f], J[N])
    <3>1. f \in 0 .. Len(InFile(p)) /\ N \in f .. Len(InFile(p))
      BY <1>1, <1>2
    <3> QED BY <1>2, <3>1, JoinedGrows
  <2> QED BY <2>1
<1> HIDE DEF J, N
<1>6. \A f \in 0 .. N : Len(J[f]) \in Nat /\ Len(J[f]) <= Len(J[N])
  BY <1>3, <1>5 DEF Begins
<1>7. ASSUME NEW f \in 1 .. N
      PROVE  /\ Len(J[f]) = Len(J[f - 1]) + Len(corpus[f][p])
             /\ Len(J[f - 1]) \in Nat /\ Len(J[f]) \in Nat
             /\ \A l \in DOMAIN corpus[f][p] :
                  /\ Len(J[f - 1]) + l \in 1 .. Len(J[N])
                  /\ J[N][Len(J[f - 1]) + l] =
                       [file |-> f, line |-> l, kind |-> corpus[f][p][l], pattern |-> p]
  <2>1. f \in Files /\ f \in 0 .. N /\ f - 1 \in 0 .. N
    BY <1>1
  <2>2. J[f - 1] \in Seq(Match) /\ J[f] = J[f - 1] \o InFile(p)[f] /\ Begins(J[f], J[N])
    BY <1>3, <1>5, <2>1
  <2>3. /\ InFile(p)[f] \in Seq(Match) /\ Len(InFile(p)[f]) = Len(corpus[f][p])
        /\ \A l \in DOMAIN corpus[f][p] : InFile(p)[f][l] =
             [file |-> f, line |-> l, kind |-> corpus[f][p][l], pattern |-> p]
    BY <2>1, InFileFacts
  <2>4. Len(corpus[f][p]) \in Nat /\ DOMAIN corpus[f][p] = 1 .. Len(corpus[f][p])
    BY <2>1, CorpusFacts
  <2> DEFINE s == J[f - 1]
             t == InFile(p)[f]
             n == Len(corpus[f][p])
  <2>5. /\ J[f] = s \o t /\ s \in Seq(Match) /\ t \in Seq(Match) /\ Len(t) = n
        /\ DOMAIN corpus[f][p] = 1 .. n
    BY <2>2, <2>3, <2>4
  <2>6. Len(J[f]) <= Len(J[N]) /\ Len(J[N]) \in Nat
    <3>1. N \in 0 .. N
      BY <1>1
    <3> QED BY <1>6, <2>1, <3>1
  <2> HIDE DEF s, t, n
  <2>7. /\ Len(J[f]) = Len(s) + n /\ Len(s) \in Nat /\ n \in Nat
        /\ \A l \in 1 .. n : J[f][Len(s) + l] = t[l]
    <3>1. s \in Seq(Match) /\ t \in Seq(Match)
      BY <2>5
    <3>2. /\ Len(s \o t) = Len(s) + Len(t) /\ Len(s) \in Nat /\ Len(t) \in Nat
          /\ \A l \in 1 .. Len(t) : (s \o t)[Len(s) + l] = t[l]
      BY <3>1, Concat
    <3> QED BY <2>5, <3>2
  <2>8. ASSUME NEW l \in 1 .. n PROVE Len(s) + l \in 1 .. Len(J[N]) /\ J[N][Len(s) + l] = t[l]
    <3>1. Len(s) + l \in 1 .. Len(J[f]) /\ Len(s) + l \in 1 .. Len(J[N])
      BY <2>6, <2>7
    <3>2. J[N][Len(s) + l] = J[f][Len(s) + l]
      BY <2>2, <3>1 DEF Begins
    <3> QED BY <2>7, <3>1, <3>2
  <2> DEFINE e(l) == [file |-> f, line |-> l, kind |-> corpus[f][p][l], pattern |-> p]
  <2>9. \A l \in DOMAIN corpus[f][p] : t[l] = e(l)
    BY <2>3 DEF t
  <2> HIDE DEF e
  <2>10. \A l \in DOMAIN corpus[f][p] :
           Len(s) + l \in 1 .. Len(J[N]) /\ J[N][Len(s) + l] = e(l)
    BY <2>5, <2>8, <2>9
  <2>11. Len(J[f]) = Len(s) + n /\ Len(s) \in Nat /\ Len(J[f]) \in Nat
    BY <2>7
  <2> QED BY <2>10, <2>11 DEF s, n, e
<1>8. \A f \in 0 .. N : Behind(p, f) = Len(J[f])
  BY DEF Behind, J
<1>9. N \in 0 .. N /\ 0 \in 0 .. N /\ \A f \in 1 .. N : f \in 0 .. N /\ f - 1 \in 0 .. N
  BY <1>1
<1>10. Behind(p, 0) = 0
  BY <1>3, <1>8, <1>9
<1>11. Matches(p) \in Seq(Match)
  BY <1>3, <1>4, <1>9
<1>12. /\ Behind(p, N) = Len(Matches(p))
       /\ \A f \in 0 .. N : Behind(p, f) \in Nat /\ Behind(p, f) <= Len(Matches(p))
  BY <1>4, <1>6, <1>8, <1>9
<1>13. ASSUME NEW f \in Files
       PROVE  /\ Behind(p, f) = Behind(p, f - 1) + Len(corpus[f][p])
              /\ Behind(p, f) \in Nat /\ Behind(p, f - 1) \in Nat
              /\ \A l \in DOMAIN corpus[f][p] :
                   /\ Behind(p, f - 1) + l \in 1 .. Len(Matches(p))
                   /\ Matches(p)[Behind(p, f - 1) + l] =
                        [file |-> f, line |-> l, kind |-> corpus[f][p][l], pattern |-> p]
  <2>1. /\ f \in 1 .. N /\ Behind(p, f) = Len(J[f]) /\ Behind(p, f - 1) = Len(J[f - 1])
    BY <1>1, <1>8, <1>9
  <2> QED BY <1>4, <1>7, <2>1
<1> QED BY <1>10, <1>11, <1>12, <1>13 DEF N

-----------------------------------------------------------------------------
(* Pages. *)

\* The least of two numbers.
LEMMA LesserOf ==
    ASSUME NEW a \in Nat, NEW b \in Nat
    PROVE  Min({a, b}) = Lesser(a, b) /\ Lesser(a, b) \in Nat
  BY DEF Min, Lesser

\* hits.truncate keeps the first n, or all of them.
LEMMA TakeFacts ==
    ASSUME NEW S, NEW s \in Seq(S), NEW n \in Nat
    PROVE  /\ Take(s, n) \in Seq(S) /\ Len(Take(s, n)) = Lesser(n, Len(s))
           /\ \A i \in 1 .. Len(Take(s, n)) : Take(s, n)[i] = s[i]
           /\ Len(s) <= n => Take(s, n) = s
<1> DEFINE m == Lesser(n, Len(s))
<1>1. Len(s) \in Nat /\ m \in Nat /\ m <= Len(s) /\ m <= n /\ (Len(s) <= n => m = Len(s))
  BY DEF Lesser
<1>2. Take(s, n) = SubSeq(s, 1, m)
  BY <1>1, LesserOf DEF Take
<1> HIDE DEF m
<1>3. \A i \in 1 .. m : s[i] \in S
  BY <1>1
<1>4. /\ SubSeq(s, 1, m) \in Seq(S)
      /\ Len(SubSeq(s, 1, m)) = (IF 1 <= m THEN m - 1 + 1 ELSE 0)
      /\ \A i \in 1 .. m - 1 + 1 : SubSeq(s, 1, m)[i] = s[1 + i - 1]
  BY <1>1, <1>3, SubSeqProperties
<1>5. Len(SubSeq(s, 1, m)) = m /\ \A i \in 1 .. m : SubSeq(s, 1, m)[i] = s[i]
  BY <1>1, <1>4
<1>6. Len(s) <= n => SubSeq(s, 1, m) = s
  BY <1>1, <1>4, <1>5, SeqEqual
<1> QED BY <1>2, <1>4, <1>5, <1>6 DEF m

\* The page is the patterns' pages one behind the other.
LEMMA PageFacts ==
    ASSUME TypeOK
    PROVE  /\ Pages \in Seq(Seq(Match)) /\ Len(Pages) = Len(corpus[1])
           /\ \A p \in Patterns :
                /\ Pages[p] = Take(hits[p], limit) /\ Pages[p] \in Seq(Match)
                /\ Len(Joined(Pages)[p - 1]) \in Nat /\ Len(Joined(Pages)[p]) \in Nat
                /\ Len(Joined(Pages)[p]) = Len(Joined(Pages)[p - 1]) + Len(Pages[p])
                /\ Len(Joined(Pages)[p]) <= Len(Page)
                /\ \A i \in 1 .. Len(Pages[p]) :
                     Page[Len(Joined(Pages)[p - 1]) + i] = Pages[p][i]
           /\ Page \in Seq(Match)
<1> DEFINE N == Len(corpus[1])
           J == Joined(Pages)
           g(p) == Take(hits[p], limit)
           M == Seq(Match)
<1>1. N \in Nat \ {0} /\ Patterns = 1 .. N
  BY CorpusFacts DEF TypeOK
<1>2. ASSUME NEW p \in Patterns PROVE g(p) \in M
  <2>1. hits[p] \in Seq(Match) /\ limit \in Nat
    BY DEF TypeOK
  <2> QED BY <2>1, TakeFacts
<1>3. Pages = [p \in 1 .. N |-> g(p)]
  BY <1>1 DEF Pages
<1> HIDE DEF g, M, N
<1>4. Pages \in Seq(M) /\ Len(Pages) = N /\ \A p \in 1 .. N : Pages[p] = g(p)
  BY <1>1, <1>2, <1>3
<1>5. /\ J[0] = <<>> /\ \A p \in 1 .. N : J[p] = J[p - 1] \o Pages[p]
      /\ \A p \in 0 .. N : J[p] \in Seq(Match)
  BY <1>4, JoinedUnfolds DEF M
<1>6. Page = J[N]
  BY <1>4 DEF Page
<1>7. \A p \in 0 .. N : Begins(J[p], J[N])
  <2>1. ASSUME NEW p \in 0 .. N PROVE Begins(J[p], J[N])
    <3>1. p \in 0 .. Len(Pages) /\ N \in p .. Len(Pages)
      BY <1>1, <1>4
    <3> QED BY <1>4, <3>1, JoinedGrows DEF M
  <2> QED BY <2>1
<1> HIDE DEF J
<1>8. ASSUME NEW p \in Patterns
      PROVE  /\ Len(J[p - 1]) \in Nat /\ Len(J[p]) \in Nat
             /\ Len(J[p]) = Len(J[p - 1]) + Len(Pages[p]) /\ Len(J[p]) <= Len(J[N])
             /\ \A i \in 1 .. Len(Pages[p]) : J[N][Len(J[p - 1]) + i] = Pages[p][i]
  <2> DEFINE s == J[p - 1]
             t == Pages[p]
  <2>1. p \in 1 .. N /\ p \in 0 .. N /\ p - 1 \in 0 .. N /\ N \in 0 .. N
    BY <1>1
  <2>2. J[p] = s \o t /\ s \in Seq(Match) /\ t \in Seq(Match) /\ J[N] \in Seq(Match) /\ Begins(J[p], J[N])
    BY <1>2, <1>4, <1>5, <1>7, <2>1 DEF M
  <2> HIDE DEF s, t
  <2>3. /\ Len(s) \in Nat /\ Len(t) \in Nat /\ Len(J[p]) = Len(s) + Len(t) /\ Len(J[N]) \in Nat
        /\ \A i \in 1 .. Len(t) : J[p][Len(s) + i] = t[i]
    BY <2>2, Concat
  <2>4. ASSUME NEW i \in 1 .. Len(t) PROVE J[N][Len(s) + i] = t[i]
    <3>1. Len(s) + i \in 1 .. Len(J[p])
      BY <2>3
    <3>2. J[N][Len(s) + i] = J[p][Len(s) + i]
      BY <2>2, <3>1 DEF Begins
    <3> QED BY <2>3, <3>2
  <2>5. Len(J[p]) <= Len(J[N]) /\ Len(J[p]) \in Nat
    BY <2>2, <2>3 DEF Begins
  <2>6. /\ Len(s) \in Nat /\ Len(J[p]) = Len(s) + Len(t)
        /\ \A i \in 1 .. Len(t) : J[N][Len(s) + i] = t[i]
    BY <2>3, <2>4
  <2> QED BY <2>5, <2>6 DEF s, t
<1>9. Page \in Seq(Match)
  <2>1. N \in 0 .. N
    BY <1>1
  <2> QED BY <1>5, <1>6, <2>1
<1> QED BY <1>1, <1>2, <1>4, <1>6, <1>8, <1>9 DEF J, g, M, N

\* What a reply has of pattern p: a page that is not trimmed has its page, and a
\* trimmed page of one pattern has the first rows of it.
LEMMA RowsOfFacts ==
    ASSUME TypeOK, NEW p \in Patterns, NEW kept \in 0 .. Len(Page)
    PROVE  /\ RowsOf(p, kept) \in Seq(Match)
           /\ \A i \in DOMAIN RowsOf(p, kept) : \E j \in DOMAIN hits[p] : RowsOf(p, kept)[i] = hits[p][j]
           /\ kept = Len(Page) => RowsOf(p, kept) = Take(hits[p], limit)
           /\ Patterns = {1} =>
                /\ Len(RowsOf(p, kept)) = kept /\ Len(Page) = Len(Take(hits[p], limit))
                /\ \A i \in 1 .. kept : i \in DOMAIN hits[p] /\ RowsOf(p, kept)[i] = hits[p][i]
<1> DEFINE a == Len(Joined(Pages)[p - 1])
           b == Len(Joined(Pages)[p])
           t == Pages[p]
           m == Lesser(kept, b)
<1>1. /\ a \in Nat /\ b \in Nat /\ b = a + Len(t) /\ b <= Len(Page)
      /\ \A i \in 1 .. Len(t) : Page[a + i] = t[i]
      /\ t = Take(hits[p], limit) /\ t \in Seq(Match) /\ Page \in Seq(Match)
  BY PageFacts
<1>2. Len(t) \in Nat /\ Len(Page) \in Nat /\ kept \in Nat /\ kept <= Len(Page)
  BY <1>1
<1>3. \A i \in 1 .. Len(t) : i \in DOMAIN hits[p] /\ t[i] = hits[p][i]
  <2> DEFINE h == hits[p]
  <2>1. h \in Seq(Match) /\ limit \in Nat
    BY DEF TypeOK
  <2> HIDE DEF h, t
  <2>2. t = Take(h, limit)
    BY <1>1 DEF h
  <2>3. Len(t) = Lesser(limit, Len(h)) /\ \A i \in 1 .. Len(t) : t[i] = h[i]
    BY <2>1, <2>2, TakeFacts
  <2>4. Len(t) <= Len(h) /\ DOMAIN h = 1 .. Len(h) /\ Len(h) \in Nat
    BY <2>1, <2>3 DEF Lesser
  <2> QED BY <1>2, <2>3, <2>4 DEF h
<1>4. RowsOf(p, kept) = SubSeq(Page, a + 1, m)
  BY <1>1, <1>2, LesserOf DEF RowsOf
<1>5. m \in Nat /\ m <= b /\ m <= kept /\ (kept >= b => m = b) /\ (kept <= b => m = kept)
  <2> HIDE DEF a, b, t
  <2>1. b \in Nat /\ kept \in Nat
    BY <1>1, <1>2
  <2> QED BY <2>1 DEF Lesser
<1>6. Patterns = {1} => a = 0 /\ b = Len(Page)
  <2> SUFFICES ASSUME Patterns = {1} PROVE a = 0 /\ b = Len(Page)
    OBVIOUS
  <2>1. Len(Pages) = 1 /\ p = 1 /\ Pages \in Seq(Seq(Match))
    <3>1. Len(corpus[1]) \in Nat \ {0} /\ Patterns = 1 .. Len(corpus[1])
      BY CorpusFacts DEF TypeOK
    <3>2. Len(corpus[1]) = 1
      <4> DEFINE n == Len(corpus[1])
      <4>1. n \in Nat \ {0} /\ 1 .. n = {1}
        BY <3>1
      <4> HIDE DEF n
      <4>2. n \in 1 .. n
        BY <4>1
      <4>3. n = 1
        BY <4>1, <4>2
      <4> QED BY <4>3 DEF n
    <3>3. p = 1
      OBVIOUS
    <3> QED BY <3>2, <3>3, PageFacts
  <2>2. Joined(Pages)[0] = <<>>
    BY <2>1, JoinedUnfolds
  <2> QED BY <2>1, <2>2 DEF Page
<1>7. \A i \in a + 1 .. m : Page[i] \in Match
  <2> HIDE DEF a, b, m, t
  <2>1. \A i \in a + 1 .. m : i \in 1 .. Len(Page)
    BY <1>1, <1>2, <1>5
  <2> QED BY <1>1, <2>1
<1> HIDE DEF a, b, m, t
<1> DEFINE r == SubSeq(Page, a + 1, m)
<1>8. /\ r \in Seq(Match) /\ Len(r) = (IF a + 1 <= m THEN m - (a + 1) + 1 ELSE 0)
      /\ \A i \in 1 .. m - (a + 1) + 1 : r[i] = Page[a + 1 + i - 1]
  <2>1. a + 1 \in Int /\ m \in Int
    BY <1>1, <1>5
  <2> QED BY <1>7, <2>1, SubSeqProperties
<1> HIDE DEF r
<1>9. Len(r) = (IF a <= m THEN m - a ELSE 0) /\ Len(r) \in Nat /\ Len(r) <= Len(t)
  <2> DEFINE n == Len(r)
             w == Len(t)
  <2>1. n = (IF a + 1 <= m THEN m - (a + 1) + 1 ELSE 0) /\ b = a + w /\ w \in Nat
    BY <1>1, <1>2, <1>8
  <2>2. a \in Nat /\ b \in Nat /\ m \in Nat /\ m <= b
    BY <1>1, <1>5
  <2> HIDE DEF n, w
  <2>3. n = (IF a <= m THEN m - a ELSE 0) /\ n \in Nat /\ n <= w
    BY <2>1, <2>2
  <2> QED BY <2>3 DEF n, w
<1>10. \A i \in 1 .. Len(r) : r[i] = t[i]
  <2>1. ASSUME NEW i \in 1 .. Len(r) PROVE r[i] = t[i]
    <3>1. i \in 1 .. m - (a + 1) + 1 /\ a + 1 + i - 1 = a + i /\ i \in 1 .. Len(t)
      BY <1>1, <1>2, <1>5, <1>9
    <3> QED BY <1>1, <1>8, <3>1
  <2> QED BY <2>1
<1>11. DOMAIN r = 1 .. Len(r)
  BY <1>8
<1>12. kept = Len(Page) => r = t
  <2>1. kept = Len(Page) => Len(r) = Len(t)
    BY <1>1, <1>2, <1>5, <1>9
  <2> QED BY <1>1, <1>8, <1>10, <2>1, SeqEqual
<1>13. Patterns = {1} => Len(r) = kept /\ Len(Page) = Len(t)
  BY <1>1, <1>2, <1>5, <1>6, <1>9
<1>14. \A i \in 1 .. Len(r) : i \in DOMAIN hits[p] /\ r[i] = hits[p][i]
  BY <1>2, <1>3, <1>9, <1>10
<1>15. RowsOf(p, kept) = r
  BY <1>4 DEF r
<1> QED BY <1>1, <1>8, <1>11, <1>12, <1>13, <1>14, <1>15

-----------------------------------------------------------------------------
(* The walk. *)

\* The corpus stays as it is, and with it the matches.
LEMMA SameCorpus ==
    ASSUME corpus' = corpus
    PROVE  /\ Files' = Files /\ Patterns' = Patterns
           /\ \A p : InFile(p)' = InFile(p) /\ Matches(p)' = Matches(p)
           /\ \A p, f : Behind(p, f)' = Behind(p, f)
           /\ \A p : Passed(p)' = Before(p, file', pattern', line')
<1>1. Files' = Files /\ Patterns' = Patterns
  BY DEF Files, Patterns
<1>2. \A p : InFile(p)' = InFile(p)
  BY <1>1 DEF InFile
<1>3. \A p : Matches(p)' = Matches(p)
  BY <1>2 DEF Matches
<1>4. \A p, f : Behind(p, f)' = Behind(p, f)
  BY <1>2 DEF Behind
<1>5. \A p : Passed(p)' = Before(p, file', pattern', line')
  BY <1>1, <1>4 DEF Passed, Before
<1> QED BY <1>1, <1>2, <1>3, <1>4, <1>5

\* Walking on line by line, from pattern to pattern and from file to file.
LEMMA Walked ==
    ASSUME TypeOK, Position, phase = "walking"
    PROVE  /\ \A p \in Patterns : Passed(p) \in 0 .. Len(Matches(p))
           /\ WalkOver => \A p \in Patterns : Passed(p) = Len(Matches(p))
           /\ AtMatch => \A p \in Patterns :
                /\ p # pattern => Before(p, file, pattern, line + 1) = Passed(p)
                /\ p = pattern =>
                     /\ Before(p, file, pattern, line + 1) = Passed(p) + 1
                     /\ Passed(p) + 1 \in 1 .. Len(Matches(p))
                     /\ Matches(p)[Passed(p) + 1] =
                          [file |-> file, line |-> line, kind |-> Here[line], pattern |-> p]
<1>1. /\ corpus \in Corpora /\ file \in 1 .. Len(corpus) + 1 /\ line \in Nat \ {0}
      /\ pattern \in Patterns
  BY DEF TypeOK
<1>2. Len(corpus) \in Nat \ {0} /\ Files = 1 .. Len(corpus) /\ Patterns \subseteq Nat
  BY <1>1, CorpusFacts
<1>3. ASSUME NEW p \in Patterns
      PROVE  /\ Passed(p) \in 0 .. Len(Matches(p))
             /\ WalkOver => Passed(p) = Len(Matches(p))
             /\ AtMatch /\ p # pattern => Before(p, file, pattern, line + 1) = Passed(p)
             /\ AtMatch /\ p = pattern =>
                  /\ Before(p, file, pattern, line + 1) = Passed(p) + 1
                  /\ Passed(p) + 1 \in 1 .. Len(Matches(p))
                  /\ Matches(p)[Passed(p) + 1] =
                       [file |-> file, line |-> line, kind |-> Here[line], pattern |-> p]
  <2> DEFINE B(f) == Behind(p, f)
             n == Len(Matches(p))
             e(l) == [file |-> file, line |-> l, kind |-> corpus[file][p][l], pattern |-> p]
             w(f) == Len(corpus[f][p])
  <2>1. /\ B(Len(corpus)) = n /\ n \in Nat
        /\ \A f \in Files : /\ B(f) = B(f - 1) + w(f) /\ B(f) \in Nat /\ B(f - 1) \in Nat
                            /\ B(f) <= n /\ w(f) \in Nat /\ DOMAIN corpus[f][p] = 1 .. w(f)
    <3>1. \A f \in Files : f \in 0 .. Len(corpus)
      BY <1>2
    <3>2. n \in Nat
      BY <1>1, MatchesFacts
    <3> QED BY <1>1, <3>1, <3>2, MatchesFacts, CorpusFacts
  <2>2. file \in Files => \A l \in DOMAIN corpus[file][p] :
          B(file - 1) + l \in 1 .. n /\ Matches(p)[B(file - 1) + l] = e(l)
    BY <1>1, MatchesFacts
  <2>3. /\ file \in Files /\ p = pattern => line <= w(file) + 1
        /\ file \notin Files => pattern = 1 /\ line = 1
    BY DEF Position, Here
  <2> HIDE DEF B, n, e, w
  <2>4. CASE file \notin Files
    <3>1. file - 1 = Len(corpus) /\ Passed(p) = B(file - 1) + 0
      BY <1>1, <1>2, <2>4 DEF Passed, Before, B
    <3>2. Passed(p) = n
      BY <2>1, <3>1
    <3> QED BY <2>1, <2>4, <3>2 DEF AtMatch, n
  <2>5. CASE file \in Files
    <3>1. /\ ~WalkOver
          /\ B(file) = B(file - 1) + w(file) /\ B(file) \in Nat /\ B(file - 1) \in Nat
          /\ B(file) <= n /\ w(file) \in Nat /\ DOMAIN corpus[file][p] = 1 .. w(file)
      BY <2>1, <2>5 DEF WalkOver
    <3>2. ASSUME NEW l \in Nat
          PROVE Before(p, file, pattern, l) = B(file - 1) + (IF p < pattern THEN w(file)
                                                ELSE IF p = pattern THEN l - 1 ELSE 0)
      BY <2>5 DEF Before, B, w
    <3>3. CASE p = pattern
      <4>1. p \in Nat /\ ~(p < pattern)
        BY <1>2, <3>3
      <4>2. /\ Passed(p) = B(file - 1) + (line - 1) /\ line <= w(file) + 1
            /\ Before(p, file, pattern, line + 1) = B(file - 1) + (line + 1 - 1)
        BY <1>1, <2>3, <2>5, <3>2, <3>3, <4>1 DEF Passed
      <4>3. /\ Passed(p) \in 0 .. n /\ Passed(p) + 1 = B(file - 1) + line
            /\ Before(p, file, pattern, line + 1) = Passed(p) + 1
        <5> DEFINE a == B(file - 1)
                   b == Passed(p)
                   v == w(file)
        <5>1. /\ a \in Nat /\ v \in Nat /\ n \in Nat /\ a + v <= n /\ line \in Nat \ {0}
              /\ b = a + (line - 1) /\ line <= v + 1
          BY <1>1, <2>1, <3>1, <4>2
        <5> HIDE DEF a, b, v
        <5>2. b \in 0 .. n /\ b + 1 = a + line /\ a + (line + 1 - 1) = b + 1
          BY <5>1
        <5> QED BY <4>2, <5>2 DEF a, b
      <4>4. AtMatch => Passed(p) + 1 \in 1 .. n /\ Matches(p)[Passed(p) + 1] = e(line)
        BY <2>2, <2>5, <3>3, <4>3 DEF AtMatch, Here
      <4>5. e(line) = [file |-> file, line |-> line, kind |-> Here[line], pattern |-> p]
        BY <3>3 DEF e, Here
      <4> QED BY <3>1, <3>3, <4>3, <4>4, <4>5 DEF n
    <3>4. CASE p # pattern
      <4>1. Passed(p) = B(file - 1) + (IF p < pattern THEN w(file) ELSE 0)
        BY <1>1, <3>2, <3>4 DEF Passed
      <4>2. Before(p, file, pattern, line + 1) = Passed(p)
        <5>1. line + 1 \in Nat
          BY <1>1
        <5> QED BY <3>2, <3>4, <4>1, <5>1
      <4>3. Passed(p) \in 0 .. n
        BY <2>1, <3>1, <4>1
      <4> QED BY <3>1, <3>4, <4>2, <4>3 DEF n
    <3> QED BY <3>3, <3>4
  <2> QED BY <2>4, <2>5
<1> QED BY <1>3

\* Leaving a file or searching on in it: what is behind of the other patterns stays.
LEMMA SearchedOn ==
    ASSUME TypeOK, Position, phase = "walking", file \in Files, NextSearch, corpus' = corpus
    PROVE  /\ file' \in 1 .. Len(corpus) + 1 /\ pattern' \in Patterns /\ line' = 1
           /\ file' \notin Files => pattern' = 1
           /\ \A p \in Patterns : p # pattern => Passed(p)' = Passed(p)
           /\ \A p \in Patterns : p = pattern =>
                /\ Passed(p)' = Behind(p, file - 1) + Len(Here)
                /\ Passed(p) = Behind(p, file - 1) + (line - 1)
<1> DEFINE P == Len(corpus[1])
           F == Len(corpus)
<1>1. /\ corpus \in Corpora /\ file \in Nat /\ line \in Nat \ {0} /\ pattern \in Patterns
  BY DEF TypeOK
<1>2. F \in Nat \ {0} /\ Files = 1 .. F /\ P \in Nat \ {0} /\ Patterns = 1 .. P
  BY <1>1, CorpusFacts
<1> HIDE DEF P, F
<1>3. /\ line' = 1
      /\ \/ pattern + 1 \in Patterns /\ pattern' = pattern + 1 /\ file' = file
         \/ pattern + 1 \notin Patterns /\ pattern' = 1 /\ file' = file + 1
  BY DEF NextSearch
<1>4. /\ file' \in 1 .. F + 1 /\ pattern' \in Patterns /\ (file' \notin Files => pattern' = 1)
      /\ file \in 1 .. F /\ pattern \in 1 .. P
  BY <1>1, <1>2, <1>3
<1>5. ASSUME NEW p \in Patterns
      PROVE  /\ p # pattern => Before(p, file', pattern', 1) = Passed(p)
             /\ p = pattern => Before(p, file', pattern', 1) = Behind(p, file - 1) + Len(Here)
             /\ p = pattern => Passed(p) = Behind(p, file - 1) + (line - 1)
  <2> DEFINE B(f) == Behind(p, f)
             w(f) == Len(corpus[f][p])
  <2>1. /\ B(file) = B(file - 1) + w(file) /\ B(file) \in Nat /\ B(file - 1) \in Nat
        /\ w(file) \in Nat
    BY <1>1, MatchesFacts, CorpusFacts
  <2>2. p = pattern => Len(Here) = w(file)
    BY DEF Here
  <2>3. Passed(p) = B(file - 1) + (IF p < pattern THEN w(file)
                                   ELSE IF p = pattern THEN line - 1 ELSE 0)
    BY DEF Passed, Before
  <2>4. Before(p, file', pattern', 1) =
          B(file' - 1) + (IF file' \notin Files THEN 0 ELSE IF p < pattern' THEN w(file')
                          ELSE IF p = pattern' THEN 1 - 1 ELSE 0)
    BY DEF Before
  <2>5. p \in 1 .. P
    BY <1>2
  <2> HIDE DEF B, w
  <2>6. CASE pattern' = pattern + 1 /\ file' = file
    <3>1. Before(p, file', pattern', 1) = B(file - 1) + (IF p < pattern + 1 THEN w(file) ELSE 0)
      BY <1>1, <1>2, <1>4, <2>4, <2>5, <2>6
    <3>2. /\ p = pattern => p < pattern + 1 /\ ~(p < pattern)
          /\ p # pattern => (p < pattern + 1 <=> p < pattern)
      BY <1>4, <2>5
    <3> QED BY <2>2, <2>3, <3>1, <3>2 DEF B
  <2>7. CASE pattern + 1 \notin Patterns /\ pattern' = 1 /\ file' = file + 1
    <3>1. pattern = P
      BY <1>2, <1>4, <2>7
    <3>2. file' - 1 = file /\ ~(p < 1)
      BY <1>1, <2>5, <2>7
    <3>3. Before(p, file', pattern', 1) = B(file) + 0
      BY <2>4, <2>7, <3>2
    <3>4. Before(p, file', pattern', 1) = B(file - 1) + w(file)
      BY <2>1, <3>3
    <3>5. p # pattern => p < pattern
      BY <1>2, <2>5, <3>1
    <3>6. p = pattern => ~(p < pattern)
      BY <1>2, <3>1
    <3> QED BY <2>2, <2>3, <3>4, <3>5, <3>6 DEF B
  <2> QED BY <1>3, <2>6, <2>7
<1>6. \A p \in Patterns : Passed(p)' = Before(p, file', pattern', 1)
  BY <1>3, SameCorpus
<1> QED BY <1>1, <1>3, <1>4, <1>5, <1>6 DEF F
-----------------------------------------------------------------------------
(* Types. *)

\* What is kept of the rows is a number of them.
LEMMA KeptFacts ==
    ASSUME NEW rows \in Seq(Match)
    PROVE  Kept(rows) \in 0 .. Len(rows)
<1> DEFINE N == Len(rows)
           K == {k \in DOMAIN rows : k = 1 \/ Fits(SubSeq(rows, 1, k))}
<1>1. N \in Nat /\ DOMAIN rows = 1 .. N
  OBVIOUS
<1>2. CASE Fits(rows)
  BY <1>1, <1>2 DEF Kept
<1>3. CASE ~Fits(rows)
  <2>1. N # 0
    <3> SUFFICES ASSUME N = 0 PROVE FALSE
      OBVIOUS
    <3>1. DOMAIN rows = {}
      BY <1>1
    <3> QED BY <1>3, <3>1, PagingAssumption DEF Fits
  <2>2. 1 \in K /\ K \subseteq 1 .. N
    BY <1>1, <2>1
  <2> HIDE DEF N, K
  <2> DEFINE T == {N - k : k \in K}
  <2>3. T \subseteq Nat /\ T # {}
    BY <1>1, <2>2
  <2>4. PICK x \in T : \A y \in T : x <= y
    BY <2>3, Least
  <2>5. PICK m \in K : x = N - m
    OBVIOUS
  <2>6. ASSUME NEW k \in K PROVE m >= k
    <3>1. N - m <= N - k
      BY <2>4, <2>5
    <3>2. m \in Int /\ k \in Int
      BY <1>1, <2>2
    <3> QED BY <1>1, <3>1, <3>2
  <2>7. Max(K) \in K
    BY <2>6 DEF Max
  <2>8. Kept(rows) = Max(K)
    BY <1>3 DEF Kept, K
  <2>9. \A k \in K : k \in 0 .. N
    BY <1>1, <2>2
  <2>10. Max(K) \in 0 .. N
    BY <2>7, <2>9
  <2> QED BY <2>8, <2>10 DEF N
<1> QED BY <1>2, <1>3

\* The first state has the types.
LEMMA TypeInit == Init => TypeOK
<1> SUFFICES ASSUME Init PROVE TypeOK
  OBVIOUS
<1>1. corpus \in Corpora /\ limit \in Nat /\ offset \in Nat /\ phase = "asking" /\ cut = FALSE
  BY PagingAssumption DEF Init
<1>2. Len(corpus) \in Nat \ {0} /\ 1 \in Patterns
  BY <1>1, CorpusFacts
<1>3. file \in 1 .. Len(corpus) + 1 /\ pattern \in Patterns /\ line \in Nat \ {0}
  BY <1>2 DEF Init
<1>4. <<>> \in Seq(Match)
  OBVIOUS
<1>5. hits \in [Patterns -> Seq(Match)] /\ got \in [Patterns -> Seq(Match)]
  BY <1>4 DEF Init, Nothing
<1>6. seen \in [Patterns -> Nat]
  BY DEF Init, Zero
<1> QED BY <1>1, <1>3, <1>5, <1>6 DEF TypeOK

\* Steps of the walk and of the calls that leave the client's side alone.
LEMMA TypeKept ==
    ASSUME TypeOK, corpus' = corpus, limit' = limit, offset' \in Nat,
           phase' \in {"asking", "walking", "done", "failed"}, cut' \in BOOLEAN,
           file' \in 1 .. Len(corpus) + 1, pattern' \in Patterns, line' \in Nat \ {0},
           hits' \in [Patterns -> Seq(Match)], seen' \in [Patterns -> Nat],
           got' \in [Patterns -> Seq(Match)]
    PROVE  TypeOK'
<1>1. Patterns' = Patterns
  BY SameCorpus
<1> QED BY <1>1 DEF TypeOK

\* Every step keeps the types.
LEMMA TypeStep == TypeOK /\ Position /\ [Next]_vars => TypeOK'
<1> SUFFICES ASSUME TypeOK, Position, [Next]_vars PROVE TypeOK'
  OBVIOUS
<1>1. /\ corpus \in Corpora /\ limit \in Nat /\ offset \in Nat
      /\ phase \in {"asking", "walking", "done", "failed"}
      /\ file \in 1 .. Len(corpus) + 1 /\ pattern \in Patterns /\ line \in Nat \ {0}
      /\ hits \in [Patterns -> Seq(Match)] /\ seen \in [Patterns -> Nat]
      /\ got \in [Patterns -> Seq(Match)] /\ cut \in BOOLEAN
  BY DEF TypeOK
<1>2. 1 \in Patterns /\ 1 \in 1 .. Len(corpus) + 1 /\ line + 1 \in Nat \ {0}
  BY <1>1, CorpusFacts
<1>3. CASE UNCHANGED vars
  BY <1>1, <1>3, TypeKept DEF vars, place
<1>4. CASE Refuse \/ TimeOut \/ ReplyTooLarge
  BY <1>1, <1>4, TypeKept DEF Refuse, TimeOut, ReplyTooLarge, place
<1>5. CASE Ask
  <2>1. Nothing \in [Patterns -> Seq(Match)] /\ Zero \in [Patterns -> Nat]
    <3>1. <<>> \in Seq(Match)
      OBVIOUS
    <3> QED BY <3>1 DEF Nothing, Zero
  <2> QED BY <1>1, <1>2, <1>5, <2>1, TypeKept DEF Ask
<1>6. CASE Skip
  <2>1. seen' \in [Patterns -> Nat]
    BY <1>1, <1>6 DEF Skip
  <2> QED BY <1>1, <1>2, <1>6, <2>1, TypeKept DEF Skip
<1>7. CASE Leave \/ FileSearched
  <2>1. phase = "walking" /\ file \in Files /\ NextSearch /\ corpus' = corpus
    BY <1>7 DEF Leave, FileSearched, AtMatch
  <2>2. file' \in 1 .. Len(corpus) + 1 /\ pattern' \in Patterns /\ line' = 1
    BY <2>1, SearchedOn
  <2> QED BY <1>1, <1>7, <2>2, TypeKept DEF Leave, FileSearched
<1>8. CASE PassBytes
  BY <1>1, <1>2, <1>8, TypeKept DEF PassBytes
<1>9. CASE Collect
  <2> DEFINE m == [file |-> file, line |-> line, kind |-> Here[line], pattern |-> pattern]
             S == Seq(Match)
  <2>1. m \in Match
    <3>1. file \in Files /\ line \in DOMAIN corpus[file][pattern]
      BY <1>9 DEF Collect, AtMatch, Here
    <3>2. Here[line] \in Kinds
      BY <1>1, <3>1, CorpusFacts DEF Here
    <3>3. file \in Nat /\ pattern \in Nat
      BY <1>1, CorpusFacts
    <3> QED BY <1>1, <3>2, <3>3 DEF Match
  <2> HIDE DEF m
  <2>2. \A s \in S : Append(s, m) \in S
    BY <2>1
  <2>3. hits' = [hits EXCEPT ![pattern] = Append(@, m)] /\ hits \in [Patterns -> S]
    BY <1>1, <1>9 DEF Collect, m
  <2> HIDE DEF S
  <2>4. hits' \in [Patterns -> S]
    BY <1>1, <2>2, <2>3
  <2> QED BY <1>1, <1>2, <1>9, <2>4, TypeKept DEF Collect, S
<1>10. CASE Reply
  <2>1. Page \in Seq(Match)
    BY PageFacts
  <2>2. Kept(Page) \in 0 .. Len(Page) /\ Kept(Page) \in Nat
    BY <2>1, KeptFacts
  <2> DEFINE kept == Kept(Page)
             S == Seq(Match)
  <2>3. \A p \in Patterns : RowsOf(p, kept) \in S
    BY <2>2, RowsOfFacts
  <2>4. got' = [p \in Patterns |-> got[p] \o RowsOf(p, kept)] /\ got \in [Patterns -> S]
    BY <1>1, <1>10 DEF Reply
  <2>5. \A s \in S, t \in S : s \o t \in S
    OBVIOUS
  <2> HIDE DEF S, kept
  <2>6. got' \in [Patterns -> S]
    BY <2>3, <2>4, <2>5
  <2>7. NextOffset(kept) \in Nat
    BY <1>1, <2>2 DEF NextOffset, kept
  <2>8. offset' \in Nat /\ phase' \in {"asking", "walking", "done", "failed"} /\ cut' \in BOOLEAN
    BY <1>1, <1>10, <2>7 DEF Reply, kept
  <2> QED BY <1>1, <1>10, <2>6, <2>8, TypeKept DEF Reply, place, S
<1> QED BY <1>3, <1>4, <1>5, <1>6, <1>7, <1>8, <1>9, <1>10 DEF Next, Step
-----------------------------------------------------------------------------
(* The walk's place and what it has gathered. *)

\* The walk is in a file, at most one line past its matches, or past the last file.
LEMMA PositionStep == TypeOK /\ Position /\ [Next]_vars => Position'
<1> SUFFICES ASSUME TypeOK, Position, [Next]_vars, phase' = "walking"
             PROVE  IF file' \in Files' THEN line' <= Len(corpus'[file'][pattern']) + 1
                    ELSE pattern' = 1 /\ line' = 1
  BY DEF Position, Here
<1>1. /\ corpus \in Corpora /\ file \in 1 .. Len(corpus) + 1 /\ pattern \in Patterns
      /\ line \in Nat \ {0}
  BY DEF TypeOK
<1>2. \A f \in Files : \A p \in Patterns :
        Len(corpus[f][p]) \in Nat /\ DOMAIN corpus[f][p] = 1 .. Len(corpus[f][p])
  BY <1>1, CorpusFacts
<1>3. phase = "walking" =>
        IF file \in Files THEN line <= Len(corpus[file][pattern]) + 1 ELSE pattern = 1 /\ line = 1
  BY DEF Position, Here
<1>4. CASE UNCHANGED vars
  <2>1. UNCHANGED <<phase, corpus, file, pattern, line>>
    BY <1>4 DEF vars, place
  <2> QED BY <1>3, <2>1, SameCorpus
<1>5. CASE Ask
  <2>1. corpus' = corpus /\ file' = 1 /\ pattern' = 1 /\ line' = 1
    BY <1>5 DEF Ask
  <2>2. 1 \in Files /\ 1 \in Patterns
    BY <1>1, CorpusFacts
  <2>3. Len(corpus[1][1]) \in Nat
    BY <1>2, <2>2
  <2> QED BY <2>1, <2>2, <2>3
<1>6. CASE Skip \/ PassBytes \/ Collect
  <2>1. /\ corpus' = corpus /\ file' = file /\ pattern' = pattern /\ line' = line + 1
        /\ file \in Files /\ line \in DOMAIN corpus[file][pattern]
    BY <1>6 DEF Skip, PassBytes, Collect, AtMatch, Here
  <2>2. line + 1 <= Len(corpus[file][pattern]) + 1
    <3> DEFINE n == Len(corpus[file][pattern])
    <3>1. n \in Nat /\ line \in 1 .. n
      BY <1>1, <1>2, <2>1
    <3> HIDE DEF n
    <3>2. line + 1 <= n + 1
      BY <3>1
    <3> QED BY <3>2 DEF n
  <2> QED BY <2>1, <2>2, SameCorpus
<1>7. CASE Leave \/ FileSearched
  <2>1. phase = "walking" /\ file \in Files /\ NextSearch /\ corpus' = corpus
    BY <1>7 DEF Leave, FileSearched, AtMatch
  <2>2. pattern' \in Patterns /\ line' = 1 /\ (file' \notin Files => pattern' = 1)
    BY <2>1, SearchedOn
  <2>3. file' \in Files => Len(corpus[file'][pattern']) \in Nat
    BY <1>2, <2>2
  <2> QED BY <2>1, <2>2, <2>3, SameCorpus
<1>8. phase' # "walking" \/ Skip \/ PassBytes \/ Collect \/ Leave \/ FileSearched \/ Ask
        \/ UNCHANGED vars
  BY DEF Next, Step, Refuse, TimeOut, ReplyTooLarge, Reply
<1> QED BY <1>4, <1>5, <1>6, <1>7, <1>8

\* What a step leaves alone stays gathered.
LEMMA Held ==
    ASSUME TypeOK, corpus' = corpus, offset' = offset, limit' = limit,
           NEW p \in Patterns, NEW k \in Nat, Gathered(p, k),
           hits'[p] = hits[p], seen'[p] = seen[p],
           Passed(p) \in Nat, Passed(p)' \in Nat,
           Passed(p)' = Passed(p) \/ (Passed(p)' >= Passed(p) /\ Len(hits[p]) = limit + 1)
    PROVE  Gathered(p, k)'
<1>1. Matches(p)' = Matches(p)
  BY SameCorpus
<1>2. /\ k \in 0 .. Passed(p) /\ hits[p] = RowsAfter(Matches(p), offset)[k]
      /\ seen[p] = Lesser(offset, k) /\ Len(hits[p]) <= limit + 1
      /\ k = Passed(p) \/ Len(hits[p]) = limit + 1
  BY DEF Gathered
<1>3. k \in 0 .. Passed(p)' /\ (k = Passed(p)' \/ Len(hits[p]) = limit + 1)
  <2> DEFINE v == Passed(p)
             w == Passed(p)'
             full == Len(hits[p]) = limit + 1
  <2>1. v \in Nat /\ w \in Nat /\ (w = v \/ (w >= v /\ full)) /\ k \in 0 .. v /\ (k = v \/ full)
    BY <1>2
  <2> HIDE DEF v, w, full
  <2>2. k \in 0 .. w /\ (k = w \/ full)
    BY <2>1
  <2> QED BY <2>2 DEF w, full
<1>4. hits'[p] = RowsAfter(Matches(p)', offset')[k]
  BY <1>1, <1>2
<1>5. seen'[p] = Lesser(offset', k) /\ Len(hits'[p]) <= limit' + 1
  BY <1>2
<1>6. k \in 0 .. Passed(p)' /\ (k = Passed(p)' \/ Len(hits'[p]) = limit' + 1)
  BY <1>3
<1> QED BY <1>4, <1>5, <1>6 DEF Gathered
Counted == phase = "walking" => \A p \in Patterns : Passed(p) \in Nat

\* What is behind a walk can be counted.
LEMMA PassedIsNumber == TypeOK /\ Position => Counted
<1> SUFFICES ASSUME TypeOK, Position, phase = "walking", NEW p \in Patterns PROVE Passed(p) \in Nat
  BY DEF Counted
<1>1. Passed(p) \in 0 .. Len(Matches(p))
  BY Walked
<1> QED BY <1>1

\* Every step of the walk keeps each pattern's page what its first matches make it.
LEMMA PagesStep == TypeOK /\ Position /\ PagesSoFar /\ [Next]_vars => PagesSoFar'
<1> SUFFICES ASSUME TypeOK, Position, PagesSoFar, [Next]_vars, phase' = "walking",
                    NEW p \in Patterns'
             PROVE  \E k \in Nat : Gathered(p, k)'
  BY DEF PagesSoFar
<1>1. TypeOK' /\ Position'
  BY TypeStep, PositionStep
<1>2. Passed(p)' \in Nat
  <2>1. TypeOK' /\ Position' => Counted'
    BY PassedIsNumber, PTL
  <2> QED BY <1>1, <2>1 DEF Counted
<1>3. CASE Ask
  <2>1. /\ file' = 1 /\ pattern' = 1 /\ line' = 1 /\ corpus' = corpus /\ offset' = offset
        /\ limit' = limit /\ hits' = Nothing /\ seen' = Zero
    BY <1>3 DEF Ask
  <2>2. corpus \in Corpora /\ offset \in Nat /\ limit \in Nat /\ p \in Patterns
    BY <2>1, SameCorpus DEF TypeOK
  <2>3. Passed(p)' = 0
    <3>1. Passed(p)' = Before(p, 1, 1, 1)
      BY <2>1, SameCorpus
    <3>2. 1 \in Files /\ p \in Nat \ {0}
      BY <2>2, CorpusFacts
    <3>3. Before(p, 1, 1, 1) = Behind(p, 1 - 1) + 0
      BY <3>2 DEF Before
    <3>4. Behind(p, 1 - 1) = 0
      BY <2>2, MatchesFacts
    <3> QED BY <3>1, <3>3, <3>4
  <2>4. RowsAfter(Matches(p), offset)[0] = <<>>
    <3>1. Matches(p) \in Seq(Match)
      BY <2>2, MatchesFacts
    <3>2. 0 \in 0 .. Len(Matches(p)) /\ 0 <= offset
      BY <2>2, <3>1
    <3> QED BY <2>2, <3>1, <3>2, RowsUnfold
  <2>5. hits'[p] = <<>> /\ seen'[p] = 0 /\ Len(<<>>) = 0
    BY <2>1, <2>2 DEF Nothing, Zero
  <2>6. 0 = Lesser(offset, 0) /\ Len(hits'[p]) <= limit' + 1
    BY <2>1, <2>2, <2>5 DEF Lesser
  <2>7. Matches(p)' = Matches(p)
    BY <2>1, SameCorpus
  <2>8. Gathered(p, 0)'
    BY <2>1, <2>3, <2>4, <2>5, <2>6, <2>7 DEF Gathered
  <2> QED BY <2>8
<1>4. CASE UNCHANGED vars \/ Skip \/ PassBytes \/ Collect \/ Leave \/ FileSearched
  <2>1. /\ phase = "walking" /\ corpus' = corpus /\ offset' = offset /\ limit' = limit
    BY <1>4 DEF vars, place, Skip, PassBytes, Collect, Leave, FileSearched, AtMatch
  <2>2. /\ p \in Patterns /\ corpus \in Corpora /\ offset \in Nat /\ limit \in Nat
        /\ pattern \in Patterns /\ Matches(p)' = Matches(p)
        /\ hits \in [Patterns -> Seq(Match)] /\ seen \in [Patterns -> Nat]
    BY <2>1, SameCorpus DEF TypeOK
  <2>3. Passed(p) \in Nat
    BY <2>1, <2>2, PassedIsNumber DEF Counted
  <2>4. PICK k \in Nat : Gathered(p, k)
    BY <2>1, <2>2 DEF PagesSoFar
  <2>5. /\ k \in 0 .. Passed(p) /\ hits[p] = RowsAfter(Matches(p), offset)[k]
        /\ seen[p] = Lesser(offset, k) /\ Len(hits[p]) <= limit + 1
        /\ k = Passed(p) \/ Len(hits[p]) = limit + 1
    BY <2>4 DEF Gathered
  <2>6. CASE UNCHANGED vars
    <3>1. Passed(p)' = Passed(p) /\ hits' = hits /\ seen' = seen
      BY <2>1, <2>6, SameCorpus DEF vars, place, Passed
    <3>2. Gathered(p, k)'
      BY <1>2, <2>1, <2>2, <2>3, <2>4, <3>1, Held
    <3> QED BY <3>2
  <2>7. CASE Leave \/ FileSearched
    <3>1. file \in Files /\ NextSearch /\ hits' = hits /\ seen' = seen
      BY <2>7 DEF Leave, FileSearched, AtMatch
    <3>2. p # pattern => Passed(p)' = Passed(p)
      BY <2>1, <2>2, <3>1, SearchedOn
    <3>3. p = pattern => /\ Passed(p)' = Behind(p, file - 1) + Len(Here)
                         /\ Passed(p) = Behind(p, file - 1) + (line - 1)
      BY <2>1, <2>2, <3>1, SearchedOn
    <3>4. /\ Behind(p, file - 1) \in Nat /\ Len(Here) \in Nat /\ DOMAIN Here = 1 .. Len(Here)
          /\ line \in Nat \ {0} /\ line <= Len(Here) + 1
      BY <2>1, <2>2, <3>1, MatchesFacts, CorpusFacts DEF Here, TypeOK, Position
    <3>5. CASE p # pattern
      <4>1. Gathered(p, k)'
        BY <1>2, <2>1, <2>2, <2>3, <2>4, <3>1, <3>2, <3>5, Held
      <4> QED BY <4>1
    <3>6. CASE p = pattern /\ Leave
      <4>1. Passed(p)' >= Passed(p)
        BY <3>3, <3>4, <3>6
      <4>2. Len(hits[p]) = limit + 1
        <5>1. Len(hits[p]) > limit /\ hits[p] \in Seq(Match)
          BY <2>2, <3>6 DEF Leave, Full
        <5>2. Len(hits[p]) \in Nat
          BY <5>1
        <5> QED BY <2>2, <2>5, <5>1, <5>2
      <4>3. Gathered(p, k)'
        BY <1>2, <2>1, <2>2, <2>3, <2>4, <3>1, <4>1, <4>2, Held
      <4> QED BY <4>3
    <3>7. CASE p = pattern /\ FileSearched
      <4>1. line \notin 1 .. Len(Here)
        BY <3>4, <3>7 DEF FileSearched
      <4>2. Passed(p)' = Passed(p)
        BY <3>3, <3>4, <3>7, <4>1
      <4>3. Gathered(p, k)'
        BY <1>2, <2>1, <2>2, <2>3, <2>4, <3>1, <4>2, Held
      <4> QED BY <4>3
    <3> QED BY <2>7, <3>5, <3>6, <3>7
  <2>8. CASE Skip \/ PassBytes \/ Collect
    <3>1. /\ AtMatch /\ line' = line + 1 /\ pattern' = pattern /\ file' = file
      BY <2>8 DEF Skip, PassBytes, Collect
    <3>2. Passed(p)' = Before(p, file, pattern, line + 1)
      BY <2>1, <3>1, SameCorpus
    <3>3. CASE p # pattern
      <4>1. Passed(p)' = Passed(p)
        BY <2>1, <2>2, <3>1, <3>2, <3>3, Walked
      <4>2. hits'[p] = hits[p] /\ seen'[p] = seen[p]
        BY <2>2, <2>8, <3>3 DEF Skip, PassBytes, Collect
      <4>3. Gathered(p, k)'
        BY <1>2, <2>1, <2>2, <2>3, <2>4, <4>1, <4>2, Held
      <4> QED BY <4>3
    <3>4. CASE p = pattern
      <4> DEFINE ms == Matches(p)
                 m == [file |-> file, line |-> line, kind |-> Here[line], pattern |-> p]
      <4>1. /\ Passed(p)' = Passed(p) + 1 /\ Passed(p) + 1 \in 1 .. Len(ms)
            /\ ms[Passed(p) + 1] = m
        BY <2>1, <2>2, <3>1, <3>2, <3>4, Walked
      <4>2. ms \in Seq(Match)
        BY <2>2, MatchesFacts
      <4>3. /\ k \in 0 .. Len(ms) /\ (k + 1 \in 1 .. Len(ms) => (k + 1) - 1 = k)
            /\ (k = Passed(p) => k + 1 \in 1 .. Len(ms))
        <5>1. Len(ms) \in Nat
          BY <4>2
        <5> QED BY <2>3, <2>5, <4>1, <5>1
      <4> DEFINE h == hits[p]
      <4>4. h \in Seq(Match) /\ Len(h) \in Nat
        BY <2>2
      <4> HIDE DEF ms, h
      <4>5. CASE Skip
        <5>1. /\ seen[p] < offset /\ seen'[p] = seen[p] + 1 /\ hits' = hits
          BY <2>2, <3>4, <4>5 DEF Skip
        <5>2. k < offset
          BY <2>2, <2>5, <5>1 DEF Lesser
        <5>3. h = <<>>
          BY <2>2, <2>5, <4>2, <4>3, <5>2, RowsUnfold DEF h, ms
        <5>4. k = Passed(p)
          BY <2>2, <2>5, <5>3 DEF h
        <5>5. k + 1 \in 0 .. Len(ms) /\ k + 1 <= offset /\ k + 1 \in 0 .. Passed(p)'
          BY <2>2, <4>1, <4>3, <5>2, <5>4, <2>3
        <5>6. RowsAfter(ms, offset)[k + 1] = <<>>
          BY <2>2, <4>2, <5>5, RowsUnfold
        <5>7. seen'[p] = Lesser(offset, k + 1)
          BY <2>2, <2>5, <5>1, <5>2 DEF Lesser
        <5>8. Gathered(p, k + 1)'
          BY <2>1, <2>2, <2>5, <4>1, <5>1, <5>3, <5>4, <5>5, <5>6, <5>7 DEF Gathered, h, ms
        <5> QED BY <5>8
      <4>6. CASE PassBytes \/ Collect
        <5>1. seen[p] >= offset /\ ~(Len(h) > limit) /\ seen' = seen
          BY <3>4, <4>6 DEF PassBytes, Collect, Full, h
        <5>2. k >= offset /\ k = Passed(p)
          BY <2>2, <2>5, <4>4, <5>1 DEF Lesser, h
        <5>3. k + 1 \in 1 .. Len(ms) /\ k + 1 > offset /\ (k + 1) - 1 = k /\ ms[k + 1] = m
          BY <2>2, <4>1, <4>3, <5>2
        <5>4. k + 1 \in 0 .. Passed(p)' /\ k + 1 = Passed(p)'
          BY <4>1, <5>2
        <5>5. seen'[p] = Lesser(offset, k + 1)
          BY <2>2, <2>5, <5>1, <5>2 DEF Lesser
        <5>6. hits'[p] = RowsAfter(ms, offset)[k + 1] /\ Len(hits'[p]) <= limit + 1
          <6>1. CASE PassBytes
            <7>1. ~IsRow(m) /\ hits' = hits
              BY <6>1 DEF PassBytes, IsRow
            <7>2. RowsAfter(ms, offset)[k + 1] = RowsAfter(ms, offset)[k]
              BY <2>2, <4>2, <5>3, <7>1, RowsUnfold
            <7> QED BY <2>5, <7>1, <7>2 DEF ms
          <6>2. CASE Collect
            <7>1. IsRow(m)
              BY <6>2 DEF Collect, IsRow
            <7> HIDE DEF m
            <7>2. RowsAfter(ms, offset)[k + 1] = Append(RowsAfter(ms, offset)[k], m)
              <8> DEFINE R == RowsAfter(ms, offset)
              <8>1. \A i \in 1 .. Len(ms) :
                      i > offset /\ IsRow(ms[i]) => R[i] = Append(R[i - 1], ms[i])
                BY <2>2, <4>2, RowsUnfold
              <8> HIDE DEF R
              <8>2. IsRow(ms[k + 1]) /\ R[k + 1] = Append(R[(k + 1) - 1], ms[k + 1])
                BY <5>3, <7>1, <8>1
              <8> QED BY <5>3, <8>2 DEF R
            <7>3. hits'[p] = Append(h, m)
              BY <2>2, <3>4, <6>2 DEF Collect, h, m
            <7>4. m \in Match
              BY <4>2, <5>3
            <7>5. Len(Append(h, m)) = Len(h) + 1
              BY <4>4, <7>4
            <7>6. Len(h) + 1 <= limit + 1
              BY <2>2, <4>4, <5>1
            <7> QED BY <2>5, <7>2, <7>3, <7>5, <7>6 DEF h, ms
          <6> QED BY <4>6, <6>1, <6>2
        <5>7. Gathered(p, k + 1)'
          BY <2>1, <2>2, <5>4, <5>5, <5>6 DEF Gathered, ms
        <5> QED BY <5>7
      <4> QED BY <2>8, <4>5, <4>6
    <3> QED BY <3>3, <3>4
  <2> QED BY <1>4, <2>6, <2>7, <2>8
<1>5. phase' # "walking" \/ Skip \/ PassBytes \/ Collect \/ Leave \/ FileSearched \/ Ask
        \/ UNCHANGED vars
  BY DEF Next, Step, Refuse, TimeOut, ReplyTooLarge, Reply
<1> QED BY <1>3, <1>4, <1>5
-----------------------------------------------------------------------------
(* The reply. *)

\* All rows of p past the offset of the call.
RowsPast(p) == RowsAfter(Matches(p), offset)[Len(Matches(p))]

\* Once the walk is over, what was gathered is what the matches define.
LEMMA BatchHolds == TypeOK /\ Position /\ PagesSoFar => BatchEqualsSingle
<1> SUFFICES ASSUME TypeOK, Position, PagesSoFar, WalkOver, NEW p \in Patterns
             PROVE  hits[p] = Take(RowsPast(p), limit + 1)
  BY DEF BatchEqualsSingle, RowsPast
<1> DEFINE ms == Matches(p)
           n == Len(ms)
           R == RowsAfter(ms, offset)
           h == hits[p]
<1>1. phase = "walking" /\ corpus \in Corpora /\ offset \in Nat /\ limit + 1 \in Nat /\ limit \in Nat
  BY DEF WalkOver, TypeOK
<1>2. ms \in Seq(Match) /\ Passed(p) = n
  BY <1>1, MatchesFacts, Walked
<1>3. PICK k \in Nat : Gathered(p, k)
  BY <1>1 DEF PagesSoFar
<1>4. k \in 0 .. n /\ h = R[k] /\ Len(h) <= limit + 1 /\ (k = n \/ Len(h) = limit + 1)
  BY <1>2, <1>3 DEF Gathered
<1> HIDE DEF n, R, h, ms
<1>5. n \in Nat /\ n = Len(ms)
  BY <1>2 DEF n
<1>6. R[k] \in Seq(Match) /\ R[n] \in Seq(Match)
  <2>1. k \in 0 .. Len(ms) /\ n \in 0 .. Len(ms)
    BY <1>4, <1>5
  <2> QED BY <1>1, <1>2, <2>1, RowsUnfold DEF R
<1>7. Begins(R[k], R[n])
  <2>1. k \in 0 .. Len(ms) /\ n \in k .. Len(ms)
    BY <1>4, <1>5
  <2> QED BY <1>1, <1>2, <2>1, RowsGrow DEF R
<1> DEFINE t == Take(R[n], limit + 1)
<1>8. /\ t \in Seq(Match) /\ Len(t) = Lesser(limit + 1, Len(R[n])) /\ \A i \in 1 .. Len(t) : t[i] = R[n][i]
      /\ Len(R[n]) <= limit + 1 => t = R[n]
  BY <1>1, <1>6, TakeFacts
<1> HIDE DEF t
<1>9. CASE k = n
  BY <1>4, <1>8, <1>9 DEF t, h, R, n, ms, RowsPast
<1>10. CASE Len(h) = limit + 1
  <2>1. Len(R[n]) \in Nat /\ Len(R[k]) = limit + 1 /\ Len(R[k]) <= Len(R[n])
    BY <1>4, <1>6, <1>7, <1>10 DEF Begins
  <2>2. Len(t) = Len(R[k])
    BY <1>1, <1>8, <2>1 DEF Lesser
  <2>3. \A i \in 1 .. Len(R[k]) : t[i] = R[k][i]
    BY <1>7, <1>8, <2>2 DEF Begins
  <2>4. t = R[k]
    BY <1>6, <1>8, <2>2, <2>3, SeqEqual
  <2> QED BY <1>4, <2>4 DEF t, h, R, n, ms, RowsPast
<1> QED BY <1>4, <1>9, <1>10

\* The rows of p in a reply are rows past the offset; unless a page of several
\* patterns is trimmed they are the first of them, as many as the offset moves on.
LEMMA ReplyRows ==
    ASSUME TypeOK, Position, PagesSoFar, Reply, NEW p \in Patterns, NEW r, r = RowsOf(p, Kept(Page))
    PROVE  /\ RowsPast(p) \in Seq(Match) /\ r \in Seq(Match) /\ got'[p] = got[p] \o r
           /\ \A i \in 1 .. Len(r) : \E j \in 1 .. Len(RowsPast(p)) : r[i] = RowsPast(p)[j]
           /\ ~cut' => \A i \in 1 .. Len(r) : i \in 1 .. Len(RowsPast(p)) /\ r[i] = RowsPast(p)[i]
           /\ ~cut' => \/ phase' = "done" /\ Len(r) = Len(RowsPast(p))
                       \/ /\ phase' = "asking" /\ offset' \in Nat /\ offset' >= offset
                          /\ Len(r) = Lesser(offset' - offset, Len(RowsPast(p)))
<1> DEFINE w == RowsPast(p)
           h == hits[p]
           kept == Kept(Page)
           P == Len(Page)
<1>1. /\ corpus \in Corpora /\ offset \in Nat /\ limit \in Nat /\ WalkOver /\ phase = "walking"
      /\ hits \in [Patterns -> Seq(Match)]
  BY DEF Reply, WalkOver, TypeOK
<1>2. w \in Seq(Match)
  <2>1. Matches(p) \in Seq(Match)
    BY <1>1, MatchesFacts
  <2>2. Len(Matches(p)) \in 0 .. Len(Matches(p))
    BY <2>1
  <2> QED BY <1>1, <2>1, <2>2, RowsUnfold DEF RowsPast
<1>3. h = Take(w, limit + 1)
  BY <1>1, BatchHolds DEF BatchEqualsSingle, RowsPast
<1>4. Page \in Seq(Match) /\ kept \in 0 .. P
  BY PageFacts, KeptFacts
<1>5. /\ r \in Seq(Match)
      /\ \A i \in DOMAIN r : \E j \in DOMAIN h : r[i] = h[j]
      /\ kept = P => r = Take(h, limit)
      /\ Patterns = {1} => /\ Len(r) = kept /\ P = Len(Take(h, limit))
                           /\ \A i \in 1 .. kept : i \in DOMAIN h /\ r[i] = h[i]
  BY <1>4, RowsOfFacts
<1>6. got'[p] = got[p] \o r
  BY DEF Reply
<1>7. /\ cut' = (cut \/ (kept < P /\ Cardinality(Patterns) > 1))
      /\ \/ HasMore \/ kept < P
         \/ ~HasMore /\ ~(kept < P) /\ phase' = "done"
      /\ HasMore \/ kept < P => phase' = "asking" /\ offset' = NextOffset(kept)
  BY DEF Reply
<1>8. NextOffset(kept) = IF kept = P THEN offset + limit ELSE offset + kept
  BY DEF NextOffset
<1>9. ~HasMore => Len(h) <= limit
  <2>1. Len(h) \in Nat
    BY <1>1
  <2> QED BY <1>1, <2>1 DEF HasMore
<1> HIDE DEF w, h, kept, P
<1>10. /\ h \in Seq(Match) /\ Len(h) = Lesser(limit + 1, Len(w)) /\ \A i \in 1 .. Len(h) : h[i] = w[i]
  <2>1. limit + 1 \in Nat
    BY <1>1
  <2> QED BY <1>2, <1>3, <2>1, TakeFacts
<1>11. /\ Len(Take(h, limit)) = Lesser(limit, Len(h))
       /\ \A i \in 1 .. Len(Take(h, limit)) : Take(h, limit)[i] = h[i]
  BY <1>1, <1>10, TakeFacts
<1>12. /\ Len(h) \in Nat /\ Len(w) \in Nat /\ Len(h) <= Len(w) /\ P \in Nat
       /\ kept \in Nat /\ kept <= P /\ DOMAIN h = 1 .. Len(h) /\ DOMAIN r = 1 .. Len(r)
       /\ Len(r) \in Nat
  <2>1. Len(h) \in Nat /\ Len(w) \in Nat /\ P \in Nat
    BY <1>2, <1>4, <1>10 DEF P
  <2>2. Len(h) <= Len(w)
    BY <1>1, <1>10, <2>1 DEF Lesser
  <2> QED BY <1>4, <1>5, <1>10, <2>1, <2>2
<1>13. \A i \in 1 .. Len(r) : \E j \in 1 .. Len(w) : r[i] = w[j]
  <2>1. ASSUME NEW i \in 1 .. Len(r) PROVE \E j \in 1 .. Len(w) : r[i] = w[j]
    <3>1. PICK j \in 1 .. Len(h) : r[i] = h[j]
      BY <1>5, <1>12
    <3>2. j \in 1 .. Len(w) /\ h[j] = w[j]
      BY <1>10, <1>12
    <3> QED BY <3>1, <3>2
  <2> QED BY <2>1
<1>14. ASSUME kept = P
       PROVE  /\ \A i \in 1 .. Len(r) : i \in 1 .. Len(w) /\ r[i] = w[i]
              /\ \/ phase' = "done" /\ Len(r) = Len(w)
                 \/ /\ phase' = "asking" /\ offset' \in Nat /\ offset' >= offset
                    /\ Len(r) = Lesser(offset' - offset, Len(w))
  <2>1. Len(r) = Lesser(limit, Len(h)) /\ \A i \in 1 .. Len(r) : r[i] = h[i]
    BY <1>5, <1>11, <1>14
  <2>2. Len(r) <= Len(h) /\ Len(r) = Lesser(limit, Len(w))
    BY <1>1, <1>10, <1>12, <2>1 DEF Lesser
  <2>3. \A i \in 1 .. Len(r) : i \in 1 .. Len(h) /\ i \in 1 .. Len(w)
    BY <1>12, <2>2
  <2>4. CASE HasMore
    <3>1. phase' = "asking" /\ offset' = offset + limit
      BY <1>7, <1>8, <1>14, <2>4
    <3>2. offset' \in Nat /\ offset' >= offset /\ offset' - offset = limit
      BY <1>1, <3>1
    <3> QED BY <1>10, <2>1, <2>2, <2>3, <3>1, <3>2
  <2>5. CASE ~HasMore
    <3>1. phase' = "done"
      BY <1>7, <1>12, <1>14, <2>5
    <3>2. Len(r) = Len(w)
      BY <1>1, <1>9, <1>10, <1>12, <2>1, <2>5 DEF Lesser
    <3> QED BY <1>10, <2>1, <2>3, <3>1, <3>2
  <2> QED BY <2>4, <2>5
<1>15. ASSUME kept < P, Patterns = {1}
       PROVE  /\ \A i \in 1 .. Len(r) : i \in 1 .. Len(w) /\ r[i] = w[i]
              /\ phase' = "asking" /\ offset' \in Nat /\ offset' >= offset
              /\ Len(r) = Lesser(offset' - offset, Len(w))
  <2>1. Len(r) = kept /\ \A i \in 1 .. Len(r) : i \in 1 .. Len(h) /\ r[i] = h[i]
    BY <1>5, <1>12, <1>15
  <2>2. kept <= Len(h) /\ kept <= Len(w)
    <3>1. P = Lesser(limit, Len(h))
      BY <1>5, <1>11, <1>15
    <3> DEFINE a == Len(h)
               b == Len(w)
    <3>2. /\ a \in Nat /\ b \in Nat /\ a <= b /\ P = Lesser(limit, a) /\ limit \in Nat
          /\ kept \in Nat /\ kept < P
      BY <1>1, <1>12, <1>15, <3>1
    <3> HIDE DEF a, b
    <3>3. kept <= a /\ kept <= b
      BY <3>2 DEF Lesser
    <3> QED BY <3>3 DEF a, b
  <2>3. \A i \in 1 .. Len(r) : i \in 1 .. Len(w) /\ r[i] = w[i]
    BY <1>10, <1>12, <2>1
  <2>4. phase' = "asking" /\ offset' = offset + kept
    BY <1>7, <1>8, <1>12, <1>15
  <2>5. offset' \in Nat /\ offset' >= offset /\ offset' - offset = kept
    BY <1>1, <1>12, <2>4
  <2>6. Len(r) = Lesser(offset' - offset, Len(w))
    BY <1>12, <2>1, <2>2, <2>5 DEF Lesser
  <2> QED BY <2>3, <2>4, <2>5, <2>6
<1>16. ~cut' => kept = P \/ Patterns = {1}
  <2> DEFINE N == Len(corpus[1])
  <2>1. N \in Nat \ {0} /\ Patterns = 1 .. N
    BY <1>1, CorpusFacts
  <2> HIDE DEF N
  <2>2. Cardinality(Patterns) = N
    <3>1. Cardinality(1 .. N) = IF 1 > N THEN 0 ELSE N - 1 + 1
      BY <2>1, FS_Interval
    <3> QED BY <2>1, <3>1
  <2>3. ~(N > 1) => Patterns = {1}
    BY <2>1
  <2>4. ~cut' => ~(kept < P) \/ ~(Cardinality(Patterns) > 1)
    BY <1>7
  <2>5. ~(kept < P) => kept = P
    BY <1>12
  <2> QED BY <2>2, <2>3, <2>4, <2>5
<1>17. kept = P \/ kept < P
  BY <1>12
<1> QED BY <1>2, <1>5, <1>6, <1>13, <1>14, <1>15, <1>16, <1>17 DEF w
-----------------------------------------------------------------------------
(* What the client has. *)

\* A step other than a reply.
LEMMA NotReply ==
    ASSUME [Next]_vars, ~Reply
    PROVE  /\ corpus' = corpus /\ offset' = offset /\ got' = got /\ cut' = cut
           /\ phase' = "done" <=> phase = "done"
<1>1. \/ Refuse \/ Ask \/ Skip \/ Leave \/ PassBytes \/ Collect \/ FileSearched \/ ReplyTooLarge
      \/ TimeOut \/ UNCHANGED vars
  BY DEF Next, Step
<1> QED BY <1>1 DEF Refuse, Ask, Skip, Leave, PassBytes, Collect, FileSearched, ReplyTooLarge,
           TimeOut, vars, AtMatch, WalkOver

\* A row of what is received with the reply is one of what was before or one of the reply's.
LEMMA GotFacts ==
    ASSUME TypeOK, Position, PagesSoFar, Reply, NEW p \in Patterns, NEW r, r = RowsOf(p, Kept(Page))
    PROVE  /\ Len(got[p]) \in Nat /\ Len(r) \in Nat /\ Len(got'[p]) = Len(got[p]) + Len(r)
           /\ DOMAIN got[p] = 1 .. Len(got[p]) /\ DOMAIN got'[p] = 1 .. Len(got[p]) + Len(r)
           /\ \A i \in 1 .. Len(got[p]) : got'[p][i] = got[p][i]
           /\ \A i \in 1 .. Len(r) : got'[p][Len(got[p]) + i] = r[i]
<1> DEFINE g == got[p]
           h == got'[p]
<1>1. g \in Seq(Match)
  BY DEF TypeOK
<1>2. r \in Seq(Match) /\ h = g \o r
  BY ReplyRows
<1> HIDE DEF g, h
<1>3. h \in Seq(Match) /\ DOMAIN h = 1 .. Len(h) /\ DOMAIN g = 1 .. Len(g)
  BY <1>1, <1>2
<1>4. /\ Len(g) \in Nat /\ Len(r) \in Nat /\ Len(h) = Len(g) + Len(r)
      /\ \A i \in 1 .. Len(g) : h[i] = g[i]
      /\ \A i \in 1 .. Len(r) : h[Len(g) + i] = r[i]
  BY <1>1, <1>2, Concat
<1> QED BY <1>3, <1>4 DEF g, h

\* Every step leaves the client with rows only, and with all the offset has passed.
LEMMA ReceivedStep == TypeOK /\ Position /\ PagesSoFar /\ ReceivedAll /\ [Next]_vars => ReceivedAll'
<1> SUFFICES ASSUME TypeOK, Position, PagesSoFar, ReceivedAll, [Next]_vars, NEW p \in Patterns'
             PROVE  Received(p)'
  BY DEF ReceivedAll
<1>1. corpus' = corpus
  BY DEF Next, Step, Refuse, Ask, Skip, Leave, PassBytes, Collect, FileSearched, ReplyTooLarge,
         Reply, TimeOut, vars
<1>2. p \in Patterns /\ Matches(p)' = Matches(p) /\ corpus \in Corpora /\ offset \in Nat
  BY <1>1, SameCorpus DEF TypeOK
<1>3. Received(p)
  BY <1>2 DEF ReceivedAll
<1> DEFINE ms == Matches(p)
           n == Len(ms)
<1>4. ms \in Seq(Match)
  BY <1>2, MatchesFacts
<1>5. CASE ~Reply
  BY <1>2, <1>3, <1>5, NotReply DEF Received
<1>6. CASE Reply
  <2> DEFINE g == got[p]
             h == got'[p]
             w == RowsPast(p)
             r == RowsOf(p, Kept(Page))
  <2>1. phase # "done"
    BY <1>6 DEF Reply, WalkOver
  <2>2. /\ Len(g) \in Nat /\ Len(r) \in Nat /\ Len(h) = Len(g) + Len(r)
        /\ DOMAIN g = 1 .. Len(g) /\ DOMAIN h = 1 .. Len(g) + Len(r)
        /\ \A i \in 1 .. Len(g) : h[i] = g[i]
        /\ \A i \in 1 .. Len(r) : h[Len(g) + i] = r[i]
    BY <1>2, <1>6, GotFacts
  <2>3. /\ w \in Seq(Match)
        /\ \A i \in 1 .. Len(r) : \E j \in 1 .. Len(w) : r[i] = w[j]
        /\ ~cut' => \A i \in 1 .. Len(r) : i \in 1 .. Len(w) /\ r[i] = w[i]
        /\ ~cut' => \/ phase' = "done" /\ Len(r) = Len(w)
                    \/ /\ phase' = "asking" /\ offset' \in Nat /\ offset' >= offset
                       /\ Len(r) = Lesser(offset' - offset, Len(w))
    BY <1>2, <1>6, ReplyRows
  <2>4. cut => cut'
    BY <1>6 DEF Reply
  <2>5. /\ n \in Nat /\ n \in 0 .. Len(ms) /\ DOMAIN ms = 1 .. n
    BY <1>4
  <2>6. \A i \in 1 .. Len(w) : \E k \in 1 .. n : IsRow(ms[k]) /\ w[i] = ms[k]
    <3>1. w = RowsAfter(ms, offset)[n]
      BY DEF RowsPast
    <3> HIDE DEF ms, n, w
    <3>2. Matched(w, ms, offset, n)
      BY <1>2, <1>4, <2>5, <3>1, RowsFrom
    <3> QED BY <3>2 DEF Matched
  <2>7. \A k \in 1 .. n : k > offset /\ IsRow(ms[k]) =>
          \E i \in 1 .. Len(w) : i <= k - offset /\ w[i] = ms[k]
    <3>1. w = RowsAfter(ms, offset)[n]
      BY DEF RowsPast
    <3> HIDE DEF ms, n, w
    <3>2. ASSUME NEW k \in 1 .. n, k > offset, IsRow(ms[k]) PROVE HasMatch(w, ms, offset, k)
      BY <1>2, <1>4, <2>5, <3>1, <3>2, RowsHold
    <3> QED BY <3>2 DEF HasMatch
  <2>8. /\ \A i \in DOMAIN g : \E k \in DOMAIN ms : g[i] = ms[k] /\ IsRow(ms[k])
        /\ ~cut => \A k \in DOMAIN ms :
             k <= offset /\ IsRow(ms[k]) => \E i \in DOMAIN g : g[i] = ms[k]
    BY <1>3 DEF Received
  <2> HIDE DEF g, h, w, r, ms, n
  <2>9. ASSUME NEW i \in DOMAIN h PROVE \E k \in DOMAIN ms : h[i] = ms[k] /\ IsRow(ms[k])
    <3>1. CASE i \in 1 .. Len(g)
      BY <2>2, <2>8, <3>1
    <3>2. CASE i \notin 1 .. Len(g)
      <4>1. i - Len(g) \in 1 .. Len(r) /\ Len(g) + (i - Len(g)) = i
        BY <2>2, <3>2
      <4>2. h[i] = r[i - Len(g)]
        BY <2>2, <4>1
      <4>3. PICK j \in 1 .. Len(w) : r[i - Len(g)] = w[j]
        BY <2>3, <4>1
      <4>4. PICK k \in 1 .. n : IsRow(ms[k]) /\ w[j] = ms[k]
        BY <2>6
      <4> QED BY <2>5, <4>2, <4>3, <4>4
    <3> QED BY <3>1, <3>2
  <2>10. ASSUME ~cut', NEW k \in DOMAIN ms, k <= offset' \/ phase' = "done", IsRow(ms[k])
         PROVE  \E i \in DOMAIN h : h[i] = ms[k]
    <3>1. k \in 1 .. n /\ k \in Nat /\ Len(w) \in Nat
      BY <2>3, <2>5
    <3>2. CASE k <= offset
      <4>1. PICK i \in DOMAIN g : g[i] = ms[k]
        BY <2>4, <2>8, <2>10, <3>2
      <4>2. i \in DOMAIN h /\ h[i] = ms[k]
        BY <2>2, <4>1
      <4> QED BY <4>2
    <3>3. CASE k > offset
      <4>1. PICK i \in 1 .. Len(w) : i <= k - offset /\ w[i] = ms[k]
        BY <2>7, <2>10, <3>1, <3>3
      <4>2. i \in 1 .. Len(r)
        <5> DEFINE a == Len(r)
                   b == Len(w)
        <5>1. /\ a \in Nat /\ b \in Nat /\ i \in 1 .. b /\ i <= k - offset /\ offset \in Nat /\ k \in Nat
              /\ k <= offset' \/ phase' = "done"
              /\ \/ phase' = "done" /\ a = b
                 \/ phase' = "asking" /\ offset' \in Nat /\ a = Lesser(offset' - offset, b)
          BY <1>2, <2>2, <2>3, <2>10, <3>1, <4>1
        <5> HIDE DEF a, b
        <5>2. i \in 1 .. a
          BY <5>1 DEF Lesser
        <5> QED BY <5>2 DEF a
      <4>3. r[i] = ms[k]
        BY <2>3, <2>10, <4>1, <4>2
      <4>4. Len(g) + i \in DOMAIN h /\ h[Len(g) + i] = ms[k]
        BY <2>2, <4>2, <4>3
      <4> QED BY <4>4
    <3> QED BY <1>2, <3>1, <3>2, <3>3
  <2> QED BY <1>2, <2>9, <2>10 DEF Received, h, ms
<1> QED BY <1>5, <1>6
\* Where all matches are rows, every step leaves the client with the first of them.
LEMMA ConsecutiveStep == TypeOK /\ Position /\ PagesSoFar /\ Consecutive /\ [Next]_vars => Consecutive'
<1> SUFFICES ASSUME TypeOK, Position, PagesSoFar, Consecutive, [Next]_vars, ~cut',
                    NEW p \in Patterns', OnlyRows(p)'
             PROVE  InOrder(p)'
  BY DEF Consecutive
<1>1. corpus' = corpus
  BY DEF Next, Step, Refuse, Ask, Skip, Leave, PassBytes, Collect, FileSearched, ReplyTooLarge,
         Reply, TimeOut, vars
<1>2. p \in Patterns /\ Matches(p)' = Matches(p) /\ corpus \in Corpora /\ offset \in Nat
  BY <1>1, SameCorpus DEF TypeOK
<1>3. OnlyRows(p)
  BY <1>2 DEF OnlyRows
<1>4. ~cut
  BY NotReply DEF Reply
<1>5. InOrder(p)
  BY <1>2, <1>3, <1>4 DEF Consecutive
<1>6. CASE ~Reply
  BY <1>2, <1>5, <1>6, NotReply DEF InOrder
<1>7. CASE Reply
  <2> DEFINE ms == Matches(p)
             n == Len(ms)
             g == got[p]
             h == got'[p]
             w == RowsPast(p)
             r == RowsOf(p, Kept(Page))
  <2>1. ms \in Seq(Match) /\ n \in Nat /\ n \in 0 .. Len(ms) /\ \A k \in 1 .. n : IsRow(ms[k])
    <3>1. ms \in Seq(Match)
      BY <1>2, MatchesFacts
    <3>2. n \in Nat /\ DOMAIN ms = 1 .. n
      BY <3>1
    <3> QED BY <1>3, <3>1, <3>2 DEF OnlyRows
  <2>2. /\ Len(g) <= n /\ \A i \in 1 .. Len(g) : g[i] = ms[i]
        /\ Len(g) = Lesser(offset, n) /\ Len(g) \in Nat
    <3>1. phase # "done" /\ DOMAIN g = 1 .. Len(g) /\ Len(g) \in Nat
      BY <1>2, <1>7, GotFacts DEF Reply, WalkOver
    <3> QED BY <1>5, <3>1 DEF InOrder
  <2>3. /\ Len(g) \in Nat /\ Len(r) \in Nat /\ Len(h) = Len(g) + Len(r)
        /\ DOMAIN h = 1 .. Len(g) + Len(r)
        /\ \A i \in 1 .. Len(g) : h[i] = g[i]
        /\ \A i \in 1 .. Len(r) : h[Len(g) + i] = r[i]
    BY <1>2, <1>7, GotFacts
  <2>4. /\ w \in Seq(Match)
        /\ \A i \in 1 .. Len(r) : i \in 1 .. Len(w) /\ r[i] = w[i]
        /\ \/ phase' = "done" /\ Len(r) = Len(w)
           \/ /\ phase' = "asking" /\ offset' \in Nat /\ offset' >= offset
              /\ Len(r) = Lesser(offset' - offset, Len(w))
    BY <1>2, <1>7, ReplyRows
  <2>5. n <= offset => Len(w) = 0
    <3>1. n <= offset => w = <<>>
      BY <1>2, <2>1, RowsUnfold DEF RowsPast
    <3> QED BY <3>1
  <2>6. n >= offset => Len(w) = n - offset /\ \A i \in 1 .. n - offset : w[i] = ms[offset + i]
    BY <1>2, <2>1, RowsAll DEF RowsPast
  <2> HIDE DEF ms, g, h, w, r
  <2> DEFINE a == Len(g)
             b == Len(r)
             c == Len(w)
  <2>7. /\ a \in Nat /\ b \in Nat /\ n \in Nat /\ offset \in Nat
        /\ a = Lesser(offset, n) /\ c = (IF n >= offset THEN n - offset ELSE 0)
        /\ \/ phase' = "done" /\ b = c
           \/ /\ phase' = "asking" /\ offset' \in Nat /\ offset' >= offset
              /\ b = Lesser(offset' - offset, c)
    BY <1>2, <2>1, <2>2, <2>3, <2>4, <2>5, <2>6
  <2> HIDE DEF a, b, c, n
  <2>8. a + b <= n /\ (phase' # "done" => a + b = Lesser(offset', n)) /\ (b > 0 => a = offset /\ n >= offset)
    BY <2>7 DEF Lesser
  <2>9. ASSUME NEW i \in DOMAIN h PROVE h[i] = ms[i]
    <3>1. i \in 1 .. a + b
      BY <2>3 DEF a, b
    <3>2. CASE i <= a
      BY <2>2, <2>3, <2>7, <3>1, <3>2 DEF a
    <3>3. CASE i > a
      <4>1. i - a \in 1 .. b /\ a + (i - a) = i /\ b > 0
        BY <2>7, <3>1, <3>3
      <4>2. h[i] = w[i - a] /\ i - a \in 1 .. c
        BY <2>3, <2>4, <4>1 DEF a, b, c
      <4>3. a = offset /\ n >= offset
        BY <2>8, <4>1
      <4>4. i - a \in 1 .. n - offset /\ offset + (i - a) = i
        BY <2>7, <4>1, <4>2, <4>3
      <4> QED BY <2>6, <4>2, <4>3, <4>4 DEF n
    <3> QED BY <2>7, <3>1, <3>2, <3>3
  <2>10. Len(h) <= n /\ (phase' # "done" => Len(h) = Lesser(offset', n))
    BY <2>3, <2>8 DEF a, b
  <2> QED BY <1>2, <2>9, <2>10 DEF InOrder, h, ms, n
<1> QED BY <1>6, <1>7

-----------------------------------------------------------------------------
(* Theorems. *)

\* In every state the types are right, the walk has gathered for every pattern
\* what its first matches define, and the client has received what they say.
THEOREM Correctness == Spec => []Inv
<1>1. Init => Inv
  <2> SUFFICES ASSUME Init PROVE Inv
    OBVIOUS
  <2>1. TypeOK /\ Position /\ PagesSoFar
    BY TypeInit DEF Init, Position, PagesSoFar
  <2>2. ASSUME NEW p \in Patterns
        PROVE  /\ Received(p) /\ got[p] = <<>> /\ Matches(p) \in Seq(Match)
               /\ Len(got[p]) = Lesser(offset, Len(Matches(p)))
    <3>1. Matches(p) \in Seq(Match) /\ offset = 0 /\ phase = "asking" /\ got[p] = <<>>
      BY <2>1, MatchesFacts DEF Init, TypeOK, Nothing
    <3>2. DOMAIN Matches(p) = 1 .. Len(Matches(p)) /\ Len(Matches(p)) \in Nat
      BY <3>1
    <3>3. DOMAIN got[p] = {} /\ Len(got[p]) = 0
      BY <3>1
    <3>4. \A k \in DOMAIN Matches(p) : ~(k <= offset)
      BY <3>1, <3>2
    <3>5. Lesser(offset, Len(Matches(p))) = 0
      BY <3>1, <3>2 DEF Lesser
    <3> QED BY <3>1, <3>3, <3>4, <3>5 DEF Received
  <2>3. ASSUME NEW p \in Patterns PROVE InOrder(p)
    <3>1. Len(Matches(p)) \in Nat /\ Len(got[p]) = 0 /\ DOMAIN got[p] = {}
      BY <2>2
    <3> QED BY <2>2, <3>1 DEF InOrder
  <2> QED BY <2>1, <2>2, <2>3 DEF Inv, ReceivedAll, Consecutive
<1>2. Inv /\ [Next]_vars => Inv'
  BY TypeStep, PositionStep, PagesStep, ReceivedStep, ConsecutiveStep DEF Inv
<1> QED BY <1>1, <1>2, PTL DEF Spec

\* What every variable holds.
THEOREM TypeCorrect == Spec => []TypeOK
<1>1. Inv => TypeOK
  BY DEF Inv
<1> QED BY <1>1, Correctness, PTL

\* Several patterns in one call get the pages each would get alone.
THEOREM BatchEqualsSingleAlways == Spec => []BatchEqualsSingle
<1>1. Inv => BatchEqualsSingle
  BY BatchHolds DEF Inv
<1> QED BY <1>1, Correctness, PTL

\* Following next_offset to the end misses no row.
THEOREM NothingLostAlways == Spec => []NothingLost
<1>1. Inv => NothingLost
  <2> SUFFICES ASSUME Inv, phase = "done", ~cut, NEW p \in Patterns
               PROVE  ToSet(got[p]) = ToSet(Rows(p))
    BY DEF NothingLost
  <2> DEFINE ms == Matches(p)
             n == Len(ms)
             g == got[p]
             w == Rows(p)
  <2>1. ms \in Seq(Match) /\ g \in Seq(Match)
    BY MatchesFacts DEF Inv, TypeOK
  <2>2. n \in Nat /\ n \in 0 .. Len(ms) /\ DOMAIN ms = 1 .. n
    BY <2>1
  <2>3. w \in Seq(Match)
    BY <2>1, <2>2, RowsUnfold DEF Rows
  <2>4. DOMAIN w = 1 .. Len(w)
    BY <2>3
  <2>5. w = RowsAfter(ms, 0)[n] /\ 0 \in Nat
    BY DEF Rows
  <2>7. /\ \A i \in DOMAIN g : \E k \in DOMAIN ms : g[i] = ms[k] /\ IsRow(ms[k])
        /\ \A k \in DOMAIN ms : IsRow(ms[k]) => \E i \in DOMAIN g : g[i] = ms[k]
    BY DEF Inv, ReceivedAll, Received
  <2> HIDE DEF ms, n, g, w
  <2>6. \A i \in 1 .. Len(w) : \E k \in 1 .. n : IsRow(ms[k]) /\ w[i] = ms[k]
    <3>1. Matched(w, ms, 0, n)
      BY <2>1, <2>2, <2>5, RowsFrom
    <3> QED BY <3>1 DEF Matched
  <2>8. \A k \in 1 .. n : IsRow(ms[k]) => \E i \in 1 .. Len(w) : w[i] = ms[k]
    <3>1. \A k \in 1 .. n : k > 0
      BY <2>2
    <3>2. ASSUME NEW k \in 1 .. n, IsRow(ms[k]) PROVE HasMatch(w, ms, 0, k)
      BY <2>1, <2>2, <2>5, <3>1, <3>2, RowsHold
    <3> QED BY <3>2 DEF HasMatch
  <2>9. ASSUME NEW i \in DOMAIN g PROVE g[i] \in ToSet(w)
    <3>1. PICK k \in 1 .. n : g[i] = ms[k] /\ IsRow(ms[k])
      BY <2>2, <2>7
    <3>2. PICK j \in 1 .. Len(w) : w[j] = ms[k]
      BY <2>8, <3>1
    <3> QED BY <2>4, <3>1, <3>2 DEF ToSet
  <2>10. ASSUME NEW i \in DOMAIN w PROVE w[i] \in ToSet(g)
    <3>1. PICK k \in 1 .. n : IsRow(ms[k]) /\ w[i] = ms[k]
      BY <2>4, <2>6
    <3>2. PICK j \in DOMAIN g : g[j] = ms[k]
      BY <2>2, <2>7, <3>1
    <3> QED BY <3>1, <3>2 DEF ToSet
  <2>11. ToSet(g) = ToSet(w)
    BY <2>9, <2>10 DEF ToSet
  <2> QED BY <2>11 DEF g, w
<1> QED BY <1>1, Correctness, PTL

\* Where every match is UTF-8 the pages follow one another exactly.
THEOREM PagesFollowAlways == Spec => []PagesFollow
<1>1. Inv => PagesFollow
  <2> SUFFICES ASSUME Inv, ~cut, NEW p \in Patterns, Rows(p) = Matches(p)
               PROVE  IsPrefix(got[p], Rows(p))
    BY DEF PagesFollow
  <2> DEFINE ms == Matches(p)
             n == Len(ms)
             g == got[p]
  <2>1. ms \in Seq(Match) /\ g \in Seq(Match)
    BY MatchesFacts DEF Inv, TypeOK
  <2>2. n \in Nat /\ n \in 0 .. Len(ms) /\ DOMAIN ms = 1 .. n
    BY <2>1
  <2>3. ms = RowsAfter(ms, 0)[n] /\ n = Len(ms) /\ 0 \in Nat
    BY DEF Rows
  <2>4. OnlyRows(p)
    <3> HIDE DEF ms, n
    <3>1. Matched(ms, ms, 0, n)
      BY <2>1, <2>2, <2>3, RowsFrom
    <3>2. \A i \in DOMAIN ms : IsRow(ms[i])
      <4>1. \A i \in 1 .. n : \E k \in 1 .. n : IsRow(ms[k]) /\ ms[i] = ms[k]
        BY <2>3, <3>1 DEF Matched
      <4> QED BY <2>2, <4>1
    <3> QED BY <3>2 DEF OnlyRows, ms
  <2>5. Len(g) <= n /\ \A i \in DOMAIN g : g[i] = ms[i]
    BY <2>4 DEF Inv, Consecutive, InOrder
  <2> HIDE DEF ms, n, g
  <2>6. Len(g) \in Nat /\ DOMAIN g = 1 .. Len(g) /\ n = Len(ms)
    BY <2>1 DEF n
  <2>7. IsPrefix(g, ms)
    <3> DEFINE c == Len(g)
               s == SubSeq(g, 1, c)
               t == SubSeq(ms, 1, c)
    <3>1. \A i \in 1 .. c : g[i] \in Match /\ ms[i] \in Match
      BY <2>1, <2>5, <2>6
    <3>2. c \in Nat
      BY <2>6
    <3> HIDE DEF c
    <3>3. /\ s \in Seq(Match) /\ Len(s) = (IF 1 <= c THEN c - 1 + 1 ELSE 0)
          /\ \A i \in 1 .. c - 1 + 1 : s[i] = g[1 + i - 1]
      BY <3>1, <3>2, SubSeqProperties
    <3>4. /\ t \in Seq(Match) /\ Len(t) = (IF 1 <= c THEN c - 1 + 1 ELSE 0)
          /\ \A i \in 1 .. c - 1 + 1 : t[i] = ms[1 + i - 1]
      BY <3>1, <3>2, SubSeqProperties
    <3> HIDE DEF s, t
    <3>5. Len(s) = c /\ Len(t) = c /\ \A i \in 1 .. c : s[i] = g[i] /\ t[i] = ms[i]
      BY <3>2, <3>3, <3>4
    <3>6. s = t
      <4>1. \A i \in 1 .. Len(s) : s[i] = t[i]
        BY <2>5, <2>6, <3>5 DEF c
      <4> QED BY <3>3, <3>4, <3>5, <4>1, SeqEqual
    <3> QED BY <2>5, <2>6, <3>6 DEF IsPrefix, s, t, c
  <2> QED BY <2>7 DEF g, ms
<1> QED BY <1>1, Correctness, PTL

=============================================================================
