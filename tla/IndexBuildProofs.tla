--------------------------- MODULE IndexBuildProofs ---------------------------
(***************************************************************************)
(* Theorems of IndexBuild, for any corpus, batch size, number of workers   *)
(* and ceilings: the types, ListedOrder, AbsenceSaid and LikeOneThread.    *)
(***************************************************************************)
EXTENDS IndexBuild, WellFoundedInduction, TLAPS

Item == [at : Nat, outcome : {"parsed", "failed", "unread"}]
Coverage == [indexed : Nat, skipped : Nat, partial : Nat, truncated : BOOLEAN]

TypeOK ==
    /\ eligible \in Seq(File) /\ keep \in BOOLEAN
    /\ late \in BOOLEAN /\ inTime \in BOOLEAN
    /\ phase \in {"parsing", "merging", "done", "panicked"}
    /\ from \in 0 .. Len(eligible)
    /\ phase = "parsing" => slices \in [Threads(from) -> Seq(Item)]
    /\ panicked \subseteq Nat /\ joined \in Nat
    /\ parsed \in Seq(Item)
    /\ index \in Seq(Nat) /\ coverage \in Coverage
    /\ bytes \in Nat /\ records \in Nat
    /\ lost \subseteq Nat

\* The last place of the slices of the first t threads.
Size == BatchLen(from)
UpTo(t) == from + (IF t * Stride(Size) <= Size THEN t * Stride(Size) ELSE Size)

\* The eligible files whose outcome the caller has.
Reach ==
    CASE phase = "parsing" -> UpTo(joined)
      [] phase = "merging" -> from + Size
      [] OTHER -> from

\* An outcome says of its file what is true of it, or the deadline has passed.
Honest(item) ==
    /\ item.at \in Places
    /\ item.outcome = "unread" => ~eligible[item.at].read
    /\ item.outcome = "failed" => eligible[item.at].read /\ (late \/ eligible[item.at].parse = "fails")
    /\ item.outcome = "parsed" => eligible[item.at].read /\ eligible[item.at].parse \notin {"fails", "panics"}

\* Where the build is: a batch is at hand until it is over.
Position ==
    /\ phase \in {"parsing", "merging"} => from < Len(eligible)
    /\ phase = "parsing" => joined + 1 \in Threads(from)
    /\ phase = "done" => from = Len(eligible) /\ parsed = <<>>
    /\ phase = "panicked" => parsed = <<>> /\ lost # {}
    /\ ~inTime => late
    /\ coverage.indexed = Len(index)

\* What the threads of the batch have: the files of their slices, in order.
SlicesHonest ==
    phase = "parsing" =>
        /\ \A t \in Threads(from) :
             /\ Len(slices[t]) <= Len(Slice(t))
             /\ \A k \in DOMAIN slices[t] : slices[t][k].at = Slice(t)[k] /\ Honest(slices[t][k])
        /\ \A t \in panicked : t \in Threads(from) => ToSet(Slice(t)) \subseteq lost
        /\ panicked # {} => lost # {}

\* What is joined waits in the order of the files, behind all that is merged.
InOrder ==
    /\ \A k \in DOMAIN parsed :
         /\ Honest(parsed[k]) /\ parsed[k].at <= Reach
         /\ phase = "parsing" => from < parsed[k].at
         /\ \A j \in 1 .. k - 1 : parsed[j].at < parsed[k].at
         /\ \A j \in DOMAIN index : index[j] < parsed[k].at
    /\ \A j \in DOMAIN index : index[j] <= (IF phase = "parsing" THEN from ELSE Reach)
    /\ ListedOrder

\* Why a file is not in the index.
Excused(i) ==
    i \in lost \/ ~eligible[i].read \/ eligible[i].parse = "fails" \/ coverage.truncated

\* No file the caller is past has got lost on the way.
Accounted ==
    \A i \in 1 .. Reach :
        \/ \E j \in DOMAIN index : index[j] = i
        \/ \E k \in DOMAIN parsed : parsed[k].at = i
        \/ Excused(i)

\* While the clock has not run out and no thread has panicked, all that is not
\* merged is at hand, and what is merged is what one thread makes of it.
Merged == Reach - Len(parsed)
SoFarAlike ==
    ~late /\ lost = {} =>
        /\ Merged \in 0 .. Len(eligible)
        /\ \A k \in DOMAIN parsed : parsed[k].at = Merged + k
        /\ [index |-> index, bytes |-> bytes, records |-> records] = OneThread(eligible, keep)[Merged]

Inv == TypeOK /\ Position /\ SlicesHonest /\ InOrder /\ Accounted /\ SoFarAlike
-----------------------------------------------------------------------------
(* Induction, as a fact about sets of numbers. *)

\* A set of numbers that is not empty has a least one.
LEMMA Least ==
    ASSUME NEW T, T \subseteq Nat, T # {}
    PROVE  \E x \in T : \A y \in T : x <= y
<1> DEFINE Less == {p \in Nat \X Nat : p[1] < p[2]}
<1>1. IsWellFoundedOn(Less, Nat)
  BY NatLessThanWellFounded DEF OpToRel
<1> HIDE DEF Less
<1>2. PICK x \in T : \A y \in T : ~ (<<y, x>> \in Less)
  BY <1>1, WFMin
<1>3. ASSUME NEW y \in T PROVE x <= y
  <2>1. x \in Nat /\ y \in Nat
    OBVIOUS
  <2>2. CASE y < x
    <3>1. <<y, x>> \in Less
      BY <2>1, <2>2 DEF Less
    <3> QED BY <1>2, <3>1
  <2> QED BY <2>1, <2>2
<1> QED BY <1>3

\* One that has 0, and with every number the next one, has them all.
LEMMA Induction ==
    ASSUME NEW T, T \subseteq Nat, 0 \in T, \A n \in T : n + 1 \in T
    PROVE  T = Nat
<1> SUFFICES ASSUME T # Nat PROVE FALSE
  OBVIOUS
<1>1. PICK x \in Nat \ T : \A y \in Nat \ T : x <= y
  BY Least
<1>2. x # 0 /\ x - 1 \in Nat
  BY <1>1
<1>3. x - 1 \in T
  BY <1>1, <1>2
<1> QED BY <1>1, <1>2, <1>3

-----------------------------------------------------------------------------
(* How a batch is cut into slices. *)

LEMMA LesserOf ==
    ASSUME NEW a \in Nat, NEW b \in Nat
    PROVE  Min({a, b}) = IF a <= b THEN a ELSE b
  BY DEF Min

\* div_ceil: enough strides to hold n, and the last of them is needed.
LEMMA Ceiling ==
    ASSUME NEW n \in Nat \ {0}, NEW s \in Nat \ {0}
    PROVE  LET c == (n + s - 1) \div s IN
           c \in Nat \ {0} /\ c * s >= n /\ (c - 1) * s < n
  OBVIOUS

LEMMA SizeFacts ==
    ASSUME TypeOK, from < Len(eligible)
    PROVE  /\ Size \in Nat \ {0} /\ from \in Nat /\ Len(eligible) \in Nat
           /\ from + Size <= Len(eligible)
           /\ Stride(Size) \in Nat \ {0}
<1>1. from \in Nat /\ Len(eligible) \in Nat /\ Len(eligible) - from \in Nat \ {0}
  BY DEF TypeOK
<1>2. BatchSize \in Nat \ {0} /\ Workers \in Nat \ {0}
  BY BuildAssumption
<1>3. Size = IF BatchSize <= Len(eligible) - from THEN BatchSize ELSE Len(eligible) - from
  BY <1>1, <1>2, LesserOf DEF Size, BatchLen
<1>4. Size \in Nat \ {0} /\ from + Size <= Len(eligible)
  BY <1>1, <1>2, <1>3
<1>5. Stride(Size) \in Nat \ {0}
  BY <1>2, <1>4, Ceiling DEF Stride
<1> QED BY <1>1, <1>4, <1>5

LEMMA ThreadFacts ==
    ASSUME TypeOK, from < Len(eligible)
    PROVE  \E c \in Nat \ {0} : /\ Threads(from) = 1 .. c
                                /\ c * Stride(Size) >= Size /\ (c - 1) * Stride(Size) < Size
<1> DEFINE c == (Size + Stride(Size) - 1) \div Stride(Size)
<1>1. Size \in Nat \ {0} /\ Stride(Size) \in Nat \ {0}
  BY SizeFacts
<1>2. c \in Nat \ {0} /\ c * Stride(Size) >= Size /\ (c - 1) * Stride(Size) < Size
  BY <1>1, Ceiling
<1>3. Threads(from) = 1 .. c
  BY DEF Threads, Size
<1> QED BY <1>2, <1>3
\* Every thread has files, from where the slice before it ends to where its own
\* does; the last slice ends with the batch.
LEMMA UpToFacts ==
    ASSUME TypeOK, from < Len(eligible)
    PROVE  /\ UpTo(0) = from
           /\ \A t \in Threads(from) :
                /\ t \in Nat \ {0} /\ UpTo(t - 1) \in Nat /\ UpTo(t) \in Nat
                /\ UpTo(t - 1) = from + (t - 1) * Stride(Size)
                /\ from <= UpTo(t - 1) /\ UpTo(t - 1) < UpTo(t) /\ UpTo(t) <= from + Size
                /\ t + 1 \notin Threads(from) => UpTo(t) = from + Size
<1> DEFINE n == Size
           s == Stride(Size)
<1>1. n \in Nat \ {0} /\ s \in Nat \ {0} /\ from \in Nat
  BY SizeFacts
<1>2. PICK c \in Nat \ {0} : Threads(from) = 1 .. c /\ c * s >= n /\ (c - 1) * s < n
  BY ThreadFacts
<1>3. \A t : UpTo(t) = from + (IF t * s <= n THEN t * s ELSE n)
  BY DEF UpTo
<1> HIDE DEF n, s
<1>4. UpTo(0) = from
  BY <1>1, <1>3
<1>5. ASSUME NEW t \in Threads(from)
      PROVE  /\ t \in Nat \ {0} /\ UpTo(t - 1) \in Nat /\ UpTo(t) \in Nat
             /\ UpTo(t - 1) = from + (t - 1) * s
             /\ from <= UpTo(t - 1) /\ UpTo(t - 1) < UpTo(t) /\ UpTo(t) <= from + n
             /\ t + 1 \notin Threads(from) => UpTo(t) = from + n
  <2>1. t \in Nat \ {0} /\ t <= c /\ (t + 1 \notin Threads(from) => t = c)
    BY <1>2
  <2>2. PICK a \in Nat : a = (t - 1) * s
    BY <1>1, <2>1
  <2>3. t * s = a + s /\ a <= (c - 1) * s
    BY <1>1, <1>2, <2>1, <2>2
  <2>4. a < n
    BY <1>1, <1>2, <2>2, <2>3
  <2>5. UpTo(t - 1) = from + a
    BY <1>1, <1>3, <2>2, <2>4
  <2>6. UpTo(t) = from + (IF a + s <= n THEN a + s ELSE n)
    BY <1>3, <2>3
  <2>7. t = c => UpTo(t) = from + n
    BY <1>1, <1>2, <2>3, <2>6
  <2> QED BY <1>1, <2>1, <2>2, <2>4, <2>5, <2>6, <2>7
<1> QED BY <1>4, <1>5 DEF n, s

LEMMA SliceFacts ==
    ASSUME TypeOK, from < Len(eligible), NEW t \in Threads(from)
    PROVE  /\ Slice(t) \in Seq(Nat) /\ DOMAIN Slice(t) = 1 .. Len(Slice(t))
           /\ Len(Slice(t)) \in Nat \ {0}
           /\ Len(Slice(t)) = UpTo(t) - UpTo(t - 1)
           /\ \A k \in DOMAIN Slice(t) : Slice(t)[k] = UpTo(t - 1) + k /\ Slice(t)[k] \in Places
<1>1. /\ Size \in Nat \ {0} /\ Stride(Size) \in Nat \ {0} /\ from \in Nat
      /\ from + Size <= Len(eligible) /\ Len(eligible) \in Nat
  BY SizeFacts
<1>2. /\ t \in Nat \ {0} /\ UpTo(t - 1) \in Nat /\ UpTo(t) \in Nat
      /\ UpTo(t - 1) = from + (t - 1) * Stride(Size)
      /\ UpTo(t - 1) < UpTo(t) /\ UpTo(t) <= from + Size
  BY UpToFacts
<1>3. PICK a \in Nat : a = (t - 1) * Stride(Size)
  BY <1>1, <1>2
<1>4. UpTo(t) = from + (IF a + Stride(Size) <= Size THEN a + Stride(Size) ELSE Size)
  <2>1. t * Stride(Size) = a + Stride(Size)
    BY <1>1, <1>2, <1>3
  <2> QED BY <2>1 DEF UpTo
<1>a. UpTo(t - 1) = from + a /\ a < Size
  BY <1>1, <1>2, <1>3
<1>5. Min({Stride(Size), Size - a}) = UpTo(t) - UpTo(t - 1) /\ UpTo(t) - UpTo(t - 1) \in Nat \ {0}
  <2>1. Size - a \in Nat
    BY <1>1, <1>3, <1>a
  <2>2. Min({Stride(Size), Size - a}) = IF Stride(Size) <= Size - a THEN Stride(Size) ELSE Size - a
    BY <1>1, <2>1, LesserOf
  <2>3. UpTo(t) - UpTo(t - 1) = IF Stride(Size) <= Size - a THEN Stride(Size) ELSE Size - a
    BY <1>1, <1>3, <1>4, <1>a
  <2> QED BY <1>1, <1>3, <1>a, <2>2, <2>3
<1>6. Slice(t) = [k \in 1 .. UpTo(t) - UpTo(t - 1) |-> from + a + k]
  BY <1>3, <1>5 DEF Slice, Size
<1> DEFINE l == UpTo(t) - UpTo(t - 1)
<1>7. l \in Nat \ {0} /\ Slice(t) = [k \in 1 .. l |-> from + a + k]
  BY <1>5, <1>6
<1>8. \A k \in 1 .. l : from + a + k \in Nat
  BY <1>1, <1>7
<1>9. Slice(t) \in Seq(Nat) /\ Len(Slice(t)) = l /\ DOMAIN Slice(t) = 1 .. l
  <2> HIDE DEF l
  <2> QED BY <1>7, <1>8
<1>10. ASSUME NEW k \in 1 .. l PROVE Slice(t)[k] = UpTo(t - 1) + k /\ Slice(t)[k] \in Places
  <2>1. Slice(t)[k] = from + a + k
    BY <1>7
  <2>2. UpTo(t - 1) + k \in 1 .. Len(eligible)
    <3>1. k \in Nat \ {0} /\ k <= UpTo(t) - UpTo(t - 1)
      BY <1>7
    <3> HIDE DEF l
    <3> QED BY SMTT(30), <1>1, <1>2, <3>1
  <2>3. Places = 1 .. Len(eligible)
    BY DEF Places, TypeOK
  <2> QED BY <1>a, <2>1, <2>2, <2>3
<1> QED BY <1>7, <1>9, <1>10
-----------------------------------------------------------------------------
(* What one thread builds. *)

NothingBuilt == [index |-> <<>>, bytes |-> 0, records |-> 0]

\* The recursion that OneThread is defined by has a solution: OneThread is it.
LEMMA OneThreadGoesOn ==
    ASSUME NEW files, Len(files) \in Nat, NEW kept
    PROVE  /\ OneThread(files, kept)[0] = NothingBuilt
           /\ \A n \in 1 .. Len(files) :
                OneThread(files, kept)[n] = MergeOne(files, kept, OneThread(files, kept)[n - 1], n)
<1> DEFINE Body(g, n) == IF n = 0 THEN NothingBuilt ELSE MergeOne(files, kept, g[n - 1], n)
           Solved == {m \in Nat : \E g : g = [n \in 0 .. m |-> Body(g, n)]}
<1>1. 0 \in Solved
  <2> DEFINE g == [n \in 0 .. 0 |-> NothingBuilt]
  <2>1. \A n \in 0 .. 0 : Body(g, n) = NothingBuilt
    OBVIOUS
  <2>2. g = [n \in 0 .. 0 |-> Body(g, n)]
    BY <2>1
  <2> HIDE DEF g, Body
  <2> QED BY <2>2
<1>2. ASSUME NEW m \in Solved PROVE m + 1 \in Solved
  <2>1. PICK g : g = [n \in 0 .. m |-> Body(g, n)]
    OBVIOUS
  <2>2. m \in Nat /\ m + 1 \in Nat
    OBVIOUS
  <2> DEFINE h == [n \in 0 .. m + 1 |-> IF n <= m THEN g[n] ELSE MergeOne(files, kept, g[m], m + 1)]
  <2>3. \A n \in 0 .. m : h[n] = g[n]
    BY <2>2
  <2>4. ASSUME NEW n \in 0 .. m + 1 PROVE h[n] = Body(h, n)
    <3>1. CASE n = 0
      <4>1. h[n] = g[0] /\ g[0] = Body(g, 0)
        BY <2>1, <2>2, <3>1
      <4> QED BY <3>1, <4>1
    <3>2. CASE n \in 1 .. m
      <4>1. h[n] = g[n] /\ g[n] = Body(g, n)
        BY <2>1, <2>2, <2>3, <3>2
      <4>2. n # 0 /\ n - 1 \in 0 .. m
        BY <2>2, <3>2
      <4>3. h[n - 1] = g[n - 1]
        BY <2>3, <4>2
      <4> HIDE DEF h
      <4> QED BY <4>1, <4>2, <4>3
    <3>3. CASE n = m + 1
      <4>1. h[n] = MergeOne(files, kept, g[m], m + 1)
        BY <2>2, <3>3
      <4>2. h[m] = g[m] /\ n # 0 /\ n - 1 = m
        BY <2>2, <2>3, <3>3
      <4> HIDE DEF h
      <4> QED BY <3>3, <4>1, <4>2
    <3> QED BY <2>2, <3>1, <3>2, <3>3
  <2>5. h = [n \in 0 .. m + 1 |-> h[n]]
    OBVIOUS
  <2> HIDE DEF h, Body
  <2>6. h = [n \in 0 .. m + 1 |-> Body(h, n)]
    BY <2>4, <2>5
  <2> QED BY <2>2, <2>6
<1>3. Solved = Nat
  <2>1. Solved \subseteq Nat
    OBVIOUS
  <2> HIDE DEF Solved
  <2> QED BY <1>1, <1>2, <2>1, Induction
<1> DEFINE f == OneThread(files, kept)
<1>4. \E g : g = [n \in 0 .. Len(files) |-> Body(g, n)]
  <2> HIDE DEF Body
  <2> QED BY <1>3
<1>5. f = CHOOSE g : g = [n \in 0 .. Len(files) |-> Body(g, n)]
  BY DEF OneThread, NothingBuilt
<1>6. f = [n \in 0 .. Len(files) |-> Body(f, n)]
  <2> HIDE DEF f, Body
  <2> QED BY <1>4, <1>5
<1>7. \A n \in 0 .. Len(files) : f[n] = Body(f, n)
  <2> HIDE DEF f, Body
  <2> QED BY <1>6
<1> HIDE DEF f
<1>8. f[0] = NothingBuilt
  BY <1>7
<1>9. ASSUME NEW n \in 1 .. Len(files) PROVE f[n] = MergeOne(files, kept, f[n - 1], n)
  <2>1. n \in 0 .. Len(files) /\ n # 0
    OBVIOUS
  <2> QED BY <1>7, <2>1
<1> QED BY <1>8, <1>9 DEF f
-----------------------------------------------------------------------------
(* Sequences, and what the steps of a build are made of. *)

\* A longer sequence is the old one and one thing more, at the end.
LEMMA Appended ==
    ASSUME NEW S, NEW s \in Seq(S), NEW e \in S
    PROVE  /\ Append(s, e) \in Seq(S) /\ Len(s) \in Nat
           /\ DOMAIN s = 1 .. Len(s) /\ DOMAIN Append(s, e) = 1 .. Len(s) + 1
           /\ Len(Append(s, e)) = Len(s) + 1
           /\ Append(s, e)[Len(s) + 1] = e
           /\ \A j \in 1 .. Len(s) : Append(s, e)[j] = s[j]
  OBVIOUS

\* What is left of a sequence is what was in it, one place further on.
LEMMA Popped ==
    ASSUME NEW S, NEW s \in Seq(S), s # <<>>
    PROVE  /\ Tail(s) \in Seq(S) /\ Head(s) \in S
           /\ 1 \in DOMAIN s /\ Head(s) = s[1]
           /\ Len(Tail(s)) = Len(s) - 1 /\ Len(s) \in Nat \ {0}
           /\ DOMAIN s = 1 .. Len(s) /\ DOMAIN Tail(s) = 1 .. Len(s) - 1
           /\ \A i \in DOMAIN Tail(s) : i + 1 \in DOMAIN s /\ Tail(s)[i] = s[i + 1]
  OBVIOUS

LEMMA Joining ==
    ASSUME NEW S, NEW s \in Seq(S), NEW t \in Seq(S)
    PROVE  /\ s \o t \in Seq(S) /\ Len(s \o t) = Len(s) + Len(t)
           /\ Len(s) \in Nat /\ Len(t) \in Nat
           /\ DOMAIN s = 1 .. Len(s) /\ DOMAIN t = 1 .. Len(t)
           /\ DOMAIN (s \o t) = 1 .. Len(s) + Len(t)
           /\ \A i \in 1 .. Len(s) : (s \o t)[i] = s[i]
           /\ \A i \in 1 .. Len(t) : (s \o t)[Len(s) + i] = t[i]
           /\ \A i \in DOMAIN (s \o t) : i > Len(s) =>
                i - Len(s) \in 1 .. Len(t) /\ (s \o t)[i] = t[i - Len(s)]
  OBVIOUS

LEMMA Emptied ==
    ASSUME NEW S, NEW s \in Seq(S), DOMAIN s = {}
    PROVE  s = <<>>
  OBVIOUS

LEMMA ElementIn ==
    ASSUME NEW S, NEW s \in Seq(S)
    PROVE  \A i \in DOMAIN s : s[i] \in S
  OBVIOUS

LEMMA FileAt ==
    ASSUME TypeOK, NEW i \in Places
    PROVE  eligible[i] \in File /\ i \in Nat
<1>1. eligible \in Seq(File)
  BY DEF TypeOK
<1>2. eligible[i] \in File
  BY <1>1, ElementIn DEF Places
<1>3. Places = 1 .. Len(eligible) /\ Len(eligible) \in Nat
  BY <1>1 DEF Places
<1> QED BY <1>2, <1>3

LEMMA WaitingItems ==
    ASSUME TypeOK
    PROVE  /\ parsed \in Seq(Item) /\ Len(parsed) \in Nat /\ DOMAIN parsed = 1 .. Len(parsed)
           /\ \A k \in DOMAIN parsed : parsed[k] \in Item /\ parsed[k].at \in Nat
           /\ index \in Seq(Nat) /\ Len(index) \in Nat /\ DOMAIN index = 1 .. Len(index)
           /\ \A j \in DOMAIN index : index[j] \in Nat
<1>1. parsed \in Seq(Item) /\ index \in Seq(Nat)
  BY DEF TypeOK
<1>2. \A k \in DOMAIN parsed : parsed[k] \in Item
  BY <1>1, ElementIn
<1>3. \A item \in Item : item.at \in Nat
  BY DEF Item
<1>4. Len(parsed) \in Nat /\ DOMAIN parsed = 1 .. Len(parsed)
  BY <1>1
<1> QED BY <1>1, <1>2, <1>3, <1>4

\* The batch at hand, and what is honest, depend on the files and the clock.
LEMMA SameBatch ==
    ASSUME UNCHANGED <<eligible, from>>
    PROVE  /\ Size' = Size /\ Threads(from)' = Threads(from) /\ Places' = Places
           /\ \A t : UpTo(t)' = UpTo(t)
           /\ \A t : Slice(t)' = Slice(t)
  BY DEF Size, BatchLen, Threads, UpTo, Slice, Places

LEMMA HonestStays ==
    ASSUME eligible' = eligible, late => late', NEW item, Honest(item)
    PROVE  Honest(item)'
  BY DEF Honest, Places

\* A thread parses the next file of its slice, and its outcome is honest.
LEMMA ParseFileFacts ==
    ASSUME TypeOK, Position, NEW t, ParseFile(t)
    PROVE  /\ phase = "parsing" /\ from < Len(eligible)
           /\ t \in Threads(from) \ panicked /\ Len(slices[t]) < Len(Slice(t))
           /\ \E item \in Item :
                /\ slices' = [slices EXCEPT ![t] = Append(slices[t], item)]
                /\ item.at = Slice(t)[Len(slices[t]) + 1] /\ Honest(item)
<1>1. /\ phase = "parsing" /\ t \in Threads(from) \ panicked /\ Len(slices[t]) < Len(Slice(t))
  BY DEF ParseFile, AtFile
<1>2. from < Len(eligible)
  BY <1>1 DEF Position
<1>3. slices[t] \in Seq(Item)
  BY <1>1 DEF TypeOK
<1>4. Len(slices[t]) + 1 \in DOMAIN Slice(t)
  <2>1. Len(Slice(t)) \in Nat /\ DOMAIN Slice(t) = 1 .. Len(Slice(t))
    BY <1>1, <1>2, SliceFacts
  <2>2. Len(slices[t]) \in Nat
    BY <1>3
  <2> QED BY <1>1, <2>1, <2>2
<1>5. NextOf(t) \in Places /\ NextOf(t) = Slice(t)[Len(slices[t]) + 1]
  BY <1>1, <1>2, <1>4, SliceFacts DEF NextOf
<1>6. eligible[NextOf(t)] \in File /\ NextOf(t) \in Nat
  BY <1>5, FileAt
<1>7. PICK o \in Outcomes(eligible[NextOf(t)]) :
        slices' = [slices EXCEPT ![t] = Append(slices[t], [at |-> NextOf(t), outcome |-> o])]
  BY DEF ParseFile
<1> DEFINE file == eligible[NextOf(t)]
<1>8. /\ o \in {"parsed", "failed", "unread"}
      /\ o = "unread" => ~file.read
      /\ o = "failed" => file.read /\ (late \/ file.parse = "fails")
      /\ o = "parsed" => file.read /\ file.parse \notin {"fails", "panics"}
  <2>1. file.read \in BOOLEAN /\ (~inTime => late)
    BY <1>6 DEF File, Position
  <2> HIDE DEF file
  <2> QED BY <1>7, <2>1, Zenon DEF Outcomes, file
<1> DEFINE item == [at |-> NextOf(t), outcome |-> o]
<1>9. item \in Item /\ item.at = NextOf(t) /\ item.outcome = o
  BY <1>6, <1>8 DEF Item
<1> HIDE DEF item
<1>10. Honest(item)
  BY <1>5, <1>8, <1>9 DEF Honest
<1>11. slices' = [slices EXCEPT ![t] = Append(slices[t], item)]
  BY <1>7 DEF item
<1> QED BY <1>1, <1>2, <1>5, <1>9, <1>10, <1>11
-----------------------------------------------------------------------------
(* The steps of the threads. *)

\* What has been merged and what waits stands while nothing of it is touched, the
\* clock only runs on, and only more is lost.
LEMMA Standing ==
    ASSUME UNCHANGED <<eligible, keep, from, phase, joined, parsed, index, coverage, bytes, records>>,
           late => late', lost \subseteq lost', InOrder, Accounted, SoFarAlike
    PROVE  InOrder' /\ Accounted' /\ SoFarAlike'
<1>1. Reach' = Reach
  BY SameBatch DEF Reach
<1>2. \A k \in DOMAIN parsed : Honest(parsed[k])'
  BY HonestStays DEF InOrder
<1>3. InOrder'
  BY <1>1, <1>2 DEF InOrder, ListedOrder
<1>4. \A i : Excused(i) => Excused(i)'
  BY DEF Excused
<1>5. Accounted'
  BY <1>1, <1>4 DEF Accounted
<1>6. ~late' /\ lost' = {} => ~late /\ lost = {}
  OBVIOUS
<1>7. Merged' = Merged
  BY <1>1 DEF Merged
<1>8. SoFarAlike'
  BY <1>6, <1>7 DEF SoFarAlike
<1> QED BY <1>3, <1>5, <1>8

LEMMA ParseFileKeeps ==
    ASSUME Inv, NEW t, ParseFile(t)
    PROVE  Inv'
<1>1. /\ TypeOK /\ Position /\ SlicesHonest /\ InOrder /\ Accounted /\ SoFarAlike
      /\ UNCHANGED <<eligible, keep, late, phase, from, inTime, panicked, joined, parsed, index,
                     coverage, bytes, records, lost>>
  BY DEF Inv, ParseFile, input, totals
<1>2. /\ phase = "parsing" /\ from < Len(eligible)
      /\ t \in Threads(from) \ panicked /\ Len(slices[t]) < Len(Slice(t))
  BY <1>1, ParseFileFacts
<1>3. PICK item \in Item :
        /\ slices' = [slices EXCEPT ![t] = Append(slices[t], item)]
        /\ item.at = Slice(t)[Len(slices[t]) + 1] /\ Honest(item)
  BY <1>1, ParseFileFacts
<1>4. slices \in [Threads(from) -> Seq(Item)] /\ slices[t] \in Seq(Item)
  BY <1>1, <1>2 DEF TypeOK
<1> DEFINE more == Append(slices[t], item)
<1>5. /\ more \in Seq(Item) /\ Len(more) = Len(slices[t]) + 1
      /\ DOMAIN more = 1 .. Len(slices[t]) + 1 /\ DOMAIN slices[t] = 1 .. Len(slices[t])
      /\ more[Len(slices[t]) + 1] = item
      /\ \A k \in 1 .. Len(slices[t]) : more[k] = slices[t][k]
      /\ Len(slices[t]) \in Nat
  BY <1>4, Appended
<1>6. slices' = [slices EXCEPT ![t] = more]
  BY <1>3
<1> HIDE DEF more
<1>7. TypeOK'
  <2>1. slices' \in [Threads(from) -> Seq(Item)]
    BY <1>4, <1>5, <1>6
  <2>2. Threads(from)' = Threads(from)
    BY <1>1, SameBatch
  <2> QED BY <1>1, <2>1, <2>2 DEF TypeOK
<1>8. Position'
  BY <1>1, SameBatch DEF Position
<1>9. SlicesHonest'
  <2>1. \A u \in Threads(from) :
          /\ Len(slices'[u]) <= Len(Slice(u))
          /\ \A k \in DOMAIN slices'[u] : slices'[u][k].at = Slice(u)[k] /\ Honest(slices'[u][k])
    <3> SUFFICES ASSUME NEW u \in Threads(from)
                 PROVE  /\ Len(slices'[u]) <= Len(Slice(u))
                        /\ \A k \in DOMAIN slices'[u] :
                              slices'[u][k].at = Slice(u)[k] /\ Honest(slices'[u][k])
      OBVIOUS
    <3>1. /\ Len(slices[u]) <= Len(Slice(u))
          /\ \A k \in DOMAIN slices[u] : slices[u][k].at = Slice(u)[k] /\ Honest(slices[u][k])
      BY <1>1, <1>2 DEF SlicesHonest
    <3>2. CASE u # t
      <4>1. slices'[u] = slices[u]
        BY <1>4, <1>6, <3>2
      <4> QED BY <3>1, <4>1
    <3>3. CASE u = t
      <4>1. slices'[u] = more
        BY <1>2, <1>4, <1>6, <3>3
      <4>2. Len(Slice(t)) \in Nat
        BY <1>1, <1>2, SliceFacts
      <4>3. Len(more) <= Len(Slice(t))
        BY <1>2, <1>5, <4>2
      <4>4. ASSUME NEW k \in DOMAIN more
            PROVE  more[k].at = Slice(t)[k] /\ Honest(more[k])
        <5>1. CASE k = Len(slices[t]) + 1
          BY <1>3, <1>5, <5>1
        <5>2. CASE k \in 1 .. Len(slices[t])
          BY <1>5, <3>1, <3>3, <5>2
        <5> QED BY <1>5, <5>1, <5>2
      <4> QED BY <3>3, <4>1, <4>3, <4>4
    <3> QED BY <3>2, <3>3
  <2>2. /\ Threads(from)' = Threads(from)
        /\ \A u : Slice(u)' = Slice(u)
    BY <1>1, SameBatch
  <2>3. \A u \in Threads(from)' : 
          /\ Len(slices[u])' <= Len(Slice(u))'
          /\ \A k \in (DOMAIN slices[u])' : (slices[u][k].at)' = Slice(u)[k]' /\ Honest(slices[u][k])'
    BY <1>1, <2>1, <2>2 DEF Honest, Places
  <2>4. \A u \in panicked : u \in Threads(from) => ToSet(Slice(u)) \subseteq lost
    BY <1>1, <1>2 DEF SlicesHonest
  <2>5. panicked # {} => lost # {}
    BY <1>1, <1>2 DEF SlicesHonest
  <2> QED BY <1>1, <2>2, <2>3, <2>4, <2>5 DEF SlicesHonest
<1>10. InOrder' /\ Accounted' /\ SoFarAlike'
  BY <1>1, Standing
<1> QED BY <1>7, <1>8, <1>9, <1>10 DEF Inv
\* On the caller's own thread nothing has been joined yet.
LEMMA AloneFacts ==
    ASSUME Inv, phase = "parsing", Alone(BatchLen(from))
    PROVE  parsed = <<>> /\ Reach = from
<1>1. from < Len(eligible) /\ TypeOK /\ joined + 1 \in Threads(from)
  BY DEF Inv, Position
<1>2. Stride(Size) = Size /\ Size \in Nat \ {0}
  BY <1>1, SizeFacts DEF Stride, Size
<1>3. PICK c \in Nat \ {0} : Threads(from) = 1 .. c /\ (c - 1) * Size < Size
  BY <1>1, <1>2, ThreadFacts
<1>4. c = 1
  <2>1. CASE c - 1 >= 1
    <3>1. PICK d \in Nat : c - 1 = d + 1
      BY <2>1
    <3>2. (d + 1) * Size = d * Size + Size /\ d * Size >= 0
      BY <1>2, <3>1
    <3> QED BY <1>2, <1>3, <3>1, <3>2
  <2> QED BY <2>1
<1>5. joined = 0
  BY <1>1, <1>3, <1>4 DEF TypeOK
<1>6. Reach = from
  BY <1>1, <1>5, UpToFacts DEF Reach
<1>7. \A k \in DOMAIN parsed : parsed[k].at <= from /\ from < parsed[k].at
  BY <1>6 DEF Inv, InOrder
<1>8. \A k \in DOMAIN parsed : parsed[k].at \in Nat
  BY <1>1, WaitingItems
<1>9. from \in Nat
  BY <1>1, SizeFacts
<1>10. ASSUME NEW k \in DOMAIN parsed PROVE FALSE
  <2>1. parsed[k].at \in Nat /\ parsed[k].at <= from /\ from < parsed[k].at
    BY <1>7, <1>8
  <2> QED BY <1>9, <2>1
<1>11. parsed \in Seq(Item) /\ DOMAIN parsed = {}
  BY <1>1, <1>10, WaitingItems
<1> QED BY <1>6, <1>11, Emptied

LEMMA ParserPanicsKeeps ==
    ASSUME Inv, NEW t, ParserPanics(t)
    PROVE  Inv'
<1>1. /\ TypeOK /\ Position /\ SlicesHonest /\ InOrder /\ Accounted /\ SoFarAlike
      /\ UNCHANGED <<eligible, keep, late, from, inTime, slices, joined, parsed, index,
                     coverage, bytes, records>>
      /\ phase = "parsing" /\ t \in Threads(from)
      /\ panicked' = panicked \cup {t} /\ lost' = lost \cup ToSet(Slice(t))
      /\ phase' = IF Alone(BatchLen(from)) THEN "panicked" ELSE phase
  BY DEF Inv, ParserPanics, AtFile, input, totals
<1>2. from < Len(eligible)
  BY <1>1 DEF Position
<1>3. Slice(t) \in Seq(Nat) /\ Len(Slice(t)) \in Nat \ {0} /\ DOMAIN Slice(t) = 1 .. Len(Slice(t))
  BY <1>1, <1>2, SliceFacts
<1>4. ToSet(Slice(t)) \subseteq Nat /\ ToSet(Slice(t)) # {}
  <2>1. 1 \in DOMAIN Slice(t) /\ \A i \in DOMAIN Slice(t) : Slice(t)[i] \in Nat
    BY <1>3, ElementIn
  <2> QED BY <2>1 DEF ToSet
<1>5. lost \subseteq lost' /\ lost' # {} /\ t \in Nat
  BY <1>1, <1>2, <1>4, UpToFacts
<1>6. TypeOK'
  BY <1>1, <1>4, <1>5, SameBatch DEF TypeOK
<1>7. CASE phase' = "parsing"
  <2>1. Position'
    BY <1>1, <1>7, SameBatch DEF Position
  <2>2. SlicesHonest'
    <3>1. /\ Threads(from)' = Threads(from)
          /\ \A u : Slice(u)' = Slice(u)
      BY <1>1, SameBatch
    <3>2. \A u \in panicked' : u \in Threads(from) => ToSet(Slice(u)) \subseteq lost'
      BY <1>1 DEF SlicesHonest
    <3>3. \A u \in Threads(from) :
            /\ Len(slices[u]) <= Len(Slice(u))
            /\ \A k \in DOMAIN slices[u] : slices[u][k].at = Slice(u)[k] /\ Honest(slices[u][k])
      BY <1>1 DEF SlicesHonest
    <3>4. \A u \in Threads(from) : \A k \in DOMAIN slices[u] : Honest(slices[u][k])'
      BY <1>1, <3>3 DEF Honest, Places
    <3> QED BY <1>1, <1>5, <3>1, <3>2, <3>3, <3>4 DEF SlicesHonest
  <2>3. InOrder' /\ Accounted' /\ SoFarAlike'
    BY <1>1, <1>5, <1>7, Standing
  <2> QED BY <1>6, <2>1, <2>2, <2>3 DEF Inv
<1>8. CASE phase' = "panicked"
  <2>1. parsed = <<>> /\ Reach = from
    BY <1>1, <1>8, AloneFacts
  <2>2. Reach' = from
    BY <1>1, <1>8 DEF Reach
  <2>3. Position'
    BY <1>1, <1>5, <1>8, <2>1 DEF Position
  <2>4. InOrder'
    <3>1. \A j \in DOMAIN index : index[j] <= from
      BY <1>1 DEF InOrder
    <3>2. DOMAIN parsed' = {}
      BY <1>1, <2>1
    <3>3. ListedOrder'
      BY <1>1 DEF InOrder, ListedOrder
    <3> QED BY <1>1, <1>8, <2>2, <3>1, <3>2, <3>3 DEF InOrder
  <2>5. Accounted'
    BY <1>1, <1>5, <2>1, <2>2 DEF Accounted, Excused
  <2>6. SoFarAlike'
    BY <1>5 DEF SoFarAlike
  <2>7. SlicesHonest'
    BY <1>8 DEF SlicesHonest
  <2> QED BY <1>6, <2>3, <2>4, <2>5, <2>6, <2>7 DEF Inv
<1> QED BY <1>1, <1>7, <1>8
-----------------------------------------------------------------------------
(* A thread is joined. *)

\* What it returns is of its own slice, all of it unless it has panicked.
LEMMA JoinFacts ==
    ASSUME Inv, Join
    PROVE  /\ phase = "parsing" /\ joined' = joined + 1 /\ from < Len(eligible)
           /\ joined' \in Threads(from)
           /\ parsed' = parsed \o Returned(joined') /\ Returned(joined') \in Seq(Item)
           /\ Reach = UpTo(joined) /\ Reach' = UpTo(joined')
           /\ Reach \in Nat /\ Reach' \in Nat /\ from \in Nat
           /\ from <= Reach /\ Reach < Reach'
           /\ \A m \in DOMAIN Returned(joined') :
                Honest(Returned(joined')[m]) /\ Returned(joined')[m].at = Reach + m
           /\ lost = {} => Len(Returned(joined')) = Reach' - Reach
           /\ \A i \in Reach + 1 .. Reach' :
                i \in lost \/ i - Reach \in DOMAIN Returned(joined')
           /\ Len(Returned(joined')) <= Reach' - Reach
<1>1. TypeOK /\ Position /\ SlicesHonest
  BY DEF Inv
<1> DEFINE t == joined + 1
           r == IF t \in panicked THEN <<>> ELSE slices[t]
<1>2. /\ phase = "parsing" /\ t \in Threads(from) /\ joined' = t
      /\ t \in panicked \/ Len(slices[t]) = Len(Slice(t))
      /\ parsed' = parsed \o r
      /\ phase' = IF t + 1 \in Threads(from) THEN "parsing" ELSE "merging"
      /\ UNCHANGED <<eligible, from, panicked, slices, lost>>
  BY DEF Join, Joined, Returned, input
<1>3. Returned(joined') = r
  BY <1>2 DEF Returned
<1>4. from < Len(eligible)
  BY <1>1, <1>2 DEF Position
<1>5. slices[t] \in Seq(Item)
  BY <1>1, <1>2 DEF TypeOK
<1>6. /\ joined \in Nat /\ t - 1 = joined /\ UpTo(joined) \in Nat /\ UpTo(t) \in Nat
      /\ from <= UpTo(joined) /\ UpTo(joined) < UpTo(t) /\ from \in Nat
      /\ t + 1 \notin Threads(from) => UpTo(t) = from + Size
  <2>1. joined \in Nat
    BY <1>1 DEF TypeOK
  <2>2. t - 1 = joined
    BY <2>1
  <2> HIDE DEF t
  <2> QED BY <1>1, <1>2, <1>4, <2>1, <2>2, UpToFacts, SizeFacts
<1>7. Reach = UpTo(joined) /\ Reach' = UpTo(t)
  <2>1. Reach = UpTo(joined)
    BY <1>2 DEF Reach
  <2>2. UpTo(joined)' = UpTo(t) /\ Size' = Size
    BY <1>2, SameBatch DEF UpTo
  <2> QED BY <1>2, <1>6, <2>1, <2>2 DEF Reach
<1>8. /\ Len(Slice(t)) = UpTo(t) - UpTo(joined) /\ DOMAIN Slice(t) = 1 .. Len(Slice(t))
      /\ \A k \in DOMAIN Slice(t) : Slice(t)[k] = UpTo(joined) + k
  <2> HIDE DEF t
  <2> QED BY <1>1, <1>2, <1>4, <1>6, SliceFacts
<1>9. t \notin panicked =>
        /\ Len(slices[t]) = UpTo(t) - UpTo(joined)
        /\ DOMAIN slices[t] = 1 .. UpTo(t) - UpTo(joined)
        /\ \A m \in DOMAIN slices[t] :
              Honest(slices[t][m]) /\ slices[t][m].at = UpTo(joined) + m
  <2> HIDE DEF t
  <2>1. \A m \in DOMAIN slices[t] : slices[t][m].at = Slice(t)[m] /\ Honest(slices[t][m])
    BY <1>1, <1>2 DEF SlicesHonest
  <2>2. DOMAIN slices[t] = 1 .. Len(slices[t])
    BY <1>5
  <2> QED BY <1>2, <1>8, <2>1, <2>2
<1>10. t \in panicked => lost # {} /\ \A i \in UpTo(joined) + 1 .. UpTo(t) : i \in lost
  <2> HIDE DEF t
  <2> SUFFICES ASSUME t \in panicked PROVE lost # {} /\ \A i \in UpTo(joined) + 1 .. UpTo(t) : i \in lost
    OBVIOUS
  <2>1. ToSet(Slice(t)) \subseteq lost /\ lost # {}
    BY <1>1, <1>2 DEF SlicesHonest
  <2>2. ASSUME NEW i \in UpTo(joined) + 1 .. UpTo(t) PROVE i \in lost
    <3>1. i - UpTo(joined) \in DOMAIN Slice(t) /\ UpTo(joined) + (i - UpTo(joined)) = i
      BY <1>6, <1>8
    <3>2. Slice(t)[i - UpTo(joined)] = i
      BY <1>8, <3>1
    <3> QED BY <2>1, <3>1, <3>2 DEF ToSet
  <2> QED BY <2>1, <2>2
<1>11. r \in Seq(Item)
  BY <1>5
<1>12. /\ \A m \in DOMAIN r : Honest(r[m]) /\ r[m].at = UpTo(joined) + m
       /\ lost = {} => Len(r) = UpTo(t) - UpTo(joined)
       /\ \A i \in UpTo(joined) + 1 .. UpTo(t) : i \in lost \/ i - UpTo(joined) \in DOMAIN r
       /\ Len(r) <= UpTo(t) - UpTo(joined)
  <2>1. CASE t \in panicked
    <3>1. r = <<>> /\ DOMAIN r = {} /\ Len(r) = 0
      BY <2>1
    <3> HIDE DEF t, r
    <3> QED BY <1>6, <1>10, <2>1, <3>1
  <2>2. CASE t \notin panicked
    <3>1. r = slices[t]
      BY <2>2
    <3> HIDE DEF t, r
    <3> QED BY <1>6, <1>9, <2>2, <3>1
  <2> QED BY <2>1, <2>2
<1> HIDE DEF r
<1> QED BY <1>2, <1>3, <1>4, <1>6, <1>7, <1>11, <1>12
LEMMA JoinKeeps ==
    ASSUME Inv, Join
    PROVE  Inv'
<1>1. /\ TypeOK /\ Position /\ SlicesHonest /\ InOrder /\ Accounted /\ SoFarAlike
      /\ UNCHANGED <<eligible, keep, late, from, inTime, slices, panicked, index, coverage,
                     bytes, records, lost>>
      /\ phase' = IF joined' + 1 \in Threads(from) THEN "parsing" ELSE "merging"
  BY DEF Inv, Join, input, totals
<1>2. PICK r \in Seq(Item) :
        /\ r = Returned(joined') /\ parsed' = parsed \o r
        /\ \A m \in DOMAIN r : Honest(r[m]) /\ r[m].at = Reach + m
        /\ lost = {} => Len(r) = Reach' - Reach
        /\ \A i \in Reach + 1 .. Reach' : i \in lost \/ i - Reach \in DOMAIN r
        /\ Len(r) <= Reach' - Reach
  BY JoinFacts
<1>3. /\ phase = "parsing" /\ joined' = joined + 1 /\ from < Len(eligible)
      /\ Reach \in Nat /\ Reach' \in Nat /\ from \in Nat
      /\ from <= Reach /\ Reach < Reach'
  BY JoinFacts
<1>4. /\ parsed' \in Seq(Item) /\ Len(parsed') = Len(parsed) + Len(r)
      /\ Len(parsed) \in Nat /\ Len(r) \in Nat
      /\ DOMAIN parsed = 1 .. Len(parsed) /\ DOMAIN r = 1 .. Len(r)
      /\ DOMAIN parsed' = 1 .. Len(parsed) + Len(r)
      /\ \A i \in 1 .. Len(parsed) : parsed'[i] = parsed[i]
      /\ \A i \in 1 .. Len(r) : parsed'[Len(parsed) + i] = r[i]
  BY <1>1, <1>2, Joining, WaitingItems
<1>5. \A k \in DOMAIN parsed : Honest(parsed[k]) /\ parsed[k].at <= Reach /\ from < parsed[k].at
                               /\ parsed[k].at \in Nat
  BY <1>1, <1>3, WaitingItems DEF InOrder
<1>6. ASSUME NEW k \in DOMAIN parsed'
      PROVE  \/ k \in DOMAIN parsed /\ parsed'[k] = parsed[k]
             \/ /\ k > Len(parsed) /\ k - Len(parsed) \in DOMAIN r
                /\ parsed'[k] = r[k - Len(parsed)] /\ parsed'[k].at = Reach + (k - Len(parsed))
  <2>1. CASE k <= Len(parsed)
    BY <1>4, <2>1
  <2>2. CASE k > Len(parsed)
    <3>1. k - Len(parsed) \in 1 .. Len(r) /\ Len(parsed) + (k - Len(parsed)) = k
      BY <1>4, <2>2
    <3> QED BY <1>2, <1>4, <2>2, <3>1
  <2> QED BY <1>4, <2>1, <2>2
<1>7. TypeOK'
  BY <1>1, <1>3, <1>4, SameBatch DEF TypeOK
<1>8. Position'
  <2>1. phase' = "parsing" => (joined + 1 \in Threads(from))'
    BY <1>1, SameBatch
  <2> QED BY <1>1, <1>3, <2>1 DEF Position
<1>9. SlicesHonest'
  <2>1. /\ Threads(from)' = Threads(from)
        /\ \A u : Slice(u)' = Slice(u)
    BY <1>1, SameBatch
  <2>2. \A u \in Threads(from) :
          /\ Len(slices[u]) <= Len(Slice(u))
          /\ \A k \in DOMAIN slices[u] : slices[u][k].at = Slice(u)[k] /\ Honest(slices[u][k])
    BY <1>1, <1>3 DEF SlicesHonest
  <2>3. \A u \in Threads(from) : \A k \in DOMAIN slices[u] : Honest(slices[u][k])'
    BY <1>1, <2>2 DEF Honest, Places
  <2>4. /\ \A u \in panicked : u \in Threads(from) => ToSet(Slice(u)) \subseteq lost
        /\ panicked # {} => lost # {}
    BY <1>1, <1>3 DEF SlicesHonest
  <2> QED BY <1>1, <2>1, <2>2, <2>3, <2>4 DEF SlicesHonest
<1>10. InOrder'
  <2>1. \A k \in DOMAIN parsed' : Honest(parsed'[k]) /\ parsed'[k].at <= Reach' /\ from < parsed'[k].at
    <3> SUFFICES ASSUME NEW k \in DOMAIN parsed'
                 PROVE  Honest(parsed'[k]) /\ parsed'[k].at <= Reach' /\ from < parsed'[k].at
      OBVIOUS
    <3>1. CASE k \in DOMAIN parsed /\ parsed'[k] = parsed[k]
      <4>1. parsed[k].at <= Reach'
        BY <1>3, <1>5, <3>1
      <4> QED BY <1>5, <3>1, <4>1
    <3>2. CASE /\ k > Len(parsed) /\ k - Len(parsed) \in DOMAIN r
               /\ parsed'[k] = r[k - Len(parsed)] /\ parsed'[k].at = Reach + (k - Len(parsed))
      <4>1. k - Len(parsed) \in 1 .. Reach' - Reach
        BY SMTT(30), <1>2, <1>3, <1>4, <3>2
      <4>2. Reach + (k - Len(parsed)) <= Reach' /\ from < Reach + (k - Len(parsed))
        BY <1>3, <4>1
      <4> QED BY <1>2, <3>2, <4>2
    <3> QED BY <1>6, <3>1, <3>2
  <2>2. \A k \in (DOMAIN parsed)' : Honest(parsed[k])'
    BY <1>1, <2>1 DEF Honest, Places
  <2>3. \A k \in DOMAIN parsed' : \A j \in 1 .. k - 1 : parsed'[j].at < parsed'[k].at
    <3> SUFFICES ASSUME NEW k \in DOMAIN parsed', NEW j \in 1 .. k - 1
                 PROVE  parsed'[j].at < parsed'[k].at
      OBVIOUS
    <3>1. j \in DOMAIN parsed' /\ j < k /\ k \in Nat /\ j \in Nat
      BY <1>4
    <3>2. CASE k \in DOMAIN parsed
      <4>1. j \in DOMAIN parsed /\ parsed'[j] = parsed[j] /\ parsed'[k] = parsed[k]
        BY <1>4, <3>1, <3>2
      <4> QED BY <1>1, <3>2, <4>1 DEF InOrder
    <3>3. CASE k \notin DOMAIN parsed
      <4>1. k > Len(parsed) /\ parsed'[k].at = Reach + (k - Len(parsed))
        BY <1>6, <3>3
      <4>2. CASE j \in DOMAIN parsed
        <5>1. parsed'[j].at \in Nat /\ parsed'[j].at <= Reach
          BY <1>4, <1>5, <4>2
        <5> QED BY SMTT(30), <1>3, <1>4, <3>1, <4>1, <5>1
      <4>3. CASE j \notin DOMAIN parsed
        <5>1. parsed'[j].at = Reach + (j - Len(parsed))
          BY <1>6, <3>1, <4>3
        <5> QED BY <1>3, <1>4, <3>1, <4>1, <5>1
      <4> QED BY <4>2, <4>3
    <3> QED BY <3>2, <3>3
  <2>4. \A j \in DOMAIN index : index[j] <= from /\ index[j] \in Nat
    BY <1>1, <1>3, WaitingItems DEF InOrder
  <2>5. \A k \in DOMAIN parsed' : \A j \in DOMAIN index : index[j] < parsed'[k].at
    <3> SUFFICES ASSUME NEW k \in DOMAIN parsed', NEW j \in DOMAIN index
                 PROVE  index[j] < parsed'[k].at
      OBVIOUS
    <3>0. parsed'[k] \in Item
      BY <1>4, ElementIn
    <3>1. parsed'[k].at \in Nat
      BY <3>0 DEF Item
    <3> QED BY <1>3, <2>1, <2>4, <3>1
  <2>6. \A j \in DOMAIN index : index[j] <= (IF phase' = "parsing" THEN from ELSE Reach')
    BY <1>3, <2>4
  <2>7. ListedOrder'
    BY <1>1 DEF InOrder, ListedOrder
  <2> QED BY <1>1, <2>1, <2>2, <2>3, <2>5, <2>6, <2>7 DEF InOrder
<1>11. Accounted'
  <2> SUFFICES ASSUME NEW i \in 1 .. Reach'
               PROVE  \/ \E j \in DOMAIN index : index[j] = i
                      \/ \E k \in DOMAIN parsed' : parsed'[k].at = i
                      \/ Excused(i)
    BY <1>1 DEF Accounted, Excused
  <2>1. CASE i <= Reach
    <3>1. \/ \E j \in DOMAIN index : index[j] = i
          \/ \E k \in DOMAIN parsed : parsed[k].at = i
          \/ Excused(i)
      BY <1>1, <1>3, <2>1 DEF Accounted
    <3>2. \A k \in DOMAIN parsed : k \in DOMAIN parsed' /\ parsed'[k] = parsed[k]
      BY <1>4
    <3> QED BY <3>1, <3>2
  <2>2. CASE i > Reach
    <3>1. i \in lost \/ i - Reach \in DOMAIN r
      BY <1>2, <1>3, <2>2
    <3>2. CASE i \in lost
      BY <3>2 DEF Excused
    <3>3. CASE i - Reach \in DOMAIN r
      <4>1. Len(parsed) + (i - Reach) \in DOMAIN parsed'
            /\ parsed'[Len(parsed) + (i - Reach)] = r[i - Reach]
        BY <1>3, <1>4, <3>3
      <4>2. r[i - Reach].at = Reach + (i - Reach) /\ Reach + (i - Reach) = i
        BY <1>2, <1>3, <3>3
      <4> QED BY <4>1, <4>2
    <3> QED BY <3>1, <3>2, <3>3
  <2> QED BY <1>3, <2>1, <2>2
<1>12. SoFarAlike'
  <2> SUFFICES ASSUME ~late, lost = {}
               PROVE  /\ Merged' \in 0 .. Len(eligible)
                      /\ \A k \in DOMAIN parsed' : parsed'[k].at = Merged' + k
                      /\ [index |-> index, bytes |-> bytes, records |-> records] =
                           OneThread(eligible, keep)[Merged']
    BY <1>1 DEF SoFarAlike
  <2>1. Merged = Reach - Len(parsed) /\ Merged' = Reach' - Len(parsed')
    BY DEF Merged
  <2>0. Len(r) = Reach' - Reach
    BY <1>2
  <2>2. Merged' = Merged
    <3>1. Reach' - (Len(parsed) + Len(r)) = Reach - Len(parsed)
      BY SMTT(30), <1>3, <1>4, <2>0
    <3> QED BY <1>4, <2>1, <3>1
  <2>3. /\ Merged \in 0 .. Len(eligible)
        /\ \A k \in DOMAIN parsed : parsed[k].at = Merged + k
        /\ [index |-> index, bytes |-> bytes, records |-> records] = OneThread(eligible, keep)[Merged]
    BY <1>1 DEF SoFarAlike
  <2>4. ASSUME NEW k \in DOMAIN parsed' PROVE parsed'[k].at = Merged + k
    <3>1. CASE k \in DOMAIN parsed /\ parsed'[k] = parsed[k]
      BY <2>3, <3>1
    <3>2. CASE k > Len(parsed) /\ parsed'[k].at = Reach + (k - Len(parsed))
      <4>1. k \in Nat
        BY <1>4
      <4> QED BY <1>3, <1>4, <2>1, <3>2, <4>1
    <3> QED BY <1>6, <3>1, <3>2
  <2> QED BY <2>2, <2>3, <2>4
<1> QED BY <1>7, <1>8, <1>9, <1>10, <1>11, <1>12 DEF Inv
-----------------------------------------------------------------------------
(* The merge. *)

\* The outcome to merge next is of a file, and the first that waits.
LEMMA MergingFacts ==
    ASSUME Inv, Merging
    PROVE  /\ phase = "merging" /\ parsed \in Seq(Item) /\ parsed # <<>>
           /\ Head(parsed) = parsed[1] /\ 1 \in DOMAIN parsed /\ Head(parsed) \in Item
           /\ Honest(Head(parsed)) /\ Head(parsed).at \in Places
           /\ Head(parsed).at \in Nat \ {0} /\ Head(parsed).at <= Reach
           /\ Here \in File
           /\ Reach = from + Size /\ Reach \in Nat /\ Reach <= Len(eligible)
<1>1. TypeOK /\ Position /\ InOrder
  BY DEF Inv
<1>2. phase = "merging" /\ parsed \in Seq(Item) /\ parsed # <<>> /\ from < Len(eligible)
  BY <1>1, WaitingItems DEF Merging, Position
<1>3. Head(parsed) = parsed[1] /\ 1 \in DOMAIN parsed /\ Head(parsed) \in Item
  BY <1>2, Popped
<1>4. Honest(Head(parsed)) /\ Head(parsed).at <= Reach
  BY <1>1, <1>3 DEF InOrder
<1>5. Head(parsed).at \in Places
  BY <1>4 DEF Honest
<1>6. Places = 1 .. Len(eligible) /\ Len(eligible) \in Nat
  BY <1>1 DEF Places, TypeOK
<1>7. Head(parsed).at \in Nat \ {0}
  BY <1>5, <1>6
<1>8. Here \in File
  BY <1>1, <1>5, FileAt DEF Here
<1>9. Reach = from + Size
  BY <1>2 DEF Reach
<1>10. from + Size \in Nat /\ from + Size <= Len(eligible)
  BY <1>1, <1>2, SizeFacts
<1> QED BY <1>2, <1>3, <1>4, <1>5, <1>7, <1>8, <1>9, <1>10

\* One outcome is dealt with: its file is put at the end of the index, or there
\* is an excuse for it; and with time left it is what one thread would do.
LEMMA Taken ==
    ASSUME Inv, Merging, NEW at, at = Head(parsed).at, parsed' = Tail(parsed),
           UNCHANGED <<eligible, keep, late, phase, from, lost>>,
           coverage.truncated => coverage'.truncated,
           \/ index' = index /\ Excused(at)'
           \/ index' = Append(index, at),
           ~late => [index |-> index', bytes |-> bytes', records |-> records'] =
                        MergeOne(eligible, keep, [index |-> index, bytes |-> bytes, records |-> records],
                                 at)
    PROVE  InOrder' /\ Accounted' /\ SoFarAlike'
<1>1. /\ phase = "merging" /\ parsed \in Seq(Item) /\ parsed # <<>>
      /\ Head(parsed) = parsed[1] /\ 1 \in DOMAIN parsed
      /\ at = parsed[1].at /\ at \in Places /\ at \in Nat \ {0} /\ at <= Reach
      /\ Reach \in Nat /\ Reach <= Len(eligible)
  BY MergingFacts
<1>2. TypeOK /\ InOrder /\ Accounted /\ SoFarAlike
  BY DEF Inv
<1>3. /\ parsed' \in Seq(Item) /\ Len(parsed') = Len(parsed) - 1 /\ Len(parsed) \in Nat \ {0}
      /\ DOMAIN parsed = 1 .. Len(parsed) /\ DOMAIN parsed' = 1 .. Len(parsed) - 1
      /\ \A k \in DOMAIN parsed' : k + 1 \in DOMAIN parsed /\ parsed'[k] = parsed[k + 1]
  BY <1>1, Popped
<1>4. Reach' = Reach
  BY <1>1, SameBatch DEF Reach
<1>5. /\ \A k \in DOMAIN parsed :
           /\ Honest(parsed[k]) /\ parsed[k].at <= Reach /\ parsed[k].at \in Nat
           /\ \A j \in 1 .. k - 1 : parsed[j].at < parsed[k].at
           /\ \A j \in DOMAIN index : index[j] < parsed[k].at
      /\ \A j \in DOMAIN index : index[j] <= Reach /\ index[j] \in Nat
      /\ index \in Seq(Nat) /\ DOMAIN index = 1 .. Len(index) /\ Len(index) \in Nat
      /\ \A j, k \in DOMAIN index : j < k => index[j] < index[k]
  BY <1>1, <1>2, WaitingItems DEF InOrder, ListedOrder
<1>a. at \in Nat
  BY <1>1
<1>6. \A j \in DOMAIN index' : \/ j \in DOMAIN index /\ index'[j] = index[j]
                               \/ /\ index' = Append(index, at)
                                  /\ j = Len(index) + 1 /\ index'[j] = at
  <2>1. CASE index' = index
    BY <2>1
  <2>2. CASE index' = Append(index, at)
    BY <1>a, <1>5, <2>2, Appended
  <2> QED BY <2>1, <2>2
<1>7. \A k \in DOMAIN parsed' : at < parsed'[k].at
  <2> SUFFICES ASSUME NEW k \in DOMAIN parsed' PROVE parsed[1].at < parsed[k + 1].at
    BY <1>1, <1>3
  <2>1. k + 1 \in DOMAIN parsed /\ 1 \in 1 .. (k + 1) - 1
    BY <1>3
  <2> QED BY <1>5, <2>1
<1>8. InOrder'
  <2>1. \A k \in DOMAIN parsed' : Honest(parsed'[k]) /\ parsed'[k].at <= Reach
    BY <1>3, <1>5
  <2>2. \A k \in (DOMAIN parsed)' : Honest(parsed[k])'
    BY <2>1 DEF Honest, Places
  <2>3. \A k \in DOMAIN parsed' : \A j \in 1 .. k - 1 : parsed'[j].at < parsed'[k].at
    <3> SUFFICES ASSUME NEW k \in DOMAIN parsed', NEW j \in 1 .. k - 1
                 PROVE  parsed'[j].at < parsed'[k].at
      OBVIOUS
    <3>1. j \in DOMAIN parsed' /\ j + 1 \in 1 .. (k + 1) - 1
      BY <1>3
    <3>2. parsed'[j] = parsed[j + 1] /\ parsed'[k] = parsed[k + 1] /\ k + 1 \in DOMAIN parsed
      BY <1>3, <3>1
    <3> QED BY <1>5, <3>1, <3>2
  <2>4. \A k \in DOMAIN parsed' : \A j \in DOMAIN index' : index'[j] < parsed'[k].at
    BY <1>3, <1>5, <1>6, <1>7
  <2>5. \A j \in DOMAIN index' : index'[j] <= Reach
    BY <1>1, <1>5, <1>6
  <2>6. ASSUME NEW j \in DOMAIN index', NEW k \in DOMAIN index', j < k
        PROVE  index'[j] < index'[k]
    <3>1. CASE k \in DOMAIN index
      <4>1. j \in DOMAIN index /\ index'[j] = index[j] /\ index'[k] = index[k]
        BY <1>5, <1>6, <2>6, <3>1
      <4> QED BY <1>5, <2>6, <3>1, <4>1
    <3>2. CASE k \notin DOMAIN index
      <4>1. k = Len(index) + 1 /\ index'[k] = at
        BY <1>6, <3>2
      <4>2. j \in DOMAIN index /\ index'[j] = index[j]
        BY <1>5, <1>6, <2>6, <4>1
      <4> QED BY <1>1, <1>5, <4>1, <4>2
    <3> QED BY <3>1, <3>2
  <2> QED BY <1>1, <1>4, <2>1, <2>2, <2>3, <2>4, <2>5, <2>6 DEF InOrder, ListedOrder
<1>9. Accounted'
  <2> SUFFICES ASSUME NEW i \in 1 .. Reach
               PROVE  \/ \E j \in DOMAIN index' : index'[j] = i
                      \/ \E k \in DOMAIN parsed' : parsed'[k].at = i
                      \/ Excused(i)'
    BY <1>4 DEF Accounted
  <2>1. ASSUME NEW j \in DOMAIN index PROVE j \in DOMAIN index' /\ index'[j] = index[j]
    <3>1. CASE index' = index
      BY <3>1
    <3>2. CASE index' = Append(index, at)
      BY <1>a, <1>5, <3>2, Appended
    <3> QED BY <3>1, <3>2
  <2>2. CASE \E j \in DOMAIN index : index[j] = i
    BY <2>1, <2>2
  <2>3. CASE Excused(i)
    BY <2>3 DEF Excused
  <2>4. ASSUME NEW k \in DOMAIN parsed, parsed[k].at = i, k # 1
        PROVE  \E l \in DOMAIN parsed' : parsed'[l].at = i
    <3>1. k - 1 \in DOMAIN parsed' /\ (k - 1) + 1 = k
      BY <1>3, <2>4
    <3>2. parsed'[k - 1] = parsed[k]
      BY <1>3, <3>1
    <3> QED BY <2>4, <3>1, <3>2
  <2>5. CASE at = i
    <3>1. CASE index' = Append(index, at)
      <4>1. Len(index) + 1 \in DOMAIN index' /\ index'[Len(index) + 1] = at
        BY <1>a, <1>5, <3>1, Appended
      <4> QED BY <2>5, <4>1
    <3>2. CASE Excused(at)'
      BY <2>5, <3>2 DEF Excused
    <3> QED BY <3>1, <3>2
  <2> QED BY <1>1, <1>2, <2>2, <2>3, <2>4, <2>5 DEF Accounted
<1>10. SoFarAlike'
  <2> SUFFICES ASSUME ~late, lost = {}
               PROVE  /\ Merged' \in 0 .. Len(eligible)
                      /\ \A k \in DOMAIN parsed' : parsed'[k].at = Merged' + k
                      /\ [index |-> index', bytes |-> bytes', records |-> records'] =
                           OneThread(eligible, keep)[Merged']
    BY DEF SoFarAlike
  <2>1. Merged = Reach - Len(parsed) /\ Merged' = Reach - Len(parsed')
    BY <1>4 DEF Merged
  <2>2. Merged' = Merged + 1
    BY <1>1, <1>3, <2>1
  <2>3. /\ Merged \in 0 .. Len(eligible)
        /\ \A k \in DOMAIN parsed : parsed[k].at = Merged + k
        /\ [index |-> index, bytes |-> bytes, records |-> records] = OneThread(eligible, keep)[Merged]
    BY <1>2 DEF SoFarAlike
  <2>4. Merged' = at
    BY <1>1, <2>2, <2>3
  <2>5. Merged \in Nat /\ Merged' \in 1 .. Len(eligible) /\ Merged' - 1 = Merged /\ Len(eligible) \in Nat
    <3>1. Len(eligible) \in Nat
      BY <1>2 DEF TypeOK
    <3> QED BY <1>1, <2>2, <2>3, <2>4, <3>1
  <2>6. \A k \in DOMAIN parsed' : parsed'[k].at = Merged' + k
    <3> SUFFICES ASSUME NEW k \in DOMAIN parsed' PROVE parsed'[k].at = Merged' + k
      OBVIOUS
    <3>1. k \in Nat /\ parsed'[k].at = Merged + (k + 1)
      BY <1>3, <2>3
    <3> QED BY <2>2, <2>5, <3>1
  <2>7. OneThread(eligible, keep)[Merged'] =
          MergeOne(eligible, keep, OneThread(eligible, keep)[Merged' - 1], Merged')
    BY <2>5, OneThreadGoesOn
  <2>8. [index |-> index', bytes |-> bytes', records |-> records'] =
          MergeOne(eligible, keep, [index |-> index, bytes |-> bytes, records |-> records], at)
    OBVIOUS
  <2> QED BY <2>3, <2>4, <2>5, <2>6, <2>7, <2>8
<1> QED BY <1>8, <1>9, <1>10
\* The ceilings, by what one thread has.
LEMMA SpentFacts ==
    ASSUME Inv
    PROVE  Spent <=> \/ Len(index) >= MaxFiles \/ bytes >= MaxBytes \/ records >= MaxRecords
                     \/ late
  BY DEF Inv, Position, Spent

LEMMA CoverageFacts ==
    ASSUME TypeOK, NEW n \in Nat
    PROVE  /\ Skipped(coverage) \in Coverage
           /\ Skipped(coverage).indexed = coverage.indexed
           /\ Skipped(coverage).truncated = coverage.truncated
           /\ [Skipped(coverage) EXCEPT !.truncated = TRUE] \in Coverage
           /\ [Skipped(coverage) EXCEPT !.truncated = TRUE].indexed = coverage.indexed
           /\ [Skipped(coverage) EXCEPT !.truncated = TRUE].truncated
           /\ [Indexed(coverage) EXCEPT !.partial = @ + n] \in Coverage
           /\ [Indexed(coverage) EXCEPT !.partial = @ + n].indexed = coverage.indexed + 1
           /\ [Indexed(coverage) EXCEPT !.partial = @ + n].truncated = coverage.truncated
<1>1. coverage \in Coverage
  BY DEF TypeOK
<1>2. /\ Skipped(coverage) \in Coverage
      /\ Skipped(coverage).indexed = coverage.indexed
      /\ Skipped(coverage).truncated = coverage.truncated
  BY <1>1 DEF Skipped, Coverage
<1>3. /\ Indexed(coverage) \in Coverage
      /\ Indexed(coverage).indexed = coverage.indexed + 1
      /\ Indexed(coverage).truncated = coverage.truncated
  BY <1>1 DEF Indexed, Coverage
<1>4. ASSUME NEW c \in Coverage
      PROVE  /\ [c EXCEPT !.truncated = TRUE] \in Coverage
             /\ [c EXCEPT !.truncated = TRUE].indexed = c.indexed
             /\ [c EXCEPT !.truncated = TRUE].truncated
  BY DEF Coverage
<1>5. ASSUME NEW c \in Coverage
      PROVE  /\ [c EXCEPT !.partial = @ + n] \in Coverage
             /\ [c EXCEPT !.partial = @ + n].indexed = c.indexed
             /\ [c EXCEPT !.partial = @ + n].truncated = c.truncated
  BY DEF Coverage
<1> QED BY <1>2, <1>3, <1>4, <1>5

\* What is left of an invariant to show when an outcome has been dealt with.
LEMMA MergeKeeps ==
    ASSUME Inv, Merging, parsed' = Tail(parsed),
           UNCHANGED <<eligible, keep, late, phase, from, inTime, slices, panicked, joined, lost>>,
           coverage' \in Coverage, coverage'.indexed = Len(index'),
           index' \in Seq(Nat), bytes' \in Nat, records' \in Nat,
           InOrder', Accounted', SoFarAlike'
    PROVE  Inv'
<1>1. TypeOK /\ Position /\ phase = "merging" /\ parsed \in Seq(Item) /\ parsed # <<>>
  BY MergingFacts DEF Inv
<1>2. parsed' \in Seq(Item)
  BY <1>1, Popped
<1>3. TypeOK'
  BY <1>1, <1>2 DEF TypeOK
<1>4. Position'
  BY <1>1 DEF Position
<1>5. SlicesHonest'
  BY <1>1 DEF SlicesHonest
<1> QED BY <1>3, <1>4, <1>5 DEF Inv

LEMMA MergeOverBudgetKeeps ==
    ASSUME Inv, MergeOverBudget
    PROVE  Inv'
<1>1. /\ Merging /\ Spent /\ parsed' = Tail(parsed)
      /\ coverage' = [Skipped(coverage) EXCEPT !.truncated = TRUE]
      /\ UNCHANGED <<eligible, keep, late, phase, from, inTime, slices, panicked, joined, index,
                     bytes, records, lost>>
  BY DEF MergeOverBudget, input
<1>2. TypeOK /\ coverage.indexed = Len(index)
  BY DEF Inv, Position
<1>3. coverage' \in Coverage /\ coverage'.indexed = Len(index') /\ coverage'.truncated
  BY <1>1, <1>2, CoverageFacts
<1>4. PICK at : at = Head(parsed).at
  OBVIOUS
<1>5. Excused(at)'
  BY <1>3 DEF Excused
<1>6. ~late => [index |-> index', bytes |-> bytes', records |-> records'] =
                  MergeOne(eligible, keep, [index |-> index, bytes |-> bytes, records |-> records], at)
  BY <1>1, SpentFacts DEF MergeOne
<1>7. InOrder' /\ Accounted' /\ SoFarAlike'
  BY <1>1, <1>3, <1>4, <1>5, <1>6, Taken
<1> QED BY <1>1, <1>2, <1>3, <1>7, MergeKeeps DEF TypeOK

LEMMA MergeUnreadKeeps ==
    ASSUME Inv, MergeUnread
    PROVE  Inv'
<1>1. /\ Merging /\ Head(parsed).outcome = "unread" /\ parsed' = Tail(parsed)
      /\ coverage' = Skipped(coverage)
      /\ UNCHANGED <<eligible, keep, late, phase, from, inTime, slices, panicked, joined, index,
                     bytes, records, lost>>
  BY DEF MergeUnread, Found, input
<1>2. TypeOK /\ coverage.indexed = Len(index)
  BY DEF Inv, Position
<1>3. coverage' \in Coverage /\ coverage'.indexed = Len(index')
      /\ (coverage.truncated => coverage'.truncated)
  BY <1>1, <1>2, CoverageFacts
<1>4. PICK at : at = Head(parsed).at
  OBVIOUS
<1>5. ~eligible[at].read
  BY <1>1, <1>4, MergingFacts DEF Honest
<1>6. Excused(at)'
  BY <1>1, <1>5 DEF Excused
<1>7. [index |-> index', bytes |-> bytes', records |-> records'] =
         MergeOne(eligible, keep, [index |-> index, bytes |-> bytes, records |-> records], at)
  BY <1>1, <1>5 DEF MergeOne
<1>8. InOrder' /\ Accounted' /\ SoFarAlike'
  BY <1>1, <1>3, <1>4, <1>6, <1>7, Taken
<1> QED BY <1>1, <1>2, <1>3, <1>8, MergeKeeps DEF TypeOK

LEMMA MergeFailedKeeps ==
    ASSUME Inv, MergeFailed
    PROVE  Inv'
<1>1. /\ Merging /\ ~Spent /\ Head(parsed).outcome = "failed" /\ parsed' = Tail(parsed)
      /\ bytes' = bytes + Here.bytes /\ coverage' = Skipped(coverage)
      /\ UNCHANGED <<eligible, keep, late, phase, from, inTime, slices, panicked, joined, index,
                     records, lost>>
  BY DEF MergeFailed, Found, input
<1>2. TypeOK /\ coverage.indexed = Len(index)
  BY DEF Inv, Position
<1>3. coverage' \in Coverage /\ coverage'.indexed = Len(index')
      /\ (coverage.truncated => coverage'.truncated)
  BY <1>1, <1>2, CoverageFacts
<1>4. PICK at : at = Head(parsed).at
  OBVIOUS
<1>5. ~late /\ ~(Len(index) >= MaxFiles \/ bytes >= MaxBytes \/ records >= MaxRecords)
  BY <1>1, SpentFacts
<1>6. eligible[at].read /\ eligible[at].parse = "fails" /\ Here = eligible[at]
  BY <1>1, <1>4, <1>5, MergingFacts DEF Honest, Here
<1>7. Excused(at)'
  BY <1>1, <1>6 DEF Excused
<1>8. [index |-> index', bytes |-> bytes', records |-> records'] =
         MergeOne(eligible, keep, [index |-> index, bytes |-> bytes, records |-> records], at)
  BY <1>1, <1>5, <1>6 DEF MergeOne
<1>9. InOrder' /\ Accounted' /\ SoFarAlike'
  BY <1>1, <1>3, <1>4, <1>7, <1>8, Taken
<1>10. bytes' \in Nat
  <2>1. Here.bytes \in Nat /\ bytes \in Nat
    BY <1>1, <1>2, MergingFacts DEF File, TypeOK
  <2> QED BY <1>1, <2>1
<1> QED BY <1>1, <1>2, <1>3, <1>9, <1>10, MergeKeeps DEF TypeOK

LEMMA MergeFileKeeps ==
    ASSUME Inv, MergeFile
    PROVE  Inv'
<1>1. /\ Merging /\ ~Spent /\ Head(parsed).outcome = "parsed" /\ parsed' = Tail(parsed)
      /\ bytes' = bytes + Here.bytes /\ records' = records + RecordsOf(Here, keep)
      /\ index' = Append(index, Head(parsed).at)
      /\ \E n \in {0, 1} : coverage' = [Indexed(coverage) EXCEPT !.partial = @ + n]
      /\ UNCHANGED <<eligible, keep, late, phase, from, inTime, slices, panicked, joined, lost>>
  BY DEF MergeFile, Found, input
<1>2. TypeOK /\ coverage.indexed = Len(index)
  BY DEF Inv, Position
<1>3. PICK at \in Nat : at = Head(parsed).at
  BY <1>1, MergingFacts
<1>4. index' \in Seq(Nat) /\ Len(index') = Len(index) + 1
  <2>1. index \in Seq(Nat)
    BY <1>2 DEF TypeOK
  <2> QED BY <1>1, <1>3, <2>1, Appended
<1>5. coverage' \in Coverage /\ coverage'.indexed = Len(index')
      /\ (coverage.truncated => coverage'.truncated)
  <2>1. PICK n \in Nat : coverage' = [Indexed(coverage) EXCEPT !.partial = @ + n]
    BY <1>1
  <2> QED BY <1>2, <1>4, <2>1, CoverageFacts
<1>6. ~late /\ ~(Len(index) >= MaxFiles \/ bytes >= MaxBytes \/ records >= MaxRecords)
  BY <1>1, SpentFacts
<1>7. eligible[at].read /\ eligible[at].parse # "fails" /\ Here = eligible[at]
  BY <1>1, <1>3, MergingFacts DEF Honest, Here
<1>8. [index |-> index', bytes |-> bytes', records |-> records'] =
         MergeOne(eligible, keep, [index |-> index, bytes |-> bytes, records |-> records], at)
  BY <1>1, <1>3, <1>6, <1>7 DEF MergeOne
<1>9. InOrder' /\ Accounted' /\ SoFarAlike'
  BY <1>1, <1>3, <1>5, <1>8, Taken
<1>10. bytes' \in Nat /\ records' \in Nat
  <2>1. /\ Here.bytes \in Nat /\ Here.calls \in Nat /\ Here.others \in Nat
        /\ bytes \in Nat /\ records \in Nat
    BY <1>1, <1>2, MergingFacts DEF File, TypeOK
  <2>2. RecordsOf(Here, keep) \in Nat
    BY <2>1 DEF RecordsOf
  <2> QED BY <1>1, <2>1, <2>2
<1> QED BY <1>1, <1>4, <1>5, <1>9, <1>10, MergeKeeps
-----------------------------------------------------------------------------
(* Batches begin and end; the clock. *)

\* A batch begins with a thread, and with none of its files behind it.
LEMMA BatchStarts ==
    TypeOK /\ from < Len(eligible) =>
        /\ UpTo(0) = from /\ 1 \in Threads(from)
        /\ \A t \in Threads(from) : Len(Slice(t)) \in Nat
<1> SUFFICES ASSUME TypeOK, from < Len(eligible)
             PROVE  /\ UpTo(0) = from /\ 1 \in Threads(from)
                    /\ \A t \in Threads(from) : Len(Slice(t)) \in Nat
  OBVIOUS
<1>1. 1 \in Threads(from)
  BY ThreadFacts
<1>2. UpTo(0) = from
  BY UpToFacts
<1> QED BY <1>1, <1>2, SliceFacts

LEMMA NothingYet ==
    /\ Len(<<>>) = 0 /\ DOMAIN <<>> = {}
    /\ \A S : <<>> \in Seq(S)
  OBVIOUS

LEMMA NextBatchKeeps ==
    ASSUME Inv, NextBatch
    PROVE  Inv'
<1>1. /\ TypeOK /\ Position /\ InOrder /\ Accounted /\ SoFarAlike
      /\ phase = "merging" /\ parsed = <<>> /\ from' = from + Size
      /\ phase' = IF from' < Len(eligible) THEN "parsing" ELSE "done"
      /\ inTime' = ~late /\ panicked' = {} /\ joined' = 0
      /\ phase' # "done" => slices' = NoOutcomes(from')
      /\ UNCHANGED <<eligible, keep, late, parsed, index, coverage, bytes, records, lost>>
  BY DEF Inv, NextBatch, input, totals, Size
<1>2. from < Len(eligible)
  BY <1>1 DEF Position
<1>3. /\ from' = Reach /\ from' \in Nat /\ from' <= Len(eligible) /\ Len(eligible) \in Nat
  BY <1>1, <1>2, SizeFacts DEF Reach
<1>4. Threads(from)' = Threads(from')
  BY <1>1 DEF Threads, BatchLen
<1>5. phase' = "parsing" => slices' = [t \in Threads(from)' |-> <<>>]
  BY <1>1, <1>4 DEF NoOutcomes
<1>6. TypeOK'
  <2>1. phase' = "parsing" => slices' \in [Threads(from)' -> Seq(Item)]
    BY <1>5, NothingYet
  <2>2. inTime' \in BOOLEAN /\ late' \in BOOLEAN /\ panicked' \subseteq Nat /\ joined' \in Nat
    BY <1>1 DEF TypeOK
  <2> QED BY <1>1, <1>3, <2>1, <2>2 DEF TypeOK
<1>7. (TypeOK /\ from < Len(eligible))' =>
        (/\ UpTo(0) = from /\ 1 \in Threads(from)
         /\ \A t \in Threads(from) : Len(Slice(t)) \in Nat)'
  BY BatchStarts, PTL
<1>8. phase' = "parsing" =>
        /\ UpTo(0)' = from' /\ 1 \in Threads(from)'
        /\ \A t \in Threads(from)' : Len(Slice(t))' \in Nat
  BY <1>1, <1>6, <1>7
<1>9. UpTo(joined)' = UpTo(0)'
  BY <1>1 DEF UpTo
<1>10. Reach' = Reach
  BY <1>1, <1>3, <1>8, <1>9 DEF Reach
<1>11. Position'
  <2>1. phase' = "done" => from' = Len(eligible)
    BY <1>1, <1>3
  <2>2. phase' = "parsing" => (joined + 1 \in Threads(from))'
    BY <1>1, <1>8
  <2>3. late' = late /\ (~inTime' => late')
    BY <1>1 DEF TypeOK
  <2> QED BY <1>1, <2>1, <2>2, <2>3 DEF Position
<1>12. SlicesHonest'
  <2>1. phase' = "parsing" => \A t \in Threads(from)' :
           Len(slices'[t]) <= Len(Slice(t))' /\ DOMAIN slices'[t] = {}
    BY <1>5, <1>8, NothingYet
  <2> QED BY <1>1, <2>1 DEF SlicesHonest
<1>13. InOrder'
  <2>1. \A j \in DOMAIN index : index[j] <= Reach
    BY <1>1 DEF InOrder
  <2>2. ListedOrder'
    BY <1>1 DEF InOrder, ListedOrder
  <2>3. DOMAIN parsed' = {}
    BY <1>1
  <2> QED BY <1>1, <1>3, <1>10, <2>1, <2>2, <2>3 DEF InOrder
<1>14. Accounted'
  BY <1>1, <1>10 DEF Accounted, Excused
<1>15. SoFarAlike'
  <2>1. Merged' = Merged
    BY <1>1, <1>10 DEF Merged
  <2> QED BY <1>1, <2>1 DEF SoFarAlike
<1> QED BY <1>6, <1>11, <1>12, <1>13, <1>14, <1>15 DEF Inv

LEMMA TimePassesKeeps ==
    ASSUME Inv, TimePasses \/ UNCHANGED vars
    PROVE  Inv'
<1>1. /\ TypeOK /\ Position /\ SlicesHonest /\ InOrder /\ Accounted /\ SoFarAlike
      /\ UNCHANGED <<eligible, keep, phase, from, inTime, slices, panicked, joined, parsed, index,
                     coverage, bytes, records, lost>>
      /\ late' \in BOOLEAN /\ (late => late')
  BY DEF Inv, TypeOK, TimePasses, vars, input, totals
<1>2. TypeOK'
  BY <1>1, SameBatch DEF TypeOK
<1>3. Position'
  BY <1>1, SameBatch DEF Position
<1>4. SlicesHonest'
  <2>1. /\ Threads(from)' = Threads(from)
        /\ \A u : Slice(u)' = Slice(u)
    BY <1>1, SameBatch
  <2>2. phase = "parsing" =>
          /\ \A u \in Threads(from) : \A k \in DOMAIN slices[u] : Honest(slices[u][k])'
    BY <1>1 DEF SlicesHonest, Honest, Places
  <2> QED BY <1>1, <2>1, <2>2 DEF SlicesHonest
<1>5. InOrder' /\ Accounted' /\ SoFarAlike'
  BY <1>1, Standing
<1> QED BY <1>2, <1>3, <1>4, <1>5 DEF Inv

LEMMA InvInit == Init => Inv
<1> SUFFICES ASSUME Init PROVE Inv
  OBVIOUS
<1>1. /\ eligible \in Seq(File) /\ Len(eligible) \in Nat
      /\ keep \in BOOLEAN /\ late \in BOOLEAN /\ inTime = ~late
      /\ from = 0 /\ panicked = {} /\ joined = 0 /\ parsed = <<>> /\ index = <<>>
      /\ coverage = NoCoverage /\ bytes = 0 /\ records = 0 /\ lost = {}
      /\ phase = IF eligible = <<>> THEN "done" ELSE "parsing"
      /\ eligible # <<>> => slices = NoOutcomes(0)
  BY BuildAssumption DEF Init
<1>2. eligible # <<>> => from < Len(eligible)
  BY <1>1
<1>3. phase = "parsing" => slices = [t \in Threads(from) |-> <<>>]
  BY <1>1 DEF NoOutcomes
<1>4. coverage \in Coverage /\ coverage.indexed = 0
  BY <1>1 DEF NoCoverage, Coverage
<1>5. TypeOK
  <2>1. phase = "parsing" => slices \in [Threads(from) -> Seq(Item)]
    BY <1>3, NothingYet
  <2> QED BY <1>1, <1>4, <2>1, NothingYet DEF TypeOK
<1>6. phase = "parsing" =>
        /\ UpTo(0) = from /\ 1 \in Threads(from)
        /\ \A t \in Threads(from) : Len(Slice(t)) \in Nat
  BY <1>1, <1>2, <1>5, BatchStarts
<1>7. Reach = 0
  BY <1>1, <1>6 DEF Reach
<1>a. Len(parsed) = 0 /\ Len(index) = 0
  <2>1. parsed = <<>> /\ index = <<>>
    BY <1>1
  <2> QED BY <2>1, NothingYet
<1>8. Position
  <2>1. phase = "done" => from = Len(eligible)
    <3>1. phase = "done" => eligible = <<>>
      BY <1>1
    <3> QED BY <1>1, <3>1, NothingYet
  <2>2. phase = "parsing" => from < Len(eligible) /\ joined + 1 \in Threads(from)
    BY <1>1, <1>2, <1>6
  <2> QED BY <1>1, <1>4, <1>a, <2>1, <2>2 DEF Position
<1>9. SlicesHonest
  <2>1. phase = "parsing" => \A t \in Threads(from) :
           Len(slices[t]) <= Len(Slice(t)) /\ DOMAIN slices[t] = {}
    BY <1>3, <1>6, NothingYet
  <2> QED BY <1>1, <2>1 DEF SlicesHonest
<1>10. InOrder /\ Accounted
  BY <1>1, <1>7, NothingYet DEF InOrder, Accounted, ListedOrder
<1>11. SoFarAlike
  <2>1. Merged = 0
    BY <1>7, <1>a DEF Merged
  <2>2. OneThread(eligible, keep)[0] = NothingBuilt
    BY <1>1, OneThreadGoesOn
  <2> QED BY <1>1, <2>1, <2>2, NothingYet DEF SoFarAlike, NothingBuilt
<1> QED BY <1>5, <1>8, <1>9, <1>10, <1>11 DEF Inv

-----------------------------------------------------------------------------
(* The theorems. *)

\* In every state of a build the outcomes at hand are true of their files, wait
\* in the order of the files, and account for every file the caller is past.
THEOREM Correctness == Spec => []Inv
<1>1. Inv /\ [Next]_vars => Inv'
  <2> SUFFICES ASSUME Inv, [Next]_vars PROVE Inv'
    OBVIOUS
  <2>1. ASSUME NEW t \in 1 .. Workers, ParseFile(t) PROVE Inv'
    BY <2>1, ParseFileKeeps
  <2>2. ASSUME NEW t \in 1 .. Workers, ParserPanics(t) PROVE Inv'
    BY <2>2, ParserPanicsKeeps
  <2>3. CASE Join
    BY <2>3, JoinKeeps
  <2>4. CASE MergeOverBudget
    BY <2>4, MergeOverBudgetKeeps
  <2>5. CASE MergeUnread
    BY <2>5, MergeUnreadKeeps
  <2>6. CASE MergeFailed
    BY <2>6, MergeFailedKeeps
  <2>7. CASE MergeFile
    BY <2>7, MergeFileKeeps
  <2>8. CASE NextBatch
    BY <2>8, NextBatchKeeps
  <2>9. CASE TimePasses \/ UNCHANGED vars
    BY <2>9, TimePassesKeeps
  <2> QED BY <2>1, <2>2, <2>3, <2>4, <2>5, <2>6, <2>7, <2>8, <2>9 DEF Next, Work
<1> QED BY InvInit, <1>1, PTL DEF Spec

\* The outcomes, the index and the counts of a build are of the shapes the code
\* gives them, for every corpus.
THEOREM TypeCorrect == Spec => []TypeOK
<1>1. Inv => TypeOK
  BY DEF Inv
<1> QED BY Correctness, <1>1, PTL

\* However the threads interleave, panic or run out of time, files are merged in
\* the order they were listed in and none of them twice.
THEOREM ListedOrderAlways == Spec => []ListedOrder
<1>1. Inv => ListedOrder
  BY DEF Inv, InOrder
<1> QED BY Correctness, <1>1, PTL

\* A file that could be read and parsed, and whose thread did not panic, is in the
\* index or the answer says the budget ran out.
THEOREM AbsenceSaidAlways == Spec => []AbsenceSaid
<1>1. Inv => AbsenceSaid
  <2> SUFFICES ASSUME Inv, phase = "done", NEW i \in Places \ (ToSet(index) \cup lost)
               PROVE  \/ ~eligible[i].read
                      \/ eligible[i].parse = "fails"
                      \/ coverage.truncated
    BY DEF AbsenceSaid
  <2>1. TypeOK /\ Position /\ Accounted
    BY DEF Inv
  <2>2. Reach = Len(eligible) /\ DOMAIN parsed = {}
    BY <2>1 DEF Position, Reach
  <2>3. i \in 1 .. Reach
    BY <2>1, <2>2 DEF Places, TypeOK
  <2> QED BY <2>1, <2>2, <2>3 DEF Accounted, Excused, ToSet
<1> QED BY Correctness, <1>1, PTL

\* With time left and no panic, any number of threads and batches of any size
\* build what a single thread builds file after file.
THEOREM LikeOneThreadAlways == Spec => []LikeOneThread
<1>1. Inv => LikeOneThread
  <2> SUFFICES ASSUME Inv, phase = "done", ~late, lost = {}
               PROVE  [index |-> index, bytes |-> bytes, records |-> records] =
                          OneThread(eligible, keep)[Len(eligible)]
    BY DEF LikeOneThread
  <2>1. TypeOK /\ Position /\ SoFarAlike
    BY DEF Inv
  <2>2. Reach = Len(eligible) /\ parsed = <<>> /\ Len(eligible) \in Nat
    BY <2>1 DEF Position, Reach, TypeOK
  <2>3. Merged = Len(eligible)
    BY <2>2, NothingYet DEF Merged
  <2> QED BY <2>1, <2>3 DEF SoFarAlike
<1> QED BY Correctness, <1>1, PTL
=============================================================================
