------------------------------ MODULE IndexBuild ------------------------------
(***************************************************************************)
(* How the files that answer a structural question become an index:        *)
(* StructuralIndex::build and parse_batch (src/src/index/mod.rs).          *)
(*                                                                         *)
(* The eligible files are taken a batch at a time.  A batch is cut into    *)
(* slices, each parsed by a thread of its own while the clock runs; the    *)
(* threads are joined in the order of their slices and the files merged    *)
(* one by one, until a ceiling on files, bytes, records or time is met.    *)
(* What is not merged is counted as skipped, and an exhausted budget is    *)
(* said.                                                                   *)
(*                                                                         *)
(* Of a file only what the build tells apart is kept: whether it can be    *)
(* read, how its parse goes (`parse`), its size, and how many records it   *)
(* brings (`calls`: symbols, imports and call sites; `others`: the         *)
(* identifier references that only a candidate scan keeps).                *)
(***************************************************************************)
EXTENDS Naturals, FiniteSetsExt, SequencesExt

CONSTANTS
    Corpora,    \* sequences of files, in the order the search lists them
    BatchSize,  \* files read and parsed together (256 in the code)
    Workers,    \* available_parallelism()
    MaxFiles,   \* Budget::FILES
    MaxBytes,   \* Budget::BYTES
    MaxRecords  \* Budget::RECORDS

File == [supported : BOOLEAN, read : BOOLEAN, parse : {"clean", "partial", "fails", "panics"},
         bytes : Nat, calls : Nat, others : Nat]

\* Files in a language the parser has a grammar for.
Supported(files) == SelectSeq(files, LAMBDA file : file.supported)

ASSUME BuildAssumption ==
    /\ \A files \in Corpora : Supported(files) \in Seq(File)
    /\ BatchSize \in Nat \ {0} /\ Workers \in Nat \ {0}
    /\ MaxFiles \in Nat /\ MaxBytes \in Nat /\ MaxRecords \in Nat

VARIABLES
    eligible,   \* the files build() was handed, those of unknown languages left out
    keep,       \* keep_references: a candidate scan, not a snapshot
    late,       \* started.elapsed() >= timeout; once true it stays
    phase,      \* "parsing", "merging", "done", or "panicked" with the caller
    from,       \* eligible files before the current batch
    inTime,     \* the batch began before the deadline: its `remaining` is not 0
    slices,     \* per thread: the outcomes of the files it has parsed
    panicked,   \* threads that have panicked
    joined,     \* threads of the batch that have been joined
    parsed,     \* outcomes they returned that are still to be merged
    index,      \* the files merged, in merge order
    coverage,   \* indexed_files, skipped_files, parse_error_files, budget_truncated
    bytes, records,     \* total_bytes, total_records
    lost        \* history: files of threads that have panicked

input  == <<eligible, keep>>
totals == <<index, coverage, bytes, records>>
vars   == <<input, late, phase, from, inTime, slices, panicked, joined, parsed, totals, lost>>

Places == DOMAIN eligible

\* The batch that starts after n eligible files has this many.
BatchLen(n) == Min({BatchSize, Len(eligible) - n})

\* parse_batch parses in the calling thread when there is nothing to share out.
Alone(size)  == Workers <= 1 \/ size <= 1
Stride(size) == IF Alone(size) THEN size ELSE (size + Workers - 1) \div Workers

\* The threads of that batch, and the places of the files in the slice of one.
Threads(n) == LET size == BatchLen(n) IN 1 .. (size + Stride(size) - 1) \div Stride(size)
Slice(t) ==
    LET size == BatchLen(from)
        start == (t - 1) * Stride(size)
    IN  [k \in 1 .. Min({Stride(size), size - start}) |-> from + start + k]

NoOutcomes(n) == [t \in Threads(n) |-> <<>>]

NoCoverage == [indexed |-> 0, skipped |-> 0, partial |-> 0, truncated |-> FALSE]

Init ==
    /\ eligible \in {Supported(files) : files \in Corpora}
    /\ keep \in BOOLEAN
    /\ late \in BOOLEAN
    /\ from = 0
    /\ phase = IF eligible = <<>> THEN "done" ELSE "parsing"
    /\ inTime = ~late
    /\ slices = IF eligible = <<>> THEN <<>> ELSE NoOutcomes(0)
    /\ panicked = {}
    /\ joined = 0 /\ parsed = <<>>
    /\ index = <<>>
    /\ coverage = NoCoverage
    /\ bytes = 0 /\ records = 0
    /\ lost = {}

TimePasses ==
    /\ ~late
    /\ late' = TRUE
    /\ UNCHANGED <<input, phase, from, inTime, slices, panicked, joined, parsed, totals, lost>>

-----------------------------------------------------------------------------
(* parse_batch: the threads. *)

AtFile(t) ==
    /\ phase = "parsing" /\ t \in Threads(from) \ panicked
    /\ Len(slices[t]) < Len(Slice(t))

NextOf(t) == Slice(t)[Len(slices[t]) + 1]

(***************************************************************************)
(* Workspace::text, then parse_file.  The parser gives up at once when the *)
(* batch has no time left, and otherwise only after the whole of           *)
(* `remaining`: the deadline of the build has passed by then.              *)
(***************************************************************************)
Outcomes(file) ==
    IF ~file.read THEN {"unread"}
    ELSE IF ~inTime THEN {"failed"}
    ELSE (IF file.parse = "panics" THEN {}
          ELSE {IF file.parse = "fails" THEN "failed" ELSE "parsed"})
         \cup (IF late THEN {"failed"} ELSE {})

ParseFile(t) ==
    /\ AtFile(t)
    /\ \E o \in Outcomes(eligible[NextOf(t)]) :
            slices' = [slices EXCEPT ![t] = Append(@, [at |-> NextOf(t), outcome |-> o])]
    /\ UNCHANGED <<input, late, phase, from, inTime, panicked, joined, parsed, totals, lost>>

\* A thread panics: its slice is lost with it.  On the caller's own thread the
\* panic goes on through build() and the handler.
ParserPanics(t) ==
    /\ AtFile(t) /\ inTime
    /\ LET file == eligible[NextOf(t)] IN file.read /\ file.parse = "panics"
    /\ panicked' = panicked \cup {t}
    /\ lost' = lost \cup ToSet(Slice(t))
    /\ phase' = IF Alone(BatchLen(from)) THEN "panicked" ELSE phase
    /\ UNCHANGED <<input, late, from, inTime, slices, joined, parsed, totals>>

Returned(t) == IF t \in panicked THEN <<>> ELSE slices[t]

\* Mutant of Joined: what a thread returns goes in front.
JoinedBackwards(t) == Returned(t) \o parsed

\* handle.join().unwrap_or_default(), slice after slice.
Joined(t) == parsed \o Returned(t)

Join ==
    /\ phase = "parsing" /\ joined + 1 \in Threads(from)
    /\ joined + 1 \in panicked \/ Len(slices[joined + 1]) = Len(Slice(joined + 1))
    /\ joined' = joined + 1
    /\ parsed' = Joined(joined')
    /\ phase' = IF joined' + 1 \in Threads(from) THEN "parsing" ELSE "merging"
    /\ UNCHANGED <<input, late, from, inTime, slices, panicked, totals, lost>>

-----------------------------------------------------------------------------
(* build(): the merge. *)

Merging == phase = "merging" /\ parsed # <<>>
Here    == eligible[Head(parsed).at]
Found   == Head(parsed).outcome

\* Mutant of Spent: the clock is not looked at again once a batch is parsed.
SpentUntimed ==
    \/ coverage.indexed >= MaxFiles
    \/ bytes >= MaxBytes
    \/ records >= MaxRecords

Spent ==
    \/ coverage.indexed >= MaxFiles
    \/ bytes >= MaxBytes
    \/ records >= MaxRecords
    \/ late

Skipped(c) == [c EXCEPT !.skipped = @ + 1]

MergeOverBudget ==
    /\ Merging /\ Spent
    /\ parsed' = Tail(parsed)
    /\ coverage' = [Skipped(coverage) EXCEPT !.truncated = TRUE]
    /\ UNCHANGED <<input, late, phase, from, inTime, slices, panicked, joined, index, bytes, records, lost>>

MergeUnread ==
    /\ Merging /\ ~Spent /\ Found = "unread"
    /\ parsed' = Tail(parsed)
    /\ coverage' = Skipped(coverage)
    /\ UNCHANGED <<input, late, phase, from, inTime, slices, panicked, joined, index, bytes, records, lost>>

\* Mutant of MergeFailed: a file that does not parse costs nothing.
MergeFailedFree ==
    /\ Merging /\ ~Spent /\ Found = "failed"
    /\ parsed' = Tail(parsed)
    /\ coverage' = Skipped(coverage)
    /\ UNCHANGED <<input, late, phase, from, inTime, slices, panicked, joined, index, bytes, records, lost>>

MergeFailed ==
    /\ Merging /\ ~Spent /\ Found = "failed"
    /\ parsed' = Tail(parsed)
    /\ bytes' = bytes + Here.bytes
    /\ coverage' = Skipped(coverage)
    /\ UNCHANGED <<input, late, phase, from, inTime, slices, panicked, joined, index, records, lost>>

RecordsOf(file, kept) == file.calls + (IF kept THEN file.others ELSE 0)

Indexed(c) == [c EXCEPT !.indexed = @ + 1]

MergeFile ==
    /\ Merging /\ ~Spent /\ Found = "parsed"
    /\ parsed' = Tail(parsed)
    /\ bytes' = bytes + Here.bytes
    /\ records' = records + RecordsOf(Here, keep)
    /\ index' = Append(index, Head(parsed).at)
    /\ coverage' = [Indexed(coverage) EXCEPT !.partial = @ + (IF Here.parse = "partial" THEN 1 ELSE 0)]
    /\ UNCHANGED <<input, late, phase, from, inTime, slices, panicked, joined, lost>>

\* The batch is merged: the next one is read with the time that is left.
NextBatch ==
    /\ phase = "merging" /\ parsed = <<>>
    /\ from' = from + BatchLen(from)
    /\ phase' = IF from' < Len(eligible) THEN "parsing" ELSE "done"
    /\ inTime' = ~late
    /\ panicked' = {} /\ joined' = 0
    /\ slices' = IF phase' = "done" THEN <<>> ELSE NoOutcomes(from')
    /\ UNCHANGED <<input, late, parsed, totals, lost>>

Work ==
    \/ \E t \in 1 .. Workers : ParseFile(t) \/ ParserPanics(t)
    \/ Join
    \/ MergeOverBudget
    \/ MergeUnread
    \/ MergeFailed
    \/ MergeFile
    \/ NextBatch

Over == phase \in {"done", "panicked"}

Next == Work \/ TimePasses \/ (Over /\ UNCHANGED vars)

\* The threads and the merge run to their end; the clock may stand still.
Spec == Init /\ [][Next]_vars /\ WF_vars(Work)

-----------------------------------------------------------------------------

\* However the threads interleave, files are merged in the order they were
\* listed in and none of them twice: symbol and reference order is part of the
\* answer.
ListedOrder ==
    \A j, k \in DOMAIN index : j < k => index[j] < index[k]

\* What one thread builds with no clock: the merge of one more file, after those
\* before it.
MergeOne(files, kept, acc, i) ==
    IF \/ Len(acc.index) >= MaxFiles
       \/ acc.bytes >= MaxBytes \/ acc.records >= MaxRecords
       \/ ~files[i].read
    THEN acc
    ELSE IF files[i].parse = "fails" THEN [acc EXCEPT !.bytes = @ + files[i].bytes]
    ELSE [index |-> Append(acc.index, i), bytes |-> acc.bytes + files[i].bytes,
          records |-> acc.records + RecordsOf(files[i], kept)]

OneThread(files, kept) ==
    LET upto[n \in 0 .. Len(files)] ==
            IF n = 0 THEN [index |-> <<>>, bytes |-> 0, records |-> 0]
            ELSE MergeOne(files, kept, upto[n - 1], n)
    IN  upto

\* "The snapshot is what a single-threaded build produces and only the wall clock
\* changes": the same files, bytes and records, when the clock does not run out
\* and no thread panics.
LikeOneThread ==
    phase = "done" /\ ~late /\ lost = {} =>
        [index |-> index, bytes |-> bytes, records |-> records] =
            OneThread(eligible, keep)[Len(eligible)]

\* A file that could be read and parsed is missing from the index only when the
\* answer says its budget ran out: a parse that runs out of time inside a thread
\* is never reported as that one file's failure alone.
AbsenceSaid ==
    phase = "done" =>
        \A i \in Places \ (ToSet(index) \cup lost) :
            \/ ~eligible[i].read
            \/ eligible[i].parse = "fails"
            \/ coverage.truncated

\* The comment on a panicking parser: its files are treated "as unreadable rather
\* than losing the whole snapshot, and let the skip count say so".
PanicIsSkipped ==
    phase = "done" => coverage.indexed + coverage.skipped = Len(eligible)

=============================================================================
