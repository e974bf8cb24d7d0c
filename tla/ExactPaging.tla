----------------------------- MODULE ExactPaging -----------------------------
(***************************************************************************)
(* search_exact read page by page: the walk and its Collector              *)
(* (src/src/search/lexical.rs), the 64 KiB trim every reply goes through   *)
(* (fit_response, src/src/tools/mod.rs), and a client that follows         *)
(* next_offset until has_more is false.                                    *)
(*                                                                         *)
(* A call asks for one pattern or for several.  The corpus says which      *)
(* lines of each file match each pattern, in the order grep-searcher       *)
(* reports them; of a line only its kind matters:                          *)
(*   text   an ordinary line, one row                                      *)
(*   bytes  matched, but not UTF-8                                         *)
(*   huge   a row that alone exceeds the response cap                      *)
(* The corpus does not change between the pages.                           *)
(***************************************************************************)
EXTENDS Naturals, FiniteSetsExt, SequencesExt

CONSTANTS
    Corpora,    \* [files -> [patterns -> sequence of kinds]] to search
    Limits,     \* values of `limit` a client passes
    MaxLimit,   \* pagination(): largest limit (100 in the code)
    MaxOffset,  \* pagination(): largest offset (10000 in the code)
    Cap         \* rows a response of MAX_RESPONSE_BYTES has room for

Kinds == {"text", "bytes", "huge"}

\* A corpus has a file at least, and every file its matches of every pattern.
ASSUME PagingAssumption ==
    /\ \A c \in Corpora :
         /\ c \in Seq(Seq(Seq(Kinds))) /\ c # <<>> /\ c[1] # <<>>
         /\ \A f \in DOMAIN c : DOMAIN c[f] = DOMAIN c[1]
    /\ Limits \subseteq Nat
    /\ MaxLimit \in Nat /\ MaxOffset \in Nat /\ Cap \in Nat \ {0}

VARIABLES
    corpus, limit,  \* what is searched, and the client's limit
    phase,          \* "asking", "walking", "done" or "failed"
    offset,         \* the offset of the current call
    file, pattern, line,    \* where the walk is
    hits, seen,     \* per pattern: collected rows and skipped matches
    got,            \* per pattern: every row the client has received
    cut             \* history: a page of several patterns has been trimmed

place == <<file, pattern, line>>
vars  == <<corpus, limit, phase, offset, place, hits, seen, got, cut>>

Files    == DOMAIN corpus
Patterns == DOMAIN corpus[1]

\* Sequences one behind the other: what the first n of them make up.
Joined(parts) ==
    LET upto[n \in 0 .. Len(parts)] == IF n = 0 THEN <<>> ELSE upto[n - 1] \o parts[n]
    IN  upto

\* Every match of pattern p in walk order: files by path, lines within a file.
InFile(p) ==
    [f \in Files |-> [l \in DOMAIN corpus[f][p] |->
        [file |-> f, line |-> l, kind |-> corpus[f][p][l], pattern |-> p]]]
Matches(p) == Joined(InFile(p))[Len(corpus)]

IsRow(m) == m.kind # "bytes"

\* Of the first n matches, the rows that come after the first o of them.
RowsAfter(matches, o) ==
    LET upto[n \in 0 .. Len(matches)] ==
            IF n <= o THEN <<>>
            ELSE IF IsRow(matches[n]) THEN Append(upto[n - 1], matches[n]) ELSE upto[n - 1]
    IN  upto
Rows(p) == RowsAfter(Matches(p), 0)[Len(Matches(p))]

Nothing == [p \in Patterns |-> <<>>]
Zero    == [p \in Patterns |-> 0]

Init ==
    /\ corpus \in Corpora
    /\ limit \in Limits
    /\ phase = "asking"
    /\ offset = 0
    /\ file = 1 /\ pattern = 1 /\ line = 1
    /\ hits = Nothing
    /\ seen = Zero
    /\ got = Nothing
    /\ cut = FALSE

-----------------------------------------------------------------------------
(* One call. *)

\* pagination(): a page outside the bounds is refused.
Refuse ==
    /\ phase = "asking"
    /\ limit \notin 1 .. MaxLimit \/ offset > MaxOffset
    /\ phase' = "failed"
    /\ UNCHANGED <<corpus, limit, offset, place, hits, seen, got, cut>>

\* Mutant of Ask: the skip count outlives the call.
AskKeepsSeen ==
    /\ phase = "asking"
    /\ limit \in 1 .. MaxLimit /\ offset <= MaxOffset
    /\ phase' = "walking"
    /\ file' = 1 /\ pattern' = 1 /\ line' = 1
    /\ hits' = Nothing
    /\ seen' = [p \in Patterns |-> offset]
    /\ UNCHANGED <<corpus, limit, offset, got, cut>>

\* Ripgrep::search starts its walk with empty pages.
Ask ==
    /\ phase = "asking"
    /\ limit \in 1 .. MaxLimit /\ offset <= MaxOffset
    /\ phase' = "walking"
    /\ file' = 1 /\ pattern' = 1 /\ line' = 1
    /\ hits' = Nothing
    /\ seen' = Zero
    /\ UNCHANGED <<corpus, limit, offset, got, cut>>

Here    == corpus[file][pattern]
AtMatch == phase = "walking" /\ file \in Files /\ line \in DOMAIN Here
Full    == Len(hits[pattern]) > limit

\* The walk moves on: the next pattern on this file, or the next file.
NextSearch ==
    /\ line' = 1
    /\ IF pattern + 1 \in Patterns
       THEN pattern' = pattern + 1 /\ UNCHANGED file
       ELSE pattern' = 1 /\ file' = file + 1

\* Mutant of Skip: the match after the offset is skipped too.
SkipOneMore ==
    /\ AtMatch /\ seen[pattern] <= offset
    /\ seen' = [seen EXCEPT ![pattern] = @ + 1]
    /\ line' = line + 1
    /\ UNCHANGED <<corpus, limit, phase, offset, file, pattern, hits, got, cut>>

\* Collector::matched, before the offset: counted and passed over.
Skip ==
    /\ AtMatch /\ seen[pattern] < offset
    /\ seen' = [seen EXCEPT ![pattern] = @ + 1]
    /\ line' = line + 1
    /\ UNCHANGED <<corpus, limit, phase, offset, file, pattern, hits, got, cut>>

\* Collector::matched, one past the limit collected: this file is left.
Leave ==
    /\ AtMatch /\ seen[pattern] >= offset /\ Full
    /\ NextSearch
    /\ UNCHANGED <<corpus, limit, phase, offset, hits, seen, got, cut>>

\* Collector::matched, a line that is not UTF-8: passed over, not counted.
PassBytes ==
    /\ AtMatch /\ seen[pattern] >= offset /\ ~Full
    /\ Here[line] = "bytes"
    /\ line' = line + 1
    /\ UNCHANGED <<corpus, limit, phase, offset, file, pattern, hits, seen, got, cut>>

\* Collector::matched, a row.
Collect ==
    /\ AtMatch /\ seen[pattern] >= offset /\ ~Full
    /\ Here[line] # "bytes"
    /\ hits' = [hits EXCEPT ![pattern] = Append(@,
            [file |-> file, line |-> line, kind |-> Here[line], pattern |-> pattern])]
    /\ line' = line + 1
    /\ UNCHANGED <<corpus, limit, phase, offset, file, pattern, seen, got, cut>>

\* search_path returns: no match of the pattern is left in the file.
FileSearched ==
    /\ phase = "walking" /\ file \in Files /\ line \notin DOMAIN Here
    /\ NextSearch
    /\ UNCHANGED <<corpus, limit, phase, offset, hits, seen, got, cut>>

\* The deadline passes: the whole call fails, whatever it has collected.
TimeOut ==
    /\ phase = "walking"
    /\ phase' = "failed"
    /\ UNCHANGED <<corpus, limit, offset, place, hits, seen, got, cut>>

-----------------------------------------------------------------------------
(* The page, and what is left of it in the reply. *)

Take(seq, n) == SubSeq(seq, 1, Min({n, Len(seq)}))

\* The pages of the patterns, cut to the limit, one behind the other.
Pages   == [p \in Patterns |-> Take(hits[p], limit)]
Page    == Joined(Pages)[Len(Pages)]
HasMore == \E p \in Patterns : Len(hits[p]) > limit

Fits(rows) == Len(rows) <= Cap /\ \A i \in DOMAIN rows : rows[i].kind # "huge"

\* fit_response: rows are popped off the end until the rest fits, but not the
\* last one.
Kept(rows) ==
    IF Fits(rows) THEN Len(rows)
    ELSE Max({k \in DOMAIN rows : k = 1 \/ Fits(SubSeq(rows, 1, k))})

\* Of the first rows of the page, those of pattern p.
RowsOf(p, kept) ==
    SubSeq(Page, Len(Joined(Pages)[p - 1]) + 1, Min({kept, Len(Joined(Pages)[p])}))

\* Mutant of NextOffset: a trimmed page keeps the offset of the whole page.
NextOffsetUntrimmed(kept) == offset + limit

\* next_offset of the reply: past the page, or past the rows that were kept.
NextOffset(kept) == IF kept = Len(Page) THEN offset + limit ELSE offset + kept

WalkOver == phase = "walking" /\ file \notin Files

\* Even one row is too large: the call is an error.
ReplyTooLarge ==
    /\ WalkOver
    /\ ~Fits(SubSeq(Page, 1, Kept(Page)))
    /\ phase' = "failed"
    /\ UNCHANGED <<corpus, limit, offset, place, hits, seen, got, cut>>

\* The reply is sent, and the client asks for the next page if there is one.
Reply ==
    /\ WalkOver
    /\ LET kept == Kept(Page) IN
           /\ Fits(SubSeq(Page, 1, kept))
           /\ got' = [p \in Patterns |-> got[p] \o RowsOf(p, kept)]
           /\ cut' = (cut \/ (kept < Len(Page) /\ Cardinality(Patterns) > 1))
           /\ IF HasMore \/ kept < Len(Page)
              THEN phase' = "asking" /\ offset' = NextOffset(kept)
              ELSE phase' = "done" /\ UNCHANGED offset
    /\ UNCHANGED <<corpus, limit, place, hits, seen>>

Step ==
    \/ Refuse
    \/ Ask
    \/ Skip
    \/ Leave
    \/ PassBytes
    \/ Collect
    \/ FileSearched
    \/ ReplyTooLarge
    \/ Reply

Over == phase \in {"done", "failed"}

Next == Step \/ TimeOut \/ (Over /\ UNCHANGED vars)

\* The server answers and the client goes on asking.
Spec == Init /\ [][Next]_vars /\ WF_vars(Step)

-----------------------------------------------------------------------------

\* Whatever order files and patterns are searched in, each pattern's page is the
\* one its matches define: the rows past the first `offset` matches, up to one
\* beyond the limit - so several patterns in one call get what each gets alone.
BatchEqualsSingle ==
    WalkOver => \A p \in Patterns :
        hits[p] = Take(RowsAfter(Matches(p), offset)[Len(Matches(p))], limit + 1)

\* Following next_offset to the end misses no row, a trimmed page and lines that
\* are not UTF-8 included, unless a page of several patterns was trimmed.
NothingLost ==
    phase = "done" /\ ~cut =>
        \A p \in Patterns : ToSet(got[p]) = ToSet(Rows(p))

\* Where every match is UTF-8 the pages follow one another exactly: what the
\* client holds is the beginning of the rows, none of them twice.
PagesFollow ==
    ~cut => \A p \in Patterns :
        Rows(p) = Matches(p) => IsPrefix(got[p], Rows(p))

\* The documented promise of a trimmed page, for several patterns too: it
\* "reports `has_more` with the `next_offset` those rows stopped at", so that
\* following it to the end misses nothing.
TrimmedPageResumes ==
    phase = "done" => \A p \in Patterns : ToSet(got[p]) = ToSet(Rows(p))

=============================================================================
