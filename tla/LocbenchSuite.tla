----------------------------- MODULE LocbenchSuite -----------------------------
(***************************************************************************)
(* locbench_suite.py: a suite compiled from LOC-BENCH rows, each with a    *)
(* corpus of its own.  For one row after the other a tree is fetched and   *)
(* checked out, the row's gold is looked up in the definitions of that     *)
(* tree and a question is built; then equal files of the trees are         *)
(* replaced by hard links, and the questions are compiled against what is  *)
(* on disk.  The program may be killed between any two of these steps and  *)
(* started again over the trees it left.                                   *)
(*                                                                         *)
(* Rows    the metadata: id, commit, edits (the gold: where and what), the *)
(*         names the statement spells, whether the patch adds a function   *)
(* Trees   the content of each file at each commit; Absent: not there      *)
(* Holds   the names a content defines;  SizeOf  its length in bytes       *)
(* Files   the files of a tree, in the order in which they are sorted      *)
(* MaxKills bounds the kills.                                              *)
(***************************************************************************)
EXTENDS SuiteCheck

CONSTANTS Rows, Trees, Holds, SizeOf, Files, MaxKills

Absent == "absent"

ASSUME LocbenchAssumption ==
    /\ Len(Rows) \in Nat \ {0} /\ DOMAIN Rows = 1..Len(Rows)
    /\ \A i \in DOMAIN Rows :
          LET edits == Rows[i].edits IN Len(edits) \in Nat /\ DOMAIN edits = 1..Len(edits)
    /\ \A i \in DOMAIN Rows : Rows[i].commit \in DOMAIN Trees
    /\ \A c \in DOMAIN Trees : DOMAIN Trees[c] = ToSet(Files)
    /\ Absent \in DOMAIN Holds /\ Holds[Absent] = {}
    /\ MaxKills \in Nat

VARIABLES disk,      \* the directory of each row: its files, those with links, the marker
          phase,     \* what the program does: "fetch", "checkout", "mark", "gold",
                     \* "link", "relink", "compile", "done" or "dead"
          row,       \* the row it is at
          entries,   \* the questions built so far
          skipped,   \* the rows refused so far
          place,     \* the file deduplicate is at, as a position in Places
          seen,      \* the first place of each content
          original,  \* while a link is made: the place it leads to
          problems,  \* compile_each: the questions that do not compile
          kills

locVars == <<disk, phase, row, entries, skipped, place, seen, original, problems, kills>>

Empty == [f \in ToSet(Files) |-> Absent]
Fresh == [files |-> Empty, links |-> {}, marker |-> "none"]

LocInit ==
    /\ disk = [i \in DOMAIN Rows |-> Fresh]
    /\ phase = "fetch" /\ row = 1 /\ entries = <<>> /\ skipped = {}
    /\ place = 1 /\ seen = {} /\ original = 0 /\ problems = {} /\ kills = 0

-----------------------------------------------------------------------------
(* quality_pass.definitions over a tree. *)
TreeIndex(files) ==
    [n \in UNION {Holds[c] : c \in DOMAIN Holds} |->
        {f \in DOMAIN files : n \in Holds[files[f]]}]

(* Where the program goes after a row. *)
NextRow(keeps) ==
    /\ row' = row + 1
    /\ IF row = Len(Rows) THEN phase' = "link" ELSE phase' = "fetch"
    /\ IF keeps = <<>> THEN skipped' = skipped \cup {row} /\ UNCHANGED entries
       ELSE entries' = entries \o keeps /\ UNCHANGED skipped
    /\ UNCHANGED <<place, seen, original, problems, kills>>

(* Refused on the metadata alone, before any fetch. *)
Hopeless(r) == r.adds \/ \E e \in ToSet(r.edits) : e.leaf \in r.words

SkipRow ==
    /\ phase = "fetch" /\ Hopeless(Rows[row])
    /\ NextRow(<<>>) /\ UNCHANGED disk

(* materialise: a marker that names the commit stands for the tree. *)
Reuse ==
    /\ phase = "fetch" /\ ~Hopeless(Rows[row])
    /\ disk[row].marker = Rows[row].commit
    /\ phase' = "gold"
    /\ UNCHANGED <<disk, row, entries, skipped, place, seen, original, problems, kills>>

Fetch ==
    /\ phase = "fetch" /\ ~Hopeless(Rows[row]) /\ disk[row].marker # Rows[row].commit
    /\ \/ phase' = "checkout"
          /\ UNCHANGED <<row, entries, skipped, place, seen, original, problems, kills>>
       \/ NextRow(<<>>)
    /\ UNCHANGED disk

(* The exit status of the checkout is not read: it may stop after some of  *)
(* the files. *)
Checkout ==
    /\ phase = "checkout"
    /\ \E n \in 0..Len(Files) :
          disk' = [disk EXCEPT ![row] = [disk[row] EXCEPT !.files =
                     [f \in ToSet(Files) |->
                        IF f \in ToSet(SubSeq(Files, 1, n)) THEN Trees[Rows[row].commit][f]
                        ELSE disk[row].files[f]]]]
    /\ phase' = "mark"
    /\ UNCHANGED <<row, entries, skipped, place, seen, original, problems, kills>>

Mark ==
    /\ phase = "mark"
    /\ disk' = [disk EXCEPT ![row] = [disk[row] EXCEPT !.marker = Rows[row].commit]]
    /\ phase' = "gold"
    /\ UNCHANGED <<row, entries, skipped, place, seen, original, problems, kills>>

-----------------------------------------------------------------------------
(* gold_for and question_for against the tree that is there. *)
GoldPlaced(r, index) ==
    /\ r.edits # <<>>
    /\ \A e \in ToSet(r.edits) : e.path \in Defining(index, e.leaf)

StemLeaks(r, index) ==
    \E e \in ToSet(r.edits) : e.path \in r.words /\ Defining(index, e.path) # {}

OtherNames(r, files) == Holds[files[r.edits[1].path]] \ {e.leaf : e \in ToSet(r.edits)}

Entry(r, files) ==
    LET gold == [i \in DOMAIN r.edits |-> Identity(r.edits[i].path, r.edits[i].leaf)]
    IN [row |-> row, fingerprint |-> files, asksPath |-> TRUE, helper |-> NoHelper,
        gold |-> IF Len(gold) = 1 THEN Claimed(gold[1]) ELSE Listed(gold),
        words |-> r.words,
        alternates |-> {Identity(r.edits[1].path, n) : n \in OtherNames(r, files)},
        evidence |-> r.edits[1]]

BuildEntry ==
    /\ phase = "gold"
    /\ LET r == Rows[row]
           files == disk[row].files
           index == TreeIndex(files)
       IN IF GoldPlaced(r, index) /\ ~StemLeaks(r, index) /\ OtherNames(r, files) # {}
          THEN NextRow(<<Entry(r, files)>>) ELSE NextRow(<<>>)
    /\ UNCHANGED disk

-----------------------------------------------------------------------------
(* deduplicate: all files of all trees, in order. *)
Places == FlattenSeq([i \in DOMAIN Rows |-> [j \in DOMAIN Files |-> <<i, Files[j]>>]])
At(p) == disk[Places[p][1]].files[Places[p][2]]

EqualFiles(c, d) == c = d

Replaced(tree, f, content) == [tree EXCEPT !.files = [tree.files EXCEPT ![f] = content]]
Linked(tree, f) == [tree EXCEPT !.links = tree.links \cup {f}]

First(p) == {q \in seen : EqualFiles(At(q), At(p))}

(* A file is passed over when it is not there or has links already, kept   *)
(* when it is the first of its content, and unlinked otherwise.            *)
Dedupe ==
    /\ phase = "link" /\ place <= Len(Places)
    /\ LET i == Places[place][1]
           f == Places[place][2]
       IN IF At(place) # Absent /\ f \notin disk[i].links /\ First(place) # {}
          THEN /\ disk' = [disk EXCEPT ![i] = Replaced(disk[i], f, Absent)]
               /\ original' = Min(First(place)) /\ phase' = "relink"
               /\ UNCHANGED <<place, seen>>
          ELSE /\ seen' = IF At(place) = Absent \/ f \in disk[i].links THEN seen
                          ELSE seen \cup {place}
               /\ place' = place + 1
               /\ UNCHANGED <<disk, phase, original>>
    /\ UNCHANGED <<row, entries, skipped, problems, kills>>

(* The link to the first file of this content is made, or it is not and    *)
(* the name is gone. *)
Relink ==
    /\ phase = "relink"
    /\ LET i == Places[place][1]
           f == Places[place][2]
           j == Places[original][1]
           g == Places[original][2]
           linked == [disk EXCEPT ![i] = Linked(Replaced(disk[i], f, At(original)), f)]
       IN \/ disk' = [linked EXCEPT ![j] = Linked(linked[j], g)]
          \/ UNCHANGED disk
    /\ place' = place + 1 /\ phase' = "link"
    /\ UNCHANGED <<row, entries, skipped, seen, original, problems, kills>>

LinksDone ==
    /\ phase = "link" /\ place > Len(Places)
    /\ phase' = "compile"
    /\ UNCHANGED <<disk, row, entries, skipped, place, seen, original, problems, kills>>

-----------------------------------------------------------------------------
(* compile_each: every question against its own corpus, as it is now.      *)
(* None asks for callers, so there is no oracle of them.                   *)
AsBuilt(q) == q.fingerprint
CorpusNow(q) == disk[q.row].files

Uncompilable(q) ==
    Validate(<<q>>, TreeIndex(CorpusNow(q)), <<>>, <<>>) # {}

Compile ==
    /\ phase = "compile"
    /\ problems' = {k \in DOMAIN entries : Uncompilable(entries[k])}
    /\ phase' = "done"
    /\ UNCHANGED <<disk, row, entries, skipped, place, seen, original, kills>>

Succeeds == phase = "done" /\ problems = {} /\ entries # <<>>

LocKilled ==
    /\ phase \notin {"done", "dead"} /\ kills < MaxKills
    /\ phase' = "dead" /\ kills' = kills + 1
    /\ UNCHANGED <<disk, row, entries, skipped, place, seen, original, problems>>

(* Started again: only the disk is left. *)
LocRestart ==
    /\ phase = "dead"
    /\ phase' = "fetch" /\ row' = 1 /\ entries' = <<>> /\ skipped' = {}
    /\ place' = 1 /\ seen' = {} /\ original' = 0 /\ problems' = {}
    /\ UNCHANGED <<disk, kills>>

LocNext ==
    \/ SkipRow \/ Reuse \/ Fetch \/ Checkout \/ Mark \/ BuildEntry
    \/ Dedupe \/ Relink \/ LinksDone \/ Compile
    \/ LocKilled \/ LocRestart

-----------------------------------------------------------------------------
(* A suite that is reported good stands on its trees, whatever the         *)
(* checkouts and links did before: every gold is defined where it is said  *)
(* to be, the evidence is there, and no gold is one of the names that the  *)
(* statement spells. (locbench_suite.py main, compile_each)                *)
ShippedGoldStands ==
    Succeeds =>
        \A q \in ToSet(entries) :
            LET index == TreeIndex(disk[q.row].files)
            IN /\ \A i \in ToSet(Flatten(q.gold)) :
                     /\ PathOf(i) \in Defining(index, i.name)
                     /\ i.name \notin Rows[q.row].words
               /\ q.evidence.path \in Defining(index, q.evidence.leaf)

=============================================================================
