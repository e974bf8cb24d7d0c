---------------------------- MODULE MCIndexBuild ----------------------------
(***************************************************************************)
(* IndexBuild on every list of four source files of six sorts, and every   *)
(* list of up to two that may hold a file of an unknown language, in       *)
(* batches of three parsed by two threads: a full batch has slices of two  *)
(* files and one, and the last batch is a single file parsed by the        *)
(* caller.  Three files, five bytes or four records fill the index, so     *)
(* that a list of four can meet each ceiling before its end.               *)
(***************************************************************************)
EXTENDS IndexBuild

SourceFile(parse, size, calls, others) ==
    [supported |-> TRUE, read |-> TRUE, parse |-> parse,
     bytes |-> size, calls |-> calls, others |-> others]

Clean  == SourceFile("clean", 1, 1, 1)
Large  == SourceFile("clean", 3, 0, 0)
Rich   == SourceFile("partial", 1, 2, 1)
Broken == SourceFile("fails", 2, 0, 0)
Cursed == SourceFile("panics", 1, 1, 0)
Binary == [Clean EXCEPT !.read = FALSE]
Text   == [Clean EXCEPT !.supported = FALSE]

Sorts == {Clean, Large, Rich, Broken, Cursed, Binary}

MCCorpora ==
    [1 .. 4 -> Sorts] \cup UNION {[1 .. n -> Sorts \cup {Text}] : n \in 0 .. 2}

=============================================================================
