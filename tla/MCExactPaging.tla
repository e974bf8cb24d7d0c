---------------------------- MODULE MCExactPaging ----------------------------
(***************************************************************************)
(* ExactPaging on every corpus of two files with up to three matches each  *)
(* for a single pattern, and up to two ordinary or undecodable matches     *)
(* each for two patterns.  A response has room for two rows; a client may  *)
(* ask for one row more than the largest limit, and the last matches of a  *)
(* corpus can lie past the largest offset.                                 *)
(***************************************************************************)
EXTENDS ExactPaging

Lines(kinds, n) == UNION {[1 .. k -> kinds] : k \in 0 .. n}

MCCorpora ==
    [1 .. 2 -> [1 .. 1 -> Lines(Kinds, 3)]]
        \cup [1 .. 2 -> [1 .. 2 -> Lines({"text", "bytes"}, 2)]]

=============================================================================
