------------------------- MODULE MCResumableTrials -------------------------
(* Two trials, two processes, three starts, a repository with two contents. *)
EXTENDS ResumableTrials, TLC

MCHarnesses == {"factor", "competency", "benchmark"}

MCSymmetry == Permutations(Runners) \union Permutations(Corpora) \union Permutations(Cells)

=============================================================================
