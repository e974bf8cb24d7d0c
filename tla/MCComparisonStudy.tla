-------------------------- MODULE MCComparisonStudy --------------------------
(***************************************************************************)
(* ComparisonStudy with a native arm and a retrieval arm on three          *)
(* questions, two strikes to an arm, and one edit anywhere.                *)
(***************************************************************************)
EXTENDS ComparisonStudy, TLC

CONSTANTS native, retrieval, q1, q2, q3, whole

MCOutcomes ==
    LET good == [exit |-> 0, timeout |-> FALSE, answer |-> TRUE, error |-> "none",
                 mcpFailures |-> FALSE, files |-> TRUE, unexpected |-> FALSE]
    IN  {good,
         [good EXCEPT !.files = FALSE],
         [good EXCEPT !.error = "provider_error", !.exit = 1],
         [good EXCEPT !.timeout = TRUE, !.answer = FALSE]}

\* The questions are interchangeable: none of them is pathless.
MCSymmetry == Permutations(Tasks)

=============================================================================
