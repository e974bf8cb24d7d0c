---------------------------- MODULE MCProxyServers ----------------------------
(***************************************************************************)
(* What an arm puts between its agent and the server, of which one runs:   *)
(* GatedSession with two upstreams, a visible tool on each, and answers    *)
(* that are small or too large for the budget; ComposeServer on plans of   *)
(* up to two steps among three lines of the client; DegradeServer on every *)
(* arm and pages of up to three rows.                                      *)
(***************************************************************************)
EXTENDS GatedSession, ComposeServer, DegradeServer, TLC

CONSTANTS search, concept, hidden, notool

VARIABLE proxy  \* the one this arm runs

MCRoute == (search :> 1) @@ (concept :> 2)
MCReplySizes == {1, 4}

MCPlans ==
    LET Plain == [ref |-> 0, malformed |-> FALSE]
        Then(n) == [ref |-> n, malformed |-> FALSE]
        Bad == [ref |-> 0, malformed |-> TRUE]
    IN  {<<Plain>>, <<Plain, Then(1)>>, <<Plain, Then(2)>>, <<Plain, Bad>>}

MCOptions ==
    {[shuffle |-> s, halve |-> h, blind |-> b, force |-> f] : s, h, b, f \in BOOLEAN}
        \ {[shuffle |-> FALSE, halve |-> FALSE, blind |-> FALSE, force |-> FALSE]}

Uniform(n, fields, tab) == [i \in 1 .. n |-> [fields |-> fields, tab |-> tab /\ i = 1]]

MCPages ==
    LET Kinds == {{"path"}, {"path", "symbol"}, {"caller", "path", "symbol"},
                  {"path", "symbol", "excerpt_truncated"},
                  {"caller", "path", "symbol", "excerpt_truncated"}}
        Even == {Uniform(n, f, t) : n \in 0 .. 3, f \in Kinds, t \in BOOLEAN}
        Mixes == {<<[fields |-> {"path", "symbol"}, tab |-> FALSE],
                    [fields |-> {"caller", "path", "symbol"}, tab |-> FALSE]>>}
    IN  {[rows |-> r, claims |-> Len(r), text |-> TRUE] : r \in Even \cup Mixes}
        \cup {[rows |-> r, claims |-> Len(r) + 1, text |-> TRUE] : r \in Mixes}
        \cup {[rows |-> r, claims |-> Len(r), text |-> FALSE] : r \in {Uniform(2, {"path"}, FALSE)}}

vars == <<proxy, gateVars, composeVars, degradeVars>>

\* The proxies that do not run start in one state only.
Init ==
    /\ proxy \in {"gate", "compose", "degrade"}
    /\ GateInit /\ (proxy # "gate" => kind = "policy")
    /\ ComposeInit /\ (proxy # "compose" => pinned)
    /\ DegradeInit /\ (proxy # "degrade" => arm.shuffle /\ arm.halve /\ arm.blind /\ arm.force)

Next ==
    \/ proxy = "gate" /\ GateNext /\ UNCHANGED <<proxy, composeVars, degradeVars>>
    \/ proxy = "compose" /\ ComposeNext /\ UNCHANGED <<proxy, gateVars, degradeVars>>
    \/ proxy = "degrade" /\ DegradeNext /\ UNCHANGED <<proxy, gateVars, composeVars>>

\* A proxy that does not run has nothing to do, so its fairness asks nothing.
Spec == Init /\ [][Next]_vars /\ GateFair /\ ComposeFair
=============================================================================
