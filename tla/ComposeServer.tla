---------------------------- MODULE ComposeServer ----------------------------
(***************************************************************************)
(* compose_server.py (src/experiments/): a proxy that shows the agent one  *)
(* tool, `retrieve`, and runs the steps of a plan against the real server. *)
(*                                                                         *)
(* main() reads one line of the client at a time.  A plan is run step by   *)
(* step, each argument resolved from the first row of an earlier step; any *)
(* other message is relayed and its answer awaited.  While it waits, the   *)
(* proxy reads nothing from the client, and forwards what it did not ask.  *)
(***************************************************************************)
EXTENDS Naturals, Sequences, FiniteSets

CONSTANTS
    Plans,          \* plans the agent may send: sequences of steps
    MaxLines,       \* bound: lines the client writes
    MaxUnprompted   \* bound: lines the server writes of its own accord

\* A step names the earlier step its argument refers to, 0 for none; one that
\* is no {tool, arguments} object is malformed.
Step == [ref : Nat, malformed : BOOLEAN]

ASSUME PlansAssumption ==
    /\ \A p \in Plans : p \in Seq(Step) /\ p # <<>>
    /\ MaxLines \in Nat /\ MaxUnprompted \in Nat

VARIABLES
    pinned,     \* the server has --root and never asks the client for roots
    input,      \* lines of the client main() has not read
    written,    \* how many it has written
    doing,      \* what main() is doing: "reading", "plan", "relay", "gone"
    line,       \* the line it is doing it for
    results,    \* run_plan: rows_per_step, with the step each row list is of
    nextId,     \* Child.next_id
    wire,       \* requests the server has read and not answered
    output,     \* lines of the server the proxy has not read
    serverUp,
    unprompted, \* lines the server has written of its own accord
    out,        \* lines written to the client
    ran         \* history: the answers read for the steps of each plan

server == <<wire, output, serverUp, unprompted>>
client == <<input, written>>
composeVars == <<pinned, client, doing, line, results, nextId, server, out, ran>>

NoLine == [kind |-> "none", id |-> 0, steps |-> <<>>]
FirstStepId == 100  \* stands for 100000: above every id the client uses

ComposeInit ==
    /\ pinned \in BOOLEAN
    /\ input = <<>> /\ written = 0
    /\ doing = "reading" /\ line = NoLine /\ results = <<>> /\ nextId = FirstStepId
    /\ wire = {} /\ output = <<>> /\ serverUp = TRUE /\ unprompted = 0
    /\ out = <<>> /\ ran = [id \in 1 .. MaxLines |-> 0]

-----------------------------------------------------------------------------
(* The client and the real server. *)

\* The client writes a plan, another request, or a notification; requests have
\* ids, and more than one may be under way.
ClientWrites ==
    /\ written < MaxLines /\ doing # "gone"
    /\ written' = written + 1
    /\ \/ \E p \in Plans :
            input' = Append(input, [kind |-> "retrieve", id |-> written + 1, steps |-> p])
       \/ input' = Append(input, [kind |-> "request", id |-> written + 1, steps |-> <<>>])
       \/ input' = Append(input, [kind |-> "notification", id |-> 0, steps |-> <<>>])
    /\ UNCHANGED <<pinned, doing, line, results, nextId, server, out, ran>>

\* The client answers the server's question once it has been forwarded.
ClientAnswers ==
    /\ doing # "gone"
    /\ written < MaxLines
    /\ written' = written + 1
    /\ \E i \in DOMAIN out :
         /\ out[i].kind = "question"
         /\ input' = Append(input, [kind |-> "answer", id |-> out[i].id, steps |-> <<>>])
    /\ UNCHANGED <<pinned, doing, line, results, nextId, server, out, ran>>

\* The server answers a request it has: with rows, without, or with an error.
ServerAnswers(request, rows) ==
    /\ serverUp /\ request \in wire
    /\ wire' = wire \ {request}
    /\ output' = Append(output, [kind |-> "reply", id |-> request, rows |-> rows])
    /\ UNCHANGED <<pinned, client, doing, line, results, nextId, serverUp, unprompted, out, ran>>

\* It says something of its own accord: a notification, or, at work without
\* --root, a roots/list request whose id it counts for itself.
ServerSpeaks ==
    /\ serverUp /\ unprompted < MaxUnprompted
    /\ unprompted' = unprompted + 1
    /\ \E kind \in IF pinned \/ wire = {} THEN {"notice"} ELSE {"notice", "question"} :
         output' = Append(output, [kind |-> kind, id |-> unprompted, rows |-> "none"])
    /\ UNCHANGED <<pinned, client, doing, line, results, nextId, wire, serverUp, out, ran>>

ServerDies ==
    /\ serverUp
    /\ serverUp' = FALSE /\ wire' = {}
    /\ UNCHANGED <<pinned, client, doing, line, results, nextId, output, unprompted, out, ran>>

-----------------------------------------------------------------------------
(* resolve() and run_plan(). *)

\* A reference must name a step that has run and returned a row.
Resolves(step) ==
    step.ref # 0 => step.ref <= Len(results) /\ results[step.ref].rows = "some"

Position == Len(results) + 1

\* Mutant of Said: a plan that stopped hands back nothing.
SaidAll(steps, stopped) ==
    IF stopped THEN [kind |-> "plan", id |-> line.id, steps |-> <<>>, stopped |-> stopped]
    ELSE [kind |-> "plan", id |-> line.id, steps |-> steps, stopped |-> stopped]

\* The combined result: what every step that ran returned, and whether the
\* plan was stopped.
Said(steps, stopped) ==
    [kind |-> "plan", id |-> line.id, steps |-> steps, stopped |-> stopped]

\* A ValueError answers the whole call, and nothing of the plan.
Refusal == [kind |-> "error", id |-> line.id, steps |-> <<>>, stopped |-> TRUE]

Answered(reply) ==
    /\ out' = Append(out, reply)
    /\ doing' = "reading" /\ line' = NoLine /\ results' = <<>>

\* The step at hand is malformed, or refers to what is not there.
StepRefused ==
    /\ doing = "plan" /\ Position <= Len(line.steps)
    /\ line.steps[Position].malformed \/ ~Resolves(line.steps[Position])
    /\ Answered(IF line.steps[Position].malformed THEN Refusal ELSE Said(results, TRUE))
    /\ UNCHANGED <<pinned, client, nextId, server, ran>>

\* Child.call writes the step to the server under an id of the proxy's own.
StepSent ==
    /\ doing = "plan" /\ Position <= Len(line.steps)
    /\ ~line.steps[Position].malformed /\ Resolves(line.steps[Position])
    /\ serverUp
    /\ nextId' = nextId + 1
    /\ wire' = wire \cup {nextId + 1}
    /\ doing' = "call"
    /\ UNCHANGED <<pinned, client, line, results, output, serverUp, unprompted, out, ran>>

\* Writing to a server that is gone breaks the pipe, and main() with it.
PipeBreaks ==
    /\ ~serverUp
    /\ \/ /\ doing = "plan" /\ Position <= Len(line.steps)
          /\ ~line.steps[Position].malformed /\ Resolves(line.steps[Position])
       \/ doing = "relaying"
    /\ doing' = "gone"
    /\ UNCHANGED <<pinned, client, line, results, nextId, server, out, ran>>

\* The structured rows a result carries, or the error it is: no row is guessed from
\* the text a result shows the agent.
RowsOf(reply) == reply.rows

\* Its answer is read: rows are kept, and an error stops the plan.
StepAnswered ==
    /\ doing = "call" /\ output # <<>>
    /\ Head(output).kind = "reply" /\ Head(output).id = nextId
    /\ output' = Tail(output)
    /\ ran' = [ran EXCEPT ![line.id] = @ + 1]
    /\ LET sofar == Append(results, [id |-> nextId, rows |-> RowsOf(Head(output))]) IN
       IF RowsOf(Head(output)) = "error"
       THEN Answered(Said(sofar, TRUE))
       ELSE /\ results' = sofar /\ doing' = "plan"
            /\ UNCHANGED <<line, out>>
    /\ UNCHANGED <<pinned, client, nextId, wire, serverUp, unprompted>>

\* The server closed while answering: the ValueError is the call's answer.
StepCut ==
    /\ doing = "call" /\ output = <<>> /\ ~serverUp
    /\ Answered(Refusal)
    /\ UNCHANGED <<pinned, client, nextId, server, ran>>

PlanEnds ==
    /\ doing = "plan" /\ Position > Len(line.steps)
    /\ Answered(Said(results, FALSE))
    /\ UNCHANGED <<pinned, client, nextId, server, ran>>

-----------------------------------------------------------------------------
(* main() and Child.relay. *)

ReadLine ==
    /\ doing = "reading" /\ input # <<>>
    /\ line' = Head(input) /\ input' = Tail(input)
    /\ doing' = IF Head(input).kind = "retrieve" THEN "plan" ELSE "relaying"
    /\ UNCHANGED <<pinned, written, results, nextId, server, out, ran>>

\* Mutant of RelaySent: a notification is waited for like a request.
RelaySentWaits ==
    /\ doing = "relaying" /\ serverUp
    /\ wire' = IF line.kind = "request" THEN wire \cup {line.id} ELSE wire
    /\ doing' = "relay"
    /\ UNCHANGED <<pinned, client, line, results, nextId, output, serverUp, unprompted, out, ran>>

\* relay() writes the line, and waits whenever the line has an id: for an
\* answer of the client's to the server's question too.
RelaySent ==
    /\ doing = "relaying" /\ serverUp
    /\ wire' = IF line.kind = "request" THEN wire \cup {line.id} ELSE wire
    /\ IF line.kind = "notification"
       THEN doing' = "reading" /\ line' = NoLine
       ELSE doing' = "relay" /\ UNCHANGED line
    /\ UNCHANGED <<pinned, client, results, nextId, output, serverUp, unprompted, out, ran>>

\* Mutant of Matches: the next line the server writes is the answer.
MatchesAny(said) == TRUE

Matches(said) == said.kind # "notice" /\ said.id = line.id

\* The matching line is the answer: rewritten when it is of initialize or
\* tools/list, and written to the client.
RelayAnswered ==
    /\ doing = "relay" /\ output # <<>> /\ Matches(Head(output))
    /\ output' = Tail(output)
    /\ Answered([kind |-> "reply", id |-> Head(output).id, steps |-> <<>>, stopped |-> FALSE])
    /\ UNCHANGED <<pinned, client, nextId, wire, serverUp, unprompted, ran>>

\* The server closed while answering: relay() returns None, and main() goes on
\* to the next line with nothing written.
RelayCut ==
    /\ doing = "relay" /\ output = <<>> /\ ~serverUp
    /\ doing' = "reading" /\ line' = NoLine
    /\ UNCHANGED <<pinned, client, results, nextId, server, out, ran>>

\* Whatever else the server says while the proxy waits is the client's.
Forward ==
    /\ output # <<>>
    /\ \/ doing = "call" /\ ~(Head(output).kind = "reply" /\ Head(output).id = nextId)
       \/ doing = "relay" /\ ~Matches(Head(output))
    /\ output' = Tail(output)
    /\ out' = Append(out, [kind |-> Head(output).kind, id |-> Head(output).id,
                           steps |-> <<>>, stopped |-> FALSE])
    /\ UNCHANGED <<pinned, client, doing, line, results, nextId, wire, serverUp, unprompted, ran>>

ComposeStep ==
    \/ ReadLine \/ StepRefused \/ StepSent \/ PipeBreaks \/ StepAnswered \/ StepCut
    \/ PlanEnds \/ RelaySent \/ RelayAnswered \/ RelayCut \/ Forward

ServerStep == \E r \in wire, rows \in {"some", "none", "error"} : ServerAnswers(r, rows)

ComposeNext ==
    ComposeStep \/ ServerStep \/ ClientWrites \/ ClientAnswers \/ ServerSpeaks \/ ServerDies

\* The proxy runs whenever it can, and a server that is up answers.
ComposeFair == WF_composeVars(ComposeStep) /\ WF_composeVars(ServerStep)

ComposeSpec == ComposeInit /\ [][ComposeNext]_composeVars /\ ComposeFair

-----------------------------------------------------------------------------
(* Properties. *)

IsReply(said) == said.kind \in {"plan", "error", "reply"}

\* Notifications and plan steps in between notwithstanding, the answers an agent
\* gets are to its own requests, each at most once, in the order it made them.
RepliesInOrder ==
    pinned => \A j \in DOMAIN out : IsReply(out[j]) =>
        /\ out[j].id \in 1 .. written
        /\ \A i \in 1 .. j - 1 : IsReply(out[i]) => out[i].id < out[j].id

\* A plan that ends early still hands back every step that ran; all of it is lost
\* only to a malformed step or to the end of the server.
EvidenceKept ==
    \A i \in DOMAIN out :
        /\ out[i].kind = "plan" => Len(out[i].steps) = ran[out[i].id]
        /\ out[i].kind = "error" /\ serverUp =>
               \E p \in Plans : \E k \in DOMAIN p : p[k].malformed /\ ran[out[i].id] = k - 1

\* With a server that never asks, the proxy returns to its input: no message of
\* the client's, and no death of the server, can leave it waiting.
Responsive == pinned /\ doing # "reading" ~> doing \in {"reading", "gone"}
=============================================================================
