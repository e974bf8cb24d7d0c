----------------------------- MODULE GatedSession -----------------------------
(***************************************************************************)
(* One agent session behind a gate: serve() of comparison_gate.py and of   *)
(* policy_gate.py, their call budgets, and benchmark.MCP, the client each  *)
(* gate keeps per upstream server (src/experiments/).                      *)
(*                                                                         *)
(* The gate reads one request, answers it and reads the next.  A request   *)
(* to an upstream has a deadline; what the upstream writes later stays in  *)
(* the client's queue, in front of the answer to the next request.  Both   *)
(* logs are written between the answer and the reply, and the runner may   *)
(* kill the agent's process group between any two of those writes.  The    *)
(* upstreams run in process groups of their own.                           *)
(***************************************************************************)
EXTENDS Naturals, Sequences

CONSTANTS
    N,              \* upstreams are 1 .. N, in the order of the configuration
    Route,          \* the upstream of every visible tool
    Hidden,         \* a tool name the gate does not expose
    Required,       \* the tool the policy gate wants forwarded first, or NoTool
    NoTool,
    MaxCalls, MaxBytes,
    ReplySizes,     \* sizes of what an upstream answers to tools/call
    FailureSize,    \* size of failure(reason)
    MaxRequests     \* bound: requests the agent makes

ASSUME GateAssumption ==
    /\ N \in Nat \ {0} /\ MaxCalls \in Nat \ {0} /\ MaxBytes \in Nat \ {0}
    /\ FailureSize \in Nat \ {0} /\ ReplySizes \subseteq Nat
    /\ Route \in [DOMAIN Route -> 1 .. N]
    /\ Hidden \notin DOMAIN Route /\ NoTool \notin DOMAIN Route
    /\ Required \in DOMAIN Route \cup {NoTool}

VARIABLES
    kind,           \* which gate runs: "comparison" or "policy"
    at,             \* what the gate is doing
    ask,            \* the agent's request it is doing it for
    todo,           \* upstreams this request still has to ask, the current one first
    sequence,       \* MCP.sequence of each client
    pending,           \* requests each upstream has read and not answered
    messages,       \* MCP.messages of each client
    up,             \* upstreams that are running
    attempts, charged, exhausted,           \* the gate's budget
    firstForwarded,
    answer,         \* the result of the call at hand
    attemptLog, responseLog,                \* the two log files
    info, tools,    \* server-info.json and tools.json have been written
    got             \* history: what the agent has been told

budget == <<attempts, charged, exhausted, firstForwarded>>
clients == <<sequence, pending, messages, up>>
files == <<attemptLog, responseLog, info, tools>>
gateVars == <<kind, at, ask, todo, clients, budget, answer, files, got>>

Visible == DOMAIN Route
Servers == IF kind = "policy" THEN 1 .. 1 ELSE 1 .. N
RouteOf(t) == IF kind = "policy" THEN 1 ELSE Route[t]
Methods == {"initialize", "tools/list", "ping"}
EndOfStream == [id |-> 0, says |-> "eof", of |-> 0, size |-> 0]
NoAnswer == [forwarded |-> FALSE, reason |-> "none", of |-> 0, size |-> 0]
Idle == [method |-> "none", tool |-> NoTool]

GateInit ==
    /\ kind \in {"comparison", "policy"}
    /\ at = "idle" /\ ask = Idle /\ todo = <<>>
    /\ sequence = [u \in 1 .. N |-> 0]
    /\ pending = [u \in 1 .. N |-> {}]
    /\ messages = [u \in 1 .. N |-> <<>>]
    /\ up = 1 .. N
    /\ attempts = 0 /\ charged = 0 /\ exhausted = FALSE /\ firstForwarded = NoTool
    /\ answer = NoAnswer
    /\ attemptLog = <<>> /\ responseLog = <<>> /\ info = FALSE /\ tools = FALSE
    /\ got = <<>>

-----------------------------------------------------------------------------
(* benchmark.MCP: one request at a time, answered by its own id. *)

\* request(): a new id, and the line written to the upstream.  A pipe whose
\* reader is gone raises at once.
Sends(u, of) ==
    /\ sequence' = [sequence EXCEPT ![u] = @ + 1]
    /\ pending' = [pending EXCEPT ![u] = @ \cup {[id |-> sequence[u] + 1, method |-> ask.method, of |-> of]}]
    /\ UNCHANGED <<messages, up>>

\* Mutant of Mine: whatever comes first is taken for the answer.
MineAny(u, message) == TRUE

Mine(u, message) == message.id = sequence[u]

\* The next message of the queue is somebody else's: a late answer.
Discard ==
    /\ at = "waiting"
    /\ LET u == Head(todo) IN
       /\ messages[u] # <<>>
       /\ Head(messages[u]).says # "eof"
       /\ ~Mine(u, Head(messages[u]))
       /\ messages' = [messages EXCEPT ![u] = Tail(@)]
    /\ UNCHANGED <<kind, at, ask, todo, sequence, pending, up, budget, answer, files, got>>

\* The answer request() returns, when it is at the head of the queue.
Ready(u) ==
    {m \in IF messages[u] = <<>> THEN {} ELSE {Head(messages[u])} : m.says # "eof" /\ Mine(u, m)}

Receives(u, message) ==
    /\ messages' = [messages EXCEPT ![u] = Tail(@)]
    /\ UNCHANGED <<sequence, pending, up>>

\* Mutant of RequestRaises: only the end of the stream ends the wait.
RequestRaisesAtEnd(u) ==
    /\ at = "waiting" /\ messages[u] # <<>> /\ Head(messages[u]).says = "eof"
    /\ messages' = [messages EXCEPT ![u] = Tail(@)]
    /\ UNCHANGED <<sequence, pending, up>>

\* request() raises: the deadline passed with nothing in the queue, the stream
\* has ended, or there is nobody left to write to.
RequestRaises(u) ==
    \/ /\ at = "waiting" /\ messages[u] = <<>>
       /\ UNCHANGED clients
    \/ /\ at = "waiting" /\ messages[u] # <<>> /\ Head(messages[u]).says = "eof"
       /\ messages' = [messages EXCEPT ![u] = Tail(@)]
       /\ UNCHANGED <<sequence, pending, up>>
    \/ /\ at = "sending" /\ u \notin up
       /\ sequence' = [sequence EXCEPT ![u] = @ + 1]
       /\ UNCHANGED <<pending, messages, up>>

-----------------------------------------------------------------------------
(* The upstream servers, as far as the gate can tell. *)

\* An upstream answers one of the requests it has, in any order.
UpstreamAnswers(u, request, says, size) ==
    /\ at \notin {"closed", "killed"} /\ u \in up /\ request \in pending[u]
    /\ says \in IF request.method = "tools/list" THEN {"pinned", "other"} ELSE {"result", "error"}
    /\ size \in IF request.method = "tools/call" THEN ReplySizes ELSE {0}
    /\ pending' = [pending EXCEPT ![u] = @ \ {request}]
    /\ messages' = [messages EXCEPT ![u] =
           Append(@, [id |-> request.id, says |-> says, of |-> request.of, size |-> size])]
    /\ UNCHANGED <<kind, at, ask, todo, sequence, up, budget, answer, files, got>>

\* An upstream ends: receive() puts EOFError last in the queue.
UpstreamExits(u) ==
    /\ at \notin {"closed", "killed"} /\ u \in up
    /\ up' = up \ {u}
    /\ pending' = [pending EXCEPT ![u] = {}]
    /\ messages' = [messages EXCEPT ![u] = Append(@, EndOfStream)]
    /\ UNCHANGED <<kind, at, ask, todo, sequence, budget, answer, files, got>>

-----------------------------------------------------------------------------
(* PolicyGate.call and ComparisonGate.call. *)

Spent == attempts + 1 > MaxCalls \/ charged >= MaxBytes \/ exhausted

\* Why the call is refused without being forwarded, "none" when it is not.
RefusalOf(t) ==
    CASE Spent -> "budget_exhausted"
      [] ~Spent /\ t \notin Visible -> "unavailable_tool"
      [] ~Spent /\ t \in Visible /\ kind = "policy" /\ firstForwarded = NoTool
             /\ Required # NoTool /\ t # Required -> "first_tool_policy_violation"
      [] OTHER -> "none"

\* What an answer over the byte budget leaves behind: the policy gate spends
\* what is left, the comparison gate sets `exhausted`.
Latched(over) ==
    IF over THEN IF kind = "policy" THEN <<MaxBytes, exhausted>> ELSE <<charged, TRUE>>
    ELSE <<charged, exhausted>>

\* The tail of call(): meter the answer the upstream gave, or its replacement.
Settle(reason, of, size) ==
    LET over  == charged + size > MaxBytes
        spent == IF over THEN FailureSize ELSE size
    IN  /\ answer' = IF over
                     THEN [forwarded |-> TRUE, reason |-> "response_budget_exhausted",
                           of |-> 0, size |-> FailureSize]
                     ELSE [forwarded |-> TRUE, reason |-> reason, of |-> of, size |-> size]
        /\ charged' = Latched(over)[1] + spent
        /\ exhausted' = Latched(over)[2]
        /\ at' = "answered"

\* call() refuses: the attempt counts, and the refusal's bytes are charged.
Refuse ==
    /\ at = "idle" /\ Len(got) < MaxRequests
    /\ \E t \in Visible \cup {Hidden} :
         /\ RefusalOf(t) # "none"
         /\ ask' = [method |-> "tools/call", tool |-> t]
         /\ answer' = [forwarded |-> FALSE, reason |-> RefusalOf(t), of |-> 0, size |-> FailureSize]
    /\ attempts' = attempts + 1
    /\ charged' = charged + FailureSize
    /\ at' = "answered"
    /\ UNCHANGED <<kind, todo, clients, exhausted, firstForwarded, files, got>>

\* call() forwards: a policy is satisfied by the attempt, whatever comes of it.
ForwardCall ==
    /\ at = "idle" /\ Len(got) < MaxRequests
    /\ \E t \in Visible :
         /\ RefusalOf(t) = "none"
         /\ ask' = [method |-> "tools/call", tool |-> t]
         /\ todo' = <<RouteOf(t)>>
         /\ firstForwarded' = IF firstForwarded = NoTool THEN t ELSE firstForwarded
    /\ attempts' = attempts + 1
    /\ at' = "sending"
    /\ UNCHANGED <<kind, clients, charged, exhausted, answer, files, got>>

CallReturns ==
    /\ at = "waiting" /\ ask.method = "tools/call"
    /\ \E message \in Ready(Head(todo)) :
         /\ Receives(Head(todo), message)
         /\ IF message.says = "error"
            THEN Settle("backend_error", 0, FailureSize)
            ELSE Settle("none", message.of, message.size)
    /\ todo' = <<>>
    /\ UNCHANGED <<kind, ask, attempts, firstForwarded, files, got>>

\* forward() raises; call() turns that into an answer of its own.
CallRaises ==
    /\ ask.method = "tools/call" /\ todo # <<>>
    /\ RequestRaises(Head(todo))
    /\ Settle("backend_error", 0, FailureSize)
    /\ todo' = <<>>
    /\ UNCHANGED <<kind, ask, attempts, firstForwarded, files, got>>

-----------------------------------------------------------------------------
(* serve(). *)

\* initialize, tools/list and ping go to every upstream, one after the other.
TakeRequest(m) ==
    /\ at = "idle" /\ Len(got) < MaxRequests
    /\ ask' = [method |-> m, tool |-> NoTool]
    /\ todo' = [i \in Servers |-> i]
    /\ at' = "sending"
    /\ UNCHANGED <<kind, clients, budget, answer, files, got>>

\* The request is written to the upstream at hand.
SendOn ==
    /\ at = "sending" /\ Head(todo) \in up
    /\ Sends(Head(todo), IF ask.method = "tools/call" THEN attempts ELSE 0)
    /\ at' = "waiting"
    /\ UNCHANGED <<kind, ask, todo, budget, answer, files, got>>

\* The reply is printed; what a call was answered is kept as history.
ReplyIs(of) ==
    /\ got' = Append(got, [attempt |-> IF ask.method = "tools/call" THEN attempts ELSE 0, of |-> of])
    /\ at' = "idle" /\ ask' = Idle /\ todo' = <<>> /\ answer' = NoAnswer

\* An upstream answers a control request: tools/list must be the pinned set.
\* server-info.json and tools.json are written once every upstream has answered;
\* the policy gate keeps neither.
ControlReturns ==
    /\ at = "waiting" /\ ask.method \in Methods
    /\ \E message \in Ready(Head(todo)) :
         /\ Receives(Head(todo), message)
         /\ \/ /\ message.says \in {"error", "other"}
               /\ ReplyIs(0)
               /\ UNCHANGED <<info, tools>>
            \/ /\ message.says \in {"result", "pinned"} /\ Len(todo) > 1
               /\ at' = "sending" /\ todo' = Tail(todo)
               /\ UNCHANGED <<ask, answer, info, tools, got>>
            \/ /\ message.says \in {"result", "pinned"} /\ Len(todo) = 1
               /\ ReplyIs(0)
               /\ info' = (info \/ (ask.method = "initialize" /\ kind = "comparison"))
               /\ tools' = (tools \/ (ask.method = "tools/list" /\ kind = "comparison"))
    /\ UNCHANGED <<kind, budget, attemptLog, responseLog>>

ControlRaises ==
    /\ ask.method \in Methods
    /\ RequestRaises(Head(todo))
    /\ ReplyIs(0)
    /\ UNCHANGED <<kind, budget, files>>

\* The event is written and flushed.
LogAttempt ==
    /\ at = "answered"
    /\ attemptLog' = Append(attemptLog,
           [attempt |-> attempts, tool |-> ask.tool, forwarded |-> answer.forwarded,
            reason |-> answer.reason])
    /\ at' = "logged"
    /\ UNCHANGED <<kind, ask, todo, clients, budget, answer, responseLog, info, tools, got>>

\* Then the body.
LogResponse ==
    /\ at = "logged"
    /\ responseLog' = Append(responseLog, [attempt |-> attempts, of |-> answer.of])
    /\ at' = "recorded"
    /\ UNCHANGED <<kind, ask, todo, clients, budget, answer, attemptLog, info, tools, got>>

\* Mutant of PrintReply: the reply does not wait for the log.
PrintReplyEarly ==
    /\ at \in {"answered", "recorded"}
    /\ ReplyIs(answer.of)
    /\ UNCHANGED <<kind, clients, budget, files>>

\* Then the reply is printed.
PrintReply ==
    /\ at = "recorded"
    /\ ReplyIs(answer.of)
    /\ UNCHANGED <<kind, clients, budget, files>>

\* Standard input ends, or holds something that is no request: the loop is left
\* and close() ends every upstream (stdin closed, three seconds, the signals).
Leave ==
    /\ at = "idle"
    /\ at' = "closed"
    /\ up' = up \ Servers
    /\ pending' = [u \in 1 .. N |-> {}]
    /\ UNCHANGED <<kind, ask, todo, sequence, messages, budget, answer, files, got>>

\* stop_process(agent) kills the agent's group, the gate in it, at any moment.
Killed ==
    /\ at \notin {"closed", "killed"}
    /\ at' = "killed"
    /\ UNCHANGED <<kind, ask, todo, clients, budget, answer, files, got>>

Over == at \in {"closed", "killed"} /\ UNCHANGED gateVars

\* What the gate does without the agent's doing anything.
GateStep ==
    \/ SendOn \/ Discard
    \/ CallReturns \/ CallRaises \/ ControlReturns \/ ControlRaises
    \/ LogAttempt \/ LogResponse \/ PrintReply

AgentStep == Refuse \/ ForwardCall \/ Leave \/ \E m \in Methods : TakeRequest(m)

GateNext ==
    \/ GateStep \/ AgentStep \/ Killed \/ Over
    \/ \E u \in Servers : UpstreamExits(u)
    \/ \E u \in Servers : \E r \in pending[u], size \in ReplySizes \cup {0},
          says \in {"pinned", "other", "result", "error"} : UpstreamAnswers(u, r, says, size)

\* Only the gate is fair: a deadline passes whether or not an upstream answers.
GateFair == WF_gateVars(GateStep)

GateSpec == GateInit /\ [][GateNext]_gateVars /\ GateFair

-----------------------------------------------------------------------------
(* The joined record the scorers read: calls_of of competency_runner.py. *)

\* An attempt whose body was not written reads as a tool error.
Joined(event) ==
    LET bodies == {r \in {responseLog[i] : i \in DOMAIN responseLog} : r.attempt = event.attempt}
    IN  [attempt |-> event.attempt, tool |-> event.tool, forwarded |-> event.forwarded,
         of |-> IF bodies = {} THEN 0 ELSE (CHOOSE r \in bodies : TRUE).of]

CallsOf == [i \in DOMAIN attemptLog |-> Joined(attemptLog[i])]

-----------------------------------------------------------------------------
(* Properties. *)

\* However late an upstream answers, and however often a deadline passed, the
\* body an agent gets for a call is the upstream's answer to that call.
OwnAnswer ==
    /\ \A i \in DOMAIN got : got[i].of \in {0, got[i].attempt}
    /\ \A i \in DOMAIN responseLog : responseLog[i].of \in {0, responseLog[i].attempt}

\* Whatever the agent has been told of a call is on record when it is told,
\* body and all, so that a kill at any moment leaves a transcript whose calls
\* the join of the two logs accounts for.
JoinedAsTold ==
    \A i \in DOMAIN got : got[i].attempt # 0 =>
        \E j \in DOMAIN CallsOf :
            /\ CallsOf[j].attempt = got[i].attempt
            /\ CallsOf[j].of = got[i].of

\* Every request the gate takes up is answered, unless the gate is killed: no
\* upstream can hold it past its deadlines.
EveryAskAnswered == at \in {"sending", "waiting", "answered", "logged", "recorded"}
                        ~> at \in {"idle", "killed"}
=============================================================================
