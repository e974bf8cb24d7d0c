-------------------------- MODULE ProxyServersProofs --------------------------
(***************************************************************************)
(* Theorems of the proxies that stand between an agent and a server.       *)
(*                                                                         *)
(* GatedSession, for any number of upstreams, tools, requests and late     *)
(* answers, and any budget: the types, OwnAnswer, JoinedAsTold and what    *)
(* the gate lets through (FirstIsRequired, WithinCalls).                   *)
(*                                                                         *)
(* ComposeServer, for any plans, any number of lines of the client, and a  *)
(* server that answers, asks, fails and dies when it likes: the types,     *)
(* RepliesInOrder and EvidenceKept.                                        *)
(*                                                                         *)
(* DegradeServer, for any arm and any pages the server may answer with:    *)
(* the types and SameDamage.                                               *)
(***************************************************************************)
EXTENDS GatedSession, ComposeServer, DegradeServer, TLAPS

-----------------------------------------------------------------------------
(* GatedSession: types and the inductive invariant.                          *)

Tool == Visible \cup {Hidden, NoTool}
Reason == {"none", "budget_exhausted", "unavailable_tool", "first_tool_policy_violation",
           "backend_error", "response_budget_exhausted"}
Request == [id : Nat, method : Methods \cup {"tools/call"}, of : Nat]
Message == [id : Nat, says : {"eof", "pinned", "other", "result", "error"}, of : Nat, size : Nat]

GateTypeOK ==
    /\ kind \in {"comparison", "policy"}
    /\ at \in {"idle", "sending", "waiting", "answered", "logged", "recorded", "closed", "killed"}
    /\ ask \in [method : Methods \cup {"tools/call", "none"}, tool : Tool]
    /\ todo \in Seq(1 .. N)
    /\ sequence \in [1 .. N -> Nat]
    /\ pending \in [1 .. N -> SUBSET Request]
    /\ messages \in [1 .. N -> Seq(Message)]
    /\ up \subseteq 1 .. N
    /\ attempts \in Nat /\ charged \in Nat /\ exhausted \in BOOLEAN
    /\ firstForwarded \in Visible \cup {NoTool}
    /\ answer \in [forwarded : BOOLEAN, reason : Reason, of : Nat, size : Nat]
    /\ attemptLog \in Seq([attempt : Nat, tool : Tool, forwarded : BOOLEAN, reason : Reason])
    /\ responseLog \in Seq([attempt : Nat, of : Nat])
    /\ info \in BOOLEAN /\ tools \in BOOLEAN
    /\ got \in Seq([attempt : Nat, of : Nat])

Called == ask.method = "tools/call"

\* What the gate is doing and what it does it for agree.
GatePosition ==
    /\ at \in {"sending", "waiting"} =>
         todo # <<>> /\ ask.method \in Methods \cup {"tools/call"}
    /\ at \in {"answered", "logged", "recorded"} => Called
    /\ Called => attempts > 0

\* Ids are given out once, so nothing read or queued bears one still to come.
IdsGivenOut ==
    \A u \in 1 .. N :
        /\ \A p \in pending[u] : p.id <= sequence[u]
        /\ \A i \in DOMAIN messages[u] : messages[u][i].id <= sequence[u]

\* Of all that is under way at the upstream the gate waits for, only what
\* belongs to this attempt bears the id it waits for.
WaitedFor ==
    at = "waiting" /\ Called =>
        LET u == Head(todo) IN
        /\ \A p \in pending[u] : p.id = sequence[u] => p.of = attempts
        /\ \A i \in DOMAIN messages[u] :
             messages[u][i].says # "eof" /\ messages[u][i].id = sequence[u]
                => messages[u][i].of = attempts

Attempted(n) == \E j \in DOMAIN attemptLog : attemptLog[j].attempt = n
Body(n, of) == \E k \in DOMAIN responseLog : responseLog[k].attempt = n /\ responseLog[k].of = of
BodyOf(n) == \E k \in DOMAIN responseLog : responseLog[k].attempt = n

\* No attempt is logged before it is made, nor two bodies for one attempt.
LoggedOnce ==
    /\ \A j \in DOMAIN attemptLog : attemptLog[j].attempt <= attempts
    /\ \A k \in DOMAIN responseLog : responseLog[k].attempt <= attempts
    /\ \A j, k \in DOMAIN responseLog : responseLog[j].attempt = responseLog[k].attempt => j = k

\* How far the two logs have got with the attempt at hand.
LoggedSoFar ==
    /\ at \in {"sending", "waiting", "answered"} /\ Called => ~BodyOf(attempts)
    /\ at = "logged" => Attempted(attempts) /\ ~BodyOf(attempts)
    /\ at = "recorded" => Attempted(attempts) /\ Body(attempts, answer.of)

\* The agent is told what is on record.
ToldOnRecord ==
    \A i \in DOMAIN got : got[i].attempt # 0 =>
        Attempted(got[i].attempt) /\ Body(got[i].attempt, got[i].of)

\* The answer at hand is to the attempt at hand.
AnswerOwn == at \in {"answered", "logged", "recorded"} => answer.of \in {0, attempts}

GateInv == /\ GateTypeOK /\ GatePosition /\ IdsGivenOut /\ WaitedFor
       /\ LoggedOnce /\ LoggedSoFar /\ ToldOnRecord /\ AnswerOwn /\ OwnAnswer

-----------------------------------------------------------------------------
(* What the gate lets through. *)

\* The forwarded calls on record are of visible tools and within the budget of calls.
WithinCalls ==
    \A i \in DOMAIN attemptLog : attemptLog[i].forwarded =>
        attemptLog[i].attempt <= MaxCalls /\ attemptLog[i].tool \in Visible

\* The policy gate has forwarded nothing before the tool its policy asks for.
FirstIsRequired ==
    kind = "policy" /\ Required # NoTool =>
        \A i \in DOMAIN attemptLog : attemptLog[i].forwarded =>
            \E j \in 1 .. i : attemptLog[j].forwarded /\ attemptLog[j].tool = Required

Forwarding == \/ at \in {"sending", "waiting"} /\ Called
              \/ at = "answered" /\ answer.forwarded

\* What the gate remembers of the first forwarded tool is on record, or about to be.
FirstKnown ==
    /\ Forwarding => attempts <= MaxCalls /\ ask.tool \in Visible
    /\ kind = "policy" /\ Required # NoTool =>
         /\ firstForwarded \in {NoTool, Required}
         /\ firstForwarded = NoTool =>
              ~Forwarding /\ \A i \in DOMAIN attemptLog : ~attemptLog[i].forwarded
         /\ firstForwarded = Required =>
              \/ \E i \in DOMAIN attemptLog : attemptLog[i].forwarded
              \/ Forwarding /\ ask.tool = Required
              \/ at = "killed"

-----------------------------------------------------------------------------
(* Facts about queues, logs and the steps they are built from. *)

\* What is left of a queue was in it.
LEMMA TailFacts ==
    ASSUME NEW S, NEW s \in Seq(S), s # <<>>
    PROVE  /\ Tail(s) \in Seq(S)
           /\ \A i \in DOMAIN Tail(s) : \E j \in DOMAIN s : Tail(s)[i] = s[j]
  OBVIOUS

\* A longer queue or log is the old one and one thing more, at the end.
LEMMA AppendFacts ==
    ASSUME NEW S, NEW s \in Seq(S), NEW e \in S
    PROVE  /\ Append(s, e) \in Seq(S)
           /\ DOMAIN Append(s, e) = DOMAIN s \cup {Len(s) + 1}
           /\ Len(s) + 1 \notin DOMAIN s
           /\ Append(s, e)[Len(s) + 1] = e
           /\ \A j \in DOMAIN s : Append(s, e)[j] = s[j]
  OBVIOUS

LEMMA ElementIn ==
    ASSUME NEW S, NEW s \in Seq(S)
    PROVE  \A i \in DOMAIN s : s[i] \in S
  OBVIOUS

LEMMA HeadIn ==
    ASSUME NEW S, NEW s \in Seq(S), s # <<>>
    PROVE  /\ Head(s) \in S
           /\ 1 \in DOMAIN s /\ Head(s) = s[1]
  OBVIOUS

\* The upstreams of a request are upstreams, and there is one.
LEMMA ServersAreUpstreams ==
    ASSUME GateTypeOK
    PROVE  /\ [i \in Servers |-> i] \in Seq(1 .. N)
           /\ [i \in Servers |-> i] # <<>>
           /\ Servers \subseteq 1 .. N
<1>1. N \in Nat /\ N >= 1
  BY GateAssumption
<1>2. CASE kind = "policy"
  <2>1. Servers = 1 .. 1
    BY <1>2 DEF Servers
  <2> QED BY <1>1, <2>1
<1>3. CASE kind # "policy"
  <2>1. Servers = 1 .. N
    BY <1>3 DEF Servers
  <2> QED BY <1>1, <2>1
<1> QED BY <1>2, <1>3

LEMMA RouteType == \A t \in Visible : RouteOf(t) \in 1 .. N
  BY GateAssumption DEF RouteOf, Visible

\* What one upstream's queue and requests may become in a step of the gate.
LEMMA RaisedType ==
    ASSUME GateTypeOK, NEW u \in 1 .. N, RequestRaises(u)
    PROVE  /\ sequence' \in [1 .. N -> Nat] /\ pending' = pending /\ up' = up
           /\ messages' \in [1 .. N -> Seq(Message)]
           /\ \A v \in 1 .. N : sequence'[v] >= sequence[v]
           /\ \A v \in 1 .. N : \A i \in DOMAIN messages'[v] :
                \E j \in DOMAIN messages[v] : messages'[v][i] = messages[v][j]
<1>0. /\ \A v \in 1 .. N : sequence[v] \in Nat
      /\ \A v \in 1 .. N : \A i \in DOMAIN messages[v] :
           \E j \in DOMAIN messages[v] : messages[v][i] = messages[v][j]
  BY DEF GateTypeOK
<1>1. CASE UNCHANGED clients
  BY <1>0, <1>1 DEF GateTypeOK, clients
<1>2. CASE /\ messages[u] # <<>>
           /\ messages' = [messages EXCEPT ![u] = Tail(@)]
           /\ UNCHANGED <<sequence, pending, up>>
  <2>1. messages[u] \in Seq(Message)
    BY DEF GateTypeOK
  <2>2. /\ Tail(messages[u]) \in Seq(Message)
        /\ \A i \in DOMAIN Tail(messages[u]) :
             \E j \in DOMAIN messages[u] : Tail(messages[u])[i] = messages[u][j]
    BY <1>2, <2>1, TailFacts
  <2>3. \A v \in 1 .. N : messages'[v] = IF v = u THEN Tail(messages[u]) ELSE messages[v]
    BY <1>2 DEF GateTypeOK
  <2>4. messages' \in [1 .. N -> Seq(Message)]
    BY <1>2, <2>2 DEF GateTypeOK
  <2>5. \A v \in 1 .. N : \A i \in DOMAIN messages'[v] :
          \E j \in DOMAIN messages[v] : messages'[v][i] = messages[v][j]
    BY <2>2, <2>3
  <2> QED BY <1>0, <1>2, <2>4, <2>5 DEF GateTypeOK
<1>3. CASE /\ sequence' = [sequence EXCEPT ![u] = @ + 1]
           /\ UNCHANGED <<pending, messages, up>>
  <2>0. sequence \in [1 .. N -> Nat]
    BY DEF GateTypeOK
  <2>1. sequence' \in [1 .. N -> Nat]
    BY <1>0, <1>3, <2>0
  <2>2. \A v \in 1 .. N : sequence'[v] >= sequence[v]
    BY <1>0, <1>3 DEF GateTypeOK
  <2> QED BY <1>0, <1>3, <2>1, <2>2 DEF GateTypeOK
<1> QED BY <1>1, <1>2, <1>3 DEF RequestRaises

LEMMA ReceivedType ==
    ASSUME GateTypeOK, NEW u \in 1 .. N, NEW message \in Ready(u), Receives(u, message)
    PROVE  /\ UNCHANGED <<sequence, pending, up>>
           /\ messages' \in [1 .. N -> Seq(Message)]
           /\ message \in Message /\ message.says # "eof" /\ message.id = sequence[u]
           /\ \E j \in DOMAIN messages[u] : message = messages[u][j]
           /\ \A v \in 1 .. N : \A i \in DOMAIN messages'[v] :
                \E j \in DOMAIN messages[v] : messages'[v][i] = messages[v][j]
<1>1. messages[u] \in Seq(Message) /\ messages[u] # <<>> /\ message = Head(messages[u])
      /\ message.says # "eof" /\ message.id = sequence[u]
  BY DEF GateTypeOK, Ready, Mine
<1>2. /\ Tail(messages[u]) \in Seq(Message)
      /\ \A i \in DOMAIN Tail(messages[u]) :
           \E j \in DOMAIN messages[u] : Tail(messages[u])[i] = messages[u][j]
  BY <1>1, TailFacts
<1>3. message \in Message /\ \E j \in DOMAIN messages[u] : message = messages[u][j]
  BY <1>1, HeadIn
<1>4. \A v \in 1 .. N : messages'[v] = IF v = u THEN Tail(messages[u]) ELSE messages[v]
  BY DEF GateTypeOK, Receives
<1>5. messages' \in [1 .. N -> Seq(Message)]
  BY <1>2 DEF GateTypeOK, Receives
<1>6. \A v \in 1 .. N : \A i \in DOMAIN messages'[v] :
        \E j \in DOMAIN messages[v] : messages'[v][i] = messages[v][j]
  BY <1>2, <1>4
<1> QED BY <1>1, <1>3, <1>5, <1>6 DEF Receives

\* What the tail of call() leaves: a typed answer that is of this call or of none.
LEMMA SettledType ==
    ASSUME GateTypeOK, NEW reason \in Reason, NEW of \in Nat, NEW size \in Nat, Settle(reason, of, size)
    PROVE  /\ answer' \in [forwarded : BOOLEAN, reason : Reason, of : Nat, size : Nat]
           /\ answer'.forwarded /\ answer'.of \in {0, of}
           /\ charged' \in Nat /\ exhausted' \in BOOLEAN
           /\ at' = "answered"
<1> DEFINE over == charged + size > MaxBytes
<1>1. at' = "answered"
  BY DEF Settle
<1>2. answer' = IF over
                THEN [forwarded |-> TRUE, reason |-> "response_budget_exhausted",
                      of |-> 0, size |-> FailureSize]
                ELSE [forwarded |-> TRUE, reason |-> reason, of |-> of, size |-> size]
  BY DEF Settle
<1>3. Latched(over)[1] \in Nat /\ Latched(over)[2] \in BOOLEAN
  BY GateAssumption DEF Latched, GateTypeOK
<1>4. charged' = Latched(over)[1] + (IF over THEN FailureSize ELSE size)
      /\ exhausted' = Latched(over)[2]
  BY DEF Settle
<1>5. answer' \in [forwarded : BOOLEAN, reason : Reason, of : Nat, size : Nat]
      /\ answer'.forwarded /\ answer'.of \in {0, of}
  BY <1>2, GateAssumption DEF Reason
<1> HIDE DEF over
<1> QED BY <1>1, <1>3, <1>4, <1>5, GateAssumption
-----------------------------------------------------------------------------
(* Types. *)

LEMMA GateTypeInit == GateInit => GateTypeOK
<1> SUFFICES ASSUME GateInit PROVE GateTypeOK
  OBVIOUS
<1>1. ask \in [method : Methods \cup {"tools/call", "none"}, tool : Tool]
  BY DEF GateInit, Idle, Tool
<1>2. answer \in [forwarded : BOOLEAN, reason : Reason, of : Nat, size : Nat]
  BY DEF GateInit, NoAnswer, Reason
<1>3. /\ sequence \in [1 .. N -> Nat]
      /\ pending \in [1 .. N -> SUBSET Request]
      /\ messages \in [1 .. N -> Seq(Message)]
  BY DEF GateInit
<1>4. /\ <<>> \in Seq(1 .. N) /\ <<>> \in Seq([attempt : Nat, of : Nat])
      /\ <<>> \in Seq([attempt : Nat, tool : Tool, forwarded : BOOLEAN, reason : Reason])
  OBVIOUS
<1>5. attempts \in Nat /\ charged \in Nat
  BY DEF GateInit
<1> QED BY <1>1, <1>2, <1>3, <1>4, <1>5 DEF GateInit, GateTypeOK

LEMMA CallsType ==
    ASSUME GateTypeOK, Refuse \/ ForwardCall
    PROVE  GateTypeOK'
<1>1. CASE Refuse
  <2>1. PICK t \in Visible \cup {Hidden} :
          /\ ask' = [method |-> "tools/call", tool |-> t]
          /\ answer' = [forwarded |-> FALSE, reason |-> RefusalOf(t), of |-> 0, size |-> FailureSize]
    BY <1>1 DEF Refuse
  <2>2. RefusalOf(t) \in Reason
    BY Zenon DEF RefusalOf, Reason
  <2>3. ask' \in [method : Methods \cup {"tools/call", "none"}, tool : Tool]
    BY <2>1 DEF Tool
  <2>4. answer' \in [forwarded : BOOLEAN, reason : Reason, of : Nat, size : Nat]
    BY <2>1, <2>2, GateAssumption
  <2>5. attempts' \in Nat /\ charged' \in Nat
    <3>1. attempts \in Nat /\ charged \in Nat /\ FailureSize \in Nat
      BY GateAssumption DEF GateTypeOK
    <3> QED BY <1>1, <3>1 DEF Refuse
  <2> QED BY <1>1, <2>3, <2>4, <2>5 DEF GateTypeOK, Refuse, clients, files
<1>2. CASE ForwardCall
  <2>1. PICK t \in Visible :
          /\ ask' = [method |-> "tools/call", tool |-> t]
          /\ todo' = <<RouteOf(t)>>
          /\ firstForwarded' = IF firstForwarded = NoTool THEN t ELSE firstForwarded
    BY <1>2 DEF ForwardCall
  <2>2. ask' \in [method : Methods \cup {"tools/call", "none"}, tool : Tool]
        /\ firstForwarded' \in Visible \cup {NoTool}
    BY <2>1 DEF Tool, GateTypeOK
  <2>3. todo' \in Seq(1 .. N)
    BY <2>1, RouteType
  <2> QED BY <1>2, <2>2, <2>3 DEF GateTypeOK, ForwardCall, clients, files
<1> QED BY <1>1, <1>2

LEMMA AnsweredCallType ==
    ASSUME GateTypeOK, GatePosition, CallReturns \/ CallRaises
    PROVE  GateTypeOK'
<1>1. CASE CallReturns
  <2>1. Head(todo) \in 1 .. N
    BY <1>1, HeadIn DEF CallReturns, GatePosition, GateTypeOK
  <2>2. PICK message \in Ready(Head(todo)) :
          /\ Receives(Head(todo), message)
          /\ IF message.says = "error"
             THEN Settle("backend_error", 0, FailureSize)
             ELSE Settle("none", message.of, message.size)
    BY <1>1 DEF CallReturns
  <2>3. /\ UNCHANGED <<sequence, pending, up>>
        /\ messages' \in [1 .. N -> Seq(Message)]
        /\ message \in Message
    BY <2>1, <2>2, ReceivedType
  <2>4. message.of \in Nat /\ message.size \in Nat
    BY <2>3 DEF Message
  <2>5. /\ answer' \in [forwarded : BOOLEAN, reason : Reason, of : Nat, size : Nat]
        /\ charged' \in Nat /\ exhausted' \in BOOLEAN /\ at' = "answered"
    BY <2>2, <2>4, SettledType, GateAssumption DEF Reason
  <2> QED BY <1>1, <2>3, <2>5 DEF GateTypeOK, CallReturns, files
<1>2. CASE CallRaises
  <2>1. Head(todo) \in 1 .. N
    BY <1>2, HeadIn DEF CallRaises, GateTypeOK
  <2>2. RequestRaises(Head(todo)) /\ Settle("backend_error", 0, FailureSize)
    BY <1>2 DEF CallRaises
  <2>3. /\ sequence' \in [1 .. N -> Nat] /\ pending' = pending /\ up' = up
        /\ messages' \in [1 .. N -> Seq(Message)]
    BY <2>1, <2>2, RaisedType
  <2>4. /\ answer' \in [forwarded : BOOLEAN, reason : Reason, of : Nat, size : Nat]
        /\ charged' \in Nat /\ exhausted' \in BOOLEAN /\ at' = "answered"
    BY <2>2, SettledType, GateAssumption DEF Reason
  <2> QED BY <1>2, <2>3, <2>4 DEF GateTypeOK, CallRaises, files
<1> QED BY <1>1, <1>2

\* The reply ends the request at hand.
LEMMA RepliedType ==
    ASSUME GateTypeOK, NEW of \in Nat, ReplyIs(of)
    PROVE  /\ got' \in Seq([attempt : Nat, of : Nat])
           /\ at' = "idle" /\ todo' \in Seq(1 .. N)
           /\ ask' \in [method : Methods \cup {"tools/call", "none"}, tool : Tool]
           /\ answer' \in [forwarded : BOOLEAN, reason : Reason, of : Nat, size : Nat]
<1>1. [attempt |-> IF ask.method = "tools/call" THEN attempts ELSE 0, of |-> of]
         \in [attempt : Nat, of : Nat]
  BY DEF GateTypeOK
<1>2. got' \in Seq([attempt : Nat, of : Nat])
  BY <1>1, AppendFacts DEF GateTypeOK, ReplyIs
<1>3. Idle \in [method : Methods \cup {"tools/call", "none"}, tool : Tool]
  BY DEF Idle, Tool
<1>4. NoAnswer \in [forwarded : BOOLEAN, reason : Reason, of : Nat, size : Nat]
  BY DEF NoAnswer, Reason
<1> QED BY <1>2, <1>3, <1>4 DEF ReplyIs

LEMMA ControlType ==
    ASSUME GateTypeOK, GatePosition, ControlReturns \/ ControlRaises
    PROVE  GateTypeOK'
<1>1. CASE ControlReturns
  <2>1. Head(todo) \in 1 .. N /\ todo \in Seq(1 .. N) /\ todo # <<>>
    BY <1>1, HeadIn DEF ControlReturns, GatePosition, GateTypeOK
  <2>2. PICK message \in Ready(Head(todo)) :
          /\ Receives(Head(todo), message)
          /\ \/ /\ message.says \in {"error", "other"}
                /\ ReplyIs(0)
                /\ UNCHANGED <<info, tools>>
             \/ /\ message.says \in {"result", "pinned"} /\ Len(todo) > 1
                /\ at' = "sending" /\ todo' = Tail(todo)
                /\ UNCHANGED <<ask, answer, info, tools, got>>
             \/ /\ message.says \in {"result", "pinned"} /\ Len(todo) = 1
                /\ ReplyIs(0)
                /\ info' = (info \/ (ask.method = "initialize" /\ kind = "comparison"))
                /\ tools' = (tools \/ (ask.method = "tools/list" /\ kind = "comparison"))
    BY <1>1, Zenon DEF ControlReturns
  <2>3. /\ UNCHANGED <<sequence, pending, up>>
        /\ messages' \in [1 .. N -> Seq(Message)]
    BY <2>1, <2>2, ReceivedType
  <2>4. CASE ReplyIs(0)
    BY <1>1, <2>2, <2>3, <2>4, RepliedType DEF GateTypeOK, ControlReturns, budget
  <2>5. CASE /\ at' = "sending" /\ todo' = Tail(todo)
             /\ UNCHANGED <<ask, answer, info, tools, got>>
    <3>1. todo' \in Seq(1 .. N)
      BY <2>1, <2>5, TailFacts
    <3> QED BY <1>1, <2>3, <2>5, <3>1 DEF GateTypeOK, ControlReturns, budget
  <2> QED BY <2>2, <2>4, <2>5
<1>2. CASE ControlRaises
  <2>1. todo # <<>>
    BY <1>2 DEF ControlRaises, GatePosition, RequestRaises
  <2>2. Head(todo) \in 1 .. N
    BY <2>1, HeadIn DEF GateTypeOK
  <2>3. /\ sequence' \in [1 .. N -> Nat] /\ pending' = pending /\ up' = up
        /\ messages' \in [1 .. N -> Seq(Message)]
    BY <1>2, <2>2, RaisedType DEF ControlRaises
  <2> QED BY <1>2, <2>3, RepliedType DEF GateTypeOK, ControlRaises, budget, files
<1> QED BY <1>1, <1>2
LEMMA LogsType ==
    ASSUME GateTypeOK, LogAttempt \/ LogResponse
    PROVE  GateTypeOK'
<1>1. CASE LogAttempt
  <2>1. [attempt |-> attempts, tool |-> ask.tool, forwarded |-> answer.forwarded,
         reason |-> answer.reason]
           \in [attempt : Nat, tool : Tool, forwarded : BOOLEAN, reason : Reason]
    BY DEF GateTypeOK
  <2>2. attemptLog' \in Seq([attempt : Nat, tool : Tool, forwarded : BOOLEAN, reason : Reason])
    BY <1>1, <2>1, AppendFacts DEF GateTypeOK, LogAttempt
  <2> QED BY <1>1, <2>2 DEF GateTypeOK, LogAttempt, clients, budget
<1>2. CASE LogResponse
  <2>1. [attempt |-> attempts, of |-> answer.of] \in [attempt : Nat, of : Nat]
    BY DEF GateTypeOK
  <2>2. responseLog' \in Seq([attempt : Nat, of : Nat])
    BY <1>2, <2>1, AppendFacts DEF GateTypeOK, LogResponse
  <2> QED BY <1>2, <2>2 DEF GateTypeOK, LogResponse, clients, budget
<1> QED BY <1>1, <1>2

\* A request written: a new id, and only one request more.
LEMMA SentFacts ==
    ASSUME GateTypeOK, GatePosition, SendOn
    PROVE  LET u  == Head(todo)
               of == IF Called THEN attempts ELSE 0
               r  == [id |-> sequence[u] + 1, method |-> ask.method, of |-> of]
           IN  /\ u \in 1 .. N /\ r \in Request
               /\ sequence' = [sequence EXCEPT ![u] = sequence[u] + 1]
               /\ pending' = [pending EXCEPT ![u] = pending[u] \cup {r}]
               /\ UNCHANGED <<messages, up>>
<1>1. Head(todo) \in 1 .. N
  BY HeadIn DEF SendOn, GatePosition, GateTypeOK
<1>2. Sends(Head(todo), IF Called THEN attempts ELSE 0)
  BY DEF SendOn, Called
<1>3. sequence[Head(todo)] + 1 \in Nat
  <2>1. sequence \in [1 .. N -> Nat]
    BY DEF GateTypeOK
  <2> QED BY <1>1, <2>1
<1>4. ask.method \in Methods \cup {"tools/call"}
  BY DEF SendOn, GatePosition
<1>5. (IF Called THEN attempts ELSE 0) \in Nat
  BY DEF GateTypeOK
<1> QED BY <1>1, <1>2, <1>3, <1>4, <1>5 DEF Sends, Request

LEMMA SendOnType ==
    ASSUME GateTypeOK, GatePosition, SendOn
    PROVE  GateTypeOK'
<1> DEFINE u == Head(todo)
<1>1. PICK r \in Request :
        /\ u \in 1 .. N
        /\ sequence' = [sequence EXCEPT ![u] = sequence[u] + 1]
        /\ pending' = [pending EXCEPT ![u] = pending[u] \cup {r}]
        /\ UNCHANGED <<messages, up>>
  BY SentFacts
<1>2. sequence' \in [1 .. N -> Nat]
  <2>1. sequence \in [1 .. N -> Nat]
    BY DEF GateTypeOK
  <2> QED BY <1>1, <2>1
<1>3. pending' \in [1 .. N -> SUBSET Request]
  <2>1. pending \in [1 .. N -> SUBSET Request]
    BY DEF GateTypeOK
  <2> QED BY <1>1, <2>1
<1> QED BY <1>1, <1>2, <1>3 DEF GateTypeOK, SendOn, budget, files

\* A queue only grows at its end, by one message.
LEMMA QueuedType ==
    ASSUME GateTypeOK, NEW u \in 1 .. N, NEW m \in Message,
           messages' = [messages EXCEPT ![u] = Append(@, m)]
    PROVE  /\ messages' \in [1 .. N -> Seq(Message)]
           /\ \A v \in 1 .. N : \A i \in DOMAIN messages'[v] :
                \/ v = u /\ messages'[v][i] = m
                \/ \E j \in DOMAIN messages[v] : messages'[v][i] = messages[v][j]
<1>1. messages \in [1 .. N -> Seq(Message)]
  BY DEF GateTypeOK
<1>2. messages[u] \in Seq(Message)
  BY <1>1
<1>3. /\ Append(messages[u], m) \in Seq(Message)
      /\ \A i \in DOMAIN Append(messages[u], m) :
           \/ Append(messages[u], m)[i] = m
           \/ \E j \in DOMAIN messages[u] : Append(messages[u], m)[i] = messages[u][j]
  BY <1>2, AppendFacts
<1>4. \A v \in 1 .. N : messages'[v] = IF v = u THEN Append(messages[u], m) ELSE messages[v]
  BY <1>1
<1> QED BY <1>1, <1>3, <1>4

LEMMA UpstreamType ==
    ASSUME GateTypeOK
    PROVE  /\ \A u \in Servers : UpstreamExits(u) => GateTypeOK'
           /\ \A u \in Servers : \A r \in pending[u], size \in ReplySizes \cup {0},
                says \in {"pinned", "other", "result", "error"} :
                  UpstreamAnswers(u, r, says, size) => GateTypeOK'
<1>1. ASSUME NEW u \in Servers, UpstreamExits(u) PROVE GateTypeOK'
  <2>1. u \in 1 .. N /\ EndOfStream \in Message
    BY ServersAreUpstreams DEF EndOfStream, Message
  <2>2. messages' \in [1 .. N -> Seq(Message)]
    BY <1>1, <2>1, QueuedType DEF UpstreamExits
  <2>3. pending' \in [1 .. N -> SUBSET Request] /\ up' \subseteq 1 .. N
    BY <1>1 DEF GateTypeOK, UpstreamExits
  <2> QED BY <1>1, <2>2, <2>3 DEF GateTypeOK, UpstreamExits, budget, files
<1>2. ASSUME NEW u \in Servers, NEW r \in pending[u], NEW size \in ReplySizes \cup {0},
             NEW says \in {"pinned", "other", "result", "error"},
             UpstreamAnswers(u, r, says, size)
      PROVE GateTypeOK'
  <2>1. u \in 1 .. N /\ r \in Request
    BY ServersAreUpstreams DEF GateTypeOK
  <2>2. [id |-> r.id, says |-> says, of |-> r.of, size |-> size] \in Message
    BY <2>1, GateAssumption DEF Message, Request
  <2>3. messages' \in [1 .. N -> Seq(Message)]
    BY <1>2, <2>1, <2>2, QueuedType DEF UpstreamAnswers
  <2>4. pending' \in [1 .. N -> SUBSET Request]
    BY <1>2, <2>1 DEF GateTypeOK, UpstreamAnswers
  <2> QED BY <1>2, <2>3, <2>4 DEF GateTypeOK, UpstreamAnswers, budget, files
<1> QED BY <1>1, <1>2

LEMMA GateTypeStep == GateTypeOK /\ GatePosition /\ [GateNext]_gateVars => GateTypeOK'
<1> SUFFICES ASSUME GateTypeOK, GatePosition, [GateNext]_gateVars PROVE GateTypeOK'
  OBVIOUS
<1>1. CASE SendOn
  BY <1>1, SendOnType
<1>2. CASE Discard
  <2>1. Head(todo) \in 1 .. N
    BY <1>2, HeadIn DEF Discard, GatePosition, GateTypeOK
  <2>2. messages \in [1 .. N -> Seq(Message)]
    BY DEF GateTypeOK
  <2>3. Tail(messages[Head(todo)]) \in Seq(Message)
    BY <1>2, <2>1, <2>2, TailFacts DEF Discard
  <2>4. messages' \in [1 .. N -> Seq(Message)]
    BY <1>2, <2>1, <2>2, <2>3 DEF Discard
  <2> QED BY <1>2, <2>4 DEF GateTypeOK, Discard, budget, files
<1>3. CASE CallReturns \/ CallRaises
  BY <1>3, AnsweredCallType
<1>4. CASE ControlReturns \/ ControlRaises
  BY <1>4, ControlType
<1>5. CASE LogAttempt \/ LogResponse
  BY <1>5, LogsType
<1>6. CASE PrintReply
  <2>1. answer.of \in Nat
    BY DEF GateTypeOK
  <2> QED BY <1>6, <2>1, RepliedType DEF GateTypeOK, PrintReply, clients, budget, files
<1>7. CASE Refuse \/ ForwardCall
  BY <1>7, CallsType
<1>8. CASE Leave
  BY <1>8 DEF GateTypeOK, Leave, budget, files
<1>9. ASSUME NEW m \in Methods, TakeRequest(m) PROVE GateTypeOK'
  <2>1. todo' \in Seq(1 .. N)
    BY <1>9, ServersAreUpstreams DEF TakeRequest
  <2>2. ask' \in [method : Methods \cup {"tools/call", "none"}, tool : Tool]
    BY <1>9 DEF TakeRequest, Tool
  <2> QED BY <1>9, <2>1, <2>2 DEF GateTypeOK, TakeRequest, clients, budget, files
<1>10. CASE Killed
  BY <1>10 DEF GateTypeOK, Killed, clients, budget, files
<1>11. CASE UNCHANGED gateVars
  BY <1>11 DEF GateTypeOK, gateVars, clients, budget, files
<1>12. ASSUME NEW u \in Servers, UpstreamExits(u) PROVE GateTypeOK'
  BY <1>12, UpstreamType
<1>13. ASSUME NEW u \in Servers, NEW r \in pending[u], NEW size \in ReplySizes \cup {0},
              NEW says \in {"pinned", "other", "result", "error"},
              UpstreamAnswers(u, r, says, size)
       PROVE GateTypeOK'
  BY <1>13, UpstreamType
<1> QED
  BY <1>1, <1>2, <1>3, <1>4, <1>5, <1>6, <1>7, <1>8, <1>9, <1>10, <1>11, <1>12, <1>13
     DEF GateNext, GateStep, AgentStep, Over
-----------------------------------------------------------------------------
(* What each step may do to the clients, and to the records. *)

\* A step takes messages away, moves one request's answer into the queue, marks
\* the end of a stream, or sends one new request: nothing else gets an id.
LEMMA IdsStep == GateTypeOK /\ GatePosition /\ IdsGivenOut /\ [GateNext]_gateVars => IdsGivenOut'
<1> SUFFICES ASSUME GateTypeOK, GatePosition, IdsGivenOut, [GateNext]_gateVars PROVE IdsGivenOut'
  OBVIOUS
<1>0. /\ sequence \in [1 .. N -> Nat] /\ pending \in [1 .. N -> SUBSET Request]
      /\ messages \in [1 .. N -> Seq(Message)]
  BY DEF GateTypeOK
<1>q. \A v \in 1 .. N : \A j \in DOMAIN messages[v] : messages[v][j] \in Message
  BY <1>0
<1>a. ASSUME \A v \in 1 .. N : sequence'[v] \in Nat /\ sequence'[v] >= sequence[v],
             \A v \in 1 .. N : pending'[v] \subseteq pending[v],
             \A v \in 1 .. N : \A i \in DOMAIN messages'[v] :
                \E j \in DOMAIN messages[v] : messages'[v][i] = messages[v][j]
      PROVE  IdsGivenOut'
  <2>1. ASSUME NEW v \in 1 .. N, NEW p \in pending'[v] PROVE p.id <= sequence'[v]
    <3>1. p \in pending[v] /\ p.id \in Nat /\ sequence[v] \in Nat
      BY <1>0, <1>a DEF Request
    <3>2. p.id <= sequence[v]
      BY <3>1 DEF IdsGivenOut
    <3> QED BY <1>a, <3>1, <3>2
  <2>2. ASSUME NEW v \in 1 .. N, NEW i \in DOMAIN messages'[v]
        PROVE  messages'[v][i].id <= sequence'[v]
    <3>1. PICK j \in DOMAIN messages[v] : messages'[v][i] = messages[v][j]
      BY <1>a
    <3>2. messages[v][j].id <= sequence[v]
      BY DEF IdsGivenOut
    <3>3. messages[v][j].id \in Nat /\ sequence[v] \in Nat
      BY <1>0, <1>q DEF Message
    <3> QED BY <1>a, <3>1, <3>2, <3>3
  <2> QED BY <2>1, <2>2 DEF IdsGivenOut
<1>b. ASSUME UNCHANGED <<sequence, pending, messages>> PROVE IdsGivenOut'
  BY <1>b DEF IdsGivenOut
<1>1. CASE SendOn
  <2> DEFINE u == Head(todo)
             r == [id |-> sequence[u] + 1, method |-> ask.method,
                   of |-> IF Called THEN attempts ELSE 0]
  <2>1. /\ u \in 1 .. N /\ r \in Request
        /\ sequence' = [sequence EXCEPT ![u] = sequence[u] + 1]
        /\ pending' = [pending EXCEPT ![u] = pending[u] \cup {r}]
        /\ UNCHANGED <<messages, up>>
    BY <1>1, SentFacts
  <2>2. r.id = sequence[u] + 1
    OBVIOUS
  <2> HIDE DEF u, r
  <2>3. \A v \in 1 .. N : /\ sequence'[v] = IF v = u THEN sequence[u] + 1 ELSE sequence[v]
                          /\ pending'[v] = IF v = u THEN pending[u] \cup {r} ELSE pending[v]
                          /\ sequence[v] \in Nat
    BY <1>0, <2>1
  <2>4. ASSUME NEW v \in 1 .. N, NEW p \in pending'[v] PROVE p.id <= sequence'[v]
    <3>1. CASE p \in pending[v]
      <4>1. p.id \in Nat /\ p.id <= sequence[v]
        BY <1>0, <3>1 DEF Request, IdsGivenOut
      <4> QED BY <2>1, <2>3, <4>1
    <3>2. CASE p = r /\ v = u
      BY <2>1, <2>2, <2>3, <3>2
    <3> QED BY <2>3, <2>4, <3>1, <3>2
  <2>5. ASSUME NEW v \in 1 .. N, NEW i \in DOMAIN messages[v]
        PROVE  messages[v][i].id <= sequence'[v]
    <3>1. messages[v][i].id \in Nat /\ messages[v][i].id <= sequence[v]
      BY <1>q DEF Message, IdsGivenOut
    <3> QED BY <2>1, <2>3, <3>1
  <2> QED BY <2>1, <2>4, <2>5 DEF IdsGivenOut
<1>2. CASE Discard
  <2>1. Head(todo) \in 1 .. N
    BY <1>2, HeadIn DEF Discard, GatePosition, GateTypeOK
  <2>2. \A i \in DOMAIN Tail(messages[Head(todo)]) :
          \E j \in DOMAIN messages[Head(todo)] :
             Tail(messages[Head(todo)])[i] = messages[Head(todo)][j]
    BY <1>0, <1>2, <2>1, TailFacts DEF Discard
  <2> QED BY <1>0, <1>2, <1>a, <2>1, <2>2 DEF Discard
<1>3. CASE CallReturns \/ ControlReturns
  <2>1. Head(todo) \in 1 .. N
    BY <1>3, HeadIn DEF CallReturns, ControlReturns, GatePosition, GateTypeOK
  <2>2. \E message \in Ready(Head(todo)) : Receives(Head(todo), message)
    BY <1>3 DEF CallReturns, ControlReturns
  <2>3. /\ UNCHANGED <<sequence, pending, up>>
        /\ \A v \in 1 .. N : \A i \in DOMAIN messages'[v] :
             \E j \in DOMAIN messages[v] : messages'[v][i] = messages[v][j]
    BY <2>1, <2>2, ReceivedType
  <2> QED BY <1>0, <1>a, <2>3
<1>4. CASE CallRaises \/ ControlRaises
  <2>1. todo # <<>> /\ RequestRaises(Head(todo))
    BY <1>4 DEF CallRaises, ControlRaises, RequestRaises, GatePosition
  <2>2. Head(todo) \in 1 .. N
    BY <2>1, HeadIn DEF GateTypeOK
  <2>3. /\ sequence' \in [1 .. N -> Nat] /\ pending' = pending
        /\ \A v \in 1 .. N : sequence'[v] >= sequence[v]
        /\ \A v \in 1 .. N : \A i \in DOMAIN messages'[v] :
             \E j \in DOMAIN messages[v] : messages'[v][i] = messages[v][j]
    BY <2>1, <2>2, RaisedType
  <2> QED BY <1>a, <2>3
<1>5. CASE Leave
  <2>1. \A v \in 1 .. N : pending'[v] = {}
    BY <1>5 DEF Leave
  <2> QED BY <1>0, <1>5, <1>a, <2>1 DEF Leave
<1>6. ASSUME NEW u \in Servers, UpstreamExits(u) PROVE IdsGivenOut'
  <2>1. u \in 1 .. N /\ EndOfStream \in Message /\ EndOfStream.id = 0
    BY ServersAreUpstreams DEF EndOfStream, Message
  <2>2. \A v \in 1 .. N : \A i \in DOMAIN messages'[v] :
          \/ v = u /\ messages'[v][i] = EndOfStream
          \/ \E j \in DOMAIN messages[v] : messages'[v][i] = messages[v][j]
    BY <1>6, <2>1, QueuedType DEF UpstreamExits
  <2>3. \A v \in 1 .. N : pending'[v] \subseteq pending[v] /\ sequence'[v] = sequence[v]
                          /\ 0 <= sequence[v]
    BY <1>0, <1>6, <2>1 DEF UpstreamExits
  <2> QED BY <2>1, <2>2, <2>3 DEF IdsGivenOut
<1>7. ASSUME NEW u \in Servers, NEW r \in pending[u], NEW size \in ReplySizes \cup {0},
             NEW says \in {"pinned", "other", "result", "error"},
             UpstreamAnswers(u, r, says, size)
      PROVE IdsGivenOut'
  <2> DEFINE m == [id |-> r.id, says |-> says, of |-> r.of, size |-> size]
  <2>1. u \in 1 .. N /\ r \in Request
    BY ServersAreUpstreams DEF GateTypeOK
  <2>2. m \in Message /\ m.id = r.id /\ r.id <= sequence[u]
    BY <2>1, GateAssumption DEF Message, Request, IdsGivenOut
  <2>3. messages' = [messages EXCEPT ![u] = Append(@, m)]
    BY <1>7 DEF UpstreamAnswers
  <2> HIDE DEF m
  <2>4. \A v \in 1 .. N : \A i \in DOMAIN messages'[v] :
          \/ v = u /\ messages'[v][i] = m
          \/ \E j \in DOMAIN messages[v] : messages'[v][i] = messages[v][j]
    BY <2>1, <2>2, <2>3, QueuedType
  <2>5. \A v \in 1 .. N : pending'[v] \subseteq pending[v] /\ sequence'[v] = sequence[v]
    BY <1>0, <1>7, <2>1 DEF UpstreamAnswers
  <2> QED BY <2>2, <2>4, <2>5 DEF IdsGivenOut
<1>8. UNCHANGED <<sequence, pending, messages>>
      \/ SendOn \/ Discard \/ CallReturns \/ ControlReturns \/ CallRaises \/ ControlRaises
      \/ Leave \/ (\E u \in Servers : UpstreamExits(u))
      \/ \E u \in Servers : \E r \in pending[u], size \in ReplySizes \cup {0},
           says \in {"pinned", "other", "result", "error"} : UpstreamAnswers(u, r, says, size)
  BY Zenon DEF GateNext, GateStep, AgentStep, Over, gateVars, clients, LogAttempt, LogResponse,
       PrintReply, Refuse, ForwardCall, TakeRequest, Killed
<1> QED BY <1>b, <1>1, <1>2, <1>3, <1>4, <1>5, <1>6, <1>7, <1>8
LEMMA PositionStep == GateTypeOK /\ GatePosition /\ [GateNext]_gateVars => GatePosition'
<1> SUFFICES ASSUME GateTypeOK, GatePosition, [GateNext]_gateVars PROVE GatePosition'
  OBVIOUS
<1>0. attempts \in Nat
  BY DEF GateTypeOK
<1>1. CASE SendOn
  BY <1>1 DEF GatePosition, Called, SendOn, budget
<1>2. CASE Discard
  BY <1>2 DEF GatePosition, Called, Discard, budget
<1>3. CASE CallReturns \/ CallRaises
  <2>1. at' = "answered" /\ Called' /\ attempts' = attempts
    BY <1>3, Zenon DEF CallReturns, CallRaises, Settle, Called
  <2>2. attempts > 0
    BY <1>3 DEF GatePosition, Called, CallReturns, CallRaises
  <2> QED BY <2>1, <2>2 DEF GatePosition
<1>4. CASE ControlReturns
  <2>1. \/ at' = "idle"
        \/ at' = "sending" /\ todo' = Tail(todo) /\ Len(todo) > 1 /\ ask' = ask
    BY <1>4, Zenon DEF ControlReturns, ReplyIs
  <2>2. Len(todo) > 1 => Tail(todo) # <<>>
    <3>1. todo \in Seq(1 .. N)
      BY DEF GateTypeOK
    <3>2. Len(todo) > 1 => Len(Tail(todo)) > 0
      BY <3>1
    <3>3. ~(Len(<<>>) > 0)
      OBVIOUS
    <3> QED BY <3>2, <3>3, Zenon
  <2>3. ~Called'
    <3>1. ask' \in {ask, Idle}
      BY <1>4, Zenon DEF ControlReturns, ReplyIs
    <3> QED BY <1>4, <3>1 DEF ControlReturns, Called, Methods, Idle
  <2> QED BY <1>4, <2>1, <2>2, <2>3 DEF GatePosition, ControlReturns
<1>5. CASE ControlRaises
  BY <1>5 DEF GatePosition, Called, Idle, ControlRaises, ReplyIs, budget
<1>6. CASE LogAttempt \/ LogResponse
  BY <1>6 DEF GatePosition, Called, LogAttempt, LogResponse, budget
<1>7. CASE PrintReply
  BY <1>7 DEF GatePosition, Called, Idle, PrintReply, ReplyIs, budget
<1>8. CASE Refuse \/ ForwardCall
  <2>1. \/ at' = "answered" /\ ask'.method = "tools/call"
        \/ at' = "sending" /\ ask'.method = "tools/call" /\ todo' # <<>>
    BY <1>8 DEF Refuse, ForwardCall
  <2>2. attempts' = attempts + 1
    BY <1>8 DEF Refuse, ForwardCall
  <2> QED BY <1>0, <2>1, <2>2 DEF GatePosition, Called
<1>9. ASSUME NEW m \in Methods, TakeRequest(m) PROVE GatePosition'
  BY <1>9, ServersAreUpstreams DEF GatePosition, Called, Methods, TakeRequest, budget
<1>10. CASE Leave \/ Killed
  BY <1>10 DEF GatePosition, Called, Leave, Killed, budget
<1>11. CASE UNCHANGED <<at, ask, todo, attempts>>
  BY <1>11 DEF GatePosition, Called
<1>12. UNCHANGED <<at, ask, todo, attempts>>
       \/ SendOn \/ Discard \/ CallReturns \/ CallRaises \/ ControlReturns \/ ControlRaises
       \/ LogAttempt \/ LogResponse \/ PrintReply \/ Refuse \/ ForwardCall
       \/ (\E m \in Methods : TakeRequest(m)) \/ Leave \/ Killed
  BY ZenonT(40) DEF GateNext, GateStep, AgentStep, Over, gateVars, budget, UpstreamExits, UpstreamAnswers
<1> QED BY <1>1, <1>2, <1>3, <1>4, <1>5, <1>6, <1>7, <1>8, <1>9, <1>10, <1>11, <1>12

\* Only while it waits for a call does the gate care whose answer is queued, and
\* the id it waits for was given to this attempt when it was sent.
LEMMA WaitedForStep ==
    GateTypeOK /\ GatePosition /\ IdsGivenOut /\ WaitedFor /\ [GateNext]_gateVars => WaitedFor'
<1> SUFFICES ASSUME GateTypeOK, GatePosition, IdsGivenOut, WaitedFor, [GateNext]_gateVars,
                    at' = "waiting", Called'
             PROVE  /\ \A p \in pending'[Head(todo')] :
                         p.id = sequence'[Head(todo')] => p.of = attempts'
                    /\ \A i \in DOMAIN messages'[Head(todo')] :
                         /\ messages'[Head(todo')][i].says # "eof"
                         /\ messages'[Head(todo')][i].id = sequence'[Head(todo')]
                         => messages'[Head(todo')][i].of = attempts'
  BY DEF WaitedFor
<1>0. /\ sequence \in [1 .. N -> Nat] /\ pending \in [1 .. N -> SUBSET Request]
      /\ messages \in [1 .. N -> Seq(Message)]
  BY DEF GateTypeOK
<1> DEFINE u == Head(todo)
<1>1. CASE SendOn
  <2> DEFINE r == [id |-> sequence[u] + 1, method |-> ask.method,
                   of |-> IF Called THEN attempts ELSE 0]
  <2>1. /\ u \in 1 .. N /\ r \in Request
        /\ sequence' = [sequence EXCEPT ![u] = sequence[u] + 1]
        /\ pending' = [pending EXCEPT ![u] = pending[u] \cup {r}]
        /\ UNCHANGED <<messages, up>>
    BY <1>1, SentFacts
  <2>2. Called /\ todo' = todo /\ attempts' = attempts
    BY <1>1 DEF SendOn, Called, budget
  <2>3. r.of = attempts
    BY <2>2
  <2> HIDE DEF r, u
  <2>4. sequence[u] \in Nat /\ sequence'[u] = sequence[u] + 1 /\ pending'[u] = pending[u] \cup {r}
    BY <1>0, <2>1
  <2>5. ASSUME NEW p \in pending[u] PROVE p.id # sequence'[u]
    <3>1. p.id \in Nat /\ p.id <= sequence[u]
      BY <1>0, <2>1 DEF Request, IdsGivenOut
    <3> QED BY <2>4, <3>1
  <2>6. ASSUME NEW i \in DOMAIN messages[u] PROVE messages[u][i].id # sequence'[u]
    <3>1. messages[u][i] \in Message
      BY <1>0, <2>1
    <3>2. messages[u][i].id \in Nat /\ messages[u][i].id <= sequence[u]
      BY <2>1, <3>1 DEF Message, IdsGivenOut
    <3> QED BY <2>4, <3>2
  <2> QED BY <2>1, <2>2, <2>3, <2>4, <2>5, <2>6 DEF u
<1>2. CASE at = "waiting" /\ UNCHANGED <<todo, ask, attempts, sequence>>
  <2>1. Called /\ u \in 1 .. N /\ todo' = todo
    BY <1>2, HeadIn DEF Called, GatePosition, GateTypeOK
  <2>2. /\ \A p \in pending[u] : p.id = sequence[u] => p.of = attempts
        /\ \A i \in DOMAIN messages[u] :
             messages[u][i].says # "eof" /\ messages[u][i].id = sequence[u]
                => messages[u][i].of = attempts
    BY <1>2, <2>1 DEF WaitedFor
  <2> HIDE DEF u
  <2>3. ASSUME pending'[u] \subseteq pending[u],
               \A i \in DOMAIN messages'[u] :
                 \/ messages'[u][i].says = "eof"
                 \/ \E j \in DOMAIN messages[u] : messages'[u][i] = messages[u][j]
                 \/ \E p \in pending[u] : messages'[u][i].id = p.id /\ messages'[u][i].of = p.of
        PROVE  /\ \A p \in pending'[u] : p.id = sequence'[u] => p.of = attempts'
               /\ \A i \in DOMAIN messages'[u] :
                    messages'[u][i].says # "eof" /\ messages'[u][i].id = sequence'[u]
                       => messages'[u][i].of = attempts'
    BY <1>2, <2>2, <2>3
  <2>4. CASE Discard
    <3>1. \A i \in DOMAIN Tail(messages[u]) :
            \E j \in DOMAIN messages[u] : Tail(messages[u])[i] = messages[u][j]
      BY <1>0, <2>1, <2>4, TailFacts DEF Discard, u
    <3>2. messages'[u] = Tail(messages[u]) /\ pending'[u] = pending[u]
      BY <1>0, <2>1, <2>4 DEF Discard, u
    <3> QED BY <2>1, <2>3, <3>1, <3>2 DEF u
  <2>5. ASSUME NEW v \in Servers, UpstreamExits(v)
        PROVE  /\ pending'[u] \subseteq pending[u]
               /\ \A i \in DOMAIN messages'[u] :
                    \/ messages'[u][i].says = "eof"
                    \/ \E j \in DOMAIN messages[u] : messages'[u][i] = messages[u][j]
    <3>1. v \in 1 .. N /\ EndOfStream \in Message /\ EndOfStream.says = "eof"
      BY ServersAreUpstreams DEF EndOfStream, Message
    <3>2. \A i \in DOMAIN messages'[u] :
            \/ messages'[u][i] = EndOfStream
            \/ \E j \in DOMAIN messages[u] : messages'[u][i] = messages[u][j]
      BY <2>1, <2>5, <3>1, QueuedType DEF UpstreamExits
    <3>3. pending'[u] \subseteq pending[u]
      BY <1>0, <2>1, <2>5, <3>1 DEF UpstreamExits
    <3> QED BY <3>1, <3>2, <3>3
  <2>6. ASSUME NEW v \in Servers, NEW r \in pending[v], NEW size \in ReplySizes \cup {0},
               NEW says \in {"pinned", "other", "result", "error"},
               UpstreamAnswers(v, r, says, size)
        PROVE  /\ pending'[u] \subseteq pending[u]
               /\ \A i \in DOMAIN messages'[u] :
                    \/ \E j \in DOMAIN messages[u] : messages'[u][i] = messages[u][j]
                    \/ \E p \in pending[u] : messages'[u][i].id = p.id /\ messages'[u][i].of = p.of
    <3> DEFINE m == [id |-> r.id, says |-> says, of |-> r.of, size |-> size]
    <3>1. v \in 1 .. N /\ r \in Request
      BY ServersAreUpstreams DEF GateTypeOK
    <3>2. m \in Message /\ m.id = r.id /\ m.of = r.of
      BY <3>1, GateAssumption DEF Message, Request
    <3>3. messages' = [messages EXCEPT ![v] = Append(@, m)]
      BY <2>6 DEF UpstreamAnswers
    <3> HIDE DEF m
    <3>4. \A i \in DOMAIN messages'[u] :
            \/ v = u /\ messages'[u][i] = m
            \/ \E j \in DOMAIN messages[u] : messages'[u][i] = messages[u][j]
      BY <2>1, <3>1, <3>2, <3>3, QueuedType
    <3>5. pending'[u] \subseteq pending[u]
      BY <1>0, <2>1, <2>6, <3>1 DEF UpstreamAnswers
    <3> QED BY <3>2, <3>4, <3>5
  <2>7. CASE UNCHANGED <<pending, messages>>
    BY <2>1, <2>2, <2>7, <1>2 DEF u
  <2>8. Discard \/ (\E v \in Servers : UpstreamExits(v))
        \/ (\E v \in Servers : \E r \in pending[v], size \in ReplySizes \cup {0},
              says \in {"pinned", "other", "result", "error"} : UpstreamAnswers(v, r, says, size))
        \/ UNCHANGED <<pending, messages>>
    BY <1>2, Zenon DEF GateNext, GateStep, AgentStep, Over, gateVars, clients, SendOn, CallReturns,
         CallRaises, Settle, ControlReturns, ControlRaises, ReplyIs, LogAttempt, LogResponse,
         PrintReply, Refuse, ForwardCall, TakeRequest, Leave, Killed
  <2> QED BY <2>1, <2>3, <2>4, <2>5, <2>6, <2>7, <2>8 DEF u
<1>3. SendOn \/ (at = "waiting" /\ UNCHANGED <<todo, ask, attempts, sequence>>)
  <2>1. CASE UNCHANGED gateVars
    BY <2>1 DEF gateVars, clients, budget
  <2>2. CASE Discard
    BY <2>2 DEF Discard, budget
  <2>3. ASSUME NEW v \in Servers, UpstreamExits(v)
        PROVE at = "waiting" /\ UNCHANGED <<todo, ask, attempts, sequence>>
    BY <2>3 DEF UpstreamExits, budget
  <2>4. ASSUME NEW v \in Servers, NEW r \in pending[v], NEW size \in ReplySizes \cup {0},
               NEW says \in {"pinned", "other", "result", "error"},
               UpstreamAnswers(v, r, says, size)
        PROVE at = "waiting" /\ UNCHANGED <<todo, ask, attempts, sequence>>
    BY <2>4 DEF UpstreamAnswers, budget
  <2>5. ~(CallReturns \/ CallRaises \/ ControlReturns \/ ControlRaises \/ LogAttempt \/ LogResponse
          \/ PrintReply \/ Refuse \/ ForwardCall \/ Leave \/ Killed
          \/ \E m \in Methods : TakeRequest(m))
    BY DEF CallReturns, CallRaises, Settle, ControlReturns, ControlRaises, ReplyIs, LogAttempt,
         LogResponse, PrintReply, Refuse, ForwardCall, TakeRequest, Leave, Killed
  <2> QED BY <2>1, <2>2, <2>3, <2>4, <2>5, Zenon DEF GateNext, GateStep, AgentStep, Over
<1> QED BY <1>1, <1>2, <1>3
-----------------------------------------------------------------------------
(* The records. *)

Records == LoggedOnce /\ LoggedSoFar /\ ToldOnRecord /\ AnswerOwn /\ OwnAnswer

\* The upstream's answer to a call is to this attempt; a failure is to none.
LEMMA AnswerStep ==
    ASSUME GateTypeOK, GatePosition, WaitedFor, CallReturns \/ CallRaises
    PROVE  answer'.of \in {0, attempts} /\ at' = "answered" /\ UNCHANGED <<ask, attempts>>
<1>1. CASE CallReturns
  <2>1. Head(todo) \in 1 .. N /\ at = "waiting" /\ Called
    BY <1>1, HeadIn DEF CallReturns, GatePosition, GateTypeOK, Called
  <2>2. PICK message \in Ready(Head(todo)) :
          /\ Receives(Head(todo), message)
          /\ IF message.says = "error"
             THEN Settle("backend_error", 0, FailureSize)
             ELSE Settle("none", message.of, message.size)
    BY <1>1 DEF CallReturns
  <2>3. /\ message \in Message /\ message.says # "eof" /\ message.id = sequence[Head(todo)]
        /\ \E j \in DOMAIN messages[Head(todo)] : message = messages[Head(todo)][j]
    BY <2>1, <2>2, ReceivedType
  <2>4. message.of = attempts
    BY <2>1, <2>3 DEF WaitedFor
  <2>5. message.of \in Nat /\ message.size \in Nat
    BY <2>3 DEF Message
  <2>6. answer'.of \in {0, attempts} /\ at' = "answered"
    BY <2>2, <2>4, <2>5, SettledType, GateAssumption DEF Reason
  <2> QED BY <1>1, <2>6 DEF CallReturns
<1>2. CASE CallRaises
  <2>1. Settle("backend_error", 0, FailureSize)
    BY <1>2 DEF CallRaises
  <2>2. answer'.of \in {0, attempts} /\ at' = "answered"
    BY <2>1, SettledType, GateAssumption DEF Reason
  <2> QED BY <1>2, <2>2 DEF CallRaises
<1> QED BY <1>1, <1>2

LEMMA LogEntries ==
    ASSUME GateTypeOK
    PROVE  /\ \A j \in DOMAIN attemptLog : attemptLog[j].attempt \in Nat
           /\ \A k \in DOMAIN responseLog : responseLog[k].attempt \in Nat
<1>1. \A j \in DOMAIN attemptLog :
        attemptLog[j] \in [attempt : Nat, tool : Tool, forwarded : BOOLEAN, reason : Reason]
  BY ElementIn, Zenon DEF GateTypeOK
<1>2. \A k \in DOMAIN responseLog : responseLog[k] \in [attempt : Nat, of : Nat]
  BY ElementIn, Zenon DEF GateTypeOK
<1> QED BY <1>1, <1>2

LEMMA RecordsStep == GateTypeOK /\ GatePosition /\ WaitedFor /\ Records /\ [GateNext]_gateVars => Records'
<1> SUFFICES ASSUME GateTypeOK, GatePosition, WaitedFor, Records, [GateNext]_gateVars PROVE Records'
  OBVIOUS
<1>0. /\ attempts \in Nat
      /\ attemptLog \in Seq([attempt : Nat, tool : Tool, forwarded : BOOLEAN, reason : Reason])
      /\ responseLog \in Seq([attempt : Nat, of : Nat])
      /\ got \in Seq([attempt : Nat, of : Nat])
  BY DEF GateTypeOK
<1>a. ASSUME UNCHANGED <<attempts, attemptLog, responseLog, got>>
      PROVE  LoggedOnce' /\ ToldOnRecord' /\ OwnAnswer'
  BY <1>a DEF Records, LoggedOnce, ToldOnRecord, OwnAnswer, Attempted, Body
<1>1. CASE UNCHANGED <<at, ask, attempts, answer, attemptLog, responseLog, got>>
  BY <1>1 DEF Records, LoggedOnce, LoggedSoFar, ToldOnRecord, AnswerOwn, OwnAnswer, Attempted,
       Body, BodyOf, Called
<1>2. CASE SendOn
  <2>1. UNCHANGED <<attempts, attemptLog, responseLog, got, ask>>
        /\ at = "sending" /\ at' = "waiting"
    BY <1>2 DEF SendOn, budget, files
  <2>2. LoggedSoFar' /\ AnswerOwn'
    BY <2>1 DEF Records, LoggedSoFar, AnswerOwn, Called, BodyOf
  <2> QED BY <1>a, <2>1, <2>2 DEF Records
<1>3. CASE CallReturns \/ CallRaises
  <2>1. answer'.of \in {0, attempts} /\ at' = "answered" /\ UNCHANGED <<ask, attempts>>
    BY <1>3, AnswerStep
  <2>2. /\ UNCHANGED <<attemptLog, responseLog, got>>
        /\ at \in {"sending", "waiting"} /\ Called
    BY <1>3 DEF CallReturns, CallRaises, RequestRaises, Called, files
  <2>3. LoggedSoFar' /\ AnswerOwn'
    BY <2>1, <2>2 DEF Records, LoggedSoFar, AnswerOwn, Called, BodyOf
  <2> QED BY <1>a, <2>1, <2>2, <2>3 DEF Records
<1>4. ASSUME UNCHANGED <<attempts, attemptLog, responseLog>>, at' \in {"idle", "sending"}, ~Called',
             UNCHANGED got \/ (~Called /\ ReplyIs(0))
      PROVE  Records'
  <2>1. LoggedSoFar' /\ AnswerOwn'
    BY <1>4 DEF LoggedSoFar, AnswerOwn
  <2>2. CASE UNCHANGED got
    BY <1>a, <1>4, <2>1, <2>2 DEF Records
  <2>3. CASE ~Called /\ ReplyIs(0)
    <3>1. got' = Append(got, [attempt |-> 0, of |-> 0])
      BY <2>3 DEF ReplyIs, Called
    <3>2. \A i \in DOMAIN got' :
            \/ got'[i].attempt = 0 /\ got'[i].of = 0
            \/ i \in DOMAIN got /\ got'[i] = got[i]
      BY <1>0, <3>1, AppendFacts
    <3>3. LoggedOnce' /\ ToldOnRecord' /\ OwnAnswer'
      BY <1>4, <3>2 DEF Records, LoggedOnce, ToldOnRecord, OwnAnswer, Attempted, Body
    <3> QED BY <2>1, <3>3 DEF Records
  <2> QED BY <1>4, <2>2, <2>3
<1>5. CASE ControlReturns \/ ControlRaises
  <2>1. ~Called
    BY <1>5 DEF ControlReturns, ControlRaises, Called, Methods
  <2>2. UNCHANGED <<attempts, attemptLog, responseLog>>
    BY <1>5 DEF ControlReturns, ControlRaises, budget, files
  <2>3. ReplyIs(0) \/ (at' = "sending" /\ UNCHANGED <<ask, got>>)
    BY <1>5, Zenon DEF ControlReturns, ControlRaises
  <2>4. at' \in {"idle", "sending"} /\ ~Called'
    BY <2>1, <2>3 DEF ReplyIs, Called, Idle
  <2> QED BY <1>4, <2>1, <2>2, <2>3, <2>4
<1>6. CASE LogAttempt
  <2> DEFINE e == [attempt |-> attempts, tool |-> ask.tool, forwarded |-> answer.forwarded,
                   reason |-> answer.reason]
  <2>1. /\ at = "answered" /\ at' = "logged" /\ Called
        /\ UNCHANGED <<attempts, responseLog, got, ask, answer>>
        /\ attemptLog' = Append(attemptLog, e)
    BY <1>6 DEF LogAttempt, budget, GatePosition
  <2>2. e \in [attempt : Nat, tool : Tool, forwarded : BOOLEAN, reason : Reason]
        /\ e.attempt = attempts
    BY DEF GateTypeOK
  <2> HIDE DEF e
  <2>3. /\ DOMAIN attemptLog' = DOMAIN attemptLog \cup {Len(attemptLog) + 1}
        /\ attemptLog'[Len(attemptLog) + 1] = e
        /\ \A j \in DOMAIN attemptLog : attemptLog'[j] = attemptLog[j]
    BY <1>0, <2>1, <2>2, AppendFacts
  <2>4. Attempted(attempts)' /\ \A n : Attempted(n) => Attempted(n)'
    BY <2>1, <2>2, <2>3 DEF Attempted
  <2>5. LoggedOnce'
    BY <1>0, <2>1, <2>2, <2>3 DEF Records, LoggedOnce
  <2>6. LoggedSoFar' /\ AnswerOwn'
    BY <2>1, <2>4 DEF Records, LoggedSoFar, AnswerOwn, BodyOf
  <2>7. ToldOnRecord' /\ OwnAnswer'
    BY <2>1, <2>4 DEF Records, ToldOnRecord, OwnAnswer, Body
  <2> QED BY <2>5, <2>6, <2>7 DEF Records
<1>7. CASE LogResponse
  <2> DEFINE e == [attempt |-> attempts, of |-> answer.of]
  <2>1. /\ at = "logged" /\ at' = "recorded"
        /\ UNCHANGED <<attempts, attemptLog, got, ask, answer>>
        /\ responseLog' = Append(responseLog, e)
    BY <1>7 DEF LogResponse, budget
  <2>2. e \in [attempt : Nat, of : Nat] /\ e.attempt = attempts /\ e.of = answer.of
    BY DEF GateTypeOK
  <2> HIDE DEF e
  <2>3. /\ DOMAIN responseLog' = DOMAIN responseLog \cup {Len(responseLog) + 1}
        /\ responseLog'[Len(responseLog) + 1] = e
        /\ \A j \in DOMAIN responseLog : responseLog'[j] = responseLog[j]
    BY SMTT(30), <1>0, <2>1, <2>2, AppendFacts
  <2>4. Body(attempts, answer.of)' /\ \A n, of : Body(n, of) => Body(n, of)'
    BY <2>1, <2>2, <2>3 DEF Body
  <2>5. \A j \in DOMAIN responseLog : responseLog[j].attempt # attempts
    BY <2>1 DEF Records, LoggedSoFar, BodyOf
  <2>6. LoggedOnce'
    BY SMTT(30), <1>0, <2>1, <2>2, <2>3, <2>5, LogEntries DEF Records, LoggedOnce
  <2>7. LoggedSoFar' /\ AnswerOwn'
    BY <2>1, <2>4 DEF Records, LoggedSoFar, AnswerOwn, Attempted
  <2>8. ToldOnRecord'
    BY <2>1, <2>4 DEF Records, ToldOnRecord, Attempted
  <2>9. OwnAnswer'
    BY <2>1, <2>2, <2>3 DEF Records, OwnAnswer, AnswerOwn
  <2> QED BY <2>6, <2>7, <2>8, <2>9 DEF Records
<1>8. CASE PrintReply
  <2> DEFINE e == [attempt |-> attempts, of |-> answer.of]
  <2>1. /\ at = "recorded" /\ at' = "idle" /\ ~Called'
        /\ UNCHANGED <<attempts, attemptLog, responseLog>>
        /\ got' = Append(got, e)
    BY <1>8 DEF PrintReply, ReplyIs, budget, files, GatePosition, Called, Idle
  <2>2. e \in [attempt : Nat, of : Nat] /\ e.attempt = attempts /\ e.of = answer.of
    BY DEF GateTypeOK
  <2> HIDE DEF e
  <2>3. \A i \in DOMAIN got' : got'[i] = e \/ (i \in DOMAIN got /\ got'[i] = got[i])
    BY SMTT(30), <1>0, <2>1, <2>2, AppendFacts
  <2>4. Attempted(attempts) /\ Body(attempts, answer.of) /\ answer.of \in {0, attempts}
    BY <2>1 DEF Records, LoggedSoFar, AnswerOwn
  <2>5. ToldOnRecord'
    BY <2>1, <2>2, <2>3, <2>4 DEF Records, ToldOnRecord, Attempted, Body
  <2>6. OwnAnswer'
    BY <2>1, <2>2, <2>3, <2>4 DEF Records, OwnAnswer
  <2>7. LoggedSoFar' /\ AnswerOwn' /\ LoggedOnce'
    BY <2>1 DEF Records, LoggedSoFar, AnswerOwn, LoggedOnce
  <2> QED BY <2>5, <2>6, <2>7 DEF Records
<1>9. CASE Refuse \/ ForwardCall
  <2>1. /\ attempts' = attempts + 1
        /\ UNCHANGED <<attemptLog, responseLog, got>>
        /\ at' = "sending" \/ (at' = "answered" /\ answer'.of = 0)
    BY <1>9 DEF Refuse, ForwardCall, files
  <2>2. \A k \in DOMAIN responseLog : responseLog[k].attempt \in Nat
    BY LogEntries
  <2>3. \A j \in DOMAIN attemptLog : attemptLog[j].attempt \in Nat
    BY LogEntries
  <2>4. LoggedOnce'
    BY SMTT(30), <1>0, <2>1, <2>2, <2>3 DEF Records, LoggedOnce
  <2>5. ~BodyOf(attempts + 1)
    BY <1>0, <2>2 DEF Records, LoggedOnce, BodyOf
  <2>6. LoggedSoFar' /\ AnswerOwn'
    BY <2>1, <2>5 DEF LoggedSoFar, AnswerOwn, BodyOf
  <2>7. ToldOnRecord' /\ OwnAnswer'
    BY <2>1 DEF Records, ToldOnRecord, OwnAnswer, Attempted, Body
  <2> QED BY <2>4, <2>6, <2>7 DEF Records
<1>10. ASSUME NEW m \in Methods, TakeRequest(m) PROVE Records'
  BY <1>4, <1>10 DEF TakeRequest, Called, Methods, budget, files
<1>11. CASE Leave \/ Killed
  <2>1. /\ UNCHANGED <<attempts, attemptLog, responseLog, got>>
        /\ at' \in {"closed", "killed"}
    BY <1>11 DEF Leave, Killed, budget, files
  <2>2. LoggedSoFar' /\ AnswerOwn'
    BY <2>1 DEF LoggedSoFar, AnswerOwn
  <2> QED BY <1>a, <2>1, <2>2 DEF Records
<1>12. UNCHANGED <<at, ask, attempts, answer, attemptLog, responseLog, got>>
       \/ SendOn \/ CallReturns \/ CallRaises \/ ControlReturns \/ ControlRaises
       \/ LogAttempt \/ LogResponse \/ PrintReply \/ Refuse \/ ForwardCall
       \/ (\E m \in Methods : TakeRequest(m)) \/ Leave \/ Killed
  <2>1. ASSUME NEW u \in Servers, UpstreamExits(u)
        PROVE  UNCHANGED <<at, ask, attempts, answer, attemptLog, responseLog, got>>
    BY <2>1 DEF UpstreamExits, budget, files
  <2>2. ASSUME NEW u \in Servers, NEW r \in pending[u], NEW size \in ReplySizes \cup {0},
               NEW says \in {"pinned", "other", "result", "error"},
               UpstreamAnswers(u, r, says, size)
        PROVE  UNCHANGED <<at, ask, attempts, answer, attemptLog, responseLog, got>>
    BY <2>2 DEF UpstreamAnswers, budget, files
  <2>3. CASE Discard \/ UNCHANGED gateVars
    BY <2>3 DEF Discard, gateVars, budget, files
  <2> QED BY <2>1, <2>2, <2>3, Zenon DEF GateNext, GateStep, AgentStep, Over
<1> QED BY <1>1, <1>2, <1>3, <1>5, <1>6, <1>7, <1>8, <1>9, <1>10, <1>11, <1>12
-----------------------------------------------------------------------------
(* The theorems about the records. *)

LEMMA GateInvInit == GateInit => GateInv
<1> SUFFICES ASSUME GateInit PROVE GateInv
  OBVIOUS
<1>1. GatePosition /\ WaitedFor
  BY DEF GateInit, GatePosition, WaitedFor, Called, Idle
<1>2. IdsGivenOut
  BY DEF GateInit, IdsGivenOut
<1>3. LoggedOnce /\ LoggedSoFar /\ ToldOnRecord /\ AnswerOwn /\ OwnAnswer
  BY DEF GateInit, LoggedOnce, LoggedSoFar, ToldOnRecord, AnswerOwn, OwnAnswer
<1> QED BY <1>1, <1>2, <1>3, GateTypeInit DEF GateInv

LEMMA GateInvStep == GateInv /\ [GateNext]_gateVars => GateInv'
  BY GateTypeStep, PositionStep, IdsStep, WaitedForStep, RecordsStep DEF GateInv, Records

\* The inductive invariant: ids given out once, what the gate waits for, and how
\* far the two logs have got, agree in every state the gate can be in.
THEOREM GateCorrectness == GateSpec => []GateInv
  BY GateInvInit, GateInvStep, PTL DEF GateSpec

\* Types, for any upstreams, tools, budgets and requests.
THEOREM GateTypeCorrect == GateSpec => []GateTypeOK
<1>1. GateInv => GateTypeOK
  BY DEF GateInv
<1> QED BY GateCorrectness, <1>1, PTL

\* However many requests timed out and were answered late, out of order or not
\* at all, what the agent is handed for a call is the upstream's answer to it:
\* MCP.request waits for an id of its own and drops every other message.
THEOREM OwnAnswerAlways == GateSpec => []OwnAnswer
<1>1. GateInv => OwnAnswer
  BY DEF GateInv
<1> QED BY GateCorrectness, <1>1, PTL

\* One body to an attempt: the join does not depend on which one it picks.
LEMMA JoinPicks ==
    ASSUME LoggedOnce, NEW k \in DOMAIN responseLog, NEW event,
           event.attempt = responseLog[k].attempt
    PROVE  Joined(event).of = responseLog[k].of /\ Joined(event).attempt = event.attempt
<1> DEFINE bodies == {r \in {responseLog[i] : i \in DOMAIN responseLog} : r.attempt = event.attempt}
<1>1. bodies = {responseLog[k]}
  BY DEF LoggedOnce
<1>2. bodies # {} /\ (CHOOSE r \in bodies : TRUE) = responseLog[k]
  BY <1>1
<1> DEFINE of == IF bodies = {} THEN 0 ELSE (CHOOSE r \in bodies : TRUE).of
<1>3. Joined(event) = [attempt |-> event.attempt, tool |-> event.tool,
                       forwarded |-> event.forwarded, of |-> of]
  BY DEF Joined
<1>4. of = responseLog[k].of
  BY <1>2, Zenon
<1> HIDE DEF of
<1> QED BY <1>3, <1>4

\* Whatever moment the gate is killed at, the join of the two files accounts for
\* every call the agent was told of, with the body it was told: both writes are
\* flushed before the reply is printed.
THEOREM JoinedAsToldAlways == GateSpec => []JoinedAsTold
<1>1. GateInv => JoinedAsTold
  <2> SUFFICES ASSUME GateInv, NEW i \in DOMAIN got, got[i].attempt # 0
               PROVE  \E j \in DOMAIN CallsOf : /\ CallsOf[j].attempt = got[i].attempt
                                                /\ CallsOf[j].of = got[i].of
    BY DEF JoinedAsTold
  <2>1. PICK j \in DOMAIN attemptLog : attemptLog[j].attempt = got[i].attempt
    BY DEF GateInv, ToldOnRecord, Attempted
  <2>2. PICK k \in DOMAIN responseLog :
          responseLog[k].attempt = got[i].attempt /\ responseLog[k].of = got[i].of
    BY DEF GateInv, ToldOnRecord, Body
  <2>3. /\ Joined(attemptLog[j]).attempt = got[i].attempt
        /\ Joined(attemptLog[j]).of = got[i].of
    BY <2>1, <2>2, JoinPicks DEF GateInv
  <2>4. j \in DOMAIN CallsOf /\ CallsOf[j] = Joined(attemptLog[j])
    BY DEF CallsOf
  <2> QED BY <2>3, <2>4
<1> QED BY GateCorrectness, <1>1, PTL
-----------------------------------------------------------------------------
(* The theorems about what the gate lets through. *)

Through == WithinCalls /\ FirstIsRequired /\ FirstKnown

\* A step that logs nothing and ends or begins no forwarding.
LEMMA NothingThrough ==
    ASSUME Through, UNCHANGED <<kind, attemptLog, firstForwarded>>,
           \/ ~Forwarding /\ at # "killed" /\ ~Forwarding'
           \/ at' = "killed"
           \/ Forwarding /\ Forwarding' /\ UNCHANGED <<attempts, ask>> /\ at # "killed"
           \/ UNCHANGED <<at, ask, attempts, answer>>
    PROVE  Through'
<1>1. WithinCalls' /\ FirstIsRequired'
  BY DEF Through, WithinCalls, FirstIsRequired
<1>2. CASE ~Forwarding /\ at # "killed" /\ ~Forwarding'
  BY <1>1, <1>2 DEF Through, FirstKnown
<1>3. CASE at' = "killed"
  <2>1. ~Forwarding'
    BY <1>3 DEF Forwarding
  <2> QED BY <1>1, <1>3, <2>1 DEF Through, FirstKnown
<1>4. CASE Forwarding /\ Forwarding' /\ UNCHANGED <<attempts, ask>> /\ at # "killed"
  BY <1>1, <1>4 DEF Through, FirstKnown
<1>5. CASE UNCHANGED <<at, ask, attempts, answer>>
  <2>1. Forwarding' <=> Forwarding
    BY <1>5 DEF Forwarding, Called
  <2> QED BY <1>1, <1>5, <2>1 DEF Through, FirstKnown
<1> QED BY <1>2, <1>3, <1>4, <1>5

LEMMA ForwardCallThrough ==
    ASSUME GateTypeOK, Through, ForwardCall
    PROVE  Through'
<1>1. PICK t \in Visible :
        /\ RefusalOf(t) = "none"
        /\ ask' = [method |-> "tools/call", tool |-> t]
        /\ firstForwarded' = IF firstForwarded = NoTool THEN t ELSE firstForwarded
  BY DEF ForwardCall
<1>2. /\ at = "idle" /\ attempts' = attempts + 1 /\ at' = "sending"
      /\ UNCHANGED <<kind, attemptLog>>
  BY DEF ForwardCall, files
<1>3. ~Spent
  BY <1>1, Zenon DEF RefusalOf
<1>4. kind = "policy" /\ Required # NoTool /\ firstForwarded = NoTool => t = Required
  <2> SUFFICES ASSUME kind = "policy", Required # NoTool, firstForwarded = NoTool, t # Required
               PROVE  RefusalOf(t) = "first_tool_policy_violation"
    BY <1>1
  <2> QED BY <1>3, Zenon DEF RefusalOf
<1>5. attempts' <= MaxCalls
  <2>1. attempts + 1 \in Nat /\ MaxCalls \in Nat
    BY GateAssumption DEF GateTypeOK
  <2> QED BY <1>2, <1>3, <2>1 DEF Spent
<1>6. Forwarding' /\ ~Forwarding /\ ask'.tool = t
  BY <1>1, <1>2 DEF Forwarding, Called
<1>7. WithinCalls' /\ FirstIsRequired'
  BY <1>2 DEF Through, WithinCalls, FirstIsRequired
<1>8. t # NoTool
  BY GateAssumption DEF Visible
<1>9. FirstKnown'
  BY <1>1, <1>2, <1>4, <1>5, <1>6, <1>8 DEF Through, FirstKnown
<1> QED BY <1>7, <1>9 DEF Through

LEMMA LogAttemptThrough ==
    ASSUME GateTypeOK, Through, LogAttempt
    PROVE  Through'
<1> DEFINE e == [attempt |-> attempts, tool |-> ask.tool, forwarded |-> answer.forwarded,
                 reason |-> answer.reason]
           n == Len(attemptLog) + 1
           Entry == [attempt : Nat, tool : Tool, forwarded : BOOLEAN, reason : Reason]
<1>1. /\ at = "answered" /\ at' = "logged" /\ attemptLog' = Append(attemptLog, e)
      /\ UNCHANGED <<kind, firstForwarded, ask, attempts>>
  BY DEF LogAttempt, budget
<1>2. /\ e \in Entry /\ e.attempt = attempts /\ e.tool = ask.tool /\ e.forwarded = answer.forwarded
      /\ attemptLog \in Seq(Entry)
  BY DEF GateTypeOK
<1> HIDE DEF e, Entry
<1>3. /\ DOMAIN attemptLog' = DOMAIN attemptLog \cup {n}
      /\ attemptLog'[n] = e
      /\ \A j \in DOMAIN attemptLog : attemptLog'[j] = attemptLog[j]
  BY <1>1, <1>2, AppendFacts
<1>4. /\ n \in 1 .. n
      /\ \A j \in DOMAIN attemptLog : j \in 1 .. n
  BY <1>2
<1>5. answer.forwarded <=> Forwarding
  BY <1>1 DEF Forwarding
<1>6. WithinCalls'
  BY <1>2, <1>3, <1>5 DEF Through, WithinCalls, FirstKnown
<1>7. ~Forwarding'
  BY <1>1 DEF Forwarding
<1>8. FirstIsRequired'
  <2> SUFFICES ASSUME kind = "policy", Required # NoTool,
                      NEW i \in DOMAIN attemptLog', attemptLog'[i].forwarded
               PROVE  \E j \in 1 .. i : attemptLog'[j].forwarded /\ attemptLog'[j].tool = Required
    BY <1>1 DEF FirstIsRequired
  <2>1. ASSUME NEW k \in DOMAIN attemptLog, attemptLog[k].forwarded
        PROVE  \E j \in 1 .. k : /\ j \in DOMAIN attemptLog
                                 /\ attemptLog'[j].forwarded /\ attemptLog'[j].tool = Required
    <3>1. PICK j \in 1 .. k : attemptLog[j].forwarded /\ attemptLog[j].tool = Required
      BY <2>1 DEF Through, FirstIsRequired
    <3>2. j \in DOMAIN attemptLog
      BY <1>2
    <3> QED BY <1>3, <3>1, <3>2
  <2>2. CASE i \in DOMAIN attemptLog
    BY <1>3, <2>1, <2>2
  <2>3. CASE i = n
    <3>1. Forwarding
      BY <1>2, <1>3, <1>5, <2>3
    <3>2. (\E k \in DOMAIN attemptLog : attemptLog[k].forwarded) \/ ask.tool = Required
      BY <1>1, <3>1 DEF Through, FirstKnown
    <3>3. CASE ask.tool = Required
      BY <1>2, <1>3, <1>4, <2>3, <3>3
    <3>4. ASSUME NEW k \in DOMAIN attemptLog, attemptLog[k].forwarded
          PROVE  \E j \in 1 .. n : attemptLog'[j].forwarded /\ attemptLog'[j].tool = Required
      BY <1>4, <2>1, <3>4
    <3> QED BY <2>3, <3>2, <3>3, <3>4
  <2> QED BY <1>3, <2>2, <2>3
<1>9. FirstKnown'
  <2> SUFFICES ASSUME kind = "policy", Required # NoTool
               PROVE  /\ firstForwarded \in {NoTool, Required}
                      /\ firstForwarded = NoTool =>
                           \A i \in DOMAIN attemptLog' : ~attemptLog'[i].forwarded
                      /\ firstForwarded = Required =>
                           \E i \in DOMAIN attemptLog' : attemptLog'[i].forwarded
    BY <1>1, <1>7 DEF FirstKnown
  <2> QED BY <1>1, <1>2, <1>3, <1>5 DEF Through, FirstKnown
<1> QED BY <1>6, <1>8, <1>9 DEF Through

LEMMA ThroughStep == GateTypeOK /\ GatePosition /\ Through /\ [GateNext]_gateVars => Through'
<1> SUFFICES ASSUME GateTypeOK, GatePosition, Through, [GateNext]_gateVars PROVE Through'
  OBVIOUS
<1>1. CASE UNCHANGED <<kind, at, ask, attempts, answer, attemptLog, firstForwarded>>
  BY <1>1, NothingThrough
<1>2. CASE SendOn
  <2>1. /\ at = "sending" /\ at' = "waiting"
        /\ UNCHANGED <<kind, ask, attempts, attemptLog, firstForwarded>>
    BY <1>2 DEF SendOn, budget, files
  <2>2. Forwarding' <=> Forwarding
    BY <2>1 DEF Forwarding, Called
  <2> QED BY <2>1, <2>2, NothingThrough
<1>3. CASE CallReturns \/ CallRaises
  <2>1. /\ UNCHANGED <<kind, ask, attempts, attemptLog, firstForwarded>>
        /\ at \in {"sending", "waiting"} /\ Called
    BY <1>3 DEF CallReturns, CallRaises, RequestRaises, Called, files
  <2>2. \E reason, of, size : Settle(reason, of, size)
    BY <1>3, Zenon DEF CallReturns, CallRaises
  <2>3. at' = "answered" /\ answer'.forwarded
    BY <2>2 DEF Settle
  <2>4. Forwarding /\ Forwarding' /\ at # "killed"
    BY <2>1, <2>3 DEF Forwarding
  <2> QED BY <2>1, <2>4, NothingThrough
<1>4. CASE ControlReturns \/ ControlRaises
  <2>1. ~Called /\ at \in {"sending", "waiting"}
    BY <1>4 DEF ControlReturns, ControlRaises, RequestRaises, Called, Methods
  <2>2. UNCHANGED <<kind, attempts, attemptLog, firstForwarded>>
    BY <1>4 DEF ControlReturns, ControlRaises, budget, files
  <2>3. at' = "idle" \/ (at' = "sending" /\ UNCHANGED ask)
    BY <1>4, Zenon DEF ControlReturns, ControlRaises, ReplyIs
  <2>4. ~Forwarding /\ ~Forwarding'
    BY <2>1, <2>3 DEF Forwarding, Called
  <2> QED BY <2>1, <2>2, <2>4, NothingThrough
<1>5. CASE LogAttempt
  BY <1>5, LogAttemptThrough
<1>6. CASE LogResponse \/ PrintReply \/ Leave
  <2>1. /\ at \in {"logged", "recorded", "idle"} /\ at' \in {"recorded", "idle", "closed"}
        /\ UNCHANGED <<kind, attemptLog, firstForwarded>>
    BY <1>6 DEF LogResponse, PrintReply, ReplyIs, Leave, budget, files
  <2>2. ~Forwarding /\ ~Forwarding' /\ at # "killed"
    BY <2>1 DEF Forwarding
  <2> QED BY <2>1, <2>2, NothingThrough
<1>7. CASE Refuse
  <2>1. /\ at = "idle" /\ at' = "answered" /\ ~answer'.forwarded
        /\ UNCHANGED <<kind, attemptLog, firstForwarded>>
    BY <1>7 DEF Refuse, files
  <2>2. ~Forwarding /\ ~Forwarding' /\ at # "killed"
    BY <2>1 DEF Forwarding
  <2> QED BY <2>1, <2>2, NothingThrough
<1>8. CASE ForwardCall
  BY <1>8, ForwardCallThrough
<1>9. ASSUME NEW m \in Methods, TakeRequest(m) PROVE Through'
  <2>1. /\ at = "idle" /\ at' = "sending" /\ ~Called'
        /\ UNCHANGED <<kind, attemptLog, firstForwarded>>
    BY <1>9 DEF TakeRequest, Called, Methods, budget, files
  <2>2. ~Forwarding /\ ~Forwarding' /\ at # "killed"
    BY <2>1 DEF Forwarding
  <2> QED BY <2>1, <2>2, NothingThrough
<1>10. CASE Killed
  BY <1>10, NothingThrough DEF Killed, budget, files
<1>11. UNCHANGED <<kind, at, ask, attempts, answer, attemptLog, firstForwarded>>
       \/ SendOn \/ CallReturns \/ CallRaises \/ ControlReturns \/ ControlRaises
       \/ LogAttempt \/ LogResponse \/ PrintReply \/ Refuse \/ ForwardCall
       \/ (\E m \in Methods : TakeRequest(m)) \/ Leave \/ Killed
  <2>1. ASSUME NEW u \in Servers, UpstreamExits(u)
        PROVE  UNCHANGED <<kind, at, ask, attempts, answer, attemptLog, firstForwarded>>
    BY <2>1 DEF UpstreamExits, budget, files
  <2>2. ASSUME NEW u \in Servers, NEW r \in pending[u], NEW size \in ReplySizes \cup {0},
               NEW says \in {"pinned", "other", "result", "error"},
               UpstreamAnswers(u, r, says, size)
        PROVE  UNCHANGED <<kind, at, ask, attempts, answer, attemptLog, firstForwarded>>
    BY <2>2 DEF UpstreamAnswers, budget, files
  <2>3. CASE Discard \/ UNCHANGED gateVars
    BY <2>3 DEF Discard, gateVars, budget, files
  <2> QED BY <2>1, <2>2, <2>3, Zenon DEF GateNext, GateStep, AgentStep, Over
<1> QED BY <1>1, <1>2, <1>3, <1>4, <1>5, <1>6, <1>7, <1>8, <1>9, <1>10, <1>11

LEMMA ThroughAlways == GateSpec => []Through
<1>1. GateInit => Through
  <2> SUFFICES ASSUME GateInit PROVE Through
    OBVIOUS
  <2>1. ~Forwarding /\ firstForwarded = NoTool /\ DOMAIN attemptLog = {}
    BY DEF GateInit, Forwarding
  <2> QED BY <2>1 DEF Through, WithinCalls, FirstIsRequired, FirstKnown
<1>2. GateInv => GateTypeOK /\ GatePosition
  BY DEF GateInv
<1> QED BY GateCorrectness, ThroughStep, <1>1, <1>2, PTL DEF GateSpec

\* Whatever the agent tries, in whatever order, only calls of tools it was shown
\* and within the budget of calls reach an upstream.
THEOREM WithinCallsAlways == GateSpec => []WithinCalls
<1>1. Through => WithinCalls
  BY DEF Through
<1> QED BY ThroughAlways, <1>1, PTL

\* Under a first-tool policy the first call the gate ever forwards is the one the
\* policy names, through refusals, failures and late answers.
THEOREM FirstIsRequiredAlways == GateSpec => []FirstIsRequired
<1>1. Through => FirstIsRequired
  BY DEF Through
<1> QED BY ThroughAlways, <1>1, PTL

-----------------------------------------------------------------------------
(* ComposeServer: types and the inductive invariant.                         *)

Line == [kind : {"retrieve", "request", "notification", "answer"}, id : Nat,
         steps : Plans \cup {<<>>}]
Row == {"some", "none", "error"}
Result == [id : Nat, rows : Row]
Output == [kind : {"reply", "notice", "question"}, id : Nat, rows : Row]
Out == [kind : {"plan", "error", "reply", "notice", "question"}, id : Nat,
        steps : Seq(Result), stopped : BOOLEAN]

ComposeTypeOK ==
    /\ pinned \in BOOLEAN
    /\ input \in Seq(Line) /\ written \in 0 .. MaxLines
    /\ doing \in {"reading", "plan", "call", "relaying", "relay", "gone"}
    /\ line \in Line \cup {NoLine}
    /\ results \in Seq(Result) /\ nextId \in Nat
    /\ wire \subseteq Nat /\ output \in Seq(Output)
    /\ serverUp \in BOOLEAN /\ unprompted \in Nat
    /\ out \in Seq(Out)
    /\ ran \in [1 .. MaxLines -> Nat]

\* The lines that are answered, each under the id the client numbered it with.
Numbered(l) == l.kind \in {"retrieve", "request"}

\* What main() is doing agrees with the line it is doing it for.
LineOfWork ==
    /\ doing = "reading" <=> line = NoLine
    /\ doing \in {"plan", "call"} => line.kind = "retrieve"
    /\ doing \in {"relaying", "relay"} => line.kind # "retrieve"
    /\ doing = "relay" => line.kind # "notification"
    /\ doing \in {"reading", "relaying", "relay"} => results = <<>>
    /\ line.kind = "retrieve" => line.steps \in Plans
    /\ \A i \in DOMAIN input : input[i].kind = "retrieve" => input[i].steps \in Plans

\* The id the proxy waits for the answer to.
Waiting == doing \in {"call", "relay"}
Expected == IF doing = "call" THEN nextId ELSE line.id

\* With a server that never asks, the proxy has one request under way at most:
\* the server has it, or its answer, the only one, is in the server's output.
OneUnderWay ==
    /\ ~serverUp => wire = {}
    /\ pinned =>
         /\ \A i \in DOMAIN input : input[i].kind # "answer"
         /\ line.kind # "answer"
         /\ \A i \in DOMAIN output : output[i].kind # "question"
         /\ \A i \in DOMAIN out : out[i].kind # "question"
         /\ wire \subseteq {Expected} /\ (~Waiting => wire = {})
         /\ \A i \in DOMAIN output : output[i].kind = "reply" =>
              /\ Waiting /\ output[i].id = Expected /\ wire = {}
              /\ \A j \in DOMAIN output : output[j].kind = "reply" => j = i

\* The answers whose order the client relies on.
Counts(said) == said.kind \in {"plan", "error"} \/ (pinned /\ said.kind = "reply")

\* Lines are numbered as they are written; what waits was written after what is
\* at hand, and what is at hand after all that has been answered.
InOrder ==
    /\ \A i \in DOMAIN input : Numbered(input[i]) =>
         /\ input[i].id \in 1 .. written
         /\ \A j \in 1 .. i - 1 : Numbered(input[j]) => input[j].id < input[i].id
         /\ Numbered(line) => line.id < input[i].id
         /\ \A k \in DOMAIN out : Counts(out[k]) => out[k].id < input[i].id
    /\ Numbered(line) =>
         /\ line.id \in 1 .. written
         /\ \A k \in DOMAIN out : Counts(out[k]) => out[k].id < line.id
    /\ \A k \in DOMAIN out : Counts(out[k]) =>
         /\ out[k].id \in 1 .. written
         /\ \A j \in 1 .. k - 1 : Counts(out[j]) => out[j].id < out[k].id

\* Steps are counted for the plan at hand only, and every one of them is in what
\* it will hand back.
StepsCounted ==
    /\ \A n \in 1 .. MaxLines : n > written => ran[n] = 0
    /\ \A i \in DOMAIN input : Numbered(input[i]) => ran[input[i].id] = 0
    /\ doing \in {"plan", "call"} => ran[line.id] = Len(results)

ComposeInv == ComposeTypeOK /\ LineOfWork /\ OneUnderWay /\ InOrder /\ StepsCounted /\ EvidenceKept
-----------------------------------------------------------------------------
(* Facts about sequences, and about the steps main() is built from. *)

\* A longer sequence is the old one and one thing more, at the end.
LEMMA Appended ==
    ASSUME NEW S, NEW s \in Seq(S), NEW e \in S
    PROVE  /\ Append(s, e) \in Seq(S) /\ Len(s) \in Nat
           /\ DOMAIN s = 1 .. Len(s) /\ DOMAIN Append(s, e) = 1 .. Len(s) + 1
           /\ Len(Append(s, e)) = Len(s) + 1
           /\ Append(s, e)[Len(s) + 1] = e
           /\ \A j \in 1 .. Len(s) : Append(s, e)[j] = s[j]
  OBVIOUS

\* What is left of a sequence is what was in it, one place further on.
LEMMA Popped ==
    ASSUME NEW S, NEW s \in Seq(S), s # <<>>
    PROVE  /\ Tail(s) \in Seq(S) /\ Head(s) \in S
           /\ 1 \in DOMAIN s /\ Head(s) = s[1]
           /\ DOMAIN Tail(s) \subseteq Nat \ {0}
           /\ \A i \in DOMAIN Tail(s) : i + 1 \in DOMAIN s /\ Tail(s)[i] = s[i + 1]
  OBVIOUS

\* The answers main() gives are of the shapes the client is given.
LEMMA RepliesType ==
    ASSUME ComposeTypeOK
    PROVE  /\ line.id \in Nat /\ Refusal \in Out
           /\ \A steps \in Seq(Result), stopped \in BOOLEAN :
                /\ Said(steps, stopped) \in Out
                /\ Said(steps, stopped).id = line.id /\ Said(steps, stopped).kind = "plan"
                /\ Said(steps, stopped).steps = steps
<1>1. line.id \in Nat
  BY DEF ComposeTypeOK, Line, NoLine
<1>2. <<>> \in Seq(Result)
  OBVIOUS
<1> QED BY <1>1, <1>2 DEF Said, Refusal, Out

LEMMA AnsweredType ==
    ASSUME ComposeTypeOK, NEW reply \in Out, Answered(reply)
    PROVE  /\ out' \in Seq(Out) /\ results' \in Seq(Result)
           /\ doing' = "reading" /\ line' = NoLine
<1>1. out' = Append(out, reply) /\ out \in Seq(Out)
  BY DEF Answered, ComposeTypeOK
<1>2. out' \in Seq(Out)
  BY <1>1, Appended
<1> QED BY <1>2 DEF Answered

-----------------------------------------------------------------------------
(* Types. *)

LEMMA ComposeTypeInit == ComposeInit => ComposeTypeOK
<1> SUFFICES ASSUME ComposeInit PROVE ComposeTypeOK
  OBVIOUS
<1>1. /\ <<>> \in Seq(Line) /\ <<>> \in Seq(Result) /\ <<>> \in Seq(Output) /\ <<>> \in Seq(Out)
  OBVIOUS
<1>2. written \in 0 .. MaxLines /\ nextId \in Nat
  BY PlansAssumption DEF ComposeInit, FirstStepId
<1>3. ran \in [1 .. MaxLines -> Nat]
  BY DEF ComposeInit
<1> QED BY <1>1, <1>2, <1>3 DEF ComposeInit, ComposeTypeOK

LEMMA ClientType ==
    ASSUME ComposeTypeOK, ClientWrites \/ ClientAnswers
    PROVE  /\ ComposeTypeOK'
           /\ \E l \in Line :
                /\ input' = Append(input, l)
                /\ l.kind = "retrieve" => l.steps \in Plans
                /\ Numbered(l) => l.id = written + 1
                /\ l.kind = "answer" => \E i \in DOMAIN out : out[i].kind = "question"
           /\ written' = written + 1
<1>0. written \in Nat /\ written + 1 \in Nat /\ MaxLines \in Nat
  BY PlansAssumption DEF ComposeTypeOK
<1>1. written' = written + 1 /\ written' \in 0 .. MaxLines
  BY <1>0 DEF ClientWrites, ClientAnswers
<1>2. PICK l \in Line :
        /\ input' = Append(input, l)
        /\ l.kind = "retrieve" => l.steps \in Plans
        /\ Numbered(l) => l.id = written + 1
        /\ l.kind = "answer" => \E i \in DOMAIN out : out[i].kind = "question"
  <2>1. CASE ClientWrites
    <3>1. PICK l : /\ input' = Append(input, l)
                   /\ \/ \E p \in Plans : l = [kind |-> "retrieve", id |-> written + 1, steps |-> p]
                      \/ l = [kind |-> "request", id |-> written + 1, steps |-> <<>>]
                      \/ l = [kind |-> "notification", id |-> 0, steps |-> <<>>]
      BY <2>1 DEF ClientWrites
    <3> QED BY <1>0, <3>1 DEF Line, Numbered
  <2>2. CASE ClientAnswers
    <3>1. PICK i \in DOMAIN out :
            /\ out[i].kind = "question"
            /\ input' = Append(input, [kind |-> "answer", id |-> out[i].id, steps |-> <<>>])
      BY <2>2 DEF ClientAnswers
    <3>2. out[i] \in Out
      BY ElementIn DEF ComposeTypeOK
    <3>3. [kind |-> "answer", id |-> out[i].id, steps |-> <<>>] \in Line
      BY <3>2 DEF Line, Out
    <3> QED BY <3>1, <3>3 DEF Numbered
  <2> QED BY <2>1, <2>2
<1>3. input' \in Seq(Line)
  BY <1>2, Appended DEF ComposeTypeOK
<1> QED BY <1>1, <1>2, <1>3 DEF ComposeTypeOK, ClientWrites, ClientAnswers, server

LEMMA ServerType ==
    ASSUME ComposeTypeOK, ServerStep \/ ServerSpeaks \/ ServerDies
    PROVE  ComposeTypeOK'
<1>1. ASSUME NEW r \in wire, NEW rows \in Row, ServerAnswers(r, rows) PROVE ComposeTypeOK'
  <2>1. [kind |-> "reply", id |-> r, rows |-> rows] \in Output
    BY DEF ComposeTypeOK, Output
  <2>2. output' \in Seq(Output)
    BY <1>1, <2>1, Appended DEF ComposeTypeOK, ServerAnswers
  <2> QED BY <1>1, <2>2 DEF ComposeTypeOK, ServerAnswers, client
<1>2. CASE ServerSpeaks
  <2>1. PICK said \in {"notice", "question"} :
          output' = Append(output, [kind |-> said, id |-> unprompted, rows |-> "none"])
    BY <1>2 DEF ServerSpeaks
  <2>2. [kind |-> said, id |-> unprompted, rows |-> "none"] \in Output
    BY DEF ComposeTypeOK, Output, Row
  <2>3. output' \in Seq(Output)
    BY <2>1, <2>2, Appended DEF ComposeTypeOK
  <2>4. unprompted' \in Nat
    BY <1>2 DEF ComposeTypeOK, ServerSpeaks
  <2> QED BY <1>2, <2>3, <2>4 DEF ComposeTypeOK, ServerSpeaks, client
<1>3. CASE ServerDies
  BY <1>3 DEF ComposeTypeOK, ServerDies, client
<1> QED BY <1>1, <1>2, <1>3 DEF ServerStep, Row

\* The line at hand is one of the client's whenever main() works on one.
LEMMA AtWork ==
    ASSUME ComposeTypeOK, LineOfWork, doing \notin {"reading", "gone"}
    PROVE  line \in Line
  BY DEF ComposeTypeOK, LineOfWork

LEMMA StepAnsweredType ==
    ASSUME ComposeTypeOK, LineOfWork, StepAnswered
    PROVE  ComposeTypeOK'
<1>1. Head(output) \in Output /\ output' \in Seq(Output)
  BY Popped DEF ComposeTypeOK, StepAnswered
<1> DEFINE r == [id |-> nextId, rows |-> RowsOf(Head(output))]
           sofar == Append(results, r)
<1>2. r \in Result
  BY <1>1 DEF ComposeTypeOK, Result, RowsOf, Output
<1>3. sofar \in Seq(Result)
  BY <1>2, Appended DEF ComposeTypeOK
<1>4. ran' \in [1 .. MaxLines -> Nat]
  <2>1. ran \in [1 .. MaxLines -> Nat]
    BY DEF ComposeTypeOK
  <2>2. ran' = [ran EXCEPT ![line.id] = ran[line.id] + 1]
    BY DEF StepAnswered
  <2>3. DOMAIN ran' = 1 .. MaxLines
    BY <2>1, <2>2
  <2>4. \A n \in 1 .. MaxLines : ran'[n] = IF n = line.id THEN ran[line.id] + 1 ELSE ran[n]
    BY <2>1, <2>2
  <2>5. \A n \in 1 .. MaxLines : ran[n] \in Nat
    BY <2>1
  <2>6. \A n \in 1 .. MaxLines : ran'[n] \in Nat
    BY <2>4, <2>5
  <2>7. ran' = [n \in 1 .. MaxLines |-> ran'[n]]
    BY <2>2, <2>3
  <2> QED BY <2>6, <2>7
<1>5. CASE RowsOf(Head(output)) = "error"
  <2>1. Answered(Said(sofar, TRUE))
    BY <1>5 DEF StepAnswered
  <2>2. Said(sofar, TRUE) \in Out
    BY <1>3, RepliesType
  <2> QED BY <1>1, <1>4, <2>1, <2>2, AnsweredType DEF ComposeTypeOK, StepAnswered, client
<1>6. CASE RowsOf(Head(output)) # "error"
  <2>1. results' = sofar /\ doing' = "plan" /\ UNCHANGED <<line, out>>
    BY <1>6 DEF StepAnswered
  <2> HIDE DEF sofar
  <2> QED BY <1>1, <1>3, <1>4, <2>1 DEF ComposeTypeOK, StepAnswered, client
<1> QED BY <1>5, <1>6

LEMMA ComposeTypeStep == ComposeTypeOK /\ LineOfWork /\ [ComposeNext]_composeVars => ComposeTypeOK'
<1> SUFFICES ASSUME ComposeTypeOK, LineOfWork, [ComposeNext]_composeVars PROVE ComposeTypeOK'
  OBVIOUS
<1>1. CASE ReadLine
  <2>1. Head(input) \in Line /\ Tail(input) \in Seq(Line)
    BY <1>1, Popped DEF ComposeTypeOK, ReadLine
  <2> QED BY <1>1, <2>1 DEF ComposeTypeOK, ReadLine, server
<1>2. ASSUME NEW reply \in Out, Answered(reply), UNCHANGED <<pinned, client, nextId, server, ran>>
      PROVE  ComposeTypeOK'
  BY <1>2, AnsweredType DEF ComposeTypeOK, client, server
<1>3. CASE StepRefused
  <2>1. Refusal \in Out /\ Said(results, TRUE) \in Out
    BY RepliesType DEF ComposeTypeOK
  <2> QED BY <1>2, <1>3, <2>1, Zenon DEF StepRefused
<1>4. CASE StepSent
  BY <1>4 DEF ComposeTypeOK, StepSent, client
<1>5. CASE PipeBreaks
  BY <1>5 DEF ComposeTypeOK, PipeBreaks, client, server
<1>6. CASE StepAnswered
  BY <1>6, StepAnsweredType
<1>7. CASE StepCut
  BY <1>2, <1>7, RepliesType DEF StepCut
<1>8. CASE PlanEnds
  <2>1. Said(results, FALSE) \in Out
    BY RepliesType DEF ComposeTypeOK
  <2> QED BY <1>2, <1>8, <2>1, Zenon DEF PlanEnds
<1>9. CASE RelaySent
  <2>1. line.id \in Nat
    BY RepliesType
  <2> QED BY <1>9, <2>1 DEF ComposeTypeOK, RelaySent, client
<1>10. CASE RelayAnswered
  <2>1. Head(output) \in Output /\ output' \in Seq(Output)
    BY <1>10, Popped DEF ComposeTypeOK, RelayAnswered
  <2>2. [kind |-> "reply", id |-> Head(output).id, steps |-> <<>>, stopped |-> FALSE] \in Out
    BY <2>1 DEF Out, Output
  <2> QED BY <1>10, <2>1, <2>2, AnsweredType DEF ComposeTypeOK, RelayAnswered, client
<1>11. CASE RelayCut
  BY <1>11 DEF ComposeTypeOK, RelayCut, client, server
<1>12. CASE Forward
  <2>1. Head(output) \in Output /\ output' \in Seq(Output)
    BY <1>12, Popped DEF ComposeTypeOK, Forward
  <2>2. [kind |-> Head(output).kind, id |-> Head(output).id, steps |-> <<>>, stopped |-> FALSE] \in Out
    BY <2>1 DEF Out, Output
  <2>3. out' \in Seq(Out)
    BY <1>12, <2>2, Appended DEF ComposeTypeOK, Forward
  <2> QED BY <1>12, <2>1, <2>3 DEF ComposeTypeOK, Forward, client
<1>13. CASE ClientWrites \/ ClientAnswers
  BY <1>13, ClientType
<1>14. CASE ServerStep \/ ServerSpeaks \/ ServerDies
  BY <1>14, ServerType
<1>15. CASE UNCHANGED composeVars
  BY <1>15 DEF ComposeTypeOK, composeVars, client, server
<1> QED
  BY <1>1, <1>3, <1>4, <1>5, <1>6, <1>7, <1>8, <1>9, <1>10, <1>11, <1>12, <1>13, <1>14, <1>15
     DEF ComposeNext, ComposeStep
-----------------------------------------------------------------------------
(* What main() does and the line it does it for. *)

\* A step of the plan whose answer is read either goes on or answers the plan.
LEMMA StepAnsweredFacts ==
    ASSUME ComposeTypeOK, StepAnswered
    PROVE  LET sofar == Append(results, [id |-> nextId, rows |-> RowsOf(Head(output))]) IN
           /\ sofar \in Seq(Result) /\ Len(sofar) = Len(results) + 1 /\ Len(results) \in Nat
           /\ \/ Answered(Said(sofar, TRUE))
              \/ results' = sofar /\ doing' = "plan" /\ UNCHANGED <<line, out>>
<1> DEFINE r == [id |-> nextId, rows |-> RowsOf(Head(output))]
<1>1. Head(output) \in Output
  BY Popped DEF ComposeTypeOK, StepAnswered
<1>2. r \in Result
  BY <1>1 DEF ComposeTypeOK, Result, RowsOf, Output
<1>3. /\ Append(results, r) \in Seq(Result) /\ Len(results) \in Nat
      /\ Len(Append(results, r)) = Len(results) + 1
  BY <1>2, Appended DEF ComposeTypeOK
<1>4. \/ Answered(Said(Append(results, r), TRUE))
      \/ results' = Append(results, r) /\ doing' = "plan" /\ UNCHANGED <<line, out>>
  BY Zenon DEF StepAnswered
<1> QED BY <1>3, <1>4

\* The plan steps that answer a plan, and with what.
LEMMA PlanAnswers ==
    ASSUME ComposeTypeOK, LineOfWork, StepRefused \/ StepCut \/ PlanEnds
    PROVE  \E reply \in Out :
             /\ Answered(reply) /\ UNCHANGED <<pinned, client, nextId, server, ran>>
             /\ reply.id = line.id
             /\ \/ reply.kind = "plan" /\ reply.steps = results
                \/ /\ reply.kind = "error"
                   /\ \/ ~serverUp
                      \/ doing = "plan" /\ Position \in DOMAIN line.steps
                         /\ line.steps[Position].malformed
<1>1. /\ Refusal \in Out /\ Refusal.id = line.id /\ Refusal.kind = "error"
      /\ \A stopped \in BOOLEAN : /\ Said(results, stopped) \in Out
                                  /\ Said(results, stopped).id = line.id
                                  /\ Said(results, stopped).kind = "plan"
                                  /\ Said(results, stopped).steps = results
  BY RepliesType DEF Refusal, ComposeTypeOK
<1>2. CASE StepRefused
  <2>1. /\ doing = "plan" /\ Position <= Len(line.steps)
        /\ UNCHANGED <<pinned, client, nextId, server, ran>>
    BY <1>2 DEF StepRefused
  <2>2. \/ Answered(Said(results, TRUE))
        \/ Answered(Refusal) /\ line.steps[Position].malformed
    BY <1>2, Zenon DEF StepRefused
  <2>3. line.steps \in Seq(Step)
    BY <2>1, PlansAssumption DEF LineOfWork
  <2>4. Position \in Nat \ {0}
    BY DEF Position, ComposeTypeOK
  <2>5. Position \in DOMAIN line.steps
    BY <2>1, <2>3, <2>4
  <2> QED BY <1>1, <2>1, <2>2, <2>5
<1>3. CASE StepCut
  BY <1>1, <1>3 DEF StepCut
<1>4. CASE PlanEnds
  BY <1>1, <1>4 DEF PlanEnds
<1> QED BY <1>2, <1>3, <1>4

LEMMA NoLineKind == NoLine.kind = "none" /\ NoLine.id = 0 /\ ~Numbered(NoLine)
  BY DEF NoLine, Numbered

LEMMA LineOfWorkInit == ComposeInit => LineOfWork
  BY NoLineKind DEF ComposeInit, LineOfWork

LEMMA LineOfWorkStep == ComposeTypeOK /\ LineOfWork /\ [ComposeNext]_composeVars => LineOfWork'
<1> SUFFICES ASSUME ComposeTypeOK, LineOfWork, [ComposeNext]_composeVars PROVE LineOfWork'
  OBVIOUS
<1> USE NoLineKind
<1>1. CASE ReadLine
  <2>1. /\ Head(input) \in Line /\ Head(input) = input[1] /\ 1 \in DOMAIN input
        /\ \A i \in DOMAIN Tail(input) : i + 1 \in DOMAIN input /\ Tail(input)[i] = input[i + 1]
    BY <1>1, Popped DEF ComposeTypeOK, ReadLine
  <2>2. /\ line' = Head(input) /\ input' = Tail(input) /\ results' = results /\ results = <<>>
        /\ doing' = IF Head(input).kind = "retrieve" THEN "plan" ELSE "relaying"
    BY <1>1 DEF ReadLine, LineOfWork
  <2>3. line' # NoLine
    BY <2>1, <2>2 DEF Line
  <2>4. /\ line'.kind = "retrieve" => line'.steps \in Plans
        /\ \A i \in DOMAIN input' : input'[i].kind = "retrieve" => input'[i].steps \in Plans
    BY <2>1, <2>2 DEF LineOfWork
  <2> QED BY <2>2, <2>3, <2>4 DEF LineOfWork
<1>2. ASSUME NEW reply \in Out, Answered(reply), UNCHANGED input PROVE LineOfWork'
  BY <1>2 DEF LineOfWork, Answered
<1>3. CASE StepRefused \/ StepCut \/ PlanEnds
  BY <1>2, <1>3, PlanAnswers DEF client
<1>4. CASE StepSent
  BY <1>4 DEF LineOfWork, StepSent, client
<1>5. CASE PipeBreaks
  BY <1>5 DEF LineOfWork, PipeBreaks, client
<1>6. CASE StepAnswered
  <2> DEFINE sofar == Append(results, [id |-> nextId, rows |-> RowsOf(Head(output))])
  <2>1. /\ sofar \in Seq(Result)
        /\ \/ Answered(Said(sofar, TRUE))
           \/ results' = sofar /\ doing' = "plan" /\ UNCHANGED <<line, out>>
    BY <1>6, StepAnsweredFacts
  <2> HIDE DEF sofar
  <2>2. Said(sofar, TRUE) \in Out
    BY <2>1, RepliesType
  <2>3. UNCHANGED input /\ doing = "call"
    BY <1>6 DEF StepAnswered, client
  <2>4. CASE results' = sofar /\ doing' = "plan" /\ UNCHANGED <<line, out>>
    BY <2>3, <2>4 DEF LineOfWork
  <2> QED BY <1>2, <2>1, <2>2, <2>3, <2>4
<1>7. CASE RelaySent
  BY <1>7 DEF LineOfWork, RelaySent, client
<1>8. CASE RelayAnswered
  BY <1>8 DEF LineOfWork, RelayAnswered, Answered, client
<1>9. CASE RelayCut
  BY <1>9 DEF LineOfWork, RelayCut, client
<1>10. CASE ClientWrites \/ ClientAnswers
  <2>1. PICK l \in Line : input' = Append(input, l) /\ (l.kind = "retrieve" => l.steps \in Plans)
    BY <1>10, ClientType
  <2>2. \A i \in DOMAIN input' : input'[i] = l \/ (i \in DOMAIN input /\ input'[i] = input[i])
    BY <2>1, Appended DEF ComposeTypeOK
  <2>3. UNCHANGED <<doing, line, results>>
    BY <1>10 DEF ClientWrites, ClientAnswers
  <2> QED BY <2>1, <2>2, <2>3 DEF LineOfWork
<1>11. CASE UNCHANGED <<input, doing, line, results>>
  BY <1>11 DEF LineOfWork
<1>12. \/ ReadLine \/ StepRefused \/ StepSent \/ PipeBreaks \/ StepAnswered \/ StepCut
       \/ PlanEnds \/ RelaySent \/ RelayAnswered \/ RelayCut \/ ClientWrites \/ ClientAnswers
       \/ UNCHANGED <<input, doing, line, results>>
  BY Zenon DEF ComposeNext, ComposeStep, ServerStep, ServerAnswers, ServerSpeaks, ServerDies, Forward,
       composeVars, client
<1> QED
  BY <1>1, <1>3, <1>4, <1>5, <1>6, <1>7, <1>8, <1>9, <1>10, <1>11, <1>12
-----------------------------------------------------------------------------
(* One request under way. *)

LEMMA OneUnderWayInit == ComposeInit => OneUnderWay
  BY NoLineKind DEF ComposeInit, OneUnderWay, Waiting

\* A step that neither reads nor writes the server's side, when nothing is under way.
LEMMA NothingUnderWay ==
    ASSUME OneUnderWay, ~Waiting, UNCHANGED <<pinned, wire, output, serverUp>>,
           pinned => line'.kind # "answer",
           pinned => \A i \in DOMAIN input' : input'[i].kind # "answer",
           pinned => \A i \in DOMAIN out' : out'[i].kind # "question"
    PROVE  OneUnderWay'
  BY DEF OneUnderWay

\* A step that takes the first line of the server's output.
LEMMA OutputTaken ==
    ASSUME ComposeTypeOK, OneUnderWay, output # <<>>, output' = Tail(output),
           UNCHANGED <<pinned, wire, serverUp, input>>,
           pinned => line'.kind # "answer",
           pinned => \A i \in DOMAIN out' : out'[i].kind # "question",
           pinned => \/ Head(output).kind = "reply"
                     \/ UNCHANGED <<doing, line, nextId>>
    PROVE  OneUnderWay'
<1>1. /\ Head(output) = output[1] /\ 1 \in DOMAIN output
      /\ DOMAIN Tail(output) \subseteq Nat \ {0}
      /\ \A i \in DOMAIN Tail(output) : i + 1 \in DOMAIN output /\ Tail(output)[i] = output[i + 1]
  BY Popped DEF ComposeTypeOK
<1>2. CASE ~pinned
  BY <1>2 DEF OneUnderWay
<1>3. CASE pinned /\ Head(output).kind = "reply"
  <2>1. wire = {} /\ \A j \in DOMAIN output : output[j].kind = "reply" => j = 1
    BY <1>1, <1>3 DEF OneUnderWay
  <2>2. \A i \in DOMAIN output' : output'[i].kind # "reply" /\ output'[i].kind # "question"
    BY <1>1, <1>3, <2>1 DEF OneUnderWay
  <2> QED BY <1>3, <2>1, <2>2 DEF OneUnderWay
<1>4. CASE pinned /\ Head(output).kind # "reply" /\ UNCHANGED <<doing, line, nextId>>
  <2>1. Waiting' = Waiting /\ Expected' = Expected
    BY <1>4 DEF Waiting, Expected
  <2>2. ASSUME NEW i \in DOMAIN output', output'[i].kind = "reply"
        PROVE  /\ Waiting /\ output'[i].id = Expected /\ wire = {}
               /\ \A j \in DOMAIN output' : output'[j].kind = "reply" => j = i
    <3>1. /\ i + 1 \in DOMAIN output /\ output'[i] = output[i + 1]
          /\ \A j \in DOMAIN output' : j + 1 \in DOMAIN output /\ output'[j] = output[j + 1]
          /\ i \in Nat /\ \A j \in DOMAIN output' : j \in Nat
      BY <1>1
    <3>2. \A j \in DOMAIN output' : output'[j].kind = "reply" => j + 1 = i + 1
      BY <1>4, <2>2, <3>1 DEF OneUnderWay
    <3> QED BY <1>4, <2>2, <3>1, <3>2 DEF OneUnderWay
  <2>3. \A i \in DOMAIN output' : output'[i].kind # "question"
    BY <1>1, <1>4 DEF OneUnderWay
  <2> QED BY <1>4, <2>1, <2>2, <2>3 DEF OneUnderWay
<1> QED BY <1>2, <1>3, <1>4

LEMMA NoQuestion ==
    ASSUME ComposeTypeOK, NEW reply \in Out, out' = Append(out, reply), pinned, OneUnderWay,
           reply.kind # "question"
    PROVE  \A i \in DOMAIN out' : out'[i].kind # "question"
<1>1. \A i \in DOMAIN out' : out'[i] = reply \/ (i \in DOMAIN out /\ out'[i] = out[i])
  BY Appended DEF ComposeTypeOK
<1> QED BY <1>1 DEF OneUnderWay

LEMMA ServerAnswersKeeps ==
    ASSUME ComposeTypeOK, OneUnderWay, NEW r \in wire, NEW rows \in Row, ServerAnswers(r, rows)
    PROVE  OneUnderWay'
<1> DEFINE m == [kind |-> "reply", id |-> r, rows |-> rows]
<1>1. m \in Output /\ m.kind = "reply" /\ m.id = r
  BY DEF ComposeTypeOK, Output
<1>2. output' = Append(output, m)
  BY DEF ServerAnswers
<1> HIDE DEF m
<1>3. /\ DOMAIN output' = 1 .. Len(output) + 1 /\ DOMAIN output = 1 .. Len(output)
      /\ Len(output) \in Nat /\ output'[Len(output) + 1] = m
      /\ \A i \in 1 .. Len(output) : output'[i] = output[i]
  BY <1>1, <1>2, Appended DEF ComposeTypeOK
<1>4. UNCHANGED <<pinned, input, line, doing, nextId, serverUp, out>> /\ wire' = wire \ {r}
      /\ serverUp
  BY DEF ServerAnswers, client
<1>5. Waiting' = Waiting /\ Expected' = Expected
  BY <1>4 DEF Waiting, Expected
<1>6. ASSUME pinned
      PROVE  /\ wire' = {} /\ Waiting /\ m.id = Expected
             /\ \A i \in 1 .. Len(output) : output[i].kind # "reply"
  BY <1>1, <1>3, <1>4, <1>6 DEF OneUnderWay
<1>7. ASSUME pinned, NEW i \in DOMAIN output' PROVE output'[i].kind # "question"
  BY <1>1, <1>3, <1>7 DEF OneUnderWay
<1>8. ASSUME pinned, NEW i \in DOMAIN output', output'[i].kind = "reply"
      PROVE  i = Len(output) + 1 /\ output'[i].id = Expected
  BY <1>1, <1>3, <1>6, <1>8
<1> QED BY <1>4, <1>5, <1>6, <1>7, <1>8 DEF OneUnderWay

LEMMA ServerSpeaksKeeps ==
    ASSUME ComposeTypeOK, OneUnderWay, ServerSpeaks
    PROVE  OneUnderWay'
<1>1. PICK said \in {"notice", "question"} :
        /\ output' = Append(output, [kind |-> said, id |-> unprompted, rows |-> "none"])
        /\ pinned => said = "notice"
  BY DEF ServerSpeaks
<1> DEFINE m == [kind |-> said, id |-> unprompted, rows |-> "none"]
<1>2. m \in Output /\ m.kind = said /\ m.kind # "reply"
  BY DEF ComposeTypeOK, Output, Row
<1> HIDE DEF m
<1>3. /\ DOMAIN output' = 1 .. Len(output) + 1 /\ DOMAIN output = 1 .. Len(output)
      /\ Len(output) \in Nat /\ output'[Len(output) + 1] = m
      /\ \A i \in 1 .. Len(output) : output'[i] = output[i]
  BY <1>1, <1>2, Appended DEF ComposeTypeOK, m
<1>4. UNCHANGED <<pinned, input, line, doing, nextId, serverUp, out, wire>>
  BY DEF ServerSpeaks, client
<1>5. Waiting' = Waiting /\ Expected' = Expected
  BY <1>4 DEF Waiting, Expected
<1>6. ASSUME pinned, NEW i \in DOMAIN output' PROVE output'[i].kind # "question"
  BY <1>1, <1>2, <1>3, <1>6 DEF OneUnderWay
<1>7. ASSUME pinned, NEW i \in DOMAIN output', output'[i].kind = "reply"
      PROVE  i \in DOMAIN output /\ output'[i] = output[i]
  BY <1>1, <1>2, <1>3, <1>7
<1>8. \A i \in DOMAIN output' : output'[i].kind = "reply" => i \in 1 .. Len(output)
  BY <1>2, <1>3
<1> QED BY <1>3, <1>4, <1>5, <1>6, <1>7, <1>8 DEF OneUnderWay
LEMMA OneUnderWayStep ==
    ComposeTypeOK /\ LineOfWork /\ OneUnderWay /\ [ComposeNext]_composeVars => OneUnderWay'
<1> SUFFICES ASSUME ComposeTypeOK, LineOfWork, OneUnderWay, [ComposeNext]_composeVars
             PROVE  OneUnderWay'
  OBVIOUS
<1> USE NoLineKind
<1>1. CASE ReadLine
  <2>1. /\ Head(input) = input[1] /\ 1 \in DOMAIN input
        /\ \A i \in DOMAIN Tail(input) : i + 1 \in DOMAIN input /\ Tail(input)[i] = input[i + 1]
    BY <1>1, Popped DEF ComposeTypeOK, ReadLine
  <2>2. /\ line' = Head(input) /\ input' = Tail(input) /\ doing = "reading"
        /\ UNCHANGED <<pinned, wire, output, serverUp, out>>
    BY <1>1 DEF ReadLine, server
  <2>3. ~Waiting
    BY <2>2 DEF Waiting
  <2>4. pinned => line'.kind # "answer" /\ \A i \in DOMAIN input' : input'[i].kind # "answer"
    BY <2>1, <2>2 DEF OneUnderWay
  <2>5. pinned => \A i \in DOMAIN out' : out'[i].kind # "question"
    BY <2>2 DEF OneUnderWay
  <2> QED BY <2>2, <2>3, <2>4, <2>5, NothingUnderWay
<1>2. CASE StepRefused \/ StepCut \/ PlanEnds
  <2>1. PICK reply \in Out :
          /\ Answered(reply) /\ UNCHANGED <<pinned, client, nextId, server, ran>>
          /\ reply.kind \in {"plan", "error"}
    BY <1>2, PlanAnswers
  <2>2. pinned => \A i \in DOMAIN out' : out'[i].kind # "question"
    BY <2>1, NoQuestion DEF Answered
  <2>3. /\ doing' = "reading" /\ line' = NoLine
        /\ UNCHANGED <<pinned, wire, output, serverUp, input>>
    BY <2>1 DEF Answered, client, server
  <2>4. pinned => wire = {} /\ \A i \in DOMAIN output : output[i].kind # "reply"
    <3>1. ~Waiting \/ (output = <<>> /\ ~serverUp)
      BY <1>2 DEF StepRefused, StepCut, PlanEnds, Waiting
    <3> QED BY <3>1 DEF OneUnderWay
  <2> QED BY <2>2, <2>3, <2>4 DEF OneUnderWay
<1>3. CASE StepSent
  <2>1. /\ doing = "plan" /\ doing' = "call" /\ nextId' = nextId + 1 /\ wire' = wire \cup {nextId + 1}
        /\ serverUp /\ UNCHANGED <<pinned, input, line, output, serverUp, out>>
    BY <1>3 DEF StepSent, client
  <2>2. pinned => wire = {} /\ \A i \in DOMAIN output : output[i].kind # "reply"
    BY <2>1 DEF OneUnderWay, Waiting
  <2>3. Waiting' /\ Expected' = nextId + 1
    BY <2>1 DEF Waiting, Expected
  <2> QED BY <2>1, <2>2, <2>3 DEF OneUnderWay
<1>4. CASE PipeBreaks
  <2>1. /\ ~Waiting /\ UNCHANGED <<pinned, wire, output, serverUp, input, line, out>>
    BY <1>4 DEF PipeBreaks, client, server, Waiting
  <2>2. pinned => /\ line'.kind # "answer"
                  /\ \A i \in DOMAIN input' : input'[i].kind # "answer"
                  /\ \A i \in DOMAIN out' : out'[i].kind # "question"
    BY <2>1 DEF OneUnderWay
  <2> QED BY <2>1, <2>2, NothingUnderWay
<1>5. CASE StepAnswered
  <2> DEFINE sofar == Append(results, [id |-> nextId, rows |-> RowsOf(Head(output))])
  <2>1. /\ sofar \in Seq(Result)
        /\ \/ Answered(Said(sofar, TRUE))
           \/ UNCHANGED <<line, out>>
    BY <1>5, StepAnsweredFacts
  <2>2. /\ output # <<>> /\ output' = Tail(output) /\ Head(output).kind = "reply"
        /\ UNCHANGED <<pinned, wire, serverUp, input>>
    BY <1>5 DEF StepAnswered, client
  <2> HIDE DEF sofar
  <2>3. Said(sofar, TRUE) \in Out /\ Said(sofar, TRUE).kind = "plan"
    BY <2>1, RepliesType
  <2>4. pinned => line'.kind # "answer" /\ \A i \in DOMAIN out' : out'[i].kind # "question"
    <3>1. CASE Answered(Said(sofar, TRUE))
      BY <2>3, <3>1, NoQuestion DEF Answered
    <3>2. CASE UNCHANGED <<line, out>>
      BY <3>2 DEF OneUnderWay
    <3> QED BY <2>1, <3>1, <3>2
  <2> QED BY <2>2, <2>4, OutputTaken
<1>6. CASE RelaySent
  <2>1. /\ doing = "relaying" /\ serverUp
        /\ wire' = IF line.kind = "request" THEN wire \cup {line.id} ELSE wire
        /\ UNCHANGED <<pinned, input, output, serverUp, out>>
    BY <1>6 DEF RelaySent, client
  <2>2. pinned => wire = {} /\ \A i \in DOMAIN output : output[i].kind # "reply"
    BY <2>1 DEF OneUnderWay, Waiting
  <2>3. CASE line.kind = "notification"
    <3>1. doing' = "reading" /\ line' = NoLine
      BY <1>6, <2>3 DEF RelaySent
    <3> QED BY <2>1, <2>2, <2>3, <3>1 DEF OneUnderWay
  <2>4. CASE line.kind # "notification"
    <3>1. doing' = "relay" /\ line' = line
      BY <1>6, <2>4 DEF RelaySent
    <3>2. Waiting' /\ Expected' = line.id
      BY <3>1 DEF Waiting, Expected
    <3> QED BY <2>1, <2>2, <3>1, <3>2 DEF OneUnderWay
  <2> QED BY <2>3, <2>4
<1>7. CASE RelayAnswered
  <2> DEFINE reply == [kind |-> "reply", id |-> Head(output).id, steps |-> <<>>, stopped |-> FALSE]
  <2>1. /\ output # <<>> /\ output' = Tail(output) /\ Matches(Head(output))
        /\ Answered(reply) /\ UNCHANGED <<pinned, wire, serverUp, input>>
    BY <1>7 DEF RelayAnswered, client
  <2>2. Head(output) \in Output /\ Head(output) = output[1] /\ 1 \in DOMAIN output
    BY <2>1, Popped DEF ComposeTypeOK
  <2>3. reply \in Out /\ reply.kind = "reply"
    BY <2>2 DEF Out, Output
  <2> HIDE DEF reply
  <2>4. pinned => line'.kind # "answer" /\ \A i \in DOMAIN out' : out'[i].kind # "question"
    BY <2>1, <2>3, NoQuestion DEF Answered
  <2>5. pinned => Head(output).kind = "reply"
    BY <2>1, <2>2 DEF OneUnderWay, Matches, Output
  <2> QED BY <2>1, <2>4, <2>5, OutputTaken
<1>8. CASE RelayCut
  <2>1. /\ doing' = "reading" /\ line' = NoLine /\ output = <<>> /\ ~serverUp
        /\ UNCHANGED <<pinned, wire, output, serverUp, input, out>>
    BY <1>8 DEF RelayCut, client, server
  <2> QED BY <2>1 DEF OneUnderWay
<1>9. CASE Forward
  <2> DEFINE said == [kind |-> Head(output).kind, id |-> Head(output).id, steps |-> <<>>, stopped |-> FALSE]
  <2>1. /\ output # <<>> /\ output' = Tail(output) /\ out' = Append(out, said)
        /\ UNCHANGED <<pinned, wire, serverUp, input, doing, line, nextId>>
    BY <1>9 DEF Forward, client
  <2>2. Head(output) \in Output /\ Head(output) = output[1] /\ 1 \in DOMAIN output
    BY <2>1, Popped DEF ComposeTypeOK
  <2>3. said \in Out /\ said.kind = Head(output).kind
    BY <2>2 DEF Out, Output
  <2> HIDE DEF said
  <2>4. pinned => \A i \in DOMAIN out' : out'[i].kind # "question"
    BY <2>1, <2>2, <2>3, NoQuestion DEF OneUnderWay
  <2>5. pinned => line'.kind # "answer"
    BY <2>1 DEF OneUnderWay
  <2> QED BY <2>1, <2>4, <2>5, OutputTaken
<1>10. CASE ClientWrites \/ ClientAnswers
  <2>1. PICK l \in Line : /\ input' = Append(input, l)
                          /\ l.kind = "answer" => \E i \in DOMAIN out : out[i].kind = "question"
    BY <1>10, ClientType
  <2>2. \A i \in DOMAIN input' : input'[i] = l \/ (i \in DOMAIN input /\ input'[i] = input[i])
    BY <2>1, Appended DEF ComposeTypeOK
  <2>3. UNCHANGED <<pinned, doing, line, nextId, wire, output, serverUp, out>>
    BY <1>10 DEF ClientWrites, ClientAnswers, server
  <2>4. Waiting' = Waiting /\ Expected' = Expected
    BY <2>3 DEF Waiting, Expected
  <2> QED BY <2>1, <2>2, <2>3, <2>4 DEF OneUnderWay
<1>11. ASSUME NEW r \in wire, NEW rows \in {"some", "none", "error"}, ServerAnswers(r, rows)
       PROVE OneUnderWay'
  BY <1>11, ServerAnswersKeeps DEF Row
<1>12. CASE ServerSpeaks
  BY <1>12, ServerSpeaksKeeps
<1>13. CASE ServerDies
  <2>1. /\ wire' = {} /\ UNCHANGED <<pinned, input, doing, line, nextId, output, out>>
    BY <1>13 DEF ServerDies, client
  <2>2. Waiting' = Waiting /\ Expected' = Expected
    BY <2>1 DEF Waiting, Expected
  <2> QED BY <2>1, <2>2 DEF OneUnderWay
<1>14. CASE UNCHANGED composeVars
  <2>1. UNCHANGED <<pinned, input, doing, line, nextId, wire, output, serverUp, out>>
    BY <1>14 DEF composeVars, client, server
  <2>2. Waiting' = Waiting /\ Expected' = Expected
    BY <2>1 DEF Waiting, Expected
  <2> QED BY <2>1, <2>2 DEF OneUnderWay
<1> QED
  BY <1>1, <1>2, <1>3, <1>4, <1>5, <1>6, <1>7, <1>8, <1>9, <1>10, <1>11, <1>12, <1>13, <1>14, Zenon
     DEF ComposeNext, ComposeStep, ServerStep
-----------------------------------------------------------------------------
(* The order of the answers. *)

LEMMA InOrderInit == ComposeInit => InOrder
  BY NoLineKind DEF ComposeInit, InOrder

\* The client writes a line, under the next number if it has one.
LEMMA LineWritten ==
    ASSUME ComposeTypeOK, InOrder, NEW l \in Line, input' = Append(input, l), written' = written + 1,
           Numbered(l) => l.id = written + 1, UNCHANGED <<pinned, line, out>>
    PROVE  InOrder'
<1>1. /\ written \in Nat /\ \A n \in 1 .. written : n \in 1 .. written' /\ n < written + 1
      /\ written + 1 \in 1 .. written'
  BY DEF ComposeTypeOK
<1>2. /\ DOMAIN input' = 1 .. Len(input) + 1 /\ DOMAIN input = 1 .. Len(input)
      /\ Len(input) \in Nat /\ input'[Len(input) + 1] = l
      /\ \A i \in 1 .. Len(input) : input'[i] = input[i]
  BY Appended DEF ComposeTypeOK
<1>3. \A said : Counts(said)' <=> Counts(said)
  BY DEF Counts
<1>4. ASSUME NEW i \in DOMAIN input', Numbered(input'[i])
      PROVE  /\ input'[i].id \in 1 .. written'
             /\ \A j \in 1 .. i - 1 : Numbered(input'[j]) => input'[j].id < input'[i].id
             /\ Numbered(line) => line.id < input'[i].id
             /\ \A k \in DOMAIN out : Counts(out[k]) => out[k].id < input'[i].id
  <2>1. CASE i \in 1 .. Len(input)
    <3>1. Numbered(input[i]) /\ \A j \in 1 .. i - 1 : j \in 1 .. Len(input)
      BY <1>2, <1>4, <2>1
    <3> QED BY <1>1, <1>2, <2>1, <3>1 DEF InOrder
  <2>2. CASE i = Len(input) + 1
    <3>1. input'[i].id = written + 1
      BY <1>2, <1>4, <2>2
    <3>2. \A j \in 1 .. i - 1 : j \in 1 .. Len(input)
      BY <1>2, <2>2
    <3>3. \A j \in 1 .. Len(input) : Numbered(input[j]) => input[j].id < written + 1
      BY <1>1, <1>2 DEF InOrder
    <3>4. Numbered(line) => line.id < written + 1
      BY <1>1 DEF InOrder
    <3>5. \A k \in DOMAIN out : Counts(out[k]) => out[k].id < written + 1
      BY <1>1 DEF InOrder
    <3> QED BY <1>1, <1>2, <3>1, <3>2, <3>3, <3>4, <3>5
  <2> QED BY <1>2, <2>1, <2>2
<1>5. \A k \in DOMAIN out : Counts(out[k]) =>
        /\ out[k].id \in 1 .. written'
        /\ \A j \in 1 .. k - 1 : Counts(out[j]) => out[j].id < out[k].id
  BY <1>1 DEF InOrder
<1>6. Numbered(line) =>
        /\ line.id \in 1 .. written'
        /\ \A k \in DOMAIN out : Counts(out[k]) => out[k].id < line.id
  BY <1>1 DEF InOrder
<1> QED BY <1>3, <1>4, <1>5, <1>6 DEF InOrder

\* The first line of the input is taken up.
LEMMA LineTaken ==
    ASSUME ComposeTypeOK, InOrder, input # <<>>, line' = Head(input), input' = Tail(input),
           UNCHANGED <<pinned, written, out>>
    PROVE  InOrder'
<1>1. /\ Head(input) = input[1] /\ 1 \in DOMAIN input
      /\ DOMAIN input' \subseteq Nat \ {0}
      /\ \A i \in DOMAIN input' : i + 1 \in DOMAIN input /\ input'[i] = input[i + 1]
  BY Popped DEF ComposeTypeOK
<1>2. \A said : Counts(said)' <=> Counts(said)
  BY DEF Counts
<1>3. ASSUME NEW i \in DOMAIN input', Numbered(input'[i])
      PROVE  /\ input'[i].id \in 1 .. written
             /\ \A j \in 1 .. i - 1 : Numbered(input'[j]) => input'[j].id < input'[i].id
             /\ Numbered(line') => line'.id < input'[i].id
             /\ \A k \in DOMAIN out : Counts(out[k]) => out[k].id < input'[i].id
  <2>1. /\ i + 1 \in DOMAIN input /\ input'[i] = input[i + 1] /\ i \in Nat \ {0}
        /\ Numbered(input[i + 1])
    BY <1>1, <1>3
  <2>2. ASSUME NEW j \in 1 .. i - 1, Numbered(input'[j])
        PROVE  input'[j].id < input'[i].id
    <3>1. j \in DOMAIN input'
      <4>1. DOMAIN input' = 1 .. Len(input')
        <5>1. input' \in Seq(Line)
          BY Popped DEF ComposeTypeOK
        <5> QED BY <5>1
      <4> QED BY <2>1, <4>1
    <3>2. input'[j] = input[j + 1] /\ j + 1 \in 1 .. (i + 1) - 1
      BY <1>1, <2>1, <3>1
    <3> QED BY <2>1, <2>2, <3>2 DEF InOrder
  <2>3. Numbered(line') => line'.id < input'[i].id
    <3>1. 1 \in 1 .. (i + 1) - 1
      BY <2>1
    <3> QED BY <1>1, <2>1, <3>1 DEF InOrder
  <2> QED BY <2>1, <2>2, <2>3 DEF InOrder
<1>4. Numbered(line') =>
        /\ line'.id \in 1 .. written
        /\ \A k \in DOMAIN out : Counts(out[k]) => out[k].id < line'.id
  BY <1>1 DEF InOrder
<1>5. \A k \in DOMAIN out : Counts(out[k]) =>
        /\ out[k].id \in 1 .. written
        /\ \A j \in 1 .. k - 1 : Counts(out[j]) => out[j].id < out[k].id
  BY DEF InOrder
<1> QED BY <1>2, <1>3, <1>4, <1>5 DEF InOrder

\* The line at hand is answered, or dropped.
LEMMA LineAnswered ==
    ASSUME ComposeTypeOK, InOrder, NEW reply \in Out, out' = Append(out, reply), line' = NoLine,
           reply.id = line.id, Counts(reply) => Numbered(line),
           UNCHANGED <<pinned, written, input>>
    PROVE  InOrder'
<1>1. /\ DOMAIN out' = 1 .. Len(out) + 1 /\ DOMAIN out = 1 .. Len(out)
      /\ Len(out) \in Nat /\ out'[Len(out) + 1] = reply
      /\ \A i \in 1 .. Len(out) : out'[i] = out[i]
  BY Appended DEF ComposeTypeOK
<1>2. \A said : Counts(said)' <=> Counts(said)
  BY DEF Counts
<1>3. ASSUME NEW k \in DOMAIN out', Counts(out'[k])
      PROVE  /\ out'[k].id \in 1 .. written
             /\ \A j \in 1 .. k - 1 : Counts(out'[j]) => out'[j].id < out'[k].id
             /\ \A i \in DOMAIN input : Numbered(input[i]) => out'[k].id < input[i].id
  <2>1. CASE k \in 1 .. Len(out)
    <3>1. Counts(out[k]) /\ \A j \in 1 .. k - 1 : j \in 1 .. Len(out)
      BY <1>1, <1>3, <2>1
    <3> QED BY <1>1, <2>1, <3>1 DEF InOrder
  <2>2. CASE k = Len(out) + 1
    <3>1. out'[k].id = line.id /\ Numbered(line)
      BY <1>1, <1>3, <2>2
    <3>2. \A j \in 1 .. k - 1 : j \in 1 .. Len(out)
      BY <1>1, <2>2
    <3> QED BY <1>1, <3>1, <3>2 DEF InOrder
  <2> QED BY <1>1, <2>1, <2>2
<1>4. \A i \in DOMAIN input : Numbered(input[i]) =>
        /\ input[i].id \in 1 .. written
        /\ \A j \in 1 .. i - 1 : Numbered(input[j]) => input[j].id < input[i].id
  BY DEF InOrder
<1> QED BY <1>2, <1>3, <1>4, NoLineKind DEF InOrder

\* What does not count may be said at any time.
LEMMA SaidInBetween ==
    ASSUME ComposeTypeOK, InOrder, NEW said \in Out, out' = Append(out, said), ~Counts(said),
           UNCHANGED <<pinned, written, input, line>>
    PROVE  InOrder'
<1>1. /\ DOMAIN out' = 1 .. Len(out) + 1 /\ DOMAIN out = 1 .. Len(out)
      /\ Len(out) \in Nat /\ out'[Len(out) + 1] = said
      /\ \A i \in 1 .. Len(out) : out'[i] = out[i]
  BY Appended DEF ComposeTypeOK
<1>2. \A x : Counts(x)' <=> Counts(x)
  BY DEF Counts
<1>3. ASSUME NEW k \in DOMAIN out', Counts(out'[k])
      PROVE  k \in DOMAIN out /\ out'[k] = out[k] /\ \A j \in 1 .. k - 1 : j \in 1 .. Len(out)
  BY <1>1, <1>3
<1>4. ASSUME NEW k \in DOMAIN out', Counts(out'[k])
      PROVE  /\ out'[k].id \in 1 .. written
             /\ \A j \in 1 .. k - 1 : Counts(out'[j]) => out'[j].id < out'[k].id
             /\ \A i \in DOMAIN input : Numbered(input[i]) => out'[k].id < input[i].id
             /\ Numbered(line) => out'[k].id < line.id
  BY <1>1, <1>3, <1>4 DEF InOrder
<1> QED BY <1>2, <1>4 DEF InOrder

LEMMA LineDropped ==
    ASSUME InOrder, line' = NoLine, UNCHANGED <<pinned, written, input, out>>
    PROVE  InOrder'
<1>1. \A x : Counts(x)' <=> Counts(x)
  BY DEF Counts
<1> QED BY <1>1, NoLineKind DEF InOrder
LEMMA InOrderStep ==
    ComposeTypeOK /\ LineOfWork /\ OneUnderWay /\ InOrder /\ [ComposeNext]_composeVars => InOrder'
<1> SUFFICES ASSUME ComposeTypeOK, LineOfWork, OneUnderWay, InOrder, [ComposeNext]_composeVars
             PROVE  InOrder'
  OBVIOUS
<1>0. ASSUME UNCHANGED <<pinned, written, input, line, out>> PROVE InOrder'
  <2>1. \A x : Counts(x)' <=> Counts(x)
    BY <1>0 DEF Counts
  <2> QED BY <1>0, <2>1 DEF InOrder
<1>1. CASE ReadLine
  BY <1>1, LineTaken DEF ReadLine, server
<1>2. CASE StepRefused \/ StepCut \/ PlanEnds
  <2>1. PICK reply \in Out :
          /\ Answered(reply) /\ UNCHANGED <<pinned, client, nextId, server, ran>>
          /\ reply.id = line.id
    BY <1>2, PlanAnswers
  <2>2. Numbered(line)
    BY <1>2 DEF StepRefused, StepCut, PlanEnds, LineOfWork, Numbered
  <2> QED BY <2>1, <2>2, LineAnswered DEF Answered, client
<1>3. CASE StepAnswered
  <2> DEFINE sofar == Append(results, [id |-> nextId, rows |-> RowsOf(Head(output))])
  <2>1. /\ sofar \in Seq(Result)
        /\ \/ Answered(Said(sofar, TRUE))
           \/ UNCHANGED <<line, out>>
    BY <1>3, StepAnsweredFacts
  <2>2. UNCHANGED <<pinned, written, input>> /\ Numbered(line)
    BY <1>3 DEF StepAnswered, client, LineOfWork, Numbered
  <2> HIDE DEF sofar
  <2>3. Said(sofar, TRUE) \in Out /\ Said(sofar, TRUE).id = line.id
    BY <2>1, RepliesType
  <2>4. CASE Answered(Said(sofar, TRUE))
    BY <2>2, <2>3, <2>4, LineAnswered DEF Answered
  <2>5. CASE UNCHANGED <<line, out>>
    BY <1>0, <2>2, <2>5
  <2> QED BY <2>1, <2>4, <2>5
<1>4. CASE RelaySent
  <2>1. UNCHANGED <<pinned, written, input, out>> /\ (line' = NoLine \/ line' = line)
    BY <1>4 DEF RelaySent, client
  <2> QED BY <1>0, <2>1, LineDropped
<1>5. CASE RelayAnswered
  <2> DEFINE reply == [kind |-> "reply", id |-> Head(output).id, steps |-> <<>>, stopped |-> FALSE]
  <2>1. /\ output # <<>> /\ Matches(Head(output)) /\ doing = "relay"
        /\ Answered(reply) /\ UNCHANGED <<pinned, written, input>>
    BY <1>5 DEF RelayAnswered, client
  <2>2. Head(output) \in Output
    BY <2>1, Popped DEF ComposeTypeOK
  <2>3. reply \in Out /\ reply.kind = "reply" /\ reply.id = line.id
    BY <2>1, <2>2 DEF Out, Output, Matches
  <2> HIDE DEF reply
  <2>4. line \in Line
    BY <2>1, AtWork
  <2>5. Counts(reply) => Numbered(line)
    BY <2>1, <2>3, <2>4 DEF Counts, Numbered, LineOfWork, OneUnderWay, Line
  <2> QED BY <2>1, <2>3, <2>5, LineAnswered DEF Answered
<1>6. CASE RelayCut
  BY <1>6, LineDropped DEF RelayCut, client
<1>7. CASE Forward
  <2> DEFINE said == [kind |-> Head(output).kind, id |-> Head(output).id, steps |-> <<>>, stopped |-> FALSE]
  <2>1. /\ output # <<>> /\ out' = Append(out, said)
        /\ \/ doing = "call" /\ ~(Head(output).kind = "reply" /\ Head(output).id = nextId)
           \/ doing = "relay" /\ ~Matches(Head(output))
        /\ UNCHANGED <<pinned, written, input, line>>
    BY <1>7 DEF Forward, client
  <2>2. Head(output) \in Output /\ Head(output) = output[1] /\ 1 \in DOMAIN output
    BY <2>1, Popped DEF ComposeTypeOK
  <2>3. said \in Out /\ said.kind = Head(output).kind
    BY <2>2 DEF Out, Output
  <2> HIDE DEF said
  <2>4. pinned /\ Head(output).kind = "reply" => Head(output).id = Expected
    BY <2>2 DEF OneUnderWay
  <2>5. ~Counts(said)
    BY <2>1, <2>2, <2>3, <2>4 DEF Counts, Expected, Matches, Output
  <2> QED BY <2>1, <2>3, <2>5, SaidInBetween
<1>8. CASE ClientWrites \/ ClientAnswers
  <2>1. PICK l \in Line : input' = Append(input, l) /\ (Numbered(l) => l.id = written + 1)
    BY <1>8, ClientType
  <2>2. written' = written + 1 /\ UNCHANGED <<pinned, line, out>>
    BY <1>8 DEF ClientWrites, ClientAnswers
  <2> QED BY <2>1, <2>2, LineWritten
<1>9. CASE UNCHANGED <<pinned, written, input, line, out>>
  BY <1>0, <1>9
<1>10. \/ ReadLine \/ StepRefused \/ StepAnswered \/ StepCut \/ PlanEnds \/ RelaySent
       \/ RelayAnswered \/ RelayCut \/ Forward \/ ClientWrites \/ ClientAnswers
       \/ UNCHANGED <<pinned, written, input, line, out>>
  BY Zenon DEF ComposeNext, ComposeStep, ServerStep, StepSent, PipeBreaks, ServerAnswers,
       ServerSpeaks, ServerDies, composeVars, client
<1> QED BY <1>1, <1>2, <1>3, <1>4, <1>5, <1>6, <1>7, <1>8, <1>9, <1>10

-----------------------------------------------------------------------------
(* The steps of a plan. *)

LEMMA StepsCountedInit == ComposeInit => StepsCounted /\ EvidenceKept
  BY DEF ComposeInit, StepsCounted, EvidenceKept

LEMMA StepsCountedStep ==
    ASSUME ComposeTypeOK, LineOfWork, InOrder, StepsCounted, [ComposeNext]_composeVars
    PROVE  StepsCounted'
<1>0. Len(<<>>) = 0
  OBVIOUS
<1>1. CASE ReadLine
  <2>1. /\ Head(input) = input[1] /\ 1 \in DOMAIN input
        /\ \A i \in DOMAIN Tail(input) : i + 1 \in DOMAIN input /\ Tail(input)[i] = input[i + 1]
    BY <1>1, Popped DEF ComposeTypeOK, ReadLine
  <2>2. /\ line' = Head(input) /\ input' = Tail(input) /\ results' = <<>>
        /\ doing' = IF Head(input).kind = "retrieve" THEN "plan" ELSE "relaying"
        /\ UNCHANGED <<written, ran>>
    BY <1>1 DEF ReadLine, LineOfWork
  <2>3. doing' \in {"plan", "call"} => ran[line'.id] = 0
    BY <2>1, <2>2 DEF StepsCounted, Numbered
  <2> QED BY <1>0, <2>1, <2>2, <2>3 DEF StepsCounted
<1>2. CASE UNCHANGED <<written, input, ran>> /\ doing' \notin {"plan", "call"}
  BY <1>2 DEF StepsCounted
<1>3. CASE UNCHANGED <<written, input, ran, line, results>> /\ (doing' = "call" => doing = "plan")
                                                            /\ doing' # "plan"
  BY <1>3 DEF StepsCounted
<1>4. CASE StepAnswered
  <2> DEFINE sofar == Append(results, [id |-> nextId, rows |-> RowsOf(Head(output))])
  <2>1. /\ Len(sofar) = Len(results) + 1
        /\ \/ Answered(Said(sofar, TRUE))
           \/ results' = sofar /\ doing' = "plan" /\ UNCHANGED <<line, out>>
    BY <1>4, StepAnsweredFacts
  <2>2. /\ doing = "call" /\ UNCHANGED <<written, input>>
        /\ ran' = [ran EXCEPT ![line.id] = ran[line.id] + 1]
    BY <1>4 DEF StepAnswered, client
  <2> HIDE DEF sofar
  <2>3. /\ Numbered(line) /\ line.id \in 1 .. written /\ ran[line.id] = Len(results)
        /\ \A i \in DOMAIN input : Numbered(input[i]) => line.id < input[i].id /\ input[i].id \in 1 .. written
    BY <2>2 DEF LineOfWork, Numbered, InOrder, StepsCounted
  <2>4. written \in 0 .. MaxLines /\ MaxLines \in Nat
    BY PlansAssumption DEF ComposeTypeOK
  <2>a. ran \in [1 .. MaxLines -> Nat]
    BY DEF ComposeTypeOK
  <2>5. line.id \in 1 .. MaxLines
    BY <2>3, <2>4
  <2>6. \A n \in 1 .. MaxLines : ran'[n] = IF n = line.id THEN Len(results) + 1 ELSE ran[n]
    BY <2>2, <2>3, <2>5, <2>a
  <2>7. \A n \in 1 .. MaxLines : n > written' => ran'[n] = 0
    BY <2>2, <2>3, <2>4, <2>6 DEF StepsCounted
  <2>8. \A i \in DOMAIN input' : Numbered(input'[i]) => ran'[input'[i].id] = 0
    <3> SUFFICES ASSUME NEW i \in DOMAIN input, Numbered(input[i])
                 PROVE  ran'[input[i].id] = 0
      BY <2>2
    <3>1. input[i].id \in 1 .. MaxLines /\ input[i].id # line.id
      BY <2>3, <2>4
    <3> QED BY <2>6, <3>1 DEF StepsCounted
  <2>9. doing' \in {"plan", "call"} => ran'[line'.id] = Len(results')
    BY <2>1, <2>5, <2>6 DEF Answered
  <2> QED BY <2>7, <2>8, <2>9 DEF StepsCounted
<1>5. CASE ClientWrites \/ ClientAnswers
  <2>1. PICK l \in Line : input' = Append(input, l) /\ (Numbered(l) => l.id = written + 1)
    BY <1>5, ClientType
  <2>2. \A i \in DOMAIN input' : input'[i] = l \/ (i \in DOMAIN input /\ input'[i] = input[i])
    BY <2>1, Appended DEF ComposeTypeOK
  <2>3. written < MaxLines /\ written' = written + 1 /\ UNCHANGED <<doing, line, results, ran>>
    BY <1>5 DEF ClientWrites, ClientAnswers
  <2>4. /\ written \in Nat /\ written + 1 \in 1 .. MaxLines
        /\ \A n \in 1 .. MaxLines : n > written + 1 => n > written
    BY <2>3, PlansAssumption DEF ComposeTypeOK
  <2>5. ran[written + 1] = 0
    BY <2>4 DEF StepsCounted
  <2> QED BY <2>1, <2>2, <2>3, <2>4, <2>5 DEF StepsCounted
<1>6. CASE UNCHANGED <<written, input, doing, line, results, ran>>
  BY <1>6 DEF StepsCounted
<1>7. \/ ReadLine \/ StepAnswered \/ ClientWrites \/ ClientAnswers
      \/ UNCHANGED <<written, input, ran>> /\ doing' \notin {"plan", "call"}
      \/ /\ UNCHANGED <<written, input, ran, line, results>> /\ (doing' = "call" => doing = "plan")
         /\ doing' # "plan"
      \/ UNCHANGED <<written, input, doing, line, results, ran>>
  <2>1. CASE StepRefused \/ StepCut \/ PlanEnds
    BY <2>1, PlanAnswers DEF Answered, client
  <2>2. CASE StepSent
    BY <2>2 DEF StepSent, client
  <2>3. CASE PipeBreaks \/ RelaySent \/ RelayAnswered \/ RelayCut
    BY <2>3 DEF PipeBreaks, RelaySent, RelayAnswered, RelayCut, Answered, client
  <2>4. CASE UNCHANGED composeVars \/ Forward \/ ServerSpeaks \/ ServerDies
    BY <2>4 DEF composeVars, Forward, ServerSpeaks, ServerDies, client
  <2>5. CASE ServerStep
    BY <2>5 DEF ServerStep, ServerAnswers, client
  <2> QED BY <2>1, <2>2, <2>3, <2>4, <2>5 DEF ComposeNext, ComposeStep
<1> QED BY <1>1, <1>2, <1>3, <1>4, <1>5, <1>6, <1>7
\* What the steps counted for a line was is not changed by counting one more for
\* the line at hand, in whatever has been answered already.
LEMMA OlderStand ==
    ASSUME ComposeTypeOK, LineOfWork, InOrder, StepAnswered, NEW k \in DOMAIN out,
           out[k].kind \in {"plan", "error"}
    PROVE  ran'[out[k].id] = ran[out[k].id]
<1>1. doing = "call" /\ ran' = [ran EXCEPT ![line.id] = ran[line.id] + 1]
  BY DEF StepAnswered
<1>2. Numbered(line)
  BY <1>1 DEF LineOfWork, Numbered
<1>3. Counts(out[k])
  BY DEF Counts
<1>4. out[k].id < line.id /\ out[k].id \in 1 .. written /\ line.id \in 1 .. written
  BY <1>2, <1>3 DEF InOrder
<1>5. written \in 0 .. MaxLines /\ MaxLines \in Nat
  BY PlansAssumption DEF ComposeTypeOK
<1>6. ran \in [1 .. MaxLines -> Nat]
  BY DEF ComposeTypeOK
<1>7. out[k].id \in 1 .. MaxLines /\ out[k].id # line.id
  BY <1>4, <1>5
<1> QED BY <1>1, <1>6, <1>7

\* One thing more is said to the client, with the evidence it owes.
LEMMA EvidenceSaid ==
    ASSUME ComposeTypeOK, EvidenceKept, NEW said \in Out, out' = Append(out, said),
           serverUp' => serverUp,
           \A k \in DOMAIN out : out[k].kind \in {"plan", "error"} =>
               ran'[out[k].id] = ran[out[k].id],
           said.kind = "plan" => Len(said.steps) = ran'[said.id],
           said.kind = "error" /\ serverUp' =>
               \E p \in Plans : \E k \in DOMAIN p : p[k].malformed /\ ran'[said.id] = k - 1
    PROVE  EvidenceKept'
<1>1. \A i \in DOMAIN out' : out'[i] = said \/ (i \in DOMAIN out /\ out'[i] = out[i])
  BY Appended DEF ComposeTypeOK
<1> SUFFICES ASSUME NEW i \in DOMAIN out'
             PROVE  /\ out'[i].kind = "plan" => Len(out'[i].steps) = ran'[out'[i].id]
                    /\ out'[i].kind = "error" /\ serverUp' =>
                          \E p \in Plans : \E k \in DOMAIN p :
                              p[k].malformed /\ ran'[out'[i].id] = k - 1
  BY DEF EvidenceKept
<1>2. CASE out'[i] = said
  BY <1>2
<1>3. CASE i \in DOMAIN out /\ out'[i] = out[i]
  <2>1. out[i].kind \in {"plan", "error"} => ran'[out[i].id] = ran[out[i].id]
    BY <1>3
  <2>2. /\ out[i].kind = "plan" => Len(out[i].steps) = ran[out[i].id]
        /\ out[i].kind = "error" /\ serverUp =>
              \E p \in Plans : \E k \in DOMAIN p : p[k].malformed /\ ran[out[i].id] = k - 1
    BY <1>3 DEF EvidenceKept
  <2> QED BY <1>3, <2>1, <2>2
<1> QED BY <1>1, <1>2, <1>3

LEMMA EvidenceKeptStep ==
    ASSUME ComposeTypeOK, LineOfWork, InOrder, StepsCounted, EvidenceKept, [ComposeNext]_composeVars
    PROVE  EvidenceKept'
<1>1. CASE StepRefused \/ StepCut \/ PlanEnds
  <2>1. PICK reply \in Out :
          /\ Answered(reply) /\ UNCHANGED <<pinned, client, nextId, server, ran>>
          /\ reply.id = line.id
          /\ \/ reply.kind = "plan" /\ reply.steps = results
             \/ /\ reply.kind = "error"
                /\ \/ ~serverUp
                   \/ doing = "plan" /\ Position \in DOMAIN line.steps
                      /\ line.steps[Position].malformed
    BY <1>1, PlanAnswers
  <2>2. out' = Append(out, reply) /\ UNCHANGED <<ran, serverUp>>
    BY <2>1 DEF Answered, server
  <2>3. doing \in {"plan", "call"}
    BY <1>1 DEF StepRefused, StepCut, PlanEnds
  <2>4. ran[reply.id] = Len(results) /\ line.steps \in Plans
    BY <2>1, <2>3 DEF StepsCounted, LineOfWork
  <2>5. Len(results) \in Nat
    BY Appended DEF ComposeTypeOK
  <2>6. reply.kind = "plan" => Len(reply.steps) = ran'[reply.id]
    BY <2>1, <2>2, <2>4
  <2>7. ASSUME reply.kind = "error", serverUp'
        PROVE  \E p \in Plans : \E k \in DOMAIN p : p[k].malformed /\ ran'[reply.id] = k - 1
    <3>1. Position \in DOMAIN line.steps /\ line.steps[Position].malformed
      BY <2>1, <2>2, <2>7
    <3>2. ran'[reply.id] = Position - 1
      BY <2>2, <2>4, <2>5 DEF Position
    <3> QED BY <2>4, <3>1, <3>2
  <2> QED BY <2>2, <2>6, <2>7, EvidenceSaid
<1>2. CASE StepAnswered
  <2> DEFINE sofar == Append(results, [id |-> nextId, rows |-> RowsOf(Head(output))])
  <2>1. /\ sofar \in Seq(Result) /\ Len(sofar) = Len(results) + 1
        /\ \/ Answered(Said(sofar, TRUE))
           \/ results' = sofar /\ doing' = "plan" /\ UNCHANGED <<line, out>>
    BY <1>2, StepAnsweredFacts
  <2>2. /\ doing = "call" /\ serverUp' = serverUp
        /\ ran' = [ran EXCEPT ![line.id] = ran[line.id] + 1]
    BY <1>2 DEF StepAnswered
  <2> HIDE DEF sofar
  <2>3. \A k \in DOMAIN out : out[k].kind \in {"plan", "error"} => ran'[out[k].id] = ran[out[k].id]
    BY <1>2, OlderStand
  <2>4. Said(sofar, TRUE) \in Out /\ Said(sofar, TRUE).kind = "plan"
        /\ Said(sofar, TRUE).id = line.id /\ Said(sofar, TRUE).steps = sofar
    BY <2>1, RepliesType
  <2>5. ran'[line.id] = Len(sofar)
    <3>1. Numbered(line) /\ ran[line.id] = Len(results)
      BY <2>2 DEF LineOfWork, Numbered, StepsCounted
    <3>2. line.id \in 1 .. written /\ written \in 0 .. MaxLines /\ MaxLines \in Nat
      BY <3>1, PlansAssumption DEF InOrder, ComposeTypeOK
    <3>3. ran \in [1 .. MaxLines -> Nat]
      BY DEF ComposeTypeOK
    <3>4. line.id \in 1 .. MaxLines
      BY <3>2
    <3> QED BY <2>1, <2>2, <3>1, <3>3, <3>4
  <2>6. CASE Answered(Said(sofar, TRUE))
    <3>1. out' = Append(out, Said(sofar, TRUE))
      BY <2>6 DEF Answered
    <3> QED BY <2>2, <2>3, <2>4, <2>5, <3>1, EvidenceSaid
  <2>7. CASE UNCHANGED <<line, out>>
    BY <2>2, <2>3, <2>7 DEF EvidenceKept
  <2> QED BY <2>1, <2>6, <2>7
<1>3. CASE RelayAnswered
  <2> DEFINE reply == [kind |-> "reply", id |-> Head(output).id, steps |-> <<>>, stopped |-> FALSE]
  <2>1. /\ output # <<>> /\ out' = Append(out, reply) /\ UNCHANGED <<serverUp, ran>>
    BY <1>3 DEF RelayAnswered, Answered
  <2>2. Head(output) \in Output
    BY <2>1, Popped DEF ComposeTypeOK
  <2>3. reply \in Out /\ reply.kind = "reply"
    BY <2>2 DEF Out, Output
  <2> HIDE DEF reply
  <2> QED BY <2>1, <2>3, EvidenceSaid
<1>4. CASE Forward
  <2> DEFINE said == [kind |-> Head(output).kind, id |-> Head(output).id, steps |-> <<>>, stopped |-> FALSE]
  <2>1. /\ output # <<>> /\ out' = Append(out, said) /\ UNCHANGED <<serverUp, ran>>
    BY <1>4 DEF Forward
  <2>2. Head(output) \in Output
    BY <2>1, Popped DEF ComposeTypeOK
  <2>3. said \in Out /\ said.kind \notin {"plan", "error"}
    BY <2>2 DEF Out, Output
  <2> HIDE DEF said
  <2> QED BY <2>1, <2>3, EvidenceSaid
<1>5. CASE UNCHANGED <<out, ran>> /\ (serverUp' => serverUp)
  BY <1>5 DEF EvidenceKept
<1>6. \/ StepRefused \/ StepCut \/ PlanEnds \/ StepAnswered \/ RelayAnswered \/ Forward
      \/ UNCHANGED <<out, ran>> /\ (serverUp' => serverUp)
  <2>1. CASE ReadLine \/ StepSent \/ PipeBreaks \/ RelaySent \/ RelayCut
    BY <2>1 DEF ReadLine, StepSent, PipeBreaks, RelaySent, RelayCut, server
  <2>2. CASE UNCHANGED composeVars \/ ClientWrites \/ ClientAnswers \/ ServerSpeaks \/ ServerDies
    BY <2>2 DEF composeVars, ClientWrites, ClientAnswers, ServerSpeaks, ServerDies, server
  <2>3. CASE ServerStep
    BY <2>3 DEF ServerStep, ServerAnswers
  <2> QED BY <2>1, <2>2, <2>3 DEF ComposeNext, ComposeStep
<1> QED BY <1>1, <1>2, <1>3, <1>4, <1>5, <1>6

-----------------------------------------------------------------------------
(* The theorems. *)

\* Every state the proxy, the client and the server reach is one where the proxy
\* has at most one request under way, and has answered nothing out of turn.
THEOREM ComposeCorrectness == ComposeSpec => []ComposeInv
<1>1. ComposeInit => ComposeInv
  BY ComposeTypeInit, LineOfWorkInit, OneUnderWayInit, InOrderInit, StepsCountedInit DEF ComposeInv
<1>2. ComposeInv /\ [ComposeNext]_composeVars => ComposeInv'
  <2> SUFFICES ASSUME ComposeInv, [ComposeNext]_composeVars PROVE ComposeInv'
    OBVIOUS
  <2>1. ComposeTypeOK' /\ LineOfWork'
    BY ComposeTypeStep, LineOfWorkStep DEF ComposeInv
  <2>2. OneUnderWay'
    BY OneUnderWayStep DEF ComposeInv
  <2>3. InOrder'
    BY InOrderStep DEF ComposeInv
  <2>4. StepsCounted' /\ EvidenceKept'
    BY StepsCountedStep, EvidenceKeptStep DEF ComposeInv
  <2> QED BY <2>1, <2>2, <2>3, <2>4 DEF ComposeInv
<1> QED BY <1>1, <1>2, PTL DEF ComposeSpec

\* The lines, the answers and the counts are always of the shapes the code gives
\* them, for any plans.
THEOREM ComposeTypeCorrect == ComposeSpec => []ComposeTypeOK
<1>1. ComposeInv => ComposeTypeOK
  BY DEF ComposeInv
<1> QED BY ComposeCorrectness, <1>1, PTL

\* With a server that never asks the client, an agent is answered for its own
\* requests only, each at most once and in the order it made them, whatever the
\* server says in between and whenever it dies.
THEOREM RepliesInOrderAlways == ComposeSpec => []RepliesInOrder
<1>1. ComposeInv => RepliesInOrder
  BY DEF ComposeInv, InOrder, Counts, RepliesInOrder, IsReply
<1> QED BY ComposeCorrectness, <1>1, PTL

\* A plan that stops early hands back every step that ran, and only a malformed
\* step or the end of the server loses any of it.
THEOREM EvidenceKeptAlways == ComposeSpec => []EvidenceKept
<1>1. ComposeInv => EvidenceKept
  BY DEF ComposeInv
<1> QED BY ComposeCorrectness, <1>1, PTL
-----------------------------------------------------------------------------
(* DegradeServer: what dropping a column does to a row.                      *)

CellOf == Nat \X (Fields \cup {"rest of path"})

\* Cutting one place out of a sequence leaves what stood before and behind it.
LEMMA CutOut ==
    ASSUME NEW T, NEW a \in Seq(T), NEW c \in T, NEW b \in Seq(T)
    PROVE  Without((a \o <<c>>) \o b, Len(a) + 1) = a \o b
<1> DEFINE s == (a \o <<c>>) \o b
<1>1. /\ s \in Seq(T) /\ Len(s) = Len(a) + 1 + Len(b)
      /\ \A i \in 1 .. Len(a) : s[i] = a[i]
      /\ \A i \in 1 .. Len(b) : s[Len(a) + 1 + i] = b[i]
  OBVIOUS
<1> HIDE DEF s
<1>2. SubSeq(s, 1, (Len(a) + 1) - 1) = a
  BY <1>1
<1>3. SubSeq(s, (Len(a) + 1) + 1, Len(s)) = b
  BY <1>1
<1>4. Without(s, Len(a) + 1) = a \o b
  BY <1>2, <1>3 DEF Without
<1> QED BY <1>4 DEF s

\* And cutting off the first place leaves the rest.
LEMMA CutFirst ==
    ASSUME NEW T, NEW c \in T, NEW b \in Seq(T)
    PROVE  Without(<<c>> \o b, 1) = b
<1>1. <<>> \in Seq(T) /\ Len(<<>>) + 1 = 1 /\ <<>> \o b = b /\ <<>> \o <<c>> = <<c>>
  OBVIOUS
<1>2. Without((<<>> \o <<c>>) \o b, Len(<<>>) + 1) = <<>> \o b
  BY <1>1, CutOut
<1> QED BY <1>1, <1>2, Zenon

\* Where a field stands in a header.
At(C, f) == CHOOSE k \in DOMAIN C : C[k] = f

\* A field that stands once in a header is found there.
LEMMA Place ==
    ASSUME NEW T, NEW a \in Seq(T), NEW f \in T, NEW b \in Seq(T),
           \A i \in DOMAIN a : a[i] # f, \A i \in DOMAIN b : b[i] # f
    PROVE  At((a \o <<f>>) \o b, f) = Len(a) + 1
<1> DEFINE s == (a \o <<f>>) \o b
<1>1. /\ DOMAIN s = 1 .. (Len(a) + 1 + Len(b)) /\ s[Len(a) + 1] = f
      /\ \A i \in 1 .. Len(a) : s[i] = a[i]
      /\ \A i \in (Len(a) + 2) .. (Len(a) + 1 + Len(b)) : s[i] = b[i - Len(a) - 1]
  OBVIOUS
<1> HIDE DEF s
<1>2. \A k \in DOMAIN s : s[k] = f => k = Len(a) + 1
  <2> SUFFICES ASSUME NEW k \in DOMAIN s, s[k] = f PROVE k = Len(a) + 1
    OBVIOUS
  <2>1. k \notin 1 .. Len(a)
    BY <1>1
  <2>2. k \notin (Len(a) + 2) .. (Len(a) + 1 + Len(b))
    BY <1>1
  <2> QED BY <1>1, <2>1, <2>2
<1>3. At(s, f) = Len(a) + 1
  BY <1>1, <1>2 DEF At
<1> QED BY <1>3 DEF s

\* The parts of a header and of a row, with and without a field.
LEMMA Parts ==
    ASSUME NEW G \in SUBSET Fields, NEW f \in Fields
    PROVE  /\ Column(f, G) \in Seq(Fields)
           /\ \A i \in Nat : Cell(i, f, G) \in Seq(CellOf) /\ Len(Cell(i, f, G)) = Len(Column(f, G))
           /\ f \in G => Column(f, G) = <<f>> /\ \A i \in Nat : Cell(i, f, G) = <<<<i, f>>>>
           /\ f \notin G => Column(f, G) = <<>> /\ \A i \in Nat : Cell(i, f, G) = <<>>
           /\ \A k \in DOMAIN Column(f, G) : Column(f, G)[k] = f
<1>1. CASE f \in G
  <2>1. Column(f, G) = <<f>> /\ \A i \in Nat : Cell(i, f, G) = <<<<i, f>>>>
    BY <1>1 DEF Column, Cell
  <2>2. \A i \in Nat : <<i, f>> \in CellOf
    BY DEF CellOf
  <2>3. \A i \in Nat : <<<<i, f>>>> \in Seq(CellOf) /\ Len(<<<<i, f>>>>) = 1
    BY <2>2
  <2>4. <<f>> \in Seq(Fields) /\ Len(<<f>>) = 1 /\ \A k \in DOMAIN <<f>> : <<f>>[k] = f
    OBVIOUS
  <2> QED BY <1>1, <2>1, <2>3, <2>4
<1>2. CASE f \notin G
  BY <1>2 DEF Column, Cell
<1> QED BY <1>1, <1>2

\* One part of a row has a cell where its header has a column.
LEMMA CellPart ==
    ASSUME NEW G \in SUBSET Fields, NEW f \in Fields, NEW i \in Nat
    PROVE  Cell(i, f, G) \in Seq(CellOf) /\ Len(Cell(i, f, G)) = Len(Column(f, G))
<1>1. \A j \in Nat : Cell(j, f, G) \in Seq(CellOf) /\ Len(Cell(j, f, G)) = Len(Column(f, G))
  BY Parts, Zenon
<1> QED BY <1>1, Zenon

\* A field taken out leaves the parts of the others as they were.
LEMMA OtherParts ==
    ASSUME NEW G \in SUBSET Fields, NEW f \in Fields, NEW g \in Fields, f # g
    PROVE  /\ Column(f, G \ {g}) = Column(f, G)
           /\ \A i \in Nat : Cell(i, f, G \ {g}) = Cell(i, f, G)
BY DEF Column, Cell

\* The cells of a path, with and without a tab in it.
LEMMA CellSeqs ==
    ASSUME NEW i \in Nat
    PROVE  /\ <<<<i, "path">>>> \in Seq(CellOf) /\ Len(<<<<i, "path">>>>) = 1
           /\ <<<<i, "path">>, <<i, "rest of path">>>> \in Seq(CellOf)
           /\ Len(<<<<i, "path">>, <<i, "rest of path">>>>) = 2
<1>1. <<i, "path">> \in CellOf /\ <<i, "rest of path">> \in CellOf
  BY DEF CellOf, Fields
<1>2. ASSUME NEW x \in CellOf, NEW y \in CellOf
      PROVE  /\ <<x>> \in Seq(CellOf) /\ Len(<<x>>) = 1
             /\ <<x, y>> \in Seq(CellOf) /\ Len(<<x, y>>) = 2
  OBVIOUS
<1> QED BY <1>1, <1>2, Zenon

\* A path makes one cell, and with a tab in it two.
LEMMA PathPart ==
    ASSUME NEW rows, NEW i \in Nat
    PROVE  /\ PathCells(rows, i) \in Seq(CellOf)
           /\ rows[i].tab => Len(PathCells(rows, i)) = 2
           /\ ~rows[i].tab => Len(PathCells(rows, i)) = 1
<1>1. CASE rows[i].tab
  <2>1. PathCells(rows, i) = <<<<i, "path">>, <<i, "rest of path">>>>
    BY <1>1, Zenon DEF PathCells
  <2> QED BY <1>1, <2>1, CellSeqs, Zenon
<1>2. CASE ~rows[i].tab
  <2>1. PathCells(rows, i) = <<<<i, "path">>>>
    BY <1>2, Zenon DEF PathCells
  <2> QED BY <1>2, <2>1, CellSeqs, Zenon
<1> QED BY <1>1, <1>2

\* Parts one behind the other.
LEMMA FourParts ==
    ASSUME NEW T, NEW c \in Seq(T), NEW p \in Seq(T), NEW s \in Seq(T), NEW e \in Seq(T)
    PROVE  /\ c \o p \in Seq(T) /\ Len(c \o p) = Len(c) + Len(p)
           /\ ((c \o p) \o s) \o e \in Seq(T)
           /\ Len(((c \o p) \o s) \o e) = Len(c) + Len(p) + Len(s) + Len(e)
<1>1. c \o p \in Seq(T) /\ Len(c \o p) = Len(c) + Len(p)
  OBVIOUS
<1>2. (c \o p) \o s \in Seq(T) /\ Len((c \o p) \o s) = Len(c) + Len(p) + Len(s)
  BY <1>1
<1> QED BY <1>1, <1>2

\* What the renderer makes of a page for a set of fields, as rewrite_text has it.
Block(rows, order, G, ok) ==
    [columns |-> Columns(G), rows |-> [k \in DOMAIN order |-> Rendered(rows, order[k], G)], ok |-> ok]

\* The row under a set of fields: the parts before the symbol, and all of them.
LEMMA RowParts ==
    ASSUME NEW rows, NEW G \in SUBSET Fields, NEW i \in Nat
    PROVE  LET b == Cell(i, "caller", G) \o PathCells(rows, i) IN
           /\ b \in Seq(CellOf) /\ Rendered(rows, i, G) \in Seq(CellOf)
           /\ Len(b) = Len(Column("caller", G)) + Len(PathCells(rows, i))
           /\ Len(Rendered(rows, i, G))
                = Len(b) + Len(Column("symbol", G)) + Len(Column("excerpt_truncated", G))
<1> DEFINE c == Cell(i, "caller", G)
           p == PathCells(rows, i)
           s == Cell(i, "symbol", G)
           e == Cell(i, "excerpt_truncated", G)
<1>1. /\ "caller" \in Fields /\ "symbol" \in Fields /\ "excerpt_truncated" \in Fields
  BY DEF Fields
<1>2. /\ c \in Seq(CellOf) /\ Len(c) = Len(Column("caller", G))
      /\ s \in Seq(CellOf) /\ Len(s) = Len(Column("symbol", G))
      /\ e \in Seq(CellOf) /\ Len(e) = Len(Column("excerpt_truncated", G))
  <2>1. c \in Seq(CellOf) /\ Len(c) = Len(Column("caller", G))
    BY <1>1, CellPart, Zenon
  <2>2. s \in Seq(CellOf) /\ Len(s) = Len(Column("symbol", G))
    BY <1>1, CellPart, Zenon
  <2>3. e \in Seq(CellOf) /\ Len(e) = Len(Column("excerpt_truncated", G))
    BY <1>1, CellPart, Zenon
  <2> HIDE DEF c, s, e
  <2> QED BY <2>1, <2>2, <2>3
<1>3. p \in Seq(CellOf)
  BY PathPart, Zenon
<1>4. Rendered(rows, i, G) = ((c \o p) \o s) \o e
  BY Zenon DEF Rendered
<1> HIDE DEF c, p, s, e
<1>5. /\ c \o p \in Seq(CellOf) /\ Len(c \o p) = Len(c) + Len(p)
      /\ ((c \o p) \o s) \o e \in Seq(CellOf)
      /\ Len(((c \o p) \o s) \o e) = Len(c) + Len(p) + Len(s) + Len(e)
  <2>1. c \in Seq(CellOf) /\ s \in Seq(CellOf) /\ e \in Seq(CellOf)
    BY <1>2
  <2> QED BY <2>1, <1>3, FourParts
<1>6. Len(((c \o p) \o s) \o e) = Len(c \o p) + Len(s) + Len(e)
  BY <1>5
<1> QED BY <1>2, <1>4, <1>5, <1>6, Zenon DEF c, p, s, e

\* The header: its columns before the symbol, and all of them.
LEMMA HeaderParts ==
    ASSUME NEW G \in SUBSET Fields
    PROVE  /\ Column("caller", G) \o <<"path">> \in Seq(Fields)
           /\ Len(Column("caller", G) \o <<"path">>) = Len(Column("caller", G)) + 1
           /\ Columns(G) \in Seq(Fields)
           /\ Len(Columns(G)) = Len(Column("caller", G)) + 1 + Len(Column("symbol", G))
                                  + Len(Column("excerpt_truncated", G))
<1>1. /\ "caller" \in Fields /\ "symbol" \in Fields /\ "excerpt_truncated" \in Fields
      /\ <<"path">> \in Seq(Fields) /\ Len(<<"path">>) = 1
  BY DEF Fields
<1>2. /\ Column("caller", G) \in Seq(Fields) /\ Column("symbol", G) \in Seq(Fields)
      /\ Column("excerpt_truncated", G) \in Seq(Fields)
  BY <1>1, Parts, Zenon
<1>3. /\ Column("caller", G) \o <<"path">> \in Seq(Fields)
      /\ Len(Column("caller", G) \o <<"path">>) = Len(Column("caller", G)) + Len(<<"path">>)
  BY <1>1, <1>2, FourParts
<1>4. /\ Columns(G) \in Seq(Fields)
      /\ Len(Columns(G)) = Len(Column("caller", G)) + Len(<<"path">>) + Len(Column("symbol", G))
                             + Len(Column("excerpt_truncated", G))
  BY <1>1, <1>2, FourParts DEF Columns
<1> QED BY <1>1, <1>3, <1>4

\* What dropping a column makes of a header, of its rows and of the outcome.
Whole(C, r, ok, f) ==
    ok /\ (At(C, f) \in {1, Len(C)} \/ \A i \in DOMAIN r : Len(r[i]) = Len(C))

CutAt(C, row, f) == Without(row, IF At(C, f) = Len(C) THEN Len(row) ELSE At(C, f))

\* The field of a record that says whether a drop raised.
LEMMA OkOf ==
    ASSUME NEW x, NEW y, NEW z PROVE [columns |-> x, ok |-> y, rows |-> z].ok = y
OBVIOUS

LEMMA DropIs ==
    ASSUME NEW C, NEW r, NEW ok, NEW f
    PROVE  /\ DropColumn([columns |-> C, rows |-> r, ok |-> ok], f)
                = [columns |-> Without(C, At(C, f)), ok |-> Whole(C, r, ok, f),
                   rows |-> [i \in DOMAIN r |-> CutAt(C, r[i], f)]]
           /\ DropColumn([columns |-> C, rows |-> r, ok |-> ok], f).ok = Whole(C, r, ok, f)
<1> DEFINE block == [columns |-> C, rows |-> r, ok |-> ok]
           rest == [i \in DOMAIN r |-> CutAt(C, r[i], f)]
<1>1. block.columns = C /\ block.rows = r /\ block.ok = ok
  BY Zenon
<1> HIDE DEF block
<1>2. DropColumn(block, f)
        = [columns |-> Without(block.columns, At(block.columns, f)),
           ok |-> Whole(block.columns, block.rows, block.ok, f),
           rows |-> [i \in DOMAIN block.rows |-> CutAt(block.columns, block.rows[i], f)]]
  BY Zenon DEF DropColumn, At, Whole, CutAt
<1>3. DropColumn(block, f) = [columns |-> Without(C, At(C, f)), ok |-> Whole(C, r, ok, f), rows |-> rest]
  BY <1>1, <1>2, Zenon
<1> HIDE DEF rest
<1>4. DropColumn(block, f).ok = Whole(C, r, ok, f)
  BY <1>3, OkOf, ZenonT(40)
<1> QED BY <1>3, <1>4, Zenon DEF block, rest

\* Where the code drops the symbol and does not raise, header and rows lose the
\* same part: at the end by one split, before an excerpt only if no value made
\* two cells.
LEMMA SymbolDropped ==
    ASSUME NEW rows, NEW order, NEW ok \in BOOLEAN,
           \A k \in DOMAIN order : order[k] \in Nat,
           NEW G \in SUBSET Fields, "symbol" \in G,
           DropColumn(Block(rows, order, G, ok), "symbol").ok
    PROVE  DropColumn(Block(rows, order, G, ok), "symbol") = Block(rows, order, G \ {"symbol"}, ok) /\ ok
<1> DEFINE c == Column("caller", G)
           s == Column("symbol", G)
           e == Column("excerpt_truncated", G)
           a == c \o <<"path">>
           H == G \ {"symbol"}
           spot == At(Columns(G), "symbol")
           Cut(row) == CutAt(Columns(G), row, "symbol")
<1>1. /\ "caller" \in Fields /\ "symbol" \in Fields /\ "excerpt_truncated" \in Fields
      /\ "path" \in Fields /\ "caller" # "symbol" /\ "excerpt_truncated" # "symbol"
      /\ "path" # "symbol" /\ H \in SUBSET Fields
  BY DEF Fields
<1>2. /\ c \in Seq(Fields) /\ e \in Seq(Fields) /\ Len(e) \in {0, 1} /\ s = <<"symbol">>
      /\ \A k \in DOMAIN c : c[k] # "symbol"
      /\ \A k \in DOMAIN e : e[k] # "symbol"
      /\ Len(e) = 0 => e = <<>> /\ \A i \in Nat : Cell(i, "excerpt_truncated", G) = <<>>
      /\ \A i \in Nat : Cell(i, "symbol", G) = <<<<i, "symbol">>>>
      /\ \A i \in Nat : Cell(i, "excerpt_truncated", G) \in Seq(CellOf)
      /\ \A i \in Nat : Len(Cell(i, "excerpt_truncated", G)) = Len(e)
  <2>1. /\ c \in Seq(Fields) /\ e \in Seq(Fields) /\ s = <<"symbol">>
        /\ \A i \in Nat : Cell(i, "symbol", G) = <<<<i, "symbol">>>>
        /\ \A i \in Nat : /\ Cell(i, "excerpt_truncated", G) \in Seq(CellOf)
                          /\ Len(Cell(i, "excerpt_truncated", G)) = Len(e)
    BY <1>1, Parts, Zenon
  <2>2. \A k \in DOMAIN c : c[k] # "symbol"
    BY <1>1, Parts, Zenon
  <2>3. \A k \in DOMAIN e : e[k] # "symbol"
    BY <1>1, Parts, Zenon
  <2>4. CASE "excerpt_truncated" \in G
    <3>1. e = <<"excerpt_truncated">>
      BY <2>4, <1>1, Parts, Zenon
    <3>2. Len(e) = 1
      BY <3>1
    <3> QED BY <2>1, <2>2, <2>3, <3>2
  <2>5. CASE "excerpt_truncated" \notin G
    <3>1. e = <<>> /\ \A i \in Nat : Cell(i, "excerpt_truncated", G) = <<>>
      BY <2>5, <1>1, Parts, Zenon
    <3>2. Len(e) = 0
      BY <3>1
    <3> QED BY <2>1, <2>2, <2>3, <3>1, <3>2
  <2> QED BY <2>4, <2>5
<1>3. a \in Seq(Fields) /\ Len(a) = Len(c) + 1 /\ Len(Columns(G)) = Len(c) + 2 + Len(e)
  <2>1. a \in Seq(Fields) /\ Len(a) = Len(c) + 1
    BY HeaderParts, Zenon
  <2>2. Len(Columns(G)) = Len(c) + 1 + Len(s) + Len(e)
    BY HeaderParts, Zenon
  <2>3. Len(s) = 1
    BY <1>2
  <2>4. Len(c) \in Nat /\ Len(e) \in Nat
    <3> HIDE DEF c, e
    <3> QED BY <1>2
  <2> HIDE DEF a, c, s, e
  <2> QED BY <2>1, <2>2, <2>3, <2>4
<1>4. Columns(G) = (a \o <<"symbol">>) \o e
  BY <1>2 DEF Columns
<1>5. \A k \in DOMAIN a : a[k] # "symbol"
  BY <1>1, <1>2
<1>6. spot = Len(a) + 1
  <2> HIDE DEF a, e
  <2>1. At((a \o <<"symbol">>) \o e, "symbol") = Len(a) + 1
    <3>1. /\ a \in Seq(Fields) /\ "symbol" \in Fields /\ e \in Seq(Fields)
          /\ \A i \in DOMAIN a : a[i] # "symbol"
          /\ \A i \in DOMAIN e : e[i] # "symbol"
      BY <1>1, <1>2, <1>3, <1>5, Zenon
    <3> QED BY <3>1, Place, ZenonT(40)
  <2> QED BY <1>4, <2>1, Zenon
<1>7. Columns(H) = a \o e
  <2>1. /\ Column("caller", H) = c /\ Column("symbol", H) = <<>>
        /\ Column("excerpt_truncated", H) = e
    BY <1>1, OtherParts DEF Column
  <2>2. a \o <<>> = a
    BY <1>3
  <2> QED BY <2>1, <2>2 DEF Columns
<1>8. Without(Columns(G), spot) = Columns(H)
  <2> HIDE DEF a, e, spot
  <2>1. Without((a \o <<"symbol">>) \o e, Len(a) + 1) = a \o e
    <3>1. a \in Seq(Fields) /\ "symbol" \in Fields /\ e \in Seq(Fields)
      BY <1>1, <1>2, <1>3, Zenon
    <3> QED BY <3>1, CutOut, ZenonT(40)
  <2> QED BY <2>1, <1>4, <1>6, <1>7, Zenon
<1> DEFINE r == [k \in DOMAIN order |-> Rendered(rows, order[k], G)]
           whole == Whole(Columns(G), r, ok, "symbol")
<1>9. /\ DropColumn(Block(rows, order, G, ok), "symbol")
           = [columns |-> Without(Columns(G), spot), ok |-> whole, rows |-> [k \in DOMAIN r |-> Cut(r[k])]]
      /\ DOMAIN r = DOMAIN order /\ \A k \in DOMAIN order : r[k] = Rendered(rows, order[k], G)
      /\ whole
  <2>1. Block(rows, order, G, ok) = [columns |-> Columns(G), rows |-> r, ok |-> ok]
    BY Zenon DEF Block
  <2>2. DOMAIN r = DOMAIN order /\ \A k \in DOMAIN order : r[k] = Rendered(rows, order[k], G)
    OBVIOUS
  <2> HIDE DEF r
  <2>3. /\ DropColumn([columns |-> Columns(G), rows |-> r, ok |-> ok], "symbol")
             = [columns |-> Without(Columns(G), spot), ok |-> whole, rows |-> [k \in DOMAIN r |-> Cut(r[k])]]
        /\ DropColumn([columns |-> Columns(G), rows |-> r, ok |-> ok], "symbol").ok = whole
    BY DropIs, Zenon
  <2> HIDE DEF whole, Cut, spot
  <2> QED BY <2>1, <2>2, <2>3, Zenon
<1>0. /\ ok
      /\ spot \in {1, Len(Columns(G))} \/ \A k \in DOMAIN order : Len(r[k]) = Len(Columns(G))
  <2> HIDE DEF r
  <2> QED BY <1>9, Zenon DEF Whole
<1>10. ASSUME NEW k \in DOMAIN order
       PROVE  Cut(Rendered(rows, order[k], G)) = Rendered(rows, order[k], H)
  <2> DEFINE i == order[k]
             b == Cell(i, "caller", G) \o PathCells(rows, i)
             x == Cell(i, "excerpt_truncated", G)
           p == PathCells(rows, i)
  <2>1. i \in Nat
    OBVIOUS
  <2>2. /\ b \in Seq(CellOf) /\ Len(b) = Len(c) + Len(p)
        /\ x \in Seq(CellOf) /\ Len(x) = Len(e) /\ <<i, "symbol">> \in CellOf
    <3>1. <<i, "symbol">> \in CellOf
      BY <1>1, <2>1 DEF CellOf
    <3> QED BY <1>2, <2>1, <3>1, RowParts, Zenon
  <2>3. Rendered(rows, i, G) = (b \o <<<<i, "symbol">>>>) \o x
    BY <1>2, <2>1 DEF Rendered
  <2>4. Rendered(rows, i, H) = b \o x
    <3>1. /\ Cell(i, "caller", H) = Cell(i, "caller", G) /\ Cell(i, "symbol", H) = <<>>
          /\ Cell(i, "excerpt_truncated", H) = x
      BY <1>1, <2>1, OtherParts DEF Cell
    <3>2. b \o <<>> = b
      BY <2>2
    <3> QED BY <3>1, <3>2 DEF Rendered
  <2>5. Len(Rendered(rows, i, G)) = Len(b) + 1 + Len(e)
    <3>1. Len(Rendered(rows, i, G)) = Len(b) + Len(s) + Len(e)
      BY <2>1, RowParts, Zenon
    <3>2. Len(s) = 1
      BY <1>2
    <3> QED BY <3>1, <3>2
  <2>6. (IF spot = Len(Columns(G)) THEN Len(Rendered(rows, i, G)) ELSE spot) = Len(b) + 1
    <3>1. Len(c) \in Nat /\ Len(e) \in {0, 1} /\ Len(b) \in Nat
      BY <1>2, <2>2
    <3>2. spot \in {1, Len(Columns(G))} \/ Len(Rendered(rows, i, G)) = Len(Columns(G))
      BY <1>9, <1>0, Zenon
    <3> HIDE DEF spot, b, c, e
    <3> QED BY <1>3, <1>6, <2>5, <3>1, <3>2
  <2> HIDE DEF b, x
  <2>7. Without((b \o <<<<i, "symbol">>>>) \o x, Len(b) + 1) = b \o x
    BY <2>2, CutOut
  <2> QED BY <2>3, <2>4, <2>6, <2>7, Zenon DEF CutAt
<1> HIDE DEF spot, r
<1>11. [k \in DOMAIN r |-> Cut(r[k])] = [k \in DOMAIN order |-> Rendered(rows, order[k], H)]
  <2>1. \A k \in DOMAIN order : Cut(r[k]) = Rendered(rows, order[k], H)
    BY <1>9, <1>10, Zenon
  <2> HIDE DEF Cut, H
  <2> QED BY <1>9, <2>1, Zenon
<1>12. DropColumn(Block(rows, order, G, ok), "symbol")
         = [columns |-> Columns(H), rows |-> [k \in DOMAIN order |-> Rendered(rows, order[k], H)], ok |-> ok]
  <2>1. ok = whole
    BY <1>9, <1>0, Zenon DEF Whole
  <2> HIDE DEF Cut, H, whole
  <2> QED BY <1>8, <1>9, <1>11, <2>1, Zenon
<1> QED BY <1>0, <1>12, Zenon DEF Block

\* The caller stands first, and its loss never raises.
LEMMA CallerDropped ==
    ASSUME NEW rows, NEW order, NEW ok \in BOOLEAN,
           \A k \in DOMAIN order : order[k] \in Nat,
           NEW G \in SUBSET Fields, "caller" \in G
    PROVE  DropColumn(Block(rows, order, G, ok), "caller") = Block(rows, order, G \ {"caller"}, ok)
<1> DEFINE s == Column("symbol", G)
           e == Column("excerpt_truncated", G)
           H == G \ {"caller"}
           C == Columns(G)
           r == [k \in DOMAIN order |-> Rendered(rows, order[k], G)]
<1>1. /\ "caller" \in Fields /\ "symbol" \in Fields /\ "excerpt_truncated" \in Fields
      /\ "path" \in Fields /\ "caller" # "symbol" /\ "caller" # "excerpt_truncated"
      /\ "caller" # "path" /\ H \in SUBSET Fields /\ <<"path">> \in Seq(Fields)
  BY DEF Fields
<1>2. /\ Column("caller", G) = <<"caller">> /\ \A i \in Nat : Cell(i, "caller", G) = <<<<i, "caller">>>>
      /\ Column("caller", H) = <<>> /\ \A i \in Nat : Cell(i, "caller", H) = <<>>
  BY <1>1, Zenon DEF Column, Cell
<1>3. /\ Column("symbol", H) = s /\ Column("excerpt_truncated", H) = e
      /\ \A i \in Nat : /\ Cell(i, "symbol", H) = Cell(i, "symbol", G)
                        /\ Cell(i, "excerpt_truncated", H) = Cell(i, "excerpt_truncated", G)
  BY <1>1, OtherParts, ZenonT(40)
<1>4. /\ s \in Seq(Fields) /\ \A k \in DOMAIN s : s[k] # "caller"
      /\ e \in Seq(Fields) /\ \A k \in DOMAIN e : e[k] # "caller"
  <2>1. s \in Seq(Fields) /\ \A k \in DOMAIN s : s[k] = "symbol"
    BY <1>1, Parts, Zenon
  <2>2. e \in Seq(Fields) /\ \A k \in DOMAIN e : e[k] = "excerpt_truncated"
    BY <1>1, Parts, Zenon
  <2> QED BY <1>1, <2>1, <2>2
<1>5. C = ((<<"caller">> \o <<"path">>) \o s) \o e
  BY <1>2, Zenon DEF Columns
<1>6. Columns(H) = (<<"path">> \o s) \o e
  <2>1. Columns(H) = ((<<>> \o <<"path">>) \o s) \o e
    BY <1>2, <1>3, Zenon DEF Columns
  <2>2. <<>> \o <<"path">> = <<"path">>
    BY <1>1
  <2> QED BY <2>1, <2>2, Zenon
<1>7. At(C, "caller") = 1 /\ 1 # Len(C)
  <2> HIDE DEF s, e, C
  <2>1. DOMAIN C = 1 .. (2 + Len(s) + Len(e)) /\ C[1] = "caller" /\ Len(C) = 2 + Len(s) + Len(e)
    BY <1>1, <1>4, <1>5
  <2>2. Len(s) \in Nat /\ Len(e) \in Nat
    BY <1>4
  <2>3. ASSUME NEW k \in DOMAIN C, C[k] = "caller" PROVE k = 1
    <3>1. C[2] = "path"
      BY <1>1, <1>4, <1>5
    <3>2. \A j \in 1 .. Len(s) : C[2 + j] = s[j]
      BY <1>1, <1>4, <1>5
    <3>3. \A j \in 1 .. Len(e) : C[2 + Len(s) + j] = e[j]
      BY <1>1, <1>4, <1>5
    <3>4. CASE k \in 3 .. (2 + Len(s))
      <4>1. k - 2 \in 1 .. Len(s) /\ C[2 + (k - 2)] = s[k - 2] /\ 2 + (k - 2) = k
        BY <2>1, <2>2, <3>2, <3>4
      <4>2. k - 2 \in DOMAIN s
        BY <1>4, <4>1
      <4> QED BY <1>4, <2>3, <4>1, <4>2
    <3>5. CASE k \in (3 + Len(s)) .. (2 + Len(s) + Len(e))
      <4>1. /\ k - 2 - Len(s) \in 1 .. Len(e) /\ 2 + Len(s) + (k - 2 - Len(s)) = k
        BY <2>1, <2>2, <3>5
      <4>2. k - 2 - Len(s) \in DOMAIN e /\ C[k] = e[k - 2 - Len(s)]
        BY <1>4, <3>3, <4>1
      <4> QED BY <1>4, <2>3, <4>2
    <3>6. k \in {1, 2} \/ k \in 3 .. (2 + Len(s)) \/ k \in (3 + Len(s)) .. (2 + Len(s) + Len(e))
      BY <2>1, <2>2
    <3> QED BY <1>1, <2>3, <3>1, <3>4, <3>5, <3>6
  <2>4. At(C, "caller") = 1
    BY <2>1, <2>2, <2>3 DEF At
  <2> QED BY <2>1, <2>2, <2>4
<1>8. Without(C, 1) = Columns(H)
  <2> HIDE DEF s, e, C
  <2> DEFINE b == (<<"path">> \o s) \o e
  <2>1. b \in Seq(Fields)
    BY <1>1, <1>4
  <2>2. C = <<"caller">> \o b
    BY <1>1, <1>4, <1>5
  <2> HIDE DEF b
  <2>3. Without(<<"caller">> \o b, 1) = b
    BY <1>1, <2>1, CutFirst
  <2> QED BY <1>6, <2>2, <2>3, Zenon DEF b
<1>9. ASSUME NEW k \in DOMAIN order
      PROVE  CutAt(C, Rendered(rows, order[k], G), "caller") = Rendered(rows, order[k], H)
  <2> DEFINE i == order[k]
             p == PathCells(rows, i)
             t == Cell(i, "symbol", G)
             x == Cell(i, "excerpt_truncated", G)
  <2>1. i \in Nat /\ <<i, "caller">> \in CellOf
    <3>1. i \in Nat
      OBVIOUS
    <3> QED BY <1>1, <3>1 DEF CellOf
  <2>2. t \in Seq(CellOf)
    BY <1>1, <2>1, CellPart, Zenon
  <2>3. x \in Seq(CellOf)
    BY <1>1, <2>1, CellPart, Zenon
  <2>4. p \in Seq(CellOf)
    BY <2>1, PathPart, Zenon
  <2>5. Rendered(rows, i, G) = ((<<<<i, "caller">>>> \o p) \o t) \o x
    BY <1>2, <2>1, Zenon DEF Rendered
  <2>6. Rendered(rows, i, H) = (p \o t) \o x
    <3>1. Rendered(rows, i, H) = ((<<>> \o p) \o t) \o x
      BY <1>2, <1>3, <2>1, Zenon DEF Rendered
    <3> HIDE DEF p
    <3>2. <<>> \o p = p
      BY <2>4
    <3> QED BY <3>1, <3>2, Zenon
  <2> HIDE DEF p, t, x
  <2> DEFINE b == (p \o t) \o x
  <2>7. b \in Seq(CellOf)
    BY <2>2, <2>3, <2>4
  <2>8. Rendered(rows, i, G) = <<<<i, "caller">>>> \o b
    BY <2>1, <2>2, <2>3, <2>4, <2>5, SMTT(40)
  <2> HIDE DEF b
  <2>10. Without(<<<<i, "caller">>>> \o b, 1) = b
    BY <2>1, <2>7, CutFirst
  <2> HIDE DEF C
  <2>9. CutAt(C, Rendered(rows, i, G), "caller") = Without(Rendered(rows, i, G), 1)
    BY <1>7, Zenon DEF CutAt
  <2> QED BY <2>6, <2>8, <2>9, <2>10, Zenon DEF b
<1>10. DropColumn(Block(rows, order, G, ok), "caller")
         = [columns |-> Without(C, At(C, "caller")), ok |-> Whole(C, r, ok, "caller"),
            rows |-> [k \in DOMAIN r |-> CutAt(C, r[k], "caller")]]
  <2>1. Block(rows, order, G, ok) = [columns |-> C, rows |-> r, ok |-> ok]
    BY Zenon DEF Block
  <2> HIDE DEF r, C
  <2>2. DropColumn([columns |-> C, rows |-> r, ok |-> ok], "caller")
          = [columns |-> Without(C, At(C, "caller")), ok |-> Whole(C, r, ok, "caller"),
             rows |-> [i \in DOMAIN r |-> CutAt(C, r[i], "caller")]]
    BY DropIs, Zenon
  <2> QED BY <2>1, <2>2, Zenon
<1>11. Whole(C, r, ok, "caller") = ok
  <2> HIDE DEF C, r
  <2> QED BY <1>7 DEF Whole
<1>12. [k \in DOMAIN r |-> CutAt(C, r[k], "caller")] = [k \in DOMAIN order |-> Rendered(rows, order[k], H)]
  <2>1. DOMAIN r = DOMAIN order /\ \A k \in DOMAIN order : r[k] = Rendered(rows, order[k], G)
    OBVIOUS
  <2>2. \A k \in DOMAIN order : CutAt(C, r[k], "caller") = Rendered(rows, order[k], H)
    BY <1>9, <2>1, Zenon
  <2> HIDE DEF C, r, H
  <2> QED BY <2>1, <2>2, Zenon
<1> HIDE DEF C, r, H
<1> QED BY <1>7, <1>8, <1>10, <1>11, <1>12, Zenon DEF Block, H

\* Once a drop has raised, no later one mends it.
LEMMA DropNeedsOk ==
    ASSUME NEW block, NEW f PROVE DropColumn(block, f).ok => block.ok
BY DEF DropColumn

\* A page with rows keeps one at least and no more than it has.
LEMMA Kept ==
    ASSUME NEW n \in Nat, n > 0
    PROVE  Keep(n) \in 1 .. n
<1>1. HalfOf(n) \in Nat /\ HalfOf(n) <= n
  <2>1. n \div 2 \in Nat /\ n \div 2 + 1 <= n + 1 /\ (n > 1 => n \div 2 + 1 <= n)
    OBVIOUS
  <2>2. n = 1 => n % 2 # 0 /\ n % 4 = 1
    OBVIOUS
  <2> QED BY <2>1, <2>2 DEF HalfOf
<1> QED BY <1>1 DEF Keep

\* The order of a page takes as many of its rows as it keeps.
LEMMA Ordering ==
    ASSUME NEW n \in Nat, n > 0, NEW order \in Orders(n)
    PROVE  order \in [1 .. Keep(n) -> 1 .. n] /\ Keep(n) \in 1 .. n
<1>1. Keep(n) \in 1 .. n
  BY Kept
<1>2. CASE arm.shuffle
  BY <1>1, <1>2 DEF Orders
<1>3. CASE ~arm.shuffle
  <2>1. order = [i \in 1 .. Keep(n) |-> i]
    BY <1>3 DEF Orders
  <2> QED BY <1>1, <2>1
<1> QED BY <1>2, <1>3

\* A header names the fields it was made for.
LEMMA Named ==
    ASSUME NEW G \in SUBSET Fields, "path" \in G
    PROVE  {Columns(G)[c] : c \in DOMAIN Columns(G)} = G
<1> DEFINE c == Column("caller", G)
           s == Column("symbol", G)
           e == Column("excerpt_truncated", G)
           C == Columns(G)
           R == {C[k] : k \in DOMAIN C}
<1>1. /\ "caller" \in Fields /\ "symbol" \in Fields /\ "excerpt_truncated" \in Fields
      /\ <<"path">> \in Seq(Fields) /\ Len(<<"path">>) = 1 /\ "path" \in Fields
  BY DEF Fields
<1>2. /\ c \in Seq(Fields) /\ \A k \in DOMAIN c : c[k] = "caller"
      /\ "caller" \in G => c = <<"caller">>
      /\ "caller" \notin G => c = <<>>
  BY <1>1, Parts, Zenon
<1>3. /\ s \in Seq(Fields) /\ \A k \in DOMAIN s : s[k] = "symbol"
      /\ "symbol" \in G => s = <<"symbol">>
      /\ "symbol" \notin G => s = <<>>
  BY <1>1, Parts, Zenon
<1>4. /\ e \in Seq(Fields) /\ \A k \in DOMAIN e : e[k] = "excerpt_truncated"
      /\ "excerpt_truncated" \in G => e = <<"excerpt_truncated">>
      /\ "excerpt_truncated" \notin G => e = <<>>
  BY <1>1, Parts, Zenon
<1>5. C = ((c \o <<"path">>) \o s) \o e
  BY Zenon DEF Columns
<1> HIDE DEF c, s, e, C
<1>6. /\ DOMAIN C = 1 .. (Len(c) + 1 + Len(s) + Len(e))
      /\ \A k \in 1 .. Len(c) : C[k] = c[k]
      /\ C[Len(c) + 1] = "path"
      /\ \A k \in 1 .. Len(s) : C[Len(c) + 1 + k] = s[k]
      /\ \A k \in 1 .. Len(e) : C[Len(c) + 1 + Len(s) + k] = e[k]
  BY <1>1, <1>2, <1>3, <1>4, <1>5
<1>7. Len(c) \in Nat /\ Len(s) \in Nat /\ Len(e) \in Nat
  BY <1>2, <1>3, <1>4
<1>8. /\ Len(c) > 0 <=> "caller" \in G
      /\ Len(s) > 0 <=> "symbol" \in G
      /\ Len(e) > 0 <=> "excerpt_truncated" \in G
  <2>1. Len(c) > 0 <=> "caller" \in G
    BY <1>2
  <2>2. Len(s) > 0 <=> "symbol" \in G
    BY <1>3
  <2>3. Len(e) > 0 <=> "excerpt_truncated" \in G
    BY <1>4
  <2> QED BY <2>1, <2>2, <2>3
<1>9. ASSUME NEW k \in DOMAIN C PROVE C[k] \in G
  <2>1. CASE k \in 1 .. Len(c)
    <3>1. C[k] = "caller" /\ Len(c) > 0
      BY <1>2, <1>6, <1>7, <2>1
    <3> QED BY <1>8, <3>1
  <2>2. CASE k = Len(c) + 1
    BY <1>6, <2>2
  <2>3. CASE k \in (Len(c) + 2) .. (Len(c) + 1 + Len(s))
    <3>1. k - Len(c) - 1 \in 1 .. Len(s) /\ k = Len(c) + 1 + (k - Len(c) - 1) /\ Len(s) > 0
      BY <1>7, <2>3
    <3>2. C[k] = s[k - Len(c) - 1] /\ k - Len(c) - 1 \in DOMAIN s
      BY <1>3, <1>6, <3>1
    <3> QED BY <1>3, <1>8, <3>1, <3>2
  <2>4. CASE k \in (Len(c) + 2 + Len(s)) .. (Len(c) + 1 + Len(s) + Len(e))
    <3>1. /\ k - Len(c) - 1 - Len(s) \in 1 .. Len(e) /\ Len(e) > 0
          /\ k = Len(c) + 1 + Len(s) + (k - Len(c) - 1 - Len(s))
      BY <1>7, <2>4
    <3>2. C[k] = e[k - Len(c) - 1 - Len(s)] /\ k - Len(c) - 1 - Len(s) \in DOMAIN e
      BY <1>4, <1>6, <3>1
    <3> QED BY <1>4, <1>8, <3>1, <3>2
  <2> QED BY <1>6, <1>7, <2>1, <2>2, <2>3, <2>4
<1>10. ASSUME NEW f \in G PROVE f \in R
  <2>1. CASE f = "caller"
    <3>1. 1 \in DOMAIN C /\ C[1] = f
      BY <1>2, <1>6, <1>7, <1>8, <2>1
    <3> QED BY <3>1
  <2>2. CASE f = "path"
    <3>1. Len(c) + 1 \in DOMAIN C
      BY <1>6, <1>7
    <3> QED BY <1>6, <2>2, <3>1
  <2>3. CASE f = "symbol"
    <3>1. Len(c) + 1 + 1 \in DOMAIN C /\ C[Len(c) + 1 + 1] = f
      <4>1. 1 \in 1 .. Len(s) /\ s[1] = "symbol"
        BY <1>3, <1>7, <1>8, <2>3
      <4> QED BY <1>6, <1>7, <2>3, <4>1
    <3> QED BY <3>1
  <2>4. CASE f = "excerpt_truncated"
    <3>1. Len(c) + 1 + Len(s) + 1 \in DOMAIN C /\ C[Len(c) + 1 + Len(s) + 1] = f
      <4>1. 1 \in 1 .. Len(e) /\ e[1] = "excerpt_truncated"
        BY <1>4, <1>7, <1>8, <2>4
      <4> QED BY <1>6, <1>7, <2>4, <4>1
    <3> QED BY <3>1
  <2> QED BY <2>1, <2>2, <2>3, <2>4 DEF Fields
<1>11. R = G
  BY <1>9, <1>10
<1> QED BY <1>11 DEF C

\* A page whose every row has a path, and the fields its rows are left with.
PageOf(rows) == \A i \in DOMAIN rows : rows[i].fields \in SUBSET Fields /\ "path" \in rows[i].fields

Left(rows) == Shown(rows) \ Blind(rows)

\* A page the server may answer with: rows with a path, and a count.
LEMMA RowsOfPage ==
    ASSUME NEW page \in Pages
    PROVE  /\ PageOf(page.rows) /\ Len(page.rows) \in Nat /\ DOMAIN page.rows = 1 .. Len(page.rows)
           /\ (page.rows # <<>> => Len(page.rows) > 0)
           /\ (page.claims = Len(page.rows)) \in BOOLEAN
<1> DEFINE RowType == [fields : {f \in SUBSET Fields : "path" \in f}, tab : BOOLEAN]
<1>1. page \in Page
  BY PagesAssumption
<1>2. page.rows \in Seq(RowType)
  BY <1>1 DEF Page
<1>3. \A r \in RowType : r.fields \in SUBSET Fields /\ "path" \in r.fields
  OBVIOUS
<1> HIDE DEF RowType
<1>4. Len(page.rows) \in Nat /\ DOMAIN page.rows = 1 .. Len(page.rows)
  BY <1>2
<1>5. \A i \in DOMAIN page.rows : page.rows[i] \in RowType
  BY <1>2
<1>6. page.rows # <<>> => Len(page.rows) > 0
  BY <1>2
<1> QED BY <1>3, <1>4, <1>5, <1>6, Zenon DEF PageOf

\* What is dropped is an identity field some row has; the path stays.
LEMMA LeftOfPage ==
    ASSUME NEW page \in Pages, page.rows # <<>>
    PROVE  /\ Shown(page.rows) \in SUBSET Fields /\ Left(page.rows) \in SUBSET Fields
           /\ "path" \in Left(page.rows)
           /\ Blind(page.rows) \subseteq Shown(page.rows) /\ Blind(page.rows) \subseteq {"symbol", "caller"}
<1> DEFINE rows == page.rows
<1>1. /\ \A i \in DOMAIN rows : rows[i].fields \in SUBSET Fields /\ "path" \in rows[i].fields
      /\ 1 \in DOMAIN rows
  BY RowsOfPage DEF PageOf
<1> HIDE DEF rows
<1>2. Shown(rows) \in SUBSET Fields /\ "path" \in Shown(rows)
  BY <1>1 DEF Shown
<1>3. Blind(rows) \subseteq {"symbol", "caller"}
  BY DEF Blind, Attribution
<1>4. \A f \in Blind(rows) : f \in Shown(rows)
  BY <1>1 DEF Blind, Shown
<1> QED BY <1>2, <1>3, <1>4 DEF Left, rows

\* Where the code does not raise, the text is the page rendered with the fields
\* that are left, in the new order.
LEMMA TextOfPage ==
    ASSUME NEW page \in Pages, page.rows # <<>>, NEW order,
           \A k \in DOMAIN order : order[k] \in Nat, Rewritten(page, order).ok
    PROVE  \E ok \in BOOLEAN : Rewritten(page, order) = Block(page.rows, order, Left(page.rows), ok)
<1> DEFINE rows == page.rows
           F == Shown(rows)
           B == Blind(rows)
           ok == page.claims = Len(rows)
           first == Dropped(Block(rows, order, F, ok), "symbol", B)
           G == F \ (B \cap {"symbol"})
<1>1. /\ F \in SUBSET Fields /\ B \subseteq F /\ B \subseteq {"symbol", "caller"} /\ ok \in BOOLEAN
      /\ Left(rows) = F \ B
  BY LeftOfPage DEF Left
<1>2. Rewritten(page, order) = Dropped(first, "caller", B)
  BY Zenon DEF Rewritten, Block
<1> HIDE DEF rows, F, B, ok
<1>3. first.ok
  BY <1>2, DropNeedsOk, Zenon DEF Dropped
<1>4. first = Block(rows, order, G, ok)
  <2>1. CASE "symbol" \in B
    <3>1. first = DropColumn(Block(rows, order, F, ok), "symbol")
      BY <2>1, Zenon DEF Dropped
    <3>2. "symbol" \in F /\ G = F \ {"symbol"}
      BY <1>1, <2>1
    <3>3. DropColumn(Block(rows, order, F, ok), "symbol") = Block(rows, order, F \ {"symbol"}, ok)
      <4> HIDE DEF first, G
      <4>1. DropColumn(Block(rows, order, F, ok), "symbol").ok
        BY <1>3, <3>1, Zenon
      <4> QED BY <1>1, <3>2, <4>1, SymbolDropped
    <3> QED BY <3>1, <3>2, <3>3, Zenon
  <2>2. CASE "symbol" \notin B
    <3>1. first = Block(rows, order, F, ok)
      BY <2>2, Zenon DEF Dropped
    <3>2. G = F
      BY <2>2
    <3> QED BY <3>1, <3>2, Zenon
  <2> QED BY <2>1, <2>2
<1> HIDE DEF first
<1>5. Rewritten(page, order) = Block(rows, order, Left(rows), ok)
  <2>1. CASE "caller" \in B
    <3>1. "caller" \in G /\ G \in SUBSET Fields /\ G \ {"caller"} = Left(rows)
      BY <1>1, <2>1
    <3> HIDE DEF G
    <3>2. DropColumn(Block(rows, order, G, ok), "caller") = Block(rows, order, G \ {"caller"}, ok)
      BY <1>1, <3>1, CallerDropped
    <3> QED BY <1>2, <1>4, <2>1, <3>1, <3>2, Zenon DEF Dropped
  <2>2. CASE "caller" \notin B
    <3>1. G = Left(rows)
      BY <1>1, <2>2
    <3> HIDE DEF G
    <3> QED BY <1>2, <1>4, <2>2, <3>1, Zenon DEF Dropped
  <2> QED BY <2>1, <2>2
<1> QED BY <1>1, <1>5 DEF rows

-----------------------------------------------------------------------------
(* DegradeServer: types and SameDamage.                                      *)

Served == [page : Pages, concept : BOOLEAN]
DamagedPage == [text : Seq(Seq(CellOf)), columns : Seq(Fields), ok : BOOLEAN,
                structured : Seq([row : Nat, fields : SUBSET Fields])]
Given == [page : Pages, concept : BOOLEAN, as : DamagedPage]

DegradeTypeOK ==
    /\ arm \in Options
    /\ made \in Nat
    /\ asked \in Seq([concept : BOOLEAN, fields : {"absent", "list", "excerpt"}])
    /\ stdout \in Seq(Served)
    /\ shown \in Seq(Given)
    /\ state \in {"running", "closing", "ended", "killed"}

\* What a page is made of that the agent is given.
LEMMA PageDamaged ==
    ASSUME NEW page \in Pages, page.rows # <<>>, NEW order \in Orders(Len(page.rows)),
           Degraded(page, order).ok
    PROVE  LET as == Degraded(page, order)
               left == Left(page.rows)
               D == DOMAIN order
           IN  /\ D = 1 .. Keep(Len(page.rows)) /\ Keep(Len(page.rows)) \in Nat
               /\ \A k \in D : order[k] \in DOMAIN page.rows
               /\ as.text = [k \in D |-> Rendered(page.rows, order[k], left)]
               /\ as.columns = Columns(left)
               /\ as.structured = [k \in D |-> [row |-> order[k],
                                       fields |-> page.rows[order[k]].fields \ Blind(page.rows)]]
               /\ as.ok = TRUE
               /\ as = [text |-> as.text, columns |-> as.columns, ok |-> as.ok,
                        structured |-> as.structured]
<1> DEFINE n == Len(page.rows)
           text == Rewritten(page, order)
           S == [k \in DOMAIN order |-> [row |-> order[k],
                     fields |-> page.rows[order[k]].fields \ Blind(page.rows)]]
           whole == text.ok /\ page.text /\ ~Mixed(page.rows)
<1>1. n \in Nat /\ n > 0 /\ DOMAIN page.rows = 1 .. n
  BY RowsOfPage
<1>2. order \in [1 .. Keep(n) -> 1 .. n] /\ Keep(n) \in 1 .. n
  BY <1>1, Ordering
<1>3. /\ DOMAIN order = 1 .. Keep(n) /\ Keep(n) \in Nat
      /\ \A k \in DOMAIN order : order[k] \in DOMAIN page.rows /\ order[k] \in Nat
  BY <1>1, <1>2
<1>4. Degraded(page, order) = [text |-> text.rows, columns |-> text.columns, ok |-> whole, structured |-> S]
  BY Zenon DEF Degraded
<1>5. /\ Degraded(page, order).ok = whole /\ Degraded(page, order).text = text.rows
      /\ Degraded(page, order).columns = text.columns /\ Degraded(page, order).structured = S
  <2> HIDE DEF text, S, whole
  <2> QED BY <1>4
<1>6. whole
  BY <1>5
<1>7. PICK ok \in BOOLEAN : text = Block(page.rows, order, Left(page.rows), ok)
  BY <1>3, <1>6, TextOfPage
<1>8. /\ text.rows = [k \in DOMAIN order |-> Rendered(page.rows, order[k], Left(page.rows))]
      /\ text.columns = Columns(Left(page.rows))
  <2>1. /\ Block(page.rows, order, Left(page.rows), ok).rows
             = [k \in DOMAIN order |-> Rendered(page.rows, order[k], Left(page.rows))]
        /\ Block(page.rows, order, Left(page.rows), ok).columns = Columns(Left(page.rows))
    BY DEF Block
  <2> HIDE DEF text
  <2> QED BY <1>7, <2>1, Zenon
<1>9. whole = TRUE
  BY <1>6
<1> HIDE DEF text, S, whole
<1>10. /\ Degraded(page, order).text = [k \in DOMAIN order |-> Rendered(page.rows, order[k], Left(page.rows))]
       /\ Degraded(page, order).columns = Columns(Left(page.rows))
       /\ Degraded(page, order).ok = TRUE
  BY <1>5, <1>8, <1>9, Zenon
<1>11. Degraded(page, order) = [text |-> Degraded(page, order).text,
           columns |-> Degraded(page, order).columns, ok |-> Degraded(page, order).ok,
           structured |-> Degraded(page, order).structured]
  BY <1>4, <1>5, Zenon
<1> QED BY <1>3, <1>5, <1>10, <1>11, Zenon DEF S, n

\* A rendered row is a sequence of cells.
LEMMA RenderedSeq ==
    ASSUME NEW rows, NEW G \in SUBSET Fields, NEW i \in Nat
    PROVE  Rendered(rows, i, G) \in Seq(CellOf)
BY RowParts, Zenon

\* What the agent is given of a page has the shape of both forms.
LEMMA DamagedTyped ==
    ASSUME NEW page \in Pages, page.rows # <<>>, NEW order \in Orders(Len(page.rows)),
           Degraded(page, order).ok
    PROVE  Degraded(page, order) \in DamagedPage
<1> DEFINE as == Degraded(page, order)
           left == Left(page.rows)
           n == Keep(Len(page.rows))
<1>1. /\ DOMAIN order = 1 .. n /\ n \in Nat
      /\ \A k \in DOMAIN order : order[k] \in DOMAIN page.rows
      /\ as.text = [k \in DOMAIN order |-> Rendered(page.rows, order[k], left)]
      /\ as.columns = Columns(left)
      /\ as.structured = [k \in DOMAIN order |-> [row |-> order[k],
                              fields |-> page.rows[order[k]].fields \ Blind(page.rows)]]
      /\ as.ok = TRUE
      /\ as = [text |-> as.text, columns |-> as.columns, ok |-> as.ok, structured |-> as.structured]
  BY PageDamaged, Zenon
<1>2. left \in SUBSET Fields
  BY LeftOfPage
<1>3. \A k \in 1 .. n : order[k] \in Nat /\ page.rows[order[k]].fields \in SUBSET Fields
  BY <1>1, RowsOfPage DEF PageOf
<1> HIDE DEF as, left, n
<1>4. as.text \in Seq(Seq(CellOf))
  <2> DEFINE r == [k \in 1 .. n |-> Rendered(page.rows, order[k], left)]
  <2>1. \A k \in 1 .. n : Rendered(page.rows, order[k], left) \in Seq(CellOf)
    BY <1>2, <1>3, RenderedSeq, Zenon
  <2>2. r \in [1 .. n -> Seq(CellOf)]
    BY <2>1, Zenon
  <2>3. as.text = r
    BY <1>1, Zenon
  <2> HIDE DEF r
  <2>4. r \in Seq(Seq(CellOf))
    BY <1>1, <2>2
  <2> QED BY <2>3, <2>4, Zenon
<1>5. as.columns \in Seq(Fields)
  BY <1>1, <1>2, HeaderParts, Zenon
<1>6. as.structured \in Seq([row : Nat, fields : SUBSET Fields])
  <2> DEFINE r == [k \in 1 .. n |-> [row |-> order[k],
                                     fields |-> page.rows[order[k]].fields \ Blind(page.rows)]]
             T == [row : Nat, fields : SUBSET Fields]
  <2>1. ASSUME NEW k \in 1 .. n
        PROVE  [row |-> order[k], fields |-> page.rows[order[k]].fields \ Blind(page.rows)] \in T
    BY <1>3
  <2> HIDE DEF T
  <2>2. r \in [1 .. n -> T]
    BY <2>1, Zenon
  <2>3. as.structured = r
    BY <1>1, Zenon
  <2> HIDE DEF r
  <2>4. r \in Seq(T)
    BY <1>1, <2>2
  <2>5. as.structured \in Seq(T)
    BY <2>3, <2>4, Zenon
  <2> QED BY <2>5 DEF T
<1>7. ASSUME NEW t \in Seq(Seq(CellOf)), NEW c \in Seq(Fields),
             NEW s \in Seq([row : Nat, fields : SUBSET Fields])
      PROVE  [text |-> t, columns |-> c, ok |-> TRUE, structured |-> s] \in DamagedPage
  BY Zenon DEF DamagedPage
<1>8. [text |-> as.text, columns |-> as.columns, ok |-> as.ok, structured |-> as.structured] \in DamagedPage
  BY <1>1, <1>4, <1>5, <1>6, <1>7, Zenon
<1> QED BY <1>1, <1>8, Zenon DEF as

\* Every step keeps the types; only Pump makes a page of another.
LEMMA DegradeTypeStep ==
    ASSUME DegradeTypeOK, [DegradeNext]_degradeVars
    PROVE  DegradeTypeOK'
<1> USE DEF DegradeTypeOK
<1>1. CASE CopyIn
  <2> DEFINE T == [concept : BOOLEAN, fields : {"absent", "list", "excerpt"}]
  <2>1. ASSUME NEW fields \in {"absent", "list", "excerpt"}
        PROVE  [concept |-> TRUE, fields |-> Pinned(fields)] \in T
    BY DEF Pinned
  <2>2. [concept |-> FALSE, fields |-> "absent"] \in T
    OBVIOUS
  <2> HIDE DEF T
  <2>3. asked' \in Seq(T)
    <3>1. asked \in Seq(T)
      BY DEF T
    <3>2. asked' = asked \/ \E x \in T : asked' = Append(asked, x)
      BY <1>1, <2>1, <2>2 DEF CopyIn
    <3> QED BY <3>1, <3>2, SMTT(40)
  <2>4. arm' = arm /\ made' \in Nat /\ stdout' = stdout /\ shown' = shown /\ state' \in {state, "killed"}
    BY <1>1 DEF CopyIn
  <2> QED BY <2>3, <2>4 DEF T
<1>2. CASE Answer
  <2> DEFINE T == [concept : BOOLEAN, fields : {"absent", "list", "excerpt"}]
  <2>1. asked \in Seq(T) /\ asked # <<>>
    BY <1>2 DEF Answer
  <2>2. \A x \in T : x.concept \in BOOLEAN
    OBVIOUS
  <2> HIDE DEF T
  <2>3. asked' \in Seq(T) /\ Head(asked) \in T
    BY <1>2, <2>1 DEF Answer
  <2>4. PICK page \in Pages : stdout' = Append(stdout, [page |-> page, concept |-> Head(asked).concept])
    BY <1>2, Zenon DEF Answer
  <2>5. [page |-> page, concept |-> Head(asked).concept] \in Served
    BY <2>2, <2>3 DEF Served
  <2>6. stdout' \in Seq(Served)
    BY <2>4, <2>5
  <2>7. arm' = arm /\ made' = made /\ shown' = shown /\ state' = state
    BY <1>2 DEF Answer
  <2> QED BY <2>3, <2>6, <2>7 DEF T
<1>3. CASE Pump
  <2>1. stdout' \in Seq(Served) /\ Head(stdout) \in Served
    <3>1. stdout \in Seq(Served)
      OBVIOUS
    <3>2. stdout # <<>> /\ stdout' = Tail(stdout)
      BY <1>3, Zenon DEF Pump
    <3> QED BY <3>1, <3>2
  <2>2. arm' = arm /\ made' = made /\ asked' = asked
    BY <1>3 DEF Pump
  <2>3. shown' \in Seq(Given) /\ state' \in {"running", "closing", "ended", "killed"}
    <3>1. CASE shown' = shown /\ state' \in {state, "killed"}
      BY <3>1
    <3>2. CASE \E order \in Orders(Len(Head(stdout).page.rows)) :
                 /\ Head(stdout).page.rows # <<>> /\ Degraded(Head(stdout).page, order).ok /\ state' = state
                 /\ shown' = Append(shown, [page |-> Head(stdout).page, concept |-> Head(stdout).concept,
                                            as |-> Degraded(Head(stdout).page, order)])
      <4>1. PICK order \in Orders(Len(Head(stdout).page.rows)) :
                 /\ Head(stdout).page.rows # <<>> /\ Degraded(Head(stdout).page, order).ok /\ state' = state
                 /\ shown' = Append(shown, [page |-> Head(stdout).page, concept |-> Head(stdout).concept,
                                            as |-> Degraded(Head(stdout).page, order)])
        BY <3>2, Zenon
      <4>2. Head(stdout).page \in Pages /\ Head(stdout).concept \in BOOLEAN
        BY <2>1 DEF Served
      <4>3. Degraded(Head(stdout).page, order) \in DamagedPage
        BY <4>1, <4>2, DamagedTyped, Zenon
      <4>4. [page |-> Head(stdout).page, concept |-> Head(stdout).concept,
             as |-> Degraded(Head(stdout).page, order)] \in Given
        BY <4>2, <4>3 DEF Given
      <4> QED BY <4>1, <4>4
    <3> QED BY <1>3, <3>1, <3>2, Zenon DEF Pump
  <2> QED BY <2>1, <2>2, <2>3
<1>4. CASE CloseStdin
  BY <1>4 DEF CloseStdin
<1>5. CASE Ends
  BY <1>5 DEF Ends
<1>6. CASE UNCHANGED degradeVars
  BY <1>6 DEF degradeVars
<1> QED BY <1>1, <1>2, <1>3, <1>4, <1>5, <1>6 DEF DegradeNext

\* Every step keeps both forms alike; the one to look at is Pump.
LEMMA SameDamageStep ==
    ASSUME DegradeTypeOK, SameDamage, [DegradeNext]_degradeVars
    PROVE  SameDamage'
<1>1. CASE shown' = shown
  BY <1>1, Zenon DEF SameDamage
<1>2. CASE Pump /\ shown' # shown
  <2> DEFINE page == Head(stdout).page
  <2>1. PICK order \in Orders(Len(page.rows)) :
             /\ page.rows # <<>> /\ Degraded(page, order).ok
             /\ shown' = Append(shown, [page |-> page, concept |-> Head(stdout).concept,
                                        as |-> Degraded(page, order)])
    BY <1>2, Zenon DEF Pump
  <2>2. page \in Pages
    <3>1. stdout \in Seq(Served)
      BY DEF DegradeTypeOK
    <3>2. stdout # <<>>
      BY <1>2, Zenon DEF Pump
    <3>3. Head(stdout) \in Served
      BY <3>1, <3>2
    <3> QED BY <3>3 DEF Served
  <2> DEFINE as == Degraded(page, order)
             left == Left(page.rows)
             m == Keep(Len(page.rows))
  <2>3. /\ DOMAIN order = 1 .. m /\ m \in Nat
        /\ \A k \in DOMAIN order : order[k] \in DOMAIN page.rows
        /\ as.text = [k \in DOMAIN order |-> Rendered(page.rows, order[k], left)]
        /\ as.columns = Columns(left)
        /\ as.structured = [k \in DOMAIN order |-> [row |-> order[k],
                                fields |-> page.rows[order[k]].fields \ Blind(page.rows)]]
    BY <2>1, <2>2, PageDamaged, Zenon
  <2>4. {as.columns[c] : c \in DOMAIN as.columns} = left
    <3>1. {Columns(left)[c] : c \in DOMAIN Columns(left)} = left
      BY <2>1, <2>2, LeftOfPage, Named, Zenon
    <3>2. as.columns = Columns(left)
      BY <2>3, Zenon
    <3> HIDE DEF as, left
    <3> QED BY <3>1, <3>2, Zenon
  <2>5. /\ Len(as.text) = Len(as.structured) /\ DOMAIN as.structured = DOMAIN order
        /\ \A k \in DOMAIN order :
             /\ as.structured[k].row = order[k]
             /\ as.structured[k].fields = page.rows[order[k]].fields \ Blind(page.rows)
             /\ as.text[k] = Rendered(page.rows, order[k], left)
    <3> DEFINE r == [k \in 1 .. m |-> Rendered(page.rows, order[k], left)]
               s == [k \in 1 .. m |-> [row |-> order[k],
                                       fields |-> page.rows[order[k]].fields \ Blind(page.rows)]]
    <3>1. as.text = r /\ as.structured = s
      BY <2>3, Zenon
    <3>2. Len(r) = m /\ Len(s) = m
      <4>1. m \in Nat
        BY <2>3, Zenon
      <4> HIDE DEF m
      <4> QED BY <4>1, SMTT(40)
    <3>3. /\ DOMAIN s = 1 .. m
          /\ \A k \in 1 .. m : /\ s[k].row = order[k]
                               /\ s[k].fields = page.rows[order[k]].fields \ Blind(page.rows)
                               /\ r[k] = Rendered(page.rows, order[k], left)
      OBVIOUS
    <3> HIDE DEF r, s
    <3> QED BY <2>3, <3>1, <3>2, <3>3, Zenon
  <2>6. \A i \in DOMAIN page.rows : page.rows[i].fields \ Blind(page.rows) = page.rows[i].fields \cap left
    BY DEF Left, Shown
  <2>7. /\ shown \in Seq(Given) /\ DOMAIN shown' = 1 .. (Len(shown) + 1) /\ Len(shown) \in Nat
        /\ DOMAIN shown = 1 .. Len(shown)
        /\ \A n \in DOMAIN shown : shown'[n] = shown[n]
        /\ shown'[Len(shown) + 1].page = page /\ shown'[Len(shown) + 1].as = as
    <3> DEFINE x == [page |-> page, concept |-> Head(stdout).concept, as |-> as]
    <3>1. shown' = Append(shown, x) /\ x.page = page /\ x.as = as
      BY <2>1
    <3>2. shown \in Seq(Given)
      BY DEF DegradeTypeOK
    <3> HIDE DEF x
    <3>3. /\ DOMAIN shown' = 1 .. (Len(shown) + 1) /\ Len(shown) \in Nat
          /\ DOMAIN shown = 1 .. Len(shown)
          /\ \A n \in DOMAIN shown : shown'[n] = shown[n]
          /\ shown'[Len(shown) + 1] = x
      BY <3>1, <3>2
    <3> QED BY <3>1, <3>2, <3>3, Zenon
  <2> HIDE DEF as, left, m, page
  <2>8. Alike(page, as)
    <3> DEFINE columns == {as.columns[c] : c \in DOMAIN as.columns}
    <3>1. columns = left
      BY <2>4, Zenon
    <3> HIDE DEF columns
    <3>2. ASSUME NEW k \in DOMAIN as.structured
          PROVE  /\ as.text[k] = Rendered(page.rows, as.structured[k].row, columns)
                 /\ as.structured[k].fields = page.rows[as.structured[k].row].fields \cap columns
      <4>1. k \in DOMAIN order /\ order[k] \in DOMAIN page.rows
        BY <2>3, <2>5, Zenon
      <4>2. page.rows[order[k]].fields \ Blind(page.rows) = page.rows[order[k]].fields \cap left
        BY <2>6, <4>1, Zenon
      <4>3. /\ as.structured[k].row = order[k]
            /\ as.structured[k].fields = page.rows[order[k]].fields \ Blind(page.rows)
            /\ as.text[k] = Rendered(page.rows, order[k], left)
        BY <2>5, <4>1, Zenon
      <4> QED BY <3>1, <4>2, <4>3, Zenon
    <3> QED BY <2>5, <3>2, Zenon DEF Alike, columns
  <2>9. ASSUME NEW n \in DOMAIN shown' PROVE Alike(shown'[n].page, shown'[n].as)
    <3>1. CASE n \in DOMAIN shown
      BY <2>7, <3>1, Zenon DEF SameDamage
    <3>2. CASE n = Len(shown) + 1
      BY <2>7, <2>8, <3>2, Zenon
    <3>3. n \in DOMAIN shown \/ n = Len(shown) + 1
      BY <2>7
    <3> QED BY <3>1, <3>2, <3>3, Zenon
  <2> QED BY <2>9, Zenon DEF SameDamage
<1>3. shown' = shown \/ (Pump /\ shown' # shown)
  BY DEF DegradeNext, CopyIn, Answer, CloseStdin, Ends, degradeVars
<1> QED BY <1>1, <1>2, <1>3

\* The lines and the pages of the proxy are always of the shapes the code gives
\* them, for any arm and any pages the server may answer with.
THEOREM DegradeTypeCorrect == DegradeSpec => []DegradeTypeOK
<1>1. DegradeInit => DegradeTypeOK
  BY DEF DegradeInit, DegradeTypeOK
<1>2. DegradeTypeOK /\ [DegradeNext]_degradeVars => DegradeTypeOK'
  BY DegradeTypeStep
<1> QED BY <1>1, <1>2, PTL DEF DegradeSpec

\* Whatever a page is cut, reordered or blinded by, a client that reads the text
\* and one that reads the structured content are given the same rows of it, in
\* the same order and with the same fields, also where a value holds a raw tab.
THEOREM SameDamageAlways == DegradeSpec => []SameDamage
<1>1. DegradeInit => SameDamage
  BY DEF DegradeInit, SameDamage
<1>2. DegradeTypeOK /\ SameDamage /\ [DegradeNext]_degradeVars => SameDamage'
  BY SameDamageStep
<1> QED BY <1>1, <1>2, DegradeTypeCorrect, PTL DEF DegradeSpec
=============================================================================
