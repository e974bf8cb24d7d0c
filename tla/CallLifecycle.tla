---------------------------- MODULE CallLifecycle ----------------------------
(***************************************************************************)
(* From a request on standard input to its reply, and to the process's     *)
(* end: call_tool and InFlight (src/src/tools/mod.rs), the invocation log  *)
(* (src/src/logging/mod.rs) and DrainingStdin (src/src/main.rs).           *)
(*                                                                         *)
(* rmcp reads a request and hands it to a task of its own; the handler     *)
(* counts itself in, works, logs and returns; only then does rmcp write    *)
(* the reply.  When the client closes its end, DrainingStdin holds back    *)
(* the end of input until a grace period is over and the count is zero.    *)
(* rmcp takes end of input as the order to stop, and main's return drops   *)
(* whatever task is left.                                                  *)
(***************************************************************************)
EXTENDS Integers, Sequences, FiniteSets

CONSTANTS
    Requests,   \* the requests the client sends in this session
    Listings    \* those that are not tools/call: their handler is not counted

ASSUME RequestsAssumption == IsFiniteSet(Requests) /\ Listings \subseteq Requests

Tools == Requests \ Listings

VARIABLES
    closed,     \* the client has closed the server's standard input
    input,      \* DrainingStdin: "open", waiting in "grace" or "poll", or "ended"
    up,         \* rmcp's service loop is running
    req,        \* where each request is
    cancelled,  \* requests whose cancellation token is set
    inflight,   \* RetrievalServer.inflight
    log,        \* the records InvocationLog has written for each request
    late        \* history: requests whose handler started after end of input

vars == <<closed, input, up, req, cancelled, inflight, log, late>>

(***************************************************************************)
(* unsent     not written by the client yet                                *)
(* sent       in the pipe                                                  *)
(* read       read by rmcp, its task not yet run                           *)
(* entered    InFlight held, tool_start not yet written                    *)
(* running    tool_start written, the tool at work                         *)
(* ended      tool_end written, InFlight still held                        *)
(* returned   the handler has returned, the reply is not written           *)
(* answered   the reply is written                                         *)
(* lost       read, but never answered                                     *)
(***************************************************************************)
Stages == {"unsent", "sent", "read", "entered", "running", "ended", "returned",
           "answered", "lost"}

Outcomes == {"ok", "error", "request cancelled", "cancelled_or_dropped"}

\* The requests whose handler holds an InFlight guard.
Held == {r \in Tools : req[r] \in {"entered", "running", "ended"}}

Init ==
    /\ closed = FALSE
    /\ input = "open"
    /\ up = TRUE
    /\ req = [r \in Requests |-> "unsent"]
    /\ cancelled = {}
    /\ inflight = 0
    /\ log = [r \in Requests |-> <<>>]
    /\ late = {}

Moves(r, from, to) ==
    /\ req[r] = from
    /\ req' = [req EXCEPT ![r] = to]

-----------------------------------------------------------------------------
(* The client. *)

Send(r) ==
    /\ ~closed
    /\ Moves(r, "unsent", "sent")
    /\ UNCHANGED <<closed, input, up, cancelled, inflight, log, late>>

CloseStdin ==
    /\ ~closed
    /\ closed' = TRUE
    /\ UNCHANGED <<input, up, req, cancelled, inflight, log, late>>

-----------------------------------------------------------------------------
(* rmcp, as the code in src/ relies on it. *)

\* A request read from the pipe is given to a task of its own.
Read(r) ==
    /\ up /\ input = "open"
    /\ Moves(r, "sent", "read")
    /\ UNCHANGED <<closed, input, up, cancelled, inflight, log, late>>

\* notifications/cancelled sets the token of a request still being handled.
ReadCancel(r) ==
    /\ up /\ input = "open"
    /\ r \in Tools /\ req[r] \in {"read", "entered", "running"}
    /\ cancelled' = cancelled \cup {r}
    /\ UNCHANGED <<closed, input, up, req, inflight, log, late>>

WriteReply(r) ==
    /\ up
    /\ Moves(r, "returned", "answered")
    /\ UNCHANGED <<closed, input, up, cancelled, inflight, log, late>>

\* End of input stops the service loop: replies it has not written are gone.
Stop ==
    /\ up /\ input = "ended"
    /\ up' = FALSE
    /\ req' = [r \in Requests |-> IF req[r] = "returned" THEN "lost" ELSE req[r]]
    /\ UNCHANGED <<closed, input, cancelled, inflight, log, late>>

-----------------------------------------------------------------------------
(* DrainingStdin::poll_read. *)

\* The inner reader is at its end, with everything before it consumed.
InputEnds ==
    /\ input = "open" /\ closed
    /\ \A r \in Requests : req[r] # "sent"
    /\ input' = "grace"
    /\ UNCHANGED <<closed, up, req, cancelled, inflight, log, late>>

\* Mutant of TimerFires: the end of input is believed after the grace alone.
TimerFiresOnce ==
    /\ input \in {"grace", "poll"}
    /\ input' = "ended"
    /\ UNCHANGED <<closed, up, req, cancelled, inflight, log, late>>

\* DISPATCH_GRACE or DRAIN_POLL is over: the end of input is passed on when
\* nothing is in flight, and the poll timer armed again otherwise.
TimerFires ==
    /\ input \in {"grace", "poll"}
    /\ input' = IF inflight = 0 THEN "ended" ELSE "poll"
    /\ UNCHANGED <<closed, up, req, cancelled, inflight, log, late>>

-----------------------------------------------------------------------------
(* The handlers. *)

\* list_tools: nothing is counted and nothing is logged.
ListTools(r) ==
    /\ r \in Listings
    /\ Moves(r, "read", IF up THEN "returned" ELSE "lost")
    /\ UNCHANGED <<closed, input, up, cancelled, inflight, log, late>>

\* call_tool, InFlight::enter.
Enter(r) ==
    /\ r \in Tools
    /\ Moves(r, "read", "entered")
    /\ inflight' = inflight + 1
    /\ late' = IF input = "ended" THEN late \cup {r} ELSE late
    /\ UNCHANGED <<closed, input, up, cancelled, log>>

\* call_tool, InvocationLog::start.
LogStart(r) ==
    /\ r \in Tools
    /\ Moves(r, "entered", "running")
    /\ log' = [log EXCEPT ![r] = Append(@, "tool_start")]
    /\ UNCHANGED <<closed, input, up, cancelled, inflight, late>>

\* Mutant of LogEnd: finish() leaves `finished` unset, so Drop writes again.
LogEndTwice(r) ==
    /\ r \in Tools
    /\ Moves(r, "running", "ended")
    /\ log' = [log EXCEPT ![r] = @ \o <<"ok", "cancelled_or_dropped">>]
    /\ UNCHANGED <<closed, input, up, cancelled, inflight, late>>

\* call_tool, from the select! to CallLog::finish: the tool's result, its error,
\* or the cancellation, whichever the select! takes.
LogEnd(r) ==
    /\ r \in Tools
    /\ Moves(r, "running", "ended")
    /\ \E o \in {"ok", "error"} \cup (IF r \in cancelled THEN {"request cancelled"} ELSE {}) :
            log' = [log EXCEPT ![r] = Append(@, o)]
    /\ UNCHANGED <<closed, input, up, cancelled, inflight, late>>

\* Mutant of Return: the guard is leaked.
ReturnCounted(r) ==
    /\ r \in Tools
    /\ Moves(r, "ended", IF up THEN "returned" ELSE "lost")
    /\ UNCHANGED <<closed, input, up, cancelled, inflight, log, late>>

\* call_tool returns: InFlight is dropped, and the result is rmcp's to write.
Return(r) ==
    /\ r \in Tools
    /\ Moves(r, "ended", IF up THEN "returned" ELSE "lost")
    /\ inflight' = inflight - 1
    /\ UNCHANGED <<closed, input, up, cancelled, log, late>>

\* The runtime drops a task that has not started, or that waits in the select!:
\* CallLog and InFlight are dropped with it.
DropTask(r) ==
    /\ ~up
    /\ \/ req[r] = "read" /\ UNCHANGED <<inflight, log>>
       \/ /\ req[r] = "running"
          /\ inflight' = inflight - 1
          /\ log' = [log EXCEPT ![r] = Append(@, "cancelled_or_dropped")]
    /\ req' = [req EXCEPT ![r] = "lost"]
    /\ UNCHANGED <<closed, input, up, cancelled, late>>

RequestStep(r) ==
    \/ Read(r)
    \/ WriteReply(r)
    \/ ListTools(r)
    \/ Enter(r)
    \/ LogStart(r)
    \/ LogEnd(r)
    \/ Return(r)
    \/ DropTask(r)

Done == closed /\ ~up /\ \A r \in Requests : req[r] \in {"unsent", "answered", "lost"}

Next ==
    \/ \E r \in Requests : RequestStep(r) \/ Send(r) \/ ReadCancel(r)
    \/ CloseStdin
    \/ InputEnds
    \/ TimerFires
    \/ Stop
    \/ Done /\ UNCHANGED vars

(***************************************************************************)
(* Tasks are scheduled, tools end (each has a deadline), timers fire and   *)
(* rmcp's loop runs; the client may do nothing at all.                     *)
(***************************************************************************)
Fairness ==
    /\ \A r \in Requests : WF_vars(RequestStep(r))
    /\ WF_vars(InputEnds)
    /\ WF_vars(TimerFires)
    /\ WF_vars(Stop)

Spec == Init /\ [][Next]_vars /\ Fairness

-----------------------------------------------------------------------------

\* Every variable has its type; a listing is never counted: it is at none of the
\* stages in which a handler holds InFlight.
TypeOK ==
    /\ closed \in BOOLEAN
    /\ input \in {"open", "grace", "poll", "ended"}
    /\ up \in BOOLEAN
    /\ req \in [Requests -> Stages]
    /\ cancelled \subseteq Requests
    /\ inflight \in Int
    /\ late \subseteq Tools
    /\ \A r \in Listings : req[r] \notin {"entered", "running", "ended"}

\* The count is that of the handlers at work, however each of them left: by
\* returning, failing, being cancelled or being dropped with the runtime.
InflightCounts == inflight = Cardinality(Held)

\* A started call has one tool_start record, and once its handler is past the
\* tool one tool_end record after it, whichever way the handler went; a call
\* that is answered has its end on record first.
LogBalanced ==
    \A r \in Tools :
        /\ req[r] \in {"unsent", "sent", "read", "entered"} => log[r] = <<>>
        /\ req[r] = "running" => log[r] = <<"tool_start">>
        /\ req[r] \in {"ended", "returned", "answered"} =>
                \E o \in Outcomes \ {"cancelled_or_dropped"} : log[r] = <<"tool_start", o>>
        /\ req[r] = "lost" =>
                log[r] = <<>> \/ \E o \in Outcomes : log[r] = <<"tool_start", o>>

\* A handler that started before the end of input was passed on is never dropped
\* in the middle of its work, whatever the client does to its end of the pipe.
HeldToTheEnd ==
    \A r \in Tools :
        log[r] = <<"tool_start", "cancelled_or_dropped">> => r \in late

\* What the doc comment of `inflight` says it counts: "Requests accepted and not
\* yet answered", the reply rmcp writes after the handler returns included.
ReplyOwedIsCounted ==
    \A r \in Tools :
        req[r] \in {"entered", "running", "ended", "returned"} => inflight > 0

\* A client that closes its end sees the server stop: no count is left up.
ServerStops == closed ~> ~up

=============================================================================
