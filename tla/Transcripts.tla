----------------------------- MODULE Transcripts ------------------------------
(***************************************************************************)
(* One trial as its client's event stream tells it.  The agent works in    *)
(* messages; a message says things and makes calls, several at once, whose *)
(* results come back in any order.  Each client writes its own stream;     *)
(* codex_wrapper.py and opencode_wrapper.py translate theirs at the end    *)
(* into the transcript that benchmark.transcript_outcome reads, and        *)
(* end_to_end.py replays the raw stream of whichever client it was.        *)
(*                                                                         *)
(* A request or a result is the set of gold paths and symbols it shows,    *)
(* and what the agent says is the number of the message it says it in.     *)
(* `spent`, `returned`, `said`, `touched` and `failure` are history: what  *)
(* the agent did, of which the programs see the stream only.               *)
(***************************************************************************)
EXTENDS Integers, Sequences, FiniteSets, SequencesExt, FiniteSetsExt, Functions

CONSTANTS
    Offers,       \* calls the agent may make, [name, request]
    Bodies,       \* what a result may show
    Gold,         \* the identities of the question, <<path, leaf>>
    Clients,      \* among claude, codex and opencode
    Retrieval,    \* names of the retrieval server's tools
    ClientTools,  \* names of the client's own tools, granted to a native arm
    Tokens,       \* tokens that a message may cost
    MaxMessages, MaxCalls, MaxErrors   \* bounds of one session

\* "project_doc" is no tool's name, and a message costs a number of tokens.
ASSUME TranscriptAssumption ==
    /\ Clients \subseteq {"claude", "codex", "opencode"}
    /\ "project_doc" \notin Retrieval /\ Tokens \subseteq Nat
    /\ \A pair \in Gold : DOMAIN pair = 1 .. 2

VARIABLES
    client, nativeArm,
    connected,    \* whether the retrieval server came up
    projectDoc,   \* whether the client put a project document in the context
    stream,       \* the events written so far
    message,      \* number of the message the model is in
    open,         \* calls without a result, id -> [name, request, message]
    over,         \* whether the client has ended, and how
    spent,        \* tokens of each message
    returned,     \* the calls whose result came back, in that order
    said,         \* the last message in which the agent said something, 0 for none
    touched,      \* names used that the arm was not granted
    failure       \* the last error: none, client or provider

arm == <<client, nativeArm, connected, projectDoc>>
lived == <<spent, returned, said, touched, failure>>
transcriptVars == <<arm, stream, message, open, over, lived>>

\* f, and v at x.
With(f, x, v) == [y \in DOMAIN f \cup {x} |-> IF y = x THEN v ELSE f[y]]

\* The elements of a sequence at some of its positions, in their order.
Picked(s, positions) ==
    LET kept[n \in 0 .. Len(s)] ==
            IF n = 0 THEN <<>>
            ELSE IF n \in positions THEN Append(kept[n - 1], s[n]) ELSE kept[n - 1]
    IN  kept[Len(s)]

Granted == Retrieval \cup (IF nativeArm \/ client # "claude" THEN ClientTools ELSE {})

-----------------------------------------------------------------------------
(* The agent and the stream its client writes.                               *)

InitEvent == [type |-> "system", connected |-> connected]

TranscriptInit ==
    /\ client \in Clients
    /\ nativeArm \in BOOLEAN /\ connected \in BOOLEAN /\ projectDoc \in BOOLEAN
    /\ client # "claude" => ~nativeArm /\ connected   \* their streams do not tell
    /\ client # "codex" => ~projectDoc
    /\ stream = IF client = "claude" THEN <<InitEvent>> ELSE <<>>
    /\ message = 0 /\ open = <<>> /\ over = "no"
    /\ spent = <<>> /\ returned = <<>> /\ said = 0
    /\ touched = {} /\ failure = "none"

\* Claude repeats the message's usage on every block of it.
Block(b) == [type |-> "assistant", id |-> message, usage |-> spent[message], block |-> b]

StepFinish == IF client = "opencode" /\ message > 0
              THEN <<[type |-> "step_finish", tokens |-> spent[message]]>> ELSE <<>>

\* Every request carries all earlier results, so a message waits for them.
MessageStarts(tokens) ==
    /\ over = "no" /\ open = <<>> /\ message < MaxMessages
    /\ message' = message + 1
    /\ spent' = Append(spent, tokens)
    /\ stream' = stream \o StepFinish \o
                    (IF client = "opencode" THEN <<[type |-> "step_start", id |-> message + 1]>> ELSE <<>>)
    /\ UNCHANGED <<arm, open, over, returned, said, touched, failure>>

Says ==
    /\ over = "no" /\ message > said
    /\ said' = message
    /\ stream' = Append(stream,
          CASE client = "claude" -> Block([type |-> "text", text |-> message])
            [] client = "codex" -> [type |-> "item", item |-> "agent_message", text |-> message]
            [] client = "opencode" -> [type |-> "text", id |-> message, text |-> message])
    /\ UNCHANGED <<arm, message, open, over, spent, returned, touched, failure>>

Made == Len(returned) + Cardinality(DOMAIN open)

\* Only Claude writes a call when it is made; a call is then known by its id.
Calls(name, request) ==
    /\ over = "no" /\ message > 0 /\ Made < MaxCalls
    /\ LET id == Made + 1 IN
       /\ open' = With(open, id, [name |-> name, request |-> request, message |-> message])
       /\ stream' = IF client = "claude"
                    THEN Append(stream, Block([type |-> "tool_use", id |-> id, name |-> name,
                                               request |-> request]))
                    ELSE stream
    /\ touched' = touched \cup ({name} \ Granted)
    /\ UNCHANGED <<arm, message, over, spent, returned, said, failure>>

Results(id, body) ==
    /\ over = "no"
    /\ LET call == open[id] IN
       /\ returned' = Append(returned, [name |-> call.name, request |-> call.request,
                                        body |-> body, message |-> call.message])
       /\ stream' = Append(stream,
             CASE client = "claude" -> [type |-> "user", id |-> id, body |-> body]
               [] client = "codex" -> [type |-> "item", item |-> "call", name |-> call.name,
                                       request |-> call.request, body |-> body]
               [] client = "opencode" -> [type |-> "tool_use", name |-> call.name,
                                          request |-> call.request, body |-> body])
    /\ open' = Restrict(open, DOMAIN open \ {id})
    /\ UNCHANGED <<arm, message, over, spent, said, touched, failure>>

\* Codex and OpenCode write an error as it happens and may go on after it.
Errs(provider) ==
    /\ over = "no" /\ client # "claude"
    /\ Cardinality({i \in DOMAIN stream : stream[i].type = "error"}) < MaxErrors
    /\ failure' = IF provider THEN "provider" ELSE "client"
    /\ stream' = Append(stream, [type |-> "error", provider |-> provider])
    /\ UNCHANGED <<arm, message, open, over, spent, returned, said, touched>>

LastText(events) == IF events = <<>> THEN 0 ELSE Last(events).text

Total(numbers) ==
    LET sum[n \in 0 .. Len(numbers)] == IF n = 0 THEN 0 ELSE sum[n - 1] + numbers[n]
    IN  sum[Len(numbers)]

\* The client ends by itself, with its summary; `code` is its exit status.
Finishes(code) ==
    /\ over = "no" /\ open = <<>>
    /\ over' = IF code = 0 THEN "well" ELSE "badly"
    /\ failure' = IF code # 0 /\ failure = "none" THEN "client" ELSE failure
    /\ stream' = stream \o
          CASE client = "claude" -> <<[type |-> "result", error |-> code # 0,
                                       subtype |-> "client_error",
                                       text |-> said,
                                       usage |-> Total(spent)]>>
            [] client = "codex" -> <<[type |-> "turn.completed", usage |-> Total(spent)]>>
            [] client = "opencode" -> StepFinish
    /\ UNCHANGED <<arm, message, open, spent, returned, said, touched>>

TranscriptNext ==
    \/ \E n \in Tokens : MessageStarts(n)
    \/ Says
    \/ \E c \in Offers : Calls(c.name, c.request)
    \/ \E id \in DOMAIN open, t \in Bodies : Results(id, t)
    \/ \E p \in BOOLEAN : Errs(p)
    \/ \E code \in {0, 1} : Finishes(code)

-----------------------------------------------------------------------------
(* The wrappers' parse_events, and the transcript they print.                *)

OfType(events, type) == Picked(events, {i \in DOMAIN events : events[i].type = type})
Items(events, item) ==
    Picked(events, {i \in DOMAIN events : events[i].type = "item" /\ events[i].item = item})

\* The provider's failure, by its status code or its message, and not the model's.
ProviderFailure(e) == e.provider

\* A plausible bug: an error is over once something else follows it.
ErrorCleared(events) ==
    IF events = <<>> \/ Last(events).type # "error" THEN "none"
    ELSE IF ProviderFailure(Last(events)) THEN "provider" ELSE "client"

\* The last error is the one reported, with the provider's kept apart.
ErrorOf(events) ==
    LET errors == OfType(events, "error")
    IN  IF errors = <<>> THEN "none" ELSE IF ProviderFailure(Last(errors)) THEN "provider" ELSE "client"

UnexpectedIn(events, granted) == {events[i].name : i \in DOMAIN events} \ granted

\* A command that names a path outside the corpus, a server that is not the
\* retrieval one, a web search or a file change.
ParseCodex(events) ==
    [final |-> LastText(Items(events, "agent_message")),
     error |-> ErrorOf(events),
     unexpected |-> UnexpectedIn(Items(events, "call"), Retrieval \cup ClientTools)]

\* The text of the last started message that has one.
FinalText(events) ==
    LET started == {e.id : e \in ToSet(OfType(events, "step_start"))}
        spoken == {i \in DOMAIN events : events[i].type = "text" /\ events[i].id \in started}
        latest == Max({events[i].id : i \in spoken} \cup {0})
    IN  LastText(Picked(events, {i \in spoken : events[i].id = latest}))

ParseOpencode(events) ==
    [final |-> FinalText(events),
     error |-> ErrorOf(events),
     unexpected |-> UnexpectedIn(OfType(events, "tool_use"), Retrieval \cup ClientTools)]

\* A wrapper says that its server connected; it does not know.
Printed(outcome, code, extra) ==
    <<[type |-> "system", connected |-> TRUE]>>
        \o SetToSeq({[type |-> "assistant", block |-> [type |-> "tool_use", name |-> n]] :
                        n \in outcome.unexpected \cup extra})
        \o <<[type |-> "result", error |-> outcome.error # "none" \/ code # 0,
              subtype |-> IF outcome.error # "none" THEN outcome.error ELSE "client",
              text |-> outcome.final]>>

\* Whether Codex's session log shows a document the client put in the context.
SessionInstructions == IF projectDoc THEN {"project_doc"} ELSE {}

Transcript ==
    LET code == IF over = "badly" THEN 1 ELSE 0
    IN  CASE client = "claude" -> stream
          [] client = "codex" -> Printed(ParseCodex(stream), code, SessionInstructions)
          [] client = "opencode" -> Printed(ParseOpencode(stream), code, {})

TranscriptOutcome(events, allowed) ==
    LET results == OfType(events, "result")
        blocks == {e.block : e \in ToSet(OfType(events, "assistant"))}
        failed == Picked(results, {i \in DOMAIN results : results[i].error})
    IN  [answer |-> LastText(results),
         client_error |-> IF failed = <<>> THEN "none" ELSE Last(failed).subtype,
         unexpected_tools |-> {b.name : b \in {c \in blocks : c.type = "tool_use"}}
                                  \ (Retrieval \cup allowed),
         mcp_failures |-> \E e \in ToSet(OfType(events, "system")) : ~e.connected]

-----------------------------------------------------------------------------
(* end_to_end.py: what the session cost and what it saw.                     *)

Call(e) == [name |-> e.name, request |-> e.request, body |-> e.body]

\* A plausible bug: a result belongs to the call made last.
AnsweredLast(pending, id) == Max(DOMAIN pending)
\* A result belongs to the call of its id.
AnsweredBy(pending, id) == id

\* Claude's calls and their results are events of their own.
ReadsEvent(state, e) ==
    IF e.type = "assistant" /\ e.block.type = "tool_use"
    THEN [pending |-> With(state.pending, e.block.id, e.block), records |-> state.records]
    ELSE IF e.type = "user"
    THEN LET id == AnsweredBy(state.pending, e.id)
         IN  [pending |-> Restrict(state.pending, DOMAIN state.pending \ {id}),
              records |-> Append(state.records,
                 [name |-> state.pending[id].name, request |-> state.pending[id].request,
                  body |-> e.body])]
    ELSE state

Replayed(events) ==
    LET after[n \in 0 .. Len(events)] ==
            IF n = 0 THEN [pending |-> <<>>, records |-> <<>>]
            ELSE ReadsEvent(after[n - 1], events[n])
    IN  after[Len(events)]

ClaudeCalls(events) == Replayed(events).records

CallsFrom(events) ==
    LET done == IF client = "codex" THEN Items(events, "call") ELSE OfType(events, "tool_use")
    IN  IF client = "claude" THEN ClaudeCalls(events)
        ELSE [i \in DOMAIN done |-> Call(done[i])]

\* A plausible bug: every block of a message is a step.
EveryBlock(blocks, i) == TRUE
\* The first block of each message.
FirstOfMessage(blocks, i) == \A j \in 1 .. i - 1 : blocks[j].id # blocks[i].id

StepsFrom(events) ==
    LET blocks == OfType(events, "assistant")
        firsts == Picked(blocks, {i \in DOMAIN blocks : FirstOfMessage(blocks, i)})
        finishes == OfType(events, "step_finish")
        turns == OfType(events, "turn.completed")
    IN  CASE client = "claude" -> [k \in DOMAIN firsts |-> firsts[k].usage]
          [] client = "codex" -> [k \in DOMAIN turns |-> turns[k].usage]
          [] client = "opencode" -> [k \in DOMAIN finishes |-> finishes[k].tokens]

\* The request is evidence too.
Shown(record) == record.request \cup record.body
GoldMarkers == {p[1] : p \in Gold} \cup {p[2] : p \in Gold}

Hits(records) == {i \in DOMAIN records : Shown(records[i]) \cap GoldMarkers # {}}
\* Position of the first call that shows the gold, counted from 1; 0 for none.
FirstHit(records) == IF Hits(records) = {} THEN 0 ELSE Min(Hits(records))

\* A plausible bug: an identity is visible when any part of it is.
InPart(seen, pair) == pair[1] \in seen \/ pair[2] \in seen
\* An identity is visible when its path and its name are.
InFull(seen, pair) == pair[1] \in seen /\ pair[2] \in seen

Unretrieved(records) ==
    {pair \in Gold : ~InFull(UNION {Shown(r) : r \in ToSet(records)}, pair)}

\* closure_audit.py looks at what came back only: the identities it finds on
\* screen, and the verdict on a trial that scored below its control.
OnScreen(records) == {pair \in Gold : InFull(UNION {r.body : r \in ToSet(records)}, pair)}
ClosureVerdict(records) == IF OnScreen(records) = Gold THEN "evidence_seen" ELSE "premature_stop"

-----------------------------------------------------------------------------
\* Whichever client ran, the outcome of a session is the one the agent lived: the
\* error is the last one there was, an answer without an error is the last thing
\* the agent said, a name the arm was not granted is on record, and so is a
\* retrieval server that never came up where the client tells
\* (transcript_outcome over the transcript the wrappers print).
OutcomeAsLived ==
    over # "no" =>
        LET outcome == TranscriptOutcome(Transcript, IF nativeArm THEN ClientTools ELSE {})
        IN  /\ (outcome.client_error = "none") = (failure = "none")
            /\ (outcome.client_error = "provider") = (failure = "provider")
            /\ outcome.answer = said
            /\ (outcome.unexpected_tools = {}) = (touched = {} /\ ~projectDoc)
            /\ outcome.mcp_failures = ~connected

\* At any moment, also that of a kill, the replay has each call that came back
\* once, in order, under its own name and request, although results arrive in
\* another order than the calls were made (calls_from).
CallsAsMade ==
    CallsFrom(stream) = [i \in DOMAIN returned |-> Call(returned[i])]

\* The steps of a finished session add up to what its messages cost, although
\* usage is repeated on every block of a message (steps_from).
TokensOnce ==
    over # "no" /\ (client = "claude" => \A m \in 1 .. message :
                       \E e \in ToSet(OfType(stream, "assistant")) : e.id = m)
        => Total(StepsFrom(stream)) = Total(spent)

\* The two readings of the evidence agree: a session that never had a hit has every
\* identity unretrieved, and one with no identity unretrieved has shown each whole
\* at some call no earlier than its first hit (trial_metrics, unretrieved).  A
\* trial that the closure audit says stopped too early lacks an identity for
\* end_to_end too, unless a request of the agent's own spelled part of it
\* (closure_audit.audit).
EvidenceAgrees ==
    LET records == CallsFrom(stream)
        shown == [i \in DOMAIN returned |-> returned[i].request \cup returned[i].body]
    IN  /\ \A pair \in Gold :
            (pair \in Unretrieved(records)) =
                (FirstHit(records) = 0 \/ \E part \in ToSet(pair) :
                    \A i \in DOMAIN shown : i >= FirstHit(records) => part \notin shown[i])
        /\ ClosureVerdict(records) = "evidence_seen" => Unretrieved(records) = {}
        /\ ClosureVerdict(records) = "premature_stop" /\ Unretrieved(records) = {} =>
              \E i \in DOMAIN returned : returned[i].request \cap GoldMarkers # {}

=============================================================================
