---------------------------- MODULE SessionRoots ----------------------------
(***************************************************************************)
(* Which repository a tool call reads: RetrievalServer::session() and the  *)
(* roots-changed notification, in src/src/tools/mod.rs.                    *)
(*                                                                         *)
(* Several tool calls run at once.  Each looks at the shared session under *)
(* the lock, releases it, asks the client for its roots when the session   *)
(* is missing or stale, and takes the lock again to adopt the answer.  The *)
(* client may move its roots at any point of that, and its notifications   *)
(* are handled on tasks of their own, in any order and at any later time.  *)
(*                                                                         *)
(* A root is known only as the directory it canonicalises to (DirOf), or   *)
(* NoDir when the URI or the directory is refused.  The structural cell of *)
(* a Session is left out: it is made from the session's own workspace and  *)
(* holds nothing else, so which session a call holds settles it.           *)
(***************************************************************************)
EXTENDS Naturals, Sequences

CONSTANTS
    Calls,      \* tool calls that may be in progress at once
    Uris,       \* first roots a client may report
    Dirs,       \* canonical directories
    DirOf,      \* what root_from_uri and Workspace::new make of a URI
    Launch,     \* launch_directory(): a directory, or NoDir when refused
    NoDir,      \* a root that root_from_uri, launch_directory or Workspace::new refuses
    NoRoots,    \* roots/list answered with an empty list, or not asked at all
    Silence,    \* roots/list not answered before the deadline
    Failure,    \* roots/list answered with a protocol error
    None,       \* no session, no pin, no answer yet
    MaxMoves    \* bound: how often the client moves its roots

ASSUME RootsAssumption ==
    /\ DirOf \in [Uris -> Dirs \cup {NoDir}]
    /\ Launch \in Dirs \cup {NoDir}
    /\ NoDir \notin Dirs
    /\ None \notin Dirs
    /\ {NoRoots, Silence, Failure, None} \cap Uris = {}
    /\ NoRoots # Silence /\ NoRoots # Failure /\ Silence # Failure
    /\ None \notin {NoRoots, Silence, Failure}
    /\ None \notin [root : Dirs, gen : Nat]
    /\ MaxMoves \in Nat

VARIABLES
    pin,        \* config.root: the directory --root names, or None
    declared,   \* whether the client declared the roots capability
    told,       \* every first root the client has reported, the present one last
    pending,    \* moves (positions in told) whose notification is not handled yet
    current,    \* SessionState.current: [root, gen] or None; gen tells Arcs apart
    stale,      \* SessionState.stale
    pc,         \* where each call is
    answer,     \* what roots/list gave the call
    bound,      \* the session the call reads, once session() returned
    \* History variables, read by the properties only:
    heard,      \* the latest move whose notification has been handled
    since,      \* heard, as it was when the call entered session()
    asOf,       \* how current was last confirmed: racing a notification, or in silence
    via         \* asOf, as it was when the call got its session

state   == <<pin, declared, current, stale, pc, answer, bound>>
client  == <<told, pending>>
history == <<heard, since, asOf, via>>
rootsVars == <<state, client, history>>

Reports == Uris \cup {NoRoots}
Session == [root : Dirs, gen : Nat]
Basis   == [raced : BOOLEAN, silent : BOOLEAN]
Answers == Reports \cup {Silence, Failure}

Present == told[Len(told)]

(***************************************************************************)
(* resolve_root followed by Workspace::new: the directory an answer leads  *)
(* to, or NoDir when the call fails instead.                               *)
(***************************************************************************)
Resolved(a) ==
    CASE a \in Uris               -> DirOf[a]
      [] a \in {NoRoots, Silence} -> Launch
      [] OTHER                    -> NoDir

RootsInit ==
    /\ pin \in Dirs \cup {None}
    /\ declared \in BOOLEAN
    /\ told \in {<<r>> : r \in (IF declared THEN Reports ELSE {NoRoots})}
    /\ pending = {}
    /\ current = IF pin = None THEN None ELSE [root |-> pin, gen |-> 0]
    /\ stale = FALSE
    /\ pc = [c \in Calls |-> "idle"]
    /\ answer = [c \in Calls |-> None]
    /\ bound = [c \in Calls |-> None]
    /\ heard = 1
    /\ since = [c \in Calls |-> 1]
    /\ asOf = [raced |-> FALSE, silent |-> FALSE]
    /\ via = [c \in Calls |-> [raced |-> FALSE, silent |-> FALSE]]

-----------------------------------------------------------------------------
(* The client. *)

ClientMoves(r) ==
    /\ declared
    /\ Len(told) <= MaxMoves
    /\ told' = Append(told, r)
    /\ pending' = pending \cup {Len(told) + 1}
    /\ UNCHANGED <<state, history>>

\* The client answers with the roots it has when it answers, or refuses.
ClientAnswers(c) ==
    /\ pc[c] = "waiting"
    /\ \E a \in {Present, Failure} : answer' = [answer EXCEPT ![c] = a]
    /\ pc' = [pc EXCEPT ![c] = "answered"]
    /\ UNCHANGED <<pin, declared, current, stale, bound, client, history>>

-----------------------------------------------------------------------------
(* The server. *)

\* The history of a call is dropped with the call.
Forget(c) ==
    /\ since' = [since EXCEPT ![c] = 1]
    /\ via' = [via EXCEPT ![c] = [raced |-> FALSE, silent |-> FALSE]]
    /\ UNCHANGED <<heard, asOf>>

\* Mutant of RootsListChanged: the notification is only logged.
RootsListChangedIgnored(n) ==
    /\ n \in pending
    /\ pending' = pending \ {n}
    /\ heard' = IF n > heard THEN n ELSE heard
    /\ UNCHANGED <<state, told, since, asOf, via>>

\* Mutant of RootsListChanged: --root does not stop the notification.
RootsListChangedPinned(n) ==
    /\ n \in pending
    /\ pending' = pending \ {n}
    /\ stale' = TRUE
    /\ heard' = IF n > heard THEN n ELSE heard
    /\ UNCHANGED <<pin, declared, current, pc, answer, bound, told, since, asOf, via>>

\* on_roots_list_changed: a pinned server ignores it, any other marks the
\* session stale and fetches nothing.
RootsListChanged(n) ==
    /\ n \in pending
    /\ pending' = pending \ {n}
    /\ stale' = IF pin = None THEN TRUE ELSE stale
    /\ heard' = IF n > heard THEN n ELSE heard
    /\ UNCHANGED <<pin, declared, current, pc, answer, bound, told, since, asOf, via>>

\* session(), first critical section: a fresh session is taken as it is.
TakeSession(c) ==
    /\ pc[c] = "idle"
    /\ current # None
    /\ ~stale
    /\ pc' = [pc EXCEPT ![c] = "running"]
    /\ bound' = [bound EXCEPT ![c] = current]
    /\ since' = [since EXCEPT ![c] = heard]
    /\ via' = [via EXCEPT ![c] = asOf]
    /\ UNCHANGED <<pin, declared, current, stale, answer, client, heard, asOf>>

\* session(), past the first critical section: the lock is free again, and a
\* client that declared roots is asked for them.
AskClient(c) ==
    /\ pc[c] = "idle"
    /\ current = None \/ stale
    /\ pc' = [pc EXCEPT ![c] = IF declared THEN "waiting" ELSE "answered"]
    /\ answer' = [answer EXCEPT ![c] = IF declared THEN None ELSE NoRoots]
    /\ since' = [since EXCEPT ![c] = heard]
    /\ UNCHANGED <<pin, declared, current, stale, bound, client, heard, asOf, via>>

\* Mutant of AskTimesOut: roots/list is awaited without a deadline.
AskNeverTimesOut(c) == FALSE /\ UNCHANGED rootsVars

\* client_root: no answer within the deadline.  A later one is discarded.
AskTimesOut(c) ==
    /\ pc[c] = "waiting"
    /\ pc' = [pc EXCEPT ![c] = "answered"]
    /\ answer' = [answer EXCEPT ![c] = Silence]
    /\ UNCHANGED <<pin, declared, current, stale, bound, client, history>>

\* session(), the ? operators: no usable root, so the call is a tool error and
\* the shared session is not touched.
ResolveFails(c) ==
    /\ pc[c] = "answered"
    /\ Resolved(answer[c]) = NoDir
    /\ pc' = [pc EXCEPT ![c] = "idle"]
    /\ answer' = [answer EXCEPT ![c] = None]
    /\ Forget(c)
    /\ UNCHANGED <<pin, declared, current, stale, bound, client>>

\* Mutant of Adopted: a changed root list always drops the snapshot.
AdoptedCold(dir) == [root |-> dir, gen |-> IF current = None THEN 1 ELSE current.gen + 1]

\* The session the second critical section leaves behind: the one there is when
\* the answer names its directory, a new one otherwise.
Adopted(dir) ==
    IF current # None /\ current.root = dir
    THEN current
    ELSE [root |-> dir, gen |-> IF current = None THEN 1 ELSE current.gen + 1]

\* What the second critical section makes of stale, whatever it was before.
StaleAfterAdopt == FALSE

\* session(), second critical section.
Adopt(c) ==
    /\ pc[c] = "answered"
    /\ Resolved(answer[c]) # NoDir
    /\ stale' = StaleAfterAdopt
    /\ current' = Adopted(Resolved(answer[c]))
    /\ bound' = [bound EXCEPT ![c] = current']
    /\ pc' = [pc EXCEPT ![c] = "running"]
    /\ answer' = [answer EXCEPT ![c] = None]
    /\ asOf' = [raced |-> since[c] # heard, silent |-> answer[c] = Silence]
    /\ via' = [via EXCEPT ![c] = asOf']
    /\ UNCHANGED <<pin, declared, client, heard, since>>

\* execute() returns, or the call is cancelled wherever it waits.
Leave(c) ==
    /\ pc' = [pc EXCEPT ![c] = "idle"]
    /\ answer' = [answer EXCEPT ![c] = None]
    /\ bound' = [bound EXCEPT ![c] = None]
    /\ Forget(c)
    /\ UNCHANGED <<pin, declared, current, stale, client>>

Finish(c) == pc[c] = "running" /\ Leave(c)
Cancel(c) == pc[c] # "idle" /\ Leave(c)

CallStep(c) ==
    \/ ClientAnswers(c)
    \/ TakeSession(c)
    \/ AskClient(c)
    \/ AskTimesOut(c)
    \/ ResolveFails(c)
    \/ Adopt(c)
    \/ Finish(c)
    \/ Cancel(c)

RootsNext ==
    \/ \E c \in Calls : CallStep(c)
    \/ \E r \in Reports : ClientMoves(r)
    \/ \E n \in pending : RootsListChanged(n)

(***************************************************************************)
(* The deadline fires, and a call past it runs to its end; nothing is      *)
(* assumed of the client, nor of when a notification is handled.           *)
(***************************************************************************)
RootsFairness ==
    \A c \in Calls :
        /\ WF_rootsVars(AskTimesOut(c))
        /\ WF_rootsVars(ResolveFails(c))
        /\ WF_rootsVars(Adopt(c))
        /\ WF_rootsVars(Finish(c))

RootsSpec == RootsInit /\ [][RootsNext]_rootsVars /\ RootsFairness

-----------------------------------------------------------------------------

\* Every variable has its type; a call has a session exactly while it runs and
\* an answer exactly while it has one to resolve.
RootsTypeOK ==
    /\ pin \in Dirs \cup {None}
    /\ declared \in BOOLEAN
    /\ told \in Seq(Reports) /\ told # <<>>
    /\ pending \subseteq 1 .. Len(told)
    /\ current \in Session \cup {None}
    /\ stale \in BOOLEAN
    /\ pc \in [Calls -> {"idle", "waiting", "answered", "running"}]
    /\ answer \in [Calls -> Answers \cup {None}]
    /\ bound \in [Calls -> Session \cup {None}]
    /\ \A c \in Calls : answer[c] # None <=> pc[c] = "answered"
    /\ \A c \in Calls : bound[c] # None <=> pc[c] = "running"
    /\ heard \in 1 .. Len(told)
    /\ since \in [Calls -> Nat \ {0}]
    /\ asOf \in Basis
    /\ via \in [Calls -> Basis]

\* The call reads a root the client has reported since the latest move that had
\* been handled when the call began.
ReadsARootSince(c) ==
    \E n \in since[c] .. Len(told) : bound[c].root = Resolved(told[n])

\* A call never reads a root older than a notification handled before the call
\* began, provided the round trip that last confirmed the session was answered
\* and saw no notification handled meanwhile: session() and
\* on_roots_list_changed, whatever other calls and moves interleave.
FreshCall ==
    \A c \in Calls :
        pc[c] = "running" /\ pin = None /\ ~via[c].raced /\ ~via[c].silent
            => ReadsARootSince(c)

\* The documented promise, with no exception for a notification that arrives
\* during another call's round trip: "a roots-changed notification makes the
\* next call resolve again".
NextCallResolvesAgain ==
    \A c \in Calls :
        pc[c] = "running" /\ pin = None /\ ~via[c].silent => ReadsARootSince(c)

\* A pinned server stays on --root and consults no client, whatever
\* notifications arrive.
PinHolds ==
    pin # None => /\ current = [root |-> pin, gen |-> 0]
                  /\ \A c \in Calls : pc[c] \in {"idle", "running"}

\* The session, and the snapshot in it, is replaced only when the root moves:
\* neither a notification nor a second call racing the first one rebuilds it.
WarmKept ==
    [][current # None /\ current' # current => current'.root # current.root]_current

\* A call ends even when the client never answers roots/list.
EveryCallEnds ==
    \A c \in Calls : pc[c] # "idle" ~> pc[c] = "idle"

=============================================================================
