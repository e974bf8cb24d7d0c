------------------------- MODULE ServerSessionProofs -------------------------
(***************************************************************************)
(* What the server's side of a session promises: which repository a call   *)
(* reads, for every set of calls, every client and any number of moves     *)
(* (SessionRoots), and what becomes of the calls, for any finite set of    *)
(* requests (CallLifecycle).                                               *)
(***************************************************************************)
EXTENDS SessionRoots, CallLifecycle, FiniteSetTheorems, SequenceTheorems, TLAPS

-----------------------------------------------------------------------------
(* Which repository a call reads: types. *)

LEMMA RootsTypeInit == RootsInit => RootsTypeOK
<1> SUFFICES ASSUME RootsInit PROVE RootsTypeOK
  OBVIOUS
<1>1. PICK r \in Reports : told = <<r>>
  BY DEF RootsInit, Reports
<1>2. told \in Seq(Reports) /\ Len(told) = 1 /\ told # <<>>
  BY <1>1
<1>3. current \in Session \cup {None}
  BY DEF RootsInit, Session
<1>4. [raced |-> FALSE, silent |-> FALSE] \in Basis
  BY DEF Basis
<1>5. pending \subseteq 1 .. Len(told) /\ heard \in 1 .. Len(told)
  BY <1>2 DEF RootsInit
<1>6. via \in [Calls -> Basis] /\ asOf \in Basis
  BY <1>4 DEF RootsInit
<1>7. since \in [Calls -> Nat \ {0}]
  BY DEF RootsInit
<1> QED
  BY <1>2, <1>3, <1>5, <1>6, <1>7 DEF RootsInit, RootsTypeOK

\* Resolved only ever leads to a directory or to NoDir.
LEMMA ResolvedType == \A a : Resolved(a) \in Dirs \cup {NoDir}
  BY RootsAssumption DEF Resolved

\* The session the second critical section leaves behind is a session.
LEMMA AdoptedType ==
    ASSUME current \in Session \cup {None}, NEW d \in Dirs
    PROVE  Adopted(d) \in Session
  BY DEF Adopted, Session

LEMMA RootsTypeStep == RootsTypeOK /\ [RootsNext]_rootsVars => RootsTypeOK'
<1> SUFFICES ASSUME RootsTypeOK, [RootsNext]_rootsVars PROVE RootsTypeOK'
  OBVIOUS
<1>1. ASSUME NEW r \in Reports, ClientMoves(r) PROVE RootsTypeOK'
  <2>1. /\ told' \in Seq(Reports)
        /\ Len(told') = Len(told) + 1
        /\ told' # <<>>
    BY SMTT(30), <1>1 DEF RootsTypeOK, ClientMoves
  <2>2. Len(told) \in Nat
    BY DEF RootsTypeOK
  <2>3. 1 .. Len(told) \subseteq 1 .. Len(told')
    BY <2>1, <2>2
  <2>4. Len(told) + 1 \in 1 .. Len(told')
    BY <2>1, <2>2
  <2>5. pending' \subseteq 1 .. Len(told') /\ heard \in 1 .. Len(told')
    BY <1>1, <2>3, <2>4 DEF RootsTypeOK, ClientMoves
  <2> QED BY <1>1, <2>1, <2>5 DEF RootsTypeOK, ClientMoves, state, history
<1>2. ASSUME NEW n \in pending, RootsListChanged(n) PROVE RootsTypeOK'
  BY <1>2 DEF RootsTypeOK, RootsListChanged
<1>3. ASSUME NEW c \in Calls, ClientAnswers(c) PROVE RootsTypeOK'
  <2>1. Present \in Reports
    BY DEF RootsTypeOK, Present
  <2>2. \A a \in {Present, Failure} : a \in Answers /\ a # None
    BY <2>1, RootsAssumption DEF Answers, Reports
  <2> QED BY <1>3, <2>2 DEF RootsTypeOK, ClientAnswers, client, history
<1>4. ASSUME NEW c \in Calls, TakeSession(c) PROVE RootsTypeOK'
  BY <1>4 DEF RootsTypeOK, TakeSession, client
<1>5. ASSUME NEW c \in Calls, AskClient(c) PROVE RootsTypeOK'
  BY <1>5, RootsAssumption DEF RootsTypeOK, AskClient, client, Answers, Reports
<1>6. ASSUME NEW c \in Calls, AskTimesOut(c) PROVE RootsTypeOK'
  BY <1>6, RootsAssumption DEF RootsTypeOK, AskTimesOut, client, history, Answers
<1>7. ASSUME NEW c \in Calls, ResolveFails(c) PROVE RootsTypeOK'
  BY <1>7 DEF RootsTypeOK, ResolveFails, Forget, client, Basis
<1>8. ASSUME NEW c \in Calls, Adopt(c) PROVE RootsTypeOK'
  <2>1. Adopted(Resolved(answer[c])) \in Session
    BY <1>8, ResolvedType, AdoptedType DEF RootsTypeOK, Adopt
  <2>2. Adopted(Resolved(answer[c])) # None
    BY <2>1, RootsAssumption DEF Session
  <2>3. asOf' \in Basis
    BY <1>8 DEF Adopt, Basis
  <2> QED BY <1>8, <2>1, <2>2, <2>3 DEF RootsTypeOK, Adopt, StaleAfterAdopt, client
<1>9. ASSUME NEW c \in Calls, Finish(c) \/ Cancel(c) PROVE RootsTypeOK'
  <2>1. [raced |-> FALSE, silent |-> FALSE] \in Basis
    BY DEF Basis
  <2>2. via' \in [Calls -> Basis]
    BY ZenonT(40), <1>9, <2>1 DEF RootsTypeOK, Finish, Cancel, Leave, Forget
  <2>3. since' \in [Calls -> Nat \ {0}]
    BY <1>9 DEF RootsTypeOK, Finish, Cancel, Leave, Forget
  <2> QED BY ZenonT(40), <1>9, <2>2, <2>3 DEF RootsTypeOK, Finish, Cancel, Leave, Forget, client
<1>10. CASE UNCHANGED rootsVars
  BY <1>10 DEF RootsTypeOK, rootsVars, state, client, history
<1> QED
  BY <1>1, <1>2, <1>3, <1>4, <1>5, <1>6, <1>7, <1>8, <1>9, <1>10 DEF RootsNext, CallStep

\* Every reachable state of session(), for all constants, is well typed.
THEOREM RootsTypeCorrect == RootsSpec => []RootsTypeOK
  BY RootsTypeInit, RootsTypeStep, PTL DEF RootsSpec

-----------------------------------------------------------------------------
(* FreshCall.  A call reads either what it asked for itself or the shared   *)
(* session, so the invariant says of both, and of an answer on its way, how *)
(* old the root in it can be.                                               *)

\* An answer was the client's root at some point since the asker began.
FreshAnswer ==
    \A c \in Calls :
        pc[c] = "answered" /\ answer[c] \notin {Silence, Failure}
            => \E n \in since[c] .. Len(told) : answer[c] = told[n]

\* A session that is not stale, and whose last confirmation raced nothing and
\* was answered, names a root reported since the latest handled notification.
FreshSession ==
    pin = None /\ current # None /\ ~stale /\ ~asOf.raced /\ ~asOf.silent
        => \E n \in heard .. Len(told) : current.root = Resolved(told[n])

\* The inductive invariant behind FreshCall.
FreshInv ==
    /\ RootsTypeOK
    /\ ~declared => told = <<NoRoots>>
    /\ \A c \in Calls : since[c] <= heard
    /\ FreshAnswer
    /\ FreshSession
    /\ FreshCall

LEMMA FreshInit == RootsInit => FreshInv
<1> SUFFICES ASSUME RootsInit PROVE FreshInv
  OBVIOUS
<1>1. RootsTypeOK
  BY RootsTypeInit
<1>2. ~declared => told = <<NoRoots>>
  BY DEF RootsInit
<1>3. \A c \in Calls : since[c] <= heard
  <2>1. heard = 1 /\ since = [c \in Calls |-> 1]
    BY DEF RootsInit
  <2>2. \A c \in Calls : since[c] = heard
    BY <2>1
  <2>3. heard \in Nat
    BY <2>1
  <2>4. heard <= heard
    BY <2>3
  <2> QED BY <2>2, <2>4
<1>4. FreshAnswer /\ FreshCall
  BY DEF RootsInit, FreshAnswer, FreshCall
<1>5. FreshSession
  BY DEF RootsInit, FreshSession
<1> QED
  BY <1>1, <1>2, <1>3, <1>4, <1>5 DEF FreshInv

\* A longer report history keeps every earlier witness.
LEMMA WitnessKept ==
    ASSUME RootsTypeOK, NEW r \in Reports, told' = Append(told, r)
    PROVE  /\ Len(told') = Len(told) + 1
           /\ \A n \in 1 .. Len(told) : told'[n] = told[n] /\ n \in 1 .. Len(told')
  BY DEF RootsTypeOK

LEMMA FreshStep == FreshInv /\ [RootsNext]_rootsVars => FreshInv'
<1> SUFFICES ASSUME FreshInv, [RootsNext]_rootsVars PROVE FreshInv'
  OBVIOUS
<1>0. RootsTypeOK /\ RootsTypeOK'
  BY RootsTypeStep DEF FreshInv
<1>h. heard \in Nat /\ 1 <= heard /\ Len(told) \in Nat
  BY <1>0 DEF RootsTypeOK
<1>1. ASSUME NEW r \in Reports, ClientMoves(r) PROVE FreshInv'
  <2>1. /\ Len(told') = Len(told) + 1
        /\ \A n \in 1 .. Len(told) : told'[n] = told[n] /\ n \in 1 .. Len(told')
    BY <1>0, <1>1, WitnessKept DEF ClientMoves
  <2>2. \A i \in Nat \ {0} : \A n \in i .. Len(told) :
            n \in i .. Len(told') /\ told'[n] = told[n]
    BY <1>0, <2>1 DEF RootsTypeOK
  <2>3. FreshAnswer'
    BY <1>0, <1>1, <2>2 DEF FreshInv, FreshAnswer, ClientMoves, state, history, RootsTypeOK
  <2>4. heard \in Nat \ {0}
    BY <1>0 DEF RootsTypeOK
  <2>5. FreshSession'
    BY <1>1, <2>2, <2>4 DEF FreshInv, FreshSession, ClientMoves, state, history, Resolved
  <2>6. FreshCall'
    <3>1. UNCHANGED <<pin, pc, bound, via, since>>
      BY <1>1 DEF ClientMoves, state, history
    <3>2. \A c \in Calls : since[c] \in Nat \ {0}
      BY <1>0 DEF RootsTypeOK
    <3>3. \A c \in Calls : ReadsARootSince(c) => ReadsARootSince(c)'
      BY <2>2, <3>1, <3>2 DEF ReadsARootSince, Resolved
    <3> QED BY <3>1, <3>3 DEF FreshInv, FreshCall
  <2> QED BY <1>0, <1>1, <2>3, <2>5, <2>6 DEF FreshInv, ClientMoves, state, history
<1>2. ASSUME NEW n \in pending, RootsListChanged(n) PROVE FreshInv'
  <2>1. heard \in Nat /\ heard' \in Nat /\ heard <= heard'
    BY <1>0, <1>2 DEF RootsTypeOK, RootsListChanged
  <2>2. \A c \in Calls : since'[c] <= heard'
    BY <1>0, <1>2, <2>1 DEF FreshInv, RootsListChanged, RootsTypeOK
  <2>3. FreshAnswer'
    BY <1>2 DEF FreshInv, FreshAnswer, RootsListChanged
  <2>4. FreshSession'
    BY <1>2 DEF FreshSession, RootsListChanged
  <2>5. FreshCall'
    <3>1. UNCHANGED <<pin, pc, via, since, told, bound>>
      BY <1>2 DEF RootsListChanged
    <3>2. \A c \in Calls : ReadsARootSince(c)' = ReadsARootSince(c)
      BY <3>1 DEF ReadsARootSince, Resolved
    <3> QED BY <3>1, <3>2 DEF FreshInv, FreshCall
  <2> QED BY <1>0, <1>2, <2>2, <2>3, <2>4, <2>5 DEF FreshInv, RootsListChanged
<1>3. ASSUME NEW c \in Calls, ClientAnswers(c) PROVE FreshInv'
  <2>1. Len(told) \in since[c] .. Len(told)
    BY <1>0 DEF FreshInv, RootsTypeOK
  <2>2. FreshAnswer'
    BY <1>0, <1>3, <2>1 DEF FreshInv, FreshAnswer, ClientAnswers, client, history, Present, RootsTypeOK
  <2>3. FreshSession' /\ FreshCall'
    BY <1>0, <1>3 DEF FreshInv, FreshSession, FreshCall, ReadsARootSince, ClientAnswers, client,
        history, Resolved, RootsTypeOK
  <2> QED BY <1>0, <1>3, <2>2, <2>3 DEF FreshInv, ClientAnswers, client, history
<1>4. ASSUME NEW c \in Calls, TakeSession(c) PROVE FreshInv'
  <2>1. \A d \in Calls : since'[d] <= heard'
    BY <1>0, <1>4 DEF FreshInv, TakeSession, RootsTypeOK
  <2>2. FreshAnswer'
    BY <1>0, <1>4 DEF FreshInv, FreshAnswer, TakeSession, client, RootsTypeOK
  <2>3. FreshSession'
    BY <1>4 DEF FreshInv, FreshSession, TakeSession, client, Resolved
  <2>4. FreshCall'
    BY <1>0, <1>4 DEF FreshInv, FreshSession, FreshCall, ReadsARootSince, TakeSession, client,
        Resolved, RootsTypeOK
  <2> QED BY <1>0, <1>4, <2>1, <2>2, <2>3, <2>4 DEF FreshInv, TakeSession, client
<1>5. ASSUME NEW c \in Calls, AskClient(c) PROVE FreshInv'
  <2>1. \A d \in Calls : since'[d] <= heard'
    BY <1>0, <1>5 DEF FreshInv, AskClient, RootsTypeOK
  <2>2. ASSUME ~declared PROVE 1 \in heard .. Len(told) /\ told[1] = NoRoots
    <3>1. told = <<NoRoots>>
      BY <2>2 DEF FreshInv
    <3>2. Len(told) = 1 /\ told[1] = NoRoots
      BY <3>1
    <3> QED BY <1>0, <3>2 DEF RootsTypeOK
  <2>3. FreshAnswer'
    <3>1. UNCHANGED <<told, heard>>
      BY <1>5 DEF AskClient, client
    <3>2. \A d \in Calls \ {c} : pc'[d] = pc[d] /\ answer'[d] = answer[d] /\ since'[d] = since[d]
      BY <1>0, <1>5 DEF AskClient, RootsTypeOK
    <3>3. since'[c] = heard /\ (declared => pc'[c] = "waiting") /\ (~declared => answer'[c] = NoRoots)
      BY <1>0, <1>5 DEF AskClient, RootsTypeOK
    <3>4. pc'[c] = "answered" => \E n \in since'[c] .. Len(told) : answer'[c] = told[n]
      BY <2>2, <3>3
    <3> QED BY <3>1, <3>2, <3>4 DEF FreshInv, FreshAnswer
  <2>4. FreshSession' /\ FreshCall'
    BY <1>0, <1>5 DEF FreshInv, FreshSession, FreshCall, ReadsARootSince, AskClient, client,
        Resolved, RootsTypeOK
  <2> QED BY <1>0, <1>5, <2>1, <2>3, <2>4 DEF FreshInv, AskClient, client
<1>6. ASSUME NEW c \in Calls, AskTimesOut(c) PROVE FreshInv'
  <2>1. FreshAnswer'
    BY <1>0, <1>6 DEF FreshInv, FreshAnswer, AskTimesOut, client, history, RootsTypeOK
  <2>2. FreshSession' /\ FreshCall'
    BY <1>0, <1>6 DEF FreshInv, FreshSession, FreshCall, ReadsARootSince, AskTimesOut, client,
        history, Resolved, RootsTypeOK
  <2> QED BY <1>0, <1>6, <2>1, <2>2 DEF FreshInv, AskTimesOut, client, history
<1>7. ASSUME NEW c \in Calls, ResolveFails(c) PROVE FreshInv'
  <2>1. \A d \in Calls : since'[d] <= heard'
    BY <1>0, <1>h, <1>7 DEF FreshInv, ResolveFails, Forget, RootsTypeOK
  <2>2. FreshAnswer'
    BY <1>0, <1>7 DEF FreshInv, FreshAnswer, ResolveFails, Forget, client, RootsTypeOK
  <2>3. FreshSession' /\ FreshCall'
    BY <1>0, <1>7 DEF FreshInv, FreshSession, FreshCall, ReadsARootSince, ResolveFails, Forget,
        client, Resolved, RootsTypeOK
  <2> QED BY <1>0, <1>7, <2>1, <2>2, <2>3 DEF FreshInv, ResolveFails, client
<1>8. ASSUME NEW c \in Calls, Adopt(c) PROVE FreshInv'
  <2>1. answer[c] # Failure
    BY <1>8, RootsAssumption DEF Adopt, Resolved
  <2>2. answer[c] # Silence => \E n \in since[c] .. Len(told) : answer[c] = told[n]
    BY <1>8, <2>1 DEF FreshInv, FreshAnswer, Adopt
  <2>3. current'.root = Resolved(answer[c])
    BY <1>8 DEF Adopt, Adopted
  <2>4. answer[c] # Silence =>
            \E n \in since[c] .. Len(told) : current'.root = Resolved(told[n])
    BY <2>2, <2>3
  <2>5. asOf' = [raced |-> since[c] # heard, silent |-> answer[c] = Silence]
    BY <1>8 DEF Adopt
  <2>6. UNCHANGED <<told, heard, since, pin, declared>>
    BY <1>8 DEF Adopt, client
  <2>7. FreshSession'
    BY <2>4, <2>5, <2>6 DEF FreshSession, Resolved
  <2>8. FreshAnswer'
    BY SMTT(30), <1>0, <1>8, <2>6 DEF FreshInv, FreshAnswer, Adopt, RootsTypeOK
  <2>9. bound'[c] = current' /\ via'[c] = asOf'
    BY <1>0, <1>8 DEF Adopt, RootsTypeOK
  <2>10. ASSUME ~via'[c].silent PROVE ReadsARootSince(c)'
    <3>1. asOf'.silent = (answer[c] = Silence) /\ ~asOf'.silent
      BY <2>5, <2>9, <2>10
    <3>2. PICK n \in since[c] .. Len(told) : bound'[c].root = Resolved(told[n])
      BY <2>4, <2>9, <3>1
    <3> QED BY <2>6, <3>2 DEF ReadsARootSince, Resolved
  <2>11. \A d \in Calls \ {c} : pc'[d] = pc[d] /\ bound'[d] = bound[d] /\ via'[d] = via[d]
    BY <1>0, <1>8 DEF Adopt, RootsTypeOK
  <2>12. \A d \in Calls \ {c} : ReadsARootSince(d)' = ReadsARootSince(d)
    BY <2>6, <2>11 DEF ReadsARootSince, Resolved
  <2>13. FreshCall'
    BY <2>6, <2>10, <2>11, <2>12 DEF FreshInv, FreshCall
  <2> QED BY <1>0, <2>6, <2>7, <2>8, <2>13 DEF FreshInv
<1>9. ASSUME NEW c \in Calls, Finish(c) \/ Cancel(c) PROVE FreshInv'
  <2>1. \A d \in Calls : since'[d] <= heard'
    <3>1. since' = [since EXCEPT ![c] = 1] /\ heard' = heard
      BY <1>9 DEF Finish, Cancel, Leave, Forget
    <3>2. \A d \in Calls : since'[d] = 1 \/ since'[d] = since[d]
      BY <1>0, <3>1 DEF RootsTypeOK
    <3> QED BY <1>h, <3>1, <3>2 DEF FreshInv
  <2>2. FreshAnswer'
    BY SMTT(30), <1>0, <1>9 DEF FreshInv, FreshAnswer, Finish, Cancel, Leave, Forget, client, RootsTypeOK
  <2>3. FreshSession'
    BY <1>9 DEF FreshInv, FreshSession, Finish, Cancel, Leave, Forget, client, Resolved
  <2>4. FreshCall'
    <3>1. UNCHANGED <<pin, told>> /\ pc'[c] = "idle"
      BY <1>0, <1>9 DEF Finish, Cancel, Leave, client, RootsTypeOK
    <3>2. \A d \in Calls \ {c} : pc'[d] = pc[d] /\ bound'[d] = bound[d]
      BY <1>0, <1>9 DEF Finish, Cancel, Leave, RootsTypeOK
    <3>3. \A d \in Calls \ {c} : via'[d] = via[d] /\ since'[d] = since[d]
      BY <1>0, <1>9 DEF Finish, Cancel, Leave, Forget, RootsTypeOK
    <3>4. \A d \in Calls \ {c} : ReadsARootSince(d)' = ReadsARootSince(d)
      BY <3>1, <3>2, <3>3 DEF ReadsARootSince, Resolved
    <3> QED BY <3>1, <3>2, <3>3, <3>4 DEF FreshInv, FreshCall
  <2> QED BY <1>0, <1>9, <2>1, <2>2, <2>3, <2>4 DEF FreshInv, Finish, Cancel, Leave, client
<1>10. CASE UNCHANGED rootsVars
  BY <1>0, <1>10 DEF FreshInv, FreshAnswer, FreshSession, FreshCall, ReadsARootSince, Resolved,
      rootsVars, state, client, history
<1> QED
  BY <1>1, <1>2, <1>3, <1>4, <1>5, <1>6, <1>7, <1>8, <1>9, <1>10 DEF RootsNext, CallStep

\* A call never reads a root older than a notification handled before it began,
\* unless the session's last confirmation raced a notification or was silent.
THEOREM FreshCallHolds == RootsSpec => []FreshCall
<1>1. FreshInv => FreshCall
  BY DEF FreshInv
<1> QED
  BY FreshInit, FreshStep, <1>1, PTL DEF RootsSpec

-----------------------------------------------------------------------------
(* Pinned servers, and the warm session. *)

\* A pinned session is never stale, so no call gets past the first critical
\* section.
PinInv == RootsTypeOK /\ PinHolds /\ (pin # None => ~stale)

\* A server started with --root keeps it and never asks, whatever the client does.
THEOREM PinHoldsAlways == RootsSpec => []PinHolds
<1>1. RootsInit => PinInv
  BY RootsTypeInit DEF RootsInit, PinInv, PinHolds
<1>2. PinInv /\ [RootsNext]_rootsVars => PinInv'
  <2> SUFFICES ASSUME PinInv, [RootsNext]_rootsVars PROVE PinInv'
    OBVIOUS
  <2>1. RootsTypeOK /\ RootsTypeOK'
    BY RootsTypeStep DEF PinInv
  <2>2. CASE pin = None
    <3>1. pin' = pin
      BY DEF RootsNext, CallStep, rootsVars, state, ClientMoves, RootsListChanged, ClientAnswers, TakeSession,
          AskClient, AskTimesOut, ResolveFails, Adopt, Finish, Cancel, Leave
    <3> QED BY <2>1, <2>2, <3>1 DEF PinInv, PinHolds
  <2>3. CASE pin # None
    <3>1. ASSUME NEW r \in Reports, ClientMoves(r) PROVE PinInv'
      BY <2>1, <3>1 DEF PinInv, PinHolds, ClientMoves, state
    <3>2. ASSUME NEW n \in pending, RootsListChanged(n) PROVE PinInv'
      BY <2>1, <2>3, <3>2 DEF PinInv, PinHolds, RootsListChanged
    <3>3. ASSUME NEW c \in Calls, TakeSession(c) PROVE PinInv'
      BY <2>1, <3>3 DEF PinInv, PinHolds, TakeSession, RootsTypeOK
    <3>4. ASSUME NEW c \in Calls, Finish(c) \/ Cancel(c) PROVE PinInv'
      BY <2>1, <3>4 DEF PinInv, PinHolds, Finish, Cancel, Leave, RootsTypeOK
    <3>5. ASSUME NEW c \in Calls, AskClient(c) PROVE FALSE
      BY <2>1, <2>3, <3>5, RootsAssumption DEF PinInv, PinHolds, AskClient, RootsTypeOK, Session
    <3>6. ASSUME NEW c \in Calls,
                 ClientAnswers(c) \/ AskTimesOut(c) \/ ResolveFails(c) \/ Adopt(c)
          PROVE  FALSE
      BY <2>3, <3>6 DEF PinInv, PinHolds, ClientAnswers, AskTimesOut, ResolveFails, Adopt
    <3>7. CASE UNCHANGED rootsVars
      BY <2>1, <3>7 DEF PinInv, PinHolds, rootsVars, state
    <3> QED BY <3>1, <3>2, <3>3, <3>4, <3>5, <3>6, <3>7 DEF RootsNext, CallStep
  <2> QED BY <2>2, <2>3
<1>3. PinInv => PinHolds
  BY DEF PinInv
<1> QED
  BY <1>1, <1>2, <1>3, PTL DEF RootsSpec

\* Only a move of the root replaces the session and the snapshot in it.
THEOREM WarmKeptAlways == RootsSpec => WarmKept
<1>1. [RootsNext]_rootsVars =>
        [current # None /\ current' # current => current'.root # current.root]_current
  <2> SUFFICES ASSUME [RootsNext]_rootsVars, current # None, current' # current
               PROVE  current'.root # current.root
    OBVIOUS
  <2>1. PICK c \in Calls : Adopt(c)
    BY DEF RootsNext, CallStep, rootsVars, state, ClientMoves, RootsListChanged, ClientAnswers, TakeSession,
        AskClient, AskTimesOut, ResolveFails, Finish, Cancel, Leave
  <2> QED BY <2>1 DEF Adopt, Adopted
<1> QED
  BY <1>1, PTL DEF RootsSpec, WarmKept

-----------------------------------------------------------------------------
(* What becomes of the calls. *)

LEMMA LifeTypeInit == Init => TypeOK
<1> SUFFICES ASSUME Init PROVE TypeOK
  OBVIOUS
<1>1. req \in [Requests -> Stages]
  BY DEF Init, Stages
<1>2. \A r \in Listings : req[r] = "unsent"
  BY RequestsAssumption DEF Init
<1>3. \A r \in Listings : req[r] \notin {"entered", "running", "ended"}
  BY <1>2
<1>4. /\ closed \in BOOLEAN /\ up \in BOOLEAN
      /\ input \in {"open", "grace", "poll", "ended"}
      /\ cancelled \subseteq Requests /\ late \subseteq Tools
  BY DEF Init
<1>5. inflight \in Int
  BY DEF Init
<1> QED
  BY <1>1, <1>3, <1>4, <1>5 DEF TypeOK

LEMMA LifeTypeStep == TypeOK /\ [Next]_vars => TypeOK'
<1> SUFFICES ASSUME TypeOK, [Next]_vars PROVE TypeOK'
  OBVIOUS
<1> USE DEF Moves, Stages, Tools
<1>1. ASSUME NEW r \in Requests, RequestStep(r) PROVE TypeOK'
  <2>1. ASSUME Read(r) PROVE TypeOK'
    BY <2>1, RequestsAssumption DEF TypeOK, Read
  <2>2. ASSUME WriteReply(r) PROVE TypeOK'
    BY <2>2, RequestsAssumption DEF TypeOK, WriteReply
  <2>3. ASSUME ListTools(r) PROVE TypeOK'
    BY <2>3, RequestsAssumption DEF TypeOK, ListTools
  <2>4. ASSUME Enter(r) PROVE TypeOK'
    BY <2>4, RequestsAssumption DEF TypeOK, Enter
  <2>5. ASSUME LogStart(r) PROVE TypeOK'
    BY <2>5, RequestsAssumption DEF TypeOK, LogStart
  <2>6. ASSUME LogEnd(r) PROVE TypeOK'
    BY <2>6, RequestsAssumption DEF TypeOK, LogEnd
  <2>7. ASSUME Return(r) PROVE TypeOK'
    BY <2>7, RequestsAssumption DEF TypeOK, Return
  <2>8. ASSUME DropTask(r) PROVE TypeOK'
    BY <2>8, RequestsAssumption DEF TypeOK, DropTask
  <2> QED BY <1>1, <2>1, <2>2, <2>3, <2>4, <2>5, <2>6, <2>7, <2>8 DEF RequestStep
<1>2. ASSUME NEW r \in Requests, Send(r) \/ ReadCancel(r) PROVE TypeOK'
  BY <1>2, RequestsAssumption DEF TypeOK, Send, ReadCancel
<1>3. ASSUME CloseStdin \/ InputEnds \/ TimerFires PROVE TypeOK'
  BY <1>3 DEF TypeOK, CloseStdin, InputEnds, TimerFires
<1>4. ASSUME Stop PROVE TypeOK'
  BY <1>4, RequestsAssumption DEF TypeOK, Stop
<1>5. ASSUME UNCHANGED vars PROVE TypeOK'
  BY <1>5 DEF TypeOK, vars
<1> QED BY <1>1, <1>2, <1>3, <1>4, <1>5 DEF Next

\* Every variable of the request lifecycle keeps its type, and a listing never
\* holds the guard that only call_tool takes.
THEOREM LifeTypeCorrect == Spec => []TypeOK
  BY LifeTypeInit, LifeTypeStep, PTL DEF Spec

-----------------------------------------------------------------------------
(* The count. *)

LEMMA HeldFinite == IsFiniteSet(Held) /\ Cardinality(Held) \in Nat
<1>1. Held \subseteq Requests
  BY DEF Held, Tools
<1> QED
  BY <1>1, RequestsAssumption, FS_Subset, FS_CardinalityType

\* One handler joins those at work, or one leaves, or they stay the same: all
\* that a step can do to Held, with what it does to the count.
HeldStep ==
    \/ Held' = Held /\ inflight' = inflight
    \/ \E r \in Tools \ Held : Held' = Held \cup {r} /\ inflight' = inflight + 1
    \/ \E r \in Held : Held' = Held \ {r} /\ inflight' = inflight - 1

\* A step that keeps every handler on the same side of Held keeps Held.
LEMMA HeldSame ==
    ASSUME \A x \in Tools : req'[x] \in {"entered", "running", "ended"}
                              <=> req[x] \in {"entered", "running", "ended"}
    PROVE  Held' = Held
  BY DEF Held

LEMMA HeldSteps == TypeOK /\ [Next]_vars => HeldStep
<1> SUFFICES ASSUME TypeOK, [Next]_vars PROVE HeldStep
  OBVIOUS
<1> USE DEF Moves
<1>1. ASSUME NEW r \in Requests, Read(r) \/ WriteReply(r) \/ Send(r) PROVE HeldStep
  <2>1. Held' = Held
    BY <1>1, HeldSame DEF TypeOK, Read, WriteReply, Send, Tools
  <2> QED BY <1>1, <2>1 DEF HeldStep, Read, WriteReply, Send
<1>2. ASSUME NEW r \in Requests, ListTools(r) PROVE HeldStep
  <2>1. Held' = Held
    BY <1>2, HeldSame DEF TypeOK, ListTools, Tools
  <2> QED BY <1>2, <2>1 DEF HeldStep, ListTools
<1>3. ASSUME NEW r \in Requests, Enter(r) PROVE HeldStep
  <2>1. r \in Tools \ Held /\ Held' = Held \cup {r}
    BY <1>3 DEF TypeOK, Held, Enter, Tools
  <2> QED BY <1>3, <2>1 DEF HeldStep, Enter
<1>4. ASSUME NEW r \in Requests, LogStart(r) \/ LogEnd(r) PROVE HeldStep
  <2>1. Held' = Held
    BY <1>4, HeldSame DEF TypeOK, LogStart, LogEnd, Tools
  <2> QED BY <1>4, <2>1 DEF HeldStep, LogStart, LogEnd
<1>5. ASSUME NEW r \in Requests, Return(r) PROVE HeldStep
  <2>1. r \in Held /\ Held' = Held \ {r}
    BY <1>5 DEF TypeOK, Held, Return, Tools
  <2> QED BY <1>5, <2>1 DEF HeldStep, Return
<1>6. ASSUME NEW r \in Requests, DropTask(r) PROVE HeldStep
  <2>1. CASE req[r] = "read"
    BY <1>6, <2>1 DEF TypeOK, HeldStep, Held, DropTask
  <2>2. CASE req[r] = "running"
    <3>1. r \in Held /\ Held' = Held \ {r}
      BY <1>6, <2>2 DEF TypeOK, Held, DropTask, Tools
    <3> QED BY <1>6, <2>2, <3>1 DEF HeldStep, DropTask
  <2> QED BY <1>6, <2>1, <2>2 DEF DropTask
<1>7. ASSUME NEW r \in Requests, ReadCancel(r) PROVE HeldStep
  BY <1>7 DEF HeldStep, Held, ReadCancel
<1>8. ASSUME CloseStdin \/ InputEnds \/ TimerFires \/ UNCHANGED vars PROVE HeldStep
  BY <1>8 DEF HeldStep, Held, CloseStdin, InputEnds, TimerFires, vars
<1>9. ASSUME Stop PROVE HeldStep
  <2>1. Held' = Held
    BY <1>9, HeldSame DEF TypeOK, Stop, Tools
  <2> QED BY <1>9, <2>1 DEF HeldStep, Stop
<1> QED
  BY <1>1, <1>2, <1>3, <1>4, <1>5, <1>6, <1>7, <1>8, <1>9 DEF Next, RequestStep

\* `inflight` is the number of handlers at work, however the others left.
THEOREM InflightCountsAlways == Spec => []InflightCounts
<1>1. Init => InflightCounts
  <2> SUFFICES ASSUME Init PROVE inflight = Cardinality(Held)
    BY DEF InflightCounts
  <2>1. Held = {}
    BY DEF Init, Held, Tools
  <2> QED BY <2>1, FS_EmptySet DEF Init
<1>2. TypeOK /\ InflightCounts /\ [Next]_vars => InflightCounts'
  <2> SUFFICES ASSUME TypeOK, InflightCounts, [Next]_vars PROVE inflight' = Cardinality(Held')
    BY DEF InflightCounts
  <2>1. HeldStep /\ IsFiniteSet(Held) /\ Cardinality(Held) \in Nat
    BY HeldSteps, HeldFinite
  <2>2. CASE Held' = Held /\ inflight' = inflight
    BY <2>2 DEF InflightCounts
  <2>3. ASSUME NEW r \in Tools \ Held, Held' = Held \cup {r}, inflight' = inflight + 1
        PROVE  inflight' = Cardinality(Held')
    BY <2>1, <2>3, FS_AddElement DEF InflightCounts
  <2>4. ASSUME NEW r \in Held, Held' = Held \ {r}, inflight' = inflight - 1
        PROVE  inflight' = Cardinality(Held')
    BY <2>1, <2>4, FS_RemoveElement DEF InflightCounts
  <2> QED BY <2>1, <2>2, <2>3, <2>4 DEF HeldStep
<1> QED
  BY <1>1, <1>2, LifeTypeInit, LifeTypeStep, PTL DEF Spec

-----------------------------------------------------------------------------
(* The invocation log. *)

LogInv == TypeOK /\ log \in [Requests -> Seq(Outcomes \cup {"tool_start"})] /\ LogBalanced

\* A step that moves one request and leaves the other requests' records alone
\* keeps the log balanced when it keeps that request's records so.
LogKept(r) ==
    /\ \A x \in Tools \ {r} : req'[x] = req[x] /\ log'[x] = log[x]
    /\ r \in Tools =>
          /\ req'[r] \in {"unsent", "sent", "read", "entered"} => log'[r] = <<>>
          /\ req'[r] = "running" => log'[r] = <<"tool_start">>
          /\ req'[r] \in {"ended", "returned", "answered"} =>
                \E o \in Outcomes \ {"cancelled_or_dropped"} : log'[r] = <<"tool_start", o>>
          /\ req'[r] = "lost" =>
                log'[r] = <<>> \/ \E o \in Outcomes : log'[r] = <<"tool_start", o>>

LEMMA AppendPair == ASSUME NEW S, NEW a \in S, NEW b \in S PROVE Append(<<a>>, b) = <<a, b>>
<1>1. <<a>> \in Seq(S) /\ Len(<<a>>) = 1
  OBVIOUS
<1>2. Append(<<a>>, b) \in Seq(S) /\ Len(Append(<<a>>, b)) = 2
  BY <1>1
<1>3. Append(<<a>>, b)[1] = a /\ Append(<<a>>, b)[2] = b
  BY <1>1
<1>4. <<a, b>> \in Seq(S) /\ Len(<<a, b>>) = 2 /\ <<a, b>>[1] = a /\ <<a, b>>[2] = b
  OBVIOUS
<1>5. \A i \in 1 .. Len(Append(<<a>>, b)) : Append(<<a>>, b)[i] = <<a, b>>[i]
  <2> SUFFICES ASSUME NEW i \in {1, 2} PROVE Append(<<a>>, b)[i] = <<a, b>>[i]
    BY <1>2
  <2> QED BY <1>3, <1>4
<1> QED BY <1>2, <1>4, <1>5, SeqEqual

LEMMA LogKeptBalances == ASSUME LogBalanced, NEW r \in Requests, LogKept(r) PROVE LogBalanced'
  BY DEF LogBalanced, LogKept

LEMMA LogStep == LogInv /\ [Next]_vars => LogInv'
<1> SUFFICES ASSUME LogInv, [Next]_vars PROVE LogInv'
  OBVIOUS
<1>0. TypeOK /\ TypeOK' /\ LogBalanced /\ log \in [Requests -> Seq(Outcomes \cup {"tool_start"})]
  BY LifeTypeStep DEF LogInv
<1>t. Tools \subseteq Requests
  BY DEF Tools
<1> USE DEF Moves
<1>1. ASSUME NEW r \in Requests,
             Read(r) \/ WriteReply(r) \/ ListTools(r) \/ Enter(r) \/ Return(r) \/ Send(r)
      PROVE  LogInv'
  <2>1. log' = log
    BY <1>1 DEF Read, WriteReply, ListTools, Enter, Return, Send
  <2>2. \A x \in Tools \ {r} : req'[x] = req[x]
    BY <1>0, <1>t, <1>1 DEF TypeOK, Read, WriteReply, ListTools, Enter, Return, Send
  <2>3. ASSUME r \in Tools
        PROVE  \/ req'[r] \in {"sent", "read", "entered"} /\ log[r] = <<>>
               \/ /\ req'[r] \in {"returned", "answered", "lost"}
                  /\ \E o \in Outcomes \ {"cancelled_or_dropped"} : log[r] = <<"tool_start", o>>
    BY <1>0, <1>1, <2>3 DEF TypeOK, LogBalanced, Read, WriteReply, ListTools, Enter, Return, Send,
        Tools
  <2>4. LogKept(r)
    BY <2>1, <2>2, <2>3 DEF LogKept
  <2> QED BY <1>0, <2>1, <2>4, LogKeptBalances DEF LogInv
<1>2. ASSUME NEW r \in Requests, LogStart(r) PROVE LogInv'
  <2>1. log[r] = <<>> /\ log'[r] = Append(log[r], "tool_start") /\ req'[r] = "running"
    BY <1>0, <1>2 DEF TypeOK, LogBalanced, LogStart
  <2>2. log'[r] = <<"tool_start">>
    BY <2>1
  <2>3. \A x \in Tools \ {r} : req'[x] = req[x] /\ log'[x] = log[x]
    BY <1>0, <1>t, <1>2 DEF TypeOK, LogStart
  <2>4. LogKept(r)
    BY <2>1, <2>2, <2>3 DEF LogKept
  <2>5. log' \in [Requests -> Seq(Outcomes \cup {"tool_start"})]
    BY <1>0, <1>2 DEF LogStart
  <2> QED BY <1>0, <2>4, <2>5, LogKeptBalances DEF LogInv
<1>3. ASSUME NEW r \in Requests, LogEnd(r) PROVE LogInv'
  <2>1. PICK o \in Outcomes \ {"cancelled_or_dropped"} : log' = [log EXCEPT ![r] = Append(@, o)]
    BY <1>3 DEF LogEnd, Outcomes
  <2>2. log[r] = <<"tool_start">> /\ req'[r] = "ended"
    BY <1>0, <1>3 DEF TypeOK, LogBalanced, LogEnd
  <2>3. log'[r] = Append(<<"tool_start">>, o)
    BY <1>0, <2>1, <2>2
  <2>4. log'[r] = <<"tool_start", o>>
    BY <2>3, AppendPair, o \in Outcomes \cup {"tool_start"}
  <2>5. \A x \in Tools \ {r} : req'[x] = req[x] /\ log'[x] = log[x]
    BY <1>0, <1>t, <1>3, <2>1 DEF TypeOK, LogEnd
  <2>6. LogKept(r)
    BY <2>2, <2>4, <2>5 DEF LogKept
  <2>7. log' \in [Requests -> Seq(Outcomes \cup {"tool_start"})]
    BY <1>0, <2>1
  <2> QED BY <1>0, <2>6, <2>7, LogKeptBalances DEF LogInv
<1>4. ASSUME NEW r \in Requests, DropTask(r) PROVE LogInv'
  <2>1. req'[r] = "lost" /\ \A x \in Tools \ {r} : req'[x] = req[x]
    BY <1>0, <1>t, <1>4 DEF TypeOK, DropTask
  <2>2. CASE req[r] = "read"
    <3>1. log' = log
      BY <1>4, <2>2 DEF DropTask
    <3>2. r \in Tools => log[r] = <<>>
      BY <1>0, <2>2 DEF LogBalanced
    <3>3. LogKept(r)
      BY <2>1, <3>1, <3>2 DEF LogKept
    <3> QED BY <1>0, <3>1, <3>3, LogKeptBalances DEF LogInv
  <2>3. CASE req[r] = "running"
    <3>1. r \in Tools
      BY <1>0, <2>3 DEF TypeOK, Tools
    <3>2. log' = [log EXCEPT ![r] = Append(@, "cancelled_or_dropped")]
      BY <1>4, <2>3 DEF DropTask
    <3>3. log[r] = <<"tool_start">>
      BY <1>0, <2>3, <3>1 DEF LogBalanced
    <3>4. log'[r] = Append(<<"tool_start">>, "cancelled_or_dropped")
      BY <1>0, <3>2, <3>3
    <3>5. log'[r] = <<"tool_start", "cancelled_or_dropped">>
      BY <3>4, AppendPair, "cancelled_or_dropped" \in Outcomes \cup {"tool_start"} DEF Outcomes
    <3>6. "cancelled_or_dropped" \in Outcomes
      BY DEF Outcomes
    <3>7. \A x \in Tools \ {r} : log'[x] = log[x]
      BY <1>0, <1>t, <3>2
    <3>8. LogKept(r)
      BY <2>1, <3>5, <3>6, <3>7 DEF LogKept
    <3>9. log' \in [Requests -> Seq(Outcomes \cup {"tool_start"})]
      BY <1>0, <3>2, <3>6
    <3> QED BY <1>0, <3>8, <3>9, LogKeptBalances DEF LogInv
  <2> QED BY <1>4, <2>2, <2>3 DEF DropTask
<1>5. ASSUME Stop PROVE LogInv'
  <2>1. log' = log
    BY <1>5 DEF Stop
  <2>2. \A x \in Tools : req'[x] = req[x] \/ (req[x] = "returned" /\ req'[x] = "lost")
    BY <1>t, <1>5 DEF Stop
  <2>3. LogBalanced'
    BY <1>0, <2>1, <2>2 DEF LogBalanced
  <2> QED BY <1>0, <2>1, <2>3 DEF LogInv
<1>6. ASSUME NEW r \in Requests, ReadCancel(r) PROVE LogInv'
  BY <1>0, <1>6 DEF LogInv, LogBalanced, ReadCancel
<1>7. ASSUME CloseStdin \/ InputEnds \/ TimerFires \/ UNCHANGED vars PROVE LogInv'
  BY <1>0, <1>7 DEF LogInv, LogBalanced, CloseStdin, InputEnds, TimerFires, vars
<1> QED
  BY <1>1, <1>2, <1>3, <1>4, <1>5, <1>6, <1>7 DEF Next, RequestStep

LEMMA LogInit == Init => LogInv
<1> SUFFICES ASSUME Init PROVE LogInv
  OBVIOUS
<1>1. \A r \in Tools : req[r] = "unsent" /\ log[r] = <<>>
  BY DEF Init, Tools
<1>2. log \in [Requests -> Seq(Outcomes \cup {"tool_start"})]
  BY DEF Init
<1> QED
  BY <1>1, <1>2, LifeTypeInit DEF LogInv, LogBalanced

\* One tool_start per started call, and one tool_end after it: the record is
\* there before the reply, and a dropped handler leaves one too.
THEOREM LogBalancedAlways == Spec => []LogBalanced
<1>1. LogInv => LogBalanced
  BY DEF LogInv
<1> QED
  BY LogInit, LogStep, <1>1, PTL DEF Spec

-----------------------------------------------------------------------------
(* No handler that started in time is dropped. *)

\* Once the end of input is passed on, only handlers that started after it can
\* be at work; the service loop stops no earlier.
LateInv ==
    /\ LogInv
    /\ InflightCounts
    /\ ~up => input = "ended"
    /\ input = "ended" => Held \subseteq late
    /\ HeldToTheEnd

LEMMA LateStep == LateInv /\ InflightCounts' /\ [Next]_vars => LateInv'
<1> SUFFICES ASSUME LateInv, InflightCounts', [Next]_vars PROVE LateInv'
  OBVIOUS
<1>0. TypeOK /\ LogInv /\ LogInv'
  BY LogStep DEF LateInv, LogInv
<1>t. Tools \subseteq Requests
  BY DEF Tools
<1>1. late \subseteq late'
  BY DEF Next, RequestStep, Read, WriteReply, ListTools, Enter, LogStart, LogEnd, Return, DropTask,
      Send, ReadCancel, CloseStdin, InputEnds, TimerFires, Stop, vars
<1>2. ~up' => input' = "ended"
  BY DEF LateInv, Next, RequestStep, Read, WriteReply, ListTools, Enter, LogStart, LogEnd, Return,
      DropTask, Send, ReadCancel, CloseStdin, InputEnds, TimerFires, Stop, vars
<1>3. input' = "ended" => Held' \subseteq late'
  <2> SUFFICES ASSUME input' = "ended" PROVE Held' \subseteq late'
    OBVIOUS
  <2>1. CASE input = "ended"
    <3>1. CASE \E r \in Requests : Enter(r)
      <4>1. PICK r \in Requests : Enter(r)
        BY <3>1
      <4>2. Held' \subseteq Held \cup {r} /\ r \in late'
        BY <1>0, <1>t, <2>1, <4>1 DEF TypeOK, Held, Enter, Moves
      <4> QED BY <1>1, <2>1, <4>2 DEF LateInv
    <3>2. CASE ~ \E r \in Requests : Enter(r)
      <4>1. HeldStep
        BY <1>0, HeldSteps
      <4>2. \A x \in Tools : x \in Held' => x \in Held
        BY ZenonT(40), <1>0, <1>t, <3>2 DEF TypeOK, Held, Moves, Next, RequestStep, Read, WriteReply, ListTools,
            LogStart, LogEnd, Return, DropTask, Send, ReadCancel, CloseStdin, InputEnds,
            TimerFires, Stop, vars
      <4>3. Held' \subseteq Held
        BY <4>2 DEF Held
      <4> QED BY <1>1, <2>1, <4>3 DEF LateInv
    <3> QED BY <3>1, <3>2
  <2>2. CASE input # "ended"
    <3>1. TimerFires
      BY <2>2 DEF Next, RequestStep, Read, WriteReply, ListTools, Enter, LogStart, LogEnd, Return,
          DropTask, Send, ReadCancel, CloseStdin, InputEnds, Stop, vars
    <3>2. inflight = 0
      BY <3>1, <2>2 DEF TimerFires
    <3>3. Held = {}
      BY <3>2, HeldFinite, FS_EmptySet DEF LateInv, InflightCounts
    <3>4. Held' = Held
      BY <3>1 DEF TimerFires, Held
    <3> QED BY <3>3, <3>4
  <2> QED BY <2>1, <2>2
<1>4. HeldToTheEnd'
  <2> SUFFICES ASSUME NEW x \in Tools, log'[x] = <<"tool_start", "cancelled_or_dropped">>
               PROVE  x \in late'
    BY DEF HeldToTheEnd
  <2>1. CASE log'[x] = log[x]
    BY <1>1, <2>1 DEF LateInv, HeldToTheEnd
  <2>2. CASE log'[x] # log[x]
    <3>1. req'[x] = "lost"
      <4>1. req'[x] \in {"running", "ended", "lost"}
        BY ZenonT(40), <1>0, <1>t, <2>2 DEF TypeOK, Moves, Next, RequestStep, Read, WriteReply, ListTools, Enter,
            LogStart, LogEnd, Return, DropTask, Send, ReadCancel, CloseStdin, InputEnds,
            TimerFires, Stop, vars, LogInv
      <4>2. req'[x] # "running"
        <5>1. Len(log'[x]) = 2
          OBVIOUS
        <5>2. req'[x] = "running" => log'[x] = <<"tool_start">>
          BY <1>0 DEF LogInv, LogBalanced
        <5>3. Len(<<"tool_start">>) = 1
          OBVIOUS
        <5> QED BY <5>1, <5>2, <5>3
      <4>3. req'[x] # "ended"
        BY <1>0 DEF LogInv, LogBalanced
      <4> QED BY <4>1, <4>2, <4>3
    <3>2. DropTask(x) /\ req[x] = "running"
      BY ZenonT(40), <1>0, <1>t, <2>2, <3>1 DEF TypeOK, Moves, Next, RequestStep, Read, WriteReply, ListTools,
          Enter, LogStart, LogEnd, Return, DropTask, Send, ReadCancel, CloseStdin, InputEnds,
          TimerFires, Stop, vars, LogInv
    <3>3. x \in Held /\ input = "ended"
      BY <3>2 DEF Held, DropTask, LateInv
    <3> QED BY <1>1, <3>3 DEF LateInv
  <2> QED BY <2>1, <2>2
<1> QED
  BY <1>0, <1>2, <1>3, <1>4 DEF LateInv

\* DrainingStdin holds the end of input back for every handler that has started:
\* none of them is dropped in the middle of its work.
THEOREM HeldToTheEndAlways == Spec => []HeldToTheEnd
<1>1. Init /\ InflightCounts => LateInv
  <2> SUFFICES ASSUME Init, InflightCounts PROVE LateInv
    OBVIOUS
  <2>1. \A r \in Tools : log[r] = <<>>
    BY DEF Init, Tools
  <2>2. HeldToTheEnd
    BY <2>1 DEF HeldToTheEnd
  <2> QED BY <2>2, LogInit DEF LateInv, Init
<1>2. LateInv => HeldToTheEnd
  BY DEF LateInv
<1> QED
  BY <1>1, <1>2, LateStep, InflightCountsAlways, PTL DEF Spec
=============================================================================
