---------------------------- MODULE TrialLedger ----------------------------
(* What a directory of trials promises whoever pays for them, whichever     *)
(* program fills it and however often it is started again: a trial may be   *)
(* tried several times, at most one of its tries is ever accepted, that is  *)
(* the newest one, and an accepted trial is neither tried again nor lost.   *)
EXTENDS Naturals

CONSTANT Trials

VARIABLES tries,        \* how often each trial was started
          accepted      \* the numbers of its tries that count as completed

vars == <<tries, accepted>>

Init == /\ tries = [t \in Trials |-> 0]
        /\ accepted = [t \in Trials |-> {}]

Try(t) == /\ accepted[t] = {}
          /\ tries' = [tries EXCEPT ![t] = @ + 1]
          /\ UNCHANGED accepted

Accept(t) == /\ tries[t] > 0
             /\ accepted[t] = {}
             /\ accepted' = [accepted EXCEPT ![t] = {tries[t]}]
             /\ UNCHANGED tries

Next == \E t \in Trials : Try(t) \/ Accept(t)

Spec == Init /\ [][Next]_vars
=============================================================================
