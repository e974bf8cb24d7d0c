------------------------------ MODULE GradedRun ------------------------------
(***************************************************************************)
(* The life of a score.  Each trial's model writes a reply; the comparison *)
(* runner grades it into run.json (comparison_runner.py) and the quality   *)
(* pass reports it (quality_pass.report).  Later the grader is repaired,   *)
(* which this model sees as another definition table for each corpus, and  *)
(* regrade.py rescores the archived trials in place: one run.json after    *)
(* the other, and the list of what changed only at the end.  A regrade may *)
(* die between any two of these writes.                                    *)
(*                                                                         *)
(* Trials  the trials of the run, in the order of their directories        *)
(* Asked   the question of each: its gold, whether it is an answer set,    *)
(*         and the corpus it is asked of                                   *)
(* Tables  one entry per version of the grader: for each corpus, the files *)
(*         that define each name                                           *)
(* Pieces of text (Segments), the longest reply of each trial (MaxReply)   *)
(* the regrades that are started (MaxRegrades) and those that die          *)
(* (MaxDeaths) are bounded.                                                *)
(***************************************************************************)
EXTENDS Answers

CONSTANTS Trials, Asked, Tables, Regrades, Segments, MaxReply,
          MaxRegrades, MaxDeaths

ASSUME GradedRunAssumption ==
    /\ IsFiniteSet(Trials) /\ Trials = 1..Cardinality(Trials)
    /\ DOMAIN Tables = 1..Len(Tables) /\ Len(Tables) \in Nat \ {0}
    /\ \A t \in Trials : Asked[t].corpus \in DOMAIN Tables[1]
    /\ Regrades \subseteq DOMAIN Tables[1]
    /\ {MaxRegrades, MaxDeaths} \subseteq Nat

VARIABLES reply,    \* the text each trial's model has written
          run,      \* run.json of each trial that ended: its scores
          version,  \* the grader in use
          regrade,  \* the regrade that runs: its corpus, where it is, its changes
          ledger,   \* regrade.json: the changes of each regrade that finished
          frozen,   \* the credit each trial was first given
          deaths

gradeVars == <<reply, run, version, regrade, ledger, frozen, deaths>>

NoScore == [credit |-> -1, before |-> -1, resolved |-> FALSE, strict |-> FALSE]
NoRegrade == [corpus |-> "none", at |-> 0, changes |-> <<>>]
Ended == {t \in Trials : run[t] # NoScore}

GradeInit ==
    /\ reply = [t \in Trials |-> <<>>]
    /\ run = [t \in Trials |-> NoScore]
    /\ version = 1 /\ regrade = NoRegrade /\ ledger = <<>>
    /\ frozen = [t \in Trials |-> -1]
    /\ deaths = 0

-----------------------------------------------------------------------------
ResolvedCredit(t, corpus) ==
    Credit(AnswerJson(reply[t]), Asked[t].gold, Tables[version][corpus])

Current == CHOOSE t \in Trials \ Ended : \A u \in Trials \ Ended : t <= u

(* The model writes one more piece of its reply. *)
Writes(segment) ==
    /\ Ended # Trials /\ Len(reply[Current]) < MaxReply[Current]
    /\ reply' = [reply EXCEPT ![Current] = Append(@, segment)]
    /\ UNCHANGED <<run, version, regrade, ledger, frozen, deaths>>

(* The runner grades the reply: v3 for the strict score, and the quality   *)
(* pass over the question's own corpus.                                    *)
EndTrial ==
    /\ Ended # Trials
    /\ LET t == Current
       IN \E credit \in {ResolvedCredit(t, Asked[t].corpus)},
             strict \in {GradeAnswer(StrictV3(reply[t]), Asked[t].gold, Asked[t].set)} :
             /\ run' = [run EXCEPT ![t] = [credit |-> credit, before |-> -1,
                                           resolved |-> credit = Full,
                                           strict |-> strict.correct /\ strict.format]]
             /\ frozen' = [frozen EXCEPT ![t] = credit]
    /\ UNCHANGED <<reply, version, regrade, ledger, deaths>>

(* Someone repairs the grader. *)
Repair ==
    /\ Ended = Trials /\ regrade = NoRegrade /\ version < Len(Tables)
    /\ version' = version + 1
    /\ UNCHANGED <<reply, run, regrade, ledger, frozen, deaths>>

-----------------------------------------------------------------------------
RegradeStarts(corpus) ==
    /\ Ended = Trials /\ regrade = NoRegrade /\ Len(ledger) + deaths < MaxRegrades
    /\ regrade' = [corpus |-> corpus, at |-> 1, changes |-> <<>>]
    /\ UNCHANGED <<reply, run, version, ledger, frozen, deaths>>

(* The trials of a regrade that are rewritten. *)
Moved(t) == reply[t] # <<>> /\ run[t].credit # ResolvedCredit(t, regrade.corpus)

(* A change that is read after the state was updated. *)
ChangeLate(t) == [trial |-> t, from |-> ResolvedCredit(t, regrade.corpus),
                  to |-> ResolvedCredit(t, regrade.corpus)]

Change(t) == [trial |-> t, from |-> run[t].credit, to |-> ResolvedCredit(t, regrade.corpus)]

RegradeTrial ==
    /\ regrade # NoRegrade /\ regrade.at \in Trials
    /\ LET t == regrade.at
       IN \E change \in {Change(t)} :
          IF Moved(t)
          THEN /\ run' = [run EXCEPT ![t] = [credit |-> change.to, before |-> change.from,
                                              resolved |-> change.to = Full,
                                              strict |-> run[t].strict]]
               /\ regrade' = [regrade EXCEPT !.at = t + 1, !.changes = Append(@, change)]
          ELSE regrade' = [regrade EXCEPT !.at = t + 1] /\ UNCHANGED run
    /\ UNCHANGED <<reply, version, ledger, frozen, deaths>>

RegradeEnds ==
    /\ regrade # NoRegrade /\ regrade.at \notin Trials
    /\ ledger' = Append(ledger, regrade.changes)
    /\ regrade' = NoRegrade
    /\ UNCHANGED <<reply, run, version, frozen, deaths>>

RegradeDies ==
    /\ regrade # NoRegrade /\ deaths < MaxDeaths
    /\ regrade' = NoRegrade /\ deaths' = deaths + 1
    /\ UNCHANGED <<reply, run, version, ledger, frozen>>

GradeNext ==
    \/ \E segment \in Segments : Writes(segment)
    \/ EndTrial
    \/ Repair
    \/ \E corpus \in Regrades : RegradeStarts(corpus)
    \/ RegradeTrial
    \/ RegradeEnds
    \/ RegradeDies

-----------------------------------------------------------------------------
(* What the report counts an answer under (quality_pass.report).  A reply  *)
(* without an answer reads as null, and so as a refusal to answer.         *)
ReportRow(got, score, strict) ==
    LET empty == got \in {Null, Listed(<<>>)}
    IN [strict |-> strict, resolved |-> score = Full, notation |-> score = Full /\ ~strict,
        declined |-> score < Full /\ empty, fabricated |-> score < Full /\ ~empty]
Reported(t) ==
    ReportRow(AnswerJson(reply[t]), ResolvedCredit(t, Asked[t].corpus),
              GradeAnswer(StrictV3(reply[t]), Asked[t].gold, Asked[t].set).correct)

(* What the notation diagnostic counts as resolved beyond the strict score. *)
NotationResolved(t) == SameNotation(FencedAnswer(reply[t]), Asked[t].gold)

(* The tokens and the files that the text of a value spells. *)
Named(v) == UNION {c.words : c \in ToSet(Flatten(v))}
FilesIn(v) == UNION {c.paths : c \in ToSet(Flatten(v))}

(* What the failure audit says of an answer that nobody resolved           *)
(* (audit_failures.audit): a gold name is missing, one that several files  *)
(* define stands without its file, or the answer has another shape.        *)
FailureVerdict(t) ==
    LET written == AnswerJson(reply[t])
        pairs == ToSet(Flatten(Asked[t].gold))
        unqualified(g) ==
            /\ Cardinality(Defining(Tables[version][Asked[t].corpus], g.name)) > 1
            /\ \A h \in pairs : h.name = g.name => h.paths \cap FilesIn(written) = {}
    IN CASE \E g \in pairs : g.name \notin Named(written) -> "wrong"
         [] \E g \in pairs : unqualified(g) -> "unqualified"
         [] written.kind # Asked[t].gold.kind -> "shape"
         [] OTHER -> "other"

-----------------------------------------------------------------------------
(* The readers agree where a reply leaves them no choice.  A later strict  *)
(* grader forgives what an earlier one did and never takes a pass back.    *)
(* When a reply holds one answer object, a strict pass is a full credit,   *)
(* so the `notation_only` count of the report is what resolution added.    *)
(* An audit that finds the payload matching means a full credit too, and   *)
(* one that finds it different means that neither strict grader passed.    *)
(* A full credit names the whole gold, so the failure audit could not call *)
(* it wrong, and what the report calls fabricated was written as an answer *)
(* object.  The notation diagnostic gives no more than the credit does,    *)
(* where every gold name is defined once: its caveat.  (benchmark.py       *)
(* grade_answer, audit_answers.py, quality_pass.py, audit_failures.py      *)
(* audit, notation_diagnostic.py)                                          *)
ReadersAgree ==
    \A t \in Ended : \A row \in {Reported(t)} :
        LET gold == Asked[t].gold
            v2 == GradeAnswer(StrictV2(reply[t]), gold, Asked[t].set)
            v3 == GradeAnswer(StrictV3(reply[t]), gold, Asked[t].set)
            audit == AuditAnswer(reply[t], gold, Asked[t].set)
            full == row.resolved
        IN /\ v2.correct => v3.correct /\ v3.format = v2.format
           /\ v3.correct /\ Len(SelectSeq(reply[t], AnswerLike)) = 1 => full
           /\ audit = "payload_matches" => full
           /\ audit = "payload_differs" => ~v2.correct /\ ~v3.correct
           /\ /\ Len(SelectSeq(reply[t], AnswerLike)) = 1 /\ NotationResolved(t)
              /\ \A g \in ToSet(Flatten(gold)) :
                    Cardinality(Defining(Tables[version][Asked[t].corpus], g.name)) = 1
              => full
           /\ full => FailureVerdict(t) # "wrong"
           /\ row.fabricated => \E i \in DOMAIN reply[t] : AnswerLike(reply[t][i])

(* The lists of changes, in the order in which they are written. *)
Lists == Append(ledger, regrade.changes)
Silent(list, t) == \A j \in DOMAIN list : list[j].trial # t
FirstNames(i, j, t) ==
    /\ Lists[i][j].trial = t
    /\ \A k \in 1..(i - 1) : Silent(Lists[k], t)
    /\ \A l \in 1..(j - 1) : Lists[i][l].trial # t

(* As long as no regrade died, the score a trial was first given can be    *)
(* read back: it is the `from` of the first change that names the trial,   *)
(* and the credit in run.json when none does. (regrade.py)                 *)
ReadsBack ==
    deaths = 0 =>
        \A t \in Ended :
            /\ (\A i \in DOMAIN Lists : Silent(Lists[i], t)) => frozen[t] = run[t].credit
            /\ \A i \in DOMAIN Lists : \A j \in DOMAIN Lists[i] :
                  FirstNames(i, j, t) => frozen[t] = Lists[i][j].from
=============================================================================
