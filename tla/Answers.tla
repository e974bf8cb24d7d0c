------------------------------- MODULE Answers -------------------------------
(***************************************************************************)
(* How a reply is graded.  Five readers look at the text a model wrote:    *)
(* the two frozen strict graders (benchmark.grade_answer, v2 and v3), the  *)
(* post-hoc audit (audit_answers.audit_answer) and the quality pass        *)
(* (quality_pass.answer_json and credit), which resolves a written symbol  *)
(* against the definitions of the corpus; and notation_diagnostic.py.      *)
(*                                                                         *)
(* A reply is a sequence of segments: prose, a JSON object standing in the *)
(* text, or a fenced block, labelled json (or with no label) or with       *)
(* another language.  A segment's payload says what its text holds:        *)
(*    "answer"  an object whose only key is "answer", written once         *)
(*    "twice"   the same object with the key written twice                 *)
(*    "other"   a different JSON object        "code"  not JSON, braces    *)
(* A claim is a written symbol, abstracted to what the graders read from   *)
(* it; a score is counted in twelfths, so that halves and thirds of halves *)
(* stay whole numbers.                                                     *)
(***************************************************************************)
EXTENDS Integers, Sequences, FiniteSets, SequencesExt, FiniteSetsExt

Full == 12

-----------------------------------------------------------------------------
(* JSON values. *)
Null == [kind |-> "null"]
Claimed(c) == [kind |-> "claim", claim |-> c]
Listed(cs) == [kind |-> "list", items |-> cs]
Keyed(f) == [kind |-> "object", keys |-> f]

(* context_segments and PATH_TOKEN: a claim is `spelled` when every piece  *)
(* of it is an identifier; `words` are the identifiers outside its paths,  *)
(* `paths` the files it mentions, and each of `segments` the set of files  *)
(* whose path contains one further piece of it.                            *)
NoSymbol == [owner |-> "", name |-> ""]

ParseSymbol(c, index) ==
    IF c.spelled THEN [owner |-> c.owner, name |-> c.name]
    ELSE LET named == {w \in c.words \cap DOMAIN index : index[w] # {}}
             near == {w \in named : index[w] \cap c.paths # {}}
             chosen == IF Cardinality(named) > 1 /\ c.paths # {} THEN near ELSE named
         IN IF Cardinality(chosen) = 1
            THEN [owner |-> "", name |-> CHOOSE w \in chosen : TRUE]
            ELSE NoSymbol

Defining(index, name) == IF name \in DOMAIN index THEN index[name] ELSE {}

(* Of the files that define a name, those a claim may mean. *)
Narrowed(paths, c) ==
    LET mentioned == paths \cap c.paths
        within == {p \in paths : \A s \in c.segments : p \in s}
    IN IF Cardinality(paths) <= 1 THEN paths
       ELSE IF Cardinality(mentioned) = 1 THEN mentioned
       ELSE IF Cardinality(within) = 1 THEN within ELSE paths

(* What a claim says: its symbol, and the files it may stand in, one when  *)
(* it resolves.                                                            *)
Meaning(c, symbol, index) ==
    [claim |-> c, symbol |-> symbol, files |-> Narrowed(Defining(index, symbol.name), c)]
Resolve(c, index) == Meaning(c, ParseSymbol(c, index), index)

SameMeaning(left, right) ==
    IF Cardinality(left.files) = 1 /\ Cardinality(right.files) = 1
    THEN /\ left.files = right.files
         /\ left.symbol.name = right.symbol.name
         /\ \/ left.symbol.owner = right.symbol.owner
            \/ "" \in {left.symbol.owner, right.symbol.owner}
    ELSE left.claim = right.claim

Same(c, gold, index) == SameMeaning(Resolve(c, index), Resolve(gold, index))

(* A gold identity is path::name, so it mentions one file. *)
Mentions(c, gold, index) ==
    LET defined == Defining(index, gold.name)
    IN /\ gold.name \in c.words
       /\ IF Cardinality(defined) > 1 THEN gold.paths \subseteq c.paths
          ELSE defined = {} \/ gold.paths \subseteq defined

(* flatten, of values no deeper than an object of lists or of claims. *)
Pieces(v) == CASE v.kind = "claim" -> <<v.claim>>
               [] v.kind = "list" -> v.items
               [] OTHER -> <<>>

Flatten(v) ==
    IF v.kind = "object"
    THEN FlattenSeq([i \in 1..Cardinality(DOMAIN v.keys) |->
                        Pieces(v.keys[SetToSeq(DOMAIN v.keys)[i]])])
    ELSE Pieces(v)

ProseCredit(c, gold, index) ==
    LET expected == Flatten(gold)
    IN IF expected = <<>> THEN 0
       ELSE (Full * Cardinality({i \in DOMAIN expected : Mentions(c, expected[i], index)})) \div Len(expected)

ListCredit(got, gold, index) ==
    LET found(e) == \E i \in DOMAIN got : Same(got[i], e, index)
        matched == Cardinality({i \in DOMAIN gold : found(gold[i])})
        extra == Max({0, Len(got) - Len(gold)})
    IN Max({0, (Full * (matched - extra)) \div Len(gold)})

OnlyOf(v) == v.keys[CHOOSE k \in DOMAIN v.keys : TRUE]

(* Of a gold that is a claim, a list or null. *)
PlainCredit(got, gold, index) ==
    CASE gold.kind = "list" /\ got.kind = "claim" -> ProseCredit(got.claim, gold, index)
      [] gold.kind = "list" /\ got.kind \in {"list", "object"} ->
           ListCredit(Flatten(got), gold.items, index)
      [] gold.kind = "claim" ->
           IF got.kind = "claim" /\ Same(got.claim, gold.claim, index) THEN Full ELSE 0
      [] gold.kind = "null" -> IF got.kind = "null" THEN Full ELSE 0
      [] OTHER -> 0

KeyedCredit(got, gold, index) ==
    IF got.kind = "object" /\ DOMAIN got.keys = DOMAIN gold.keys
    THEN MapThenSumSet(LAMBDA k : PlainCredit(got.keys[k], gold.keys[k], index), DOMAIN gold.keys)
           \div Cardinality(DOMAIN gold.keys)
    ELSE IF Cardinality(DOMAIN gold.keys) # 1 THEN 0
    ELSE IF got.kind # "object" THEN PlainCredit(got, OnlyOf(gold), index)
    ELSE IF Cardinality(DOMAIN got.keys) = 1 THEN PlainCredit(OnlyOf(got), OnlyOf(gold), index) ELSE 0

Credit(got, gold, index) ==
    IF gold.kind # "object" THEN PlainCredit(got, gold, index)
    ELSE IF got.kind = "claim" THEN ProseCredit(got.claim, gold, index)
    ELSE KeyedCredit(got, gold, index)

-----------------------------------------------------------------------------
(* Segments of a reply. *)
Prose == [kind |-> "prose", payload |-> "code", value |-> Null]
Text(kind, payload, value) == [kind |-> kind, payload |-> payload, value |-> value]

Fenced(segment) == segment.kind \in {"json", "text"}
Fences(reply) == {i \in DOMAIN reply : Fenced(reply[i])}
TheFence(fences) == CHOOSE i \in fences : TRUE
AnswerLike(segment) == segment.kind # "prose" /\ segment.payload \in {"answer", "twice"}

(* The text parsed when no fence is used: a value only when an object is   *)
(* all there is.                                                           *)
Whole(reply) == IF Len(reply) = 1 /\ reply[1].kind = "bare" THEN reply[1] ELSE Prose

(* V2 reads the one fence of a reply, and only when it is labelled json.   *)
StrictV2(reply) ==
    LET f == Fences(reply)
    IN IF Cardinality(f) = 1 /\ reply[TheFence(f)].kind = "json" THEN reply[TheFence(f)]
       ELSE Whole(reply)

(* V3 reads the one fenced block that is an {"answer": ...} object.        *)
CandidatesV3(reply) == {i \in Fences(reply) : reply[i].payload = "answer"}
StrictV3(reply) ==
    LET c == CandidatesV3(reply)
    IN IF c = {} THEN Whole(reply)
       ELSE IF Cardinality(c) = 1 THEN reply[TheFence(c)] ELSE Prose

Matches(segment, gold, answerSet) ==
    /\ segment.kind # "prose" /\ segment.payload = "answer"
    /\ IF answerSet
       THEN /\ segment.value.kind = "list"
            /\ IsInjective(segment.value.items)
            /\ ToSet(segment.value.items) = ToSet(gold.items)
       ELSE segment.value = gold

Formatted(segment) == segment.kind = "bare" /\ segment.payload = "answer"

GradeAnswer(read, gold, answerSet) ==
    [correct |-> Matches(read, gold, answerSet), format |-> Formatted(read)]

(* audit_answer: one decodable object, no other brace, at most one fence;  *)
(* the object itself is then graded as a bare reply.                       *)
Braced(reply) == SelectSeq(reply, LAMBDA s : s.kind # "prose")
AuditAnswer(reply, gold, answerSet) ==
    LET only == [Braced(reply)[1] EXCEPT !.kind = "bare"]
    IN IF Cardinality(Fences(reply)) > 1 \/ Len(Braced(reply)) # 1 THEN "manual_review"
       ELSE IF ~Formatted(only) THEN "manual_review"
       ELSE IF Matches(only, gold, answerSet) THEN "payload_matches" ELSE "payload_differs"

(* answer_json looks for fences with one regular expression over the text. *)
(* Mark 2j-1 opens fence j and mark 2j closes it.  A mark opens a block    *)
(* when it stands before a line end: a json fence's opening does, another  *)
(* language's does not, and a closing does whenever text follows it, so    *)
(* blocks may pair a closing with the next opening.                        *)
Blocks(reply) ==
    LET f == SetToSortSeq(Fences(reply), <)
        last == 2 * Len(f)
        between(fence) == SubSeq(reply, f[fence] + 1, f[fence + 1] - 1)
        from[mark \in 1..(last + 2)] ==
            IF mark >= last THEN <<>>
            ELSE LET fence == (mark + 1) \div 2
                 IN IF mark % 2 = 0 THEN <<Whole(between(fence))>> \o from[mark + 2]
                    ELSE IF reply[f[fence]].kind = "json" THEN <<reply[f[fence]]>> \o from[mark + 2]
                    ELSE from[mark + 1]
    IN from[1]

(* A reader that takes the first block for the answer, whatever it holds. *)
AnswerJsonAnyBlock(reply) ==
    LET anywhere == SelectSeq(reply, AnswerLike)
    IN IF Blocks(reply) # <<>> THEN Head(Blocks(reply)).value
       ELSE IF anywhere # <<>> THEN Last(anywhere).value ELSE Null

(* answer_json: the first block that is an answer, otherwise the last      *)
(* answer object anywhere.  A duplicated key keeps its last value, and no  *)
(* answer reads exactly like a null one.                                   *)
AnswerJson(reply) ==
    LET blocks == SelectSeq(Blocks(reply), AnswerLike)
        anywhere == SelectSeq(reply, AnswerLike)
    IN IF blocks # <<>> THEN Head(blocks).value
       ELSE IF anywhere # <<>> THEN Last(anywhere).value ELSE Null

-----------------------------------------------------------------------------
(* notation_diagnostic.py reads the same blocks and nothing else, and asks *)
(* only whether the names agree, however their paths are spelled.          *)
FencedAnswer(reply) ==
    LET blocks == SelectSeq(Blocks(reply), AnswerLike)
    IN IF blocks = <<>> THEN Null ELSE Head(blocks).value

Leaf(c) == IF c.spelled THEN <<c.owner, c.name>> ELSE <<c>>

SameNotation(got, gold) ==
    /\ got.kind = gold.kind /\ got # Null
    /\ CASE got.kind = "claim" -> Leaf(got.claim) = Leaf(gold.claim)
         [] got.kind = "list" ->
              \A c \in ToSet(got.items) \cup ToSet(gold.items) :
                  LET Named(items) == {i \in DOMAIN items : Leaf(items[i]) = Leaf(c)}
                  IN Cardinality(Named(got.items)) = Cardinality(Named(gold.items))
         [] OTHER ->
              /\ DOMAIN got.keys = DOMAIN gold.keys
              /\ \A k \in DOMAIN got.keys :
                    IF got.keys[k].kind = "claim" /\ gold.keys[k].kind = "claim"
                    THEN Leaf(got.keys[k].claim) = Leaf(gold.keys[k].claim)
                    ELSE got.keys[k] = gold.keys[k]
=============================================================================
