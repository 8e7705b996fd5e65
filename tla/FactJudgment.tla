----------------------------- MODULE FactJudgment -----------------------------
(***************************************************************************)
(* What one piece of evidence says of one assumption: the comparison of    *)
(* the facts it holds with a structured assumption (assumptions/evaluate,  *)
(* model), and the judgment that prefers a contradiction, keeps a model    *)
(* away from what code can decide and spends a budget on the rest          *)
(* (TriggerEngine.judge).  What becomes of the verdict is                  *)
(* SequentialEvaluation's and DecisionMemory's.                            *)
(*                                                                         *)
(* Keys, units and texts are taken after normalisation, and a text's       *)
(* reading as a version or as a date is a constant.                        *)
(***************************************************************************)
EXTENDS Integers, Sequences, FiniteSets, SequencesExt

CONSTANTS
  Number, Text, List,  \* the values that occur; a list is a set of texts
  VersionOf,           \* [parts, prerelease] of the texts that are versions, 0 for a release
  DateOf,              \* the moment of the texts that are dates
  AssumptionSpec,      \* assumptions
  Fact,                \* facts
  MaxFacts             \* bound on the facts of one piece of evidence

VARIABLE judgment      \* what was judged last, and the verdict

None == "none"

Value ==
  [kind : {"number"}, is : Number] \cup [kind : {"boolean"}, is : BOOLEAN]
    \cup [kind : {"text"}, is : Text] \cup [kind : {"list"}, is : List]

Comparisons == {"<", "<=", ">", ">=", "=", "!="}

OperatorsByType ==
  [NUMBER |-> Comparisons, BOOLEAN |-> {"=", "!="}, CATEGORY |-> {"=", "!=", "IN", "NOT_IN"},
   DATE |-> Comparisons, VERSION |-> Comparisons, SET |-> {"CONTAINS", "NOT_CONTAINS"}, TEXT |-> {}]

ExpectedShape(a) ==
  LET k == a.expected.kind IN
  CASE a.valueType = "NUMBER"   -> k = "number"
    [] a.valueType = "BOOLEAN"  -> k = "boolean"
    [] a.valueType = "CATEGORY" -> IF a.operator \in {"IN", "NOT_IN"} THEN k = "list" ELSE k = "text"
    [] a.valueType = "DATE"     -> k = "text" /\ a.expected.is \in DOMAIN DateOf
    [] a.valueType = "VERSION"  -> k = "text" /\ a.expected.is \in DOMAIN VersionOf
    [] a.valueType = "SET"      -> k = "text"

\* assumptionSpecSchema.
WellFormed(a) ==
  a.valueType # "TEXT" => a.operator \in OperatorsByType[a.valueType] /\ ExpectedShape(a)

ASSUME JudgmentAssumption ==
  /\ Number \subseteq Int /\ \A t \in DOMAIN DateOf : DateOf[t] \in Int
  /\ \A t \in DOMAIN VersionOf :
       VersionOf[t].parts \in Seq(Nat) /\ VersionOf[t].prerelease \in Nat
  /\ \A a \in AssumptionSpec : a.valueType \in DOMAIN OperatorsByType /\ a.expected \in Value
  /\ \A f \in Fact : f.value \in Value
  /\ MaxFacts \in Nat

------------------------------------------------------------------------------
(* evaluateAssumption.                                                     *)

SamePredicate(a, f) == a.predicate # None /\ a.predicate = f.predicate

\* Why the pair may not be compared is told apart no further.
Applicable(a, f) ==
  /\ a.valueType # "TEXT"
  /\ SamePredicate(a, f)
  /\ a.subject \in {None, f.subject}
  /\ f.operator = "="
  /\ a.unit = None \/ f.unit \in {None, a.unit}

Sign(n) == IF n < 0 THEN -1 ELSE IF n > 0 THEN 1 ELSE 0

Ordered(op, cmp) ==
  CASE op = "<" -> cmp < 0 [] op = "<=" -> cmp <= 0 [] op = ">" -> cmp > 0
    [] op = ">=" -> cmp >= 0 [] op = "=" -> cmp = 0 [] op = "!=" -> cmp # 0

Part(v, i) == IF i <= Len(v.parts) THEN v.parts[i] ELSE 0

\* Missing segments are zero and a prerelease sorts before its release.
CompareVersions(v, w) ==
  LET last  == IF Len(v.parts) > Len(w.parts) THEN Len(v.parts) ELSE Len(w.parts)
      diffs == {i \in 1..last : Part(v, i) # Part(w, i)}
      first == CHOOSE i \in diffs : \A j \in diffs : i <= j
  IN IF diffs # {} THEN Sign(Part(v, first) - Part(w, first))
     ELSE IF v.prerelease = 0 \/ w.prerelease = 0 THEN Sign(w.prerelease) - Sign(v.prerelease)
     ELSE Sign(v.prerelease - w.prerelease)

\* A pair is comparable by its values when it has one of these shapes.
Decidable(a, v) ==
  CASE a.valueType = "NUMBER"   -> v.kind = "number"
    [] a.valueType = "BOOLEAN"  -> v.kind = "boolean"
    [] a.valueType = "CATEGORY" -> v.kind = "text"
    [] a.valueType = "DATE"     -> v.kind = "text" /\ v.is \in DOMAIN DateOf
    [] a.valueType = "VERSION"  -> v.kind = "text" /\ v.is \in DOMAIN VersionOf
    [] a.valueType = "SET"      -> v.kind = "list" \/ v = a.expected

Holds(a, v) ==
  LET e == a.expected IN
  CASE a.valueType = "NUMBER"  -> Ordered(a.operator, Sign(v.is - e.is))
    [] a.valueType = "BOOLEAN" -> (a.operator = "=" <=> v.is = e.is)
    [] a.valueType = "CATEGORY" ->
         IF e.kind = "list" THEN (a.operator = "IN" <=> v.is \in e.is) ELSE (a.operator = "=" <=> v.is = e.is)
    [] a.valueType = "DATE"    -> Ordered(a.operator, Sign(DateOf[v.is] - DateOf[e.is]))
    [] a.valueType = "VERSION" -> Ordered(a.operator, CompareVersions(VersionOf[v.is], VersionOf[e.is]))
    [] a.valueType = "SET"     ->
         (a.operator = "CONTAINS" <=> v.kind # "list" \/ e.is \in v.is)

Comparable(a, f) == Applicable(a, f) /\ Decidable(a, f.value)

------------------------------------------------------------------------------
(* judge.                                                                  *)

Verdict(m, r) == [method |-> m, relation |-> r]

\* The places of the facts that evaluate.
Results(a, facts) == {i \in DOMAIN facts : Comparable(a, facts[i])}

\* Mutant: the first fact that evaluates decides.
FirstDecides(a, facts) ==
  IF Holds(a, facts[Min(Results(a, facts))].value) THEN "SUPPORTS" ELSE "CONTRADICTS"

\* A contradiction is preferred if several facts evaluate.
Decisive(a, facts) ==
  IF \E i \in Results(a, facts) : ~Holds(a, facts[i].value) THEN "CONTRADICTS" ELSE "SUPPORTS"

\* Unless the candidate was only found by retrieval, what is not judged is recorded.
Skipped(via, r) == IF via \in {"close", "far"} THEN Verdict("NONE", None) ELSE Verdict("SKIPPED", r)

Eligible(a, via) == via \in {"predicate", "close"} \/ (via = "resource" /\ a.valueType = "TEXT")

\* What judge may return; a model may answer anything or fail.  Retrieved candidates are
\* close or far, as they score above or below MIN_SCORE_FOR_MODEL.
Verdicts(a, facts, text, via, budget) ==
  IF Results(a, facts) # {} THEN {Verdict("DETERMINISTIC", Decisive(a, facts))}
  ELSE IF a.policy = "MANUAL" THEN {Skipped(via, "UNCERTAIN")}
  ELSE IF a.valueType # "TEXT" /\ \E i \in DOMAIN facts : SamePredicate(a, facts[i])
    THEN {Skipped(via, "IRRELEVANT")}
  ELSE IF ~Eligible(a, via) \/ (~text /\ facts = <<>>) THEN {Verdict("NONE", None)}
  ELSE IF budget = 0 THEN {Verdict("SKIPPED", "UNCERTAIN")}
  ELSE {Verdict("UNAVAILABLE", "UNCERTAIN")}
         \cup {Verdict("SEMANTIC", r) : r \in {"SUPPORTS", "CONTRADICTS", "UNCERTAIN", "IRRELEVANT"}}

NotJudged == [method |-> "none yet"]

JudgmentTypeOK ==
  judgment = NotJudged \/
    /\ judgment.method \in {"NONE", "SKIPPED", "DETERMINISTIC", "SEMANTIC", "UNAVAILABLE"}
    /\ judgment.relation \in {None, "SUPPORTS", "CONTRADICTS", "UNCERTAIN", "IRRELEVANT"}
    /\ judgment.assumption \in AssumptionSpec /\ judgment.assumption.expected \in Value
    /\ \A i \in DOMAIN judgment.facts : judgment.facts[i] \in Fact /\ judgment.facts[i].value \in Value

JudgmentInit == judgment = NotJudged

\* A candidate found by predicate names one.
Judge ==
  /\ judgment = NotJudged
  /\ \E a \in {x \in AssumptionSpec : WellFormed(x)}, facts \in BoundedSeq(Fact, MaxFacts),
        text \in BOOLEAN, via \in {"predicate", "resource", "close", "far"}, budget \in 0..1 :
       /\ via = "predicate" => \E i \in DOMAIN facts : SamePredicate(a, facts[i])
       /\ \E v \in Verdicts(a, facts, text, via, budget) :
            judgment' = [method |-> v.method, relation |-> v.relation, assumption |-> a, facts |-> facts]

JudgmentNext == Judge \/ (judgment # NotJudged /\ judgment' = NotJudged)
JudgmentSpec == JudgmentInit /\ [][JudgmentNext]_judgment

------------------------------------------------------------------------------
(* What must hold.                                                         *)

\* Reference: one version precedes another when it is smaller at the first place they
\* differ, padded with zeros, and otherwise when only it is a prerelease or its
\* prerelease is the smaller one.
VersionBefore(v, w) ==
  LET n == Len(v.parts) + Len(w.parts)
      Same(k) == \A i \in 1..k : Part(v, i) = Part(w, i)
  IN \/ \E k \in 1..n : Same(k - 1) /\ Part(v, k) < Part(w, k)
     \/ Same(n) /\ v.prerelease > 0 /\ (w.prerelease = 0 \/ v.prerelease < w.prerelease)

\* Reference: what is known of the world, and what the assumption says of it.
Less(a, x, y) ==
  CASE a.valueType = "NUMBER"  -> x < y
    [] a.valueType = "DATE"    -> DateOf[x] < DateOf[y]
    [] a.valueType = "VERSION" -> VersionBefore(VersionOf[x], VersionOf[y])

Satisfies(a, v) ==
  LET e == a.expected IN
  \/ a.operator = "IN" /\ v.is \in e.is
  \/ a.operator = "NOT_IN" /\ v.is \notin e.is
  \/ a.operator = "CONTAINS" /\ (v.kind = "text" \/ e.is \in v.is)
  \/ a.operator = "NOT_CONTAINS" /\ v.kind = "list" /\ e.is \notin v.is
  \/ a.valueType \in {"BOOLEAN", "CATEGORY"} /\ a.operator = "=" /\ v = e
  \/ a.valueType \in {"BOOLEAN", "CATEGORY"} /\ a.operator = "!=" /\ v # e
  \/ /\ a.valueType \in {"NUMBER", "DATE", "VERSION"}
     /\ \/ a.operator \in {"<", "<=", "!="} /\ Less(a, v.is, e.is)
        \/ a.operator \in {">", ">=", "!="} /\ Less(a, e.is, v.is)
        \/ a.operator \in {"<=", ">=", "="} /\ ~Less(a, v.is, e.is) /\ ~Less(a, e.is, v.is)

\* The verdict follows from the facts, whatever their order: code decides as soon as one
\* fact can be compared, it contradicts exactly if one of them is not what the assumption
\* says, and a model is asked only about what no fact speaks of or only prose can say.
VerdictFollowsFacts ==
  judgment # NotJudged =>
    LET a        == judgment.assumption
        observed == {f \in ToSet(judgment.facts) : Comparable(a, f)}
    IN /\ judgment.method = "DETERMINISTIC" <=> observed # {}
       /\ observed # {} =>
            judgment.relation = IF \A f \in observed : Satisfies(a, f.value) THEN "SUPPORTS" ELSE "CONTRADICTS"
       /\ judgment.method \in {"SEMANTIC", "UNAVAILABLE"} =>
            /\ a.policy # "MANUAL"
            /\ a.valueType = "TEXT" \/ ~\E f \in ToSet(judgment.facts) : SamePredicate(a, f)
===============================================================================
