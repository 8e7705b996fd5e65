------------------------ MODULE SequentialEvaluation ------------------------
(***************************************************************************)
(* One assumption checked against evidence one item at a time, each check  *)
(* seeing the validity the one before it left (what a single worker does). *)
(* The rules are those of Lifecycle; the interleavings that break this     *)
(* order are in DecisionMemory.                                            *)
(***************************************************************************)
EXTENDS Lifecycle

CONSTANTS Item,      \* evidence: [relation, confidence, evidenceAuthority, actorType]
          RuleSet,   \* workspace policies to consider, each merged with the defaults
          Trust,     \* authorities the assumption may have
          Importance \* importances the decision may have

ASSUME EvaluationAssumption ==
  /\ Trust \subseteq 0..100
  /\ \A i \in Item : i.confidence \in 0..100 /\ i.evidenceAuthority \in 0..100

VARIABLES rules, trust, importance,   \* the setting, chosen once
          validity, atRisk,           \* of the assumption; of its decision
          seen                        \* the items evaluated so far

evaluationVars == <<rules, trust, importance, validity, atRisk, seen>>

EvaluationTypeOK ==
  /\ rules \in RuleSet /\ trust \in Trust /\ importance \in Importance
  /\ validity \in Validity /\ atRisk \in BOOLEAN
  /\ seen \subseteq Item

Input(i, current) ==
  [ relation |-> i.relation, confidence |-> i.confidence, method |-> "DETERMINISTIC",
    evidenceAuthority |-> i.evidenceAuthority, assumptionAuthority |-> trust,
    currentValidity |-> current, decisionImportance |-> importance, actorType |-> i.actorType ]

EvaluationInit ==
  /\ rules \in RuleSet /\ trust \in Trust /\ importance \in Importance
  /\ validity = "VALID" /\ atRisk = FALSE /\ seen = {}

\* apply writes a validity only when the outcome names one.
Written(outcome) == IF outcome.nextValidity = Unchanged THEN validity ELSE outcome.nextValidity

Evaluate(i) ==
  LET outcome == ResolveEvaluationOutcome(Input(i, validity), rules) IN
  /\ i \notin seen
  /\ seen' = seen \cup {i}
  /\ validity' = Written(outcome)
  /\ atRisk' = (atRisk \/ (outcome.recordConflict /\ outcome.flagDecision))
  /\ UNCHANGED <<rules, trust, importance>>

EvaluationNext == \E i \in Item : Evaluate(i)

EvaluationSpec == EvaluationInit /\ [][EvaluationNext]_evaluationVars

------------------------------------------------------------------------------
\* The verdict an item deserves, said without reference to what came before: it
\* must contradict and be confident enough; it is severe when it is confident and
\* authoritative; it is heard unless a policy suppresses what it calls for; and it
\* settles the matter when it is severe and no policy reserves that for a person.
Actions(i, proposed) == EvaluatePolicies(rules, PolicyFacts(Input(i, "VALID"), proposed))

Severe(i) == i.confidence >= 75 /\ 10 + i.evidenceAuthority >= trust

Heard(i) ==
  /\ i.relation \in {"CONTRADICTS", "UPDATES"}
  /\ i.confidence >= 50
  /\ "suppress" \notin Actions(i, IF Severe(i) THEN "INVALIDATED" ELSE "CHALLENGED")

Settles(i) ==
  /\ Severe(i)
  /\ Actions(i, "INVALIDATED") \cap {"challenge_only", "never_auto_invalidate"} = {}

\* The order in which evidence arrives does not matter: the assumption ends as
\* the worst verdict among the items calls for, and no supporting or weaker
\* item that comes later softens it.
WorstVerdictStands ==
  validity = IF \E i \in seen : Heard(i) /\ Settles(i) THEN "INVALIDATED"
             ELSE IF \E i \in seen : Heard(i) THEN "CHALLENGED"
             ELSE "VALID"

\* A policy may only make the outcome more conservative (outcome.ts): with more
\* rules no item evaluated invalidates, flags or records what it would not without them.
PoliciesOnlySoften ==
  \A i \in seen, current \in Validity :
    LET with    == ResolveEvaluationOutcome(Input(i, current), rules)
        without == ResolveEvaluationOutcome(Input(i, current), {})
    IN  /\ with.nextValidity = "INVALIDATED" => without.nextValidity = "INVALIDATED"
        /\ with.recordConflict => without.recordConflict
        /\ with.flagDecision => without.flagDecision

\* "How far below the assumption's own authority the evidence may sit and still
\* be allowed to invalidate rather than merely challenge" is a tenth
\* (decisionStatus.ts); in binary floating point it is, for some authorities,
\* a little less.
ToleranceIsATenth ==
  \A i \in seen : Heard(i) /\ Settles(i) => validity = "INVALIDATED"
=============================================================================
