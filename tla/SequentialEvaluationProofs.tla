--------------------- MODULE SequentialEvaluationProofs ----------------------
(***************************************************************************)
(* That the order of the evidence does not matter, for any evidence, any   *)
(* workspace's policies and any authorities.                               *)
(***************************************************************************)
EXTENDS SequentialEvaluation, LifecycleProofs

\* No evidence sits exactly a tenth below an assumption authority for which the
\* code's subtraction rounds up; ToleranceIsATenth is what fails there.
AwayFromTheEdge ==
  \A i \in Item, t \in Trust : i.evidenceAuthority = t - 10 => t \notin RoundsUp

\* What an item does to the validity, whatever the validity is.
Effect(i, current) ==
  IF ~Heard(i) THEN current
  ELSE IF Settles(i) THEN "INVALIDATED"
  ELSE IF current = "VALID" THEN "CHALLENGED" ELSE current

Reached == {"VALID", "CHALLENGED", "INVALIDATED"}

\* One evaluation, the whole of it: classification, policies, cap, comparison with
\* the current validity and the write, leave the worse of the two verdicts.
LEMMA EvaluationTakesTheWorse ==
  ASSUME AwayFromTheEdge, EvaluationTypeOK, validity \in Reached, NEW i \in Item, Evaluate(i)
  PROVE  validity' = Effect(i, validity)
<1> DEFINE in      == Input(i, validity)
           severity == ClassifyConflictSeverity(i.relation, i.confidence, i.evidenceAuthority, trust)
           outcome == ResolveEvaluationOutcome(in, rules)
<1>1. validity' = IF outcome.nextValidity = Unchanged THEN validity ELSE outcome.nextValidity
  BY DEF Evaluate, Written
<1>2. /\ i.confidence \in Int /\ i.evidenceAuthority \in Int /\ trust \in Int
      /\ i.evidenceAuthority = trust - 10 => trust \notin RoundsUp
  BY EvaluationAssumption DEF EvaluationTypeOK, AwayFromTheEdge
<1>3. severity = IF i.relation \notin {"CONTRADICTS", "UPDATES"} \/ i.confidence < 50 THEN Unchanged
                 ELSE IF Severe(i) THEN "INVALIDATED" ELSE "CHALLENGED"
  BY <1>2 DEF ClassifyConflictSeverity, Authoritative, Severe, MinConfidenceToRecord,
              MinConfidenceToInvalidate
<1>4. outcome = Outcome(in, severity, Actions(i, severity))
  BY DEF ResolveEvaluationOutcome, Input, PolicyFacts, Actions
<1>5. in.relation = i.relation /\ in.currentValidity = validity
  BY DEF Input
<1>6. CASE severity = Unchanged
  <2>1. ~Heard(i)
    BY <1>2, <1>3, <1>6 DEF Heard, Unchanged
  <2>2. outcome.nextValidity = Unchanged
    BY <1>4, <1>6 DEF Outcome, NoOutcome, Unchanged
  <2>3. QED
    BY <1>1, <2>1, <2>2 DEF Effect
<1>7. CASE severity # Unchanged
  <2>1. /\ i.relation \in {"CONTRADICTS", "UPDATES"}
        /\ severity = IF Severe(i) THEN "INVALIDATED" ELSE "CHALLENGED"
        /\ Heard(i) <=> "suppress" \notin Actions(i, severity)
    BY <1>2, <1>3, <1>7 DEF Heard
  <2> DEFINE capped == Capped(severity, Actions(i, severity))
  <2>2. capped = IF Settles(i) THEN "INVALIDATED" ELSE "CHALLENGED"
    BY <2>1 DEF Settles, Capped
  <2> HIDE DEF severity, outcome, in, capped
  <2>3. CASE Heard(i)
    <3>1. outcome.nextValidity = IF Raises(capped, validity) THEN capped ELSE Unchanged
      BY <1>4, <1>5, <1>7, <2>1, <2>3 DEF Outcome, NoOutcome, Reached, capped
    <3>2. Raises(capped, validity) <=> \/ validity = "VALID"
                                       \/ validity = "CHALLENGED" /\ capped = "INVALIDATED"
      BY <2>2 DEF Raises, SeverityOrder, Reached
    <3>3. QED
      BY <1>1, <2>2, <2>3, <3>1, <3>2 DEF Effect, Unchanged, Reached
  <2>4. CASE ~Heard(i)
    <3>1. outcome.nextValidity = Unchanged
      BY <1>4, <2>1, <2>4 DEF Outcome, NoOutcome
    <3>2. QED
      BY <1>1, <2>4, <3>1 DEF Effect
  <2>5. QED
    BY <2>3, <2>4
<1>8. QED
  BY <1>6, <1>7

\* What an item deserves does not change.
LEMMA DesertsAreFixed ==
  ASSUME UNCHANGED <<rules, trust, importance>>, NEW i
  PROVE  Heard(i)' = Heard(i) /\ Settles(i)' = Settles(i)
BY DEF Heard, Settles, Severe, Actions, Input

------------------------------------------------------------------------------
\* The types, for any evidence and any policies: apply (triggers.ts) never writes an
\* outcome that names no validity.
THEOREM EvaluationTypes == EvaluationSpec => []EvaluationTypeOK
<1>1. EvaluationInit => EvaluationTypeOK
  BY DEF EvaluationInit, EvaluationTypeOK, Validity
<1>2. EvaluationTypeOK /\ [EvaluationNext]_evaluationVars => EvaluationTypeOK'
  <2> SUFFICES ASSUME EvaluationTypeOK, [EvaluationNext]_evaluationVars PROVE EvaluationTypeOK'
    OBVIOUS
  <2>1. ASSUME NEW i \in Item, Evaluate(i) PROVE EvaluationTypeOK'
    <3>1. ResolveEvaluationOutcome(Input(i, validity), rules).nextValidity \in NextValidity
      BY OutcomeRange
    <3>2. validity' \in Validity
      BY <2>1, <3>1 DEF Evaluate, Written, EvaluationTypeOK, Validity, NextValidity
    <3>3. atRisk' \in BOOLEAN
      BY <2>1 DEF Evaluate, EvaluationTypeOK
    <3>4. QED
      BY <2>1, <3>2, <3>3 DEF Evaluate, EvaluationTypeOK
  <2>2. CASE UNCHANGED evaluationVars
    BY <2>2 DEF evaluationVars, EvaluationTypeOK
  <2>3. QED
    BY <2>1, <2>2 DEF EvaluationNext
<1>3. QED
  BY <1>1, <1>2, PTL DEF EvaluationSpec

\* The assumption ends as the worst verdict the evidence calls for, in whatever
\* order it arrives (resolveEvaluationOutcome, outcome.ts).
THEOREM WorstStands == ASSUME AwayFromTheEdge PROVE EvaluationSpec => []WorstVerdictStands
<1>1. EvaluationInit => WorstVerdictStands
  BY DEF EvaluationInit, WorstVerdictStands
<1>2. EvaluationTypeOK /\ WorstVerdictStands /\ [EvaluationNext]_evaluationVars => WorstVerdictStands'
  <2> SUFFICES ASSUME EvaluationTypeOK, WorstVerdictStands, [EvaluationNext]_evaluationVars PROVE WorstVerdictStands'
    OBVIOUS
  <2>1. ASSUME NEW i \in Item, Evaluate(i) PROVE WorstVerdictStands'
    <3>1. validity \in Reached
      BY DEF WorstVerdictStands, Reached
    <3>2. validity' = Effect(i, validity)
      BY <2>1, <3>1, EvaluationTakesTheWorse
    <3>3. seen' = seen \cup {i} /\ UNCHANGED <<rules, trust, importance>>
      BY <2>1 DEF Evaluate
    <3>4. \A j : (Heard(j)' <=> Heard(j)) /\ (Settles(j)' <=> Settles(j))
      BY <3>3, DesertsAreFixed
    <3>5. validity' = IF \E j \in seen' : Heard(j) /\ Settles(j) THEN "INVALIDATED"
                      ELSE IF \E j \in seen' : Heard(j) THEN "CHALLENGED"
                      ELSE "VALID"
      BY <3>2, <3>3 DEF Effect, WorstVerdictStands
    <3>6. QED
      BY <3>4, <3>5 DEF WorstVerdictStands
  <2>2. CASE UNCHANGED evaluationVars
    <3>1. \A j : (Heard(j)' <=> Heard(j)) /\ (Settles(j)' <=> Settles(j))
      BY <2>2, DesertsAreFixed DEF evaluationVars
    <3>2. QED
      BY <2>2, <3>1 DEF evaluationVars, WorstVerdictStands
  <2>3. QED
    BY <2>1, <2>2 DEF EvaluationNext
<1>3. QED
  BY <1>1, <1>2, EvaluationTypes, PTL DEF EvaluationSpec

\* No workspace's policies (evaluatePolicies, policy.ts) invalidate, record or flag what
\* none would not.
THEOREM SofteningAlways == EvaluationSpec => []PoliciesOnlySoften
<1>1. EvaluationTypeOK => PoliciesOnlySoften
  <2>1. ASSUME NEW i \in seen, NEW current \in Validity
        PROVE  Input(i, current).currentValidity \in Validity
    BY DEF Input
  <2>2. QED
    BY <2>1, PoliciesSoften DEF PoliciesOnlySoften
<1>2. QED
  BY <1>1, EvaluationTypes, PTL
=============================================================================
