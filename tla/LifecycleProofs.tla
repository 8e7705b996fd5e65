--------------------------- MODULE LifecycleProofs ---------------------------
(* What the rules of Lifecycle guarantee for every input and every set of   *)
(* workspace policies.                                                     *)
EXTENDS Lifecycle, TLAPS

NextValidity == {Unchanged, "CHALLENGED", "INVALIDATED"}

\* A contradiction calls for a challenge, an invalidation, or nothing.
LEMMA SeverityRange ==
  ASSUME NEW relation, NEW confidence, NEW ea, NEW aa
  PROVE  ClassifyConflictSeverity(relation, confidence, ea, aa) \in NextValidity
BY DEF ClassifyConflictSeverity, NextValidity

\* The validity an outcome names, if any, is a challenge or an invalidation,
\* whatever the policies.
LEMMA OutcomeRange ==
  ASSUME NEW in, NEW rules
  PROVE  ResolveEvaluationOutcome(in, rules).nextValidity \in NextValidity
<1>1. ASSUME NEW proposed \in NextValidity, NEW actions
      PROVE  Outcome(in, proposed, actions).nextValidity \in NextValidity
  BY DEF Outcome, NoOutcome, Capped, NextValidity
<1>2. QED
  BY <1>1, SeverityRange DEF ResolveEvaluationOutcome

\* A policy may only make the outcome more conservative: whatever rules a
\* workspace has, no evidence invalidates, records a conflict or flags a decision
\* that would not without them.
THEOREM PoliciesSoften ==
  ASSUME NEW in, NEW rules, in.currentValidity \in Validity
  PROVE  LET with    == ResolveEvaluationOutcome(in, rules)
             without == ResolveEvaluationOutcome(in, {})
         IN  /\ with.nextValidity = "INVALIDATED" => without.nextValidity = "INVALIDATED"
             /\ with.recordConflict => without.recordConflict
             /\ with.flagDecision => without.flagDecision
<1>1. ASSUME NEW proposed \in NextValidity, NEW actions
      PROVE  /\ Outcome(in, proposed, actions).nextValidity = "INVALIDATED"
                  => Outcome(in, proposed, {}).nextValidity = "INVALIDATED"
             /\ Outcome(in, proposed, actions).recordConflict
                  => Outcome(in, proposed, {}).recordConflict
             /\ Outcome(in, proposed, actions).flagDecision
                  => Outcome(in, proposed, {}).flagDecision
  <2>1. Outcome(in, proposed, actions).nextValidity = "INVALIDATED"
          => Outcome(in, proposed, {}).nextValidity = "INVALIDATED"
    BY <1>1 DEF Outcome, NoOutcome, Capped, NextValidity, Unchanged
  <2>2. Outcome(in, proposed, actions).recordConflict
          => Outcome(in, proposed, {}).recordConflict
    BY <1>1 DEF Outcome, NoOutcome, NextValidity
  <2>3. Outcome(in, proposed, actions).flagDecision
          => Outcome(in, proposed, {}).flagDecision
    BY <1>1 DEF Outcome, NoOutcome, NextValidity
  <2>4. QED
    BY <2>1, <2>2, <2>3
<1>2. ASSUME NEW facts PROVE EvaluatePolicies({}, facts) = {}
  BY DEF EvaluatePolicies
<1>3. QED
  BY <1>1, <1>2, SeverityRange DEF ResolveEvaluationOutcome
=============================================================================
