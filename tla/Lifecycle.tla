------------------------------ MODULE Lifecycle ------------------------------
(***************************************************************************)
(* The pure rules that govern recorded decisions: which status may follow  *)
(* which, how severe a contradiction is, what the policies allow it to do, *)
(* and the outcome of checking one piece of evidence against one           *)
(* assumption (packages/core/src/lifecycle and packages/core/src/policy).  *)
(*                                                                         *)
(* Confidences, authorities and importances lie in [0, 1] in the code; here *)
(* they are integers, in hundredths.                                       *)
(***************************************************************************)
EXTENDS Integers

DecisionStatus == {"DRAFT", "ACTIVE", "AT_RISK", "REOPENED", "SUPERSEDED", "ARCHIVED"}

\* The statuses a decision is retrieved, evaluated and expired in.
Live == {"ACTIVE", "AT_RISK", "REOPENED"}

AllowedTransitions ==
  [ DRAFT      |-> {"ACTIVE", "ARCHIVED"},
    ACTIVE     |-> {"AT_RISK", "REOPENED", "SUPERSEDED", "ARCHIVED"},
    AT_RISK    |-> {"REOPENED", "ACTIVE", "SUPERSEDED", "ARCHIVED"},
    REOPENED   |-> {"ACTIVE", "AT_RISK", "SUPERSEDED", "ARCHIVED"},
    SUPERSEDED |-> {},
    ARCHIVED   |-> {} ]

CanTransition(from, to) == to \in AllowedTransitions[from]

\* assertTransition does not throw: a move to the same status is let through,
\* out of a terminal one too.
AssertTransition(from, to) == from = to \/ CanTransition(from, to)

------------------------------------------------------------------------------
Validity == {"VALID", "UNCERTAIN", "CHALLENGED", "INVALIDATED", "SUPERSEDED"}

\* The validities an assumption is still a candidate in, and those in which it
\* keeps its decision compromised.
LiveValidity == {"VALID", "UNCERTAIN", "CHALLENGED"}
Compromised  == {"CHALLENGED", "INVALIDATED"}
Unquestioned == {"VALID", "UNCERTAIN"}

SeverityOrder ==
  [VALID |-> 0, UNCERTAIN |-> 1, CHALLENGED |-> 2, INVALIDATED |-> 3, SUPERSEDED |-> 4]

\* null: no new validity, or nothing proposed
Unchanged == "none"

Relation == {"SUPPORTS", "CONTRADICTS", "UPDATES", "IRRELEVANT", "UNCERTAIN"}

MinConfidenceToRecord     == 50
MinConfidenceToInvalidate == 75

\* The code computes assumptionAuthority - 0.1 in binary floating point. For
\* these assumption authorities the difference is above the decimal value, and
\* evidence that sits exactly one tenth below does not reach it.
RoundsUp == {14, 28, 34, 39, 40, 51, 52, 53, 54, 55, 56, 67, 68, 79, 80, 81, 92, 93}

Authoritative(evidenceAuthority, assumptionAuthority) ==
  \/ evidenceAuthority > assumptionAuthority - 10
  \/ /\ evidenceAuthority = assumptionAuthority - 10
     /\ assumptionAuthority \notin RoundsUp

\* The validity a contradiction calls for by itself, or Unchanged when it is
\* not worth a conflict; recording and flagging the decision go together.
ClassifyConflictSeverity(relation, confidence, evidenceAuthority, assumptionAuthority) ==
  IF relation \notin {"CONTRADICTS", "UPDATES"} \/ confidence < MinConfidenceToRecord
    THEN Unchanged
    ELSE IF /\ confidence >= MinConfidenceToInvalidate
            /\ Authoritative(evidenceAuthority, assumptionAuthority)
           THEN "INVALIDATED"
           ELSE "CHALLENGED"

------------------------------------------------------------------------------
EvaluationAction ==
  {"challenge_only", "never_auto_invalidate", "suppress", "do_not_flag_decision",
   "require_human_review", "notify_dashboard", "create_github_comment"}

\* A rule's condition maps each fact it constrains to the values it accepts;
\* what it leaves unstated is ignored.
ConditionMatches(when, facts) == \A k \in DOMAIN when : facts[k] \in when[k]

\* The actions of every matching rule together.
EvaluatePolicies(rules, facts) ==
  UNION {r.actions : r \in {q \in rules : ConditionMatches(q.when, facts)}}

\* A workspace rule replaces the default of the same name; the others are added.
MergePolicies(defaults, overrides) ==
  {r \in defaults : \A o \in overrides : o.name # r.name} \cup overrides

DefaultPolicies ==
  { [name    |-> "low_authority_evidence",
     when    |-> [evidenceAuthority |-> 0 .. 49],
     actions |-> {"challenge_only", "never_auto_invalidate"}],
    [name    |-> "agent_supplied_evidence",
     when    |-> [actorType |-> {"agent"}],
     actions |-> {"challenge_only"}],
    [name    |-> "high_impact_architecture",
     when    |-> [decisionImportance |-> 80 .. 100, proposedValidity |-> {"INVALIDATED"}],
     actions |-> {"require_human_review", "notify_dashboard", "create_github_comment"}] }

\* What the policies see of an evaluation.
PolicyFacts(in, proposed) ==
  [ decisionImportance |-> in.decisionImportance,
    evidenceAuthority  |-> in.evidenceAuthority,
    confidence         |-> in.confidence,
    relation           |-> in.relation,
    method             |-> in.method,
    actorType          |-> in.actorType,
    proposedValidity   |-> proposed ]

------------------------------------------------------------------------------
NoOutcome ==
  [recordConflict |-> FALSE, recordSupport |-> FALSE, nextValidity |-> Unchanged,
   flagDecision |-> FALSE, requireReview |-> FALSE]

\* Mutant: the branches are swapped.
CappedSwapped(proposed, actions) ==
  IF {"challenge_only", "never_auto_invalidate"} \cap actions = {} THEN "CHALLENGED" ELSE proposed

\* A policy can hold an invalidation back to a challenge.
Capped(proposed, actions) ==
  IF /\ proposed = "INVALIDATED"
     /\ "challenge_only" \in actions \/ "never_auto_invalidate" \in actions
    THEN "CHALLENGED"
    ELSE proposed

\* Mutant: the comparison is dropped.
AlwaysRaises(next, current) == TRUE

\* Never move backwards.
Raises(next, current) == SeverityOrder[next] > SeverityOrder[current]

\* What a check does to memory, once the contradiction is classified and the
\* policies have said which actions apply.
Outcome(in, proposed, actions) ==
  IF in.currentValidity = "SUPERSEDED" \/ "suppress" \in actions
    THEN NoOutcome
  ELSE IF in.relation = "SUPPORTS"
    THEN [NoOutcome EXCEPT !.recordSupport = TRUE]
  ELSE IF proposed = Unchanged
    THEN NoOutcome
  ELSE [ recordConflict |-> TRUE,
         recordSupport  |-> FALSE,
         nextValidity   |-> IF Raises(Capped(proposed, actions), in.currentValidity)
                              THEN Capped(proposed, actions) ELSE Unchanged,
         flagDecision   |-> "do_not_flag_decision" \notin actions,
         requireReview  |-> "require_human_review" \in actions ]

\* The current validity is the one the evaluator read.
ResolveEvaluationOutcome(in, rules) ==
  LET proposed == ClassifyConflictSeverity(in.relation, in.confidence,
                                           in.evidenceAuthority, in.assumptionAuthority)
  IN  Outcome(in, proposed, EvaluatePolicies(rules, PolicyFacts(in, proposed)))
=============================================================================
