SPECIFICATION Spec
CONSTANTS
  d1 = d1  d2 = d2  a1 = a1  a2 = a2  e1 = e1  e2 = e2  x1 = x1  x2 = x2
  n1 = n1  r1 = r1  r2 = r2  p1 = p1  p2 = p2  None = None
  Decision <- TwoDecisions
  Assumption <- OneAssumption
  Of <- FirstOnFirst
  AssumptionAuthority <- Trust80
  DecisionImportance <- Important
  Expiring = {}
  Synonym = {}
  Event <- OneEvent
  Authority <- FirstStrong
  ActorType <- Integration
  Evidence <- TwoEvidence
  EventOf <- TwoReadings
  Sweep = {}
  Judgement <- OnlyContradicts
  Rules <- DefaultPolicies
  Run = {r1, r2}
  Person = {p1}
  Overrun = TRUE
CONSTRAINT ReplacementOnly
SYMMETRY RunSymmetry
INVARIANTS TypeOK RiskHasReason ConfirmedNeverRestored ReviewAgreesWithConflict
PROPERTIES HistoryIsFinal KeepsTrust
CHECK_DEADLOCK FALSE
