SPECIFICATION ContextSpec
CONSTANTS
  d1 = d1  d2 = d2  a1 = a1  n1 = n1  p1 = p1  None = None
  Decision = {d1, d2}
  Assumption = {a1}
  Of <- AllOnFirst
  AssumptionAuthority <- Trust80
  DecisionImportance <- Important
  Expiring = {a1}
  Synonym = {}
  Event = {}
  Authority <- NoFunction
  ActorType <- NoFunction
  Evidence = {}
  EventOf <- NoFunction
  Sweep = {n1}
  Judgement = {}
  Rules = {}
  Run = {}
  Person = {p1}
  Overrun = FALSE
  Governs = {d1}
  Ask <- AnyAsk
CONSTRAINT NoProposals
INVARIANTS ContextTypeOK GoverningIsTold StopNotMissed DoubtIsTold ReplacementGoverns
