SPECIFICATION ServicesSpec
CONSTANTS
  r1 = r1
  r2 = r2
  b1 = b1
  b2 = b2
  c1 = c1
  w1 = w1
  attempt1 = attempt1
  attempt2 = attempt2
  Migrator = {r1, r2}
  StatementKind <- Files
  OptionalFile = {2}
  Request = {r1, r2}
  Body = {b1, b2}
  Unsaved = unsaved
  FirstUnits = 0
  MaxUnits = 2
  Document = {d1, d2}
  ContentOf <- OneContent
  Confirm = {r1, r2}
  Linked = {x1, x2}
  Workflow = {w1, w2}
  Attempt = {attempt1, attempt2}
  WorkflowOf <- OneWorkflow
  CompletedAt <- Completed
  Reporter = {r1, r2}
  MaxWorkflows = 1
  Node = {1, 2, 3, 4}
  MaxDepth = 2
  ListLimit = 2
  MaxHistory = 1
  Number = {1, 2}
  Text <- TextValues
  List <- ListValues
  VersionOf <- Versions
  DateOf <- Dates
  AssumptionSpec <- Assumptions
  Fact <- Facts
  MaxFacts = 2
  SignUp = {r1, r2}
  Email = {e1, e2}
  Shared = shared
  Item <- Items
  RuleSet <- RuleSets
  Trust <- Trusts
  Importance <- Imports
INVARIANTS
  ServicesTypeOK
  RecordedMeansApplied
  FilesInOrder
  IndexedMeansWhole
  KeyNamesOneDecision
  UnindexedIsKnown
  ApprovedAddsOnce
  ProcessedIsSearchable
  ProcessedIsEvidence
  LatestReceiptShown
  BlastRadiusComplete
  VerdictFollowsFacts
  OneOwner
  WorstVerdictStands
  PoliciesOnlySoften
CONSTRAINTS FewUnits InOrder
SYMMETRY Interchangeable
CHECK_DEADLOCK FALSE
