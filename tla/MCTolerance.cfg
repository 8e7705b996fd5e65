SPECIFICATION EvaluationSpec
CONSTANTS
  Item <- Forecast
  RuleSet <- DefaultsOnly
  Trust <- Eighty
  Importance <- Imports
INVARIANT ToleranceIsATenth
CHECK_DEADLOCK FALSE
