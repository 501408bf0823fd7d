\* Two features, one human and one filed fix, open and targeted runs.
SPECIFICATION Spec
CONSTANTS
  Features = {1, 2}
  Fixes = {3, 4}
  HumanFixes = {3}
  MaxReviewIterations = 1
  MaxTasksPerRun = 1
  MaxAiCallsPerRun = 3
  MaxRequests = 1
  MaxTaskDepth = 2
  LoopModes = {TRUE}
  RunTargets = {0, 1}
  PlanResults <- AlwaysPlanned
  CompletionResults <- AlwaysMet
  ImplementationResults <- PassingOrWaived
  ReviewResults <- AlwaysApproved
  DoctorAnswers <- NoDoctor
  FixSeverities <- AnySeverity
  Exits <- RetryOrFix
  ReviewReasons <- OneWording
  TextKinds <- OtherReading
  TextRecoverabilities <- AgentOnly
  CanThrow = TRUE
  CanInterrupt = FALSE
INVARIANTS
  FixWaitIsResumable
PROPERTIES
  RunScope
  StartsOnlyWhenNothingInFlight
  QuiescentExit
