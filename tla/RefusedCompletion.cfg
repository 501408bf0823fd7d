\* A feature whose acceptance criteria are first unmet, then acknowledged.
SPECIFICATION Spec
CONSTANTS
  Features = {1}
  Fixes = {2}
  HumanFixes = {}
  MaxReviewIterations = 1
  MaxTasksPerRun = 1
  MaxAiCallsPerRun = 2
  MaxRequests = 1
  MaxTaskDepth = 2
  LoopModes = {TRUE}
  RunTargets = {0}
  PlanResults <- AlwaysPlanned
  CompletionResults <- AnyCompletion
  ImplementationResults <- AlwaysPassing
  ReviewResults <- AlwaysApproved
  DoctorAnswers <- NoDoctor
  FixSeverities <- OnlyCritical
  Exits <- AnyExit
  ReviewReasons <- OneWording
  TextKinds <- OtherReading
  TextRecoverabilities <- AgentOnly
  CanThrow = FALSE
  CanInterrupt = FALSE
INVARIANTS
  RefusalIsTrue
