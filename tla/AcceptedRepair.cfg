\* A failed review whose findings talk about state.
SPECIFICATION Spec
CONSTANTS
  Features = {1}
  Fixes = {2}
  HumanFixes = {}
  MaxReviewIterations = 1
  MaxTasksPerRun = 1
  MaxAiCallsPerRun = 2
  MaxRequests = 1
  MaxTaskDepth = 2
  LoopModes = {TRUE}
  RunTargets = {0}
  PlanResults <- AlwaysPlanned
  CompletionResults <- AlwaysMet
  ImplementationResults <- AlwaysPassing
  ReviewResults <- ApprovedOrFailed
  DoctorAnswers <- NoDoctor
  FixSeverities <- OnlyCritical
  Exits <- AnyExit
  ReviewReasons <- OneWording
  TextKinds <- StateReading
  TextRecoverabilities <- AgentOnly
  CanThrow = FALSE
  CanInterrupt = FALSE
INVARIANTS
  AcceptedOnlyByReview
