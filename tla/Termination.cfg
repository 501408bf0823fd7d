\* The steps that cost no call, and the ones that lead back to where they started.
SPECIFICATION Spec
CONSTANTS
  Features = {1}
  Fixes = {2}
  HumanFixes = {}
  MaxReviewIterations = 1
  MaxTasksPerRun = 1
  MaxAiCallsPerRun = 2
  MaxRequests = 1
  MaxTaskDepth = 2
  LoopModes = {TRUE, FALSE}
  RunTargets = {0}
  PlanResults <- AlwaysPlanned
  CompletionResults <- AnyCompletion
  ImplementationResults <- WithoutGateFailure
  ReviewResults <- WithoutBlocked
  DoctorAnswers <- NoDoctor
  FixSeverities <- OnlyCritical
  Exits <- RetryOrFix
  ReviewReasons <- OneWording
  TextKinds <- StateReading
  TextRecoverabilities <- AgentOnly
  CanThrow = FALSE
  CanInterrupt = FALSE
PROPERTIES
  RunTerminates
