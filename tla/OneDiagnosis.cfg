\* A refused plan, an agreed stop, and the next run.
SPECIFICATION Spec
CONSTANTS
  Features = {1}
  Fixes = {2}
  HumanFixes = {}
  MaxReviewIterations = 1
  MaxTasksPerRun = 1
  MaxAiCallsPerRun = 2
  MaxRequests = 1
  MaxTaskDepth = 2
  LoopModes = {TRUE}
  RunTargets = {0}
  PlanResults <- AnyPlan
  CompletionResults <- AlwaysMet
  ImplementationResults <- AlwaysPassing
  ReviewResults <- AlwaysApproved
  DoctorAnswers <- NoDoctor
  FixSeverities <- OnlyCritical
  Exits <- AnyExit
  ReviewReasons <- OneWording
  TextKinds <- OtherReading
  TextRecoverabilities <- HumanOnly
  CanThrow = FALSE
  CanInterrupt = FALSE
PROPERTIES
  OneDiagnosisPerBlocker
