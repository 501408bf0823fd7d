\* The best case: every task of the fix is planned, implemented and approved.
SPECIFICATION BestCaseSpec
CONSTANTS
  Features = {1}
  Fixes = {2}
  HumanFixes = {}
  MaxReviewIterations = 1
  MaxTasksPerRun = 1
  MaxAiCallsPerRun = 4
  MaxRequests = 1
  MaxTaskDepth = 2
  LoopModes = {TRUE}
  RunTargets = {0}
  PlanResults <- AnyPlan
  CompletionResults <- AlwaysMet
  ImplementationResults <- AlwaysPassing
  ReviewResults <- AlwaysApproved
  DoctorAnswers <- FilingDoctor
  FixSeverities <- OnlyCritical
  Exits <- AnyExit
  ReviewReasons <- OneWording
  TextKinds <- OtherReading
  TextRecoverabilities <- HumanOnly
  CanThrow = FALSE
  CanInterrupt = FALSE
PROPERTIES
  FixUnblocks
