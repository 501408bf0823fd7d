\* One feature and one fix; everything that fails, blocks, is stopped, files a fix and resumes,
\* with every exit a person may take, on any item the menu lists.
SPECIFICATION Spec
CONSTANTS
  Features = {1}
  Fixes = {2}
  HumanFixes = {}
  MaxReviewIterations = 1
  MaxTasksPerRun = 1
  MaxAiCallsPerRun = 1
  MaxRequests = 1
  MaxTaskDepth = 2
  LoopModes = {TRUE}
  RunTargets = {0}
  PlanResults <- AnyPlan
  CompletionResults <- AnyCompletion
  ImplementationResults <- WithoutWaiver
  ReviewResults <- AnyReview
  DoctorAnswers <- ToldDoctor
  FixSeverities <- OnlyCritical
  Exits <- AnyExit
  ReviewReasons <- OneWording
  TextKinds <- StateReading
  TextRecoverabilities <- HumanOnly
  CanThrow = FALSE
  CanInterrupt = TRUE
INVARIANTS
  TypeOk
  RestorationIsRunnable
  FixWaitIsResumable
  BlockedIsRecorded
  WorkIsValidated
  NoOrphanedTask
  ReviewConsistent
PROPERTIES
  AckMarksExhaustedBlock
  HumanGate
  ResumeOnlyWhenFixCompleted
  CompletionIsFinal
  CompletionIsEarned
