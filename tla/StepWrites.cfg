\* One feature and one fix, a process that is killed twice.
SPECIFICATION Spec
CONSTANTS
  Requests = 1
  MaxTasks = 2
  ArcSize = 2
  MaxCorrections = 1
  MaxEdits = 1
  MaxMishaps = 2
INVARIANTS
  TypeOk
  PointersResolve
  ReviewedDiffIsOwn
  GatesJudgeThisDiff
  InterruptedAttemptIsAccepted
  CompletionLeavesNothing
PROPERTIES
  DiscardsAreArchived
\* The kills and edits are used up, and the person may commit nothing.
CHECK_DEADLOCK FALSE
