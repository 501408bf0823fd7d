\* Two runs of one session, a failing append, both platforms.
SPECIFICATION Spec
CONSTANTS
  Platforms <- BothPlatforms
  MaxRuns = 2
  MaxSteps = 2
  MaxFailures = 1
INVARIANTS
  TypeOk
  NarrationArrives
  StoppedOnlyByRequest
  SoftStopIsPrompt
  ExitTellsBlocked
PROPERTIES
  ImplementsFeed
\* The session may be left at its prompt.
CHECK_DEADLOCK FALSE
