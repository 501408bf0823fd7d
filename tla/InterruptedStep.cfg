\* One run, asked once to stop.
SPECIFICATION Spec
CONSTANTS
  Platforms <- BothPlatforms
  MaxRuns = 1
  MaxSteps = 1
  MaxFailures = 0
INVARIANTS
  StepInFlightFinishes
\* The session may be left at its prompt.
CHECK_DEADLOCK FALSE
