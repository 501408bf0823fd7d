\* One run on a platform without a process-tree kill, stopped with Ctrl-C.
SPECIFICATION Spec
CONSTANTS
  Platforms <- Posix
  MaxRuns = 1
  MaxSteps = 1
  MaxFailures = 0
INVARIANTS
  TerminatedRunStops
\* The session may be left at its prompt.
CHECK_DEADLOCK FALSE
