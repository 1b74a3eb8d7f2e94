CONSTANTS
  Tasks = 2
  MaxSteps = 1
  MaxWarm = 1
  MaxCrashes = 1
SPECIFICATION Spec
PROPERTY QueuedTasksRun
CHECK_DEADLOCK FALSE
