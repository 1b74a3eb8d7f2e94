CONSTANTS
  Tasks = 2
  MaxSteps = 1
  MaxWarm = 1
  MaxCrashes = 1
SPECIFICATION Spec
INVARIANTS
  AssistantTypeOK
  TurnTaskAgree
PROPERTIES
  EndedIsFinal
  ReadableSummaryStays
  TasksEnd
CHECK_DEADLOCK FALSE
