CONSTANTS
  s1 = s1
  s2 = s2
  mic = mic
  system = system
  NoSession = NoSession
  Session <- TwoSessions
  Kind <- OneKind
  QueueSize = 1
  ChunkFrames = 2
  MaxGap = 0
  MaxFrames = 2
  MaxCrashes = 1
  Faults = {"sqlite"}
SPECIFICATION Spec
CHECK_DEADLOCK FALSE
INVARIANTS
  OneActiveSession
  FinishedLosesNothing
PROPERTY ImplementsFeed
