CONSTANTS
  s1 = s1
  s2 = s2
  mic = mic
  system = system
  NoSession = NoSession
  Session <- OneSession
  Kind <- OneKind
  QueueSize = 2
  ChunkFrames = 2
  MaxGap = 0
  MaxFrames = 4
  MaxCrashes = 0
  Faults = {"enospc"}
SPECIFICATION Spec
CHECK_DEADLOCK FALSE
INVARIANT EndNeverWaitsForDeadWriter
