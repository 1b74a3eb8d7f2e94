CONSTANTS
  s1 = s1
  s2 = s2
  mic = mic
  system = system
  NoSession = NoSession
  Session <- OneSession
  Kind <- TwoKinds
  QueueSize = 2
  ChunkFrames = 2
  MaxGap = 1
  MaxFrames = 4
  MaxCrashes = 1
  Faults = {"enospc", "oserror", "unavailable"}
SPECIFICATION Spec
CHECK_DEADLOCK FALSE
INVARIANTS
  TypeOK
  RowsAreFiles
  ChunksContiguous
  CountsMatchRows
  AudioConserved
  DurationIsAudio
  RecoveredMatchesDisk
  LossEventIsExact
  NoOrphanStream
PROPERTY FinishedIsFinal
