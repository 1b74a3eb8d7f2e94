CONSTANTS
  s1 = s1
  s2 = s2
  mic = mic
  system = system
  NoSession = NoSession
  Session <- OneSession
  Kind <- TwoKinds
  QueueSize = 1
  ChunkFrames = 2
  MaxGap = 0
  MaxFrames = 3
  MaxCrashes = 1
  Faults = {"enospc", "vanished"}
SPECIFICATION FairSpec
CHECK_DEADLOCK FALSE
PROPERTIES
  LockIsReleased
  StopFinishes
  DiskFullFinishes
  AllLostFinishes
