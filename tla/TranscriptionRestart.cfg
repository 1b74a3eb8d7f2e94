CONSTANTS
  s1 = s1
  r1 = r1
  r2 = r2
  Mic = Mic
  System = System
  NoSession = NoSession
  Session <- OneSession
  Kind <- TwoKinds
  Request <- OneRequest
  Transcripts = 2
  Window = 2
  MaxChunks <- OneEach
  MaxCrashes = 1
  MaxErrors = 1
  Hearings = {"whole"}
  Outcomes = {"engine_error", "not_ready", "not_installed"}
SPECIFICATION FairSpec
CHECK_DEADLOCK FALSE
INVARIANTS
  TypeOK
  NoDuplicates
PROPERTIES
  EndedIsStable
  CurrentOnlyImproves
  StoppedIsSettled
  OnDemandEnds
