CONSTANTS
  s1 = s1
  r1 = r1
  r2 = r2
  Mic = Mic
  System = System
  NoSession = NoSession
  Session <- OneSession
  Kind <- TwoKinds
  Request <- OneRequest
  Transcripts = 2
  Window = 2
  MaxChunks <- TwoAndOne
  MaxCrashes = 0
  MaxErrors = 0
  Hearings = {"whole", "late", "cut"}
  Outcomes = {"engine_error"}
SPECIFICATION Spec
CHECK_DEADLOCK FALSE
INVARIANTS
  OutstandingIsExact
  TracksInOrder
  NothingHeardIsLost
  OnDemandReadsAll
