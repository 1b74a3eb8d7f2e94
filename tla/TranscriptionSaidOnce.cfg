CONSTANTS
  s1 = s1
  r1 = r1
  r2 = r2
  Mic = Mic
  System = System
  NoSession = NoSession
  Session <- OneSession
  Kind <- TwoKinds
  Request <- OneRequest
  Transcripts = 2
  Window = 3
  MaxChunks <- TwoEach
  MaxCrashes = 0
  MaxErrors = 0
  Hearings = {"late"}
  Outcomes = {}
SPECIFICATION Spec
CHECK_DEADLOCK FALSE
INVARIANTS
  SaidOnce
