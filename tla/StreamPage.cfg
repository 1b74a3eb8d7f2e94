CONSTANTS
  S = S
  NoSession = NoSession
  Transcripts = 2
  MaxBuffer = 2
  MaxSegments <- TwoAndOne
  MaxCuts = 1
  Verdicts = {"completed", "failed"}
SPECIFICATION Spec
INVARIANTS
  StreamTypeOK
  NoGap
PROPERTIES
  SocketCloses
  Converges
CHECK_DEADLOCK FALSE
