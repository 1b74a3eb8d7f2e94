CONSTANTS
  WindowS = 2
  Budget = 2
  MaxMarker = 3
  Transcripts <- SomeTranscripts
  Sizes = {1, 3}
  Cites <- SomeCites
  Bullets = 1
  Scores = {0, 1}
SPECIFICATION Spec
INVARIANTS
  PromptsFit
  CitationsAreSaid
PROPERTY TextEnds
CHECK_DEADLOCK FALSE
