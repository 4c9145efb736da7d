SPECIFICATION Spec
CONSTANTS
  Tracks = {a, b}
  None = None
  Listeners = {u, v}
  MaxQueue = 1
  RerollLimit = 1
  MaxRetries = 1
  EmptyChannelAction = "leave"
  StaysConnected = FALSE
  ResumeWhenOccupied = TRUE
SYMMETRY Symmetric
INVARIANTS
  VoteInOrder
  LyricsSettle
  SessionEndsIdle
