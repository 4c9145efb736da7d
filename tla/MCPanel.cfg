\* The panel of one guild: two messages, two calls at a time, two edits in
\* one tick, a debounce of one tick and a longest wait of one.
CONSTANTS
    Messages = {"queue", "lyrics"}
    Jobs = {1, 2}
    Priority <- MCPriority
    MaxEdits = 2
    Window = 1
    Debounce = 1
    MaxWait = 1
    Floor <- MCFloor
    Interval = 1
    None = None
    Out = Out
SPECIFICATION FairSpec
INVARIANTS
  PanelInOrder
  NothingIsStranded
  NoBatchStarves
PROPERTIES
  EveryCallEnds
  QueueCatchesUp
