SPECIFICATION Spec
CONSTANTS
  Turns <- FourTurns
  Channels <- Rooms
  ChannelOf <- Where
  GuildOf <- OneGuild
  Optional <- Opportunities
  Concurrency <- TwoAtOnce
  MaxPendingPerChannel = 1
  MaxPendingGlobal = 1
  Users <- People
  UserOf <- Who
  Durable <- SharedOnly
  None = None
  Out = Out
  MaxForgets = 1
  MaxStops = 1
INVARIANTS
  BooksBalance
  NobodyIsStuck
  ForgottenStaysForgotten
PROPERTIES
  QuestionsAreKept
CHECK_DEADLOCK FALSE
