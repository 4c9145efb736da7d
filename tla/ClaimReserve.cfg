SPECIFICATION Spec
CONSTANTS
  Turns <- FourTurns
  Channels <- Rooms
  ChannelOf <- Where
  GuildOf <- OneGuild
  Optional <- Opportunities
  Concurrency <- TwoAtOnce
  MaxPendingPerChannel = 1
  MaxPendingGlobal = 1
  Users <- People
  UserOf <- Who
  Durable <- SharedOnly
  None = None
  Out = Out
  MaxForgets = 0
  MaxStops = 0
PROPERTIES
  ReservedInTime
CHECK_DEADLOCK FALSE
