CONSTANTS
  Nib = 2
  MAX_ATTEMPTS = 4
  MidMod = 4
  MessageIds = {0, 1}
  Datagrams <- AllDatagrams
  Stale = {}
  Faults = {"send", "disk"}
  InboxMax = 2
  MaxChunks = 3
  StdinUsed = TRUE
SPECIFICATION FairClientSpec
CHECK_DEADLOCK FALSE
INVARIANTS ClientTypeOK AlwaysSerialisable SendsAreBounded
PROPERTIES ReportsIfLeftAlone
