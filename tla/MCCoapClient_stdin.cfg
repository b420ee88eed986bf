CONSTANTS
  Nib = 2
  MAX_ATTEMPTS = 4
  MidMod = 4
  MessageIds = {0, 1}
  Datagrams <- AllDatagrams
  Stale = {}
  Faults = {"send"}
  InboxMax = 1
  MaxChunks = 1
  StdinUsed = TRUE
SPECIFICATION FairClientSpec
CHECK_DEADLOCK FALSE
PROPERTY Reports
