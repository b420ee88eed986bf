CONSTANTS
  Nib = 2
  MAX_ATTEMPTS = 4
  MidMod = 14
  MessageIds = {0, 1, 2, 3, 4, 5, 6}
  Datagrams <- ServerAnswers
  Stale = {}
  Faults = {}
  InboxMax = 2
  MaxChunks = 17
  StdinUsed = FALSE
  LastBlock = 7
  ServerSize = 64
  Remembers = TRUE
  PeerMarker = 0
  Reliable = TRUE
  MaxStarts = 2
SPECIFICATION FairTransferSpec
CHECK_DEADLOCK FALSE
INVARIANTS NoNeedlessRetry InOrder
PROPERTIES Completes ImplementsDownload
