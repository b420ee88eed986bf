CONSTANTS
  Nib = 2
  MAX_ATTEMPTS = 4
  MidMod = 14
  MessageIds = {0, 1, 2, 3, 4, 5, 6}
  Datagrams <- ServerAnswers
  Stale = {}
  Faults = {}
  InboxMax = 2
  MaxChunks = 9
  StdinUsed = FALSE
  LastBlock = 7
  ServerSize = 64
  Remembers = TRUE
  PeerMarker = 255
  Reliable = TRUE
  MaxStarts = 1
SPECIFICATION TransferSpec
CHECK_DEADLOCK FALSE
INVARIANT AnswersAreParsed
