CONSTANTS
  Nib = 2
  MAX_ATTEMPTS = 2
  MidMod = 6
  MessageIds = {0, 1, 2}
  Datagrams <- ServerAnswers
  Stale = {}
  Faults = {"disk"}
  InboxMax = 2
  MaxChunks = 9
  StdinUsed = FALSE
  LastBlock = 2
  ServerSize = 64
  Remembers = FALSE
  PeerMarker = 0
  Reliable = FALSE
  MaxStarts = 1
SPECIFICATION TransferSpec
CHECK_DEADLOCK FALSE
INVARIANT CompleteIsWhole
