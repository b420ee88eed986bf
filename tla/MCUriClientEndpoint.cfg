CONSTANTS
  Nib = 2
  MAX_ATTEMPTS = 2
  MidMod = 3
  MessageIds = {0, 2}
  Datagrams <- AllDatagrams
  Stale <- StaleOptions
  Faults = {"send", "receive", "disk"}
  InboxMax = 1
  MaxChunks = 2
SPECIFICATION Spec
CHECK_DEADLOCK FALSE
INVARIANTS TypeOK ReceiveNeverBlocks
PROPERTIES ChunkAnswersLastRequest ChunkIsOnePayload RetransmissionRepeats
