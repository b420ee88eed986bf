CONSTANTS
  Plain = 2
  TOKEN_MAX_LENGTH = 2
  OPTION_MAX_NUMBER = 24
  StableLimit = 2
  Options <- SomeOptions
  TokenOctets = {9}
  Payloads <- SomePayloads
  Arriving <- AllBodies
  ArrivingLater <- FewBodies
  Beyond <- Around
  BeyondOctets = {0, 1}
  MaxOptions = 3
  MaxPayload = 1
SPECIFICATION Spec
CHECK_DEADLOCK FALSE
INVARIANTS TypeOK WhatIsWrittenIsRead MeasuredIsEnough PathKept BitmapIsOfOptions FindNeverMisses PastEndIrrelevant
