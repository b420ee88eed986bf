CONSTANTS
  UshortMax = 3
  UintMod = 16
  CommandLines <- AllCommandLines
  Segments = {"7up", "x", "data", "example.bin"}
  DigitLed <- SomeDigitLed
  Resolutions <- AllResolutions
SPECIFICATION Spec
CHECK_DEADLOCK FALSE
INVARIANTS TypeOK AsGiven PortIsUsable IPv4Agrees IPv6Agrees
