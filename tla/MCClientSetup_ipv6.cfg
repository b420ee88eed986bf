CONSTANTS
  UshortMax = 3
  UintMod = 16
  CommandLines <- IPv6CommandLines
  Segments = {"7up", "x", "data", "example.bin"}
  DigitLed <- SomeDigitLed
  Resolutions <- AllResolutions
SPECIFICATION Spec
CHECK_DEADLOCK FALSE
INVARIANT DestinationIsKnown
