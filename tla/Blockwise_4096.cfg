CONSTANTS
  Nib = 16
  LastBlock = 4100
  ServerSizes = {16, 1024}
SPECIFICATION Spec
CHECK_DEADLOCK FALSE
INVARIANT InStep
