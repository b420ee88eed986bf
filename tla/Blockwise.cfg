CONSTANTS
  Nib = 16
  LastBlock = 4095
  ServerSizes = {16, 1024}
SPECIFICATION Spec
CHECK_DEADLOCK FALSE
INVARIANTS TypeOK InStep SizeKept
