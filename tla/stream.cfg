SPECIFICATION Spec
CONSTANTS
  Payload <- FEF800
  MaxFrames = 12
  MaxAcks = 1
  Ahead = 40
  Noise = {0, 1, 8, 15}
  MaxFaults = 1
INVARIANTS
  TypeOK
  InStep
  DamageIsLocal
  Genuine
  FoundAgain
PROPERTY
  OneDigitRefused
CHECK_DEADLOCK FALSE
