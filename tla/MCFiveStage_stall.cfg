SPECIFICATION DriverSpec
CONSTANTS
  WordMod <- McWordMod
  NumRegs = 4
  Decode <- FiveDecode
  Pipes <- FivePipes
  WordRegs <- FiveRegs
  Policies <- DriverPolicies
  MemSize = 15
  InitMems <- LoadUseMems
  Cycles = 16
PROPERTY StallHoldsDecode
