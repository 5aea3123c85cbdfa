SPECIFICATION DriverSpec
CONSTANTS
  WordMod <- McWordMod
  NumRegs = 4
  Decode <- FiveDecode
  Pipes <- FivePipes
  WordRegs <- FiveRegs
  Policies <- AllPolicies
  MemSize = 15
  InitMems <- FiveMems
  Cycles = 16
INVARIANTS
  TypeOK
  AluHoldsOne
  LoadUseSeparated
  WellSpacedIsSequential
