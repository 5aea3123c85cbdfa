SPECIFICATION RefSpec
CONSTANTS
  WordMod <- McWordMod
  NumRegs = 4
  Decode <- MemoryOrderDecode
  Pipes <- McPipes
  MemSize = 10
  InitMems <- MemoryOrderMems
  SequentialMems <- MemoryOrderMems
  RsSize = 8
  RobSize = 16
PROPERTIES
  ImplementsIsa
