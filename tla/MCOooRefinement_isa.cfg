SPECIFICATION RefSpec
CONSTANTS
  WordMod <- McWordMod
  NumRegs = 4
  Decode <- IsaDecode
  Pipes <- McPipes
  MemSize = 11
  InitMems <- IsaMems
  SequentialMems <- IsaSequentialMems
  RsSize = 4
  RobSize = 5
INVARIANTS
  StoresDrained
PROPERTIES
  ImplementsIsa
