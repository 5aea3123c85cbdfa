SPECIFICATION RefSpec
CONSTANTS
  WordMod <- McWordMod
  NumRegs = 4
  Decode <- JumpDecode
  Pipes <- McPipes
  MemSize = 12
  InitMems <- JumpMems
  SequentialMems <- JumpMems
  RsSize = 8
  RobSize = 16
PROPERTIES
  CommitsFollowControlFlow
