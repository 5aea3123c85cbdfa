SPECIFICATION Spec
CONSTANTS
  WordMod = 128
  NumRegs = 4
  Decode <- DefaultDecode
  Pipes <- McPipes
  MemSize = 64
  InitMems <- DefaultMems
  RsSize = 8
  RobSize = 16
INVARIANTS
  BackpressureHolds
