SPECIFICATION FairSpec
CONSTANTS
  WordMod <- McWordMod
  NumRegs = 4
  Decode <- CoreDecode
  Pipes <- McPipes
  MemSize = 10
  InitMems <- CoreMems
  RsSize = 3
  RobSize = 4
INVARIANTS
  TypeOK
  RatTracksYoungestWriter
  NoLostProducer
  OperandsReadyInExecution
  OneHome
  AluKeepsUp
  StallHasBranch
  RobWindow
  SkidBound
PROPERTIES
  EveryIssueCommits
  StallsEnd
