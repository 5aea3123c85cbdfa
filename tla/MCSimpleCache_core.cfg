SPECIFICATION FairSpec
CONSTANTS
  Addr <- McAddr
  ValuesOf <- McValuesOf
  Sets = 2
  Assoc = 2
  LogAssoc = 1
  IdMod = 2
  InFlightBound = 2
  Owners <- AllOwners
  Downstreams <- McDownstreams
  Policy <- McPolicy
  NewPolicy <- McNewPolicy
  LogHit <- McLogHit
  EvictionId <- McEvictionId
INVARIANTS
  TypeOK
  LinesAgreeWithStore
  PendingIsAwaited
PROPERTIES
  IsAtomicMemory
  EveryRequestAnswered
