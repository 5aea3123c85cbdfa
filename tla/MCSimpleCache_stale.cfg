SPECIFICATION Spec
CONSTANTS
  Addr <- McAddr
  ValuesOf <- McValuesOf
  Sets = 2
  Assoc = 2
  LogAssoc = 1
  IdMod = 2
  InFlightBound = 2
  Owners <- SharedReads
  Downstreams <- LateDownstreams
  Policy <- McPolicy
  NewPolicy <- McNewPolicy
  LogHit <- McLogHit
  EvictionId <- McEvictionId
PROPERTIES
  WrittenValueIsRead
