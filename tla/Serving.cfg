SPECIFICATION ServingSpec
CONSTANTS
  r1 = r1
  r2 = r2
  k1 = k1
  k2 = k2
  k3 = k3
  v1 = v1
  v2 = v2
  LruKeys = {k1, k2, k3}
  LruValues = {v1, v2}
  LruCapacity = 2
  MaxClock = 5
  Threshold = 2
  MaxWrites = 3
  MaxHostCalls = 3
  Streams = {"d", "x", "u", "a", "b"}
  Kind <- KindOf
  MaxBytes = 2
  Chunks = {2}
  MaxCalls = 1
  MaxMessages = 2
  MaxRtcCalls = 4
  Scripts <- ClientScripts
  Budget = 3
INVARIANTS
  NothingLost
  AnswerKept
  ReadInOrder
  KeepsFraming
  BodyIsWhole
PROPERTIES
  EvictsOldest
  OpenEnds
  Answered
  RelaysBytes
  WriteCloseWakes
  SilenceIsNoticed
  ConnectReturns
  Served
CHECK_DEADLOCK FALSE
