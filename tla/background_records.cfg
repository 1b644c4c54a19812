SPECIFICATION Spec
CONSTANTS
  Process = {p1, p2}
  MaxTime = 2
  MaxArmed = 2
  MaxFires = 3
  LogId = {1, 2, 3}
  MaxSkew = 1
  Happening = {h1}
  MaxRows = 2
  MaxTokens = 3
  Inbound = {m1, m2}
  Fates <- FatesOfTwo
SYMMETRY RecordSymmetry
INVARIANTS
  TypeOK
  FiresAccountedFor
  ChainIsLinear
  IndexedIsWhole
  EventsAccountedFor
  GrantKept
  InboundOnce
  StatusIsLatest
CHECK_DEADLOCK FALSE
