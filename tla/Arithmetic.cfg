CONSTANTS
  Max <- MCMax
  TimeMax <- MCTimeMax
  InitialCapacities <- MCInitialCapacities
  Instants <- MCInstants
  Overflow = Overflow
  Refused = Refused
  MsPerSecond = 3
  NsPerMs = 2
  LimbBits = 2
  Limbs = 3
  Precision = 2
  LeastExponent = 1
  MostExponent = 2
  LeastOrder = 1
  MostOrder = 0
  DecimalDigits = 3
SPECIFICATION MCSpec
INVARIANTS
  Exact
  OverflowIsReal
  BoundaryIsNext
  CheckedIsExact
  DeadlineIsNext
  BigIsExact
  ParsedIsNearest
CHECK_DEADLOCK FALSE
