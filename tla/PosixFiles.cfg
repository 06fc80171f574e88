CONSTANTS
  Max <- MCMax
  Fds <- MCFds
  Overflow = Overflow
  Depth = 3
  MaxChanges = 1
  Size = 3
  FirstReserve = 2
  Contents <- MCContents
  MaxEdits = 2
  Threads <- MCThreads
  Operations <- MCOperations
  OffsetMax = 4
  MaxCount = 3
  Length = 2
  Casts <- MCCasts
SPECIFICATION MCSpec
INVARIANTS
  DescriptorsAreOwned
  PathIsMade
  TextIsTold
  TransfersAreExact
PROPERTY
  CallsReturn
CHECK_DEADLOCK FALSE
