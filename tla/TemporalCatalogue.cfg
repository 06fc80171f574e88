SPECIFICATION MCSpec
CONSTANTS
  t1 = t1
  t2 = t2
  compiled = compiled
  coptic = coptic
  hebrew = hebrew
  sundial = sundial
  mcoptic = mcoptic
  mhebrew = mhebrew
  mcoptic2 = mcoptic2
  mcompiled = mcompiled
  msundial = msundial
  mbroken = mbroken
  moon = moon
  mmoon = mmoon
  None = None
  Threads <- MCThreads
  Files = {1, 2, 3}
  Modules <- MCModules
  Ids <- MCIds
  IdOf <- MCIdOf
  KindOf <- MCKindOf
  Builtins <- MCBuiltins
  Disks <- MCDisks
  Mutable <- MCMutable
  FirstCapacity = 1
  Requests <- MCRequests
INVARIANTS AnswersStand InstalledIsListed IdsAreUnique InFileOrder 
PROPERTIES CallsReturn
