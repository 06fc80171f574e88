SPECIFICATION Spec
CONSTANTS
  coptic = coptic
  hebrew = hebrew
  long = long
  mcoptic = mcoptic
  mhebrew = mhebrew
  mbroken = mbroken
  None = None
  NoId = NoId
  Files = {1, 2}
  Modules <- MCModules
  Ids = {coptic, hebrew}
  Overlong = {}
  IdOf <- MCIdOf
  Runnable <- MCRunnable
  Disks <- WithoutCoptic
  Minute = 2
  UInt64Max = 6
  LastTime = 5
PROPERTIES RetriedOncePerMinute
