SPECIFICATION Spec
CONSTANTS
  coptic = coptic
  hebrew = hebrew
  long = long
  mcoptic = mcoptic
  mhebrew = mhebrew
  mbroken = mbroken
  None = None
  NoId = NoId
  Files = {1, 2}
  Modules <- MCModules
  Ids = {coptic, hebrew, long}
  Overlong = {long}
  IdOf <- MCIdOf
  Runnable <- MCRunnable
  Disks <- MCDisks
  Minute = 2
  UInt64Max = 6
  LastTime = 5
INVARIANTS SlotsAgree NeverSubstituted
PROPERTIES RefusalIsRecent OneConsumerSearchesOnce
