CONSTANTS
  Max <- MCMax
  Clock <- MCClock
  Configs <- MCConfigs
SPECIFICATION Spec
INVARIANTS
  StepsAreExact
  TicksAreAccounted
  StaysUsable
