CONSTANTS
  Words <- MCWords
  Spelling <- MCSpelling
  IdCapacity = 6
  ClockModes <- MCClockModes
  MaxLatitude = 6
  MaxLongitude = 9
  Fine = 3
  Saves = {s1}
  Edits = {}
  Original = Original
  Originals <- MCOriginals
  Policies <- HyphenPolicies
  Lines <- MCLines
SPECIFICATION Spec
INVARIANT IdsHaveSingleHyphens
