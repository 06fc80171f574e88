CONSTANTS
  Words <- MCWords
  Spelling <- MCSpelling
  IdCapacity = 6
  ClockModes <- MCClockModes
  MaxLatitude = 6
  MaxLongitude = 9
  Fine = 3
  Saves = {s1, s2}
  Edits = {e1}
  Original = Original
  Originals <- MCOriginals
  Policies <- MCPolicies
  Lines <- MCLines
SYMMETRY MCSymmetry
SPECIFICATION MCSpec
INVARIANTS
  ChoiceIsKept
  LoadIsNotOlder
  FoundIsSound
