\* Diffs of every kind, of one and two files, and of go.mod and go.sum of up to three lines.
CONSTANTS
  fA = fA  fB = fB  caf = caf  quoted = quoted  plain = plain
  Files = {fA, fB, caf}
  Lines = {plain, HeaderLine}
  HeaderLine = HeaderLine  NoFile = NoFile  Stray = Stray
  Printed <- MCPrinted
  Diffs <- MCDiffs
  modA = modA  modB = modB
  Modules = {modA, modB}
  Directory = Directory  Version = Version  Name = Name  Hash = Hash
  RangeStart = RangeStart  RangeEnd = RangeEnd
  ModDiffs <- MCModDiffs
  Questions <- MCQuestions
SPECIFICATION ModSpec
INVARIANTS HunksExact VersionsNamed NeverNothing
