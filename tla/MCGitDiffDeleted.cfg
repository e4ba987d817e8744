\* A deleted file.
CONSTANTS
  fA = fA  fB = fB  caf = caf  quoted = quoted  plain = plain
  Files = {fA, fB, caf}
  Lines = {plain, HeaderLine}
  HeaderLine = HeaderLine  NoFile = NoFile  Stray = Stray
  Printed <- MCPrinted
  Diffs <- DeletionDiffs
  modA = modA  modB = modB
  Modules = {modA, modB}
  Directory = Directory  Version = Version  Name = Name  Hash = Hash
  RangeStart = RangeStart  RangeEnd = RangeEnd
  ModDiffs <- MCModDiffs
  Questions <- DeletionQuestions
SPECIFICATION ModSpec
INVARIANT DeletionsCount
