\* One run at a time, edits at any time.
CONSTANTS
  Procs = {p1}
  Files = {f1}
  Contents = {old, new}
  Configs = {plain}
  f1 = f1
  Sorted <- OneFile
  Absent = Absent  NoKey = NoKey  NoGraph = NoGraph
SPECIFICATION Spec
INVARIANTS NoStaleEntry
