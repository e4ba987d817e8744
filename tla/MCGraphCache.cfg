\* Two runs over one file, two configurations, edited at any time.
CONSTANTS
  Procs = {p1, p2}
  Files = {f1}
  Contents = {old, new}
  Configs = {plain, tagged}
  f1 = f1
  Sorted <- OneFile
  Absent = Absent  NoKey = NoKey  NoGraph = NoGraph
SPECIFICATION Spec
INVARIANTS TypeOK EntriesWhole StoreSound
PROPERTIES ImplementsOnDemand RunsEnd
