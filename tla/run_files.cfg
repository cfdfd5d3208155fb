SPECIFICATION Spec
CONSTANTS
  Dirs = {d1, d2}
  MaxCommands = 3
  MaxLog = 2
SYMMETRY DirSymmetry
INVARIANTS
  RunJsonIsNewest
  HistoryIsOwn
PROPERTIES
  SavedIsOnDisk
CHECK_DEADLOCK FALSE
