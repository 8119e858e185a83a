SPECIFICATION WatcherSpec
CONSTANTS
  NPaths = 3
  Dirs = {1, 2, 3}
  DirOf <- MCDirOf
  Parent <- MCParent
  LateDirs = {3}
  MainDirs = {1, 3}
  TaskDirs = {1, 2}
  MaxChanges = 2
  MaxCommands = 1
  MaxFailures = 1
PROPERTIES WatcherCatchesUp
CHECK_DEADLOCK FALSE
