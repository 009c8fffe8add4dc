SPECIFICATION Spec
CONSTANTS
  Files <- F3
  Disks <- Trees
  CommandLines <- Usages
  PathNames <- WorldPathNames
  RegularFiles <- WorldFiles
  Links <- WorldLinks
  ProjectRoot <- WorldRoot
  SourceNames <- WorldNames
INVARIANTS
  TypeOK
  OneUnitPerPath
  LoadingIsTheStack
  LoadedIsComplete
  ExitsClean
PROPERTIES
  UnitsOnlyGrow
  LoadsTheClosure
  LoadingEnds
CHECK_DEADLOCK FALSE
