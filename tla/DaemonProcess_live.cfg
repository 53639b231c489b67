CONSTANTS
  Daemons = {d1, d2}
  Agents = {a1}
  Nobody = Nobody
SPECIFICATION LiveSpec
INVARIANTS
  TypeOK
  GenerationsDiffer
  UnfinishedJobsSurvive
  UnmountedWhenGone
PROPERTIES
  StopIsNotUndone
  StopEnds
CHECK_DEADLOCK FALSE
