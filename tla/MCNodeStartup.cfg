\* Two nodes with one identity file or one each, three starts in all.
CONSTANTS
  p1 = p1
  p2 = p2
  d1 = d1
  d2 = d2
  k1 = k1
  k2 = k2
  k3 = k3
  Procs = {p1, p2}
  Paths = {d1, d2}
  Keys = {k1, k2, k3}
  Absent = Absent
  Torn = Torn
  NoKey = NoKey
  MaxStarts = 3
SPECIFICATION Spec
INVARIANTS
  StakesRecoverable
  UnreadableHasCause
  FirstTryIsClean
PROPERTY
  TasksEnd
CHECK_DEADLOCK FALSE
