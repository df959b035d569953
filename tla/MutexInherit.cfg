CONSTANTS
  hi = hi
  mid = mid
  lo = lo
  m = m
  n = n
  None = None
  Thread = {hi, mid, lo}
  Mutex = {m}
  Flag = "RT_IPC_FLAG_PRIO"
  Base <- MCBase
  ValueMod = 4
  HoldMod = 4
  MaxDepth = 2
  Nesting <- NoNesting
  Timed = {mid, lo}
  Detachers = {lo}
  Signalled = {mid, hi}
  MaxKills = 2
SPECIFICATION FairSpec
INVARIANTS
  NoInversion
  PriorityRestored
  WaitListsInOrder
PROPERTIES
  UrgentTakeEnds
CHECK_DEADLOCK FALSE
