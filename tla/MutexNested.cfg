CONSTANTS
  hi = hi
  mid = mid
  lo = lo
  m = m
  n = n
  None = None
  Thread = {hi, mid, lo}
  Mutex = {m, n}
  Flag = "RT_IPC_FLAG_PRIO"
  Base <- MCBase
  ValueMod = 4
  HoldMod = 4
  MaxDepth = 2
  Nesting <- Ordered
  Timed = {mid}
  Detachers = {}
  Signalled = {}
  MaxKills = 0
SPECIFICATION Spec
INVARIANTS
  HoldersAgree
  NoIdleMutex
PROPERTIES
  OnlyOwnReleaseLowers
  ImplementsLock
