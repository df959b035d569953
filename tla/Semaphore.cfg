CONSTANTS
  t1 = t1
  t2 = t2
  t3 = t3
  Thread = {t1, t2, t3}
  Flag = "RT_IPC_FLAG_PRIO"
  Priority <- MCPriority
  InitValue = 1
  MaxTotal = 2
  ValueMod = 8
  Timed = {t1}
  Resetters = {t3}
  Detachers = {t3}
  Signalled = {t2}
  MaxKills = 1
SPECIFICATION FairSpec
INVARIANTS
  WaitListInv
  UnitsConserved
PROPERTIES
  UrgentWaitEnds
  ImplementsPromise
CHECK_DEADLOCK FALSE
