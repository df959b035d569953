CONSTANTS
  t1 = t1
  t2 = t2
  t3 = t3
  isr = isr
  b1 = b1
  b2 = b2
  Nobody = Nobody
  Thread = {t1, t2, t3}
  Handler = {isr}
  Block = {b1, b2}
  InitChain <- MCChain
  Timed = {t1, t3}
  Detachers = {t3}
  Signalled = {t2}
  MaxKills = 1
  MaxOver = 3
SPECIFICATION FairSpec
INVARIANTS
  PoolAccounted
  NoStrandedWaiter
PROPERTIES
  BlocksGetUsed
  ImplementsPool
CHECK_DEADLOCK FALSE
