CONSTANTS
  t1 = t1
  t2 = t2
  t3 = t3
  x = x
  y = y
  Thread = {t1, t2, t3}
  Bit = {x, y}
  Ask <- MCAsk
  Flag = "RT_IPC_FLAG_PRIO"
  Priority <- MCPriority
  Timed = {t2, t3}
  Resetters = {t3}
  Detachers = {t1}
  Signalled = {t2}
SPECIFICATION Spec
INVARIANTS
  NoSatisfiedWaiter
  AnswerIsTrue
PROPERTIES
  SweepInOrder
CHECK_DEADLOCK FALSE
