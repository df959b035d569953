CONSTANTS
  main = main
  peer = peer
  urgent = urgent
  idle = idle
  None = None
  Thread = {main, peer, urgent, idle}
  Main = main
  Idle = idle
  Level = {1, 2, 3}
  InitPriority <- MCPriority
  InitTick <- MCTick
  Dynamic = {urgent, peer}
  Sleepers = {main}
  Waiters = {peer}
  Parkers = {urgent}
  Leavers = {peer}
  Victims = {peer}
  Tuned = {main, urgent}
  Nudgers = {main}
  Nudged = {urgent}
  MaxNest = 2
SPECIFICATION FairSpec
INVARIANTS
  ListsMatchStat
  MostUrgentRuns
  ClosedIsGone
PROPERTIES
  CriticalKeepsRunning
  TurnComes
