CONSTANTS
  c0 = c0
  c1 = c1
  i0 = i0
  i1 = i1
  a = a
  b = b
  e = e
  None = None
  Cpu = {c0, c1}
  Boot = c0
  Thread = {i0, i1, a, b, e}
  Idle <- MCIdle
  Level = {0, 2, 3}
  Priority <- MCPriority
  BindCpu <- MCBindCpu
  InitReady = {i0, i1, b, e}
  Wide = TRUE
  Byte = 2
  Blockers = {a, b, e}
  Wakers = {a, b, e}
  Devices = {a}
  Yielders = {b, e}
  Criticals = {}
  Lockers = {}
  MaxNest = 2
SPECIFICATION Spec
INVARIANT MostUrgentRuns
