CONSTANTS
  app = app
  tt = tt
  isr = isr
  h = h
  p = p
  s = s
  w = w
  None = None
  Thread = {app}
  TimerThread = tt
  Clock = isr
  Hard = {h}
  Soft = {p, s}
  Wake = w
  TickMod = 9
  InitTick <- MCInitTick
  Periodic = {p, h}
  Starts <- MCStarts
  Stops <- MCStops
  Tunes <- MCTunes
  Turns <- MCTurns
  Detaches <- MCDetaches
  Unmade <- MCUnmade
  NewTicks = {2}
  Careful = TRUE
  MaxLag = 1
SPECIFICATION TimerSpec
INVARIANTS
  ListsInOrder
  RunsAsAsked
  WokenInTime
PROPERTIES
  ExpiresOnItsTick
CHECK_DEADLOCK FALSE
