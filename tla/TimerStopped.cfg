CONSTANTS
  app = app
  tt = tt
  isr = isr
  h = h
  p = p
  s = s
  w = w
  None = None
  Thread = {app}
  TimerThread = tt
  Clock = isr
  Hard = {h}
  Soft = {p, s}
  Wake = w
  TickMod = 9
  InitTick <- MCInitTick
  Periodic = {p, h}
  Starts <- OwnStarts
  Stops <- OwnStops
  Tunes <- Nothing
  Turns <- Nothing
  Detaches <- Nothing
  Unmade <- OwnUnmade
  NewTicks = {2}
  Careful = FALSE
  MaxLag = 1
SPECIFICATION TimerSpec
PROPERTY SilentAfterStop
