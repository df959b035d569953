CONSTANTS
  t1 = t1
  t2 = t2
  t3 = t3
  v1 = v1
  v2 = v2
  Null = Null
  Thread = {t1, t2, t3}
  Message = {v1, v2}
  MaxMsgs = 2
  Flag = "RT_IPC_FLAG_FIFO"
  Priority <- MCPriority
  Timed = {t2}
  Resetters = {t3}
  Detachers = {t3}
  Signalled = {t1}
  MaxKills = 1
SPECIFICATION FairSpec
INVARIANTS
  StoreConsistent
  NoStrandedReceiver
PROPERTIES
  MessagesGetRead
  ImplementsChannel
CHECK_DEADLOCK FALSE
