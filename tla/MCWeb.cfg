CONSTANTS
  t1 = t1  t2 = t2  a1 = a1  a2 = a2
  S0 = S0  None = None
  Tabs = {t1, t2}
  Acts = {a1, a2}
  MaxEvents = 2
  SendsPerEvent = 2
  CanDisconnect = TRUE
SPECIFICATION Spec
INVARIANTS TypeOK NoSendOnClosedChannel
CHECK_DEADLOCK FALSE
