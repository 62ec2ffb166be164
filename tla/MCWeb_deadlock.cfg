CONSTANTS
  t1 = t1  t2 = t2  a1 = a1  a2 = a2
  S0 = S0  None = None
  Tabs = {}
  Acts = {a1}
  MaxEvents = 1
  SendsPerEvent = 1
  CanDisconnect = FALSE
SPECIFICATION Spec
PROPERTY SendSSEReturns
CHECK_DEADLOCK FALSE
