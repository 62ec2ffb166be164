\* A directory whose subscription to TD events failed starts without an
\* error and never stores its own capability TDs.
CONSTANTS
  d1 = d1  k1 = k1  k2 = k2  m1 = m1  m2 = m2  tDev = tDev  tSvc = tSvc
  thA = thA  thB = thB  capRead = capRead  capUpdate = capUpdate  c1 = c1  ck1 = ck1  p1 = p1  p2 = p2
  NoId = NoId  NoType = NoType  NoKey = NoKey  NoMAC = NoMAC  Unknown = Unknown
  Free = Free  Gone = Gone  NoCursor = NoCursor  Unpos = Unpos  AtEnd = AtEnd
  Devices = {d1}
  ProvTypes = {tDev, tSvc}
  ServiceType = tSvc
  PubKeys = {k1, k2}
  MACs = {m1, m2}
  ApprovalLists <- MCApprovalLists
  AuthCanFail = TRUE
  AddrOrder <- MCAddrOrder
  OwnTDs <- MCOwnTDs
  DirClients = {c1}
  CursorKeys = {ck1}
  Limits = {1, 2}
  MaxLeaks = 1
  CanFail = TRUE
  PluginNames = {p1, p2}
  FileStates <- MCFileStates
  Absent = Absent  NotListed = NotListed
  MaxChanges = 2
  StartCanFail = TRUE
SPECIFICATION ServicesSpec
PROPERTY OwnTDsListed
CHECK_DEADLOCK FALSE
