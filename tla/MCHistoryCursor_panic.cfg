\* NextN on a cursor whose lease is gone dereferences the nil answer of
\* its inner Next (HistoryCursor.go:265).
CONSTANTS
  n1 = n1  n2 = n2  g1 = g1  g2 = g2  c1 = c1  c2 = c2
  Empty = Empty  PropsName = PropsName  Garbage = Garbage
  Free = Free  Gone = Gone
  Agents = {}  ThingIDs = {}  Datas = {}  BulkPayloads = {}
  Names <- MCNames
  NameOrder <- MCNameOrder
  Times <- MCTimes
  Goroutines = {g1, g2}
  CursorKeys = {k1}
  GClient <- MCGClient
  Now = 5
  SeekTimes = {2, 5}
  Buckets <- MCBuckets
  Limits = {2}
  MaxCalls <- MCMaxCalls
SPECIFICATION Spec
INVARIANT RequestsNeverPanic
CHECK_DEADLOCK FALSE
