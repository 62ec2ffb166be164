\* The query engine implements the filtered iterator and NextN/PrevN loops
\* end.  Two clients, each with one goroutine, race for one cursor key, its
\* expiry and calls on it.
\* The run stops when the clients have made their calls.
CONSTANTS
  n1 = n1  n2 = n2  g1 = g1  g2 = g2  c1 = c1  c2 = c2
  Empty = Empty  PropsName = PropsName  Garbage = Garbage
  Free = Free  Gone = Gone
  Agents = {}  ThingIDs = {}  Datas = {}  BulkPayloads = {}
  Names <- MCNames
  NameOrder <- MCNameOrder
  Times <- MCTimes
  Goroutines = {g1, g2}
  CursorKeys = {k1}
  GClient <- MCGClient
  Now = 5
  SeekTimes = {2, 5}
  Buckets <- MCBuckets
  Limits = {2}
  MaxCalls <- MCMaxCalls
SPECIFICATION Spec
INVARIANT TypeOK
PROPERTY IterSpec
CHECK_DEADLOCK FALSE
