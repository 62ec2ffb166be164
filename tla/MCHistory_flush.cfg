\* SaveChanges' contract across a stop and a restart, with failing bucket
\* writes to the Thing buckets and successful writes to the properties bucket.
CONSTANTS
  a1 = a1  t1 = t1  n1 = n1  n2 = n2  d1 = d1  d2 = d2
  Empty = Empty  PropsName = PropsName  Garbage = Garbage  NoRule = NoRule
  NotLoaded = NotLoaded  NoBlob = NoBlob  CorruptBlob = CorruptBlob
  NoWrite = NoWrite  Idle = Idle
  Agents <- MCAgents
  ThingIDs <- MCThingIDs
  Names <- MCNames
  Times <- MCTimes
  BulkPayloads <- MCBulkPayloads
  RuleSets <- MCRuleSets
  StoredProps <- MCStoredProps
  Workers = {w1}
  Readers = {r1}
  Datas <- MCDatas1
  Inputs <- MCInputs1
  Batches <- MCBatchesAll
  HistStoreCanFail = TRUE
  PropsStoreCanFail = FALSE
  MaxMsgs = 3
  MaxRestarts = 1
  MaxRuleChanges = 1
SPECIFICATION Spec
INVARIANTS FlushedMeansPersisted
