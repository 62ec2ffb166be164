\* Latest values never older than the history: two ingest goroutines, one
\* GetLatest reader, failing bucket writes, no restart.
CONSTANTS
  a1 = a1  t1 = t1  n1 = n1  n2 = n2  d1 = d1  d2 = d2
  Empty = Empty  PropsName = PropsName  Garbage = Garbage  NoRule = NoRule
  NotLoaded = NotLoaded  NoBlob = NoBlob  CorruptBlob = CorruptBlob
  NoWrite = NoWrite  Idle = Idle
  Agents <- MCAgents
  ThingIDs <- MCThingIDs
  Names <- MCNames
  Times <- MCTimes
  BulkPayloads <- MCBulkPayloads
  RuleSets <- MCRuleSets
  StoredProps <- MCStoredProps
  Workers = {w1, w2}
  Readers = {r1}
  Datas <- MCDatas1
  Inputs <- MCInputs1
  Batches <- MCBatchesValid
  HistStoreCanFail = TRUE
  PropsStoreCanFail = TRUE
  MaxMsgs = 3
  MaxRestarts = 0
  MaxRuleChanges = 1
SPECIFICATION Spec
INVARIANTS TypeOK LatestCoversHistory
