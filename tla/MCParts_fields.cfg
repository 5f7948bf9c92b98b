\* The selection of a handler alone.
CONSTANTS
  Running = {"dispatch"}
  m1 = m1
  m2 = m2
  m3 = m3
  m4 = m4
  n1 = n1
  Producers = {p1, p2}
  Items = {a, b}
  NoItem = NoItem
  max_items = 3
  Threads = {t1, t2}
  Keys = {k1, k2}
  Recs <- MCRecs
  NoRec = NoRec
  MaxCached = 1
  Slack = 1
  CachedTime = 0
  MaxClock = 1
  Mtimes = {1, 2}
  InitialItems = 1
  MaxChunkItems = 3
  MaxChunks = 3
  Contents <- MCContents
  MaxChunk = 2
  MaxSend = 6
  FcRequests <- MCFcRequests
  MaxVersion = 2
  Size = 2
  MaxTime = 2
  MaxAge = 1
  MaxFaults = 1
  Sites <- MCSites
  Modified <- MCModified
  MaxSize = 10
  MaxLevel = 2
  MaxNesting = 3
  Configs <- MCConfigs
  Requests <- MCRequests
  NetThreads = {n1, n2}
  BlockSize = 4
  RecordSizes = {2, 3, 4}
  MaxRecords <- MCMaxRecords
  MaxRestarts = 1
SPECIFICATION PartsSpec
CHECK_DEADLOCK FALSE
INVARIANT FieldsRestored
