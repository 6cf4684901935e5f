SPECIFICATION MCSpec
CONSTANTS
  Parts = {"passes"}
  Threads = {t1, t2}
  Files <- OneRelationBlock
  ReadsRelations = TRUE
  WritesRelations = TRUE
  TasksPerThread = 1
  Relations <- Routes
  Scanners = {t1, t2}
  PopularRoles <- MCPopularRoles
  StoreShards = 2
  PostScans = TRUE
  StoreThreads = {t1, t2, t3}
  Ids <- MCIds
  BatchOf <- MCBatchOf
  NumBatches = 4
  Span = 3
  MaxGroups = 5
  MaxBuffers = 3
CHECK_DEADLOCK FALSE
INVARIANT CalledOnce
