SPECIFICATION MCSpec
CONSTANTS
  Parts = {"passes", "scan", "join", "filling", "nodes", "ways"}
  Threads = {t1, t2}
  Files <- MCFiles
  ReadsRelations = TRUE
  WritesRelations = TRUE
  TasksPerThread = 1
  Relations <- Routes
  Scanners = {t1, t2}
  PopularRoles <- MCPopularRoles
  StoreShards = 2
  PostScans = TRUE
  StoreThreads = {t1, t2, t3}
  Ids <- MCIds
  BatchOf <- MCBatchOf
  NumBatches = 4
  Span = 3
  MaxGroups = 5
  MaxBuffers = 3
CHECK_DEADLOCK FALSE
INVARIANT CalledOnce
INVARIANT GeometryComplete
INVARIANT NothingSkipped
INVARIANT MembershipsReadBack
INVARIANT AncestorsListed
INVARIANT TagsKept
INVARIANT WaysJoined
PROPERTY PassesEnd
PROPERTY JoiningEnds
INVARIANT NoThrow
INVARIANT PublishedWhole
INVARIANT AllStored
INVARIANT NodesReadBack
INVARIANT WaysReadBack
PROPERTY ImplementsIndex
PROPERTY StoresFinalized
