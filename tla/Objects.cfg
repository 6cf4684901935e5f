SPECIFICATION MCSpec
CONSTANTS
  Parts = {"script", "index", "shapes"}
  Files <- MCFiles
  LuaFunctions = {"node_function", "way_function", "relation_function"}
  Layers <- MCLayers
  Calls <- MCCalls
  MaxCalls = 4
  MaterializeGeometries = FALSE
  KnownNodes = {3}
  t1 = t1
  t2 = t2
  t3 = t3
  Pools <- MCPools
  Geometries <- MCGeometries
  ThreadNum = 2
  CLUSTER_ZOOM = 1
  IndexZoom = 3
  MaxZoom = 4
  NumMutexes = 2
  LargeSize = 8
  IdBits = 5
  IncludeID = TRUE
  APPEND_VECTOR_SIZE = 2
  ShapeFiles <- SomeFiles
  ShapeQueries <- SomeQueries
SYMMETRY MCSymmetry
CHECK_DEADLOCK FALSE
INVARIANT OwnGeometry
INVARIANT AttributesAsAsked
INVARIANT EveryTileComplete
INVARIANT NoTileForgotten
INVARIANT IdsResolve
INVARIANT NoShapeMissed
INVARIANT OwnMinZoom
