SPECIFICATION MCSpec
CONSTANTS
    Parts = {"mbtiles"}
    OutputThreads = {1, 2}
    VarintBase = 8
    ReserveBytes = 4
    Zoom = 5
    max_entries_flat = 2
    World = 32
    StartZoom = 0
    EndZoom = 2
    BaseZoom = 2
    CLUSTER_ZOOM = 1
    OutputObjects <- MCObjects
    LayerOrder <- MCLayerOrder
    LayerDefs <- MCLayerDefs
    ClippingBox <- MCClippingBox
    ClippingBoxFromJSON = TRUE
    Weight <- MCWeight
    BatchWeight = 2
    CacheSize = 1
    CacheShards = 2
    MaxSignals = 1
    Threads = {t1, t2, t3}
    t1 = t1
    t2 = t2
    t3 = t3
    Main = Main
    None = None
    Tiles <- ThreeAndOutside
    Features <- MCFeatures
    Openings <- OnlyMerged
    LayerNames <- MCLayerNames
    OutsideBox <- MCOutsideBox
    SaveThreads = {t1, t2, t3}
    Ids <- MCIds
    Inputs <- SomeTilesets
    Tiny = {"sea", "lake"}
    FIRST_LEAF_TILE = 2
    LEAF_DIRECTORY_SIZE = 2
    ROOT_ONLY = 3
    TINY_MAX_SIZE = 0
CHECK_DEADLOCK FALSE
INVARIANT MergeAdds
