SPECIFICATION MCSpec
CONSTANTS
    Parts = {"pipeline", "pools", "attributes"}
    Processes = {"p1", "p2"}
    Dir <- MCDir
    Commands <- MCCommands
    Changeable = {"europe.raw", "europe.pbf", "code"}
    Chunks = 2
    MaxChanges = 1
    MaxKills = 1
    MaxFails = 1
    MaxTroubles = 2
    MaxStarts = 3
    Jobs = 5
    Workers = 2
    Loops = {"index", "masks", "repair"}
    Writers = {w1, w2}
    w1 = w1
    w2 = w2
CHECK_DEADLOCK FALSE
INVARIANT RecordTrue
INVARIANT CandidateCurrent
INVARIANT ResultsInPlace
INVARIANT SetsReadBack
INVARIANT OneIndexPerSet
PROPERTY NothingOverwritten
