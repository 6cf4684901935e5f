------------------------------ MODULE MCShared ------------------------------
(***************************************************************************)
(* What several writers share: the files of the commands of the build      *)
(* pipeline (BuildPipeline), the results of the worker pools inside its    *)
(* steps (WorkerPools), and the stores the attributes of tilemaker's       *)
(* objects go to (AttributeStore, prefix a).  `which' says whose behaviour *)
(* it is; the others keep their first values.                              *)
(***************************************************************************)
EXTENDS BuildPipeline, WorkerPools

CONSTANTS Parts, MaxTroubles, Writers, w1, w2

VARIABLES which,
          aKeys, aSize, aKeyLock, aTlsKeys, aPairs, aTlsHot, aPairCache, aSets, aSetCache, aWork, aCount, aStored

aVars == <<aKeys, aSize, aKeyLock, aTlsKeys, aPairs, aTlsHot, aPairCache, aSets, aSetCache, aWork, aCount, aStored>>
-----------------------------------------------------------------------------
(* The whole build in one directory, and in another one the commands that  *)
(* share its files.  Bounds: alone, p1 is started three times and one      *)
(* thing goes wrong, or twice and two do; together, each is started once   *)
(* and one thing goes wrong, p2 while p1 is at the steps that share files  *)
(* with it.                                                                *)
MCDir == [p1 |-> "d1", p2 |-> "d2"]
MCCommands == [p1 |-> {Run, <<"merge">>}, p2 |-> {<<"extract-nrw">>, <<"renumber-europe">>}]

Alone == \A p \in Processes : p # "p1" => proc[p].command = <<>>
Troubles == spent.changes + spent.kills + spent.fails
Bounds ==
    \/ Alone /\ Troubles <= MaxTroubles /\ spent.starts + Troubles <= MaxTroubles + 2
    \/ /\ Troubles < MaxTroubles /\ spent.starts <= 2
       /\ Active("p2") => proc["p1"].command = Run /\ Len(proc["p1"].todo) >= Len(Run) - 3
-----------------------------------------------------------------------------
(* Two threads store objects: a hot and a cold pair; the same two after    *)
(* one of them had another value; and as many pairs as make a vector, one  *)
(* of them exchanged. As in the program the hot shard is as large as the   *)
(* range of a short: its four places are the sentinel, a pair a short can  *)
(* name and two pairs of the upper half; a fourth hot pair finds it full.  *)
AttributeLists == { << <<1, 1>>, <<3, 2>> >>, << <<3, 1>>, <<3, 2>>, <<1, 1>> >>,
                    << <<1, 3>>, <<2, 2>>, <<3, 2>>, <<2, 1>> >> }
SetsPerThread == [t \in Writers |-> IF t = w1 THEN 2 ELSE 1]

Attributes == INSTANCE AttributeStore WITH
    Inputs <- AttributeLists, HotValues <- {1, 3}, HotCapacity <- 4, ShortRange <- 4, PairShards <- 3, SetShards <- 2,
    ShardSize <- 16, ShortSlots <- 1, IntSlots <- 1, MaxKeys <- 4, Objects <- SetsPerThread,
    keys <- aKeys, keys2indexSize <- aSize, keyLock <- aKeyLock, tlsKeys <- aTlsKeys, pairs <- aPairs, tlsHot <- aTlsHot,
    pairCache <- aPairCache, sets <- aSets, setCache <- aSetCache, work <- aWork, count <- aCount, stored <- aStored

(* Bound: a thread stores two different lists. *)
ListsBound ==
    \A w \in Writers : aWork'[w].step = "open" /\ aWork[w].step = "idle" =>
                         \A s \in aStored : aCount[w] = 0 \/ s.asked # aWork'[w].asked
-----------------------------------------------------------------------------
MCInit ==
    /\ which \in Parts /\ Init /\ PoolInit /\ Attributes!Init
    /\ which = "pools" \/ (loop = "index" /\ failing = {})
MCNext ==
    \/ which = "pipeline" /\ Next /\ Bounds' /\ UNCHANGED <<which, poolVars, aVars>>
    \/ which = "pools" /\ PoolNext /\ UNCHANGED <<which, vars, aVars>>
    \/ which = "attributes" /\ Attributes!Next /\ ListsBound /\ UNCHANGED <<which, vars, poolVars>>
MCSpec == MCInit /\ [][MCNext]_<<which, vars, poolVars, aVars>>

(* Every set of attributes that was stored is read back as it was given,   *)
(* whatever the threads' copies of keys and hot pairs knew                 *)
(* (AttributeStore, AttributePairStore, AttributeKeyStore).                *)
SetsReadBack == Attributes!SetsReadBack

(* Equal sets have one index, whatever the order of their attributes       *)
(* (AttributeSet::finalize, AttributeStore::add).                          *)
OneIndexPerSet == Attributes!OneIndexPerSet

(* A set with any hot pair is read back (AttributePairStore).              *)
HotPairsReachable == Attributes!HotPairsReachable
=============================================================================
