----------------------------- MODULE WorkerPools -----------------------------
(***************************************************************************)
(* The three loops of python/wdr_tiles that feed a ProcessPoolExecutor and *)
(* take its results: prepared_batches with index_polygons, in order of     *)
(* submission (indexing.py); write_masks, in order of completion, with the *)
(* results spooled until those before them are written (closing.py); and   *)
(* repair_overviews, each result written as it comes, in one transaction   *)
(* (tile_repair.py). Jobs finish in any order and may fail.                *)
(***************************************************************************)
EXTENDS Integers, FiniteSetsExt, SequencesExt

CONSTANTS
    Jobs,       \* batches, cells or tiles
    Workers,
    Loops       \* which of "index", "masks", "repair" are looked at

VARIABLES
    loop,       \* the loop that runs
    failing,    \* the jobs whose function raises
    submitted,  \* jobs given to the pool: 1..submitted
    pending,    \* of these, the ones whose result was not taken
    finished,   \* of the pending ones, those whose worker is done
    ready,      \* results in the spool
    written,    \* results in the order they were written
    outcome     \* "running", "done" or "failed"

poolVars == <<loop, failing, submitted, pending, finished, ready, written, outcome>>

Limit == 2 * Workers

ASSUME PoolsAssumption == Jobs \in Nat /\ Workers \in Nat \ {0} /\ Loops \subseteq {"index", "masks", "repair"}

PoolInit ==
    /\ loop \in Loops
    /\ failing \in SUBSET (1..Jobs)
    /\ submitted = Min({Jobs, Limit}) /\ pending = 1..submitted
    /\ finished = {} /\ ready = {} /\ written = <<>>
    /\ outcome = "running"

\* The pool: the oldest jobs are with the workers, and one of them is done.
WorkerFinishes ==
    /\ outcome = "running"
    /\ \E i \in pending \ finished :
         /\ Cardinality({j \in pending \ finished : j < i}) < Workers
         /\ finished' = finished \cup {i}
    /\ UNCHANGED <<loop, failing, submitted, pending, ready, written, outcome>>

Submit(taken, n) ==
    LET new == Min({Jobs, submitted + n})
    IN  /\ submitted' = new
        /\ pending' = (pending \ taken) \cup (submitted + 1)..new
        /\ finished' = finished \ taken

\* A future's exception: the other jobs are cancelled, transaction and files are given up.
Fail ==
    /\ outcome' = "failed" /\ written' = <<>> /\ ready' = {} /\ pending' = {} /\ finished' = {}
    /\ UNCHANGED <<loop, failing, submitted>>

\* prepared_batches(): the oldest result is waited for and written before the next is submitted.
TakeOldest ==
    /\ loop = "index" /\ outcome = "running" /\ pending # {} /\ Min(pending) \in finished
    /\ IF Min(pending) \in failing THEN Fail
       ELSE /\ written' = Append(written, Min(pending))
            /\ Submit({Min(pending)}, 1)
            /\ UNCHANGED <<loop, failing, ready, outcome>>

\* mutant: one result is appended for each round of the loop.
Flushed_Once(spool, sofar) == LET n == Len(sofar) + 1 IN IF n \in spool THEN Append(sofar, n) ELSE sofar

\* while written in ready: the results whose turn it is.
Flushed(spool, sofar) ==
    LET last == Max({n \in Len(sofar)..Jobs : (Len(sofar) + 1)..n \subseteq spool})
    IN  sofar \o [i \in 1..(last - Len(sofar)) |-> Len(sofar) + i]

\* write_masks(): all results there are go to the spool, each replaced by a new job; then
\* those whose turn it is are appended to the files.
TakeDone ==
    /\ loop = "masks" /\ outcome = "running" /\ finished # {}
    /\ IF finished \cap failing # {} THEN Fail
       ELSE /\ written' = Flushed(ready \cup finished, written)
            /\ ready' = (ready \cup finished) \ ToSet(written')
            /\ Submit(finished, Cardinality(finished))
            /\ UNCHANGED <<loop, failing, outcome>>

\* _results() and repair_overviews(): each result that is there updates its tile, in any
\* order, before the pool is filled up again.
Repair ==
    /\ loop = "repair" /\ outcome = "running" /\ finished # {}
    /\ IF finished \cap failing # {} THEN Fail
       ELSE /\ \E order \in SetToSeqs(finished) : written' = written \o order
            /\ Submit(finished, Limit - Cardinality(pending \ finished))
            /\ UNCHANGED <<loop, failing, ready, outcome>>

\* The loop has nothing more to wait for; the transaction is committed, the files closed.
LoopEnds ==
    /\ outcome = "running" /\ pending = {}
    /\ outcome' = "done"
    /\ UNCHANGED <<loop, failing, submitted, pending, finished, ready, written>>

PoolNext == WorkerFinishes \/ TakeOldest \/ TakeDone \/ Repair \/ LoopEnds

SpecPools == PoolInit /\ [][PoolNext]_poolVars
-----------------------------------------------------------------------------
(* Properties. *)

\* A loop that ends well has taken every result once and no other, polygons and masks in the
\* order of the input, so that ids and files do not depend on which worker was fast; one with
\* a job that fails does not end well; and the pool never has more jobs than its limit
\* (indexing.py, closing.py, tile_repair.py).
ResultsInPlace ==
    /\ outcome = "done" => /\ ToSet(written) = 1..Jobs /\ Len(written) = Jobs /\ ready = {}
                           /\ loop # "repair" => written = [i \in 1..Jobs |-> i]
    /\ outcome = "done" => failing = {}
    /\ Cardinality(pending) <= Limit
-----------------------------------------------------------------------------
(* The strengthening that makes ResultsInPlace inductive. *)

PoolTypeOK ==
    /\ loop \in Loops /\ failing \subseteq 1..Jobs /\ submitted \in 0..Jobs
    /\ finished \subseteq pending
    /\ written \in Seq(1..Jobs)
    /\ outcome \in {"running", "done", "failed"}

\* A job that was submitted is with the pool, in the spool or written, in one of the three.
OneStage ==
    /\ pending \cup ready \cup ToSet(written) = 1..submitted
    /\ pending \cap ready = {} /\ pending \cap ToSet(written) = {} /\ ready \cap ToSet(written) = {}
    /\ failing \cap (ready \cup ToSet(written)) = {}

\* What is written is a beginning of the input, and what is in the spool has to wait;
\* repairs come in any order, each once.
WrittenInOrder ==
    /\ loop \in {"index", "masks"} => written = [i \in 1..Len(written) |-> i]
    /\ loop \in {"index", "repair"} => ready = {}
    /\ Len(written) + 1 \notin ready
    /\ Cardinality(ToSet(written)) = Len(written)

\* The pool is kept full as long as there are jobs.
PoolFull ==
    /\ Cardinality(pending) <= Limit
    /\ submitted < Jobs => Cardinality(pending) = Limit

\* The inductive invariant of the three loops; a loop that failed has given up everything.
PoolInv ==
    /\ PoolTypeOK
    /\ outcome # "failed" => OneStage /\ WrittenInOrder /\ PoolFull
    /\ outcome = "done" => pending = {}
    /\ outcome = "failed" => pending = {}
=============================================================================
