---------------------------- MODULE BuildPipeline ----------------------------
(***************************************************************************)
(* The build pipeline of python/wdr_tiles: commands that run the steps one *)
(* after the other, each of which is skipped when its output exists with   *)
(* the record of the present inputs, refused when the record differs, and  *)
(* otherwise made in a private directory and published (pipeline.py,       *)
(* state.py, inputs.py, setup.py, closing.py, regions.py). Inputs may be   *)
(* replaced at any time, and a command may be killed between any two       *)
(* steps and started again, while the curl it had started goes on. A file  *)
(* is known by its stamp, which stands for path, size and modification     *)
(* time; of downloads, which two names may share, the data is kept too.    *)
(***************************************************************************)
EXTENDS Integers, Sequences, FiniteSetsExt, SequencesExt

CONSTANTS
    Processes,      \* commands running at a time
    Dir,            \* process -> its OUTPUT_DIR
    Commands,       \* process -> the commands it is started with, each a sequence of steps
    Changeable,     \* inputs the operator replaces
    Chunks,         \* pieces of a download
    MaxChanges, MaxKills, MaxFails, MaxStarts

VARIABLES
    fs,         \* file -> its stamp and what it was made from (a download: its inode), or Absent
    sidecar,    \* file -> its .build.json, or NoRecord
    part,       \* download -> inode of its .part file, or 0
    inodes,     \* download -> the pieces in each of its inodes
    curls,      \* pid -> what that curl is at
    meddled,    \* history: files two actors had in hand at a time (Download, Replace)
    proc,       \* process -> where it is
    clock,      \* the last stamp given
    spent       \* changes, kills, failures of tools and starts so far

diskVars == <<part, inodes, curls>>
vars == <<fs, sidecar, diskVars, meddled, proc, clock, spent>>

Absent == [stamp |-> 0, from |-> <<>>, record |-> <<>>]
NoRecord == [build |-> <<>>, output |-> 0]
Whole == [i \in 1..Chunks |-> i]
Idle == [at |-> "idle", pid |-> 0, todo |-> <<>>, record |-> <<>>, seen |-> <<>>, missing |-> {}, calm |-> FALSE, outcome |-> "none", command |-> <<>>]
-----------------------------------------------------------------------------
(* The steps. *)

Profiles == <<"coastline.mbtiles", "europe.mbtiles", "dach.mbtiles", "nrw.mbtiles">>

\* the files a step's record identifies
InputsOf(s) ==
    CASE s = "renumber-europe" -> {"europe.raw"}
      [] s = "renumber-dach"   -> {"dach.raw"}
      [] s = "regions"         -> {"dach.pbf", "code"}
      [] s = "extract-nrw"     -> {"europe.pbf"}
      [] s = "coastline"       -> {"code"}
      [] s = "built-up"        -> {"europe.pbf", "code"}
      [] s = "europe"          -> {"europe.pbf", "masks", "code"}
      [] s = "dach"            -> {"dach.pbf", "code"}
      [] s = "nrw"             -> {"nrw.pbf", "code"}
      [] s = "merge"           -> ToSet(Profiles)

OutputsOf(s) ==
    CASE s = "renumber-europe" -> <<"europe.pbf">>
      [] s = "renumber-dach"   -> <<"dach.pbf">>
      [] s = "regions"         -> <<"regions.mbtiles", "outside.geojson">>
      [] s = "extract-nrw"     -> <<"nrw.pbf">>
      [] s = "built-up"        -> <<"masks">>
      [] s = "merge"           -> <<"nrw-v4.mbtiles">>
      [] s = "coastline"       -> <<"coastline.mbtiles">>
      [] s = "europe"          -> <<"europe.mbtiles">>
      [] s = "dach"            -> <<"dach.mbtiles">>
      [] s = "nrw"             -> <<"nrw.mbtiles">>

Steps == {"renumber-europe", "renumber-dach", "regions", "extract-nrw", "coastline", "built-up", "europe", "dach", "nrw", "merge"}
Renumbering == {"renumber-europe", "renumber-dach"}
Downloaded == {"europe.raw", "dach.raw"}
\* An MBTiles has its record in its metadata and the masks in their manifest, the others beside them.
WithSidecar == {"europe.pbf", "dach.pbf", "nrw.pbf", "outside.geojson"}

\* Pipeline.run(); build("europe") prepares the masks itself.
Run == <<"renumber-europe", "renumber-dach", "regions", "extract-nrw", "coastline", "built-up", "europe", "dach", "nrw", "merge">>

\* Inputs and what is derived from them in osm/ are shared, the rest is in the OUTPUT_DIR.
Shared == Downloaded \cup {"code", "europe.pbf", "dach.pbf", "nrw.pbf"}
Place(p, name) == <<name, IF name \in Shared THEN "osm" ELSE Dir[p]>>
Names == Downloaded \cup {"code"} \cup UNION {ToSet(OutputsOf(s)) : s \in Steps}
Files == {Place(p, name) : p \in Processes, name \in Names}
Exists(f) == fs[f] # Absent
Original(raw) == <<raw, "osm">>
DataOf(raw) == inodes[raw][fs[Original(raw)].from]

\* What a file of the operator's was made from: nothing a step records.
Foreign == [n \in Names |-> {}]

\* There is a command to run, and each is a sequence of steps.
ASSUME CommandsAssumption == Processes # {} /\ \A p \in Processes : \A c \in Commands[p] : c \in Seq(Steps) /\ c # <<>>
-----------------------------------------------------------------------------
(* Records: build_record() and its relatives. *)

RecordOf(p, s) == [i \in InputsOf(s) |-> fs[Place(p, i)].stamp]

\* What reusable() and validate() find recorded for a file.
Recorded(f) ==
    IF f[1] \notin WithSidecar THEN fs[f].record
    ELSE IF sidecar[f].output = fs[f].stamp THEN sidecar[f].build ELSE <<>>

\* An input is missing, or, for europe, its masks are not those of the input.
Raises(p, s) ==
    \/ \E i \in InputsOf(s) : ~Exists(Place(p, i))
    \/ s = "europe" /\ Recorded(Place(p, "masks")) # RecordOf(p, "built-up")

\* mutant: an existing output is taken as it is.
Stale_Never(p, s, name) == FALSE

\* reusable(): an output that exists with another record is an error.
Stale(p, s, name) == Exists(Place(p, name)) /\ Recorded(Place(p, name)) # RecordOf(p, s)

\* merge() validates the four tilesets first.
TilesetsValid(p) ==
    \A s \in {"coastline", "europe", "dach", "nrw"} :
        LET name == OutputsOf(s)[1] IN ~Raises(p, s) /\ Exists(Place(p, name)) /\ ~Stale(p, s, name)
-----------------------------------------------------------------------------
Init ==
    /\ fs = [f \in Files |-> IF f[1] = "code" THEN [stamp |-> 1, from |-> <<>>, record |-> <<>>] ELSE Absent]
    /\ sidecar = [f \in Files |-> NoRecord]
    /\ part = [r \in Downloaded |-> 0]
    /\ inodes = [r \in Downloaded |-> <<>>]
    /\ curls = <<>> /\ meddled = {}
    /\ proc = [p \in Processes |-> Idle]
    /\ clock = 1
    /\ spent = [changes |-> 0, kills |-> 0, fails |-> 0, starts |-> 0]

Active(p) == proc[p].at # "idle"
End(p, outcome) == proc' = [proc EXCEPT ![p] = [Idle EXCEPT !.outcome = outcome, !.calm = proc[p].calm, !.command = proc[p].command]]
Goto(p, at) == proc' = [proc EXCEPT ![p].at = at]
NextStep(p) ==
    IF Len(proc[p].todo) = 1 THEN End(p, "done")
    ELSE proc' = [proc EXCEPT ![p] = [Idle EXCEPT !.at = "check", !.todo = Tail(proc[p].todo), !.calm = proc[p].calm, !.command = proc[p].command]]
Current(p) == Head(proc[p].todo)
Disturbed == [p \in Processes |-> [proc[p] EXCEPT !.calm = FALSE]]

\* locked(): a command holds the lock of its OUTPUT_DIR or is refused.
Start(p, command) ==
    /\ ~Active(p) /\ \A q \in Processes : Active(q) => Dir[q] # Dir[p]
    /\ spent.starts < MaxStarts
    /\ spent' = [spent EXCEPT !.starts = @ + 1]
    /\ proc' = [proc EXCEPT ![p] = [Idle EXCEPT !.at = "check", !.todo = command, !.calm = TRUE, !.command = command]]
    /\ UNCHANGED <<fs, sidecar, diskVars, meddled, clock>>

\* The record of a step that is about to be made, and the places of the outputs found missing.
Make(p, missing) ==
    LET s == Current(p)
    IN  IF Raises(p, s) THEN End(p, "error")
        ELSE proc' = [proc EXCEPT ![p].at = "make", ![p].record = RecordOf(p, s), ![p].missing = missing]

\* The beginning of a step: reuse, refuse, or make it; renumbering downloads first.
Check(p) ==
    /\ proc[p].at = "check"
    /\ LET s     == Current(p)
           there == {o \in ToSet(OutputsOf(s)) : Exists(Place(p, o))}
           fetch == s \in Renumbering /\ there = {}
       IN  IF fetch THEN Goto(p, "download")
           ELSE IF Raises(p, s) \/ (s = "merge" /\ ~TilesetsValid(p)) \/ (\E o \in there : Stale(p, s, o)) THEN End(p, "error")
           ELSE IF there = ToSet(OutputsOf(s)) THEN NextStep(p)
           ELSE Make(p, {k \in DOMAIN OutputsOf(s) : OutputsOf(s)[k] \notin there})
    /\ UNCHANGED <<fs, sidecar, diskVars, meddled, clock, spent>>

RawOf(p) == CHOOSE i \in InputsOf(Current(p)) : TRUE

Gone(raw) == [raw |-> raw, at |-> "done", inode |-> 0, piece |-> 0]

\* Download k goes on as long as its curl runs or its command is not done with the .part file.
AtPart == {"curl", "checked", "linked"}
Live(k) == curls[k].at # "done" \/ \E p \in Processes : proc[p].at \in AtPart /\ proc[p].pid = k

\* download(): an original that is there has its MD5 checked; else curl is started, though
\* another command's, or one that a killed command left, may be at the same .part file.
Download(p) ==
    /\ proc[p].at = "download"
    /\ LET raw == RawOf(p)
       IN  IF Exists(Original(raw))
           THEN /\ IF DataOf(raw) = Whole THEN Goto(p, "fetched") ELSE End(p, "error")
                /\ UNCHANGED <<curls, meddled>>
           ELSE /\ curls' = Append(curls, [Gone(raw) EXCEPT !.at = "started"])
                /\ proc' = [proc EXCEPT ![p].at = "curl", ![p].pid = Len(curls')]
                /\ meddled' = meddled \cup {Original(r) : r \in {raw} \cap {curls[k].raw : k \in {l \in DOMAIN curls : Live(l)}}}
    /\ UNCHANGED <<fs, sidecar, part, inodes, clock, spent>>

\* curl looks at the size of the .part file: it resumes behind it, or begins anew.
CurlLooks(k) ==
    /\ curls[k].at = "started"
    /\ LET raw == curls[k].raw
           size == IF part[raw] = 0 THEN 0 ELSE Len(inodes[raw][part[raw]])
       IN  curls' = [curls EXCEPT ![k].at = IF size = 0 THEN "anew" ELSE "resume", ![k].piece = size + 1]
    /\ UNCHANGED <<fs, sidecar, part, inodes, meddled, proc, clock, spent>>

\* Data that is written to an inode shows under every name it has.
WriteInode(raw, inode, data) ==
    /\ inodes' = [inodes EXCEPT ![raw][inode] = data]
    /\ IF Exists(Original(raw)) /\ fs[Original(raw)].from = inode
       THEN /\ clock' = clock + 1
            /\ fs' = [fs EXCEPT ![Original(raw)].stamp = clock']
            /\ proc' = Disturbed
       ELSE UNCHANGED <<fs, clock, proc>>

\* It opens whatever now has the name .part, or creates it, and from then on keeps the inode.
CurlOpens(k) ==
    /\ curls[k].at \in {"anew", "resume"}
    /\ LET raw == curls[k].raw
           piece == curls[k].piece
           inode == IF part[raw] = 0 THEN Len(inodes[raw]) + 1 ELSE part[raw]
       IN  /\ part' = [part EXCEPT ![raw] = inode]
           /\ curls' = [curls EXCEPT ![k] = IF piece > Chunks THEN Gone(raw)
                                           ELSE [curls[k] EXCEPT !.inode = inode, !.at = IF curls[k].at = "anew" THEN "writing" ELSE "appending"]]
           /\ IF part[raw] = 0 THEN inodes' = [inodes EXCEPT ![raw] = Append(@, <<>>)] /\ UNCHANGED <<fs, clock, proc>>
              ELSE IF curls[k].at = "anew" THEN WriteInode(raw, inode, <<>>)
              ELSE UNCHANGED <<inodes, fs, clock, proc>>
    /\ UNCHANGED <<sidecar, meddled, spent>>

\* A piece at its own offset, or, of one that resumes, at the end; the last one ends it.
Put(data, piece) == [i \in 1..Max({Len(data), piece}) |-> IF i = piece THEN piece ELSE IF i <= Len(data) THEN data[i] ELSE 0]
CurlWrites(k) ==
    /\ curls[k].at \in {"writing", "appending"}
    /\ LET raw == curls[k].raw
           piece == curls[k].piece
           inode == curls[k].inode
           data == inodes[raw][inode]
       IN  /\ WriteInode(raw, inode, IF curls[k].at = "writing" THEN Put(data, piece) ELSE Append(data, piece))
           /\ curls' = [curls EXCEPT ![k] = IF piece = Chunks THEN Gone(raw) ELSE [@ EXCEPT !.piece = piece + 1]]
    /\ UNCHANGED <<sidecar, part, meddled, spent>>

Curl(k) == CurlLooks(k) \/ CurlOpens(k) \/ CurlWrites(k)

\* curl has returned: a .part file of another MD5 stays, and is an error.
Verify(p) ==
    /\ proc[p].at = "curl" /\ curls[proc[p].pid].at = "done"
    /\ LET raw == RawOf(p)
       IN  IF part[raw] # 0 /\ inodes[raw][part[raw]] = Whole THEN Goto(p, "checked") ELSE End(p, "error")
    /\ UNCHANGED <<fs, sidecar, diskVars, meddled, clock, spent>>

\* os.link: whatever has the name .part now is the original too, if that name is free.
LinkOriginal(p) ==
    /\ proc[p].at = "checked"
    /\ LET raw == RawOf(p)
       IN  IF part[raw] = 0 \/ Exists(Original(raw)) THEN End(p, "error") /\ UNCHANGED <<fs, clock>>
           ELSE /\ clock' = clock + 1
                /\ fs' = [fs EXCEPT ![Original(raw)] = [stamp |-> clock', from |-> part[raw], record |-> <<>>]]
                /\ Goto(p, "linked")
    /\ UNCHANGED <<sidecar, diskVars, meddled, spent>>

UnlinkPart(p) ==
    /\ proc[p].at = "linked"
    /\ LET raw == RawOf(p)
       IN  /\ part' = [part EXCEPT ![raw] = 0]
           /\ IF part[raw] = 0 THEN End(p, "error") ELSE Goto(p, "fetched")
    /\ UNCHANGED <<fs, sidecar, inodes, curls, meddled, clock, spent>>

\* The original is there: now the record is taken.
Fetched(p) ==
    /\ proc[p].at = "fetched"
    /\ Make(p, DOMAIN OutputsOf(Current(p)))
    /\ UNCHANGED <<fs, sidecar, diskVars, meddled, clock, spent>>

\* run_command(): the tools read their inputs over a span of time.
Seen(p) == [i \in InputsOf(Current(p)) |-> {fs[Place(p, i)].stamp}]
ToolStarts(p) ==
    /\ proc[p].at = "make"
    /\ proc' = [proc EXCEPT ![p].at = "tool", ![p].seen = Seen(p)]
    /\ UNCHANGED <<fs, sidecar, diskVars, meddled, clock, spent>>

ToolEnds(p) ==
    /\ proc[p].at = "tool"
    /\ proc' = [proc EXCEPT ![p].at = "made", ![p].seen = [i \in InputsOf(Current(p)) |-> @[i] \cup Seen(p)[i]]]
    /\ UNCHANGED <<fs, sidecar, diskVars, meddled, clock, spent>>

\* A tool's exit code, curl's too, or a repair that fails.
ToolFails(p) ==
    /\ spent.fails < MaxFails
    /\ spent' = [spent EXCEPT !.fails = @ + 1]
    /\ \/ proc[p].at = "tool" /\ UNCHANGED curls
       \/ /\ proc[p].at = "curl" /\ curls[proc[p].pid].at # "done"
          /\ curls' = [curls EXCEPT ![proc[p].pid] = Gone(RawOf(p))]
    /\ End(p, "error")
    /\ UNCHANGED <<fs, sidecar, part, inodes, meddled, clock>>

\* mutant: the inputs are not looked at again.
Recheck_Skipped(p) ==
    /\ proc[p].at = "made"
    /\ Goto(p, "publish")
    /\ UNCHANGED <<fs, sidecar, diskVars, meddled, clock, spent>>

\* The record is taken again and compared before anything is published.
Recheck(p) ==
    /\ proc[p].at = "made"
    /\ IF Raises(p, Current(p)) \/ RecordOf(p, Current(p)) # proc[p].record THEN End(p, "error") ELSE Goto(p, "publish")
    /\ UNCHANGED <<fs, sidecar, diskVars, meddled, clock, spent>>

\* The outputs that are missing are published in their order.
First(p) == Min(proc[p].missing)
Published(p) == Place(p, OutputsOf(Current(p))[First(p)])
AfterPublishing(p) ==
    IF proc[p].missing = {First(p)} THEN NextStep(p)
    ELSE proc' = [proc EXCEPT ![p].at = "publish", ![p].missing = @ \ {First(p)}]

\* mutant: the file is moved over whatever has that name.
Link_Replaces(p) ==
    /\ proc[p].at = "publish"
    /\ clock' = clock + 1
    /\ fs' = [fs EXCEPT ![Published(p)] = [stamp |-> clock', from |-> proc[p].seen,
                                           record |-> IF Published(p)[1] \in WithSidecar THEN <<>> ELSE proc[p].record]]
    /\ IF Published(p)[1] \in WithSidecar THEN Goto(p, "sidecar") ELSE AfterPublishing(p)
    /\ UNCHANGED <<sidecar, diskVars, meddled, spent>>

\* publish(): os.link, or os.rename of the masks, fails when the name is taken.
Link(p) ==
    /\ proc[p].at = "publish"
    /\ IF Exists(Published(p)) THEN End(p, "error") /\ UNCHANGED <<fs, clock>>
       ELSE /\ clock' = clock + 1
            /\ fs' = [fs EXCEPT ![Published(p)] = [stamp |-> clock', from |-> proc[p].seen,
                                                   record |-> IF Published(p)[1] \in WithSidecar THEN <<>> ELSE proc[p].record]]
            /\ IF Published(p)[1] \in WithSidecar THEN Goto(p, "sidecar") ELSE AfterPublishing(p)
    /\ UNCHANGED <<sidecar, diskVars, meddled, spent>>

\* Then its .build.json.
WriteSidecar(p) ==
    /\ proc[p].at = "sidecar"
    /\ sidecar' = [sidecar EXCEPT ![Published(p)] = [build |-> proc[p].record, output |-> fs[Published(p)].stamp]]
    /\ AfterPublishing(p)
    /\ UNCHANGED <<fs, diskVars, meddled, clock, spent>>

\* An abrupt kill: the private directory is lost, published files stay, and so does curl.
Killed(p) ==
    /\ Active(p) /\ spent.kills < MaxKills
    /\ spent' = [spent EXCEPT !.kills = @ + 1]
    /\ End(p, "killed")
    /\ UNCHANGED <<fs, sidecar, diskVars, meddled, clock>>

\* The operator replaces an input, or, while nothing runs, moves an output aside.
Replace(f) ==
    /\ f[1] \in Changeable /\ Exists(f) /\ spent.changes < MaxChanges
    /\ clock' = clock + 1
    /\ IF f[1] \in Downloaded
       THEN /\ inodes' = [inodes EXCEPT ![f[1]] = Append(@, <<>>)]
            /\ fs' = [fs EXCEPT ![f] = [stamp |-> clock', from |-> Len(inodes'[f[1]]), record |-> <<>>]]
       ELSE fs' = [fs EXCEPT ![f] = [stamp |-> clock', from |-> Foreign, record |-> <<>>]] /\ UNCHANGED inodes
    /\ meddled' = IF f[1] \in Downloaded \/ \E p \in Processes : proc[p].at = "sidecar" /\ Published(p) = f
                  THEN meddled \cup {f} ELSE meddled
    /\ proc' = Disturbed
    /\ spent' = [spent EXCEPT !.changes = @ + 1]
    /\ UNCHANGED <<sidecar, part, curls>>

MoveAside(f) ==
    /\ f[1] \notin Shared \cup {"masks"} \/ f[1] = "nrw.pbf"
    /\ Exists(f) /\ spent.changes < MaxChanges /\ \A p \in Processes : ~Active(p)
    /\ fs' = [fs EXCEPT ![f] = Absent]
    /\ meddled' = meddled \ {f}
    /\ proc' = Disturbed
    /\ spent' = [spent EXCEPT !.changes = @ + 1]
    /\ UNCHANGED <<sidecar, diskVars, clock>>

Step(p) ==
    \/ \E command \in Commands[p] : Start(p, command)
    \/ Check(p) \/ Download(p) \/ Verify(p) \/ LinkOriginal(p) \/ UnlinkPart(p) \/ Fetched(p)
    \/ ToolStarts(p) \/ ToolEnds(p) \/ ToolFails(p)
    \/ Recheck(p) \/ Link(p) \/ WriteSidecar(p) \/ Killed(p)

Next ==
    \/ \E p \in Processes : Step(p)
    \/ \E k \in DOMAIN curls : Curl(k)
    \/ \E f \in Files : Replace(f) \/ MoveAside(f)

SpecPipeline == Init /\ [][Next]_vars
-----------------------------------------------------------------------------
(* Properties. *)

\* A file that would be reused was made, from the beginning of the tool's run to its end,
\* from the very inputs its record names, though inputs are replaced while tools run and
\* commands are killed between any two steps (state.py, reusable and publish). Not so a file
\* the operator puts in the place of one that was linked and is not yet in its sidecar:
\* file_record(destination) is taken after os.link.
RecordTrue ==
    \A f \in Files : Exists(f) /\ Recorded(f) # <<>> /\ f \notin meddled =>
        \A i \in DOMAIN Recorded(f) : fs[f].from[i] = {Recorded(f)[i]}

\* When `run` completes and no input was replaced or written to meanwhile, every file behind
\* the candidate was made from the files that are there now, all the way to the downloads:
\* nothing stale from earlier, killed or refused runs is left in between. And a download,
\* resumed over any number of attempts, is whole unless two downloads of it overlapped or the
\* operator replaced it. Files that were filed under a wrong record are excepted, see
\* RecordTrue (pipeline.py, run and merge; setup.py, download).
CandidateCurrent ==
    \A p \in Processes :
        proc[p].outcome = "done" /\ proc[p].calm /\ proc[p].command = Run =>
            /\ \A raw \in Downloaded : Original(raw) \notin meddled => DataOf(raw) = Whole
            /\ \A s \in Steps : \A o \in ToSet(OutputsOf(s)) : \A i \in InputsOf(s) :
                /\ Exists(Place(p, o))
                /\ Place(p, o) \notin meddled => fs[Place(p, o)].from[i] = {fs[Place(p, i)].stamp}

\* `Completed files are published without overwriting existing ones', although only the
\* OUTPUT_DIR is locked and the inputs and the NRW extract are shared: no step of a command
\* or of its curl changes a file that is there (state.py, publish; setup.py, download). The
\* one exception is a download that two curls had open: the second goes on writing to the
\* inode, but even then the name stays with it.
NothingOverwritten ==
    [][\A f \in Files : Exists(f) /\ fs'[f] # fs[f] =>
        \/ spent'.changes # spent.changes
        \/ f[1] \in Downloaded /\ f \in meddled /\ fs'[f].from = fs[f].from]_vars

\* What the documentation says of a stopped pipeline: PBFs that were published have a
\* sidecar, so that the next run reuses them (docs/WDR-TILESETS.md; state.py, publish).
StampedOutputs ==
    (\A p \in Processes : ~Active(p)) => \A f \in Files : f[1] \in {"europe.pbf", "dach.pbf", "nrw.pbf"} /\ Exists(f) => Recorded(f) # <<>>
-----------------------------------------------------------------------------
(* The strengthening that makes RecordTrue and CandidateCurrent inductive. *)

Busy == {"make", "tool", "made", "publish", "sidecar"}

AtDownload == {"download"} \cup AtPart
CurlStates == {"started", "anew", "resume", "writing", "appending", "done"}

TypeOK ==
    /\ clock \in Nat
    /\ DOMAIN fs = Files
    /\ \A f \in Files : DOMAIN fs[f] = {"stamp", "from", "record"} /\ fs[f].stamp \in 0..clock
    /\ DOMAIN sidecar = Files /\ \A f \in Files : sidecar[f].output \in 0..clock
    /\ meddled \subseteq Files
    /\ inodes \in [Downloaded -> Seq(Seq(Nat))]
    /\ DOMAIN part = Downloaded /\ \A r \in Downloaded : part[r] \in 0..Len(inodes[r])
    /\ curls \in Seq([raw : Downloaded, at : CurlStates, inode : Nat, piece : Nat])
    /\ \A k \in DOMAIN curls : curls[k].at \in {"writing", "appending"} => curls[k].inode \in DOMAIN inodes[curls[k].raw]
    /\ DOMAIN proc = Processes
    /\ \A p \in Processes :
         /\ DOMAIN proc[p] = DOMAIN Idle
         /\ proc[p].at \in {"idle", "check", "fetched"} \cup AtDownload \cup Busy
         /\ proc[p].todo \in Seq(Steps) /\ (Active(p) => proc[p].todo # <<>>)
         /\ proc[p].at \in AtDownload => Current(p) \in Renumbering
    /\ spent \in [changes : Nat, kills : Nat, fails : Nat, starts : Nat]

\* What is known of a step that is being made. Stamps only grow while a command runs, so an
\* input that has the recorded stamp when the tool is done had it all the time.
RecordHolds(p) ==
    LET s == Current(p)
        pr == proc[p]
    IN  /\ pr.at \in Busy =>
             /\ DOMAIN pr.record = InputsOf(s)
             /\ \A i \in InputsOf(s) : pr.record[i] \in Nat /\ pr.record[i] <= fs[Place(p, i)].stamp
        /\ pr.at \in {"tool", "made"} =>
             /\ DOMAIN pr.seen = InputsOf(s)
             /\ \A i \in InputsOf(s) : pr.seen[i] # {} /\ pr.seen[i] \subseteq pr.record[i]..fs[Place(p, i)].stamp
        /\ pr.at \in {"publish", "sidecar"} => \A i \in InputsOf(s) : pr.seen[i] = {pr.record[i]}
        /\ pr.at = "sidecar" /\ Published(p) \in Files =>
             Exists(Published(p)) /\ (Published(p) \notin meddled => fs[Published(p)].from = pr.seen)

\* The outputs of a step that are still to be published.
MissingOutputs(p) ==
    proc[p].at \in Busy => proc[p].missing # {} /\ proc[p].missing \subseteq DOMAIN OutputsOf(Current(p))

\* A command's curl is its own, and has returned before the .part file is looked at.
OwnCurl(p) ==
    /\ proc[p].at \in AtPart =>
         /\ proc[p].pid \in DOMAIN curls /\ curls[proc[p].pid].raw = RawOf(p)
         /\ proc[p].at # "curl" => curls[proc[p].pid].at = "done"
    /\ \A q \in Processes : {proc[p].at, proc[q].at} \subseteq AtPart /\ proc[p].pid = proc[q].pid => p = q

\* One download at a time keeps its .part file: what was checked is what is linked, and
\* nothing writes to what was linked.
DownloadWhole(raw) ==
    /\ \A k, l \in DOMAIN curls : curls[k].raw = raw /\ curls[l].raw = raw /\ Live(k) /\ Live(l) => k = l
    /\ Exists(Original(raw)) => /\ DataOf(raw) = Whole
                                /\ \A k \in DOMAIN curls : curls[k].raw = raw => curls[k].at = "done"
    /\ \A p \in Processes : proc[p].at = "checked" /\ RawOf(p) = raw => part[raw] # 0 /\ inodes[raw][part[raw]] = Whole

DownloadsInv ==
    /\ \A p \in Processes : OwnCurl(p)
    /\ \A raw \in Downloaded : Original(raw) \notin meddled => DownloadWhole(raw)

\* What is left to do is the end of the command.
CommandLeft(p) ==
    LET todo == proc[p].todo
        command == proc[p].command
    IN  /\ Active(p) => proc[p].outcome = "none"
        /\ command \in Seq(Steps)
        /\ Len(todo) <= Len(command)
        /\ \A j \in 1..Len(todo) : todo[j] = command[Len(command) - Len(todo) + j]

StepsDone(p) ==
    IF Active(p) THEN {proc[p].command[j] : j \in 1..(Len(proc[p].command) - Len(proc[p].todo))}
    ELSE IF proc[p].outcome = "done" THEN ToSet(proc[p].command) ELSE {}

\* Output o of step s was made from what is there now.
FromNow(p, s, o) ==
    /\ Exists(Place(p, o))
    /\ \A i \in InputsOf(s) :
         /\ Exists(Place(p, i))
         /\ Place(p, o) \notin meddled => fs[Place(p, o)].from[i] = {fs[Place(p, i)].stamp}

\* As long as nothing was replaced: the record is that of the present inputs, and the outputs
\* of the steps done, and those of the present one that were there, are made from them.
CalmCurrent(p) ==
    LET s == Current(p)
        pr == proc[p]
    IN  pr.calm =>
          /\ pr.at \in Busy =>
               /\ \A i \in InputsOf(s) : Exists(Place(p, i)) /\ pr.record[i] = fs[Place(p, i)].stamp
               /\ \A k \in DOMAIN OutputsOf(s) \ pr.missing : FromNow(p, s, OutputsOf(s)[k])
          /\ \A d \in StepsDone(p) : \A o \in ToSet(OutputsOf(d)) : FromNow(p, d, o)

\* The inductive invariant of the build pipeline: files of a step are published with what its
\* tool saw, and as long as nothing is replaced the steps done are up to date.
PipelineInv ==
    /\ TypeOK /\ RecordTrue /\ DownloadsInv
    /\ \A p \in Processes : RecordHolds(p) /\ MissingOutputs(p) /\ CommandLeft(p) /\ CalmCurrent(p)
=============================================================================
