--------------------------- MODULE PipelineProofs ---------------------------
(***************************************************************************)
(* Proofs about BuildPipeline, for any number of commands running at a     *)
(* time, any directories, any sequences of steps and any inputs that are   *)
(* replaced; and about WorkerPools, for any number of jobs and workers.    *)
(***************************************************************************)
EXTENDS BuildPipeline, WorkerPools, Induction, SequenceTheorems, TLAPS

-----------------------------------------------------------------------------
(* The steps. *)

(* Every step has inputs, and one output or two, which are not downloads. *)
LEMMA StepFacts ==
    ASSUME NEW s \in Steps
    PROVE  /\ InputsOf(s) # {} /\ InputsOf(s) \subseteq Names
           /\ OutputsOf(s) \in Seq(Names \ Downloaded)
           /\ 1 \in DOMAIN OutputsOf(s) /\ DOMAIN OutputsOf(s) \subseteq Nat
<1> DEFINE Outputs == UNION {ToSet(OutputsOf(t)) : t \in Steps}
<1>1. \A t \in Steps : ToSet(OutputsOf(t)) \subseteq Outputs
  OBVIOUS
<1>2. {"europe.pbf", "dach.pbf", "regions.mbtiles", "outside.geojson", "nrw.pbf", "masks",
       "nrw-v4.mbtiles", "coastline.mbtiles", "europe.mbtiles", "dach.mbtiles", "nrw.mbtiles"} \subseteq Outputs
  BY <1>1 DEF ToSet, OutputsOf, Steps
<1>3. Outputs \subseteq Names
  BY DEF Names
<1>4. Downloaded \cup {"code"} \subseteq Names
  BY DEF Names
<1>5. InputsOf(s) # {} /\ InputsOf(s) \subseteq Names
  <2>1. CASE s = "merge"
    <3>1. InputsOf(s) = ToSet(Profiles)
      BY <2>1 DEF InputsOf
    <3>2. ToSet(Profiles) = {"coastline.mbtiles", "europe.mbtiles", "dach.mbtiles", "nrw.mbtiles"}
      BY DEF ToSet, Profiles
    <3> QED BY <3>1, <3>2, <1>2, <1>3
  <2>2. CASE s # "merge"
    BY <2>2, <1>2, <1>3, <1>4 DEF InputsOf, Steps, Downloaded
  <2> QED BY <2>1, <2>2
<1>6. OutputsOf(s) \in Seq(Names \ Downloaded)
  <2> DEFINE O == {"europe.pbf", "dach.pbf", "regions.mbtiles", "outside.geojson", "nrw.pbf", "masks",
       "nrw-v4.mbtiles", "coastline.mbtiles", "europe.mbtiles", "dach.mbtiles", "nrw.mbtiles"}
  <2>1. O \subseteq Names \ Downloaded
    BY <1>2, <1>3 DEF Downloaded
  <2>2. OutputsOf(s) \in Seq(O)
    <3>1. CASE s = "regions"
      BY <3>1 DEF OutputsOf
    <3>2. CASE s # "regions"
      <4>1. \A n \in O : <<n>> \in Seq(O)
        OBVIOUS
      <4> HIDE DEF O
      <4>2. \E n \in O : OutputsOf(s) = <<n>>
        BY <3>2 DEF OutputsOf, Steps, O
      <4> QED BY <4>1, <4>2
    <3> QED BY <3>1, <3>2
  <2> QED BY <2>1, <2>2
<1>7. 1 \in DOMAIN OutputsOf(s) /\ DOMAIN OutputsOf(s) \subseteq Nat
  BY DEF OutputsOf, Steps
<1> QED BY <1>5, <1>6, <1>7

(* A name has a place among the files. *)
LEMMA PlaceInFiles ==
    ASSUME NEW p \in Processes, NEW n \in Names
    PROVE  Place(p, n) \in Files /\ Place(p, n)[1] = n
BY DEF Files, Place

-----------------------------------------------------------------------------
(* What becomes of a command. *)

(* A command that ends keeps its name and whether it was disturbed. *)
LEMMA EndFacts ==
    ASSUME TypeOK, NEW p \in Processes, NEW o, End(p, o)
    PROVE  /\ DOMAIN proc' = Processes /\ \A q \in Processes : q # p => proc'[q] = proc[q]
           /\ DOMAIN proc'[p] = DOMAIN Idle /\ proc'[p].at = "idle" /\ proc'[p].todo = <<>>
           /\ proc'[p].outcome = o /\ proc'[p].calm = proc[p].calm /\ proc'[p].command = proc[p].command
BY DEF TypeOK, End, Idle

LEMMA GotoFacts ==
    ASSUME TypeOK, NEW p \in Processes, NEW a, Goto(p, a)
    PROVE  /\ DOMAIN proc' = Processes /\ \A q \in Processes : q # p => proc'[q] = proc[q]
           /\ DOMAIN proc'[p] = DOMAIN Idle /\ proc'[p].at = a /\ proc'[p].todo = proc[p].todo
           /\ proc'[p].outcome = proc[p].outcome /\ proc'[p].calm = proc[p].calm
           /\ proc'[p].command = proc[p].command /\ proc'[p].record = proc[p].record
           /\ proc'[p].seen = proc[p].seen /\ proc'[p].missing = proc[p].missing
BY DEF TypeOK, Goto, Idle

LEMMA NextStepFacts ==
    ASSUME TypeOK, NEW p \in Processes, NextStep(p), Active(p)
    PROVE  /\ DOMAIN proc' = Processes /\ \A q \in Processes : q # p => proc'[q] = proc[q]
           /\ DOMAIN proc'[p] = DOMAIN Idle
           /\ proc'[p].calm = proc[p].calm /\ proc'[p].command = proc[p].command
           /\ \/ Len(proc[p].todo) = 1 /\ proc'[p].at = "idle" /\ proc'[p].todo = <<>> /\ proc'[p].outcome = "done"
              \/ Len(proc[p].todo) > 1 /\ proc'[p].at = "check" /\ proc'[p].todo = Tail(proc[p].todo)
                                       /\ proc'[p].outcome = "none"
<1>1. proc[p].todo \in Seq(Steps) /\ proc[p].todo # <<>>
  BY DEF TypeOK
<1>2. CASE Len(proc[p].todo) = 1
  BY <1>2, EndFacts DEF NextStep
<1>3. CASE Len(proc[p].todo) # 1
  <2>1. Len(proc[p].todo) > 1
    <3> DEFINE n == Len(proc[p].todo)
    <3>1. n \in Nat \ {0}
      BY <1>1, EmptySeq
    <3>2. n # 1
      BY <1>3
    <3> HIDE DEF n
    <3>3. n > 1
      BY <3>1, <3>2
    <3> QED BY <3>3 DEF n
  <2>2. proc' = [proc EXCEPT ![p] = [Idle EXCEPT !.at = "check", !.todo = Tail(proc[p].todo),
                                                 !.calm = proc[p].calm, !.command = proc[p].command]]
    BY <1>3 DEF NextStep
  <2>3. proc'[p] = [Idle EXCEPT !.at = "check", !.todo = Tail(proc[p].todo),
                                !.calm = proc[p].calm, !.command = proc[p].command]
    BY <2>2 DEF TypeOK
  <2>4. DOMAIN proc' = Processes /\ \A q \in Processes : q # p => proc'[q] = proc[q]
    BY <2>2 DEF TypeOK
  <2> QED BY <2>1, <2>3, <2>4 DEF Idle
<1> QED BY <1>2, <1>3

(* What is left of a command is shorter by its first step. *)
LEMMA TailFacts ==
    ASSUME NEW S, NEW t \in Seq(S), Len(t) > 1
    PROVE  /\ Tail(t) \in Seq(S) /\ Tail(t) # <<>> /\ Len(Tail(t)) = Len(t) - 1
           /\ \A j \in 1..Len(Tail(t)) : Tail(t)[j] = t[j + 1]
<1>1. t # <<>>
  OBVIOUS
<1>2. Tail(t) \in Seq(S) /\ Len(Tail(t)) = Len(t) - 1 /\ \A j \in 1..Len(Tail(t)) : Tail(t)[j] = t[j + 1]
  BY <1>1, HeadTailProperties
<1>3. Len(Tail(t)) # 0
  BY <1>2
<1>4. Tail(t) # <<>>
  BY <1>3, EmptySeq
<1> QED BY <1>2, <1>4

LEMMA MakeFacts ==
    ASSUME TypeOK, NEW p \in Processes, NEW m, Make(p, m)
    PROVE  \/ End(p, "error")
           \/ /\ DOMAIN proc' = Processes /\ \A q \in Processes : q # p => proc'[q] = proc[q]
              /\ DOMAIN proc'[p] = DOMAIN Idle /\ proc'[p].at = "make" /\ proc'[p].todo = proc[p].todo
              /\ proc'[p].calm = proc[p].calm /\ proc'[p].command = proc[p].command /\ proc'[p].outcome = proc[p].outcome
              /\ proc'[p].record = RecordOf(p, Current(p)) /\ proc'[p].missing = m
              /\ ~Raises(p, Current(p))
<1>1. CASE Raises(p, Current(p))
  BY <1>1 DEF Make
<1>2. CASE ~Raises(p, Current(p))
  <2>1. proc' = [proc EXCEPT ![p].at = "make", ![p].record = RecordOf(p, Current(p)), ![p].missing = m]
    BY <1>2 DEF Make
  <2>2. DOMAIN proc' = Processes /\ \A q \in Processes : q # p => proc'[q] = proc[q]
    BY <2>1 DEF TypeOK
  <2> QED BY <1>2, <2>1, <2>2 DEF TypeOK, Idle
<1> QED BY <1>1, <1>2

LEMMA AfterPublishingFacts ==
    ASSUME TypeOK, NEW p \in Processes, AfterPublishing(p)
    PROVE  \/ NextStep(p) /\ proc[p].missing = {First(p)}
           \/ /\ DOMAIN proc' = Processes /\ \A q \in Processes : q # p => proc'[q] = proc[q]
              /\ DOMAIN proc'[p] = DOMAIN Idle /\ proc'[p].at = "publish" /\ proc'[p].todo = proc[p].todo
              /\ proc'[p].calm = proc[p].calm /\ proc'[p].command = proc[p].command /\ proc'[p].outcome = proc[p].outcome
              /\ proc'[p].record = proc[p].record /\ proc'[p].seen = proc[p].seen
              /\ proc'[p].missing = proc[p].missing \ {First(p)} /\ proc[p].missing # {First(p)}
<1>1. CASE proc[p].missing = {First(p)}
  BY <1>1 DEF AfterPublishing
<1>2. CASE proc[p].missing # {First(p)}
  <2>1. proc' = [proc EXCEPT ![p].at = "publish", ![p].missing = @ \ {First(p)}]
    BY <1>2 DEF AfterPublishing
  <2>2. DOMAIN proc' = Processes /\ \A q \in Processes : q # p => proc'[q] = proc[q]
    BY <2>1 DEF TypeOK
  <2> QED BY <1>2, <2>1, <2>2 DEF TypeOK, Idle
<1> QED BY <1>1, <1>2

-----------------------------------------------------------------------------
(* Downloads. *)

(* An original is a file, and what a command downloads is one.             *)
LEMMA OriginalFile ==
    ASSUME NEW raw \in Downloaded
    PROVE  Original(raw) \in Files /\ Original(raw)[1] = raw
<1>1. PICK p \in Processes : TRUE
  BY CommandsAssumption
<1>2. raw \in Names /\ raw \in Shared
  BY DEF Names, Shared
<1>3. Place(p, raw) = Original(raw)
  BY <1>2 DEF Place, Original
<1> QED BY <1>2, <1>3, PlaceInFiles

LEMMA RawFacts ==
    ASSUME TypeOK, NEW p \in Processes, proc[p].at \in AtDownload
    PROVE  RawOf(p) \in Downloaded
<1>1. Current(p) \in Renumbering
  BY DEF TypeOK
<1>2. \E raw \in Downloaded : InputsOf(Current(p)) = {raw}
  BY <1>1 DEF Renumbering, InputsOf, Downloaded
<1> QED BY <1>2 DEF RawOf

(* A command that downloads ends with an error or stays with its step.     *)
Downloads(p) == Download(p) \/ Verify(p) \/ LinkOriginal(p) \/ UnlinkPart(p)

LEMMA DownloadMoves ==
    ASSUME TypeOK, NEW p \in Processes, Downloads(p)
    PROVE  /\ Active(p) /\ proc[p].at \in AtDownload
           /\ \/ End(p, "error")
              \/ /\ DOMAIN proc' = Processes /\ \A q \in Processes : q # p => proc'[q] = proc[q]
                 /\ DOMAIN proc'[p] = DOMAIN Idle /\ proc'[p].at \in {"curl", "checked", "linked", "fetched"}
                 /\ proc'[p].todo = proc[p].todo /\ proc'[p].outcome = proc[p].outcome
                 /\ proc'[p].calm = proc[p].calm /\ proc'[p].command = proc[p].command
                 /\ proc'[p].at # "curl" => proc'[p].pid = proc[p].pid
<1>1. Active(p) /\ proc[p].at \in AtDownload
  BY DEF Downloads, Download, Verify, LinkOriginal, UnlinkPart, Active, AtDownload, AtPart
<1>2. \/ End(p, "error")
      \/ \E a \in {"checked", "linked", "fetched"} : Goto(p, a)
      \/ \E n : proc' = [proc EXCEPT ![p].at = "curl", ![p].pid = n]
  <2>1. CASE Download(p)
    <3>1. CASE Exists(Original(RawOf(p)))
      BY <2>1, <3>1 DEF Download
    <3>2. CASE ~Exists(Original(RawOf(p)))
      BY <2>1, <3>2 DEF Download
    <3> QED BY <3>1, <3>2
  <2>2. CASE Verify(p) \/ LinkOriginal(p) \/ UnlinkPart(p)
    BY <2>2 DEF Verify, LinkOriginal, UnlinkPart
  <2> QED BY <2>1, <2>2 DEF Downloads
<1>3. ASSUME NEW a \in {"checked", "linked", "fetched"}, Goto(p, a)
      PROVE  /\ DOMAIN proc' = Processes /\ \A q \in Processes : q # p => proc'[q] = proc[q]
             /\ DOMAIN proc'[p] = DOMAIN Idle /\ proc'[p].at = a /\ proc'[p].pid = proc[p].pid
             /\ proc'[p].todo = proc[p].todo /\ proc'[p].outcome = proc[p].outcome
             /\ proc'[p].calm = proc[p].calm /\ proc'[p].command = proc[p].command
  BY <1>3 DEF Goto, TypeOK, Idle
<1>4. ASSUME NEW n, proc' = [proc EXCEPT ![p].at = "curl", ![p].pid = n]
      PROVE  /\ DOMAIN proc' = Processes /\ \A q \in Processes : q # p => proc'[q] = proc[q]
             /\ DOMAIN proc'[p] = DOMAIN Idle /\ proc'[p].at = "curl"
             /\ proc'[p].todo = proc[p].todo /\ proc'[p].outcome = proc[p].outcome
             /\ proc'[p].calm = proc[p].calm /\ proc'[p].command = proc[p].command
  BY <1>4 DEF TypeOK, Idle
<1> QED BY <1>1, <1>2, <1>3, <1>4

(* What TypeOK says of downloads. *)
CurlType == [raw : Downloaded, at : CurlStates, inode : Nat, piece : Nat]
DisksOK ==
    /\ inodes \in [Downloaded -> Seq(Seq(Nat))]
    /\ DOMAIN part = Downloaded /\ \A r \in Downloaded : part[r] \in 0..Len(inodes[r])
    /\ curls \in Seq(CurlType)
    /\ \A k \in DOMAIN curls : curls[k].at \in {"writing", "appending"} => curls[k].inode \in DOMAIN inodes[curls[k].raw]

LEMMA DisksTyped == TypeOK => DisksOK
BY DEF TypeOK, DisksOK, CurlType

(* And of files, commands and counters. *)
FilesOK ==
    /\ clock \in Nat
    /\ DOMAIN fs = Files
    /\ \A f \in Files : DOMAIN fs[f] = {"stamp", "from", "record"} /\ fs[f].stamp \in 0..clock
    /\ DOMAIN sidecar = Files /\ \A f \in Files : sidecar[f].output \in 0..clock
    /\ meddled \subseteq Files
SpentType == [changes : Nat, kills : Nat, fails : Nat, starts : Nat]

LEMMA OthersTyped ==
    TypeOK => /\ FilesOK /\ spent \in SpentType
              /\ DOMAIN proc = Processes /\ \A p \in Processes : DOMAIN proc[p] = DOMAIN Idle
BY DEF TypeOK, FilesOK, SpentType

LEMMA CurlSet ==
    ASSUME NEW c \in CurlType
    PROVE  /\ \A a \in CurlStates : [c EXCEPT !.at = a] \in CurlType /\ [c EXCEPT !.at = a].at = a
           /\ \A i \in Nat : [c EXCEPT !.inode = i] \in CurlType /\ [c EXCEPT !.inode = i].inode = i
           /\ \A n \in Nat : [c EXCEPT !.piece = n] \in CurlType
BY DEF CurlType

LEMMA CurlTyped ==
    ASSUME DisksOK, NEW k \in DOMAIN curls
    PROVE  curls[k] \in CurlType /\ curls[k].raw \in Downloaded /\ curls[k].inode \in Nat /\ curls[k].piece \in Nat
<1>1. curls \in Seq(CurlType)
  BY DEF DisksOK
<1>2. k \in 1..Len(curls)
  BY <1>1, LenProperties
<1>3. curls[k] \in CurlType
  BY <1>1, <1>2, ElementOfSeq
<1> QED BY <1>3 DEF CurlType

(* curl runs, and touches no other download than its own. If the inode it  *)
(* has open was linked, it changes the original under its name.            *)
LEMMA CurlFacts ==
    ASSUME TypeOK, NEW k \in DOMAIN curls, Curl(k), NEW raw, raw = curls[k].raw
    PROVE  /\ raw \in Downloaded /\ curls[k].at # "done"
           /\ sidecar' = sidecar /\ meddled' = meddled /\ spent' = spent
           /\ DOMAIN curls' = DOMAIN curls
           /\ \A l \in DOMAIN curls : curls'[l].raw = curls[l].raw /\ (l # k => curls'[l] = curls[l])
           /\ \A r \in Downloaded : r # raw => inodes'[r] = inodes[r] /\ part'[r] = part[r]
           /\ \/ fs' = fs /\ proc' = proc /\ clock' = clock
              \/ /\ Exists(Original(raw)) /\ clock' = clock + 1
                 /\ fs' = [fs EXCEPT ![Original(raw)].stamp = clock + 1] /\ proc' = Disturbed
<1>1. /\ curls[k] \in [raw : Downloaded, at : CurlStates, inode : Nat, piece : Nat]
      /\ DOMAIN inodes = Downloaded /\ DOMAIN part = Downloaded
  BY DisksTyped, CurlTyped DEF DisksOK, CurlType
<1>2. raw \in Downloaded /\ curls[k].at # "done"
  BY <1>1 DEF Curl, CurlLooks, CurlOpens, CurlWrites
<1>3. sidecar' = sidecar /\ meddled' = meddled /\ spent' = spent
  BY DEF Curl, CurlLooks, CurlOpens, CurlWrites
<1>4. ASSUME NEW c, curls' = [curls EXCEPT ![k] = c], c.raw = raw
      PROVE  /\ DOMAIN curls' = DOMAIN curls
             /\ \A l \in DOMAIN curls : curls'[l].raw = curls[l].raw /\ (l # k => curls'[l] = curls[l])
  BY <1>4
<1>5. \E c : curls' = [curls EXCEPT ![k] = c] /\ c.raw = raw
  <2>1. Gone(raw).raw = raw
    BY DEF Gone
  <2>2. CASE CurlLooks(k)
    <3>1. PICK a, n : curls' = [curls EXCEPT ![k].at = a, ![k].piece = n]
      BY <2>2 DEF CurlLooks
    <3>2. curls' = [curls EXCEPT ![k] = [curls[k] EXCEPT !.at = a, !.piece = n]]
      BY <3>1
    <3>3. [curls[k] EXCEPT !.at = a, !.piece = n].raw = raw
      BY <1>1
    <3> QED BY <3>2, <3>3
  <2>3. CASE CurlOpens(k)
    <3>1. \/ curls' = [curls EXCEPT ![k] = Gone(raw)]
          \/ \E i, a : curls' = [curls EXCEPT ![k] = [curls[k] EXCEPT !.inode = i, !.at = a]]
      BY <2>3 DEF CurlOpens
    <3>2. CASE curls' = [curls EXCEPT ![k] = Gone(raw)]
      BY <2>1, <3>2
    <3>3. ASSUME NEW i, NEW a, curls' = [curls EXCEPT ![k] = [curls[k] EXCEPT !.inode = i, !.at = a]]
          PROVE  \E c : curls' = [curls EXCEPT ![k] = c] /\ c.raw = raw
      <4>1. [curls[k] EXCEPT !.inode = i, !.at = a].raw = raw
        BY <1>1
      <4> QED BY <3>3, <4>1
    <3> QED BY <3>1, <3>2, <3>3
  <2>4. CASE CurlWrites(k)
    <3>1. \/ curls' = [curls EXCEPT ![k] = Gone(raw)]
          \/ \E n : curls' = [curls EXCEPT ![k] = [curls[k] EXCEPT !.piece = n]]
      BY <2>4 DEF CurlWrites
    <3>2. \A n : [curls[k] EXCEPT !.piece = n].raw = raw
      BY <1>1
    <3> QED BY <2>1, <3>1, <3>2
  <2> QED BY <2>2, <2>3, <2>4 DEF Curl
<1>6. \/ fs' = fs /\ proc' = proc /\ clock' = clock
      \/ \E i, d : WriteInode(raw, i, d)
  BY DEF Curl, CurlLooks, CurlOpens, CurlWrites
<1>7. ASSUME NEW i, NEW d, WriteInode(raw, i, d)
      PROVE  \/ fs' = fs /\ proc' = proc /\ clock' = clock
             \/ /\ Exists(Original(raw)) /\ clock' = clock + 1
                /\ fs' = [fs EXCEPT ![Original(raw)].stamp = clock + 1] /\ proc' = Disturbed
  BY <1>7 DEF WriteInode
<1>8. \/ \E i, d : WriteInode(raw, i, d)
      \/ inodes' = inodes
      \/ \E v : inodes' = [inodes EXCEPT ![raw] = v]
  BY DEF Curl, CurlLooks, CurlOpens, CurlWrites
<1>9. ASSUME NEW r \in Downloaded, r # raw PROVE inodes'[r] = inodes[r] /\ part'[r] = part[r]
  <2>1. part' = part \/ \E v : part' = [part EXCEPT ![raw] = v]
    BY DEF Curl, CurlLooks, CurlOpens, CurlWrites
  <2>2. ASSUME NEW i, NEW d, WriteInode(raw, i, d) PROVE inodes'[r] = inodes[r]
    BY <1>1, <1>9, <2>2 DEF WriteInode
  <2> QED BY <1>1, <1>8, <1>9, <2>1, <2>2
<1> QED BY <1>2, <1>3, <1>4, <1>5, <1>6, <1>7, <1>9

-----------------------------------------------------------------------------
(* Files. *)

(* A command puts a file where there is none, with a new stamp, and        *)
(* changes nothing else.                                                   *)
LEMMA FilesKept ==
    ASSUME TypeOK, NEW p \in Processes, Step(p)
    PROVE  /\ DOMAIN fs' = Files
           /\ \A f \in Files : Exists(f) => fs'[f] = fs[f]
           /\ \A f \in Files : fs'[f] # fs[f] => DOMAIN fs'[f] = {"stamp", "from", "record"} /\ fs'[f].stamp = clock + 1 /\ clock' = clock + 1
           /\ clock' \in {clock, clock + 1}
           /\ spent'.changes = spent.changes
           /\ meddled \subseteq meddled'
<1>0. meddled \subseteq meddled'
  BY DEF Step, Start, Check, Download, Verify, LinkOriginal, UnlinkPart, Fetched, ToolStarts, ToolEnds,
         ToolFails, Recheck, Link, WriteSidecar, Killed
<1>1. CASE LinkOriginal(p)
  <2> DEFINE x == Original(RawOf(p))
  <2>1. CASE ~(part[RawOf(p)] = 0 \/ Exists(x))
    <3>1. /\ clock' = clock + 1 /\ ~Exists(x) /\ spent' = spent
          /\ fs' = [fs EXCEPT ![x] = [stamp |-> clock', from |-> part[RawOf(p)], record |-> <<>>]]
      BY <1>1, <2>1 DEF LinkOriginal
    <3> QED BY <1>0, <3>1 DEF TypeOK
  <2>2. CASE part[RawOf(p)] = 0 \/ Exists(x)
    BY <1>0, <1>1, <2>2 DEF LinkOriginal, TypeOK
  <2> QED BY <2>1, <2>2
<1>2. CASE Link(p)
  <2> DEFINE x == Published(p)
  <2>1. CASE ~Exists(x)
    <3>1. PICK r : /\ clock' = clock + 1 /\ spent' = spent
                   /\ fs' = [fs EXCEPT ![x] = [stamp |-> clock', from |-> proc[p].seen, record |-> r]]
      BY <1>2, <2>1 DEF Link
    <3> QED BY <1>0, <3>1, <2>1 DEF TypeOK
  <2>2. CASE Exists(x)
    BY <1>0, <1>2, <2>2 DEF Link, TypeOK
  <2> QED BY <2>1, <2>2
<1>3. CASE \/ \E command \in Commands[p] : Start(p, command)
           \/ ToolFails(p) \/ Killed(p)
  BY <1>0, <1>3 DEF TypeOK, Start, ToolFails, Killed
<1>4. CASE \/ Check(p) \/ Download(p) \/ Verify(p) \/ UnlinkPart(p) \/ Fetched(p) \/ ToolStarts(p) \/ ToolEnds(p)
           \/ Recheck(p) \/ WriteSidecar(p)
  BY <1>0, <1>4 DEF TypeOK, Check, Download, Verify, UnlinkPart, Fetched, ToolStarts, ToolEnds, Recheck, WriteSidecar
<1> QED BY <1>1, <1>2, <1>3, <1>4 DEF Step

(* A download has one place.                                               *)
LEMMA OriginalOnly ==
    ASSUME NEW f \in Files, f[1] \in Downloaded
    PROVE  f = Original(f[1])
<1>1. PICK p \in Processes, n \in Names : f = Place(p, n)
  BY DEF Files
<1>2. f[1] = n
  BY <1>1 DEF Place
<1> QED BY <1>1, <1>2 DEF Place, Original, Shared

(* Replacing a file gives it a new stamp and no record, moving it aside    *)
(* waits for all commands; each disturbs all of them. A file that is       *)
(* replaced before its sidecar is there is marked.                         *)
LEMMA FilesDisturbed ==
    ASSUME TypeOK, NEW f \in Files, Replace(f) \/ MoveAside(f)
    PROVE  /\ DOMAIN fs' = Files /\ \A g \in Files : g # f => fs'[g] = fs[g]
           /\ spent' = [spent EXCEPT !.changes = @ + 1]
           /\ sidecar' = sidecar /\ part' = part /\ curls' = curls
           /\ DOMAIN proc' = Processes
           /\ \A p \in Processes : proc'[p] = [proc[p] EXCEPT !.calm = FALSE]
           /\ \A r \in Downloaded : r # f[1] => inodes'[r] = inodes[r]
           /\ \/ /\ Exists(f) /\ clock' = clock + 1
                 /\ DOMAIN fs'[f] = {"stamp", "from", "record"} /\ fs'[f].stamp = clock + 1 /\ fs'[f].record = <<>>
                 /\ meddled' \in {meddled, meddled \cup {f}}
                 /\ f[1] \in Downloaded \/ (\E p \in Processes : proc[p].at = "sidecar" /\ Published(p) = f) => f \in meddled'
              \/ /\ clock' = clock /\ fs'[f] = Absent /\ \A p \in Processes : ~Active(p)
                 /\ meddled' = meddled \ {f} /\ f[1] \notin Downloaded
<1>0. FilesOK
  BY OthersTyped
<1>1. CASE MoveAside(f)
  BY <1>0, <1>1 DEF FilesOK, MoveAside, Disturbed, Shared, Downloaded, diskVars
<1>2. CASE Replace(f)
  <2>1. /\ Exists(f) /\ clock' = clock + 1
        /\ sidecar' = sidecar /\ part' = part /\ curls' = curls /\ proc' = Disturbed
        /\ spent' = [spent EXCEPT !.changes = @ + 1]
        /\ meddled' = IF f[1] \in Downloaded \/ \E p \in Processes : proc[p].at = "sidecar" /\ Published(p) = f
                      THEN meddled \cup {f} ELSE meddled
    BY <1>2 DEF Replace
  <2>2. \E v : fs' = [fs EXCEPT ![f] = [stamp |-> clock + 1, from |-> v, record |-> <<>>]]
    BY <1>2 DEF Replace
  <2>3. \A r \in Downloaded : r # f[1] => inodes'[r] = inodes[r]
    BY <1>2 DEF Replace, TypeOK
  <2>4. DOMAIN fs' = Files /\ (\A g \in Files : g # f => fs'[g] = fs[g])
        /\ DOMAIN fs'[f] = {"stamp", "from", "record"} /\ fs'[f].stamp = clock + 1 /\ fs'[f].record = <<>>
    BY <2>2 DEF TypeOK
  <2> QED BY <2>1, <2>3, <2>4 DEF Disturbed
<1> QED BY <1>1, <1>2

-----------------------------------------------------------------------------
(* Type correctness. *)

(* What TypeOK says of a command. *)
CommandOK(pr) ==
    /\ DOMAIN pr = DOMAIN Idle
    /\ pr.at \in {"idle", "check", "fetched"} \cup AtDownload \cup Busy
    /\ pr.todo \in Seq(Steps) /\ (pr.at # "idle" => pr.todo # <<>>)
    /\ pr.at \in AtDownload => Head(pr.todo) \in Renumbering

LEMMA CommandsOK ==
    ASSUME TypeOK, NEW p \in Processes, Step(p)
    PROVE  /\ DOMAIN proc' = Processes /\ \A q \in Processes : q # p => proc'[q] = proc[q]
           /\ CommandOK(proc'[p])
<1> DEFINE Kept == DOMAIN proc' = Processes /\ \A q \in Processes : q # p => proc'[q] = proc[q]
           Goal == Kept /\ CommandOK(proc'[p])
<1> SUFFICES Goal
  OBVIOUS
<1>0. CommandOK(proc[p]) /\ DOMAIN proc = Processes
  BY DEF TypeOK, CommandOK, Active, Current
<1>1. ASSUME NEW o, End(p, o) PROVE Goal
  <2>1. <<>> \in Seq(Steps)
    BY EmptySeq
  <2> QED BY <1>1, <2>1, EndFacts DEF CommandOK, AtDownload, AtPart
<1>2. ASSUME NEW a \in Busy \cup {"download"}, Active(p), Goto(p, a), a = "download" => Current(p) \in Renumbering PROVE Goal
  BY <1>2, <1>0, GotoFacts DEF CommandOK, Active, Busy, AtDownload, AtPart, Current
<1>3. ASSUME Active(p), NextStep(p) PROVE Goal
  <2>1. CASE proc'[p].at = "idle" /\ proc'[p].todo = <<>>
    BY <2>1, <1>3, NextStepFacts, EmptySeq DEF CommandOK, AtDownload, AtPart
  <2>2. CASE Len(proc[p].todo) > 1 /\ proc'[p].at = "check" /\ proc'[p].todo = Tail(proc[p].todo)
    <3>1. Tail(proc[p].todo) \in Seq(Steps) /\ Tail(proc[p].todo) # <<>>
      BY <1>0, <2>2, TailFacts DEF CommandOK
    <3> QED BY <3>1, <2>2, <1>3, NextStepFacts DEF CommandOK, AtDownload, AtPart
  <2> QED BY <1>3, <2>1, <2>2, NextStepFacts
<1>4. ASSUME Active(p), NEW m, Make(p, m) PROVE Goal
  <2>1. CASE End(p, "error")
    BY <2>1, <1>1
  <2>2. CASE ~End(p, "error")
    BY <2>2, <1>4, <1>0, MakeFacts DEF CommandOK, Active, Busy, AtDownload, AtPart
  <2> QED BY <2>1, <2>2
<1>5. ASSUME Active(p), AfterPublishing(p) PROVE Goal
  <2>1. CASE NextStep(p)
    BY <2>1, <1>3, <1>5
  <2>2. CASE ~NextStep(p)
    BY <2>2, <1>5, <1>0, AfterPublishingFacts DEF CommandOK, Active, Busy, AtDownload, AtPart
  <2> QED BY <2>1, <2>2
<1> HIDE DEF Goal
<1>6. ASSUME NEW command \in Commands[p], Start(p, command) PROVE Goal
  <2>1. proc' = [proc EXCEPT ![p] = [Idle EXCEPT !.at = "check", !.todo = command, !.calm = TRUE, !.command = command]]
    BY <1>6 DEF Start
  <2>2. command \in Seq(Steps) /\ command # <<>>
    BY CommandsAssumption
  <2> QED BY <1>0, <2>1, <2>2 DEF Goal, CommandOK, Idle, AtDownload, AtPart
<1>7. CASE Check(p)
  <2>1. Active(p)
    BY <1>7 DEF Check, Active
  <2>2. \/ \E o : End(p, o)
        \/ NextStep(p) \/ (Goto(p, "download") /\ Current(p) \in Renumbering)
        \/ \E m : Make(p, m)
    BY <1>7 DEF Check
  <2> QED BY <2>1, <2>2, <1>1, <1>2, <1>3, <1>4
<1>8. CASE Downloads(p)
  <2>1. CASE End(p, "error")
    BY <2>1, <1>1
  <2>2. CASE ~End(p, "error")
    <3>1. /\ Active(p) /\ proc[p].at \in AtDownload
          /\ DOMAIN proc' = Processes /\ \A q \in Processes : q # p => proc'[q] = proc[q]
          /\ DOMAIN proc'[p] = DOMAIN Idle /\ proc'[p].at \in {"curl", "checked", "linked", "fetched"}
          /\ proc'[p].todo = proc[p].todo
      BY <1>8, <2>2, DownloadMoves
    <3> QED BY <1>0, <3>1 DEF Goal, CommandOK, Active, AtDownload, AtPart
  <2> QED BY <2>1, <2>2
<1>10. CASE Fetched(p)
  <2>1. Active(p) /\ ((\E o : End(p, o)) \/ \E m : Make(p, m))
    BY <1>10 DEF Fetched, Active
  <2> QED BY <2>1, <1>1, <1>4
<1>11. CASE ToolStarts(p) \/ ToolEnds(p)
  <2>1. proc[p].at # "idle" /\ \E a \in Busy : \E v : proc' = [proc EXCEPT ![p].at = a, ![p].seen = v]
    BY <1>11 DEF ToolStarts, ToolEnds, Busy
  <2> QED BY <1>0, <2>1 DEF Goal, CommandOK, Idle, Busy, AtDownload, AtPart
<1>12. CASE ToolFails(p) \/ Killed(p)
  BY <1>12, <1>1 DEF ToolFails, Killed
<1>13. CASE Recheck(p)
  <2>1. Active(p) /\ ((\E o : End(p, o)) \/ Goto(p, "publish"))
    BY <1>13 DEF Recheck, Active
  <2> QED BY <2>1, <1>1, <1>2 DEF Busy
<1>14. CASE Link(p)
  <2>1. Active(p) /\ ((\E o : End(p, o)) \/ Goto(p, "sidecar") \/ AfterPublishing(p))
    BY <1>14 DEF Link, Active
  <2> QED BY <2>1, <1>1, <1>2, <1>5 DEF Busy
<1>15. CASE WriteSidecar(p)
  <2>1. Active(p) /\ AfterPublishing(p)
    BY <1>15 DEF WriteSidecar, Active
  <2> QED BY <2>1, <1>5
<1> QED
  BY <1>6, <1>7, <1>8, <1>10, <1>11, <1>12, <1>13, <1>14, <1>15 DEF Step, Downloads

(* A command that is disturbed stays where it is. *)
LEMMA CalmLost ==
    ASSUME NEW pr, CommandOK(pr)
    PROVE  CommandOK([pr EXCEPT !.calm = FALSE])
<1>1. {"at", "todo"} \subseteq DOMAIN pr
  BY DEF CommandOK, Idle
<1> DEFINE n == [pr EXCEPT !.calm = FALSE]
<1>2. DOMAIN n = DOMAIN pr /\ n.at = pr.at /\ n.todo = pr.todo
  BY <1>1
<1> QED BY <1>2 DEF CommandOK

(* A curl that is at something else, and one that is new. *)
LEMMA SetCurl ==
    ASSUME curls \in Seq(CurlType), NEW k \in DOMAIN curls, NEW c \in CurlType, NEW s, s = [curls EXCEPT ![k] = c]
    PROVE  s \in Seq(CurlType) /\ DOMAIN s = DOMAIN curls /\ s[k] = c /\ \A l \in DOMAIN curls : l # k => s[l] = curls[l]
<1>1. DOMAIN curls = 1..Len(curls)
  BY LenProperties
<1>2. s \in Seq(CurlType) /\ Len(s) = Len(curls) /\ \A l \in 1..Len(curls) : s[l] = IF l = k THEN c ELSE curls[l]
  BY <1>1, ExceptSeq
<1>3. DOMAIN s = 1..Len(s)
  BY <1>2, LenProperties
<1> QED BY <1>1, <1>2, <1>3

LEMMA NewCurl ==
    ASSUME curls \in Seq(CurlType), NEW c \in CurlType
    PROVE  /\ Append(curls, c) \in Seq(CurlType)
           /\ DOMAIN Append(curls, c) = DOMAIN curls \cup {Len(curls) + 1} /\ Len(Append(curls, c)) = Len(curls) + 1
           /\ Len(curls) + 1 \notin DOMAIN curls
           /\ Append(curls, c)[Len(curls) + 1] = c
           /\ \A l \in DOMAIN curls : Append(curls, c)[l] = curls[l]
BY AppendProperties, LenProperties

LEMMA DisksStep ==
    ASSUME TypeOK, NEW p \in Processes, Step(p)
    PROVE  DisksOK' /\ meddled' \subseteq Files
<1>0. DisksOK /\ meddled \subseteq Files
  BY DEF TypeOK, DisksOK, CurlType
<1>1. ASSUME UNCHANGED <<part, inodes, curls>> PROVE DisksOK'
  BY <1>0, <1>1 DEF DisksOK
<1>2. CASE Download(p)
  <2> DEFINE raw == RawOf(p)
             c == [Gone(raw) EXCEPT !.at = "started"]
  <2>1. CASE Exists(Original(raw))
    BY <1>0, <1>1, <1>2, <2>1 DEF Download
  <2>2. CASE ~Exists(Original(raw))
    <3>1. /\ curls' = Append(curls, c) /\ part' = part /\ inodes' = inodes
          /\ meddled' = meddled \cup {Original(r) : r \in {raw} \cap {curls[k].raw : k \in {l \in DOMAIN curls : Live(l)}}}
      BY <1>2, <2>2 DEF Download
    <3>2. raw \in Downloaded
      BY <1>2, RawFacts DEF Download, AtDownload
    <3>3. c \in CurlType /\ c.at = "started"
      BY <3>2 DEF Gone, CurlType, CurlStates
    <3>4. meddled' \subseteq Files
      BY <1>0, <3>1, <3>2, OriginalFile
    <3> HIDE DEF c
    <3>5. DisksOK'
      BY <1>0, <3>1, <3>3, NewCurl DEF DisksOK
    <3> QED BY <3>4, <3>5
  <2> QED BY <2>1, <2>2
<1>3. CASE ToolFails(p)
  <2>1. CASE curls' = curls
    BY <1>0, <1>1, <1>3, <2>1 DEF ToolFails
  <2>2. CASE curls' # curls
    <3> DEFINE k == proc[p].pid
               c == Gone(RawOf(p))
    <3>1. /\ proc[p].at = "curl" /\ curls' = [curls EXCEPT ![k] = c]
          /\ part' = part /\ inodes' = inodes /\ meddled' = meddled
      BY <1>3, <2>2 DEF ToolFails
    <3>2. c \in CurlType /\ c.at = "done"
      BY <3>1, RawFacts DEF Gone, CurlType, CurlStates, AtDownload, AtPart
    <3> HIDE DEF c, k
    <3>3. k \in DOMAIN curls
      <4>1. DOMAIN curls = 1..Len(curls) /\ curls \in Seq(CurlType)
        BY <1>0, LenProperties DEF DisksOK
      <4>2. CASE k \notin DOMAIN curls
        <5>1. curls' = [i \in DOMAIN curls |-> curls[i]]
          BY <3>1, <4>2
        <5> QED BY <2>2, <4>1, <5>1
      <4> QED BY <4>2
    <3> QED BY <1>0, <3>1, <3>2, <3>3, SetCurl DEF DisksOK
  <2> QED BY <2>1, <2>2
<1>4. CASE UnlinkPart(p)
  <2>1. /\ part' = [part EXCEPT ![RawOf(p)] = 0] /\ inodes' = inodes /\ curls' = curls /\ meddled' = meddled
    BY <1>4 DEF UnlinkPart
  <2>2. \A r \in Downloaded : Len(inodes[r]) \in Nat
    BY <1>0, LenProperties DEF DisksOK
  <2> QED BY <1>0, <2>1, <2>2 DEF DisksOK
<1>5. CASE ~Download(p) /\ ~ToolFails(p) /\ ~UnlinkPart(p)
  <2>1. UNCHANGED <<part, inodes, curls, meddled>>
    BY <1>5 DEF Step, Start, Check, Verify, LinkOriginal, Fetched, ToolStarts, ToolEnds, Recheck, Link, WriteSidecar, Killed, diskVars
  <2> QED BY <1>0, <1>1, <2>1
<1> QED BY <1>2, <1>3, <1>4, <1>5

(* Data is written to an inode that is there. *)
LEMMA InodeWritten ==
    ASSUME DisksOK, NEW raw \in Downloaded, NEW i \in DOMAIN inodes[raw], NEW d \in Seq(Nat), WriteInode(raw, i, d)
    PROVE  /\ inodes' \in [Downloaded -> Seq(Seq(Nat))]
           /\ \A r \in Downloaded : Len(inodes'[r]) = Len(inodes[r]) /\ DOMAIN inodes'[r] = DOMAIN inodes[r]
<1> DEFINE v == [inodes[raw] EXCEPT ![i] = d]
<1>1. inodes' = [inodes EXCEPT ![raw] = v]
  BY DEF WriteInode
<1>2. inodes[raw] \in Seq(Seq(Nat)) /\ inodes \in [Downloaded -> Seq(Seq(Nat))]
  BY DEF DisksOK
<1>3. v \in Seq(Seq(Nat)) /\ Len(v) = Len(inodes[raw]) /\ DOMAIN v = DOMAIN inodes[raw]
  BY <1>2, ExceptSeq
<1> HIDE DEF v
<1> QED BY <1>1, <1>2, <1>3

LEMMA DisksCurl ==
    ASSUME TypeOK, NEW k \in DOMAIN curls, Curl(k)
    PROVE  DisksOK'
<1>0. DisksOK
  BY DEF TypeOK, DisksOK, CurlType
<1> DEFINE raw == curls[k].raw
           piece == curls[k].piece
<1>1. curls[k] \in CurlType /\ raw \in Downloaded /\ piece \in Nat
  BY <1>0, CurlTyped
<1>2. /\ inodes[raw] \in Seq(Seq(Nat)) /\ Len(inodes[raw]) \in Nat /\ DOMAIN inodes[raw] = 1..Len(inodes[raw])
      /\ \A i \in DOMAIN inodes[raw] : inodes[raw][i] \in Seq(Nat)
  BY <1>0, <1>1, LenProperties, ElementOfSeq DEF DisksOK
<1>3. part[raw] \in 0..Len(inodes[raw])
  BY <1>0, <1>1 DEF DisksOK
<1>4. Gone(raw) \in CurlType /\ Gone(raw).at = "done"
  BY <1>1 DEF Gone, CurlType, CurlStates
<1> HIDE DEF raw, piece
<1>5. CASE CurlLooks(k)
  <2> DEFINE size == IF part[raw] = 0 THEN 0 ELSE Len(inodes[raw][part[raw]])
             a == IF size = 0 THEN "anew" ELSE "resume"
             c == [curls[k] EXCEPT !.at = a, !.piece = size + 1]
  <2>1. curls' = [curls EXCEPT ![k] = c] /\ part' = part /\ inodes' = inodes
    BY <1>5 DEF CurlLooks, raw
  <2>2. size \in Nat
    BY <1>2, <1>3, LenProperties
  <2> HIDE DEF size
  <2>3. c \in CurlType /\ c.at \notin {"writing", "appending"}
    <3>1. a \in CurlStates /\ a \notin {"writing", "appending"}
      BY DEF CurlStates
    <3> HIDE DEF a
    <3>2. [curls[k] EXCEPT !.at = a] \in CurlType /\ [curls[k] EXCEPT !.at = a].at = a
      BY <1>1, <3>1, CurlSet
    <3> DEFINE d == [curls[k] EXCEPT !.at = a]
    <3>4. c = [d EXCEPT !.piece = size + 1] /\ d.at = a /\ d \in CurlType
      BY <3>2
    <3> HIDE DEF d
    <3>3. [d EXCEPT !.piece = size + 1] \in CurlType
      BY <2>2, <3>4, CurlSet
    <3>5. [d EXCEPT !.piece = size + 1].at = d.at
      BY <3>4 DEF CurlType
    <3> QED BY <3>1, <3>3, <3>4, <3>5
  <2> HIDE DEF c
  <2> QED BY <1>0, <2>1, <2>3, SetCurl DEF DisksOK
<1>6. CASE CurlOpens(k)
  <2> DEFINE inode == IF part[raw] = 0 THEN Len(inodes[raw]) + 1 ELSE part[raw]
             a == IF curls[k].at = "anew" THEN "writing" ELSE "appending"
             c == IF piece > Chunks THEN Gone(raw) ELSE [curls[k] EXCEPT !.inode = inode, !.at = a]
  <2>1. curls' = [curls EXCEPT ![k] = c] /\ part' = [part EXCEPT ![raw] = inode]
    BY <1>6 DEF CurlOpens, raw, piece
  <2>2. inode \in Nat
    BY <1>2, <1>3
  <2>3. /\ inodes' \in [Downloaded -> Seq(Seq(Nat))]
        /\ \A r \in Downloaded : DOMAIN inodes[r] \subseteq DOMAIN inodes'[r] /\ Len(inodes'[r]) >= Len(inodes[r])
        /\ inode \in DOMAIN inodes'[raw] /\ inode <= Len(inodes'[raw])
    <3>1. CASE part[raw] = 0
      <4> DEFINE v == Append(inodes[raw], <<>>)
      <4>1. inodes' = [inodes EXCEPT ![raw] = v]
        BY <1>6, <3>1 DEF CurlOpens, raw
      <4>2. <<>> \in Seq(Nat)
        BY EmptySeq
      <4>3. v \in Seq(Seq(Nat)) /\ Len(v) = Len(inodes[raw]) + 1 /\ DOMAIN v = 1..(Len(inodes[raw]) + 1)
        BY <1>2, <4>2, AppendProperties, LenProperties
      <4> HIDE DEF v
      <4>4. \A r \in Downloaded : Len(inodes[r]) \in Nat
        BY <1>0, LenProperties DEF DisksOK
      <4> QED BY <1>0, <1>1, <1>2, <3>1, <4>1, <4>3, <4>4 DEF DisksOK
    <3>2. CASE part[raw] # 0
      <4>1. inode \in DOMAIN inodes[raw] /\ inode <= Len(inodes[raw])
        BY <1>2, <1>3, <3>2
      <4>2. \A r \in Downloaded : Len(inodes[r]) \in Nat
        BY <1>0, LenProperties DEF DisksOK
      <4>3. CASE inodes' = inodes
        BY <1>0, <1>1, <4>1, <4>2, <4>3 DEF DisksOK
      <4>4. CASE WriteInode(raw, inode, <<>>)
        <5>1. <<>> \in Seq(Nat)
          BY EmptySeq
        <5> HIDE DEF inode
        <5>2. /\ inodes' \in [Downloaded -> Seq(Seq(Nat))]
              /\ \A r \in Downloaded : Len(inodes'[r]) = Len(inodes[r]) /\ DOMAIN inodes'[r] = DOMAIN inodes[r]
          BY <1>0, <1>1, <4>1, <4>4, <5>1, InodeWritten
        <5> QED BY <1>1, <4>1, <4>2, <5>2
      <4> QED BY <1>6, <3>2, <4>3, <4>4 DEF CurlOpens, raw
    <3> QED BY <3>1, <3>2
  <2> HIDE DEF inode
  <2>4. c \in CurlType /\ (c.at \in {"writing", "appending"} => c.raw = raw /\ c.inode = inode)
    <3>1. [curls[k] EXCEPT !.inode = inode, !.at = a] \in CurlType
      BY <1>1, <2>2 DEF CurlType, CurlStates
    <3> QED BY <1>1, <1>4, <3>1 DEF CurlType, raw
  <2> HIDE DEF c
  <2>5. /\ curls' \in Seq(CurlType) /\ DOMAIN curls' = DOMAIN curls /\ curls'[k] = c
        /\ \A l \in DOMAIN curls : l # k => curls'[l] = curls[l]
    BY <1>0, <2>1, <2>4, SetCurl DEF DisksOK
  <2>6. \A l \in DOMAIN curls' : curls'[l].at \in {"writing", "appending"} => curls'[l].inode \in DOMAIN inodes'[curls'[l].raw]
    <3>1. \A l \in DOMAIN curls : curls[l].raw \in Downloaded
      BY <1>0, CurlTyped
    <3> QED BY <1>0, <2>3, <2>4, <2>5, <3>1 DEF DisksOK
  <2>7. DOMAIN part' = Downloaded /\ \A r \in Downloaded : part'[r] \in 0..Len(inodes'[r])
    <3>1. \A r \in Downloaded : Len(inodes[r]) \in Nat /\ Len(inodes'[r]) \in Nat
      BY <1>0, <2>3, LenProperties DEF DisksOK
    <3> QED BY <1>0, <1>1, <2>1, <2>2, <2>3, <3>1 DEF DisksOK
  <2> QED BY <2>3, <2>5, <2>6, <2>7 DEF DisksOK
<1>7. CASE CurlWrites(k)
  <2> DEFINE inode == curls[k].inode
             data == inodes[raw][inode]
             d == IF curls[k].at = "writing" THEN Put(data, piece) ELSE Append(data, piece)
             c == IF piece = Chunks THEN Gone(raw) ELSE [curls[k] EXCEPT !.piece = piece + 1]
  <2>1. curls' = [curls EXCEPT ![k] = c] /\ part' = part /\ WriteInode(raw, inode, d)
    BY <1>7 DEF CurlWrites, raw, piece
  <2>2. inode \in DOMAIN inodes[raw]
    BY <1>0, <1>7 DEF DisksOK, CurlWrites, raw
  <2>3. data \in Seq(Nat)
    BY <1>2, <2>2
  <2>4. d \in Seq(Nat)
    <3> HIDE DEF data
    <3>1. Append(data, piece) \in Seq(Nat)
      BY <1>1, <2>3, AppendProperties
    <3>2. Put(data, piece) \in Seq(Nat)
      <4> DEFINE m == Max({Len(data), piece})
      <4>1. Len(data) \in Nat /\ DOMAIN data = 1..Len(data) /\ \A i \in 1..Len(data) : data[i] \in Nat
        BY <2>3, LenProperties, ElementOfSeq
      <4>2. m \in Nat /\ Len(data) <= m
        <5> DEFINE T == {Len(data), piece}
        <5>1. T \in SUBSET Nat /\ T # {} /\ Len(data) + piece \in Nat /\ Len(data) \in T /\ \A n \in T : n <= Len(data) + piece
          BY <1>1, <4>1
        <5> HIDE DEF T
        <5>2. Max(T) \in T /\ \A y \in T : Max(T) >= y
          BY <5>1, MaxOfNats
        <5> QED BY <4>1, <5>1, <5>2 DEF m, T
      <4> HIDE DEF m
      <4>3. \A i \in 1..m : (IF i = piece THEN piece ELSE IF i <= Len(data) THEN data[i] ELSE 0) \in Nat
        BY <1>1, <4>1, <4>2
      <4>4. [i \in 1..m |-> IF i = piece THEN piece ELSE IF i <= Len(data) THEN data[i] ELSE 0] \in Seq(Nat)
        BY <4>2, <4>3, FunctionIsSeq
      <4> QED BY <4>4 DEF Put, m
    <3> QED BY <3>1, <3>2
  <2> HIDE DEF d
  <2>5. /\ inodes' \in [Downloaded -> Seq(Seq(Nat))]
        /\ \A r \in Downloaded : Len(inodes'[r]) = Len(inodes[r]) /\ DOMAIN inodes'[r] = DOMAIN inodes[r]
    BY <1>0, <1>1, <2>1, <2>2, <2>4, InodeWritten
  <2>6. c \in CurlType /\ c.raw = raw /\ (c.at \in {"writing", "appending"} => c.inode = inode)
    <3>1. [curls[k] EXCEPT !.piece = piece + 1] \in CurlType
      BY <1>1 DEF CurlType
    <3> QED BY <1>1, <1>4, <3>1 DEF CurlType, raw, Gone
  <2> HIDE DEF c
  <2>7. /\ curls' \in Seq(CurlType) /\ DOMAIN curls' = DOMAIN curls /\ curls'[k] = c
        /\ \A l \in DOMAIN curls : l # k => curls'[l] = curls[l]
    BY <1>0, <2>1, <2>6, SetCurl DEF DisksOK
  <2>8. \A l \in DOMAIN curls : curls[l].raw \in Downloaded
    BY <1>0, CurlTyped
  <2>9. \A l \in DOMAIN curls' : curls'[l].at \in {"writing", "appending"} => curls'[l].inode \in DOMAIN inodes'[curls'[l].raw]
    <3> SUFFICES ASSUME NEW l \in DOMAIN curls, curls'[l].at \in {"writing", "appending"}
                 PROVE  curls'[l].inode \in DOMAIN inodes'[curls'[l].raw]
      BY <2>7
    <3>1. CASE l = k
      BY <1>1, <2>2, <2>5, <2>6, <2>7, <3>1
    <3>2. CASE l # k
      BY <1>0, <2>5, <2>7, <2>8, <3>2 DEF DisksOK
    <3> QED BY <3>1, <3>2
  <2> QED BY <1>0, <2>1, <2>5, <2>7, <2>9 DEF DisksOK
<1> QED BY <1>5, <1>6, <1>7 DEF Curl

LEMMA DisksDisturbed ==
    ASSUME TypeOK, NEW f \in Files, Replace(f) \/ MoveAside(f)
    PROVE  DisksOK'
<1>0. DisksOK
  BY DEF TypeOK, DisksOK, CurlType
<1>1. curls' = curls /\ part' = part
  BY FilesDisturbed
<1>2. /\ inodes' \in [Downloaded -> Seq(Seq(Nat))]
      /\ \A r \in Downloaded : Len(inodes'[r]) \in {Len(inodes[r]), Len(inodes[r]) + 1} /\ DOMAIN inodes[r] \subseteq DOMAIN inodes'[r]
  <2>0. \A r \in Downloaded : inodes[r] \in Seq(Seq(Nat)) /\ Len(inodes[r]) \in Nat /\ DOMAIN inodes[r] = 1..Len(inodes[r])
    BY <1>0, LenProperties DEF DisksOK
  <2>1. CASE inodes' = inodes
    BY <1>0, <2>1 DEF DisksOK
  <2>2. CASE f[1] \in Downloaded /\ inodes' = [inodes EXCEPT ![f[1]] = Append(inodes[f[1]], <<>>)]
    <3> DEFINE v == Append(inodes[f[1]], <<>>)
    <3>1. <<>> \in Seq(Nat)
      BY EmptySeq
    <3>2. v \in Seq(Seq(Nat)) /\ Len(v) = Len(inodes[f[1]]) + 1 /\ DOMAIN v = 1..(Len(inodes[f[1]]) + 1)
      BY <2>0, <2>2, <3>1, AppendProperties, LenProperties
    <3>3. inodes' = [inodes EXCEPT ![f[1]] = v]
      BY <2>2
    <3> HIDE DEF v
    <3>4. inodes \in [Downloaded -> Seq(Seq(Nat))] /\ f[1] \in Downloaded
      BY <1>0, <2>2 DEF DisksOK
    <3>5. inodes' \in [Downloaded -> Seq(Seq(Nat))]
      BY <3>2, <3>3, <3>4
    <3>6. \A r \in Downloaded : inodes'[r] = IF r = f[1] THEN v ELSE inodes[r]
      BY <3>3, <3>4
    <3>7. DOMAIN inodes[f[1]] \subseteq DOMAIN v
      BY <2>0, <3>2, <3>4
    <3> QED BY <2>0, <3>2, <3>4, <3>5, <3>6, <3>7
  <2> QED BY <2>1, <2>2 DEF Replace, MoveAside, diskVars
<1>3. \A l \in DOMAIN curls : curls[l].raw \in Downloaded
  BY <1>0, CurlTyped
<1>4. \A r \in Downloaded : Len(inodes[r]) \in Nat /\ Len(inodes'[r]) \in Nat
  BY <1>0, <1>2, LenProperties DEF DisksOK
<1> QED BY <1>0, <1>1, <1>2, <1>3, <1>4 DEF DisksOK

LEMMA TypeInit == Init => TypeOK
<1> SUFFICES ASSUME Init PROVE TypeOK
  OBVIOUS
<1>1. <<>> \in Seq(Steps) /\ <<>> \in Seq(Seq(Nat)) /\ <<>> \in Seq(CurlType) /\ Len(<<>>) = 0 /\ DOMAIN <<>> = {}
  BY EmptySeq
<1>2. DOMAIN fs = Files /\ \A f \in Files : DOMAIN fs[f] = {"stamp", "from", "record"} /\ fs[f].stamp \in 0..clock
  BY DEF Init, Absent
<1>3. DOMAIN sidecar = Files /\ \A f \in Files : sidecar[f].output \in 0..clock
  BY DEF Init, NoRecord
<1>4. DOMAIN proc = Processes /\ \A p \in Processes : proc[p] = Idle
  BY DEF Init
<1>5. Idle.at = "idle" /\ Idle.todo = <<>>
  BY DEF Idle
<1>6. clock \in Nat /\ spent \in [changes : Nat, kills : Nat, fails : Nat, starts : Nat] /\ meddled \subseteq Files
  BY DEF Init
<1>7. DisksOK
  BY <1>1 DEF Init, DisksOK
<1> QED BY <1>1, <1>2, <1>3, <1>4, <1>5, <1>6, <1>7 DEF TypeOK, Active, DisksOK, CurlType, AtDownload, AtPart

LEMMA TypeNext ==
    ASSUME TypeOK, [Next]_vars
    PROVE  TypeOK'
<1> DEFINE CommandsTyped == /\ DOMAIN proc = Processes
                            /\ \A q \in Processes : CommandOK(proc[q])
<1>0. TypeOK => CommandsTyped
  BY DEF TypeOK, CommandOK, Active, Current
<1>5. FilesOK /\ spent \in SpentType
  BY OthersTyped
<1>1. ASSUME NEW p \in Processes, Step(p) PROVE TypeOK'
  <2>1. clock' \in Nat /\ clock' >= clock
    BY <1>1, FilesKept DEF TypeOK
  <2>2. DOMAIN fs' = Files /\ \A f \in Files : DOMAIN fs'[f] = {"stamp", "from", "record"} /\ fs'[f].stamp \in 0..clock'
    BY <1>1, <2>1, FilesKept DEF TypeOK
  <2>3. DOMAIN sidecar' = Files /\ \A f \in Files : sidecar'[f].output \in 0..clock'
    <3>1. CASE WriteSidecar(p)
      <4>1. /\ sidecar' = [sidecar EXCEPT ![Published(p)] = [build |-> proc[p].record, output |-> fs[Published(p)].stamp]]
            /\ clock' = clock
        BY <3>1 DEF WriteSidecar
      <4> QED BY <4>1 DEF TypeOK
    <3>2. CASE ~WriteSidecar(p)
      <4>1. sidecar' = sidecar
        BY <1>1, <3>2 DEF Step, Start, Check, Download, Verify, LinkOriginal, UnlinkPart, Fetched, ToolStarts, ToolEnds, ToolFails, Recheck, Link, Killed
      <4> QED BY <4>1, <2>1 DEF TypeOK
    <3> QED BY <3>1, <3>2
  <2>4. CommandsTyped'
    BY <1>0, <1>1, CommandsOK
  <2>5. spent' \in [changes : Nat, kills : Nat, fails : Nat, starts : Nat]
    <3>1. CASE \E command \in Commands[p] : Start(p, command)
      BY <1>5, <3>1 DEF SpentType, Start
    <3>2. CASE Killed(p) \/ ToolFails(p)
      BY <1>5, <3>2 DEF SpentType, Killed, ToolFails
    <3>3. CASE ~Killed(p) /\ ~ToolFails(p) /\ ~\E command \in Commands[p] : Start(p, command)
      <4>1. spent' = spent
        BY <1>1, <3>3 DEF Step, Check, Download, Verify, LinkOriginal, UnlinkPart, Fetched, ToolStarts, ToolEnds, Recheck, Link, WriteSidecar
      <4> QED BY <4>1 DEF TypeOK
    <3> QED BY <3>1, <3>2, <3>3
  <2>6. DisksOK' /\ meddled' \subseteq Files
    BY <1>1, DisksStep
  <2> QED BY <2>1, <2>2, <2>3, <2>4, <2>5, <2>6 DEF TypeOK, Active, CommandOK, Current, DisksOK, CurlType
<1>2. ASSUME NEW f \in Files, Replace(f) \/ MoveAside(f) PROVE TypeOK'
  <2>0. /\ DOMAIN fs' = Files /\ \A g \in Files : g # f => fs'[g] = fs[g]
        /\ spent' = [spent EXCEPT !.changes = @ + 1] /\ sidecar' = sidecar
        /\ \/ clock' = clock + 1 /\ DOMAIN fs'[f] = {"stamp", "from", "record"} /\ fs'[f].stamp = clock + 1
           \/ clock' = clock /\ fs'[f] = Absent
        /\ meddled' \subseteq meddled \cup {f}
    BY <1>2, FilesDisturbed
  <2>1. clock' \in Nat /\ clock' >= clock
    BY <2>0 DEF TypeOK
  <2>2. DOMAIN fs' = Files /\ \A g \in Files : DOMAIN fs'[g] = {"stamp", "from", "record"} /\ fs'[g].stamp \in 0..clock'
    <3>1. DOMAIN fs'[f] = {"stamp", "from", "record"} /\ fs'[f].stamp \in 0..clock'
      BY <2>0, <2>1 DEF TypeOK, Absent
    <3>2. ASSUME NEW g \in Files, g # f
          PROVE  DOMAIN fs'[g] = {"stamp", "from", "record"} /\ fs'[g].stamp \in 0..clock'
      <4>1. fs'[g] = fs[g]
        BY <2>0, <3>2
      <4>2. DOMAIN fs[g] = {"stamp", "from", "record"} /\ fs[g].stamp \in 0..clock
        BY DEF TypeOK
      <4> QED BY <4>1, <4>2, <2>1 DEF TypeOK
    <3> QED BY <2>0, <3>1, <3>2
  <2>3. DOMAIN sidecar' = Files /\ \A g \in Files : sidecar'[g].output \in 0..clock'
    BY <2>0, <2>1 DEF TypeOK
  <2>4. CommandsTyped'
    <3>1. DOMAIN proc' = Processes /\ \A p \in Processes : proc'[p] = [proc[p] EXCEPT !.calm = FALSE]
      BY <1>2, FilesDisturbed
    <3> QED BY <1>0, <3>1, CalmLost
  <2>5. spent' \in [changes : Nat, kills : Nat, fails : Nat, starts : Nat]
    BY <1>5, <2>0 DEF SpentType
  <2>6. DisksOK' /\ meddled' \subseteq Files
    BY <1>2, <2>0, DisksDisturbed DEF TypeOK
  <2> QED BY <2>1, <2>2, <2>3, <2>4, <2>5, <2>6 DEF TypeOK, Active, CommandOK, Current, DisksOK, CurlType
<1>3. ASSUME NEW k \in DOMAIN curls, Curl(k) PROVE TypeOK'
  <2> DEFINE x == Original(curls[k].raw)
  <2>1. /\ sidecar' = sidecar /\ meddled' = meddled /\ spent' = spent
        /\ \/ fs' = fs /\ proc' = proc /\ clock' = clock
           \/ clock' = clock + 1 /\ fs' = [fs EXCEPT ![x].stamp = clock + 1] /\ proc' = Disturbed
    BY <1>3, CurlFacts
  <2> HIDE DEF x
  <2>2. clock' \in Nat /\ clock' >= clock
    BY <1>5, <2>1 DEF FilesOK
  <2>3. DOMAIN fs' = Files /\ \A f \in Files : DOMAIN fs'[f] = {"stamp", "from", "record"} /\ fs'[f].stamp \in 0..clock'
    BY <1>5, <2>1, <2>2 DEF FilesOK
  <2>4. DOMAIN sidecar' = Files /\ \A f \in Files : sidecar'[f].output \in 0..clock'
    BY <1>5, <2>1, <2>2 DEF FilesOK
  <2>5. CommandsTyped'
    <3>1. CASE proc' = proc
      BY <1>0, <3>1
    <3>2. CASE proc' = Disturbed
      BY <1>0, <3>2, CalmLost DEF Disturbed
    <3> QED BY <2>1, <3>1, <3>2
  <2>6. spent' \in [changes : Nat, kills : Nat, fails : Nat, starts : Nat] /\ meddled' \subseteq Files
    BY <2>1 DEF TypeOK
  <2>7. DisksOK'
    BY <1>3, DisksCurl
  <2> QED BY <2>2, <2>3, <2>4, <2>5, <2>6, <2>7 DEF TypeOK, Active, CommandOK, Current, DisksOK, CurlType
<1>4. CASE UNCHANGED vars
  BY <1>4 DEF vars, diskVars, TypeOK, Active, Current
<1> QED BY <1>1, <1>2, <1>3, <1>4 DEF Next

(* Files, records, downloads, commands and counters have their types       *)
(* throughout.                                                             *)
THEOREM TypeCorrect == SpecPipeline => []TypeOK
BY TypeInit, TypeNext, PTL DEF SpecPipeline

-----------------------------------------------------------------------------
(* Records. *)

(* Stamps only grow, and a file that is there keeps what it was made from, *)
(* or is marked, or has its sidecar; except that a file may be moved aside *)
(* while no command runs.                                                  *)
StampsGrow ==
    \A f \in Files :
        /\ fs'[f].stamp \in Nat /\ fs[f].stamp <= fs'[f].stamp
        /\ Exists(f) => /\ fs'[f] # Absent
                        /\ \/ f \in meddled'
                           \/ f \notin meddled /\ fs'[f].from = fs[f].from
                           \/ \A q \in Processes : proc[q].at = "sidecar" => Published(q) # f

LEMMA StampsGrowInStep ==
    ASSUME TypeOK, NEW p \in Processes, Step(p)
    PROVE  StampsGrow
<1> SUFFICES ASSUME NEW f \in Files
             PROVE  /\ fs'[f].stamp \in Nat /\ fs[f].stamp <= fs'[f].stamp
                    /\ Exists(f) => fs'[f] # Absent /\ (f \in meddled' \/ (f \notin meddled /\ fs'[f].from = fs[f].from))
  BY DEF StampsGrow
<1>1. fs[f].stamp \in Nat /\ fs[f].stamp <= clock /\ clock \in Nat
  BY DEF TypeOK
<1>2. CASE fs'[f] = fs[f]
  BY <1>1, <1>2, FilesKept DEF Exists
<1>3. CASE fs'[f] # fs[f]
  <2>1. ~Exists(f) /\ fs'[f].stamp = clock + 1
    BY <1>3, FilesKept
  <2> QED BY <1>1, <2>1
<1> QED BY <1>2, <1>3

LEMMA StampsGrowCurl ==
    ASSUME TypeOK, NEW k \in DOMAIN curls, Curl(k)
    PROVE  StampsGrow
<1> SUFFICES ASSUME NEW f \in Files
             PROVE  /\ fs'[f].stamp \in Nat /\ fs[f].stamp <= fs'[f].stamp
                    /\ Exists(f) => fs'[f] # Absent /\ (f \in meddled' \/ (f \notin meddled /\ fs'[f].from = fs[f].from))
  BY DEF StampsGrow
<1>1. fs[f].stamp \in Nat /\ fs[f].stamp <= clock /\ clock \in Nat /\ DOMAIN fs[f] = {"stamp", "from", "record"}
  BY DEF TypeOK
<1> DEFINE x == Original(curls[k].raw)
<1>2. meddled' = meddled /\ (fs' = fs \/ fs' = [fs EXCEPT ![x].stamp = clock + 1])
  BY CurlFacts
<1> HIDE DEF x
<1>3. CASE fs'[f] = fs[f]
  BY <1>1, <1>2, <1>3 DEF Exists
<1>4. CASE fs'[f] # fs[f]
  <2>1. fs'[f].stamp = clock + 1 /\ fs'[f].from = fs[f].from
    BY <1>1, <1>2, <1>4, OthersTyped DEF FilesOK
  <2>2. fs'[f] # Absent
    <3>1. clock + 1 # 0 /\ Absent.stamp = 0
      BY <1>1 DEF Absent
    <3> QED BY <2>1, <3>1, Zenon
  <2> QED BY <1>1, <1>2, <2>1, <2>2
<1> QED BY <1>3, <1>4

LEMMA StampsGrowOrQuiet ==
    ASSUME TypeOK, NEW f \in Files, Replace(f) \/ MoveAside(f)
    PROVE  StampsGrow \/ \A p \in Processes : ~Active(p)
<1>0. CASE \A p \in Processes : ~Active(p)
  BY <1>0
<1> SUFFICES ASSUME ~\A p \in Processes : ~Active(p), NEW g \in Files
             PROVE  /\ fs'[g].stamp \in Nat /\ fs[g].stamp <= fs'[g].stamp
                    /\ Exists(g) => /\ fs'[g] # Absent
                                    /\ \/ g \in meddled'
                                       \/ g \notin meddled /\ fs'[g].from = fs[g].from
                                       \/ \A q \in Processes : proc[q].at = "sidecar" => Published(q) # g
  BY <1>0 DEF StampsGrow
<1>1. /\ \A h \in Files : h # f => fs'[h] = fs[h]
      /\ fs'[f].stamp = clock + 1 /\ meddled' \in {meddled, meddled \cup {f}}
      /\ (\E q \in Processes : proc[q].at = "sidecar" /\ Published(q) = f) => f \in meddled'
  BY FilesDisturbed
<1>2. fs[g].stamp \in Nat /\ fs[g].stamp <= clock /\ clock \in Nat
  BY DEF TypeOK
<1>3. CASE g # f
  BY <1>1, <1>2, <1>3 DEF Exists
<1>4. CASE g = f
  <2>1. fs'[g] # Absent
    <3>1. clock + 1 # 0 /\ Absent.stamp = 0
      BY <1>2 DEF Absent
    <3> QED BY <1>1, <1>4, <3>1, Zenon
  <2> QED BY <1>1, <1>2, <1>4, <2>1
<1> QED BY <1>3, <1>4

(* A command that does nothing keeps what is known of its step. *)
LEMMA RecordHoldsStill ==
    ASSUME TypeOK, NEW q \in Processes, RecordHolds(q), StampsGrow,
           proc'[q].at = proc[q].at, proc'[q].todo = proc[q].todo, proc'[q].record = proc[q].record,
           proc'[q].seen = proc[q].seen, proc'[q].missing = proc[q].missing
    PROVE  RecordHolds(q)'
<1>0. CASE proc[q].at \notin Busy
  BY <1>0 DEF RecordHolds, Busy
<1> SUFFICES ASSUME proc[q].at \in Busy PROVE RecordHolds(q)'
  BY <1>0
<1> DEFINE s == Current(q)
<1>1. Current(q)' = s /\ Published(q)' = Published(q)
  BY DEF Current, Published, First
<1>2. s \in Steps
  BY HeadTailProperties DEF TypeOK, Current, Active, Busy
<1>3. \A i \in InputsOf(s) : Place(q, i) \in Files
  BY <1>2, StepFacts, PlaceInFiles
<1> HIDE DEF s
<1>4. \A i \in InputsOf(s) : /\ fs[Place(q, i)].stamp \in Nat /\ fs'[Place(q, i)].stamp \in Nat
                             /\ fs[Place(q, i)].stamp <= fs'[Place(q, i)].stamp
  BY <1>3 DEF StampsGrow, TypeOK
<1>5. /\ DOMAIN proc[q].record = InputsOf(s)
      /\ \A i \in InputsOf(s) : proc[q].record[i] \in Nat /\ proc[q].record[i] <= fs'[Place(q, i)].stamp
  BY <1>4 DEF RecordHolds, s
<1>6. proc[q].at \in {"tool", "made"} =>
        /\ DOMAIN proc[q].seen = InputsOf(s)
        /\ \A i \in InputsOf(s) : proc[q].seen[i] # {} /\ proc[q].seen[i] \subseteq proc[q].record[i]..fs'[Place(q, i)].stamp
  BY <1>4, <1>5 DEF RecordHolds, s
<1>7. proc[q].at \in {"publish", "sidecar"} => \A i \in InputsOf(s) : proc[q].seen[i] = {proc[q].record[i]}
  BY DEF RecordHolds, s
<1>8. proc[q].at = "sidecar" /\ Published(q) \in Files =>
        fs'[Published(q)] # Absent /\ (Published(q) \notin meddled' => fs'[Published(q)].from = proc[q].seen)
  BY DEF RecordHolds, StampsGrow
<1> QED BY <1>1, <1>5, <1>6, <1>7, <1>8 DEF RecordHolds, Exists

(* The step a command is at, and its files. *)
LEMMA CurrentStep ==
    ASSUME TypeOK, NEW p \in Processes, Active(p)
    PROVE  /\ Current(p) \in Steps
           /\ \A i \in InputsOf(Current(p)) : Place(p, i) \in Files /\ fs[Place(p, i)].stamp \in Nat
<1>1. Current(p) \in Steps
  BY HeadTailProperties DEF TypeOK, Current
<1>2. \A i \in InputsOf(Current(p)) : Place(p, i) \in Files
  BY <1>1, StepFacts, PlaceInFiles
<1> QED BY <1>1, <1>2 DEF TypeOK

(* The record of a step is that of the inputs its tool has seen. *)
LEMMA RecordHoldsNow ==
    ASSUME TypeOK, NEW p \in Processes, Step(p), RecordHolds(p)
    PROVE  RecordHolds(p)'
<1>0. CASE proc'[p].at \notin Busy
  BY <1>0 DEF RecordHolds, Busy
<1>1. ASSUME NEW o, End(p, o) PROVE RecordHolds(p)'
  BY <1>1, <1>0, EndFacts DEF Busy
<1>2. ASSUME Active(p), NextStep(p) PROVE RecordHolds(p)'
  BY <1>2, <1>0, NextStepFacts DEF Busy
<1>3. ASSUME Active(p), NEW m, Make(p, m), fs' = fs PROVE RecordHolds(p)'
  <2>1. CASE End(p, "error")
    BY <2>1, <1>1
  <2>2. CASE ~End(p, "error")
    <3> DEFINE s == Current(p)
    <3>1. proc'[p].at = "make" /\ proc'[p].todo = proc[p].todo /\ proc'[p].record = RecordOf(p, s)
      BY <1>3, <2>2, MakeFacts
    <3>2. Current(p)' = s
      BY <3>1 DEF Current
    <3>3. \A i \in InputsOf(s) : fs[Place(p, i)].stamp \in Nat
      BY <1>3, CurrentStep
    <3> HIDE DEF s
    <3>4. /\ DOMAIN proc'[p].record = InputsOf(s)
          /\ \A i \in InputsOf(s) : proc'[p].record[i] = fs'[Place(p, i)].stamp
      BY <1>3, <3>1 DEF RecordOf
    <3> QED BY <1>3, <3>1, <3>2, <3>3, <3>4 DEF RecordHolds
  <2> QED BY <2>1, <2>2
<1>4. ASSUME Active(p), AfterPublishing(p), proc[p].at \in {"publish", "sidecar"}, StampsGrow PROVE RecordHolds(p)'
  <2>1. CASE NextStep(p)
    BY <2>1, <1>2, <1>4
  <2>2. CASE ~NextStep(p)
    <3> DEFINE s == Current(p)
    <3>1. /\ proc'[p].at = "publish" /\ proc'[p].todo = proc[p].todo /\ proc'[p].record = proc[p].record
          /\ proc'[p].seen = proc[p].seen
      BY <1>4, <2>2, AfterPublishingFacts
    <3>2. Current(p)' = s
      BY <3>1 DEF Current
    <3>3. \A i \in InputsOf(s) : fs[Place(p, i)].stamp \in Nat /\ Place(p, i) \in Files
      BY <1>4, CurrentStep
    <3>4. /\ DOMAIN proc[p].record = InputsOf(s)
          /\ \A i \in InputsOf(s) : /\ proc[p].record[i] \in Nat /\ proc[p].record[i] <= fs[Place(p, i)].stamp
                                    /\ proc[p].seen[i] = {proc[p].record[i]}
      BY <1>4 DEF RecordHolds, Busy
    <3> HIDE DEF s
    <3>5. \A i \in InputsOf(s) : proc[p].record[i] <= fs'[Place(p, i)].stamp
      BY <1>4, <3>3, <3>4 DEF StampsGrow
    <3> QED BY <3>1, <3>2, <3>4, <3>5 DEF RecordHolds
  <2> QED BY <2>1, <2>2
<1>5. StampsGrow
  BY StampsGrowInStep
<1>6. ASSUME NEW command \in Commands[p], Start(p, command) PROVE RecordHolds(p)'
  <2>1. proc'[p].at = "check"
    BY <1>6 DEF Start, TypeOK, Idle
  <2> QED BY <2>1, <1>0 DEF Busy
<1>7. CASE Check(p)
  <2>1. Active(p) /\ fs' = fs
    BY <1>7 DEF Check, Active
  <2>2. \/ \E o : End(p, o)
        \/ NextStep(p) \/ Goto(p, "download")
        \/ \E m : Make(p, m)
    BY <1>7 DEF Check
  <2>3. CASE Goto(p, "download")
    BY <2>3, <1>0, GotoFacts DEF Busy
  <2> QED BY <2>1, <2>2, <2>3, <1>1, <1>2, <1>3
<1>8. CASE Downloads(p)
  <2>1. CASE End(p, "error")
    BY <2>1, <1>1
  <2>2. CASE ~End(p, "error")
    <3>1. proc'[p].at \in {"curl", "checked", "linked", "fetched"}
      BY <1>8, <2>2, DownloadMoves
    <3> QED BY <3>1, <1>0 DEF Busy
  <2> QED BY <2>1, <2>2
<1>10. CASE Fetched(p)
  <2>1. Active(p) /\ fs' = fs /\ ((\E o : End(p, o)) \/ \E m : Make(p, m))
    BY <1>10 DEF Fetched, Active
  <2> QED BY <2>1, <1>1, <1>3
<1>11. CASE ToolStarts(p)
  <2> DEFINE s == Current(p)
  <2>1. Active(p) /\ fs' = fs /\ proc[p].at = "make"
    BY <1>11 DEF ToolStarts, Active
  <2>2. /\ proc'[p].at = "tool" /\ proc'[p].todo = proc[p].todo /\ proc'[p].record = proc[p].record
        /\ proc'[p].seen = Seen(p)
    BY <1>11 DEF ToolStarts, TypeOK, Idle
  <2>3. Current(p)' = s
    BY <2>2 DEF Current
  <2>4. \A i \in InputsOf(s) : fs[Place(p, i)].stamp \in Nat
    BY <2>1, CurrentStep
  <2>5. /\ DOMAIN proc[p].record = InputsOf(s)
        /\ \A i \in InputsOf(s) : proc[p].record[i] \in Nat /\ proc[p].record[i] <= fs[Place(p, i)].stamp
    BY <2>1 DEF RecordHolds, Busy
  <2>6. /\ DOMAIN proc'[p].seen = InputsOf(s)
        /\ \A i \in InputsOf(s) : proc'[p].seen[i] = {fs[Place(p, i)].stamp}
    BY <2>2 DEF Seen
  <2> HIDE DEF s
  <2>7. \A i \in InputsOf(s) : proc'[p].seen[i] # {} /\ proc'[p].seen[i] \subseteq proc[p].record[i]..fs[Place(p, i)].stamp
    BY <2>4, <2>5, <2>6
  <2> QED BY <2>1, <2>2, <2>3, <2>5, <2>6, <2>7 DEF RecordHolds
<1>12. CASE ToolEnds(p)
  <2> DEFINE s == Current(p)
  <2>1. Active(p) /\ fs' = fs /\ proc[p].at = "tool"
    BY <1>12 DEF ToolEnds, Active
  <2>2. /\ proc'[p].at = "made" /\ proc'[p].todo = proc[p].todo /\ proc'[p].record = proc[p].record
        /\ proc'[p].seen = [i \in InputsOf(Current(p)) |-> proc[p].seen[i] \cup Seen(p)[i]]
    BY <1>12 DEF ToolEnds, TypeOK, Idle
  <2>3. Current(p)' = s
    BY <2>2 DEF Current
  <2>4. \A i \in InputsOf(s) : fs[Place(p, i)].stamp \in Nat
    BY <2>1, CurrentStep
  <2>5. /\ DOMAIN proc[p].record = InputsOf(s)
        /\ \A i \in InputsOf(s) : /\ proc[p].record[i] \in Nat /\ proc[p].record[i] <= fs[Place(p, i)].stamp
                                  /\ proc[p].seen[i] # {} /\ proc[p].seen[i] \subseteq proc[p].record[i]..fs[Place(p, i)].stamp
    BY <2>1 DEF RecordHolds, Busy
  <2>6. /\ DOMAIN proc'[p].seen = InputsOf(s)
        /\ \A i \in InputsOf(s) : proc'[p].seen[i] = proc[p].seen[i] \cup {fs[Place(p, i)].stamp}
    BY <2>2 DEF Seen
  <2> HIDE DEF s
  <2>7. \A i \in InputsOf(s) : proc'[p].seen[i] # {} /\ proc'[p].seen[i] \subseteq proc[p].record[i]..fs[Place(p, i)].stamp
    BY <2>4, <2>5, <2>6
  <2> QED BY <2>1, <2>2, <2>3, <2>5, <2>6, <2>7 DEF RecordHolds
<1>13. CASE ToolFails(p) \/ Killed(p)
  BY <1>13, <1>1 DEF ToolFails, Killed
<1>14. CASE Recheck(p)
  <2> DEFINE s == Current(p)
  <2>1. Active(p) /\ fs' = fs /\ proc[p].at = "made"
    BY <1>14 DEF Recheck, Active
  <2>2. CASE Raises(p, Current(p)) \/ RecordOf(p, Current(p)) # proc[p].record
    BY <1>14, <2>2, <1>1 DEF Recheck
  <2>3. CASE ~Raises(p, Current(p)) /\ RecordOf(p, Current(p)) = proc[p].record
    <3>1. Goto(p, "publish")
      BY <1>14, <2>3 DEF Recheck
    <3>2. /\ proc'[p].at = "publish" /\ proc'[p].todo = proc[p].todo /\ proc'[p].record = proc[p].record
          /\ proc'[p].seen = proc[p].seen
      BY <3>1, GotoFacts
    <3>3. Current(p)' = s
      BY <3>2 DEF Current
    <3>4. /\ DOMAIN proc[p].record = InputsOf(s)
          /\ \A i \in InputsOf(s) : /\ proc[p].record[i] \in Nat /\ proc[p].record[i] <= fs[Place(p, i)].stamp
                                    /\ proc[p].seen[i] # {} /\ proc[p].seen[i] \subseteq proc[p].record[i]..fs[Place(p, i)].stamp
      BY <2>1 DEF RecordHolds, Busy
    <3>5. \A i \in InputsOf(s) : proc[p].record[i] = fs[Place(p, i)].stamp
      BY <2>3 DEF RecordOf
    <3> HIDE DEF s
    <3>6. \A i \in InputsOf(s) : proc[p].seen[i] = {proc[p].record[i]}
      BY <3>4, <3>5
    <3> QED BY <2>1, <3>2, <3>3, <3>4, <3>6 DEF RecordHolds
  <2> QED BY <2>2, <2>3
<1>15. CASE Link(p)
  <2>1. Active(p) /\ proc[p].at = "publish"
    BY <1>15 DEF Link, Active
  <2>2. CASE Exists(Published(p))
    BY <1>15, <2>2, <1>1 DEF Link
  <2>3. CASE ~Exists(Published(p)) /\ Published(p)[1] \notin WithSidecar
    BY <1>15, <2>1, <2>3, <1>4, <1>5 DEF Link
  <2>4. CASE ~Exists(Published(p)) /\ Published(p)[1] \in WithSidecar
    <3> DEFINE s == Current(p)
    <3>1. Goto(p, "sidecar") /\ fs' = [fs EXCEPT ![Published(p)] = [stamp |-> clock', from |-> proc[p].seen, record |-> <<>>]]
      BY <1>15, <2>4 DEF Link
    <3>2. /\ proc'[p].at = "sidecar" /\ proc'[p].todo = proc[p].todo /\ proc'[p].record = proc[p].record
          /\ proc'[p].seen = proc[p].seen /\ proc'[p].missing = proc[p].missing
      BY <3>1, GotoFacts
    <3>3. Current(p)' = s /\ Published(p)' = Published(p)
      BY <3>2 DEF Current, Published, First
    <3>4. \A i \in InputsOf(s) : fs[Place(p, i)].stamp \in Nat /\ Place(p, i) \in Files
      BY <2>1, CurrentStep
    <3>5. /\ DOMAIN proc[p].record = InputsOf(s)
          /\ \A i \in InputsOf(s) : /\ proc[p].record[i] \in Nat /\ proc[p].record[i] <= fs[Place(p, i)].stamp
                                    /\ proc[p].seen[i] = {proc[p].record[i]}
      BY <2>1 DEF RecordHolds, Busy
    <3> HIDE DEF s
    <3>6. \A i \in InputsOf(s) : proc[p].record[i] <= fs'[Place(p, i)].stamp
      BY <1>5, <3>4, <3>5 DEF StampsGrow
    <3>7. Published(p) \in Files =>
            fs'[Published(p)] # Absent /\ (Published(p) \notin meddled' => fs'[Published(p)].from = proc[p].seen)
      <4>1. clock' = clock + 1 /\ clock \in Nat
        BY <1>15, <2>4 DEF Link, TypeOK
      <4> QED BY <3>1, <4>1 DEF TypeOK, Absent
    <3> QED BY <3>2, <3>3, <3>5, <3>6, <3>7 DEF RecordHolds, Exists
  <2> QED BY <2>2, <2>3, <2>4
<1>16. CASE WriteSidecar(p)
  <2>1. Active(p) /\ AfterPublishing(p) /\ proc[p].at = "sidecar"
    BY <1>16 DEF WriteSidecar, Active
  <2> QED BY <2>1, <1>4, <1>5
<1> QED
  BY <1>6, <1>7, <1>8, <1>10, <1>11, <1>12, <1>13, <1>14, <1>15, <1>16 DEF Step, Downloads

(* What RecordTrue says of one file. *)
TrueOf(f) == Exists(f) /\ Recorded(f) # <<>> /\ f \notin meddled => \A i \in DOMAIN Recorded(f) : fs[f].from[i] = {Recorded(f)[i]}

(* A file that is left alone keeps its record, and one with a new stamp    *)
(* has none in an older sidecar.                                           *)
LEMMA RecordLeft ==
    ASSUME NEW f \in Files, TrueOf(f), fs'[f] = fs[f], sidecar'[f] = sidecar[f], f \in meddled => f \in meddled'
    PROVE  TrueOf(f)'
BY DEF TrueOf, Recorded, Exists

LEMMA RecordNew ==
    ASSUME TypeOK, NEW f \in Files, fs'[f].stamp = clock + 1, sidecar'[f] = sidecar[f], f[1] \in WithSidecar \/ fs'[f].record = <<>>
    PROVE  TrueOf(f)'
<1>1. sidecar'[f].output # fs'[f].stamp
  BY DEF TypeOK
<1> QED BY <1>1 DEF TrueOf, Recorded

LEMMA RecordTrueStep ==
    ASSUME TypeOK, RecordTrue, NEW p \in Processes, Step(p), RecordHolds(p)
    PROVE  RecordTrue'
<1> SUFFICES ASSUME NEW f \in Files PROVE TrueOf(f)'
  BY DEF RecordTrue, TrueOf
<1>0. TrueOf(f) /\ (f \in meddled => f \in meddled')
  BY FilesKept DEF RecordTrue, TrueOf
<1>1. CASE LinkOriginal(p)
  <2> DEFINE x == Original(RawOf(p))
  <2>0. sidecar' = sidecar
    BY <1>1 DEF LinkOriginal
  <2>1. CASE f = x /\ ~(part[RawOf(p)] = 0 \/ Exists(x))
    <3>1. /\ clock' = clock + 1
          /\ fs' = [fs EXCEPT ![x] = [stamp |-> clock', from |-> part[RawOf(p)], record |-> <<>>]]
      BY <1>1, <2>1 DEF LinkOriginal
    <3>2. fs'[f].stamp = clock + 1 /\ fs'[f].record = <<>>
      BY <2>1, <3>1 DEF TypeOK
    <3> QED BY <2>0, <3>2, RecordNew
  <2>2. CASE f # x \/ part[RawOf(p)] = 0 \/ Exists(x)
    <3>1. fs'[f] = fs[f]
      BY <1>1, <2>2 DEF LinkOriginal, TypeOK
    <3> QED BY <1>0, <2>0, <3>1, RecordLeft
  <2> QED BY <2>1, <2>2
<1>2. CASE Link(p)
  <2> DEFINE x == Published(p)
  <2>0. sidecar' = sidecar
    BY <1>2 DEF Link
  <2>1. CASE f = x /\ ~Exists(x)
    <3>1. /\ clock' = clock + 1
          /\ fs' = [fs EXCEPT ![x] = [stamp |-> clock', from |-> proc[p].seen,
                                      record |-> IF x[1] \in WithSidecar THEN <<>> ELSE proc[p].record]]
      BY <1>2, <2>1 DEF Link
    <3>2. CASE f[1] \in WithSidecar
      <4>1. fs'[f].stamp = clock + 1
        BY <2>1, <3>1 DEF TypeOK
      <4> QED BY <2>0, <3>2, <4>1, RecordNew
    <3>3. CASE f[1] \notin WithSidecar
      <4>1. fs'[f].record = proc[p].record /\ fs'[f].from = proc[p].seen
        BY <2>1, <3>1, <3>3 DEF TypeOK
      <4>2. \A i \in DOMAIN proc[p].record : proc[p].seen[i] = {proc[p].record[i]}
        BY <1>2 DEF Link, RecordHolds, Busy
      <4> QED BY <3>3, <4>1, <4>2 DEF TrueOf, Recorded
    <3> QED BY <3>2, <3>3
  <2>2. CASE f # x \/ Exists(x)
    <3>1. fs'[f] = fs[f]
      BY <1>2, <2>2 DEF Link, TypeOK
    <3> QED BY <1>0, <2>0, <3>1, RecordLeft
  <2> QED BY <2>1, <2>2
<1>3. CASE WriteSidecar(p)
  <2> DEFINE x == Published(p)
  <2>1. /\ fs' = fs /\ meddled' = meddled
        /\ sidecar' = [sidecar EXCEPT ![x] = [build |-> proc[p].record, output |-> fs[x].stamp]]
    BY <1>3 DEF WriteSidecar
  <2>2. CASE f = x /\ f[1] \in WithSidecar
    <3>1. Recorded(f)' = proc[p].record
      BY <2>1, <2>2 DEF Recorded, TypeOK
    <3>2. f \notin meddled' => fs'[f].from = proc[p].seen
      BY <1>3, <2>1, <2>2 DEF WriteSidecar, RecordHolds
    <3>3. \A i \in DOMAIN proc[p].record : proc[p].seen[i] = {proc[p].record[i]}
      BY <1>3 DEF WriteSidecar, RecordHolds, Busy
    <3> QED BY <3>1, <3>2, <3>3 DEF TrueOf
  <2>3. CASE f[1] \notin WithSidecar
    BY <1>0, <2>1, <2>3 DEF TrueOf, Recorded, Exists
  <2>4. CASE f # x
    <3>1. sidecar'[f] = sidecar[f]
      BY <2>1, <2>4 DEF TypeOK
    <3> QED BY <1>0, <2>1, <3>1, RecordLeft
  <2> QED BY <2>2, <2>3, <2>4
<1>4. CASE ~LinkOriginal(p) /\ ~Link(p) /\ ~WriteSidecar(p)
  <2>1. fs' = fs /\ sidecar' = sidecar
    BY <1>4 DEF Step, Start, Check, Download, Verify, UnlinkPart, Fetched, ToolStarts, ToolEnds, ToolFails, Recheck, Killed
  <2> QED BY <1>0, <2>1, RecordLeft
<1> QED BY <1>1, <1>2, <1>3, <1>4

LEMMA RecordTrueCurl ==
    ASSUME TypeOK, RecordTrue, NEW k \in DOMAIN curls, Curl(k)
    PROVE  RecordTrue'
<1> SUFFICES ASSUME NEW f \in Files PROVE TrueOf(f)'
  BY DEF RecordTrue, TrueOf
<1>0. TrueOf(f)
  BY DEF RecordTrue, TrueOf
<1> DEFINE raw == curls[k].raw
           x == Original(raw)
<1>1. /\ sidecar' = sidecar /\ meddled' = meddled /\ raw \in Downloaded
      /\ fs' = fs \/ (Exists(x) /\ fs' = [fs EXCEPT ![x].stamp = clock + 1])
  BY CurlFacts
<1>2. x \in Files /\ x[1] \notin WithSidecar
  BY <1>1, OriginalFile DEF Downloaded, WithSidecar
<1> HIDE DEF x
<1>3. CASE fs'[f] = fs[f]
  BY <1>0, <1>1, <1>3, RecordLeft
<1>4. CASE f = x /\ Exists(x) /\ fs' = [fs EXCEPT ![x].stamp = clock + 1]
  <2>1. fs'[f].from = fs[f].from /\ fs'[f].record = fs[f].record
    BY <1>2, <1>4 DEF TypeOK
  <2> QED BY <1>0, <1>1, <1>2, <1>4, <2>1 DEF TrueOf, Recorded
<1> QED BY <1>1, <1>2, <1>3, <1>4 DEF TypeOK

LEMMA RecordTrueDisturbed ==
    ASSUME TypeOK, RecordTrue, NEW g \in Files, Replace(g) \/ MoveAside(g)
    PROVE  RecordTrue'
<1> SUFFICES ASSUME NEW f \in Files PROVE TrueOf(f)'
  BY DEF RecordTrue, TrueOf
<1>0. TrueOf(f)
  BY DEF RecordTrue, TrueOf
<1>1. /\ \A h \in Files : h # g => fs'[h] = fs[h]
      /\ sidecar' = sidecar
      /\ \/ fs'[g].stamp = clock + 1 /\ fs'[g].record = <<>>
         \/ fs'[g] = Absent
      /\ f \in meddled /\ f # g => f \in meddled'
  BY FilesDisturbed
<1>2. CASE f # g
  BY <1>0, <1>1, <1>2, RecordLeft
<1>3. CASE f = g /\ fs'[g] = Absent
  BY <1>3 DEF TrueOf, Exists
<1>4. CASE f = g /\ fs'[g].stamp = clock + 1 /\ fs'[g].record = <<>>
  BY <1>1, <1>4, RecordNew
<1> QED BY <1>1, <1>2, <1>3, <1>4

-----------------------------------------------------------------------------
(* Steps, their outputs and what is downloaded. *)

(* What the command does next with a step that is being made: it begins,   *)
(* with the record of its inputs and the outputs found missing; it goes    *)
(* on; or one of its outputs was published.                                *)
Begins(p) ==
    LET s == Current(p)
        missing == proc'[p].missing
    IN  /\ Active(p) /\ fs' = fs /\ ~Raises(p, s)
        /\ proc'[p].at = "make" /\ proc'[p].todo = proc[p].todo /\ proc'[p].record = RecordOf(p, s)
        /\ proc'[p].calm = proc[p].calm /\ proc'[p].command = proc[p].command
        /\ \/ missing = DOMAIN OutputsOf(s)
           \/ /\ missing \subseteq DOMAIN OutputsOf(s) /\ missing # {}
              /\ \A k \in DOMAIN OutputsOf(s) :
                   IF Exists(Place(p, OutputsOf(s)[k]))
                   THEN k \notin missing /\ ~Stale(p, s, OutputsOf(s)[k])
                   ELSE k \in missing

GoesOn(p) ==
    /\ proc[p].at \in Busy
    /\ proc'[p].todo = proc[p].todo /\ proc'[p].record = proc[p].record
    /\ proc'[p].missing = proc[p].missing
    /\ proc'[p].calm = proc[p].calm /\ proc'[p].command = proc[p].command

PublishesOne(p) == AfterPublishing(p) /\ ((Link(p) /\ ~Exists(Published(p))) \/ WriteSidecar(p))

LEMMA BusySteps ==
    ASSUME TypeOK, NEW p \in Processes, Step(p), proc'[p].at \in Busy
    PROVE  Begins(p) \/ GoesOn(p) \/ PublishesOne(p)
<1>1. ASSUME NEW o, End(p, o) PROVE FALSE
  BY <1>1, EndFacts DEF Busy
<1>2. ASSUME Active(p), NextStep(p) PROVE FALSE
  BY <1>2, NextStepFacts DEF Busy
<1>3. ASSUME Active(p), NEW m, Make(p, m)
      PROVE  /\ ~Raises(p, Current(p)) /\ proc'[p].at = "make" /\ proc'[p].todo = proc[p].todo
             /\ proc'[p].calm = proc[p].calm /\ proc'[p].command = proc[p].command
             /\ proc'[p].record = RecordOf(p, Current(p)) /\ proc'[p].missing = m
  BY <1>1, <1>3, MakeFacts
<1>4. CASE Check(p)
  <2> DEFINE s == Current(p)
             there == {o \in ToSet(OutputsOf(s)) : Exists(Place(p, o))}
             m == {k \in DOMAIN OutputsOf(s) : OutputsOf(s)[k] \notin there}
  <2>1. Active(p) /\ fs' = fs
    BY <1>4 DEF Check, Active
  <2>2. ~Goto(p, "download")
    BY GotoFacts DEF Busy
  <2>3. Make(p, m) /\ there # ToSet(OutputsOf(s)) /\ \A o \in there : ~Stale(p, s, o)
    BY <1>4, <1>1, <1>2, <2>1, <2>2 DEF Check
  <2>4. \A k \in DOMAIN OutputsOf(s) : OutputsOf(s)[k] \in ToSet(OutputsOf(s))
    BY DEF ToSet
  <2>5. m # {}
    BY <2>3 DEF ToSet
  <2>6. \A k \in DOMAIN OutputsOf(s) : IF Exists(Place(p, OutputsOf(s)[k])) THEN k \notin m /\ ~Stale(p, s, OutputsOf(s)[k]) ELSE k \in m
    BY <2>3, <2>4
  <2>7. m \subseteq DOMAIN OutputsOf(s)
    OBVIOUS
  <2> HIDE DEF m
  <2> QED BY <1>3, <2>1, <2>3, <2>5, <2>6, <2>7 DEF Begins
<1>5. CASE Fetched(p)
  <2>1. Active(p) /\ fs' = fs /\ Make(p, DOMAIN OutputsOf(Current(p)))
    BY <1>1, <1>5 DEF Fetched, Active
  <2> QED BY <1>3, <2>1 DEF Begins
<1>6. CASE ToolStarts(p) \/ ToolEnds(p)
  <2>1. proc[p].at \in Busy /\ \E a, v : proc' = [proc EXCEPT ![p].at = a, ![p].seen = v]
    BY <1>6 DEF ToolStarts, ToolEnds, Busy
  <2> QED BY <2>1 DEF TypeOK, Idle, GoesOn
<1>7. CASE Recheck(p)
  <2>1. proc[p].at \in Busy /\ Goto(p, "publish")
    BY <1>1, <1>7 DEF Recheck, Busy
  <2> QED BY <2>1, GotoFacts DEF GoesOn
<1>8. CASE Link(p)
  <2>1. proc[p].at = "publish" /\ ~Exists(Published(p)) /\ (Goto(p, "sidecar") \/ AfterPublishing(p))
    BY <1>1, <1>8 DEF Link
  <2>2. CASE Goto(p, "sidecar")
    BY <2>1, <2>2, GotoFacts DEF Busy, GoesOn
  <2> QED BY <1>8, <2>1, <2>2 DEF PublishesOne
<1>9. CASE WriteSidecar(p)
  BY <1>9 DEF WriteSidecar, PublishesOne
<1>10. ASSUME NEW command \in Commands[p], Start(p, command) PROVE FALSE
  BY <1>10 DEF Start, TypeOK, Idle, Busy
<1>11. ASSUME Downloads(p) PROVE FALSE
  BY <1>1, <1>11, DownloadMoves DEF Busy
<1>12. CASE ToolFails(p) \/ Killed(p)
  BY <1>1, <1>12 DEF ToolFails, Killed
<1> QED
  BY <1>4, <1>5, <1>6, <1>7, <1>8, <1>9, <1>10, <1>11, <1>12 DEF Step, Downloads

LEMMA MissingStep ==
    ASSUME TypeOK, NEW p \in Processes, Step(p), MissingOutputs(p)
    PROVE  MissingOutputs(p)'
<1> SUFFICES ASSUME proc'[p].at \in Busy
             PROVE  proc'[p].missing # {} /\ proc'[p].missing \subseteq DOMAIN OutputsOf(Current(p)')
  BY DEF MissingOutputs
<1>1. ASSUME proc'[p].todo = proc[p].todo, proc'[p].missing # {}, proc'[p].missing \subseteq DOMAIN OutputsOf(Current(p))
      PROVE  proc'[p].missing # {} /\ proc'[p].missing \subseteq DOMAIN OutputsOf(Current(p)')
  BY <1>1 DEF Current
<1>2. CASE Begins(p)
  <2>1. DOMAIN OutputsOf(Current(p)) # {}
    BY <1>2, CurrentStep, StepFacts DEF Begins
  <2> QED BY <1>1, <1>2, <2>1 DEF Begins
<1>3. CASE GoesOn(p)
  BY <1>1, <1>3 DEF MissingOutputs, GoesOn
<1>4. CASE PublishesOne(p)
  <2>1. Active(p) /\ ~NextStep(p) /\ proc[p].at \in Busy
    BY <1>4, NextStepFacts DEF Busy, Active, PublishesOne, Link, WriteSidecar
  <2>2. proc'[p].todo = proc[p].todo /\ proc'[p].missing = proc[p].missing \ {First(p)} /\ proc[p].missing # {First(p)}
    BY <1>4, <2>1, AfterPublishingFacts DEF PublishesOne
  <2>3. proc[p].missing # {} /\ proc[p].missing \subseteq DOMAIN OutputsOf(Current(p))
    BY <2>1 DEF MissingOutputs
  <2> QED BY <1>1, <2>1, <2>2, <2>3
<1> QED BY <1>2, <1>3, <1>4, BusySteps

(* What is published is an output of the step. *)
LEMMA PublishedOutput ==
    ASSUME TypeOK, NEW p \in Processes, MissingOutputs(p), proc[p].at \in Busy
    PROVE  /\ First(p) \in proc[p].missing /\ First(p) \in DOMAIN OutputsOf(Current(p))
           /\ OutputsOf(Current(p))[First(p)] \in Names \ Downloaded
           /\ Published(p) \in Files /\ Published(p)[1] \notin Downloaded
<1>1. Current(p) \in Steps
  BY CurrentStep DEF Active, Busy
<1>2. proc[p].missing # {} /\ proc[p].missing \subseteq DOMAIN OutputsOf(Current(p))
  BY DEF MissingOutputs
<1>3. DOMAIN OutputsOf(Current(p)) \subseteq Nat
  BY <1>1, StepFacts
<1>4. First(p) \in proc[p].missing
  BY <1>2, <1>3, MinOfNats DEF First
<1>5. OutputsOf(Current(p))[First(p)] \in Names \ Downloaded
  <2> DEFINE q == OutputsOf(Current(p))
  <2>1. q \in Seq(Names \ Downloaded) /\ First(p) \in DOMAIN q
    BY <1>1, <1>2, <1>4, StepFacts
  <2> HIDE DEF q
  <2>2. q[First(p)] \in Names \ Downloaded
    BY <2>1, ElementOfSeq, LenProperties
  <2> QED BY <2>2 DEF q
<1> QED BY <1>2, <1>4, <1>5, PlaceInFiles DEF Published

(* What one step of a command does to curls: it starts one of its own,     *)
(* gives its own up, or leaves all of them alone; what it goes on to link  *)
(* is whole.                                                               *)
LEMMA CurlsKept ==
    ASSUME TypeOK, NEW p \in Processes, Step(p), OwnCurl(p)
    PROVE  /\ DOMAIN curls \subseteq DOMAIN curls' /\ inodes' = inodes
           /\ \A k \in DOMAIN curls : curls'[k].raw = curls[k].raw /\ (curls'[k] = curls[k] \/ curls'[k].at = "done")
           /\ \A k \in DOMAIN curls' : k \notin DOMAIN curls =>
                /\ k = Len(curls) + 1 /\ proc[p].at = "download" /\ curls'[k].raw = RawOf(p) /\ ~Exists(Original(RawOf(p)))
                /\ \A l \in DOMAIN curls : curls[l].raw = RawOf(p) /\ Live(l) => Original(RawOf(p)) \in meddled'
           /\ proc'[p].at \in AtPart =>
                /\ proc'[p].todo = proc[p].todo
                /\ \/ /\ proc[p].at = "download" /\ proc'[p].at = "curl" /\ proc'[p].pid = Len(curls) + 1
                      /\ Len(curls) + 1 \in DOMAIN curls' /\ Len(curls) + 1 \notin DOMAIN curls /\ curls'[Len(curls) + 1].raw = RawOf(p)
                   \/ /\ proc[p].at \in AtPart /\ proc'[p].pid = proc[p].pid
                      /\ curls[proc[p].pid].at = "done" /\ curls' = curls
           /\ proc'[p].at = "checked" => /\ part[RawOf(p)] # 0 /\ inodes[RawOf(p)][part[RawOf(p)]] = Whole /\ part' = part
                                         /\ proc'[p].todo = proc[p].todo
<1>0. curls \in Seq(CurlType) /\ inodes' = inodes
  BY DEF TypeOK, CurlType, Step, Start, Check, Download, Verify, LinkOriginal, UnlinkPart, Fetched, ToolStarts, ToolEnds,
         ToolFails, Recheck, Link, WriteSidecar, Killed, diskVars
<1>1. CASE Download(p)
  <2> DEFINE raw == RawOf(p)
             c == [Gone(raw) EXCEPT !.at = "started"]
  <2>1. CASE Exists(Original(raw))
    <3>1. curls' = curls /\ (Goto(p, "fetched") \/ End(p, "error"))
      BY <1>1, <2>1 DEF Download
    <3>2. proc'[p].at \in {"fetched", "idle"}
      BY <3>1, EndFacts, GotoFacts
    <3> QED BY <1>0, <3>1, <3>2 DEF AtPart
  <2>2. CASE ~Exists(Original(raw))
    <3>1. /\ curls' = Append(curls, c) /\ proc[p].at = "download"
          /\ proc' = [proc EXCEPT ![p].at = "curl", ![p].pid = Len(curls')]
          /\ meddled' = meddled \cup {Original(r) : r \in {raw} \cap {curls[k].raw : k \in {l \in DOMAIN curls : Live(l)}}}
      BY <1>1, <2>2 DEF Download
    <3>2. raw \in Downloaded
      BY <1>1, RawFacts DEF Download, AtDownload
    <3>3. c \in CurlType /\ c.raw = raw
      BY <3>2 DEF Gone, CurlType, CurlStates
    <3>4. proc'[p].at = "curl" /\ proc'[p].pid = Len(curls') /\ proc'[p].todo = proc[p].todo
      BY <3>1 DEF TypeOK, Idle
    <3> HIDE DEF c
    <3>5. /\ DOMAIN curls' = DOMAIN curls \cup {Len(curls) + 1} /\ Len(curls') = Len(curls) + 1
          /\ Len(curls) + 1 \notin DOMAIN curls /\ curls'[Len(curls) + 1] = c
          /\ \A l \in DOMAIN curls : curls'[l] = curls[l]
      BY <1>0, <3>1, <3>3, NewCurl
    <3>6. \A l \in DOMAIN curls : curls[l].raw = raw /\ Live(l) => Original(raw) \in meddled'
      BY <3>1
    <3> QED BY <1>0, <2>2, <3>1, <3>3, <3>4, <3>5, <3>6
  <2> QED BY <2>1, <2>2
<1>2. ASSUME proc'[p].at \notin AtPart, curls' = curls
      PROVE  proc'[p].at # "checked"
  BY <1>2 DEF AtPart
<1>3. CASE ToolFails(p)
  <2>1. proc'[p].at = "idle"
    BY <1>3, EndFacts DEF ToolFails
  <2>2. CASE curls' = curls
    BY <1>0, <2>1, <2>2 DEF AtPart
  <2>3. CASE curls' # curls
    <3> DEFINE c == Gone(RawOf(p))
               k == proc[p].pid
    <3>1. proc[p].at = "curl" /\ curls' = [curls EXCEPT ![k] = c]
      BY <1>3, <2>3 DEF ToolFails
    <3>2. RawOf(p) \in Downloaded
      BY <3>1, RawFacts DEF AtDownload, AtPart
    <3>3. c \in CurlType /\ c.raw = RawOf(p) /\ c.at = "done"
      BY <3>2 DEF Gone, CurlType, CurlStates
    <3>4. k \in DOMAIN curls /\ curls[k].raw = RawOf(p)
      BY <3>1 DEF OwnCurl, AtPart
    <3> HIDE DEF c, k
    <3>5. DOMAIN curls' = DOMAIN curls /\ curls'[k] = c /\ \A l \in DOMAIN curls : l # k => curls'[l] = curls[l]
      BY <1>0, <3>1, <3>3, <3>4, SetCurl
    <3> QED BY <1>0, <2>1, <3>3, <3>4, <3>5 DEF AtPart
  <2> QED BY <2>2, <2>3
<1>4. CASE Verify(p)
  <2>1. curls' = curls /\ part' = part /\ proc[p].at = "curl" /\ curls[proc[p].pid].at = "done"
    BY <1>4 DEF Verify, diskVars
  <2>2. \/ End(p, "error")
        \/ Goto(p, "checked") /\ part[RawOf(p)] # 0 /\ inodes[RawOf(p)][part[RawOf(p)]] = Whole
    BY <1>4 DEF Verify
  <2>3. CASE End(p, "error")
    <3>1. proc'[p].at = "idle"
      BY <2>3, EndFacts
    <3> QED BY <1>0, <2>1, <3>1 DEF AtPart
  <2>4. CASE Goto(p, "checked") /\ part[RawOf(p)] # 0 /\ inodes[RawOf(p)][part[RawOf(p)]] = Whole
    <3>1. proc'[p].at = "checked" /\ proc'[p].pid = proc[p].pid /\ proc'[p].todo = proc[p].todo
      BY <2>4 DEF Goto, TypeOK, Idle
    <3> QED BY <1>0, <2>1, <2>4, <3>1 DEF AtPart
  <2> QED BY <2>2, <2>3, <2>4
<1>5. CASE LinkOriginal(p) \/ UnlinkPart(p)
  <2>1. curls' = curls /\ proc[p].at \in {"checked", "linked"}
    BY <1>5 DEF LinkOriginal, UnlinkPart, diskVars
  <2>2. curls[proc[p].pid].at = "done"
    BY <2>1 DEF OwnCurl, AtPart
  <2>3. End(p, "error") \/ Goto(p, "linked") \/ Goto(p, "fetched")
    BY <1>5 DEF LinkOriginal, UnlinkPart
  <2>4. \/ proc'[p].at \in {"idle", "fetched"}
        \/ proc'[p].at = "linked" /\ proc'[p].pid = proc[p].pid /\ proc'[p].todo = proc[p].todo
    <3>1. CASE Goto(p, "linked")
      BY <3>1 DEF Goto, TypeOK, Idle
    <3> QED BY <2>3, <3>1, EndFacts, GotoFacts
  <2> QED BY <1>0, <2>1, <2>2, <2>4 DEF AtPart
<1>6. CASE ~Downloads(p) /\ ~ToolFails(p)
  <2>1. curls' = curls
    BY <1>6 DEF Downloads, Step, Start, Check, Fetched, ToolStarts, ToolEnds, Recheck, Link, WriteSidecar, Killed, diskVars
  <2>2. proc'[p].at \notin AtPart
    <3>1. ASSUME NEW o, End(p, o) PROVE proc'[p].at = "idle"
      BY <3>1, EndFacts
    <3>2. ASSUME Active(p), NextStep(p) PROVE proc'[p].at \in {"idle", "check"}
      BY <3>2, NextStepFacts
    <3>3. ASSUME NEW m, Make(p, m) PROVE proc'[p].at \in {"idle", "make"}
      BY <3>1, <3>3, MakeFacts
    <3>4. ASSUME Active(p), AfterPublishing(p) PROVE proc'[p].at \in {"idle", "check", "publish"}
      BY <3>2, <3>4, AfterPublishingFacts
    <3>5. CASE Check(p)
      <4>1. Active(p) /\ (End(p, "error") \/ NextStep(p) \/ Goto(p, "download") \/ \E m : Make(p, m))
        BY <3>5 DEF Check, Active
      <4> QED BY <4>1, <3>1, <3>2, <3>3, GotoFacts DEF AtPart
    <3>6. CASE Fetched(p) \/ Killed(p)
      BY <3>6, <3>1, <3>3 DEF Fetched, Killed, AtPart
    <3>7. CASE ToolStarts(p) \/ ToolEnds(p)
      BY <3>7 DEF ToolStarts, ToolEnds, TypeOK, Idle, AtPart
    <3>8. CASE Recheck(p)
      BY <3>8, <3>1, GotoFacts DEF Recheck, AtPart
    <3>9. CASE Link(p)
      <4>1. Active(p) /\ (End(p, "error") \/ Goto(p, "sidecar") \/ AfterPublishing(p))
        BY <3>9 DEF Link, Active
      <4> QED BY <4>1, <3>1, <3>4, GotoFacts DEF AtPart
    <3>10. CASE WriteSidecar(p)
      BY <3>10, <3>4 DEF WriteSidecar, Active, AtPart
    <3>11. ASSUME NEW command \in Commands[p], Start(p, command) PROVE proc'[p].at = "check"
      BY <3>11 DEF Start, TypeOK, Idle
    <3> QED BY <1>6, <3>5, <3>6, <3>7, <3>8, <3>9, <3>10, <3>11 DEF Step, Downloads, AtPart
  <2> QED BY <1>0, <1>2, <2>1, <2>2
<1> QED BY <1>1, <1>3, <1>4, <1>5, <1>6 DEF Downloads

LEMMA OwnCurlStep ==
    ASSUME TypeOK, NEW p \in Processes, Step(p), \A q \in Processes : OwnCurl(q)
    PROVE  \A q \in Processes : OwnCurl(q)'
<1>1. \A q \in Processes : q # p => proc'[q] = proc[q]
  BY CommandsOK
<1>2. /\ DOMAIN curls \subseteq DOMAIN curls'
      /\ \A k \in DOMAIN curls : curls'[k].raw = curls[k].raw /\ (curls'[k] = curls[k] \/ curls'[k].at = "done")
  BY CurlsKept
<1>3. proc'[p].at \in AtPart =>
        /\ proc'[p].todo = proc[p].todo
        /\ \/ /\ proc'[p].at = "curl" /\ proc'[p].pid = Len(curls) + 1
              /\ Len(curls) + 1 \in DOMAIN curls' /\ Len(curls) + 1 \notin DOMAIN curls /\ curls'[Len(curls) + 1].raw = RawOf(p)
           \/ /\ proc[p].at \in AtPart /\ proc'[p].pid = proc[p].pid
              /\ curls[proc[p].pid].at = "done" /\ curls' = curls
  BY CurlsKept
<1>4. ASSUME NEW q \in Processes, proc'[q].at \in AtPart
      PROVE  /\ proc'[q].pid \in DOMAIN curls' /\ curls'[proc'[q].pid].raw = RawOf(q)'
             /\ proc'[q].at # "curl" => curls'[proc'[q].pid].at = "done"
  <2>1. CASE q # p
    <3>1. proc'[q] = proc[q] /\ RawOf(q)' = RawOf(q)
      BY <1>1, <2>1 DEF RawOf, Current
    <3>2. proc[q].pid \in DOMAIN curls /\ curls[proc[q].pid].raw = RawOf(q) /\ (proc[q].at # "curl" => curls[proc[q].pid].at = "done")
      BY <1>4, <3>1 DEF OwnCurl
    <3> QED BY <1>2, <3>1, <3>2
  <2>2. CASE q = p
    <3>1. RawOf(p)' = RawOf(p)
      BY <1>3, <1>4, <2>2 DEF RawOf, Current
    <3>2. proc[p].at \in AtPart => proc[p].pid \in DOMAIN curls /\ curls[proc[p].pid].raw = RawOf(p)
      BY DEF OwnCurl
    <3> QED BY <1>3, <1>4, <2>2, <3>1, <3>2
  <2> QED BY <2>1, <2>2
<1>5. ASSUME NEW q \in Processes, NEW u \in Processes, proc'[q].at \in AtPart, proc'[u].at \in AtPart, proc'[q].pid = proc'[u].pid
      PROVE  q = u
  <2>1. \A v, w \in Processes : {proc[v].at, proc[w].at} \subseteq AtPart /\ proc[v].pid = proc[w].pid => v = w
    BY DEF OwnCurl
  <2>2. \A v \in Processes : proc[v].at \in AtPart => proc[v].pid \in DOMAIN curls
    BY DEF OwnCurl
  <2> QED BY <1>1, <1>3, <1>5, <2>1, <2>2
<1> QED BY <1>4, <1>5 DEF OwnCurl

(* A download that no other has met stays whole: what a command links is   *)
(* what it has checked.                                                    *)
LEMMA DownloadWholeStep ==
    ASSUME TypeOK, NEW p \in Processes, Step(p), \A q \in Processes : OwnCurl(q), MissingOutputs(p),
           NEW raw \in Downloaded, DownloadWhole(raw), Original(raw) \notin meddled'
    PROVE  DownloadWhole(raw)'
<1>0. \A q \in Processes : q # p => proc'[q] = proc[q]
  BY CommandsOK
<1>1. /\ DOMAIN curls \subseteq DOMAIN curls' /\ inodes' = inodes
      /\ \A k \in DOMAIN curls : curls'[k].raw = curls[k].raw /\ (curls'[k] = curls[k] \/ curls'[k].at = "done")
  BY CurlsKept
<1>2. \A k \in DOMAIN curls' : k \notin DOMAIN curls =>
        /\ k = Len(curls) + 1 /\ curls'[k].raw = RawOf(p) /\ ~Exists(Original(RawOf(p)))
        /\ \A l \in DOMAIN curls : curls[l].raw = RawOf(p) /\ Live(l) => Original(RawOf(p)) \in meddled'
  BY CurlsKept
<1>3. proc'[p].at \in AtPart => \/ proc'[p].pid \notin DOMAIN curls
                                \/ proc[p].at \in AtPart /\ proc'[p].pid = proc[p].pid
  BY CurlsKept
<1>4. ASSUME NEW k \in DOMAIN curls, Live(k)' PROVE Live(k)
  <2>1. CASE curls'[k].at # "done"
    BY <1>1, <2>1 DEF Live
  <2>2. ASSUME NEW q \in Processes, proc'[q].at \in AtPart, proc'[q].pid = k PROVE Live(k)
    BY <1>0, <1>3, <2>2 DEF Live
  <2> QED BY <1>4, <2>1, <2>2 DEF Live
<1>5. \A k, l \in DOMAIN curls : curls[k].raw = raw /\ curls[l].raw = raw /\ Live(k) /\ Live(l) => k = l
  BY DEF DownloadWhole
<1>6. \A k, l \in DOMAIN curls' : curls'[k].raw = raw /\ curls'[l].raw = raw /\ Live(k)' /\ Live(l)' => k = l
  <2> SUFFICES ASSUME NEW k \in DOMAIN curls', NEW l \in DOMAIN curls', curls'[k].raw = raw, curls'[l].raw = raw, Live(k)', Live(l)'
               PROVE  k = l
    OBVIOUS
  <2>1. CASE k \in DOMAIN curls /\ l \in DOMAIN curls
    BY <1>1, <1>4, <1>5, <2>1
  <2>2. CASE k \notin DOMAIN curls /\ l \in DOMAIN curls
    BY <1>1, <1>2, <1>4, <2>2
  <2>3. CASE k \in DOMAIN curls /\ l \notin DOMAIN curls
    BY <1>1, <1>2, <1>4, <2>3
  <2>4. CASE k \notin DOMAIN curls /\ l \notin DOMAIN curls
    BY <1>2, <2>4
  <2> QED BY <2>1, <2>2, <2>3, <2>4
<1>7. Exists(Original(raw))' => DataOf(raw)' = Whole /\ \A k \in DOMAIN curls' : curls'[k].raw = raw => curls'[k].at = "done"
  <2> SUFFICES ASSUME fs'[Original(raw)] # Absent
               PROVE  DataOf(raw)' = Whole /\ \A k \in DOMAIN curls' : curls'[k].raw = raw => curls'[k].at = "done"
    BY DEF Exists
  <2>0. Original(raw) \in Files /\ Original(raw)[1] = raw
    BY OriginalFile
  <2>1. CASE Exists(Original(raw))
    <3>1. fs'[Original(raw)] = fs[Original(raw)]
      BY <2>0, <2>1, FilesKept
    <3>2. DataOf(raw) = Whole /\ \A k \in DOMAIN curls : curls[k].raw = raw => curls[k].at = "done"
      BY <2>1 DEF DownloadWhole
    <3>3. DataOf(raw)' = Whole
      BY <1>1, <3>1, <3>2 DEF DataOf
    <3> QED BY <1>1, <1>2, <2>1, <3>2, <3>3
  <2>2. CASE ~Exists(Original(raw)) /\ LinkOriginal(p)
    <3>1. /\ fs' = fs \/ fs' = [fs EXCEPT ![Original(RawOf(p))] = [stamp |-> clock', from |-> part[RawOf(p)], record |-> <<>>]]
          /\ proc[p].at = "checked" /\ curls' = curls
      BY <2>2 DEF LinkOriginal, diskVars
    <3>2. RawOf(p) = raw /\ fs'[Original(raw)].from = part[raw]
      <4>1. fs' # fs
        BY <2>2 DEF Exists
      <4>2. Original(RawOf(p)) = Original(raw)
        BY <2>0, <2>2, <3>1, <4>1 DEF TypeOK, Exists
      <4>3. RawOf(p) = raw
        BY <4>2 DEF Original
      <4> QED BY <2>0, <3>1, <4>1, <4>3 DEF TypeOK
    <3>3. inodes[raw][part[raw]] = Whole
      BY <3>1, <3>2 DEF DownloadWhole
    <3>4. DataOf(raw)' = Whole
      BY <1>1, <3>2, <3>3 DEF DataOf
    <3>5. proc[p].pid \in DOMAIN curls /\ curls[proc[p].pid].raw = raw /\ curls[proc[p].pid].at = "done" /\ Live(proc[p].pid)
      BY <3>1, <3>2 DEF OwnCurl, AtPart, Live
    <3>6. ASSUME NEW k \in DOMAIN curls, curls[k].raw = raw PROVE curls[k].at = "done"
      <4>1. CASE Live(k)
        BY <1>5, <3>5, <3>6, <4>1
      <4> QED BY <4>1 DEF Live
    <3> QED BY <3>1, <3>4, <3>6
  <2>3. CASE ~Exists(Original(raw)) /\ Link(p)
    <3>1. proc[p].at \in Busy
      BY <2>3 DEF Link, Busy
    <3>2. Published(p)[1] \notin Downloaded
      BY <3>1, PublishedOutput
    <3>3. fs' = fs \/ \E v : fs' = [fs EXCEPT ![Published(p)] = v]
      BY <2>3 DEF Link
    <3> QED BY <2>0, <2>3, <3>2, <3>3 DEF TypeOK, Exists
  <2>4. CASE ~LinkOriginal(p) /\ ~Link(p)
    <3>1. fs' = fs
      BY <2>4 DEF Step, Start, Check, Download, Verify, UnlinkPart, Fetched, ToolStarts, ToolEnds, ToolFails, Recheck, WriteSidecar, Killed
    <3> QED BY <2>1, <3>1 DEF Exists
  <2> QED BY <2>1, <2>2, <2>3, <2>4
<1>8. ASSUME NEW q \in Processes, proc'[q].at = "checked", RawOf(q)' = raw
      PROVE  part'[raw] # 0 /\ inodes'[raw][part'[raw]] = Whole
  <2>1. CASE q = p
    <3>1. /\ part[RawOf(p)] # 0 /\ inodes[RawOf(p)][part[RawOf(p)]] = Whole /\ part' = part
          /\ proc'[p].todo = proc[p].todo
      BY <1>8, <2>1, CurlsKept
    <3>2. RawOf(p) = raw
      BY <1>8, <2>1, <3>1 DEF RawOf, Current
    <3> QED BY <1>1, <3>1, <3>2
  <2>2. CASE q # p
    <3>1. proc[q].at = "checked" /\ RawOf(q) = raw
      BY <1>0, <1>8, <2>2 DEF RawOf, Current
    <3>2. part[raw] # 0 /\ inodes[raw][part[raw]] = Whole
      BY <3>1 DEF DownloadWhole
    <3>3. CASE part'[raw] = part[raw]
      BY <1>1, <3>2, <3>3
    <3>4. CASE part'[raw] # part[raw]
      <4>1. UnlinkPart(p) /\ RawOf(p) = raw
        <5>1. part' = part \/ (UnlinkPart(p) /\ part' = [part EXCEPT ![RawOf(p)] = 0])
          BY DEF Step, Start, Check, Download, Verify, LinkOriginal, UnlinkPart, Fetched, ToolStarts, ToolEnds, ToolFails,
                 Recheck, Link, WriteSidecar, Killed, diskVars
        <5> QED BY <3>4, <5>1 DEF TypeOK
      <4>2. proc[p].at = "linked"
        BY <4>1 DEF UnlinkPart
      <4>3. proc[p].pid \in DOMAIN curls /\ curls[proc[p].pid].raw = raw /\ Live(proc[p].pid)
        BY <4>1, <4>2 DEF OwnCurl, AtPart, Live
      <4>4. proc[q].pid \in DOMAIN curls /\ curls[proc[q].pid].raw = raw /\ Live(proc[q].pid)
        BY <3>1 DEF OwnCurl, AtPart, Live
      <4>5. proc[p].pid = proc[q].pid
        BY <1>5, <4>3, <4>4
      <4> QED BY <2>2, <3>1, <4>2, <4>5 DEF OwnCurl, AtPart
    <3> QED BY <3>3, <3>4
  <2> QED BY <2>1, <2>2
<1> QED BY <1>6, <1>7, <1>8 DEF DownloadWhole

LEMMA DownloadsStep ==
    ASSUME TypeOK, NEW p \in Processes, Step(p), DownloadsInv, MissingOutputs(p)
    PROVE  DownloadsInv'
<1>1. \A q \in Processes : OwnCurl(q)'
  BY OwnCurlStep DEF DownloadsInv
<1>2. ASSUME NEW raw \in Downloaded, Original(raw) \notin meddled' PROVE DownloadWhole(raw)'
  <2>1. Original(raw) \notin meddled
    BY <1>2, FilesKept
  <2> QED BY <1>2, <2>1, DownloadWholeStep DEF DownloadsInv
<1>3. Original(1)' = Original(1) /\ \A raw : Original(raw)' = Original(raw)
  BY DEF Original
<1> QED BY <1>1, <1>2, <1>3 DEF DownloadsInv

(* Commands that stay where they are, when nothing but a curl moves or     *)
(* another file is replaced.                                               *)
SamePlaces ==
    \A q \in Processes : proc'[q].at = proc[q].at /\ proc'[q].pid = proc[q].pid /\ proc'[q].todo = proc[q].todo

LEMMA DownloadsCurl ==
    ASSUME TypeOK, NEW k \in DOMAIN curls, Curl(k), DownloadsInv, SamePlaces
    PROVE  DownloadsInv'
<1> DEFINE own == curls[k].raw
<1>1. /\ own \in Downloaded /\ curls[k].at # "done" /\ meddled' = meddled
      /\ DOMAIN curls' = DOMAIN curls
      /\ \A l \in DOMAIN curls : curls'[l].raw = curls[l].raw /\ (l # k => curls'[l] = curls[l])
      /\ \A raw \in Downloaded : raw # own => inodes'[raw] = inodes[raw] /\ part'[raw] = part[raw]
      /\ fs' = fs \/ (Exists(Original(own)) /\ fs' = [fs EXCEPT ![Original(own)].stamp = clock + 1])
  BY CurlFacts
<1>2. \A q \in Processes : RawOf(q)' = RawOf(q)
  BY DEF RawOf, Current, SamePlaces
<1>3. Live(k)
  BY <1>1 DEF Live
<1> HIDE DEF own
<1>4. ASSUME NEW q \in Processes PROVE OwnCurl(q)'
  <2>1. OwnCurl(q)
    BY DEF DownloadsInv
  <2>2. \A l \in DOMAIN curls : curls[l].at = "done" => curls'[l].at = "done"
    BY <1>1 DEF own
  <2> QED BY <1>1, <1>2, <2>1, <2>2 DEF OwnCurl, SamePlaces
<1>5. ASSUME NEW l \in DOMAIN curls, Live(l)' PROVE Live(l)
  <2>1. CASE l = k
    BY <1>3, <2>1
  <2>2. CASE l # k
    <3>1. curls'[l] = curls[l]
      BY <1>1, <2>2
    <3> QED BY <1>5, <3>1 DEF Live, SamePlaces
  <2> QED BY <2>1, <2>2
<1>6. ASSUME NEW raw \in Downloaded, Original(raw) \notin meddled PROVE DownloadWhole(raw)'
  <2>0. DownloadWhole(raw)
    BY <1>6 DEF DownloadsInv
  <2>1. \A i, l \in DOMAIN curls : curls[i].raw = raw /\ curls[l].raw = raw /\ Live(i) /\ Live(l) => i = l
    BY <2>0 DEF DownloadWhole
  <2>2. \A i, l \in DOMAIN curls' : curls'[i].raw = raw /\ curls'[l].raw = raw /\ Live(i)' /\ Live(l)' => i = l
    BY <1>1, <1>5, <2>1
  <2>3. CASE raw = own
    <3>1. ~Exists(Original(raw)) /\ fs' = fs
      BY <1>1, <2>0, <2>3 DEF DownloadWhole, own
    <3>2. ~Exists(Original(raw))'
      BY <3>1 DEF Exists, Original
    <3>3. \A q \in Processes : proc'[q].at = "checked" => RawOf(q)' # raw
      <4> SUFFICES ASSUME NEW q \in Processes, proc[q].at = "checked", RawOf(q) = raw PROVE FALSE
        BY <1>2 DEF SamePlaces
      <4>1. proc[q].pid \in DOMAIN curls /\ curls[proc[q].pid].raw = raw /\ curls[proc[q].pid].at = "done" /\ Live(proc[q].pid)
        BY DEF DownloadsInv, OwnCurl, AtPart, Live
      <4> QED BY <1>1, <1>3, <2>1, <2>3, <4>1 DEF own
    <3> QED BY <2>2, <3>2, <3>3 DEF DownloadWhole
  <2>4. CASE raw # own
    <3>1. inodes'[raw] = inodes[raw] /\ part'[raw] = part[raw]
      BY <1>1, <2>4
    <3>2. Original(raw) # Original(own) /\ Original(raw) \in Files
      BY <2>4, OriginalFile DEF Original
    <3>3. fs'[Original(raw)] = fs[Original(raw)]
      BY <1>1, <3>2 DEF TypeOK
    <3>4. \A l \in DOMAIN curls : curls[l].raw = raw => curls'[l] = curls[l]
      BY <1>1, <2>4 DEF own
    <3>5. Exists(Original(raw))' => DataOf(raw)' = Whole /\ \A l \in DOMAIN curls' : curls'[l].raw = raw => curls'[l].at = "done"
      BY <1>1, <2>0, <3>1, <3>3, <3>4 DEF DownloadWhole, Exists, DataOf, Original
    <3>6. \A q \in Processes : proc'[q].at = "checked" /\ RawOf(q)' = raw => part'[raw] # 0 /\ inodes'[raw][part'[raw]] = Whole
      BY <1>2, <2>0, <3>1 DEF DownloadWhole, SamePlaces
    <3> QED BY <2>2, <3>5, <3>6 DEF DownloadWhole
  <2> QED BY <2>3, <2>4
<1>7. \A raw : Original(raw)' = Original(raw)
  BY DEF Original
<1> QED BY <1>1, <1>4, <1>6, <1>7 DEF DownloadsInv

LEMMA DownloadsDisturbed ==
    ASSUME TypeOK, NEW f \in Files, Replace(f) \/ MoveAside(f), DownloadsInv, SamePlaces
    PROVE  DownloadsInv'
<1>1. /\ part' = part /\ curls' = curls
      /\ \A g \in Files : g # f => fs'[g] = fs[g]
      /\ \A raw \in Downloaded : raw # f[1] => inodes'[raw] = inodes[raw]
      /\ \A g \in Files : g # f /\ g \in meddled => g \in meddled'
      /\ f[1] \in Downloaded => f \in meddled'
  BY FilesDisturbed
<1>2. \A q \in Processes : RawOf(q)' = RawOf(q)
  BY DEF RawOf, Current, SamePlaces
<1>3. \A q \in Processes : OwnCurl(q)'
  BY <1>1, <1>2 DEF DownloadsInv, OwnCurl, SamePlaces
<1>4. \A l \in DOMAIN curls : Live(l)' <=> Live(l)
  BY <1>1 DEF Live, SamePlaces
<1>5. ASSUME NEW raw \in Downloaded, Original(raw) \notin meddled' PROVE DownloadWhole(raw)'
  <2>1. Original(raw) # f /\ raw # f[1]
    BY <1>1, <1>5, OriginalFile, OriginalOnly
  <2>2. fs'[Original(raw)] = fs[Original(raw)] /\ inodes'[raw] = inodes[raw] /\ Original(raw) \notin meddled
    BY <1>1, <1>5, <2>1, OriginalFile
  <2>3. DownloadWhole(raw)
    BY <2>2 DEF DownloadsInv
  <2>4. Exists(Original(raw))' <=> Exists(Original(raw))
    BY <2>2 DEF Exists, Original
  <2>5. DataOf(raw)' = DataOf(raw)
    BY <2>2 DEF DataOf, Original
  <2> QED BY <1>1, <1>2, <1>4, <2>2, <2>3, <2>4, <2>5 DEF DownloadWhole, SamePlaces
<1>6. \A raw : Original(raw)' = Original(raw)
  BY DEF Original
<1> QED BY <1>3, <1>5, <1>6 DEF DownloadsInv

-----------------------------------------------------------------------------
(* What a command has done. *)

(* How a step of a command moves it along: it is started, ends early, is   *)
(* done with a step, or stays with it.                                     *)
Moves(p) ==
    \/ /\ ~Active(p) /\ fs' = fs
       /\ proc'[p].at = "check" /\ proc'[p].todo \in Seq(Steps) /\ proc'[p].command = proc'[p].todo
       /\ proc'[p].outcome = "none"
    \/ /\ Active(p) /\ proc'[p].at = "idle" /\ proc'[p].outcome # "done" /\ proc'[p].todo = <<>>
       /\ proc'[p].command = proc[p].command
    \/ Active(p) /\ NextStep(p) /\ (Check(p) \/ PublishesOne(p))
    \/ /\ Active(p) /\ proc'[p].at # "idle" /\ proc'[p].todo = proc[p].todo
       /\ proc'[p].command = proc[p].command /\ proc'[p].calm = proc[p].calm /\ proc'[p].outcome = proc[p].outcome

LEMMA HowItMoves ==
    ASSUME TypeOK, NEW p \in Processes, Step(p)
    PROVE  Moves(p)
<1>1. ASSUME NEW o, Active(p), End(p, o), o # "done" PROVE Moves(p)
  BY <1>1, EndFacts DEF Moves
<1>2. ASSUME NEW a, a # "idle", Active(p), Goto(p, a) PROVE Moves(p)
  BY <1>2, GotoFacts DEF Moves
<1>3. ASSUME NEW m, Active(p), Make(p, m) PROVE Moves(p)
  <2>1. CASE End(p, "error")
    BY <2>1, <1>1, <1>3
  <2>2. CASE ~End(p, "error")
    BY <2>2, <1>3, MakeFacts DEF Moves
  <2> QED BY <2>1, <2>2
<1>4. ASSUME Active(p), PublishesOne(p) PROVE Moves(p)
  <2>1. CASE NextStep(p)
    BY <2>1, <1>4 DEF Moves
  <2>2. CASE ~NextStep(p)
    BY <2>2, <1>4, AfterPublishingFacts DEF Moves, PublishesOne
  <2> QED BY <2>1, <2>2
<1>5. ASSUME NEW command \in Commands[p], Start(p, command) PROVE Moves(p)
  <2>1. ~Active(p) /\ fs' = fs /\ proc' = [proc EXCEPT ![p] = [Idle EXCEPT !.at = "check", !.todo = command, !.calm = TRUE, !.command = command]]
    BY <1>5 DEF Start
  <2>2. proc'[p].at = "check" /\ proc'[p].todo = command /\ proc'[p].command = command /\ proc'[p].outcome = "none"
    BY <2>1 DEF TypeOK, Idle
  <2>3. command \in Seq(Steps)
    BY CommandsAssumption
  <2> QED BY <2>1, <2>2, <2>3 DEF Moves
<1>6. CASE Check(p)
  <2>1. Active(p)
    BY <1>6 DEF Check, Active
  <2>2. End(p, "error") \/ NextStep(p) \/ Goto(p, "download") \/ \E m : Make(p, m)
    BY <1>6 DEF Check
  <2>3. CASE NextStep(p)
    BY <1>6, <2>1, <2>3 DEF Moves
  <2> QED BY <2>1, <2>2, <2>3, <1>1, <1>2, <1>3
<1>7. CASE Downloads(p)
  <2>1. CASE End(p, "error")
    BY <1>1, <1>7, <2>1, DownloadMoves
  <2>2. CASE ~End(p, "error")
    BY <1>7, <2>2, DownloadMoves DEF Moves
  <2> QED BY <2>1, <2>2
<1>8. CASE Fetched(p)
  <2>1. Active(p) /\ (End(p, "error") \/ \E m : Make(p, m))
    BY <1>8 DEF Fetched, Active
  <2> QED BY <2>1, <1>1, <1>3
<1>9. CASE ToolStarts(p) \/ ToolEnds(p)
  <2>1. Active(p) /\ \E a \in Busy : \E v : proc' = [proc EXCEPT ![p].at = a, ![p].seen = v]
    BY <1>9 DEF ToolStarts, ToolEnds, Busy, Active
  <2>2. /\ proc'[p].at \in Busy /\ proc'[p].todo = proc[p].todo /\ proc'[p].command = proc[p].command
        /\ proc'[p].calm = proc[p].calm /\ proc'[p].outcome = proc[p].outcome
    BY <2>1 DEF TypeOK, Idle
  <2> QED BY <2>1, <2>2 DEF Moves, Busy
<1>10. CASE ToolFails(p) \/ Killed(p)
  BY <1>10, <1>1 DEF ToolFails, Killed, Active
<1>11. CASE Recheck(p)
  BY <1>11, <1>1, <1>2 DEF Recheck, Active
<1>12. CASE Link(p)
  <2>1. Active(p)
    BY <1>12 DEF Link, Active
  <2>2. End(p, "error") \/ Goto(p, "sidecar") \/ PublishesOne(p)
    BY <1>12 DEF Link, PublishesOne
  <2> QED BY <2>1, <2>2, <1>1, <1>2, <1>4
<1>13. CASE WriteSidecar(p)
  <2>1. Active(p) /\ PublishesOne(p)
    BY <1>13 DEF WriteSidecar, Active, PublishesOne
  <2> QED BY <2>1, <1>4
<1> QED
  BY <1>5, <1>6, <1>7, <1>8, <1>9, <1>10, <1>11, <1>12, <1>13 DEF Step, Downloads

(* What is left to do stays the end of the command, and the steps done     *)
(* grow by the one the command was at.                                     *)
LEMMA NextStepLeaves ==
    ASSUME TypeOK, NEW p \in Processes, Active(p), NextStep(p), CommandLeft(p)
    PROVE  CommandLeft(p)' /\ StepsDone(p)' \subseteq StepsDone(p) \cup {Current(p)}
<1> DEFINE t == proc[p].todo
           c == proc[p].command
           n == Len(t)
           l == Len(c)
<1>1. t \in Seq(Steps) /\ t # <<>> /\ c \in Seq(Steps) /\ n <= l /\ \A j \in 1..n : t[j] = c[l - n + j]
  BY DEF TypeOK, CommandLeft
<1>2. n \in Nat /\ l \in Nat
  BY <1>1, LenProperties
<1>3. n > 0
  BY <1>1, <1>2, EmptySeq
<1>4. Current(p) = c[l - n + 1]
  <2>1. Current(p) = t[1]
    BY <1>1 DEF Current
  <2> HIDE DEF c, t, n, l
  <2>2. 1 \in 1..n
    BY <1>2, <1>3
  <2> QED BY <2>1, <2>2, <1>1
<1>5. StepsDone(p) = {c[j] : j \in 1..(l - n)}
  BY DEF StepsDone
<1>6. CASE n = 1 /\ proc'[p].at = "idle" /\ proc'[p].todo = <<>> /\ proc'[p].outcome = "done"
  <2>1. proc'[p].command = c
    BY NextStepFacts
  <2>2. CommandLeft(p)'
    <3>1. Len(<<>>) = 0
      BY EmptySeq
    <3> QED BY <1>1, <1>2, <1>6, <2>1, <3>1 DEF CommandLeft, Active
  <2>3. StepsDone(p)' = {c[j] : j \in 1..l}
    <3>1. DOMAIN c = 1..l
      BY <1>1, LenProperties
    <3> QED BY <1>6, <2>1, <3>1 DEF StepsDone, Active, ToSet
  <2> HIDE DEF c, t, n, l
  <2>4. \A j \in 1..l : j \in 1..(l - n) \/ j = l - n + 1
    BY <1>2, <1>6
  <2> QED BY <1>4, <1>5, <2>2, <2>3, <2>4
<1>7. CASE n > 1 /\ proc'[p].at = "check" /\ proc'[p].todo = Tail(t)
  <2>1. proc'[p].command = c
    BY NextStepFacts
  <2>2. /\ Tail(t) \in Seq(Steps) /\ Len(Tail(t)) = n - 1
        /\ \A j \in 1..Len(Tail(t)) : Tail(t)[j] = t[j + 1]
    BY <1>1, <1>7, TailFacts
  <2>3. \A j \in 1..(n - 1) : Tail(t)[j] = c[l - (n - 1) + j]
    <3> HIDE DEF c, t, n, l
    <3> SUFFICES ASSUME NEW j \in 1..(n - 1) PROVE Tail(t)[j] = c[l - (n - 1) + j]
      OBVIOUS
    <3>1. j + 1 \in 1..n /\ l - n + (j + 1) = l - (n - 1) + j /\ j \in 1..Len(Tail(t))
      BY <1>2, <2>2
    <3> QED BY <1>1, <2>2, <3>1
  <2>4. CommandLeft(p)'
    <3> HIDE DEF c, t, n, l
    <3>1. Len(Tail(t)) <= l /\ \A j \in 1..Len(Tail(t)) : Tail(t)[j] = c[l - Len(Tail(t)) + j]
      BY <1>1, <1>2, <2>2, <2>3
    <3>2. proc'[p].outcome = "none"
      BY <1>7, NextStepFacts
    <3> QED BY <1>1, <1>7, <2>1, <3>1, <3>2 DEF CommandLeft, l
  <2>5. StepsDone(p)' = {c[j] : j \in 1..(l - (n - 1))}
    BY <1>7, <2>1, <2>2 DEF StepsDone, Active
  <2> HIDE DEF c, t, n, l
  <2>6. \A j \in 1..(l - (n - 1)) : j \in 1..(l - n) \/ j = l - n + 1
    BY <1>1, <1>2, <1>7
  <2> QED BY <1>4, <1>5, <2>4, <2>5, <2>6
<1> QED BY <1>6, <1>7, NextStepFacts

LEMMA CommandLeftStep ==
    ASSUME TypeOK, NEW p \in Processes, Step(p), CommandLeft(p)
    PROVE  CommandLeft(p)'
<1>1. CASE proc'[p].outcome = "none" /\ proc'[p].todo \in Seq(Steps) /\ proc'[p].command = proc'[p].todo
  <2> DEFINE t == proc'[p].todo
  <2>1. Len(t) \in Nat
    BY <1>1, LenProperties
  <2>2. Len(t) <= Len(t) /\ \A j \in 1..Len(t) : Len(t) - Len(t) + j = j
    BY <2>1
  <2> QED BY <1>1, <2>2 DEF CommandLeft
<1>2. CASE proc'[p].at = "idle" /\ proc'[p].todo = <<>> /\ proc'[p].command = proc[p].command
  <2>1. proc[p].command \in Seq(Steps) /\ Len(proc[p].command) \in Nat
    BY LenProperties DEF CommandLeft
  <2> QED BY <1>2, <2>1, EmptySeq DEF CommandLeft, Active
<1>3. CASE Active(p) /\ NextStep(p)
  BY <1>3, NextStepLeaves
<1>4. CASE Active(p) /\ proc'[p].todo = proc[p].todo /\ proc'[p].command = proc[p].command /\ proc'[p].outcome = proc[p].outcome
  BY <1>4 DEF CommandLeft
<1> QED BY <1>1, <1>2, <1>3, <1>4, HowItMoves DEF Moves

(* Steps and files of a command that were done stay so while it runs. *)
LEMMA FromNowStays ==
    ASSUME TypeOK, NEW p \in Processes, Step(p), NEW q \in Processes,
           NEW s \in Steps, NEW o \in Names, FromNow(q, s, o)
    PROVE  FromNow(q, s, o)'
<1>1. Place(q, o) \in Files /\ \A i \in InputsOf(s) : Place(q, i) \in Files
  BY StepFacts, PlaceInFiles
<1> QED BY <1>1, FilesKept DEF FromNow, Exists

LEMMA OutputNames ==
    ASSUME NEW s \in Steps
    PROVE  /\ ToSet(OutputsOf(s)) \subseteq Names
           /\ \A k \in DOMAIN OutputsOf(s) : OutputsOf(s)[k] \in ToSet(OutputsOf(s))
<1> DEFINE q == OutputsOf(s)
<1>1. q \in Seq(Names)
  BY StepFacts
<1> HIDE DEF q
<1>2. \A k \in DOMAIN q : q[k] \in Names
  BY <1>1, ElementOfSeq, LenProperties
<1>3. ToSet(q) \subseteq Names /\ \A k \in DOMAIN q : q[k] \in ToSet(q)
  BY <1>2 DEF ToSet
<1> QED BY <1>3 DEF q

LEMMA DoneAreSteps ==
    ASSUME NEW p \in Processes, CommandLeft(p), proc[p].todo \in Seq(Steps)
    PROVE  StepsDone(p) \subseteq Steps
<1> DEFINE c == proc[p].command
           n == Len(proc[p].todo)
<1>1. c \in Seq(Steps) /\ n \in Nat /\ Len(c) \in Nat /\ DOMAIN c = 1..Len(c)
  BY LenProperties DEF CommandLeft
<1>2. \A j \in 1..Len(c) : c[j] \in Steps
  BY <1>1, ElementOfSeq
<1>3. StepsDone(p) \subseteq {c[j] : j \in 1..Len(c)}
  <2>1. CASE Active(p)
    <3>1. StepsDone(p) = {c[j] : j \in 1..(Len(c) - n)}
      BY <2>1 DEF StepsDone
    <3> HIDE DEF c, n
    <3>2. 1..(Len(c) - n) \subseteq 1..Len(c)
      BY <1>1
    <3> QED BY <3>1, <3>2
  <2>2. CASE ~Active(p)
    BY <1>1, <2>2 DEF StepsDone, ToSet
  <2> QED BY <2>1, <2>2
<1> QED BY <1>2, <1>3

(* An output that is reused is made from what is there now (reusable). *)
LEMMA ReusedNow ==
    ASSUME TypeOK, RecordTrue, NEW p \in Processes, NEW s \in Steps, ~Raises(p, s),
           NEW o \in Names, Exists(Place(p, o)), ~Stale(p, s, o)
    PROVE  FromNow(p, s, o)
<1> DEFINE f == Place(p, o)
<1>1. f \in Files
  BY PlaceInFiles
<1>2. Recorded(f) = RecordOf(p, s)
  BY DEF Stale
<1>3. DOMAIN RecordOf(p, s) = InputsOf(s) /\ \A i \in InputsOf(s) : RecordOf(p, s)[i] = fs[Place(p, i)].stamp
  BY DEF RecordOf
<1>4. RecordOf(p, s) # <<>>
  <2>1. InputsOf(s) # {}
    BY StepFacts
  <2>2. DOMAIN <<>> = {}
    OBVIOUS
  <2> QED BY <1>3, <2>1, <2>2
<1>5. f \notin meddled => \A i \in InputsOf(s) : fs[f].from[i] = {fs[Place(p, i)].stamp}
  <2>1. f \notin meddled => \A i \in DOMAIN Recorded(f) : fs[f].from[i] = {Recorded(f)[i]}
    BY <1>1, <1>2, <1>4 DEF RecordTrue
  <2> QED BY <1>2, <1>3, <2>1
<1>6. \A i \in InputsOf(s) : Exists(Place(p, i))
  BY DEF Raises
<1> QED BY <1>5, <1>6 DEF FromNow

(* So is one that was just published. *)
LEMMA PublishedNow ==
    ASSUME TypeOK, NEW p \in Processes, Step(p), PublishesOne(p), proc[p].calm,
           CalmCurrent(p), RecordHolds(p), MissingOutputs(p),
           NEW s, s = Current(p), NEW o, o = OutputsOf(s)[First(p)]
    PROVE  FromNow(p, s, o)'
<1> DEFINE f == Place(p, o)
<1>7. f = Published(p)
  BY DEF Published
<1>0. proc[p].at \in {"publish", "sidecar"} /\ Active(p) /\ proc[p].at \in Busy
  BY DEF PublishesOne, Link, WriteSidecar, Active, Busy
<1>1. f \in Files /\ s \in Steps /\ \A i \in InputsOf(s) : Place(p, i) \in Files
  BY <1>7, <1>0, PublishedOutput, CurrentStep
<1>2. \A i \in InputsOf(s) : Exists(Place(p, i)) /\ proc[p].record[i] = fs[Place(p, i)].stamp
  BY <1>0 DEF CalmCurrent
<1>3. \A i \in InputsOf(s) : proc[p].seen[i] = {proc[p].record[i]}
  BY <1>0 DEF RecordHolds
<1>4. \A i \in InputsOf(s) : fs'[Place(p, i)] = fs[Place(p, i)]
  BY <1>1, <1>2, FilesKept
<1>5. fs'[f] # Absent /\ (f \notin meddled' => fs'[f].from = proc[p].seen)
  <2>1. CASE Link(p) /\ ~Exists(f)
    <3>1. PICK r : fs' = [fs EXCEPT ![f] = [stamp |-> clock + 1, from |-> proc[p].seen, record |-> r]]
      BY <1>7, <2>1 DEF Link
    <3>2. fs'[f] = [stamp |-> clock + 1, from |-> proc[p].seen, record |-> r]
      BY <1>1, <3>1 DEF TypeOK
    <3>3. clock + 1 # 0
      BY DEF TypeOK
    <3> QED BY <3>2, <3>3 DEF Absent
  <2>2. CASE WriteSidecar(p)
    BY <1>7, <1>1, <2>2 DEF WriteSidecar, RecordHolds, Exists
  <2> QED BY <1>7, <2>1, <2>2 DEF PublishesOne
<1> HIDE DEF f
<1>6. /\ fs'[f] # Absent
      /\ \A i \in InputsOf(s) : fs'[Place(p, i)] # Absent /\ (f \notin meddled' => fs'[f].from[i] = {fs'[Place(p, i)].stamp})
  BY <1>2, <1>3, <1>4, <1>5 DEF Exists
<1> QED BY <1>6 DEF f, FromNow, Exists

(* All outputs of a step that a command leaves behind are. *)
LEMMA StepFinished ==
    ASSUME TypeOK, RecordTrue, NEW p \in Processes, Step(p), Active(p), NextStep(p), Check(p) \/ PublishesOne(p),
           proc[p].calm, CalmCurrent(p), RecordHolds(p), MissingOutputs(p),
           NEW s, s = Current(p), NEW o \in ToSet(OutputsOf(s))
    PROVE  FromNow(p, s, o)'
<1>1. s \in Steps /\ o \in Names
  BY CurrentStep, OutputNames
<1>2. CASE Check(p)
  <2> DEFINE there == {x \in ToSet(OutputsOf(s)) : Exists(Place(p, x))}
  <2>1. ~End(p, "error") /\ ~Goto(p, "download") /\ \A m : ~Make(p, m)
    BY NextStepFacts, EndFacts, GotoFacts, MakeFacts
  <2>2. ~Raises(p, s) /\ there = ToSet(OutputsOf(s)) /\ \A x \in there : ~Stale(p, s, x)
    BY <1>2, <2>1 DEF Check
  <2>3. FromNow(p, s, o)
    BY <1>1, <2>2, ReusedNow
  <2> QED BY <1>1, <2>3, FromNowStays
<1>3. CASE PublishesOne(p)
  <2>1. Active(p) /\ proc[p].at \in Busy
    BY <1>3 DEF PublishesOne, Link, WriteSidecar, Active, Busy
  <2>2. proc[p].missing = {First(p)}
    <3>1. proc'[p].at # "publish"
      BY NextStepFacts
    <3> QED BY <1>3, <3>1, AfterPublishingFacts DEF PublishesOne
  <2>3. PICK k \in DOMAIN OutputsOf(s) : o = OutputsOf(s)[k]
    BY DEF ToSet
  <2>4. CASE k = First(p)
    BY <1>3, <2>3, <2>4, PublishedNow
  <2>5. CASE k # First(p)
    <3>1. FromNow(p, s, o)
      BY <2>1, <2>2, <2>3, <2>5 DEF CalmCurrent
    <3> QED BY <1>1, <3>1, FromNowStays
  <2> QED BY <2>4, <2>5
<1> QED BY <1>2, <1>3

(* What the steps done have made stays made from what is there. *)
LEMMA DoneStep ==
    ASSUME TypeOK, RecordTrue, NEW p \in Processes, Step(p),
           CalmCurrent(p), RecordHolds(p), MissingOutputs(p), CommandLeft(p),
           proc'[p].calm, NEW d \in StepsDone(p)', NEW o \in ToSet(OutputsOf(d))
    PROVE  FromNow(p, d, o)'
<1>0. StepsDone(p) \subseteq Steps
  BY DoneAreSteps DEF TypeOK
<1>1. ASSUME d \in StepsDone(p), proc[p].calm PROVE FromNow(p, d, o)'
  <2>1. FromNow(p, d, o) /\ d \in Steps /\ o \in Names
    BY <1>0, <1>1, OutputNames DEF CalmCurrent
  <2> QED BY <2>1, FromNowStays
<1>2. CASE proc'[p].at = "check" /\ proc'[p].command = proc'[p].todo /\ proc'[p].todo \in Seq(Steps)
  <2>1. Len(proc'[p].todo) \in Nat
    BY <1>2, LenProperties
  <2>2. StepsDone(p)' = {proc'[p].todo[j] : j \in 1..(Len(proc'[p].todo) - Len(proc'[p].todo))}
    BY <1>2 DEF StepsDone, Active
  <2> DEFINE n == Len(proc'[p].todo)
  <2> HIDE DEF n
  <2>3. 1..(n - n) = {}
    BY <2>1 DEF n
  <2> QED BY <2>2, <2>3 DEF n
<1>3. CASE proc'[p].at = "idle" /\ proc'[p].outcome # "done"
  BY <1>3 DEF StepsDone, Active
<1>4. CASE Active(p) /\ NextStep(p) /\ (Check(p) \/ PublishesOne(p))
  <2>1. proc[p].calm /\ (d \in StepsDone(p) \/ d = Current(p))
    BY <1>4, NextStepFacts, NextStepLeaves
  <2>2. CASE d = Current(p)
    BY <1>4, <2>1, <2>2, StepFinished
  <2> QED BY <1>1, <2>1, <2>2
<1>5. CASE /\ Active(p) /\ proc'[p].at # "idle" /\ proc'[p].todo = proc[p].todo
           /\ proc'[p].command = proc[p].command /\ proc'[p].calm = proc[p].calm
  <2>1. StepsDone(p)' = StepsDone(p)
    BY <1>5 DEF StepsDone, Active
  <2> QED BY <1>1, <1>5, <2>1
<1> QED BY <1>2, <1>3, <1>4, <1>5, HowItMoves DEF Moves

(* And so do the outputs of the step at hand that are there. *)
LEMMA BusyStep ==
    ASSUME TypeOK, RecordTrue, NEW p \in Processes, Step(p),
           CalmCurrent(p), RecordHolds(p), MissingOutputs(p),
           proc'[p].calm, proc'[p].at \in Busy, NEW s, s = Current(p)'
    PROVE  /\ \A i \in InputsOf(s) : Exists(Place(p, i))' /\ proc'[p].record[i] = fs'[Place(p, i)].stamp
           /\ \A k \in DOMAIN OutputsOf(s) \ proc'[p].missing : FromNow(p, s, OutputsOf(s)[k])'
<1>1. CASE Begins(p)
  <2>1. s = Current(p) /\ fs' = fs /\ ~Raises(p, s) /\ proc'[p].record = RecordOf(p, s) /\ Active(p)
    BY <1>1 DEF Begins, Current
  <2>2. s \in Steps
    BY <2>1, CurrentStep
  <2>3. \A i \in InputsOf(s) : Exists(Place(p, i))' /\ proc'[p].record[i] = fs'[Place(p, i)].stamp
    BY <2>1 DEF Raises, RecordOf, Exists
  <2>4. ASSUME NEW k \in DOMAIN OutputsOf(s) \ proc'[p].missing PROVE FromNow(p, s, OutputsOf(s)[k])'
    <3> DEFINE o == OutputsOf(s)[k]
    <3>1. o \in Names
      BY <2>2, OutputNames
    <3>2. Exists(Place(p, o)) /\ ~Stale(p, s, o)
      BY <1>1, <2>1, <2>4 DEF Begins
    <3> HIDE DEF o
    <3>3. FromNow(p, s, o)
      BY <2>1, <2>2, <3>1, <3>2, ReusedNow
    <3>4. FromNow(p, s, o)'
      BY <2>2, <3>1, <3>3, FromNowStays DEF o
    <3> QED BY <3>4 DEF o
  <2> QED BY <2>3, <2>4
<1>2. ASSUME proc[p].at \in Busy, proc'[p].todo = proc[p].todo, proc'[p].record = proc[p].record, proc[p].calm
      PROVE  /\ s = Current(p) /\ s \in Steps
             /\ \A i \in InputsOf(s) : Exists(Place(p, i))' /\ proc'[p].record[i] = fs'[Place(p, i)].stamp
             /\ \A k \in DOMAIN OutputsOf(s) \ proc[p].missing : FromNow(p, s, OutputsOf(s)[k])'
  <2>1. s = Current(p) /\ s \in Steps /\ \A i \in InputsOf(s) : Place(p, i) \in Files
    BY <1>2, CurrentStep DEF Current, Active, Busy
  <2>2. \A i \in InputsOf(s) : Exists(Place(p, i)) /\ proc[p].record[i] = fs[Place(p, i)].stamp
    BY <1>2, <2>1 DEF CalmCurrent
  <2>3. \A i \in InputsOf(s) : Exists(Place(p, i))' /\ proc'[p].record[i] = fs'[Place(p, i)].stamp
    BY <1>2, <2>1, <2>2, FilesKept DEF Exists
  <2>4. ASSUME NEW k \in DOMAIN OutputsOf(s) \ proc[p].missing PROVE FromNow(p, s, OutputsOf(s)[k])'
    <3>1. FromNow(p, s, OutputsOf(s)[k])
      BY <1>2, <2>1 DEF CalmCurrent
    <3>2. OutputsOf(s)[k] \in Names
      BY <2>1, OutputNames
    <3> QED BY <2>1, <3>1, <3>2, FromNowStays
  <2> QED BY <2>1, <2>3, <2>4
<1>3. CASE GoesOn(p)
  BY <1>2, <1>3 DEF GoesOn
<1>4. CASE PublishesOne(p)
  <2>1. Active(p) /\ ~NextStep(p) /\ proc[p].at \in Busy
    BY <1>4, NextStepFacts DEF Busy, Active, PublishesOne, Link, WriteSidecar
  <2>2. /\ proc'[p].todo = proc[p].todo /\ proc'[p].record = proc[p].record /\ proc'[p].calm = proc[p].calm
        /\ proc'[p].missing = proc[p].missing \ {First(p)}
    BY <1>4, <2>1, AfterPublishingFacts DEF PublishesOne
  <2>3. s = Current(p)
    BY <2>2 DEF Current
  <2>5. ASSUME NEW k \in DOMAIN OutputsOf(s) \ proc'[p].missing PROVE FromNow(p, s, OutputsOf(s)[k])'
    <3>1. CASE k = First(p)
      BY <1>4, <2>2, <2>3, <3>1, PublishedNow
    <3>2. CASE k \notin proc[p].missing
      BY <1>2, <2>1, <2>2, <3>2
    <3> QED BY <2>2, <3>1, <3>2
  <2> QED BY <1>2, <2>1, <2>2, <2>5
<1> QED BY <1>1, <1>3, <1>4, BusySteps

LEMMA CalmStep ==
    ASSUME TypeOK, RecordTrue, NEW p \in Processes, Step(p),
           CalmCurrent(p), RecordHolds(p), MissingOutputs(p), CommandLeft(p)
    PROVE  CalmCurrent(p)'
<1> SUFFICES ASSUME proc'[p].calm PROVE CalmCurrent(p)'
  BY DEF CalmCurrent
<1>1. \A d \in StepsDone(p)' : \A o \in ToSet(OutputsOf(d)) : FromNow(p, d, o)'
  BY DoneStep
<1>2. ASSUME proc'[p].at \in Busy, NEW s, s = Current(p)'
      PROVE  /\ \A i \in InputsOf(s) : Exists(Place(p, i))' /\ proc'[p].record[i] = fs'[Place(p, i)].stamp
             /\ \A k \in DOMAIN OutputsOf(s) \ proc'[p].missing : FromNow(p, s, OutputsOf(s)[k])'
  BY <1>2, BusyStep
<1> QED BY <1>1, <1>2 DEF CalmCurrent

(* The others, whom a step of p leaves where they are. *)
LEMMA CalmOthers ==
    ASSUME TypeOK, NEW p \in Processes, Step(p), NEW q \in Processes, proc'[q] = proc[q],
           CalmCurrent(q), MissingOutputs(q), CommandLeft(q)
    PROVE  CalmCurrent(q)'
<1> SUFFICES ASSUME proc[q].calm PROVE CalmCurrent(q)'
  BY DEF CalmCurrent
<1>1. StepsDone(q)' = StepsDone(q) /\ Current(q)' = Current(q)
  BY DEF StepsDone, Active, Current
<1>2. ASSUME NEW d \in StepsDone(q), NEW o \in ToSet(OutputsOf(d)) PROVE FromNow(q, d, o)'
  <2>1. FromNow(q, d, o)
    BY DEF CalmCurrent
  <2>2. d \in Steps /\ o \in Names
    BY DoneAreSteps, OutputNames DEF TypeOK
  <2> QED BY <2>1, <2>2, FromNowStays
<1>3. ASSUME proc[q].at \in Busy, NEW s, s = Current(q)
      PROVE  /\ \A i \in InputsOf(s) : Exists(Place(q, i))' /\ proc[q].record[i] = fs'[Place(q, i)].stamp
             /\ \A k \in DOMAIN OutputsOf(s) \ proc[q].missing : FromNow(q, s, OutputsOf(s)[k])'
  <2>1. s \in Steps /\ \A i \in InputsOf(s) : Place(q, i) \in Files
    BY <1>3, CurrentStep DEF Active, Busy
  <2>2. \A i \in InputsOf(s) : Exists(Place(q, i)) /\ proc[q].record[i] = fs[Place(q, i)].stamp
    BY <1>3 DEF CalmCurrent
  <2>3. \A i \in InputsOf(s) : Exists(Place(q, i))' /\ proc[q].record[i] = fs'[Place(q, i)].stamp
    BY <2>1, <2>2, FilesKept DEF Exists
  <2>4. ASSUME NEW k \in DOMAIN OutputsOf(s) \ proc[q].missing PROVE FromNow(q, s, OutputsOf(s)[k])'
    <3>1. FromNow(q, s, OutputsOf(s)[k])
      BY <1>3 DEF CalmCurrent
    <3>2. OutputsOf(s)[k] \in Names
      BY <2>1, OutputNames
    <3> QED BY <2>1, <3>1, <3>2, FromNowStays
  <2> QED BY <2>3, <2>4
<1> QED BY <1>1, <1>2, <1>3 DEF CalmCurrent

LEMMA PipelineStep ==
    ASSUME PipelineInv, NEW p \in Processes, Step(p), TypeOK'
    PROVE  PipelineInv'
<1>1. TypeOK /\ RecordTrue /\ DownloadsInv /\ \A q \in Processes : RecordHolds(q) /\ MissingOutputs(q) /\ CommandLeft(q) /\ CalmCurrent(q)
  BY DEF PipelineInv
<1>2. RecordTrue' /\ DownloadsInv'
  BY <1>1, RecordTrueStep, DownloadsStep
<1>3. RecordHolds(p)' /\ MissingOutputs(p)' /\ CommandLeft(p)' /\ CalmCurrent(p)'
  BY <1>1, RecordHoldsNow, MissingStep, CommandLeftStep, CalmStep
<1>4. ASSUME NEW q \in Processes, q # p
      PROVE  RecordHolds(q)' /\ MissingOutputs(q)' /\ CommandLeft(q)' /\ CalmCurrent(q)'
  <2>1. proc'[q] = proc[q]
    BY <1>1, <1>4, CommandsOK
  <2>2. RecordHolds(q)'
    BY <1>1, <2>1, RecordHoldsStill, StampsGrowInStep
  <2>3. MissingOutputs(q)' /\ CommandLeft(q)'
    BY <1>1, <2>1 DEF MissingOutputs, CommandLeft, Current, Active
  <2>4. CalmCurrent(q)'
    BY <1>1, <2>1, CalmOthers
  <2> QED BY <2>2, <2>3, <2>4
<1> QED BY <1>2, <1>3, <1>4 DEF PipelineInv

(* What is known of a command that is disturbed where it is. *)
LEMMA DisturbedKeeps ==
    ASSUME TypeOK, NEW q \in Processes, proc'[q] = [proc[q] EXCEPT !.calm = FALSE],
           RecordHolds(q), MissingOutputs(q), CommandLeft(q), StampsGrow \/ ~Active(q)
    PROVE  RecordHolds(q)' /\ MissingOutputs(q)' /\ CommandLeft(q)' /\ CalmCurrent(q)'
<1>1. DOMAIN proc[q] = DOMAIN Idle
  BY DEF TypeOK
<1>2. /\ proc'[q].at = proc[q].at /\ proc'[q].todo = proc[q].todo /\ proc'[q].record = proc[q].record
      /\ proc'[q].seen = proc[q].seen /\ proc'[q].missing = proc[q].missing /\ proc'[q].calm = FALSE
      /\ proc'[q].command = proc[q].command /\ proc'[q].outcome = proc[q].outcome
  BY <1>1 DEF Idle
<1>3. ASSUME StampsGrow PROVE RecordHolds(q)'
  BY <1>2, <1>3, RecordHoldsStill
<1>4. ASSUME ~Active(q) PROVE RecordHolds(q)'
  BY <1>2, <1>4 DEF RecordHolds, Busy, Active
<1>5. MissingOutputs(q)' /\ CommandLeft(q)'
  BY <1>2 DEF MissingOutputs, CommandLeft, Current, Active
<1>6. CalmCurrent(q)'
  BY <1>2 DEF CalmCurrent
<1> QED BY <1>3, <1>4, <1>5, <1>6

LEMMA PipelineDisturbed ==
    ASSUME PipelineInv, NEW f \in Files, Replace(f) \/ MoveAside(f), TypeOK'
    PROVE  PipelineInv'
<1>1. TypeOK /\ RecordTrue /\ DownloadsInv /\ \A q \in Processes : RecordHolds(q) /\ MissingOutputs(q) /\ CommandLeft(q)
  BY DEF PipelineInv
<1>2. RecordTrue'
  BY <1>1, RecordTrueDisturbed
<1>3. \A q \in Processes : proc'[q] = [proc[q] EXCEPT !.calm = FALSE]
  BY <1>1, FilesDisturbed
<1>4. SamePlaces
  BY <1>1, <1>3, OthersTyped DEF SamePlaces, Idle
<1>5. DownloadsInv'
  BY <1>1, <1>4, DownloadsDisturbed
<1>6. ASSUME NEW q \in Processes
      PROVE  RecordHolds(q)' /\ MissingOutputs(q)' /\ CommandLeft(q)' /\ CalmCurrent(q)'
  BY <1>1, <1>3, StampsGrowOrQuiet, DisturbedKeeps
<1> QED BY <1>2, <1>5, <1>6 DEF PipelineInv

(* Nothing that a command knows is of the disks. *)
LEMMA FilesAsBefore ==
    ASSUME PipelineInv, fs' = fs, proc' = proc, meddled' = meddled, sidecar' = sidecar
    PROVE  \A q \in Processes : RecordHolds(q)' /\ MissingOutputs(q)' /\ CommandLeft(q)' /\ CalmCurrent(q)'
<1> SUFFICES ASSUME NEW q \in Processes
             PROVE  RecordHolds(q)' /\ MissingOutputs(q)' /\ CommandLeft(q)' /\ CalmCurrent(q)'
  OBVIOUS
<1>1. RecordHolds(q) /\ MissingOutputs(q) /\ CommandLeft(q) /\ CalmCurrent(q)
  BY DEF PipelineInv
<1>2. Current(q)' = Current(q) /\ Published(q)' = Published(q) /\ StepsDone(q)' = StepsDone(q) /\ Active(q)' = Active(q)
  BY DEF Current, Published, First, StepsDone, Active
<1>3. RecordHolds(q)' /\ MissingOutputs(q)' /\ CommandLeft(q)'
  BY <1>1, <1>2 DEF RecordHolds, MissingOutputs, CommandLeft, Exists
<1>4. \A s, o : FromNow(q, s, o)' <=> FromNow(q, s, o)
  BY DEF FromNow, Exists
<1>5. \A i : Exists(Place(q, i))' <=> Exists(Place(q, i))
  BY DEF Exists
<1> QED BY <1>1, <1>2, <1>3, <1>4, <1>5 DEF CalmCurrent

LEMMA PipelineCurl ==
    ASSUME PipelineInv, NEW k \in DOMAIN curls, Curl(k), TypeOK'
    PROVE  PipelineInv'
<1>1. TypeOK /\ RecordTrue /\ DownloadsInv /\ \A q \in Processes : RecordHolds(q) /\ MissingOutputs(q) /\ CommandLeft(q)
  BY DEF PipelineInv
<1>2. /\ sidecar' = sidecar /\ meddled' = meddled
      /\ (fs' = fs /\ proc' = proc) \/ proc' = Disturbed
  BY <1>1, CurlFacts
<1>3. RecordTrue'
  BY <1>1, RecordTrueCurl
<1>4. SamePlaces
  BY <1>1, <1>2, OthersTyped DEF SamePlaces, Disturbed, Idle
<1>5. DownloadsInv'
  BY <1>1, <1>4, DownloadsCurl
<1>6. CASE fs' = fs /\ proc' = proc
  BY <1>2, <1>3, <1>5, <1>6, FilesAsBefore DEF PipelineInv
<1>7. CASE proc' = Disturbed
  <2>1. \A q \in Processes : proc'[q] = [proc[q] EXCEPT !.calm = FALSE]
    BY <1>7 DEF Disturbed
  <2>2. \A q \in Processes : RecordHolds(q)' /\ MissingOutputs(q)' /\ CommandLeft(q)' /\ CalmCurrent(q)'
    BY <1>1, <2>1, StampsGrowCurl, DisturbedKeeps
  <2> QED BY <1>3, <1>5, <2>2 DEF PipelineInv
<1> QED BY <1>2, <1>6, <1>7

LEMMA PipelineInit == Init => PipelineInv
<1> SUFFICES ASSUME Init PROVE PipelineInv
  OBVIOUS
<1>1. TypeOK
  BY TypeInit
<1>2. \A p \in Processes : proc[p] = Idle
  BY DEF Init
<1>3. /\ Idle.at = "idle" /\ Idle.todo = <<>> /\ Idle.command = <<>> /\ Idle.calm = FALSE
  BY DEF Idle
<1>4. \A p \in Processes : RecordHolds(p) /\ MissingOutputs(p) /\ CalmCurrent(p)
  BY <1>2, <1>3 DEF RecordHolds, MissingOutputs, CalmCurrent, Busy
<1>5. \A p \in Processes : CommandLeft(p)
  <2>1. <<>> \in Seq(Steps) /\ Len(<<>>) = 0
    BY EmptySeq
  <2>2. 0 <= 0 /\ 1..0 = {}
    OBVIOUS
  <2> SUFFICES ASSUME NEW p \in Processes PROVE CommandLeft(p)
    OBVIOUS
  <2>3. proc[p].todo = <<>> /\ proc[p].command = <<>> /\ proc[p].at = "idle"
    BY <1>2, <1>3
  <2> QED BY <2>1, <2>2, <2>3 DEF CommandLeft, Active
<1>6. \A f \in Files : fs[f] = IF f[1] = "code" THEN [stamp |-> 1, from |-> <<>>, record |-> <<>>] ELSE Absent
  BY DEF Init
<1>7. RecordTrue
  <2> SUFFICES ASSUME NEW f \in Files, Exists(f) PROVE Recorded(f) = <<>>
    BY DEF RecordTrue
  <2>1. f[1] = "code" /\ fs[f].record = <<>>
    BY <1>6 DEF Exists
  <2> QED BY <2>1 DEF Recorded, WithSidecar
<1>8. DownloadsInv
  <2>1. \A p \in Processes : proc[p].at \notin AtPart
    BY <1>2, <1>3 DEF AtPart
  <2>2. \A p \in Processes : OwnCurl(p)
    BY <2>1 DEF OwnCurl
  <2>3. \A raw \in Downloaded : ~Exists(Original(raw))
    BY <1>6, OriginalFile DEF Exists, Downloaded
  <2>4. DOMAIN curls = {}
    BY DEF Init
  <2> QED BY <2>1, <2>2, <2>3, <2>4 DEF DownloadsInv, DownloadWhole, AtPart
<1> QED BY <1>1, <1>4, <1>5, <1>7, <1>8 DEF PipelineInv

LEMMA PipelineNext ==
    ASSUME PipelineInv, [Next]_vars
    PROVE  PipelineInv'
<1>1. TypeOK'
  BY TypeNext DEF PipelineInv
<1>2. CASE UNCHANGED vars
  <2>1. fs' = fs /\ sidecar' = sidecar /\ proc' = proc /\ meddled' = meddled /\ part' = part /\ inodes' = inodes /\ curls' = curls
    BY <1>2 DEF vars, diskVars
  <2>2. RecordTrue'
    BY <2>1 DEF PipelineInv, RecordTrue, Recorded, Exists
  <2>3. DownloadsInv'
    <3>1. (\A p \in Processes : RawOf(p)' = RawOf(p)) /\ (\A raw : Original(raw)' = Original(raw))
      BY <2>1 DEF RawOf, Current, Original
    <3>2. (\A raw : Exists(Original(raw))' <=> Exists(Original(raw))) /\ (\A raw : DataOf(raw)' = DataOf(raw))
      BY <2>1, <3>1 DEF Exists, DataOf, Original
    <3>3. \A k : Live(k)' <=> Live(k)
      BY <2>1 DEF Live
    <3>4. \A p \in Processes : OwnCurl(p)' <=> OwnCurl(p)
      BY <2>1, <3>1 DEF OwnCurl
    <3>5. \A raw : DownloadWhole(raw)' <=> DownloadWhole(raw)
      BY <2>1, <3>1, <3>2, <3>3 DEF DownloadWhole
    <3> QED BY <2>1, <3>1, <3>4, <3>5 DEF PipelineInv, DownloadsInv
  <2> QED BY <1>1, <2>1, <2>2, <2>3, FilesAsBefore DEF PipelineInv
<1> QED BY <1>1, <1>2, PipelineStep, PipelineCurl, PipelineDisturbed DEF Next

(* The inductive invariant: what a step publishes is what its tool saw,    *)
(* what is linked is a whole download, unless two commands had it in hand, *)
(* and as long as nothing is replaced the steps done are up to date.       *)
THEOREM PipelineInvariance == SpecPipeline => []PipelineInv
BY PipelineInit, PipelineNext, PTL DEF SpecPipeline

(* A file that reusable() would accept was made, from the beginning of the *)
(* tool's run to its end, from the inputs its record names, although they  *)
(* are replaced while tools run and commands are killed between any two    *)
(* steps: publish() follows a second look at the inputs. Except a file the *)
(* operator puts there between os.link and the sidecar.                    *)
THEOREM RecordsAreTrue == SpecPipeline => []RecordTrue
<1>1. PipelineInv => RecordTrue
  BY DEF PipelineInv
<1> QED BY <1>1, PipelineInvariance, PTL

(* When `run` has completed undisturbed, every file behind the candidate   *)
(* was made from the files that are there now, all the way to downloads    *)
(* that are whole: nothing that earlier, killed or refused commands left,  *)
(* and nothing another command published meanwhile, is stale in between.   *)
(* Except files that two actors had in hand at a time.                     *)
THEOREM CandidatesAreCurrent == SpecPipeline => []CandidateCurrent
<1>1. PipelineInv => CandidateCurrent
  <2> SUFFICES ASSUME PipelineInv, NEW p \in Processes, proc[p].outcome = "done", proc[p].calm, proc[p].command = Run
               PROVE  /\ \A raw \in Downloaded : Original(raw) \notin meddled => DataOf(raw) = Whole
                      /\ \A s \in Steps : \A o \in ToSet(OutputsOf(s)) : \A i \in InputsOf(s) :
                           /\ Exists(Place(p, o))
                           /\ Place(p, o) \notin meddled => fs[Place(p, o)].from[i] = {fs[Place(p, i)].stamp}
    BY DEF CandidateCurrent
  <2>1. StepsDone(p) = ToSet(Run)
    BY DEF StepsDone, PipelineInv, CommandLeft
  <2>2. Steps \subseteq ToSet(Run)
    BY DEF Steps, Run, ToSet
  <2>3. \A s \in Steps : \A o \in ToSet(OutputsOf(s)) : FromNow(p, s, o)
    BY <2>1, <2>2 DEF PipelineInv, CalmCurrent
  <2>4. ASSUME NEW raw \in Downloaded, Original(raw) \notin meddled PROVE DataOf(raw) = Whole
    <3>1. \E s \in Steps : raw \in InputsOf(s)
      BY DEF Downloaded, Steps, InputsOf
    <3>2. Exists(Place(p, raw))
      BY <2>3, <3>1, OutputNames, StepFacts DEF FromNow
    <3>3. Place(p, raw) = Original(raw)
      BY DEF Place, Original, Shared
    <3> QED BY <2>4, <3>2, <3>3 DEF PipelineInv, DownloadsInv, DownloadWhole
  <2> QED BY <2>3, <2>4 DEF FromNow
<1> QED BY <1>1, PipelineInvariance, PTL

LEMMA NothingOverwrittenStep ==
    ASSUME PipelineInv, [Next]_vars, NEW f \in Files, Exists(f), fs'[f] # fs[f]
    PROVE  \/ spent'.changes # spent.changes
           \/ f[1] \in Downloaded /\ f \in meddled /\ fs'[f].from = fs[f].from
<1>1. TypeOK /\ DownloadsInv
  BY DEF PipelineInv
<1>2. CASE UNCHANGED vars
  BY <1>2 DEF vars
<1>3. ASSUME NEW p \in Processes, Step(p) PROVE FALSE
  BY <1>1, <1>3, FilesKept
<1>4. ASSUME NEW g \in Files, Replace(g) \/ MoveAside(g) PROVE spent'.changes # spent.changes
  <2>1. spent' = [spent EXCEPT !.changes = @ + 1]
    BY <1>1, <1>4, FilesDisturbed
  <2> QED BY <1>1, <2>1 DEF TypeOK
<1>5. ASSUME NEW k \in DOMAIN curls, Curl(k) PROVE f[1] \in Downloaded /\ f \in meddled /\ fs'[f].from = fs[f].from
  <2> DEFINE raw == curls[k].raw
  <2>1. raw \in Downloaded /\ curls[k].at # "done"
    BY <1>1, <1>5, CurlFacts
  <2>2. Exists(Original(raw)) /\ fs' = [fs EXCEPT ![Original(raw)].stamp = clock + 1]
    BY <1>1, <1>5, CurlFacts
  <2>3. f = Original(raw)
    BY <1>1, <2>2 DEF TypeOK
  <2>4. f[1] = raw /\ fs'[f].from = fs[f].from
    BY <1>1, <2>1, <2>2, <2>3, OriginalFile, OthersTyped DEF FilesOK
  <2>5. f \in meddled
    BY <1>1, <2>1, <2>2, <2>3 DEF DownloadsInv, DownloadWhole
  <2> QED BY <2>1, <2>4, <2>5
<1> QED BY <1>2, <1>3, <1>4, <1>5 DEF Next

(* No command and no curl changes a file that is there, although only the  *)
(* OUTPUT_DIR is locked, except a download that two curls had open; and    *)
(* even then no other file takes its name.                                 *)
THEOREM NeverOverwrites == SpecPipeline => NothingOverwritten
<1>1. PipelineInv /\ [Next]_vars =>
        \A f \in Files : Exists(f) /\ fs'[f] # fs[f] =>
          \/ spent'.changes # spent.changes
          \/ f[1] \in Downloaded /\ f \in meddled /\ fs'[f].from = fs[f].from
  BY NothingOverwrittenStep
<1> QED BY <1>1, PipelineInvariance, PTL DEF SpecPipeline, NothingOverwritten
-----------------------------------------------------------------------------
(* The loops over worker pools. *)

(* A set of jobs is finite. *)
LEMMA JobsFinite ==
    ASSUME NEW n \in Nat, NEW S \in SUBSET (1..n)
    PROVE  IsFiniteSet(S) /\ Cardinality(S) \in Nat
<1>1. IsFiniteSet(1..n)
  BY FS_Interval
<1> QED BY <1>1, FS_Subset, FS_CardinalityType

(* Taking results and submitting new jobs for them: the pool stays full,   *)
(* and the new jobs are the next ones of the input.                        *)
LEMMA SubmitFacts ==
    ASSUME PoolTypeOK, OneStage, PoolFull, NEW taken \in SUBSET finished, NEW n \in Nat, Submit(taken, n),
           n = Cardinality(taken) \/ n = Limit - Cardinality(pending \ taken)
    PROVE  /\ submitted' \in 0..Jobs /\ submitted' >= submitted /\ finished' \subseteq pending'
           /\ pending' = (pending \ taken) \cup (submitted + 1)..submitted'
           /\ PoolFull'
<1> DEFINE new == Min({Jobs, submitted + n})
<1>1. submitted \in Nat /\ submitted <= Jobs /\ Jobs \in Nat
  BY PoolsAssumption DEF PoolTypeOK
<1>2. new \in {Jobs, submitted + n} /\ new <= Jobs /\ new <= submitted + n
  <2>1. {Jobs, submitted + n} \in SUBSET Nat
    BY <1>1
  <2>2. {Jobs, submitted + n} # {}
    OBVIOUS
  <2>3. new \in {Jobs, submitted + n} /\ \A y \in {Jobs, submitted + n} : new <= y
    BY <2>1, <2>2, MinOfNats
  <2> QED BY <2>3
<1>3. submitted' = new /\ pending' = (pending \ taken) \cup (submitted + 1)..new /\ finished' = finished \ taken
  BY DEF Submit
<1> HIDE DEF new
<1>4. new \in 0..Jobs /\ new >= submitted
  BY <1>1, <1>2
<1>5. finished' \subseteq pending'
  BY <1>3 DEF PoolTypeOK
<1>6. pending \subseteq 1..submitted
  BY DEF OneStage
<1>7. IsFiniteSet(pending) /\ IsFiniteSet(taken) /\ Cardinality(pending) \in Nat /\ Cardinality(taken) \in Nat
  <2>1. taken \in SUBSET (1..submitted) /\ pending \in SUBSET (1..submitted)
    BY <1>6 DEF PoolTypeOK
  <2> QED BY <1>1, <2>1, JobsFinite
<1>8. IsFiniteSet(pending \ taken) /\ Cardinality(pending \ taken) = Cardinality(pending) - Cardinality(taken)
  <2>1. pending \cap taken = taken
    BY DEF PoolTypeOK
  <2>2. IsFiniteSet(pending \ taken) /\ Cardinality(pending \ taken) = Cardinality(pending) - Cardinality(pending \cap taken)
    BY <1>7, FS_Difference, Zenon
  <2> QED BY <2>1, <2>2, Zenon
<1>9. IsFiniteSet((submitted + 1)..new) /\ Cardinality((submitted + 1)..new) = new - submitted
  <2>1. submitted + 1 \in Int /\ new \in Int
    BY <1>1, <1>4
  <2>2. IsFiniteSet((submitted + 1)..new) /\ Cardinality((submitted + 1)..new) = IF submitted + 1 > new THEN 0 ELSE new - (submitted + 1) + 1
    BY <2>1, FS_Interval
  <2> QED BY <1>1, <1>4, <2>2
<1>10. Cardinality(pending') = Cardinality(pending) - Cardinality(taken) + (new - submitted)
  <2>1. (pending \ taken) \cap ((submitted + 1)..new) = {}
    BY <1>1, <1>4, <1>6
  <2>2. Cardinality((pending \ taken) \cup ((submitted + 1)..new)) = Cardinality(pending \ taken) + Cardinality((submitted + 1)..new)
    BY <1>8, <1>9, <2>1, CountDisjoint, Zenon
  <2> QED BY <1>3, <1>8, <1>9, <2>2, Zenon
<1>11. PoolFull'
  <2> DEFINE c == Cardinality(pending)
             t == Cardinality(taken)
             d == Cardinality(pending')
  <2>0. Limit \in Nat
    BY PoolsAssumption DEF Limit
  <2>1. c <= Limit /\ (submitted < Jobs => c = Limit) /\ d = c - t + (new - submitted)
    BY <1>10 DEF PoolFull
  <2>2. c \in Nat /\ t \in Nat /\ (n = t \/ n = Limit - (c - t))
    BY <1>7, <1>8
  <2>3. Cardinality(pending)' = d
    OBVIOUS
  <2> HIDE DEF c, t, d
  <2>4. d <= Limit /\ (new < Jobs => d = Limit)
    BY <1>1, <1>2, <1>4, <2>0, <2>1, <2>2
  <2> QED BY <1>3, <2>3, <2>4 DEF PoolFull, Limit
<1> QED BY <1>3, <1>4, <1>5, <1>11

(* The results that were taken change the stage, and the new jobs enter    *)
(* the first one.                                                          *)
LEMMA StagesKept ==
    ASSUME PoolTypeOK, OneStage, PoolFull, NEW taken \in SUBSET finished, NEW n \in Nat, Submit(taken, n),
           n = Cardinality(taken) \/ n = Limit - Cardinality(pending \ taken),
           taken \cap failing = {}, failing' = failing,
           ready' \cup ToSet(written') = ready \cup ToSet(written) \cup taken,
           ready' \cap ToSet(written') = {}
    PROVE  OneStage' /\ PoolFull' /\ submitted' \in 0..Jobs /\ finished' \subseteq pending'
<1>1. /\ submitted' \in 0..Jobs /\ submitted' >= submitted /\ finished' \subseteq pending' /\ PoolFull'
      /\ pending' = (pending \ taken) \cup (submitted + 1)..submitted'
  BY SubmitFacts
<1>2. submitted \in Nat /\ submitted' \in Nat /\ taken \subseteq pending
  BY <1>1, PoolsAssumption DEF PoolTypeOK
<1>3. 1..submitted' = (1..submitted) \cup (submitted + 1)..submitted' /\ (1..submitted) \cap (submitted + 1)..submitted' = {}
  BY <1>1, <1>2
<1> DEFINE new == (submitted + 1)..submitted'
           old == 1..submitted
           w == ToSet(written)
           w2 == ToSet(written')
<1>4. pending \cup ready \cup w = old /\ pending \cap ready = {} /\ pending \cap w = {} /\ failing \cap (ready \cup w) = {}
  BY DEF OneStage
<1>5. old \cap new = {} /\ 1..submitted' = old \cup new /\ pending' = (pending \ taken) \cup new
  BY <1>1, <1>3
<1> HIDE DEF new, old, w, w2
<1>6. /\ pending' \cup ready' \cup w2 = old \cup new
      /\ pending' \cap ready' = {} /\ pending' \cap w2 = {} /\ failing \cap (ready' \cup w2) = {}
  BY <1>2, <1>4, <1>5 DEF w, w2
<1>7. OneStage'
  BY <1>5, <1>6 DEF OneStage, w2
<1> QED BY <1>1, <1>7

(* A numbering of the input's beginning. *)
LEMMA BeginningFacts ==
    ASSUME NEW s \in Seq(1..Jobs), s = [i \in 1..Len(s) |-> i]
    PROVE  ToSet(s) = 1..Len(s) /\ Len(s) \in Nat
<1>1. Len(s) \in Nat /\ DOMAIN s = 1..Len(s)
  BY LenProperties
<1> DEFINE n == Len(s)
<1>2. \A i \in 1..n : s[i] = i
  OBVIOUS
<1> HIDE DEF n
<1> QED BY <1>1, <1>2 DEF ToSet, n

LEMMA CountBeginning ==
    ASSUME NEW s \in Seq(1..Jobs), s = [i \in 1..Len(s) |-> i]
    PROVE  Cardinality(ToSet(s)) = Len(s)
<1>1. ToSet(s) = 1..Len(s) /\ Len(s) \in Nat
  BY BeginningFacts
<1>2. Cardinality(1..Len(s)) = IF 1 > Len(s) THEN 0 ELSE Len(s) - 1 + 1
  BY <1>1, FS_Interval
<1> QED BY <1>1, <1>2

(* The first states. *)
LEMMA PoolBegins == PoolInit => PoolInv
<1>1. SUFFICES ASSUME PoolInit PROVE PoolInv
  OBVIOUS
<1> USE <1>1
<1>2. Jobs \in Nat /\ Limit \in Nat
  BY PoolsAssumption DEF Limit
<1>3. submitted \in {Jobs, Limit} /\ submitted <= Jobs /\ submitted <= Limit
  <2>1. {Jobs, Limit} \in SUBSET Nat
    BY <1>2
  <2>2. {Jobs, Limit} # {}
    OBVIOUS
  <2>3. Min({Jobs, Limit}) \in {Jobs, Limit} /\ \A y \in {Jobs, Limit} : Min({Jobs, Limit}) <= y
    BY <2>1, <2>2, MinOfNats
  <2> QED BY <2>3 DEF PoolInit
<1>4. written = <<>> /\ ToSet(written) = {} /\ Len(written) = 0 /\ written \in Seq(1..Jobs)
  BY DEF PoolInit, ToSet
<1>5. PoolTypeOK
  BY <1>2, <1>3, <1>4 DEF PoolInit, PoolTypeOK
<1>6. OneStage
  BY <1>4 DEF PoolInit, OneStage
<1>7. Cardinality(pending) = submitted
  <2>1. submitted \in Nat /\ pending = 1..submitted
    BY <1>2, <1>3 DEF PoolInit
  <2>2. Cardinality(1..submitted) = IF 1 > submitted THEN 0 ELSE submitted - 1 + 1
    BY <2>1, FS_Interval
  <2> QED BY <2>1, <2>2
<1>8. PoolFull
  BY <1>2, <1>3, <1>7 DEF PoolFull
<1>9. WrittenInOrder
  <2>1. Cardinality(ToSet(written)) = 0
    BY <1>4, FS_EmptySet
  <2>2. ready = {}
    BY DEF PoolInit
  <2>3. written = [i \in 1..Len(written) |-> i]
    BY <1>4
  <2> QED BY <1>4, <2>1, <2>2, <2>3 DEF WrittenInOrder
<1> QED BY <1>5, <1>6, <1>8, <1>9 DEF PoolInv, PoolInit

(* A worker is done. *)
LEMMA WorkerFinishesKeeps == PoolInv /\ WorkerFinishes => PoolInv'
<1>1. SUFFICES ASSUME PoolInv, WorkerFinishes PROVE PoolInv'
  OBVIOUS
<1>2. PICK i \in pending \ finished : finished' = finished \cup {i}
  BY <1>1 DEF WorkerFinishes
<1>3. UNCHANGED <<loop, failing, submitted, pending, ready, written, outcome>>
  BY <1>1 DEF WorkerFinishes
<1> QED BY <1>1, <1>2, <1>3 DEF PoolInv, PoolTypeOK, OneStage, WrittenInOrder, PoolFull, Limit

(* A job fails. *)
LEMMA FailKeeps == PoolInv /\ Fail => PoolInv'
<1>1. SUFFICES ASSUME PoolInv, Fail PROVE PoolInv'
  OBVIOUS
<1>2. written' \in Seq(1..Jobs)
  BY <1>1 DEF Fail
<1> QED BY <1>1, <1>2 DEF PoolInv, PoolTypeOK, Fail

(* The loop ends. *)
LEMMA LoopEndsKeeps == PoolInv /\ LoopEnds => PoolInv'
<1>1. SUFFICES ASSUME PoolInv, LoopEnds PROVE PoolInv'
  OBVIOUS
<1> QED BY <1>1 DEF PoolInv, PoolTypeOK, OneStage, WrittenInOrder, PoolFull, Limit, LoopEnds

(* The oldest result is written: it is the next one of the input.          *)
LEMMA TakeOldestKeeps == PoolInv /\ TakeOldest => PoolInv'
<1>1. SUFFICES ASSUME PoolInv, TakeOldest PROVE PoolInv'
  OBVIOUS
<1>2. CASE Min(pending) \in failing
  BY <1>1, <1>2, FailKeeps DEF TakeOldest
<1>3. CASE Min(pending) \notin failing
  <2> DEFINE m == Min(pending)
             n == Len(written)
  <2>1. /\ loop = "index" /\ outcome = "running" /\ pending # {} /\ m \in finished
        /\ written' = Append(written, m) /\ Submit({m}, 1) /\ UNCHANGED <<loop, failing, ready, outcome>>
    BY <1>1, <1>3 DEF TakeOldest
  <2>2. PoolTypeOK /\ OneStage /\ WrittenInOrder /\ PoolFull
    BY <1>1, <2>1 DEF PoolInv
  <2>3. submitted \in Nat /\ Jobs \in Nat /\ submitted <= Jobs /\ pending \subseteq 1..submitted /\ finished \subseteq pending
    BY <2>2, PoolsAssumption DEF PoolTypeOK, OneStage
  <2>4. m \in pending /\ \A y \in pending : m <= y
    <3>1. pending \in SUBSET Nat /\ pending # {}
      BY <2>1, <2>3
    <3> QED BY <3>1, MinOfNats
  <2>5. written \in Seq(1..Jobs) /\ written = [i \in 1..n |-> i] /\ ready = {} /\ ToSet(written) = 1..n /\ n \in Nat
    BY <2>1, <2>2, BeginningFacts DEF PoolTypeOK, WrittenInOrder
  <2>6. pending \cup (1..n) = 1..submitted /\ pending \cap (1..n) = {}
    BY <2>2, <2>5 DEF OneStage
  <2> HIDE DEF m, n
  <2>7. m = n + 1
    <3>1. m \in 1..submitted /\ m \notin 1..n
      BY <2>4, <2>6
    <3>2. n + 1 \in 1..submitted
      BY <2>3, <2>5, <3>1
    <3>3. n + 1 \in pending
      BY <2>5, <2>6, <3>2
    <3> QED BY <2>3, <2>4, <2>5, <3>1, <3>3
  <2>8. m \in 1..Jobs
    BY <2>3, <2>4
  <2>9. /\ written' \in Seq(1..Jobs) /\ Len(written') = n + 1 /\ DOMAIN written' = 1..(n + 1)
        /\ \A i \in 1..n : written'[i] = written[i]
        /\ written'[n + 1] = m
    <3>1. /\ written' \in Seq(1..Jobs) /\ Len(written') = n + 1
          /\ \A i \in 1..n : written'[i] = written[i]
          /\ written'[n + 1] = m
      BY <2>1, <2>5, <2>8, AppendProperties DEF n
    <3> QED BY <3>1, LenProperties
  <2>10. \A i \in 1..(n + 1) : written'[i] = i
    BY <2>5, <2>7, <2>9
  <2>11. written' = [i \in 1..Len(written') |-> i]
    <3>1. written' = [i \in 1..(n + 1) |-> written'[i]]
      <4>1. written' \in [1..(n + 1) -> 1..Jobs]
        BY <2>9, LenProperties
      <4> QED BY <4>1
    <3> QED BY <2>9, <2>10, <3>1
  <2>12. ToSet(written') = 1..(n + 1) /\ Cardinality(ToSet(written')) = Len(written')
    BY <2>9, <2>11, BeginningFacts, CountBeginning
  <2>13. {m} \in SUBSET finished /\ {m} \cap failing = {} /\ Cardinality({m}) = 1
    BY <1>3, <2>1, FS_Singleton DEF m
  <2>14. ready' \cup ToSet(written') = ready \cup ToSet(written) \cup {m} /\ ready' \cap ToSet(written') = {} /\ ready' = {}
    BY <2>1, <2>5, <2>7, <2>12
  <2>15. OneStage' /\ PoolFull' /\ submitted' \in 0..Jobs /\ finished' \subseteq pending'
    <3>1. Submit({m}, 1) /\ failing' = failing
      BY <2>1
    <3> QED BY <2>2, <2>13, <2>14, <3>1, StagesKept
  <2>16. PoolTypeOK'
    BY <2>1, <2>2, <2>9, <2>15 DEF PoolTypeOK
  <2>17. WrittenInOrder'
    BY <2>11, <2>12, <2>14 DEF WrittenInOrder
  <2> QED BY <2>1, <2>15, <2>16, <2>17 DEF PoolInv
<1> QED BY <1>2, <1>3

(* What Flushed() writes is a longer beginning of the input, all of it     *)
(* from the spool, and the next result is not there.                       *)
LEMMA FlushedFacts ==
    ASSUME NEW spool \in SUBSET (1..Jobs), NEW sofar \in Seq(1..Jobs),
           \A i \in 1..Len(sofar) : sofar[i] = i
    PROVE  LET f == Flushed(spool, sofar) IN
           /\ f \in Seq(1..Jobs) /\ f = [i \in 1..Len(f) |-> i] /\ Len(f) >= Len(sofar)
           /\ (Len(sofar) + 1)..Len(f) \subseteq spool /\ Len(f) + 1 \notin spool
<1> DEFINE n == Len(sofar)
           T == {k \in n..Jobs : (n + 1)..k \subseteq spool}
           last == Max(T)
           g == [i \in 1..(last - n) |-> n + i]
           f == Flushed(spool, sofar)
<1>1. n \in Nat /\ Jobs \in Nat /\ ToSet(sofar) = 1..n
  <2>1. sofar \in [1..Len(sofar) -> 1..Jobs]
    BY LenProperties
  <2>2. sofar = [i \in 1..Len(sofar) |-> i]
    BY <2>1
  <2> QED BY <2>2, PoolsAssumption, BeginningFacts
<1>2. n <= Jobs
  <2>1. ToSet(sofar) \subseteq 1..Jobs
    <3>1. DOMAIN sofar = 1..Len(sofar) /\ \A i \in 1..Len(sofar) : sofar[i] \in 1..Jobs
      BY LenProperties, Zenon
    <3> QED BY <3>1, Zenon DEF ToSet
  <2>2. n = 0 \/ n \in 1..Jobs
    BY <1>1, <2>1
  <2> QED BY <1>1, <2>2
<1>3. f = sofar \o g
  BY DEF Flushed
<1>4. sofar \in Seq(1..Jobs) /\ \A i \in 1..n : sofar[i] = i
  OBVIOUS
<1> HIDE DEF n, f
<1>5. last \in T /\ \A k \in T : last >= k
  <2>1. T \in SUBSET Nat
    BY <1>1
  <2>2. n \in T
    BY <1>1, <1>2
  <2>3. \A k \in T : k <= Jobs
    BY <1>1
  <2> HIDE DEF T
  <2> QED BY <1>1, <2>1, <2>2, <2>3, MaxOfNats
<1>6. last \in n..Jobs /\ (n + 1)..last \subseteq spool
  BY <1>5
<1>7. last + 1 \notin spool
  <2>1. SUFFICES ASSUME last + 1 \in spool PROVE FALSE
    OBVIOUS
  <2>2. last + 1 \in 1..Jobs
    BY <2>1
  <2>3. last + 1 \in n..Jobs
    BY <1>1, <1>6, <2>2
  <2>4. (n + 1)..(last + 1) \subseteq spool
    <3>1. \A x \in (n + 1)..(last + 1) : x \in (n + 1)..last \/ x = last + 1
      BY <1>1, <1>6
    <3> QED BY <1>6, <2>1, <3>1
  <2>5. last + 1 \in T
    BY <2>3, <2>4
  <2> QED BY <1>1, <1>5, <1>6, <2>5
<1> HIDE DEF T, last
<1>8. g \in Seq(1..Jobs) /\ Len(g) = last - n
  <2>1. last - n \in Nat /\ \A i \in 1..(last - n) : n + i \in 1..Jobs
    BY <1>1, <1>6
  <2>2. g \in [1..(last - n) -> 1..Jobs]
    BY <2>1
  <2> HIDE DEF g
  <2>3. g \in Seq(1..Jobs)
    <3> DEFINE k == last - n
    <3> HIDE DEF k
    <3>1. k \in Nat /\ g \in [1..k -> 1..Jobs]
      BY <2>1, <2>2 DEF k
    <3> QED BY <3>1, FunctionIsSeq, Zenon
  <2>4. DOMAIN g = 1..Len(g) /\ Len(g) \in Nat /\ DOMAIN g = 1..(last - n)
    BY <2>2, <2>3, LenProperties
  <2> QED BY <2>1, <2>3, <2>4
<1>9. /\ f \in Seq(1..Jobs) /\ Len(f) = last
      /\ \A i \in 1..last : f[i] = IF i <= n THEN sofar[i] ELSE g[i - n]
  <2>1. Len(f) = n + (last - n) /\ f \in Seq(1..Jobs)
        /\ \A i \in 1..(n + (last - n)) : f[i] = IF i <= n THEN sofar[i] ELSE g[i - n]
    <3> HIDE DEF g
    <3>1. /\ sofar \o g \in Seq(1..Jobs) /\ Len(sofar \o g) = Len(sofar) + Len(g)
          /\ \A i \in 1..(Len(sofar) + Len(g)) : (sofar \o g)[i] = IF i <= Len(sofar) THEN sofar[i] ELSE g[i - Len(sofar)]
      BY <1>4, <1>8, ConcatProperties, Zenon
    <3> QED BY <1>3, <1>8, <3>1, Zenon DEF n
  <2>2. n + (last - n) = last
    BY <1>1, <1>6
  <2> QED BY <2>1, <2>2
<1>10. \A i \in 1..last : f[i] = i
  <2>1. SUFFICES ASSUME NEW i \in 1..last PROVE f[i] = i
    OBVIOUS
  <2>2. CASE i <= n
    <3>1. i \in 1..n
      BY <1>1, <1>6, <2>2
    <3>2. f[i] = sofar[i]
      BY <1>9, <2>2
    <3> QED BY <1>4, <3>1, <3>2
  <2>3. CASE i > n
    <3>1. i - n \in 1..(last - n) /\ ~(i <= n) /\ n + (i - n) = i
      BY <1>1, <1>6, <2>3
    <3> QED BY <1>9, <3>1
  <2> QED BY <1>1, <1>6, <2>2, <2>3
<1>11. f = [i \in 1..Len(f) |-> i]
  <2>1. f \in [1..last -> 1..Jobs]
    BY <1>9, LenProperties
  <2>2. f = [i \in 1..last |-> f[i]]
    BY <2>1
  <2> QED BY <1>9, <1>10, <2>2
<1> QED BY <1>1, <1>6, <1>7, <1>9, <1>11 DEF f, n

(* The results there are go to the spool, and those whose turn it is are   *)
(* written.                                                                *)
LEMMA TakeDoneKeeps == PoolInv /\ TakeDone => PoolInv'
<1>1. SUFFICES ASSUME PoolInv, TakeDone PROVE PoolInv'
  OBVIOUS
<1>2. CASE finished \cap failing # {}
  BY <1>1, <1>2, FailKeeps DEF TakeDone
<1>3. CASE finished \cap failing = {}
  <2> DEFINE n == Len(written)
             spool == ready \cup finished
             f == Flushed(spool, written)
             m == Len(f)
  <2>1. /\ loop = "masks" /\ outcome = "running" /\ written' = f /\ ready' = spool \ ToSet(f)
        /\ Submit(finished, Cardinality(finished)) /\ UNCHANGED <<loop, failing, outcome>>
    BY <1>1, <1>3 DEF TakeDone
  <2>2. PoolTypeOK /\ OneStage /\ WrittenInOrder /\ PoolFull
    BY <1>1, <2>1 DEF PoolInv
  <2>3. submitted \in Nat /\ Jobs \in Nat /\ submitted <= Jobs /\ pending \subseteq 1..submitted /\ ready \subseteq 1..submitted /\ finished \subseteq pending
    BY <2>2, PoolsAssumption DEF PoolTypeOK, OneStage
  <2>4. spool \in SUBSET (1..Jobs)
    BY <2>3
  <2>5. written \in Seq(1..Jobs) /\ written = [i \in 1..n |-> i] /\ ToSet(written) = 1..n /\ n \in Nat
    BY <2>1, <2>2, BeginningFacts DEF PoolTypeOK, WrittenInOrder
  <2>6. f \in Seq(1..Jobs) /\ f = [i \in 1..m |-> i] /\ m >= n /\ (n + 1)..m \subseteq spool /\ m + 1 \notin spool
    <3>1. \A i \in 1..n : written[i] = i
      BY <2>5
    <3> QED BY <2>4, <2>5, <3>1, FlushedFacts
  <2>7. ToSet(f) = 1..m /\ m \in Nat /\ Cardinality(ToSet(f)) = m
    BY <2>6, BeginningFacts, CountBeginning
  <2> HIDE DEF n, m, f, spool
  <2>8. 1..m = (1..n) \cup (n + 1)..m
    BY <2>5, <2>6, <2>7
  <2>9. ready' \cup ToSet(written') = ready \cup ToSet(written) \cup finished /\ ready' \cap ToSet(written') = {}
    <3>1. ready' \cup ToSet(written') = spool \cup (1..m) /\ ready' \cap ToSet(written') = {}
      BY <2>1, <2>7
    <3>2. spool \cup (1..m) = spool \cup (1..n)
      BY <2>6, <2>8
    <3> QED BY <2>5, <3>1, <3>2 DEF spool
  <2>10. finished \in SUBSET finished /\ finished \cap failing = {} /\ Cardinality(finished) \in Nat
    <3>1. finished \in SUBSET (1..submitted)
      BY <2>3
    <3> QED BY <1>3, <2>3, <3>1, JobsFinite
  <2>11. OneStage' /\ PoolFull' /\ submitted' \in 0..Jobs /\ finished' \subseteq pending'
    <3>1. Submit(finished, Cardinality(finished)) /\ failing' = failing
      BY <2>1
    <3> QED BY <2>2, <2>9, <2>10, <3>1, StagesKept
  <2>12. PoolTypeOK'
    BY <2>1, <2>2, <2>6, <2>11 DEF PoolTypeOK
  <2>13. WrittenInOrder'
    <3>1. m + 1 \notin ready' /\ Len(written') = m
      BY <2>1, <2>6 DEF m
    <3>2. loop' = "masks"
      BY <2>1
    <3> QED BY <2>1, <2>6, <2>7, <3>1, <3>2 DEF WrittenInOrder
  <2> QED BY <2>1, <2>11, <2>12, <2>13 DEF PoolInv
<1> QED BY <1>2, <1>3

(* An order of the results there are has each of them once.                *)
LEMMA OrderFacts ==
    ASSUME NEW S \in SUBSET (1..Jobs), NEW order \in SetToSeqs(S)
    PROVE  order \in Seq(1..Jobs) /\ ToSet(order) = S /\ Len(order) = Cardinality(S)
<1> DEFINE k == Cardinality(S)
<1>1. IsFiniteSet(S) /\ k \in Nat
  BY PoolsAssumption, JobsFinite
<1>2. order \in [1..k -> S] /\ \A i, j \in 1..k : i # j => order[i] # order[j]
  BY Zenon DEF SetToSeqs
<1>3. Cardinality(1..k) = k
  <2> HIDE DEF k
  <2>1. Cardinality(1..k) = IF 1 > k THEN 0 ELSE k - 1 + 1
    BY <1>1, FS_Interval
  <2> QED BY <1>1, <2>1
<1> HIDE DEF k
<1>4. order \in Injection(1..k, S)
  <2>1. \A i, j \in 1..k : order[i] = order[j] => i = j
    BY <1>2
  <2>2. DOMAIN order = 1..k
    BY <1>2
  <2> QED BY <1>2, <2>1, <2>2, Zenon DEF Injection, IsInjective
<1>5. order \in Surjection(1..k, S)
  BY <1>1, <1>3, <1>4, FS_Injection DEF k
<1>6. ToSet(order) = S
  BY <1>2, <1>5, Zenon DEF Surjection, ToSet
<1>7. order \in [1..k -> 1..Jobs]
  BY <1>2
<1> QED BY <1>1, <1>6, <1>7, FunctionIsSeq DEF k

(* The results there are are written in some order.                        *)
LEMMA RepairKeeps == PoolInv /\ Repair => PoolInv'
<1>1. SUFFICES ASSUME PoolInv, Repair PROVE PoolInv'
  OBVIOUS
<1>2. CASE finished \cap failing # {}
  BY <1>1, <1>2, FailKeeps DEF Repair
<1>3. CASE finished \cap failing = {}
  <2>1. /\ loop = "repair" /\ outcome = "running"
        /\ Submit(finished, Limit - Cardinality(pending \ finished)) /\ UNCHANGED <<loop, failing, ready, outcome>>
    BY <1>1, <1>3 DEF Repair
  <2>2. PICK order \in SetToSeqs(finished) : written' = written \o order
    BY <1>1, <1>3 DEF Repair
  <2>3. PoolTypeOK /\ OneStage /\ WrittenInOrder /\ PoolFull
    BY <1>1, <2>1 DEF PoolInv
  <2>4. submitted \in Nat /\ Jobs \in Nat /\ submitted <= Jobs /\ pending \in SUBSET (1..submitted) /\ finished \subseteq pending
    BY <2>3, PoolsAssumption DEF PoolTypeOK, OneStage
  <2>5. /\ written \in Seq(1..Jobs) /\ ready = {} /\ Cardinality(ToSet(written)) = Len(written)
        /\ ToSet(written) \in SUBSET (1..submitted) /\ ToSet(written) \cap finished = {}
    BY <2>1, <2>3 DEF PoolTypeOK, WrittenInOrder, OneStage
  <2>6. order \in Seq(1..Jobs) /\ ToSet(order) = finished /\ Len(order) = Cardinality(finished)
    <3>1. finished \in SUBSET (1..Jobs)
      BY <2>4
    <3> QED BY <2>2, <3>1, OrderFacts
  <2>7. written' \in Seq(1..Jobs) /\ ToSet(written') = ToSet(written) \cup finished /\ Len(written') = Len(written) + Cardinality(finished)
    <3>1. /\ written \o order \in Seq(1..Jobs) /\ ToSet(written \o order) = ToSet(written) \cup ToSet(order)
          /\ Len(written \o order) = Len(written) + Len(order)
      BY <2>5, <2>6, ToSetConcat
    <3> QED BY <2>2, <2>6, <3>1
  <2>8. Cardinality(ToSet(written')) = Len(written')
    <3>1. finished \in SUBSET (1..submitted)
      BY <2>4
    <3>2. IsFiniteSet(finished) /\ IsFiniteSet(ToSet(written))
      BY <2>4, <2>5, <3>1, JobsFinite
    <3>3. Cardinality(ToSet(written) \cup finished) = Cardinality(ToSet(written)) + Cardinality(finished)
      BY <2>5, <3>2, CountDisjoint
    <3> QED BY <2>5, <2>7, <3>3
  <2> DEFINE c == Cardinality(pending \ finished)
  <2>9. Limit - c \in Nat
    <3>1. pending \ finished \in SUBSET (1..submitted) /\ pending \ finished \in SUBSET pending
      BY <2>4
    <3>2. IsFiniteSet(pending) /\ c \in Nat /\ Cardinality(pending) \in Nat
      BY <2>4, <3>1, JobsFinite
    <3>3. c <= Cardinality(pending)
      BY <3>1, <3>2, FS_Subset
    <3>4. Cardinality(pending) <= Limit /\ Limit \in Nat
      BY <2>3, PoolsAssumption DEF PoolFull, Limit
    <3> HIDE DEF c
    <3> QED BY <3>2, <3>3, <3>4
  <2>10. ready' \cup ToSet(written') = ready \cup ToSet(written) \cup finished /\ ready' \cap ToSet(written') = {} /\ ready' = {}
    BY <2>1, <2>5, <2>7
  <2>11. OneStage' /\ PoolFull' /\ submitted' \in 0..Jobs /\ finished' \subseteq pending'
    <3>1. Submit(finished, Limit - c) /\ failing' = failing /\ finished \in SUBSET finished
      BY <2>1
    <3> QED BY <1>3, <2>3, <2>9, <2>10, <3>1, StagesKept
  <2>12. PoolTypeOK'
    BY <2>1, <2>3, <2>7, <2>11 DEF PoolTypeOK
  <2>13. WrittenInOrder'
    BY <2>1, <2>8, <2>10 DEF WrittenInOrder
  <2> QED BY <2>1, <2>11, <2>12, <2>13 DEF PoolInv
<1> QED BY <1>2, <1>3

LEMMA PoolStepKeeps == PoolInv /\ [PoolNext]_poolVars => PoolInv'
<1>1. SUFFICES ASSUME PoolInv, [PoolNext]_poolVars PROVE PoolInv'
  OBVIOUS
<1>2. CASE UNCHANGED poolVars
  BY <1>1, <1>2 DEF poolVars, PoolInv, PoolTypeOK, OneStage, WrittenInOrder, PoolFull, Limit
<1>3. CASE PoolNext
  BY <1>1, <1>3, WorkerFinishesKeeps, TakeOldestKeeps, TakeDoneKeeps, RepairKeeps, LoopEndsKeeps DEF PoolNext
<1> QED BY <1>1, <1>2, <1>3

(* A loop that ended well has written everything.                          *)
LEMMA InPlaceByInv == PoolInv => ResultsInPlace
<1>1. SUFFICES ASSUME PoolInv PROVE ResultsInPlace
  OBVIOUS
<1>2. Jobs \in Nat /\ Limit \in Nat \ {0} /\ submitted \in Nat /\ submitted <= Jobs
  BY <1>1, PoolsAssumption DEF PoolInv, PoolTypeOK, Limit
<1>3. Cardinality(pending) <= Limit
  <2>1. CASE outcome = "failed"
    BY <1>1, <1>2, <2>1, FS_EmptySet DEF PoolInv
  <2>2. CASE outcome # "failed"
    BY <1>1, <2>2 DEF PoolInv, PoolFull
  <2> QED BY <2>1, <2>2
<1>4. ASSUME outcome = "done"
      PROVE  /\ ToSet(written) = 1..Jobs /\ Len(written) = Jobs /\ ready = {} /\ failing = {}
             /\ loop # "repair" => written = [i \in 1..Jobs |-> i]
  <2>1. PoolTypeOK /\ OneStage /\ WrittenInOrder /\ PoolFull /\ pending = {}
    BY <1>1, <1>4 DEF PoolInv
  <2>2. submitted = Jobs
    <3>1. Cardinality(pending) = 0
      BY <2>1, FS_EmptySet
    <3> QED BY <1>2, <2>1, <3>1 DEF PoolFull
  <2>3. ready \cup ToSet(written) = 1..Jobs /\ failing \subseteq 1..Jobs /\ failing \cap (ready \cup ToSet(written)) = {}
    BY <2>1, <2>2 DEF OneStage, PoolTypeOK
  <2>4. failing = {}
    BY <2>3
  <2>5. loop \in {"index", "masks", "repair"} /\ written \in Seq(1..Jobs)
    BY <2>1, PoolsAssumption DEF PoolTypeOK
  <2>6. CASE loop = "repair"
    <3>1. ready = {} /\ Cardinality(ToSet(written)) = Len(written)
      BY <2>1, <2>6 DEF WrittenInOrder
    <3>2. ToSet(written) = 1..Jobs
      BY <2>3, <3>1
    <3>3. Cardinality(1..Jobs) = IF 1 > Jobs THEN 0 ELSE Jobs - 1 + 1
      BY <1>2, FS_Interval
    <3>4. Len(written) = Jobs
      BY <1>2, <3>1, <3>2, <3>3
    <3> QED BY <2>4, <2>6, <3>1, <3>2, <3>4
  <2>7. CASE loop \in {"index", "masks"}
    <3> DEFINE n == Len(written)
    <3>1. written = [i \in 1..n |-> i] /\ n + 1 \notin ready
      BY <2>1, <2>7 DEF WrittenInOrder
    <3>2. ToSet(written) = 1..n /\ n \in Nat
      BY <2>5, <3>1, BeginningFacts
    <3> HIDE DEF n
    <3>3. n = Jobs
      <4>1. n <= Jobs
        <5>1. n = 0 \/ n \in 1..Jobs
          BY <2>3, <3>2
        <5> QED BY <1>2, <3>2, <5>1
      <4>2. n + 1 \notin 1..Jobs
        <5>1. n + 1 \notin 1..n /\ n + 1 \notin ready
          BY <3>1, <3>2 DEF n
        <5> QED BY <2>3, <3>2, <5>1
      <4> QED BY <1>2, <3>2, <4>1, <4>2
    <3>4. ready = {}
      BY <2>1, <2>3, <3>2, <3>3 DEF OneStage
    <3> QED BY <2>4, <3>1, <3>2, <3>3, <3>4 DEF n
  <2> QED BY <2>5, <2>6, <2>7
<1> QED BY <1>3, <1>4 DEF ResultsInPlace

(* A loop that ends well has taken every result once and no other, in the  *)
(* order of the input where the order matters, whatever workers do and     *)
(* however many there are (indexing.py, closing.py, tile_repair.py).       *)
THEOREM ResultsTakenInPlace == SpecPools => []ResultsInPlace
<1>1. SpecPools => []PoolInv
  BY PoolBegins, PoolStepKeeps, PTL DEF SpecPools
<1> QED BY <1>1, InPlaceByInv, PTL
=============================================================================
