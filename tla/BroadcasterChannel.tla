-------------------------- MODULE BroadcasterChannel --------------------------
(***************************************************************************)
(* The life of one disk-buffered channel (broadcaster/src/channel.js): its *)
(* starts and stops by several operators and by the resume pool of a boot, *)
(* changes of its source, hot rotations of its feed with the grace of the  *)
(* retired generation, the garbage collection of retired generations       *)
(* (core/store-gc.js), shutdown, crash and boot.                           *)
(*                                                                         *)
(* A feed key is a function of the generation it is derived from, so a     *)
(* generation stands for its cores on disk, its key and its topic.         *)
(***************************************************************************)
EXTENDS Naturals, FiniteSets

CONSTANTS
  Client,     \* callers of the control API; their requests overlap
  Pool,       \* the resume pool of a boot
  Faults,     \* subset of {"crash", "refuse", "breaks"}
  MaxGen,     \* bound: generations of the feed
  MaxSource,  \* bound: sources the channel is given, one after the other
  MaxOps,     \* bound: operations asked for
  MaxFaults   \* bound: faults

ASSUME BoundsAssumption ==
  MaxGen \in Nat \ {0} /\ MaxSource \in Nat \ {0} /\ MaxOps \in Nat /\ MaxFaults \in Nat
ASSUME CallerAssumption ==
  /\ Pool \notin Client /\ (Client \cup {Pool}) \cap {"close", "nobody"} = {}
  /\ Faults \subseteq {"crash", "refuse", "breaks"}

VARIABLES
  up,        \* the process: up, closing or down
  meta,      \* the channel as the manager holds it
  saved,     \* the channel in channels.json
  run,       \* the generation the run serves, 0 when there is no run
  playing,   \* the source ffmpeg was last spawned with
  old,       \* the generation a rotation retired: in its grace, or closing
  rot,       \* the rotation in flight
  down,      \* who tears the pipeline down: a caller, "close" or "nobody"
  store,     \* the Corestore of the channel: free, used, or left open by a failed start
  cores,     \* generations with cores on disk
  spoilt,    \* those of them a crash has truncated
  req,       \* the request each caller has in flight
  resume,    \* is the channel in the pool's queue
  link,      \* what the panel link is to say of the channel
  carried,   \* history: the sources each generation has carried
  aired,     \* history: generations the catalog was told to show live since
             \* the channel was added
  gone,      \* history: those of them whose cores were purged
  ops, faults

disk == <<saved, cores, spoilt>>
hist == <<carried, aired, gone>>
used == <<ops, faults>>
vars == <<up, meta, run, playing, old, rot, down, store, req, resume, link, disk, hist, used>>

Gen    == 1..MaxGen
Meta   == [reg : BOOLEAN, gen : Gen, src : 1..MaxSource, wanted : BOOLEAN]
Caller == Client \cup {Pool}

Idle      == [pc |-> "idle", gen |-> 0]
At(pc, g) == [pc |-> pc, gen |-> g]
NoRot     == [pc |-> "none", gen |-> 0, live |-> FALSE]
NoOld     == [pc |-> "none", gen |-> 0]
Silent    == [say |-> "nothing", gen |-> 0]
Say(what, g) == [say |-> what, gen |-> g]

CountOp  == ops < MaxOps /\ ops' = ops + 1 /\ UNCHANGED faults
Fault(f) == f \in Faults /\ faults < MaxFaults /\ faults' = faults + 1 /\ UNCHANGED ops

Answer(c) == req' = [req EXCEPT ![c] = Idle]

\* Every save writes the whole registry as it is held now.
SaveAs(mt) == meta' = mt /\ saved' = mt

Airs(g) == link' = Say("live", g) /\ aired' = aired \cup {g}

-----------------------------------------------------------------------------
(* The collection of retired generations. *)

\* What the collector spares: the cores of the drive that is served now.
Spared(g) == {g}

NeverWaits   == old.pc # "grace"
\* It stands down while a rotation runs or the retired generation is in its
\* grace.
MayCollect   == rot.pc = "none" /\ old.pc # "grace"

Purge(on, keep, show) ==
  /\ cores' = on \cap keep
  /\ spoilt' = spoilt \cap keep
  /\ gone' = gone \cup (show \cap (on \ keep))

PeriodicGc ==
  /\ run # 0 /\ MayCollect /\ cores # Spared(run)
  /\ Purge(cores, Spared(run), aired)
  /\ UNCHANGED <<up, meta, saved, run, playing, old, rot, down, store, req, resume, link, carried, aired, used>>

-----------------------------------------------------------------------------
(* Start, by a caller or by the pool. *)

Serving == up # "down"

StartAsked(c) ==
  /\ up = "up" /\ meta.reg /\ run = 0 /\ req[c] = Idle
  /\ CountOp
  /\ req' = [req EXCEPT ![c] = At("assert", 0)]
  /\ UNCHANGED <<up, meta, run, playing, old, rot, down, store, resume, link, disk, hist>>

\* The pool took its list when the process booted; a channel that runs by the
\* time its turn comes is refused as running already.
PoolStarts ==
  /\ up = "up" /\ resume
  /\ resume' = FALSE
  /\ req' = IF meta.reg /\ run = 0 THEN [req EXCEPT ![Pool] = At("assert", 0)] ELSE req
  /\ UNCHANGED <<up, meta, run, playing, old, rot, down, store, link, disk, hist, used>>

\* The encoder, the protocol or the port is not to be had.
StartRefused(c) ==
  /\ Serving /\ req[c].pc = "assert"
  /\ Fault("refuse")
  /\ Answer(c)
  /\ UNCHANGED <<up, meta, run, playing, old, rot, down, store, resume, link, disk, hist>>

\* The store opens for one holder at a time.
StoreOpens(c) ==
  /\ Serving /\ req[c].pc = "assert"
  /\ IF store = "free" THEN store' = "used" /\ req' = [req EXCEPT ![c] = At("drive", 0)]
                       ELSE UNCHANGED store /\ Answer(c)
  /\ UNCHANGED <<up, meta, run, playing, old, rot, down, resume, link, disk, hist, used>>

Unhealed(g) == g
\* The generation to open: the current one, or the next when that is spoilt.
Healed(g)   == IF g \in spoilt THEN g + 1 ELSE g

DriveOpens(c) ==
  /\ Serving /\ req[c].pc = "drive"
  /\ LET g == Healed(meta.gen)
     IN  /\ g \in Gen
         /\ meta' = [meta EXCEPT !.gen = g]
         /\ IF g \in spoilt
              THEN store' = "leaked" /\ Answer(c) /\ UNCHANGED cores
              ELSE /\ UNCHANGED store
                   /\ req' = [req EXCEPT ![c] = At("join", g)]
                   /\ cores' = cores \cup {g}
  /\ UNCHANGED <<up, run, playing, old, rot, down, resume, link, saved, spoilt, hist, used>>

\* Anything after the store was opened may fail, and nothing closes it.
StartBreaks(c) ==
  /\ Serving /\ req[c].pc = "join"
  /\ Fault("breaks")
  /\ Answer(c) /\ store' = "leaked"
  /\ UNCHANGED <<up, meta, run, playing, old, rot, down, resume, link, disk, hist>>

Started(mt) == [mt EXCEPT !.wanted = TRUE]

\* The topic is announced: the run is there, ffmpeg spawned, the orphans of
\* earlier runs are purged, the wish is saved and the catalog is to show it.
StartDone(c) ==
  /\ Serving /\ req[c].pc = "join"
  /\ LET g == req[c].gen
     IN  /\ run' = g
         /\ Purge(cores, Spared(g), aired)
         /\ Airs(g)
         /\ carried' = [carried EXCEPT ![g] = @ \cup {meta.src}]
  /\ playing' = meta.src
  /\ SaveAs(Started(meta))
  /\ Answer(c)
  /\ UNCHANGED <<up, old, rot, down, store, resume, used>>

-----------------------------------------------------------------------------
(* Stop, change of source, removal. *)

\* What a stop does before its first await: the run is gone, the grace timer
\* cancelled, a rotation in flight will find that its run is not the run.
Halt(who) ==
  /\ run' = 0 /\ old' = NoOld
  /\ rot' = [rot EXCEPT !.live = FALSE]
  /\ down' = who

StopAsked(c) ==
  /\ up = "up" /\ meta.reg /\ run # 0 /\ req[c] = Idle
  /\ CountOp
  /\ Halt(c)
  /\ req' = [req EXCEPT ![c] = At("stop", run)]
  /\ UNCHANGED <<up, meta, playing, store, resume, link, disk, hist>>

TornDown == down' = "nobody" /\ store' = "free" /\ rot' = NoRot

Stopped(mt)   == [mt EXCEPT !.wanted = FALSE]
NotWithdrawn(g) == link' = link
Withdraws(g)  == link' = Say("idle", g)

\* ffmpeg has exited or was killed, the swarm and the store are closed.
StopDone(c) ==
  /\ Serving /\ req[c].pc = "stop"
  /\ TornDown
  /\ SaveAs(Stopped(meta))
  /\ Withdraws(req[c].gen)
  /\ Answer(c)
  /\ UNCHANGED <<up, run, playing, old, resume, cores, spoilt, hist, used>>

\* A change of the source moves the feed to its next generation, from the next
\* start on.
Update ==
  /\ up = "up" /\ meta.reg /\ meta.src < MaxSource /\ meta.gen < MaxGen
  /\ CountOp
  /\ SaveAs([meta EXCEPT !.src = @ + 1, !.gen = @ + 1])
  /\ UNCHANGED <<up, run, playing, old, rot, down, store, cores, spoilt, req, resume, link, hist>>

\* The watchdog's next respawn takes the source from the registry.
Respawn ==
  /\ run # 0 /\ playing # meta.src
  /\ playing' = meta.src
  /\ carried' = [carried EXCEPT ![run] = @ \cup {meta.src}]
  /\ UNCHANGED <<up, meta, run, old, rot, down, store, req, resume, link, disk, aired, gone, used>>

\* The registry forgets the channel; its store stays on disk.
Remove ==
  /\ up = "up" /\ meta.reg /\ run = 0
  /\ CountOp
  /\ SaveAs([meta EXCEPT !.reg = FALSE])
  /\ UNCHANGED <<up, run, playing, old, rot, down, store, cores, spoilt, req, resume, link, hist>>

-----------------------------------------------------------------------------
(* Adding the channel, again: under the id of one that was removed it finds  *)
(* the store of that one, and is back at its first generation.               *)

New == [reg |-> TRUE, gen |-> 1, src |-> 1, wanted |-> FALSE]

\* Nothing of the channel that was removed is still on its way. (One that was
\* removed while it started may run on, known to nobody.)
Vacant == run = 0 /\ down = "nobody" /\ \A c \in Caller : req[c] = Idle

\* The manager holds the channel from here on; it is saved when its key is known.
\* What the removed channel has shown is history of another life.
AddAsked(c) ==
  /\ up = "up" /\ ~meta.reg /\ Vacant
  /\ CountOp
  /\ \E s \in meta.src..MaxSource : meta' = [New EXCEPT !.src = s]
  /\ req' = [req EXCEPT ![c] = At("add", 0)]
  /\ aired' = {} /\ gone' = {}
  /\ UNCHANGED <<up, run, playing, old, rot, down, store, resume, link, disk, carried>>

\* The drive is opened to learn its key. A core that cannot be read ends the
\* call with the store left open, and the channel held but not saved.
AddOpens(c) ==
  /\ Serving /\ req[c].pc = "add"
  /\ IF store # "free" THEN Answer(c) /\ UNCHANGED <<store, cores>>
     ELSE IF meta.gen \in spoilt THEN Answer(c) /\ store' = "leaked" /\ UNCHANGED cores
     ELSE /\ store' = "used" /\ cores' = cores \cup {meta.gen}
          /\ req' = [req EXCEPT ![c] = At("key", meta.gen)]
  /\ UNCHANGED <<up, meta, saved, run, playing, old, rot, down, spoilt, resume, link, hist, used>>

AddDone(c) ==
  /\ Serving /\ req[c].pc = "key"
  /\ store' = "free"
  /\ SaveAs(meta)
  /\ Answer(c)
  /\ UNCHANGED <<up, run, playing, old, rot, down, cores, spoilt, resume, link, hist, used>>

-----------------------------------------------------------------------------

\* Any other channel's operation writes the registry too.
OtherSaves ==
  /\ Serving /\ saved # meta
  /\ saved' = meta
  /\ UNCHANGED <<up, meta, run, playing, old, rot, down, store, cores, spoilt, req, resume, link, hist, used>>

-----------------------------------------------------------------------------
(* Rotation, asked for or due. *)

RotateBegins ==
  /\ Serving /\ run # 0 /\ MayCollect /\ meta.gen < MaxGen
  /\ CountOp
  /\ rot' = [pc |-> "mint", gen |-> meta.gen + 1, live |-> TRUE]
  /\ UNCHANGED <<up, meta, run, playing, old, down, store, req, resume, link, disk, hist>>

\* The next generation is opened and mirrors the window of the one served; a
\* core that cannot be read ends the rotation.
RotateMints ==
  /\ rot.pc = "mint"
  /\ IF rot.gen \in spoilt
       THEN rot' = NoRot /\ UNCHANGED <<cores, carried>>
       ELSE /\ cores' = cores \cup {rot.gen}
            /\ IF rot.live
                 THEN /\ rot' = [rot EXCEPT !.pc = "announce"]
                      /\ carried' = [carried EXCEPT ![rot.gen] = @ \cup {playing}]
                 ELSE rot' = NoRot /\ UNCHANGED carried
  /\ UNCHANGED <<up, meta, saved, spoilt, run, playing, old, down, store, req, resume, link, aired, gone, used>>

NotKept(g)  == NoOld
Retired(g)  == [pc |-> "grace", gen |-> g]
RotatedInMemory(mt) == mt
Rotated(mt) == [mt EXCEPT !.gen = rot.gen]

RotateCommits ==
  /\ rot.pc = "announce"
  /\ rot' = NoRot
  /\ IF rot.live
       THEN /\ run' = rot.gen
            /\ old' = Retired(run)
            /\ SaveAs(Rotated(meta))
            /\ Airs(rot.gen)
       ELSE UNCHANGED <<run, old, meta, saved, link, aired>>
  /\ UNCHANGED <<up, playing, down, store, cores, spoilt, req, resume, carried, gone, used>>

GraceEnds ==
  /\ old.pc = "grace"
  /\ old' = [old EXCEPT !.pc = "closing"]
  /\ UNCHANGED <<up, meta, run, playing, rot, down, store, req, resume, link, disk, hist, used>>

RetiredCloses ==
  /\ old.pc = "closing"
  /\ old' = NoOld
  /\ IF MayCollect THEN Purge(cores, Spared(run), aired) ELSE UNCHANGED <<cores, spoilt, gone>>
  /\ UNCHANGED <<up, meta, saved, run, playing, rot, down, store, req, resume, link, carried, aired, used>>

-----------------------------------------------------------------------------
(* Shutdown, crash, boot. *)

\* The control server is closed first; then what runs is stopped, of what the
\* registry holds.
Shutdown ==
  /\ up = "up"
  /\ CountOp
  /\ up' = "closing"
  /\ IF run # 0 /\ meta.reg THEN Halt("close") ELSE UNCHANGED <<run, old, rot, down>>
  /\ UNCHANGED <<meta, playing, store, req, resume, link, disk, hist>>

CloseDone ==
  /\ up = "closing" /\ down = "close"
  /\ TornDown
  /\ Withdraws(meta.gen)
  /\ UNCHANGED <<up, meta, run, playing, old, req, resume, disk, hist, used>>

Ends ==
  /\ up' = "down"
  /\ run' = 0 /\ playing' = 1 /\ old' = NoOld /\ rot' = NoRot /\ down' = "nobody"
  /\ store' = "free" /\ resume' = FALSE /\ link' = Silent
  /\ req' = [c \in Caller |-> Idle]

Exit ==
  /\ up = "closing" /\ down # "close"
  /\ Ends
  /\ UNCHANGED <<meta, disk, hist, used>>

\* The generations whose cores are open for writing.
Open == ({run, old.gen, rot.gen} \cup {req[c].gen : c \in {d \in Caller : req[d].pc # "idle"}}) \cap cores

\* A crash may truncate any core that is open.
Crash ==
  /\ Serving
  /\ Fault("crash")
  /\ Ends
  /\ \E S \in SUBSET Open : spoilt' = spoilt \cup S
  /\ UNCHANGED <<meta, saved, cores, hist>>

\* The boot reads the registry, withdraws what is not to run and queues the rest.
Boot ==
  /\ up = "down"
  /\ up' = "up"
  /\ meta' = saved
  /\ resume' = (saved.reg /\ saved.wanted)
  /\ link' = IF saved.reg /\ ~saved.wanted THEN Say("idle", saved.gen) ELSE Silent
  /\ UNCHANGED <<run, playing, old, rot, down, store, req, disk, hist, used>>

-----------------------------------------------------------------------------

Init ==
  /\ up = "up" /\ meta = New /\ saved = New
  /\ run = 0 /\ playing = 1 /\ old = NoOld /\ rot = NoRot /\ down = "nobody"
  /\ store = "free" /\ cores = {1} /\ spoilt = {}
  /\ req = [c \in Caller |-> Idle] /\ resume = FALSE /\ link = Say("idle", 1)
  /\ carried = [g \in Gen |-> {}] /\ aired = {} /\ gone = {}
  /\ ops = 0 /\ faults = 0

StartSteps(c) == StoreOpens(c) \/ DriveOpens(c) \/ StartDone(c)
AddSteps(c)   == AddOpens(c) \/ AddDone(c)
RotateSteps == RotateMints \/ RotateCommits \/ GraceEnds \/ RetiredCloses

Next ==
  \/ \E c \in Client : StartAsked(c) \/ StopAsked(c) \/ AddAsked(c) \/ AddSteps(c)
  \/ \E c \in Caller : StartSteps(c) \/ StartRefused(c) \/ StartBreaks(c) \/ StopDone(c)
  \/ PoolStarts \/ Update \/ Respawn \/ Remove \/ OtherSaves
  \/ RotateBegins \/ RotateSteps \/ PeriodicGc
  \/ Shutdown \/ CloseDone \/ Exit \/ Crash \/ Boot

\* What the event loop has begun it finishes, and the service manager boots a
\* process that ended; nobody owes a request, and no fault is due.
Fairness ==
  /\ \A c \in Caller : WF_vars(StartSteps(c)) /\ WF_vars(StopDone(c))
  /\ \A c \in Client : WF_vars(AddSteps(c))
  /\ WF_vars(PoolStarts) /\ WF_vars(RotateSteps)
  /\ WF_vars(CloseDone) /\ WF_vars(Exit) /\ WF_vars(Boot)

Spec == Init /\ [][Next]_vars /\ Fairness

-----------------------------------------------------------------------------
(* Properties. *)

\* The type invariant.
TypeOK ==
  /\ up \in {"up", "closing", "down"}
  /\ meta \in Meta /\ saved \in Meta
  /\ run \in Gen \cup {0} /\ playing \in 1..MaxSource
  /\ old \in [pc : {"none", "grace", "closing"}, gen : Gen \cup {0}]
  /\ rot \in [pc : {"none", "mint", "announce"}, gen : Gen \cup {0}, live : BOOLEAN]
  /\ down \in Caller \cup {"close", "nobody"} /\ store \in {"free", "used", "leaked"}
  /\ cores \subseteq Gen /\ spoilt \subseteq Gen
  /\ req \in [Caller -> [pc : {"idle", "assert", "drive", "join", "stop", "add", "key"}, gen : Gen \cup {0}]]
  /\ resume \in BOOLEAN
  /\ link \in [say : {"nothing", "live", "idle"}, gen : Gen \cup {0}]
  /\ carried \in [Gen -> SUBSET (1..MaxSource)] /\ aired \subseteq Gen /\ gone \subseteq Gen
  /\ ops \in Nat /\ faults \in Nat

\* The generations viewers may be reading, or a drive is open on: the one
\* served, the retired one in its grace, the one a rotation announces, the one
\* a start has opened.
Held == (IF run = 0 THEN {} ELSE {run})
        \cup (IF old.pc = "grace" THEN {old.gen} ELSE {})
        \cup (IF rot.pc = "announce" /\ rot.live THEN {rot.gen} ELSE {})
        \cup {req[c].gen : c \in {d \in Caller : req[d].pc = "join"}}

\* The collector (of a start, of a grace that ends, of the watchdog) never
\* deletes the cores of a generation that is held.
HeldIsKept == Held \subseteq cores

\* A generation the catalog has shown and whose cores were purged is never
\* opened again: its key is the same, its history would not be. That is while the
\* registry keeps the channel: one that is removed and added again is back at its
\* first generation, over the store that was kept, and aired and gone begin anew.
NoRebirth == gone \cap cores = {}

\* Nothing is on its way.
Quiet == up = "up" /\ ~resume /\ down = "nobody" /\ rot.pc = "none" /\ \A c \in Caller : req[c] = Idle

\* With nothing on its way, the panel link says that the channel is live
\* exactly while it runs, and names the generation the run serves.
CatalogFollows == Quiet => IF run = 0 THEN link.say # "live" ELSE link = Say("live", run)

\* While one run lasts, the catalog is moved to another generation only with
\* both of them served, and the one it is moved from stays served until its
\* grace has ended or the run.
CutOver == [][/\ (link.say = "live" /\ link'.say = "live" /\ link'.gen # link.gen /\ run = link.gen)
                   => {link.gen, link'.gen} \subseteq Held'
              /\ old.pc = "grace" => old' = old \/ old'.pc = "closing" \/ run' = 0]_vars

\* A channel that was to run when the process ended, and of whose cores at most
\* the current generation is spoilt, comes back, unless the process ends again
\* or somebody takes the channel away. No fault is to come: a start that fails
\* for another reason is repeated by nobody, and one that fails late leaves the
\* store open, so that no other can succeed.
Resumes == (resume /\ store # "leaked" /\ spoilt \subseteq {meta.gen} /\ meta.gen < MaxGen /\ faults = MaxFaults)
             ~> (run # 0 \/ up # "up" \/ ~meta.reg \/ ~meta.wanted)

\* A start brings a generation up that has carried no source but the one the
\* channel has now, so that no viewer replays what it cached of another.
FreshFeed == [][run = 0 /\ run' # 0 => carried[run'] \subseteq {meta.src}]_vars

=============================================================================
