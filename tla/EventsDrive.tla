----------------------------- MODULE EventsDrive -----------------------------
(***************************************************************************)
(* The panel's events drive (panel/src/events.js): the lineups of          *)
(* ephemeral sources are published as one shard per source in a drive that *)
(* is minted anew every few days, advertised by one record of the signed   *)
(* bee, and purged after a grace.  With it, what the panel does around it: *)
(* the syncs and removals of sources (sources.js), the verdicts of the     *)
(* liveness prober (liveness.js), the sweep of stray cores at boot         *)
(* (store.js), crashes, and a lost events-epoch.json.                      *)
(*                                                                         *)
(* An epoch is a drive; a path is a source and a revision; the content of  *)
(* a shard is the feed it was mapped from and one isLive flag.             *)
(***************************************************************************)
EXTENDS Integers, FiniteSets

CONSTANTS
  Sources,     \* the ephemeral sources
  Feeds,       \* what a provider may serve: a subset of Nat \ {0}
  Faulty,      \* the steps that may fail: "put", "index", "retire", "copy", "copyIndex", "purge"
  MaxEpoch,    \* bound: rotations
  MaxCrashes,  \* bound: crashes, with or without the loss of events-epoch.json
  MaxFaults,   \* bound: failed steps
  MaxChanges   \* bound: changes of a provider, removals and verdicts together

ASSUME FeedAssumption  == Feeds \subseteq Nat \ {0} /\ Feeds # {}
ASSUME BoundAssumption == MaxEpoch \in Nat \ {0} /\ {MaxCrashes, MaxFaults} \subseteq Nat /\ MaxChanges \in Nat

VARIABLES
  feed,        \* what each source's provider serves; 0: the source is not registered
  removing,    \* the sources whose removal has begun (enabled: false is on disk)
  fetched,     \* the feed a sync has read and not published yet; 0: none
  verdict,     \* what a liveness sweep found and has not applied yet
  up,
  state, lost, \* events-epoch.json, in memory and on disk; is the file gone
  shards,      \* _shards and _entries: the shard each source was last published as
  job,         \* the one mutation the chain is running
  drain,       \* the purge of retired epochs, which runs outside the chain
  cores,       \* the epochs whose cores are on disk
  files,       \* per epoch, the shards in the drive
  index,       \* per epoch, index.json
  pointer,     \* meta/eventsKey: the epoch advertised; 0: none
  born,        \* history: the revision the current epoch was minted at
  faults, crashes, changes

outside == <<feed, removing, fetched, verdict, changes>>
disk    == <<cores, files, index, pointer>>
used    == <<faults, crashes>>
vars    == <<outside, up, state, lost, shards, job, drain, disk, born, used>>

Epochs == 1..MaxEpoch

None    == [epoch |-> 0, rev |-> 0, pending |-> {}]
NoShard == [rev |-> 0, feed |-> 0, live |-> TRUE]
NoNames == [s \in Sources |-> 0]
NoIndex == [rev |-> 0, names |-> NoNames]
Idle    == [step |-> "idle"]
Still   == [on |-> FALSE]
NoVerdict == [feed |-> 0]

File(s, shard) == [src |-> s, rev |-> shard.rev, feed |-> shard.feed, live |-> shard.live]
At(e, s, r)    == {f \in files[e] : f.src = s /\ f.rev = r}

Fault(step) == step \in Faulty /\ faults < MaxFaults /\ faults' = faults + 1

Busy(s) == job.step # "idle" /\ job.src = s

-----------------------------------------------------------------------------
(* The providers, the syncs, the prober and the removals. *)

ProviderChanges(s) ==
  /\ changes < MaxChanges /\ changes' = changes + 1
  /\ s \notin removing
  /\ \E f \in Feeds \ {feed[s]} : feed' = [feed EXCEPT ![s] = f]
  /\ UNCHANGED <<removing, fetched, verdict, up, state, lost, shards, job, drain, disk, born, used>>

\* syncSource: one in flight per source, none while it is being removed.
Fetch(s) ==
  /\ up /\ feed[s] # 0 /\ s \notin removing /\ fetched[s] = 0
  /\ ~(Busy(s) /\ job.op = "publish")
  /\ fetched' = [fetched EXCEPT ![s] = feed[s]]
  /\ UNCHANGED <<feed, removing, verdict, changes, up, state, lost, shards, job, drain, disk, born, used>>

\* removeSource disables the source and waits for a sync in flight.
Remove(s) ==
  /\ up /\ feed[s] # 0 /\ s \notin removing /\ changes < MaxChanges
  /\ changes' = changes + 1
  /\ removing' = removing \union {s}
  /\ UNCHANGED <<feed, fetched, verdict, up, state, lost, shards, job, drain, disk, born, used>>

\* A sweep judges the url it found in the snapshot, and only a change counts.
Probe(s) ==
  /\ up /\ verdict = NoVerdict /\ shards[s].rev # 0 /\ changes < MaxChanges
  /\ changes' = changes + 1
  /\ verdict' = [src |-> s, feed |-> shards[s].feed, live |-> ~shards[s].live]
  /\ UNCHANGED <<feed, removing, fetched, up, state, lost, shards, job, drain, disk, born, used>>

-----------------------------------------------------------------------------
(* The chain: one mutation at a time. *)

Resting == up /\ job = Idle

StampedLive(s) == TRUE
\* isLive belongs to the prober: a sync carries it over.
CarriedLive(s) == shards[s].live

StartPublish(s) ==
  /\ Resting /\ fetched[s] # 0
  /\ job' = [op |-> "publish", src |-> s, feed |-> fetched[s], live |-> CarriedLive(s), prev |-> shards[s].rev,
             judged |-> 0, step |-> IF state.epoch = 0 THEN "mint" ELSE "compare"]
  /\ fetched' = [fetched EXCEPT ![s] = 0]
  /\ UNCHANGED <<feed, removing, verdict, changes, up, state, lost, shards, drain, disk, born, used>>

StaleUnchecked(v) == shards[v.src].rev = 0
\* applyLiveness: the verdict on a url the shard has no more is dropped.
Stale(v)          == shards[v.src].rev = 0 \/ shards[v.src].feed # v.feed

\* It writes what the shard has, with the flag of the verdict; the job remembers
\* what was judged.

StartVerdict ==
  /\ Resting /\ verdict # NoVerdict
  /\ verdict' = NoVerdict
  /\ job' = IF Stale(verdict) \/ shards[verdict.src].live = verdict.live THEN Idle
            ELSE [op |-> "verdict", src |-> verdict.src, feed |-> shards[verdict.src].feed,
                  live |-> verdict.live, prev |-> shards[verdict.src].rev,
                  judged |-> verdict.feed, step |-> "compare"]
  /\ UNCHANGED <<feed, removing, fetched, changes, up, state, lost, shards, drain, disk, born, used>>

Unpublished(s) == shards[s].rev = 0

\* dropSource forgets the shard, then writes the index, then frees the bytes.
StartDrop(s) ==
  /\ Resting /\ s \in removing /\ fetched[s] = 0
  /\ IF Unpublished(s)
     THEN /\ feed' = [feed EXCEPT ![s] = 0] /\ removing' = removing \ {s}
          /\ UNCHANGED <<shards, job>>
     ELSE /\ job' = [op |-> "drop", src |-> s, prev |-> shards[s].rev, step |-> "index"]
          /\ shards' = [shards EXCEPT ![s] = NoShard]
          /\ UNCHANGED <<feed, removing>>
  /\ UNCHANGED <<fetched, verdict, changes, up, state, lost, drain, disk, born, used>>

\* The hourly tick finds the epoch aged out.
StartRotate ==
  /\ Resting /\ state.epoch \in 1..(MaxEpoch - 1)
  /\ job' = [op |-> "rotate", src |-> "none", step |-> "mint"]
  /\ UNCHANGED <<outside, up, state, lost, shards, drain, disk, born, used>>

-----------------------------------------------------------------------------
(* Writing one shard. *)

Then(step) == job' = [job EXCEPT !.step = step]

SameEntry == shards[job.src].rev # 0 /\ shards[job.src].feed = job.feed /\ shards[job.src].live = job.live
\* What the drive holds, not what memory says it holds, decides a quiet sync.
SameBytes == \E f \in At(state.epoch, job.src, job.prev) : f.feed = job.feed /\ f.live = job.live

Compare ==
  /\ up /\ job.step = "compare"
  /\ IF SameBytes
     THEN job' = Idle /\ UNCHANGED state
     ELSE /\ state' = [state EXCEPT !.rev = @ + 1]
          /\ Then("put")
  /\ UNCHANGED <<outside, up, lost, shards, drain, disk, born, used>>

OverwrittenAndOld == At(state.epoch, job.src, state.rev) \union At(state.epoch, job.src, job.prev)
\* What is at the path already, which is nothing.
Overwritten       == At(state.epoch, job.src, state.rev)

PutShard ==
  /\ up /\ job.step = "put"
  /\ LET s   == job.src
         new == [rev |-> state.rev, feed |-> job.feed, live |-> job.live]
     IN  /\ files' = [files EXCEPT ![state.epoch] = (@ \ Overwritten) \union {File(s, new)}]
         /\ shards' = [shards EXCEPT ![s] = new]
         /\ Then("index")
  /\ UNCHANGED <<outside, up, state, lost, drain, cores, index, pointer, born, used>>

PutIndex ==
  /\ up /\ job.step = "index"
  /\ index' = [index EXCEPT ![state.epoch] = [rev |-> state.rev, names |-> [s \in Sources |-> shards[s].rev]]]
  /\ Then("retire")
  /\ UNCHANGED <<outside, up, state, lost, shards, drain, cores, files, pointer, born, used>>

\* The removed source leaves the registry once its shard is dropped.
Finished ==
  /\ job' = Idle
  /\ feed' = IF job.op = "drop" THEN [feed EXCEPT ![job.src] = 0] ELSE feed
  /\ removing' = IF job.op = "drop" THEN removing \ {job.src} ELSE removing
  /\ UNCHANGED <<fetched, verdict, changes>>

Retire ==
  /\ up /\ job.step = "retire"
  /\ files' = [files EXCEPT ![state.epoch] = @ \ At(state.epoch, job.src, job.prev)]
  /\ Finished
  /\ UNCHANGED <<up, state, lost, shards, drain, cores, index, pointer, born, used>>

\* A failed write rejects the call, and a removal puts enabled back; a failed
\* reclaim is swallowed.
WriteFails ==
  /\ up /\ job.step \in {"put", "index"} /\ Fault(job.step)
  /\ job' = Idle
  /\ removing' = IF job.op = "drop" THEN removing \ {job.src} ELSE removing
  /\ UNCHANGED <<feed, fetched, verdict, changes, up, state, lost, shards, drain, disk, born, crashes>>

RetireFails ==
  /\ up /\ job.step = "retire" /\ Fault("retire")
  /\ Finished
  /\ UNCHANGED <<up, state, lost, shards, drain, disk, born, crashes>>

-----------------------------------------------------------------------------
(* Epochs. *)

MintOpens ==
  /\ up /\ job.step = "mint"
  /\ cores' = cores \union {state.epoch + 1}
  /\ Then("save")
  /\ UNCHANGED <<outside, up, state, lost, shards, drain, files, index, pointer, born, used>>

OnlyLast == {state.epoch} \ {0}
\* The outgoing epoch joins those owed a purge.
Owed     == state.pending \union ({state.epoch} \ {0})

\* Revisions go on across epochs.
RevCarried == state.rev

MintSaves ==
  /\ up /\ job.step = "save"
  /\ state' = [epoch |-> state.epoch + 1, rev |-> RevCarried, pending |-> Owed]
  /\ born' = RevCarried
  /\ Then("advertise")
  /\ UNCHANGED <<outside, up, lost, shards, drain, disk, used>>

\* _advertise: the bee names the new epoch, then the old tree is copied.
Advertise ==
  /\ up /\ job.step = "advertise"
  /\ pointer' = state.epoch
  /\ job' = IF job.op = "publish" THEN [job EXCEPT !.step = "compare"]
            ELSE [op |-> "rotate", src |-> "none", step |-> "copy",
                  todo |-> files[state.epoch - 1], index |-> index[state.epoch - 1] # NoIndex]
  /\ UNCHANGED <<outside, up, state, lost, shards, drain, cores, files, index, born, used>>

Copying == up /\ job.step = "copy"

CopyShard ==
  /\ Copying
  /\ \E f \in job.todo :
       /\ job' = [job EXCEPT !.todo = @ \ {f}]
       /\ \/ files' = [files EXCEPT ![state.epoch] = @ \union {f}] /\ UNCHANGED faults
          \/ Fault("copy") /\ UNCHANGED files
  /\ UNCHANGED <<outside, up, state, lost, shards, drain, cores, index, pointer, born, crashes>>

CopyIndex ==
  /\ Copying /\ job.index
  /\ job' = [job EXCEPT !.index = FALSE]
  /\ \/ index' = [index EXCEPT ![state.epoch] = index[state.epoch - 1]] /\ UNCHANGED faults
     \/ Fault("copyIndex") /\ UNCHANGED index
  /\ UNCHANGED <<outside, up, state, lost, shards, drain, cores, files, pointer, born, crashes>>

CopyEnds ==
  /\ Copying /\ job.todo = {} /\ ~job.index
  /\ job' = Idle
  /\ UNCHANGED <<outside, up, state, lost, shards, drain, disk, born, used>>

\* Grace lasts hours, a rotation seconds: what a running one retires is in grace.
InGrace == IF job # Idle /\ job.op = "rotate" THEN {state.epoch - 1} ELSE {}

\* The retired epochs whose grace has passed.
StartDrain ==
  /\ up /\ drain = Still
  /\ \E over \in SUBSET (state.pending \ InGrace) \ {{}} :
       drain' = [on |-> TRUE, todo |-> over, purged |-> {}]
  /\ UNCHANGED <<outside, up, state, lost, shards, job, disk, born, used>>

\* A purge that throws leaves its epoch on the list.
Purge ==
  /\ up /\ drain.on
  /\ \E e \in drain.todo :
       \/ /\ drain' = [drain EXCEPT !.todo = @ \ {e}, !.purged = @ \union {e}]
          /\ cores' = cores \ {e}
          /\ files' = [files EXCEPT ![e] = {}]
          /\ index' = [index EXCEPT ![e] = NoIndex]
          /\ UNCHANGED faults
       \/ /\ Fault("purge")
          /\ drain' = [drain EXCEPT !.todo = @ \ {e}]
          /\ UNCHANGED <<cores, files, index>>
  /\ UNCHANGED <<outside, up, state, lost, shards, job, pointer, born, crashes>>

\* The live list is filtered, not the one the drain began with.
EndDrain ==
  /\ up /\ drain.on /\ drain.todo = {}
  /\ state' = [state EXCEPT !.pending = @ \ drain.purged]
  /\ drain' = Still
  /\ UNCHANGED <<outside, up, lost, shards, job, disk, born, used>>

-----------------------------------------------------------------------------
(* Crashes, boots, and a state file that is gone. *)

Crash ==
  /\ up /\ crashes < MaxCrashes /\ crashes' = crashes + 1
  /\ up' = FALSE /\ job' = Idle /\ drain' = Still
  /\ lost' \in {FALSE, state.epoch # 0}
  /\ fetched' = NoNames /\ verdict' = NoVerdict
  /\ shards' = [s \in Sources |-> NoShard]
  /\ UNCHANGED <<feed, removing, changes, state, disk, born, faults>>

\* The operator puts the file back, as the refusal to start asks.
RestoreFile ==
  /\ lost /\ lost' = FALSE
  /\ UNCHANGED <<outside, up, state, shards, job, drain, disk, born, used>>

\* No file is a first boot only when the bee advertises nothing either.
FirstBoot == pointer = 0

\* What is on disk and is neither open nor advertised goes with the sweep.
Sweep(open) ==
  /\ cores' = open \union (cores \intersect {pointer'})
  /\ files' = [e \in Epochs |-> IF e \in cores' THEN files[e] ELSE {}]
  /\ index' = [e \in Epochs |-> IF e \in cores' THEN index[e] ELSE NoIndex]

BootInert ==
  /\ ~up /\ (state.epoch = 0 \/ lost)
  /\ FirstBoot
  /\ up' = TRUE /\ lost' = FALSE /\ state' = None /\ UNCHANGED pointer
  /\ Sweep({})
  /\ UNCHANGED <<outside, shards, job, drain, born, used>>

Opened      == {state.epoch} \union state.pending

\* _loadIndex: a shard it cannot read is left out.
Loaded(s) ==
  LET found == At(state.epoch, s, index[state.epoch].names[s])
  IN  IF found = {} THEN NoShard
      ELSE LET f == CHOOSE g \in found : TRUE IN [rev |-> f.rev, feed |-> f.feed, live |-> f.live]

Larger(a, b) == IF a < b THEN b ELSE a

Resume ==
  /\ ~up /\ state.epoch # 0 /\ ~lost
  /\ up' = TRUE
  /\ pointer' = state.epoch
  /\ shards' = [s \in Sources |-> Loaded(s)]
  /\ state' = [state EXCEPT !.rev = Larger(@, index[state.epoch].rev)]
  /\ Sweep(Opened)
  /\ UNCHANGED <<outside, lost, job, drain, born, used>>

-----------------------------------------------------------------------------
Init ==
  /\ feed = [s \in Sources |-> CHOOSE f \in Feeds : TRUE] /\ removing = {} /\ fetched = NoNames /\ verdict = NoVerdict
  /\ up = TRUE /\ state = None /\ lost = FALSE
  /\ shards = [s \in Sources |-> NoShard] /\ job = Idle /\ drain = Still
  /\ cores = {} /\ pointer = 0 /\ born = 0
  /\ files = [e \in Epochs |-> {}] /\ index = [e \in Epochs |-> NoIndex]
  /\ faults = 0 /\ crashes = 0 /\ changes = 0

JobStep ==
  \/ Compare \/ PutShard \/ PutIndex \/ Retire
  \/ MintOpens \/ MintSaves \/ Advertise \/ CopyShard \/ CopyIndex \/ CopyEnds

DrainStep == StartDrain \/ Purge \/ EndDrain

Next ==
  \/ \E s \in Sources : ProviderChanges(s) \/ Fetch(s) \/ Remove(s) \/ Probe(s) \/ StartPublish(s) \/ StartDrop(s)
  \/ StartVerdict \/ StartRotate \/ JobStep \/ WriteFails \/ RetireFails
  \/ DrainStep
  \/ Crash \/ RestoreFile \/ BootInert \/ Resume

Spec == Init /\ [][Next]_vars

-----------------------------------------------------------------------------
(* Properties. *)

\* A shard written in the current epoch is there for as long as its index names
\* it, whatever write fails or crash comes between the put, the index and the
\* reclaim.
NamedIsReadable ==
  \A s \in Sources : state.epoch # 0 =>
    LET r == index[state.epoch].names[s]
    IN  r > born => At(state.epoch, s, r) # {}

\* No drive is forgotten: what is on disk is the current epoch, one still owed
\* a purge, or one being minted that the next boot sweeps.
NoOrphanEpoch == cores \subseteq {state.epoch, state.epoch + 1} \union state.pending

\* The isLive flag of a published source moves only by a verdict of the prober
\* on the very feed that is published, whatever was published between the probe
\* and the verdict; a sync that brings new urls, a rotation and a failed write
\* leave it alone.
FlagIsJudged ==
  [][\A s \in Sources :
       (up /\ up' /\ shards[s].rev # 0 /\ shards'[s].rev # 0 /\ shards[s].live # shards'[s].live)
         => /\ job.op = "verdict" /\ shards[s].feed = shards'[s].feed
            /\ job.judged = shards'[s].feed]_vars

Shown(s, f) ==
  pointer # 0 /\ \E g \in At(pointer, s, index[pointer].names[s]) : g.feed = f

\* A sync that succeeds, because it wrote or because the bytes were the same,
\* leaves viewers reading what it fetched: also after a rotation that skipped a
\* shard, a write that failed half-way, a reclaim that failed or a restart.
SyncedIsShown ==
  [][\A s \in Sources, f \in Feeds :
       (up /\ up' /\ job.step \in {"compare", "retire"} /\ job' = Idle
          /\ job.op = "publish" /\ job.src = s /\ job.feed = f) => Shown(s, f)']_vars

\* What a failed reclaim leaves behind goes with its epoch.
LeakEndsWithEpoch ==
  up /\ job = Idle /\ state.epoch # 0 =>
    \A f \in files[state.epoch] : f.rev <= born =>
      f.rev \in {shards[f.src].rev, index[state.epoch].names[f.src]}
=============================================================================
