-------------------------- MODULE EventsDriveProofs --------------------------
(***************************************************************************)
(* What the events drive promises for any number of sources, rotations,    *)
(* crashes and failing steps.                                              *)
(*                                                                         *)
(* The invariant follows a shard from the put to the index to the reclaim: *)
(* a revision is used once, what memory calls published is in the drive,   *)
(* and the index says what memory says but for the source the chain is     *)
(* just writing.                                                           *)
(***************************************************************************)
EXTENDS EventsDrive, TLAPS

Shard   == [rev : Nat, feed : Nat, live : BOOLEAN]
Indexes == [rev : Nat, names : [Sources -> Nat]]
OneFile == [src : Sources, rev : Nat \ {0}, feed : Nat, live : BOOLEAN]
Early   == {"mint", "save", "advertise", "compare", "put"}
Late    == {"index", "retire"}

Writes  == [op : {"publish", "verdict"}, src : Sources, feed : Nat, live : BOOLEAN, prev : Nat,
            judged : Nat, step : Early \union Late]
Drops   == [op : {"drop"}, src : Sources, prev : Nat, step : Late]
Turns   == [op : {"rotate"}, src : {"none"}, step : {"mint", "save", "advertise"}]
Copies  == [op : {"rotate"}, src : {"none"}, step : {"copy"}, todo : SUBSET OneFile, index : BOOLEAN]
Jobs    == {Idle} \union Writes \union Drops \union Turns \union Copies
Drains  == {Still} \union [on : {TRUE}, todo : SUBSET Epochs, purged : SUBSET Epochs]
Found   == [src : Sources, feed : Nat, live : BOOLEAN]

Shape ==
  /\ feed \in [Sources -> Nat] /\ fetched \in [Sources -> Nat]
  /\ verdict \in {NoVerdict} \union Found
  /\ up \in BOOLEAN /\ lost \in BOOLEAN
  /\ state \in [epoch : 0..MaxEpoch, rev : Nat, pending : SUBSET Epochs]
  /\ shards \in [Sources -> Shard]
  /\ job \in Jobs /\ drain \in Drains
  /\ cores \subseteq Epochs /\ files \in [Epochs -> SUBSET OneFile]
  /\ index \in [Epochs -> Indexes] /\ pointer \in 0..MaxEpoch /\ born \in Nat

\* Where the drives are: the current one, those before it that are owed a
\* purge, at most one begun; beyond the current one there is nothing yet.
Places ==
  /\ \A e \in state.pending : e < state.epoch
  /\ drain.on => drain.todo \union drain.purged \subseteq state.pending /\ drain.purged \intersect cores = {}
  /\ NoOrphanEpoch
  /\ \A e \in Epochs : e > state.epoch => files[e] = {} /\ index[e] = NoIndex
  /\ ~up => job = Idle /\ drain = Still /\ verdict = NoVerdict
  /\ (state.epoch = 0 \/ ~up) => \A s \in Sources : shards[s] = NoShard

\* What the running mutation may rely on.
Turned == job.step \in {"advertise", "copy"} /\ job.op = "rotate"
JobAt ==
  /\ job.step \in {"mint", "save"} => state.epoch < MaxEpoch
  /\ job.step \in {"mint", "save"} => IF job.op = "rotate" THEN state.epoch # 0 ELSE state.epoch = 0
  /\ job.step \in {"advertise", "compare", "put", "index", "retire", "copy"} => state.epoch # 0
  /\ Turned => state.epoch > 1 /\ state.rev = born
               /\ (drain.on => state.epoch - 1 \notin drain.todo \union drain.purged)
  /\ job.step = "advertise" => index[state.epoch] = NoIndex

Judged(j) == j.op = "verdict" => shards[j.src].feed = j.feed /\ j.judged = j.feed
Carried(j) == j.op = "publish" => shards[j.src].live = j.live
JobFits ==
  /\ job.step \in Early /\ job.op # "rotate" => job.prev = shards[job.src].rev /\ Judged(job) /\ Carried(job)
  /\ job.step \in {"mint", "save", "advertise"} /\ job.op # "rotate" => \A s \in Sources : shards[s] = NoShard
  /\ job.step \in {"mint", "save", "advertise"} => job.op # "verdict"
  /\ job.step = "put" => state.rev > job.prev
  /\ job.step \in Late =>
       IF job.op = "drop" THEN shards[job.src] = NoShard
       ELSE /\ shards[job.src] = [rev |-> shards[job.src].rev, feed |-> job.feed, live |-> job.live]
            /\ shards[job.src].rev > job.prev
            /\ File(job.src, shards[job.src]) \in files[state.epoch]
  /\ job.step = "retire" => index[state.epoch].names[job.src] = shards[job.src].rev

\* Revisions, and the files they name.
Filed(tree, s, r) == \E f \in tree : f.src = s /\ f.rev = r
Revs ==
  /\ \A s \in Sources : shards[s].rev <= state.rev
  /\ \A e \in Epochs : index[e].rev <= state.rev /\ \A s \in Sources : index[e].names[s] <= state.rev
  /\ state.epoch # 0 => \A s \in Sources :
       /\ shards[s].rev > born => Filed(files[state.epoch], s, shards[s].rev)
       /\ index[state.epoch].names[s] > born => Filed(files[state.epoch], s, index[state.epoch].names[s])

\* The index that speaks for what memory holds.
Speaks == IF (job.step = "advertise" /\ job.op = "rotate") \/ (job.step = "copy" /\ job.index)
          THEN state.epoch - 1 ELSE state.epoch
Agrees(s) ==
  shards[s].rev # 0 /\ ~(job.step = "index" /\ job.src = s) => index[Speaks].names[s] = shards[s].rev
IndexFits == {"index", "copyIndex"} \intersect Faulty = {} => \A s \in Sources : Agrees(s)

PointerFits == up /\ job.step # "advertise" => pointer = state.epoch

IInv == Shape /\ Places /\ JobAt /\ JobFits /\ Revs /\ IndexFits /\ PointerFits

-----------------------------------------------------------------------------
(* The records the variables hold. *)

LEMMA Bounds == MaxEpoch \in Nat \ {0} /\ Epochs = 1..MaxEpoch /\ Epochs \subseteq Nat
BY BoundAssumption DEF Epochs

LEMMA StateParts ==
  ASSUME Shape
  PROVE  /\ state.epoch \in 0..MaxEpoch /\ state.epoch \in Nat /\ state.rev \in Nat
         /\ state.pending \subseteq Epochs
         /\ state.epoch # 0 => state.epoch \in Epochs
BY Bounds DEF Shape

LEMMA ShardParts ==
  ASSUME Shape, NEW s \in Sources
  PROVE  /\ shards[s].rev \in Nat /\ shards[s].feed \in Nat /\ shards[s].live \in BOOLEAN
         /\ shards[s] = [rev |-> shards[s].rev, feed |-> shards[s].feed, live |-> shards[s].live]
         /\ shards[s] \in Shard
BY DEF Shape, Shard

LEMMA IndexParts ==
  ASSUME Shape, NEW e \in Epochs
  PROVE  /\ index[e].rev \in Nat /\ index[e] \in Indexes
         /\ \A s \in Sources : index[e].names[s] \in Nat
BY DEF Shape, Indexes

LEMMA FileParts ==
  ASSUME Shape, NEW e \in Epochs, NEW f \in files[e]
  PROVE  f \in OneFile /\ f.src \in Sources /\ f.rev \in Nat \ {0} /\ f.feed \in Nat /\ f.live \in BOOLEAN
         /\ f = [src |-> f.src, rev |-> f.rev, feed |-> f.feed, live |-> f.live]
<1>1. f \in OneFile BY DEF Shape
<1> QED BY <1>1 DEF OneFile

LEMMA Steps ==
  /\ Early = {"mint", "save", "advertise", "compare", "put"} /\ Late = {"index", "retire"}
  /\ Idle.step = "idle" /\ Idle.step \notin Early \union Late /\ Idle.step # "copy"
BY DEF Early, Late, Idle

LEMMA JobKinds ==
  ASSUME Shape
  PROVE  /\ job.step \in {"compare", "put"} => job \in Writes
         /\ job.step \in Late => job \in Writes \union Drops
         /\ job.step \in {"mint", "save", "advertise"} => job \in Writes \union Turns
         /\ job.step = "copy" => job \in Copies
         /\ job.step = "idle" => job = Idle
         /\ job.step \in {"idle", "copy"} \union Early \union Late
<1>1. job \in {Idle} \union Writes \union Drops \union Turns \union Copies
  BY DEF Shape, Jobs
<1>2. CASE job = Idle
  BY <1>2, Steps
<1>3. CASE job \in Writes
  BY <1>3 DEF Writes, Early, Late
<1>4. CASE job \in Drops
  BY <1>4 DEF Drops, Early, Late
<1>5. CASE job \in Turns
  BY <1>5 DEF Turns, Early, Late
<1>6. CASE job \in Copies
  BY <1>6 DEF Copies, Early, Late
<1> QED BY <1>1, <1>2, <1>3, <1>4, <1>5, <1>6

LEMMA WriteParts ==
  ASSUME NEW j \in Writes
  PROVE  /\ j.op \in {"publish", "verdict"} /\ j.src \in Sources /\ j.feed \in Nat
         /\ j.live \in BOOLEAN /\ j.prev \in Nat /\ j \in Jobs
         /\ j.op # "rotate" /\ j.op # "drop" /\ j # Idle
<1>1. j \in Jobs BY DEF Jobs
<1>2. j # Idle
  <2>1. "op" \in DOMAIN j BY DEF Writes
  <2>2. "op" \notin DOMAIN Idle BY DEF Idle
  <2> QED BY <2>1, <2>2
<1> QED BY <1>1, <1>2 DEF Writes

LEMMA WriteGoes ==
  ASSUME NEW j \in Writes, NEW st \in Early \union Late
  PROVE  LET k == [j EXCEPT !.step = st]
         IN /\ k \in Writes /\ k.op = j.op /\ k.src = j.src /\ k.feed = j.feed
            /\ k.live = j.live /\ k.prev = j.prev /\ k.judged = j.judged /\ k.step = st
BY DEF Writes

LEMMA DropGoes ==
  ASSUME NEW j \in Drops, NEW st \in Late
  PROVE  LET k == [j EXCEPT !.step = st]
         IN /\ k \in Drops /\ k.op = "drop" /\ k.op = j.op /\ k.src = j.src /\ k.src \in Sources
            /\ k.prev = j.prev /\ k.prev \in Nat /\ k.step = st /\ k \in Jobs
BY DEF Drops, Jobs

LEMMA TurnGoes ==
  ASSUME NEW j \in Turns, NEW st \in {"mint", "save", "advertise"}
  PROVE  LET k == [j EXCEPT !.step = st]
         IN k \in Turns /\ k.op = "rotate" /\ k.op = j.op /\ k.step = st /\ k \in Jobs
BY DEF Turns, Jobs

LEMMA NoShardParts == NoShard.rev = 0 /\ NoShard.live = TRUE /\ NoShard \in Shard
BY DEF NoShard, Shard

LEMMA NoIndexParts == NoIndex \in Indexes /\ NoIndex.rev = 0 /\ \A s \in Sources : NoIndex.names[s] = 0
BY DEF NoIndex, NoNames, Indexes

\* What is found at a path.
LEMMA AtParts ==
  ASSUME NEW e, NEW s, NEW r, NEW f
  PROVE  f \in At(e, s, r) <=> f \in files[e] /\ f.src = s /\ f.rev = r
BY DEF At

-----------------------------------------------------------------------------
(* The steps of the world around the drive change nothing of it. *)

LEMMA OutsideInv ==
  ASSUME IInv, UNCHANGED <<up, state, lost, shards, job, drain, disk, born>>,
         feed' \in [Sources -> Nat], fetched' \in [Sources -> Nat],
         verdict' \in {NoVerdict} \union Found, ~up => verdict' = NoVerdict
  PROVE  IInv'
<1>1. /\ up' = up /\ state' = state /\ lost' = lost /\ shards' = shards /\ job' = job /\ drain' = drain
      /\ cores' = cores /\ files' = files /\ index' = index /\ pointer' = pointer /\ born' = born
  BY DEF disk
<1>2. Shape'
  BY <1>1 DEF IInv, Shape
<1>3. Places'
  BY <1>1 DEF IInv, Places, NoOrphanEpoch
<1>4. JobAt'
  BY <1>1 DEF IInv, JobAt, Turned
<1>5. JobFits'
  BY <1>1 DEF IInv, JobFits, Judged, Carried
<1>6. Revs'
  BY <1>1 DEF IInv, Revs
<1>7. IndexFits'
  BY <1>1 DEF IInv, IndexFits, Agrees, Speaks
<1>8. PointerFits'
  BY <1>1 DEF IInv, PointerFits
<1> QED BY <1>2, <1>3, <1>4, <1>5, <1>6, <1>7, <1>8 DEF IInv

LEMMA WorldInv ==
  ASSUME IInv, NEW s \in Sources,
         ProviderChanges(s) \/ Fetch(s) \/ Remove(s) \/ Probe(s)
  PROVE  IInv'
<1>0. /\ feed \in [Sources -> Nat] /\ fetched \in [Sources -> Nat] /\ verdict \in {NoVerdict} \union Found
      /\ ~up => verdict = NoVerdict
  BY DEF IInv, Shape, Places
<1>1. CASE ProviderChanges(s)
  <2>1. feed' \in [Sources -> Nat]
    BY <1>0, <1>1, FeedAssumption DEF ProviderChanges
  <2> QED BY <1>0, <1>1, <2>1, OutsideInv DEF ProviderChanges
<1>2. CASE Fetch(s)
  <2>1. fetched' \in [Sources -> Nat]
    BY <1>0, <1>2 DEF Fetch
  <2> QED BY <1>0, <1>2, <2>1, OutsideInv DEF Fetch
<1>3. CASE Remove(s)
  BY <1>0, <1>3, OutsideInv DEF Remove
<1>4. CASE Probe(s)
  <2>1. verdict' \in Found
    BY <1>4, ShardParts DEF Probe, Found, IInv
  <2> QED BY <1>0, <1>4, <2>1, OutsideInv DEF Probe
<1> QED BY <1>1, <1>2, <1>3, <1>4

-----------------------------------------------------------------------------
(* A mutation begins. *)

\* A job that begins on a drive that is at rest.
LEMMA BeginsInv ==
  ASSUME IInv, Resting, UNCHANGED <<up, state, lost, shards, drain, disk, born>>,
         feed' = feed, fetched' \in [Sources -> Nat], verdict' \in {NoVerdict} \union Found,
         job' \in Jobs,
         job'.step \in {"idle", "mint", "compare"},
         job'.step # "idle" /\ job'.op # "rotate" =>
           job'.prev = shards[job'.src].rev /\ Judged(job') /\ Carried(job'),
         job'.step = "mint" => /\ job'.op # "verdict" /\ state.epoch < MaxEpoch
                               /\ IF job'.op = "rotate" THEN state.epoch # 0 ELSE state.epoch = 0,
         job'.step = "compare" => state.epoch # 0
  PROVE  IInv'
<1>1. /\ up' = up /\ state' = state /\ lost' = lost /\ shards' = shards /\ drain' = drain
      /\ cores' = cores /\ files' = files /\ index' = index /\ pointer' = pointer /\ born' = born
  BY DEF disk
<1>0. up /\ job = Idle /\ job.step = "idle"
  BY Steps DEF Resting
<1>2. Shape'
  BY <1>1 DEF IInv, Shape
<1>3. Places'
  BY <1>0, <1>1 DEF IInv, Places, NoOrphanEpoch
<1>4. JobAt'
  BY <1>1 DEF IInv, JobAt, Turned
<1>5. JobFits'
  BY <1>1 DEF IInv, JobFits, Judged, Carried, Early, Late, Places
<1>6. Revs'
  BY <1>1 DEF IInv, Revs
<1>7. IndexFits'
  BY <1>0, <1>1 DEF IInv, IndexFits, Agrees, Speaks
<1>8. PointerFits'
  BY <1>0, <1>1 DEF IInv, PointerFits
<1> QED BY <1>2, <1>3, <1>4, <1>5, <1>6, <1>7, <1>8 DEF IInv

LEMMA StartPublishInv == ASSUME IInv, NEW s \in Sources, StartPublish(s) PROVE IInv'
<1> DEFINE st == IF state.epoch = 0 THEN "mint" ELSE "compare"
           j  == [op |-> "publish", src |-> s, feed |-> fetched[s], live |-> CarriedLive(s),
                  prev |-> shards[s].rev, judged |-> 0, step |-> st]
<1>1. Resting /\ job' = j /\ fetched' = [fetched EXCEPT ![s] = 0]
  BY DEF StartPublish
<1>2. UNCHANGED <<up, state, lost, shards, drain, disk, born>> /\ feed' = feed /\ verdict' = verdict
  BY DEF StartPublish
<1>3. fetched' \in [Sources -> Nat] /\ fetched[s] \in Nat /\ verdict' \in {NoVerdict} \union Found
  BY <1>1, <1>2 DEF IInv, Shape
<1>4. CarriedLive(s) = shards[s].live /\ shards[s].live \in BOOLEAN /\ shards[s].rev \in Nat
  BY ShardParts DEF CarriedLive, IInv
<1>5. j \in Writes /\ j \in Jobs
  <2>1. st \in Early \union Late BY Steps
  <2> HIDE DEF st
  <2>2. j \in Writes BY <1>3, <1>4, <2>1 DEF Writes
  <2> QED BY <2>2 DEF Jobs
<1>6. /\ j.op = "publish" /\ j.prev = shards[j.src].rev /\ shards[j.src].live = j.live
      /\ j.step \in {"mint", "compare"}
      /\ j.step = "mint" => state.epoch = 0
      /\ j.step = "compare" => state.epoch # 0
  BY <1>4
<1>7. MaxEpoch > 0 BY Bounds
<1> HIDE DEF j
<1>8. /\ job' \in Jobs /\ job'.step \in {"idle", "mint", "compare"}
      /\ job'.prev = shards[job'.src].rev /\ Judged(job') /\ Carried(job')
      /\ job'.step = "mint" => job'.op # "verdict" /\ state.epoch < MaxEpoch /\ job'.op # "rotate" /\ state.epoch = 0
      /\ job'.step = "compare" => state.epoch # 0
  BY <1>1, <1>5, <1>6, <1>7 DEF Judged, Carried
<1> QED BY <1>1, <1>2, <1>3, <1>8, BeginsInv

LEMMA StartVerdictInv == ASSUME IInv, StartVerdict PROVE IInv'
<1> DEFINE v == verdict
           j == [op |-> "verdict", src |-> v.src, feed |-> shards[v.src].feed,
                 live |-> v.live, prev |-> shards[v.src].rev, judged |-> v.feed, step |-> "compare"]
<1>1. /\ Resting /\ v # NoVerdict /\ verdict' = NoVerdict
      /\ job' = IF Stale(v) \/ shards[v.src].live = v.live THEN Idle ELSE j
      /\ UNCHANGED <<up, state, lost, shards, drain, disk, born>> /\ feed' = feed /\ fetched' = fetched
  BY DEF StartVerdict
<1>2. v \in Found /\ v.src \in Sources /\ v.live \in BOOLEAN /\ v.feed \in Nat /\ fetched' \in [Sources -> Nat]
  BY <1>1 DEF IInv, Shape, Found
<1>3. CASE Stale(v) \/ shards[v.src].live = v.live
  <2>1. job' = Idle /\ job'.step = "idle" BY <1>1, <1>3, Steps
  <2>2. job' \in Jobs BY <2>1 DEF Jobs
  <2> QED BY <1>1, <1>2, <2>1, <2>2, BeginsInv
<1>4. CASE ~(Stale(v) \/ shards[v.src].live = v.live)
  <2>1. job' = j BY <1>1, <1>4
  <2>2. /\ shards[v.src].rev # 0 /\ shards[v.src].rev \in Nat /\ shards[v.src].feed \in Nat
        /\ shards[v.src].feed = v.feed
    BY <1>2, <1>4, ShardParts DEF Stale, IInv
  <2>3. state.epoch # 0
    BY <1>2, <2>2, NoShardParts DEF IInv, Places
  <2>4. j \in Writes
    BY <1>2, <2>2 DEF Writes, Early, Late
  <2>5. j \in Jobs BY <2>4 DEF Jobs
  <2>6. /\ j.op = "verdict" /\ j.prev = shards[j.src].rev /\ shards[j.src].feed = j.feed
        /\ j.step = "compare" /\ j.judged = j.feed
    BY <2>2
  <2> HIDE DEF j
  <2>7. Judged(job') /\ Carried(job')
    BY <2>1, <2>6 DEF Judged, Carried
  <2> QED BY <1>1, <1>2, <2>1, <2>3, <2>5, <2>6, <2>7, BeginsInv
<1> QED BY <1>3, <1>4

LEMMA StartRotateInv == ASSUME IInv, StartRotate PROVE IInv'
<1> DEFINE j == [op |-> "rotate", src |-> "none", step |-> "mint"]
<1>1. /\ Resting /\ job' = j /\ state.epoch \in 1..(MaxEpoch - 1)
      /\ UNCHANGED <<up, state, lost, shards, drain, disk, born>>
      /\ feed' = feed /\ fetched' = fetched /\ verdict' = verdict
  BY DEF StartRotate, outside
<1>2. j \in Turns BY DEF Turns
<1>3. j \in Jobs /\ j.op = "rotate" /\ j.step = "mint" BY <1>2 DEF Jobs
<1>4. state.epoch # 0 /\ state.epoch < MaxEpoch BY <1>1, Bounds
<1>5. fetched' \in [Sources -> Nat] /\ verdict' \in {NoVerdict} \union Found
  BY <1>1 DEF IInv, Shape
<1> HIDE DEF j
<1> QED BY <1>1, <1>3, <1>4, <1>5, BeginsInv

LEMMA StartDropInv == ASSUME IInv, NEW s \in Sources, StartDrop(s) PROVE IInv'
<1> DEFINE j == [op |-> "drop", src |-> s, prev |-> shards[s].rev, step |-> "index"]
<1>0. Resting /\ job = Idle /\ up /\ job.step = "idle" /\ shards[s].rev \in Nat
  BY Steps, ShardParts DEF StartDrop, Resting, IInv
<1>1. CASE Unpublished(s)
  <2>1. feed' = [feed EXCEPT ![s] = 0] /\ UNCHANGED <<shards, job>>
    BY <1>1 DEF StartDrop
  <2>2. UNCHANGED <<fetched, verdict, up, state, lost, drain, disk, born>>
    BY DEF StartDrop
  <2>3. feed' \in [Sources -> Nat] /\ fetched' \in [Sources -> Nat] /\ verdict' \in {NoVerdict} \union Found
    BY <2>1, <2>2 DEF IInv, Shape
  <2> QED BY <1>0, <2>1, <2>2, <2>3, OutsideInv
<1>2. CASE ~Unpublished(s)
  <2>1. /\ job' = j /\ shards' = [shards EXCEPT ![s] = NoShard] /\ feed' = feed
        /\ fetched' = fetched /\ verdict' = verdict /\ up' = up /\ state' = state /\ lost' = lost
        /\ drain' = drain /\ cores' = cores /\ files' = files /\ index' = index
        /\ pointer' = pointer /\ born' = born
    BY <1>2 DEF StartDrop, disk
  <2>2. state.epoch # 0
    BY <1>2, NoShardParts DEF Unpublished, IInv, Places
  <2>3. j \in Drops /\ j \in Jobs
    BY <1>0 DEF Drops, Jobs, Late
  <2>4. job'.op = "drop" /\ job'.src = s /\ job'.step = "index"
    BY <2>1
  <2> HIDE DEF j
  <2>5. \A t \in Sources : shards'[t] = (IF t = s THEN NoShard ELSE shards[t])
    BY <2>1 DEF IInv, Shape
  <2>6. Shape'
    <3>1. shards' \in [Sources -> Shard] BY <2>1, NoShardParts DEF IInv, Shape
    <3> QED BY <2>1, <2>3, <3>1 DEF IInv, Shape
  <2>7. Places'
    BY <1>0, <2>1, <2>2 DEF IInv, Places, NoOrphanEpoch
  <2>8. JobAt'
    BY <2>1, <2>2, <2>4 DEF IInv, JobAt, Turned
  <2>9. JobFits'
    BY <2>4, <2>5 DEF JobFits, Early, Late
  <2>10. Revs'
    <3>1. \A t \in Sources : shards'[t].rev <= state'.rev
      BY <2>1, <2>5, NoShardParts, StateParts DEF IInv, Revs
    <3>2. born \in Nat BY DEF IInv, Shape
    <3>3. \A t \in Sources : shards'[t].rev > born' => shards'[t] = shards[t]
      BY <2>1, <2>5, <3>2, NoShardParts
    <3> QED BY <2>1, <3>1, <3>3 DEF IInv, Revs
  <2>11. IndexFits'
    BY <1>0, <2>1, <2>4, <2>5, NoShardParts DEF IInv, IndexFits, Agrees, Speaks
  <2>12. PointerFits'
    BY <1>0, <2>1, <2>4 DEF IInv, PointerFits
  <2> QED BY <2>6, <2>7, <2>8, <2>9, <2>10, <2>11, <2>12 DEF IInv
<1> QED BY <1>1, <1>2

-----------------------------------------------------------------------------
(* Writing one shard. *)

LEMMA CompareInv == ASSUME IInv, Compare PROVE IInv'
<1>0. /\ up /\ job.step = "compare" /\ job \in Writes /\ state.epoch # 0
      /\ lost' = lost /\ shards' = shards /\ drain' = drain /\ up' = up /\ feed' = feed
      /\ fetched' = fetched /\ verdict' = verdict
      /\ cores' = cores /\ files' = files /\ index' = index /\ pointer' = pointer /\ born' = born
  BY JobKinds DEF Compare, IInv, JobAt, disk, outside
<1>s. state.rev \in Nat /\ state.epoch \in 0..MaxEpoch /\ state.pending \subseteq Epochs
  BY StateParts DEF IInv
<1>1. CASE SameBytes
  <2>1. job' = Idle /\ state' = state /\ job'.step = "idle"
    BY <1>1, Steps DEF Compare
  <2>2. Shape'
    <3>1. job' \in Jobs BY <2>1 DEF Jobs
    <3> QED BY <1>0, <2>1, <3>1 DEF IInv, Shape
  <2>3. Places'
    BY <1>0, <2>1 DEF IInv, Places, NoOrphanEpoch
  <2>4. JobAt'
    BY <2>1 DEF JobAt, Turned
  <2>5. JobFits'
    BY <2>1 DEF JobFits, Early, Late
  <2>6. Revs'
    BY <1>0, <2>1 DEF IInv, Revs
  <2>7. IndexFits'
    BY <1>0, <2>1 DEF IInv, IndexFits, Agrees, Speaks
  <2>8. PointerFits'
    BY <1>0, <2>1 DEF IInv, PointerFits
  <2> QED BY <2>2, <2>3, <2>4, <2>5, <2>6, <2>7, <2>8 DEF IInv
<1>2. CASE ~SameBytes
  <2>1. state' = [state EXCEPT !.rev = @ + 1] /\ job' = [job EXCEPT !.step = "put"]
    BY <1>2 DEF Compare, Then
  <2>2. /\ state'.epoch = state.epoch /\ state'.pending = state.pending /\ state'.rev = state.rev + 1
        /\ state' \in [epoch : 0..MaxEpoch, rev : Nat, pending : SUBSET Epochs]
    BY <1>s, <2>1 DEF IInv, Shape
  <2>3. /\ job' \in Writes /\ job'.op = job.op /\ job'.src = job.src /\ job'.feed = job.feed
        /\ job'.live = job.live /\ job'.prev = job.prev /\ job'.judged = job.judged /\ job'.step = "put"
    BY <1>0, <2>1, WriteGoes, Steps
  <2>4. job.src \in Sources /\ job.op \in {"publish", "verdict"} /\ job.op # "rotate"
    BY <1>0, WriteParts
  <2>5. job.prev = shards[job.src].rev /\ Judged(job) /\ Carried(job) /\ shards[job.src].rev <= state.rev
        /\ shards[job.src].rev \in Nat
    BY <1>0, <2>4, ShardParts DEF IInv, JobFits, Early, Revs
  <2>6. Shape'
    <3>1. job' \in Jobs BY <2>3 DEF Jobs
    <3> QED BY <1>0, <2>2, <3>1 DEF IInv, Shape
  <2>7. Places'
    BY <1>0, <2>2 DEF IInv, Places, NoOrphanEpoch
  <2>8. JobAt'
    BY <1>0, <2>2, <2>3, <2>4 DEF JobAt, Turned
  <2>9. JobFits'
    <3>1. job'.prev = shards'[job'.src].rev /\ Judged(job)' /\ Carried(job)'
      BY <1>0, <2>3, <2>5 DEF Judged, Carried
    <3>2. state'.rev > job'.prev
      BY <1>s, <2>2, <2>3, <2>5
    <3> QED BY <2>3, <3>1, <3>2 DEF JobFits, Early, Late
  <2>10. Revs'
    <3>1. \A s \in Sources : shards'[s].rev <= state'.rev
      <4> SUFFICES ASSUME NEW s \in Sources PROVE shards[s].rev <= state.rev + 1
        BY <1>0, <2>2
      <4>1. shards[s].rev \in Nat /\ shards[s].rev <= state.rev BY ShardParts DEF IInv, Revs
      <4> QED BY <1>s, <4>1
    <3>2. \A e \in Epochs : index'[e].rev <= state'.rev /\ \A s \in Sources : index'[e].names[s] <= state'.rev
      <4> SUFFICES ASSUME NEW e \in Epochs
                   PROVE  index[e].rev <= state.rev + 1 /\ \A s \in Sources : index[e].names[s] <= state.rev + 1
        BY <1>0, <2>2
      <4>1. /\ index[e].rev \in Nat /\ index[e].rev <= state.rev
            /\ \A s \in Sources : index[e].names[s] \in Nat /\ index[e].names[s] <= state.rev
        BY IndexParts DEF IInv, Revs
      <4> QED BY <1>s, <4>1
    <3> QED BY <1>0, <2>2, <3>1, <3>2 DEF IInv, Revs
  <2>11. IndexFits'
    BY <1>0, <2>2, <2>3 DEF IInv, IndexFits, Agrees, Speaks
  <2>12. PointerFits'
    BY <1>0, <2>2, <2>3 DEF IInv, PointerFits
  <2> QED BY <2>6, <2>7, <2>8, <2>9, <2>10, <2>11, <2>12 DEF IInv
<1> QED BY <1>1, <1>2

LEMMA PutShardInv == ASSUME IInv, PutShard PROVE IInv'
<1> DEFINE s   == job.src
           e   == state.epoch
           new == [rev |-> state.rev, feed |-> job.feed, live |-> job.live]
<1>0. /\ up /\ job.step = "put" /\ job \in Writes /\ e # 0 /\ e \in Epochs
      /\ lost' = lost /\ drain' = drain /\ up' = up /\ feed' = feed /\ state' = state
      /\ fetched' = fetched /\ verdict' = verdict
      /\ cores' = cores /\ index' = index /\ pointer' = pointer /\ born' = born
  BY JobKinds, StateParts DEF PutShard, IInv, JobAt, outside
<1>1. /\ files' = [files EXCEPT ![e] = (@ \ Overwritten) \union {File(s, new)}]
      /\ shards' = [shards EXCEPT ![s] = new]
      /\ job' = [job EXCEPT !.step = "index"]
  BY DEF PutShard, Then
<1>2. s \in Sources /\ job.op \in {"publish", "verdict"} /\ job.feed \in Nat /\ job.live \in BOOLEAN
      /\ job.prev \in Nat /\ job.op # "rotate" /\ job.op # "drop"
  BY <1>0, WriteParts
<1>3. state.rev > job.prev /\ state.rev \in Nat /\ state.rev # 0 /\ born \in Nat
  BY <1>0, <1>2, StateParts DEF IInv, JobFits, Shape
<1>4. new \in Shard /\ new.rev = state.rev /\ new.feed = job.feed /\ new.live = job.live
      /\ File(s, new) \in OneFile /\ File(s, new).src = s /\ File(s, new).rev = state.rev
  BY <1>2, <1>3 DEF Shard, File, OneFile
<1>5. /\ job' \in Writes /\ job'.op = job.op /\ job'.src = s /\ job'.feed = job.feed
      /\ job'.live = job.live /\ job'.prev = job.prev /\ job'.step = "index"
  BY <1>0, <1>1, WriteGoes, Steps
<1> HIDE DEF new
<1>6. \A t \in Sources : shards'[t] = (IF t = s THEN new ELSE shards[t])
  BY <1>1, <1>2 DEF IInv, Shape
<1>7. \A d \in Epochs : files'[d] = (IF d = e THEN (files[e] \ Overwritten) \union {File(s, new)} ELSE files[d])
  BY <1>0, <1>1 DEF IInv, Shape
<1>8. shards' \in [Sources -> Shard]
  BY <1>1, <1>2, <1>4 DEF IInv, Shape
<1>9. files' \in [Epochs -> SUBSET OneFile]
  <2>1. (files[e] \ Overwritten) \union {File(s, new)} \in SUBSET OneFile
    BY <1>0, <1>4 DEF IInv, Shape
  <2> QED BY <1>1, <2>1 DEF IInv, Shape
<1>10. Shape'
  <2>1. job' \in Jobs BY <1>5 DEF Jobs
  <2> QED BY <1>0, <1>8, <1>9, <2>1 DEF IInv, Shape
<1>11. Places'
  <2>1. \A d \in Epochs : d > state'.epoch => files'[d] = {} /\ index'[d] = NoIndex
    BY <1>0, <1>7, Bounds DEF IInv, Places
  <2> QED BY <1>0, <2>1 DEF IInv, Places, NoOrphanEpoch
<1>12. JobAt'
  BY <1>0, <1>5 DEF JobAt, Turned
<1>13. JobFits'
  <2>1. shards'[s] = new BY <1>2, <1>6
  <2>2. new = [rev |-> new.rev, feed |-> job.feed, live |-> job.live]
    BY <1>4 DEF new
  <2>3. File(s, new) \in files'[e] BY <1>0, <1>7
  <2>4. shards'[s].rev > job.prev BY <1>3, <1>4, <2>1
  <2> QED BY <1>0, <1>2, <1>5, <2>1, <2>2, <2>3, <2>4 DEF JobFits, Early, Late
<1>14. ASSUME NEW t \in Sources, NEW r, Filed(files[e], t, r)
       PROVE  Filed(files'[e], t, r)
  <2>1. PICK f \in files[e] : f.src = t /\ f.rev = r BY <1>14 DEF Filed
  <2>2. CASE f \in Overwritten
    <3>1. t = s /\ r = state.rev BY <2>1, <2>2 DEF Overwritten, At
    <3>2. File(s, new) \in files'[e] BY <1>0, <1>7
    <3> QED BY <1>4, <3>1, <3>2 DEF Filed
  <2>3. CASE f \notin Overwritten
    <3>1. f \in files'[e] BY <1>0, <1>7, <2>3
    <3> QED BY <2>1, <3>1 DEF Filed
  <2> QED BY <2>2, <2>3
<1>15. Revs'
  <2>1. \A t \in Sources : shards'[t].rev <= state'.rev
    BY <1>0, <1>3, <1>4, <1>6 DEF IInv, Revs
  <2>2. ASSUME NEW t \in Sources, shards'[t].rev > born'
        PROVE  Filed(files'[e], t, shards'[t].rev)
    <3>1. CASE t = s
      <4>1. File(s, new) \in files'[e] BY <1>0, <1>7
      <4>2. shards'[t].rev = state.rev BY <1>2, <1>4, <1>6, <3>1
      <4> QED BY <1>4, <3>1, <4>1, <4>2 DEF Filed
    <3>2. CASE t # s
      <4>1. shards'[t] = shards[t] BY <1>6, <3>2
      <4>2. Filed(files[e], t, shards[t].rev) BY <1>0, <2>2, <4>1 DEF IInv, Revs
      <4> QED BY <1>14, <4>1, <4>2
    <3> QED BY <3>1, <3>2
  <2>3. ASSUME NEW t \in Sources, index'[e].names[t] > born'
        PROVE  Filed(files'[e], t, index'[e].names[t])
    <3>1. Filed(files[e], t, index[e].names[t]) BY <1>0, <2>3 DEF IInv, Revs
    <3> QED BY <1>0, <1>14, <3>1
  <2> QED BY <1>0, <2>1, <2>2, <2>3 DEF IInv, Revs
<1>16. IndexFits'
  BY <1>0, <1>5, <1>6 DEF IInv, IndexFits, Agrees, Speaks
<1>17. PointerFits'
  BY <1>0, <1>5 DEF IInv, PointerFits
<1> QED BY <1>10, <1>11, <1>12, <1>13, <1>15, <1>16, <1>17 DEF IInv

LEMMA LateParts ==
  ASSUME IInv, job.step \in Late
  PROVE  /\ job.src \in Sources /\ job.op \in {"publish", "verdict", "drop"} /\ job.op # "rotate"
         /\ job \in Writes \union Drops /\ job.prev \in Nat
         /\ state.epoch \in Epochs /\ state.epoch # 0
         /\ job.op # "drop" => shards[job.src].rev > job.prev
         /\ job.op = "drop" => shards[job.src] = NoShard
<1>1. job \in Writes \union Drops BY JobKinds DEF IInv
<1>2. job.src \in Sources /\ job.op \in {"publish", "verdict", "drop"} /\ job.op # "rotate" /\ job.prev \in Nat
  BY <1>1 DEF Writes, Drops
<1>3. state.epoch \in Epochs /\ state.epoch # 0
  BY StateParts, Steps DEF IInv, JobAt
<1> QED BY <1>1, <1>2, <1>3 DEF IInv, JobFits

LEMMA PutIndexInv == ASSUME IInv, PutIndex PROVE IInv'
<1> DEFINE e   == state.epoch
           new == [rev |-> state.rev, names |-> [s \in Sources |-> shards[s].rev]]
<1>0. /\ up /\ job.step = "index"
      /\ lost' = lost /\ drain' = drain /\ up' = up /\ feed' = feed /\ state' = state
      /\ fetched' = fetched /\ verdict' = verdict /\ shards' = shards
      /\ cores' = cores /\ files' = files /\ pointer' = pointer /\ born' = born
      /\ index' = [index EXCEPT ![e] = new] /\ job' = [job EXCEPT !.step = "retire"]
  BY DEF PutIndex, outside, Then
<1>1. job.src \in Sources /\ e \in Epochs /\ e # 0 /\ job \in Writes \union Drops /\ job.op # "rotate"
  BY <1>0, LateParts, Steps
<1>2. /\ job' \in Jobs /\ job'.op = job.op /\ job'.src = job.src /\ job'.prev = job.prev /\ job'.step = "retire"
      /\ job.op # "drop" => job'.feed = job.feed /\ job'.live = job.live
  <2>1. CASE job \in Writes BY <1>0, <2>1, WriteGoes, Steps DEF Jobs
  <2>2. CASE job \in Drops
    <3>1. "retire" \in Late BY Steps
    <3>2. /\ job' \in Jobs /\ job'.op = "drop" /\ job'.op = job.op /\ job'.src = job.src
          /\ job'.prev = job.prev /\ job'.step = "retire"
      BY <1>0, <2>2, <3>1, DropGoes
    <3> QED BY <3>2
  <2> QED BY <1>1, <2>1, <2>2
<1>3. /\ new \in Indexes /\ new.rev = state.rev /\ \A s \in Sources : new.names[s] = shards[s].rev
  <2>1. [s \in Sources |-> shards[s].rev] \in [Sources -> Nat] BY ShardParts DEF IInv
  <2>2. state.rev \in Nat BY StateParts DEF IInv
  <2> QED BY <2>1, <2>2 DEF Indexes
<1> HIDE DEF new
<1>4. \A d \in Epochs : index'[d] = (IF d = e THEN new ELSE index[d])
  BY <1>0, <1>1 DEF IInv, Shape
<1>5. Shape'
  <2>1. index' \in [Epochs -> Indexes] BY <1>0, <1>3 DEF IInv, Shape
  <2> QED BY <1>0, <1>2, <2>1 DEF IInv, Shape
<1>6. Places'
  <2>1. \A d \in Epochs : d > state'.epoch => files'[d] = {} /\ index'[d] = NoIndex
    BY <1>0, <1>4, Bounds DEF IInv, Places
  <2> QED BY <1>0, <2>1 DEF IInv, Places, NoOrphanEpoch
<1>7. JobAt'
  BY <1>0, <1>1, <1>2 DEF JobAt, Turned
<1>8. JobFits'
  BY <1>0, <1>1, <1>2, <1>3, <1>4 DEF IInv, JobFits, Early, Late
<1>9. Revs'
  <2>1. \A d \in Epochs : index'[d].rev <= state'.rev /\ \A s \in Sources : index'[d].names[s] <= state'.rev
    BY <1>0, <1>3, <1>4, StateParts DEF IInv, Revs
  <2>2. \A s \in Sources : index'[e].names[s] > born => Filed(files[e], s, index'[e].names[s])
    BY <1>1, <1>3, <1>4 DEF IInv, Revs
  <2> QED BY <1>0, <2>1, <2>2 DEF IInv, Revs
<1>10. IndexFits'
  BY <1>0, <1>1, <1>2, <1>3, <1>4 DEF IndexFits, Agrees, Speaks
<1>11. PointerFits'
  BY <1>0, <1>2 DEF IInv, PointerFits
<1> QED BY <1>5, <1>6, <1>7, <1>8, <1>9, <1>10, <1>11 DEF IInv

\* A mutation ends with less in the drive, and the index and memory as they were.
LEMMA EndsInv ==
  ASSUME IInv, up, job' = Idle, UNCHANGED <<up, state, lost, shards, drain, cores, index, pointer, born>>,
         fetched' = fetched, verdict' = verdict, feed' \in [Sources -> Nat],
         files' \in [Epochs -> SUBSET OneFile],
         \A d \in Epochs : files'[d] \subseteq files[d],
         state.epoch # 0 => \A s \in Sources :
           /\ shards[s].rev > born /\ Filed(files[state.epoch], s, shards[s].rev)
                => Filed(files'[state.epoch], s, shards[s].rev)
           /\ index[state.epoch].names[s] > born /\ Filed(files[state.epoch], s, index[state.epoch].names[s])
                => Filed(files'[state.epoch], s, index[state.epoch].names[s]),
         job.step # "advertise", job.step # "copy",
         job.step = "index" => {"index", "copyIndex"} \intersect Faulty # {}
  PROVE  IInv'
<1>0. /\ up' = up /\ state' = state /\ lost' = lost /\ shards' = shards /\ drain' = drain /\ cores' = cores
      /\ index' = index /\ pointer' = pointer /\ born' = born /\ job'.step = "idle" /\ job' \in Jobs
  BY Steps DEF Jobs
<1>1. Shape'
  BY <1>0 DEF IInv, Shape
<1>2. Places'
  <2>1. \A d \in Epochs : d > state.epoch => files'[d] = {}
    BY DEF IInv, Places
  <2> QED BY <1>0, <2>1 DEF IInv, Places, NoOrphanEpoch
<1>3. JobAt'
  BY <1>0 DEF JobAt, Turned
<1>4. JobFits'
  BY <1>0 DEF JobFits, Early, Late
<1>5. Revs'
  BY <1>0 DEF IInv, Revs
<1>6. IndexFits'
  BY <1>0 DEF IInv, IndexFits, Agrees, Speaks
<1>7. PointerFits'
  BY <1>0 DEF IInv, PointerFits
<1> QED BY <1>1, <1>2, <1>3, <1>4, <1>5, <1>6, <1>7 DEF IInv

LEMMA FinishedParts ==
  ASSUME IInv, Finished
  PROVE  job' = Idle /\ feed' \in [Sources -> Nat] /\ fetched' = fetched /\ verdict' = verdict
BY DEF Finished, IInv, Shape

LEMMA RetireInv == ASSUME IInv, Retire PROVE IInv'
<1> DEFINE e == state.epoch
<1>0. /\ up /\ job.step = "retire" /\ Finished
      /\ files' = [files EXCEPT ![e] = @ \ At(e, job.src, job.prev)]
      /\ UNCHANGED <<up, state, lost, shards, drain, cores, index, pointer, born>>
  BY DEF Retire
<1>1. /\ job.src \in Sources /\ e \in Epochs /\ job.prev \in Nat
      /\ job.op # "drop" => shards[job.src].rev > job.prev
      /\ job.op = "drop" => shards[job.src] = NoShard
      /\ index[e].names[job.src] = shards[job.src].rev
  BY <1>0, LateParts, Steps DEF IInv, JobFits
<1>2. \A d \in Epochs : files'[d] = (IF d = e THEN files[e] \ At(e, job.src, job.prev) ELSE files[d])
  BY <1>0, <1>1 DEF IInv, Shape
<1>3. files' \in [Epochs -> SUBSET OneFile] /\ \A d \in Epochs : files'[d] \subseteq files[d]
  BY <1>0, <1>2 DEF IInv, Shape
<1>4. ASSUME NEW s \in Sources, NEW r \in Nat, Filed(files[e], s, r), s = job.src => r # job.prev
      PROVE  Filed(files'[e], s, r)
  <2>1. PICK f \in files[e] : f.src = s /\ f.rev = r BY <1>4 DEF Filed
  <2>2. f \notin At(e, job.src, job.prev) BY <1>4, <2>1 DEF At
  <2>3. f \in files'[e] BY <1>1, <1>2, <2>2
  <2> QED BY <2>1, <2>3 DEF Filed
<1>5. shards[job.src].rev > born => shards[job.src].rev # job.prev
  <2>1. born \in Nat /\ shards[job.src].rev \in Nat BY <1>1, ShardParts DEF IInv, Shape
  <2>2. CASE job.op = "drop" BY <1>1, <2>1, <2>2, NoShardParts
  <2>3. CASE job.op # "drop" BY <1>1, <2>1, <2>3
  <2> QED BY <2>2, <2>3
<1>6. ASSUME NEW s \in Sources
      PROVE  /\ shards[s].rev > born /\ Filed(files[e], s, shards[s].rev) => Filed(files'[e], s, shards[s].rev)
             /\ index[e].names[s] > born /\ Filed(files[e], s, index[e].names[s])
                  => Filed(files'[e], s, index[e].names[s])
  <2>1. shards[s].rev \in Nat /\ index[e].names[s] \in Nat BY <1>1, ShardParts, IndexParts DEF IInv
  <2>2. shards[s].rev > born /\ s = job.src => shards[s].rev # job.prev BY <1>5
  <2>3. index[e].names[s] > born /\ s = job.src => index[e].names[s] # job.prev BY <1>1, <1>5
  <2> QED BY <1>4, <2>1, <2>2, <2>3
<1>7. /\ job' = Idle /\ fetched' = fetched /\ verdict' = verdict /\ feed' \in [Sources -> Nat]
      /\ job.step # "advertise" /\ job.step # "copy" /\ job.step # "index"
  BY <1>0, FinishedParts
<1> QED BY <1>0, <1>3, <1>6, <1>7, EndsInv

LEMMA RetireFailsInv == ASSUME IInv, RetireFails PROVE IInv'
<1>0. /\ up /\ job.step = "retire" /\ Finished /\ files' = files
      /\ UNCHANGED <<up, state, lost, shards, drain, cores, index, pointer, born>>
  BY DEF RetireFails, disk
<1>1. files' \in [Epochs -> SUBSET OneFile] BY <1>0 DEF IInv, Shape
<1>2. /\ job' = Idle /\ fetched' = fetched /\ verdict' = verdict /\ feed' \in [Sources -> Nat]
      /\ job.step # "advertise" /\ job.step # "copy" /\ job.step # "index"
  BY <1>0, FinishedParts
<1> QED BY <1>0, <1>1, <1>2, EndsInv

LEMMA WriteFailsInv == ASSUME IInv, WriteFails PROVE IInv'
<1>0. /\ up /\ job.step \in {"put", "index"} /\ files' = files /\ job' = Idle /\ job.step \in Faulty
      /\ fetched' = fetched /\ verdict' = verdict /\ feed' = feed
      /\ UNCHANGED <<up, state, lost, shards, drain, cores, index, pointer, born>>
  BY DEF WriteFails, disk, Fault
<1>1. files' \in [Epochs -> SUBSET OneFile] /\ feed' \in [Sources -> Nat] BY <1>0 DEF IInv, Shape
<1>2. job.step # "advertise" /\ job.step # "copy" BY <1>0
<1>3. job.step = "index" => {"index", "copyIndex"} \intersect Faulty # {} BY <1>0
<1> QED BY <1>0, <1>1, <1>2, <1>3, EndsInv

-----------------------------------------------------------------------------
(* Epochs. *)

LEMMA MintParts ==
  ASSUME IInv, job.step \in {"mint", "save", "advertise"}
  PROVE  /\ job \in Writes \union Turns
         /\ \A st \in {"mint", "save", "advertise"} :
              LET k == [job EXCEPT !.step = st]
              IN /\ k \in Jobs /\ k.op = job.op /\ k.step = st /\ k.op # "verdict" /\ k.op # "drop"
                 /\ job.op # "rotate" => /\ k.src = job.src /\ k.feed = job.feed /\ k.live = job.live
                                         /\ k.prev = job.prev
<1>1. job \in Writes \union Turns BY JobKinds DEF IInv
<1>2. job.op # "verdict" BY DEF IInv, JobFits
<1> SUFFICES ASSUME NEW st \in {"mint", "save", "advertise"}
             PROVE  LET k == [job EXCEPT !.step = st]
                    IN /\ k \in Jobs /\ k.op = job.op /\ k.step = st /\ k.op # "verdict" /\ k.op # "drop"
                       /\ job.op # "rotate" => /\ k.src = job.src /\ k.feed = job.feed /\ k.live = job.live
                                               /\ k.prev = job.prev
  BY <1>1
<1> DEFINE k == [job EXCEPT !.step = st]
<1>s. st \in Early \union Late BY Steps
<1>3. CASE job \in Writes
  <2>1. /\ k \in Writes /\ k.op = job.op /\ k.src = job.src /\ k.feed = job.feed
        /\ k.live = job.live /\ k.prev = job.prev /\ k.step = st
    BY <1>3, <1>s, WriteGoes
  <2>2. k \in Jobs BY <2>1 DEF Jobs
  <2>3. job.op # "drop" BY <1>3, WriteParts
  <2> QED BY <1>2, <2>1, <2>2, <2>3
<1>4. CASE job \in Turns
  <2>1. k.op = "rotate" /\ k.op = job.op /\ k.step = st /\ k \in Jobs
    BY <1>4, TurnGoes
  <2> QED BY <2>1
<1> QED BY <1>1, <1>3, <1>4

LEMMA MintOpensInv == ASSUME IInv, MintOpens PROVE IInv'
<1>0. /\ up /\ job.step = "mint" /\ cores' = cores \union {state.epoch + 1}
      /\ lost' = lost /\ drain' = drain /\ up' = up /\ feed' = feed /\ state' = state
      /\ fetched' = fetched /\ verdict' = verdict /\ shards' = shards
      /\ index' = index /\ files' = files /\ pointer' = pointer /\ born' = born
      /\ job' = [job EXCEPT !.step = "save"]
  BY DEF MintOpens, outside, Then
<1>1. /\ job' \in Jobs /\ job'.op = job.op /\ job'.step = "save" /\ job'.op # "verdict"
      /\ job.op # "rotate" => /\ job'.src = job.src /\ job'.feed = job.feed /\ job'.live = job.live
                              /\ job'.prev = job.prev
  BY <1>0, MintParts
<1>2. state.epoch \in 0..MaxEpoch /\ state.epoch < MaxEpoch /\ state.epoch \in Nat
  BY <1>0, StateParts DEF IInv, JobAt
<1>3. Shape'
  <2>1. cores' \subseteq Epochs BY <1>0, <1>2, Bounds DEF IInv, Shape
  <2> QED BY <1>0, <1>1, <2>1 DEF IInv, Shape
<1>4. Places'
  <2>1. ASSUME drain.on PROVE drain.purged \intersect cores' = {}
    <3>1. drain.purged \subseteq state.pending /\ drain.purged \intersect cores = {} BY <2>1 DEF IInv, Places
    <3>2. state.epoch + 1 \notin state.pending BY <1>2 DEF IInv, Places
    <3> QED BY <1>0, <3>1, <3>2
  <2>2. NoOrphanEpoch' BY <1>0 DEF IInv, Places, NoOrphanEpoch
  <2> QED BY <1>0, <2>1, <2>2 DEF IInv, Places
<1>5. JobAt'
  BY <1>0, <1>1 DEF IInv, JobAt, Turned
<1>6. JobFits'
  BY <1>0, <1>1 DEF IInv, JobFits, Judged, Carried, Early, Late
<1>7. Revs'
  BY <1>0 DEF IInv, Revs
<1>8. IndexFits'
  BY <1>0, <1>1 DEF IInv, IndexFits, Agrees, Speaks
<1>9. PointerFits'
  BY <1>0, <1>1 DEF IInv, PointerFits
<1> QED BY <1>3, <1>4, <1>5, <1>6, <1>7, <1>8, <1>9 DEF IInv

LEMMA MintSavesInv == ASSUME IInv, MintSaves PROVE IInv'
<1> DEFINE e == state.epoch
<1>0. /\ up /\ job.step = "save" /\ cores' = cores
      /\ lost' = lost /\ drain' = drain /\ up' = up /\ feed' = feed
      /\ fetched' = fetched /\ verdict' = verdict /\ shards' = shards
      /\ index' = index /\ files' = files /\ pointer' = pointer /\ born' = state.rev
      /\ state' = [epoch |-> e + 1, rev |-> state.rev, pending |-> state.pending \union ({e} \ {0})]
      /\ job' = [job EXCEPT !.step = "advertise"]
  BY DEF MintSaves, outside, Then, disk, RevCarried, Owed
<1>1. /\ job' \in Jobs /\ job'.op = job.op /\ job'.step = "advertise" /\ job'.op # "verdict" /\ job'.op # "drop"
      /\ job.op # "rotate" => /\ job'.src = job.src /\ job'.feed = job.feed /\ job'.live = job.live
                              /\ job'.prev = job.prev
  BY <1>0, MintParts
<1>2. /\ e \in Nat /\ e < MaxEpoch /\ MaxEpoch \in Nat /\ state.rev \in Nat /\ state.pending \subseteq Epochs
      /\ e # 0 => e \in Epochs
      /\ IF job.op = "rotate" THEN e # 0 ELSE e = 0
  BY <1>0, Bounds, StateParts DEF IInv, JobAt
<1>3. /\ state'.epoch = e + 1 /\ state'.rev = state.rev /\ state'.pending = state.pending \union ({e} \ {0})
      /\ \A d \in state.pending : d < e
  BY <1>0 DEF IInv, Places
<1>4. Shape'
  <2>1. e + 1 \in 0..MaxEpoch BY <1>2
  <2>2. state.pending \union ({e} \ {0}) \in SUBSET Epochs BY <1>2
  <2>3. state' \in [epoch : 0..MaxEpoch, rev : Nat, pending : SUBSET Epochs] BY <1>0, <1>2, <2>1, <2>2
  <2> QED BY <1>0, <1>1, <1>2, <2>3 DEF IInv, Shape
<1>5. Places'
  <2>1. \A d \in state'.pending : d < state'.epoch BY <1>2, <1>3, Bounds
  <2>2. drain.on => drain.todo \union drain.purged \subseteq state'.pending /\ drain.purged \intersect cores = {}
    BY <1>3 DEF IInv, Places
  <2>3. NoOrphanEpoch'
    <3>1. \A d \in cores : d = e \/ d = e + 1 \/ d \in state.pending BY DEF IInv, Places, NoOrphanEpoch
    <3>2. \A d \in cores : d # 0 BY Bounds DEF IInv, Shape
    <3> QED BY <1>0, <1>3, <3>1, <3>2 DEF NoOrphanEpoch
  <2>4. \A d \in Epochs : d > state'.epoch => files'[d] = {} /\ index'[d] = NoIndex
    BY <1>0, <1>2, <1>3, Bounds DEF IInv, Places
  <2>5. state'.epoch # 0 /\ up' BY <1>0, <1>2, <1>3
  <2> QED BY <1>0, <2>1, <2>2, <2>3, <2>4, <2>5 DEF Places
<1>6. JobAt'
  <2>1. index[e + 1] = NoIndex BY <1>2, Bounds DEF IInv, Places
  <2>2. job'.op = "rotate" => e + 1 > 1 BY <1>1, <1>2
  <2>3. drain.on => e \notin drain.todo \union drain.purged BY <1>2, <1>3 DEF IInv, Places
  <2>4. e + 1 # 0 /\ e + 1 - 1 = e BY <1>2
  <2>5. state'.epoch # 0 /\ state'.epoch - 1 = e BY <1>2, <1>3, <2>4
  <2>6. (job.op = "rotate" => state'.epoch > 1) /\ state'.rev = born' BY <1>0, <1>1, <1>3, <2>2
  <2>7. drain'.on => state'.epoch - 1 \notin drain'.todo \union drain'.purged BY <1>0, <2>3, <2>5
  <2>8. index'[state'.epoch] = NoIndex BY <1>0, <1>3, <2>1
  <2> QED BY <1>1, <2>5, <2>6, <2>7, <2>8 DEF JobAt, Turned
<1>7. JobFits'
  BY <1>0, <1>1 DEF IInv, JobFits, Judged, Carried, Early, Late
<1>8. Revs'
  <2>1. ASSUME NEW s \in Sources PROVE ~(shards[s].rev > state.rev)
    <3>1. shards[s].rev \in Nat /\ shards[s].rev <= state.rev BY ShardParts DEF IInv, Revs
    <3> QED BY <1>2, <3>1
  <2>2. \A s \in Sources : ~(index[e + 1].names[s] > state.rev)
    <3>1. e + 1 \in Epochs BY <1>2, Bounds
    <3>2. \A s \in Sources : index[e + 1].names[s] \in Nat /\ index[e + 1].names[s] <= state.rev
      BY <3>1, IndexParts DEF IInv, Revs
    <3> QED BY <1>2, <3>2
  <2> QED BY <1>0, <1>3, <2>1, <2>2 DEF IInv, Revs
<1>9. IndexFits'
  <2>1. CASE job.op = "rotate"
    <3>1. Speaks' = e /\ Speaks = e BY <1>0, <1>1, <1>2, <1>3, <2>1 DEF Speaks
    <3> QED BY <1>0, <1>1, <3>1 DEF IInv, IndexFits, Agrees
  <2>2. CASE job.op # "rotate"
    <3>1. \A s \in Sources : shards[s].rev = 0 BY <1>0, <2>2, NoShardParts DEF IInv, JobFits
    <3> QED BY <1>0, <3>1 DEF IndexFits, Agrees
  <2> QED BY <2>1, <2>2
<1>10. PointerFits'
  BY <1>1 DEF PointerFits
<1> QED BY <1>4, <1>5, <1>6, <1>7, <1>8, <1>9, <1>10 DEF IInv

LEMMA AdvertiseInv == ASSUME IInv, Advertise PROVE IInv'
<1> DEFINE e == state.epoch
           copies == [op |-> "rotate", src |-> "none", step |-> "copy",
                      todo |-> files[e - 1], index |-> index[e - 1] # NoIndex]
<1>0. /\ up /\ job.step = "advertise" /\ cores' = cores /\ pointer' = e /\ state' = state
      /\ lost' = lost /\ drain' = drain /\ up' = up /\ feed' = feed
      /\ fetched' = fetched /\ verdict' = verdict /\ shards' = shards
      /\ index' = index /\ files' = files /\ born' = born
      /\ job' = IF job.op = "publish" THEN [job EXCEPT !.step = "compare"] ELSE copies
  BY DEF Advertise, outside
<1>1. e # 0 /\ e \in Epochs /\ e \in Nat /\ index[e] = NoIndex
  BY <1>0, StateParts DEF IInv, JobAt
<1>2. Places'
  BY <1>0 DEF IInv, Places, NoOrphanEpoch
<1>3. Revs'
  BY <1>0 DEF IInv, Revs
<1>4. job \in Writes \union Turns /\ job.op # "verdict"
  BY <1>0, JobKinds DEF IInv, JobFits
<1>5. CASE job.op = "publish"
  <2>1. job \in Writes BY <1>4, <1>5 DEF Turns
  <2>2. "compare" \in Early \union Late BY Steps
  <2>3. /\ job' \in Writes /\ job'.op = "publish" /\ job'.src = job.src /\ job'.feed = job.feed
        /\ job'.live = job.live /\ job'.prev = job.prev /\ job'.step = "compare"
    BY <1>0, <1>5, <2>1, <2>2, WriteGoes
  <2>4. job'.src \in Sources /\ job' \in Jobs BY <2>3, WriteParts
  <2>5. \A s \in Sources : shards[s] = NoShard
    BY <1>0, <1>5 DEF IInv, JobFits
  <2>6. Shape' BY <1>0, <1>1, <2>4, StateParts DEF IInv, Shape
  <2>7. JobAt' BY <1>0, <1>1, <2>3 DEF JobAt, Turned
  <2>8. JobFits' BY <1>0, <1>5, <2>3 DEF IInv, JobFits, Judged, Carried, Early, Late
  <2>9. IndexFits' BY <1>0, <2>5, NoShardParts DEF IndexFits, Agrees
  <2>10. PointerFits' BY <1>0 DEF PointerFits
  <2> QED BY <1>2, <1>3, <2>6, <2>7, <2>8, <2>9, <2>10 DEF IInv
<1>6. CASE job.op # "publish"
  <2>1. job' = copies BY <1>0, <1>6
  <2>2. job.op = "rotate" BY <1>4, <1>6 DEF Writes, Turns
  <2>3. /\ e > 1 /\ state.rev = born /\ (drain.on => e - 1 \notin drain.todo \union drain.purged)
    BY <1>0, <2>2 DEF IInv, JobAt, Turned
  <2>4. e - 1 \in Epochs BY <1>1, <2>3, Bounds
  <2>5. copies \in Copies
    <3>1. files[e - 1] \in SUBSET OneFile BY <2>4 DEF IInv, Shape
    <3>2. (index[e - 1] # NoIndex) \in BOOLEAN OBVIOUS
    <3> QED BY <3>1, <3>2 DEF Copies
  <2>6. copies \in Jobs BY <2>5 DEF Jobs
  <2>7. /\ copies.op = "rotate" /\ copies.step = "copy" /\ copies.index = (index[e - 1] # NoIndex)
    OBVIOUS
  <2> HIDE DEF copies
  <2>8. job'.op = "rotate" /\ job'.step = "copy" /\ (job'.index <=> index[e - 1] # NoIndex)
    BY <2>1, <2>7
  <2>9. Shape' BY <1>0, <1>1, <2>1, <2>6, StateParts DEF IInv, Shape
  <2>10. JobAt' BY <1>0, <1>1, <2>3, <2>8 DEF JobAt, Turned
  <2>11. JobFits' BY <2>8 DEF JobFits, Early, Late
  <2>12. IndexFits'
    <3>1. Speaks = e - 1 BY <1>0, <2>2 DEF Speaks
    <3>2. ASSUME {"index", "copyIndex"} \intersect Faulty = {}, NEW s \in Sources, shards[s].rev # 0
          PROVE  index[e - 1].names[s] = shards[s].rev
      BY <1>0, <3>1, <3>2 DEF IInv, IndexFits, Agrees
    <3>3. CASE index[e - 1] # NoIndex
      <4>1. Speaks' = e - 1 BY <1>0, <2>8, <3>3 DEF Speaks
      <4> QED BY <1>0, <3>2, <4>1 DEF IndexFits, Agrees
    <3>4. CASE index[e - 1] = NoIndex
      <4>1. {"index", "copyIndex"} \intersect Faulty = {} => \A s \in Sources : shards[s].rev = 0
        BY <3>2, <3>4, NoIndexParts
      <4> QED BY <1>0, <4>1 DEF IndexFits, Agrees
    <3> QED BY <3>3, <3>4
  <2>13. PointerFits' BY <1>0 DEF PointerFits
  <2> QED BY <1>2, <1>3, <2>9, <2>10, <2>11, <2>12, <2>13 DEF IInv
<1> QED BY <1>5, <1>6

LEMMA CopyParts ==
  ASSUME IInv, Copying
  PROVE  /\ up /\ job.step = "copy" /\ job.op = "rotate" /\ job \in Copies
         /\ job.todo \subseteq OneFile /\ job.index \in BOOLEAN
         /\ state.epoch \in Epochs /\ state.epoch - 1 \in Epochs /\ state.epoch > 1 /\ state.rev = born
         /\ drain.on => state.epoch - 1 \notin drain.todo \union drain.purged
<1>1. up /\ job.step = "copy" BY DEF Copying
<1>2. job \in Copies BY <1>1, JobKinds DEF IInv
<1>3. job.op = "rotate" /\ job.todo \subseteq OneFile /\ job.index \in BOOLEAN BY <1>2 DEF Copies
<1>4. /\ state.epoch > 1 /\ state.rev = born
      /\ (drain.on => state.epoch - 1 \notin drain.todo \union drain.purged)
  BY <1>1, <1>3 DEF IInv, JobAt, Turned
<1>5. state.epoch \in Epochs /\ state.epoch - 1 \in Epochs BY <1>4, StateParts, Bounds DEF IInv
<1> QED BY <1>1, <1>2, <1>3, <1>4, <1>5

LEMMA CopyShardInv == ASSUME IInv, CopyShard PROVE IInv'
<1> DEFINE e == state.epoch
<1>0. /\ Copying /\ cores' = cores /\ pointer' = pointer /\ state' = state
      /\ lost' = lost /\ drain' = drain /\ up' = up /\ feed' = feed
      /\ fetched' = fetched /\ verdict' = verdict /\ shards' = shards
      /\ index' = index /\ born' = born
  BY DEF CopyShard, outside
<1>1. PICK f \in job.todo :
        /\ job' = [job EXCEPT !.todo = @ \ {f}]
        /\ files' = [files EXCEPT ![e] = @ \union {f}] \/ files' = files
  BY DEF CopyShard
<1>2. /\ up /\ job.step = "copy" /\ job.op = "rotate" /\ job \in Copies
      /\ job.todo \subseteq OneFile /\ job.index \in BOOLEAN /\ e \in Epochs /\ e > 1
  BY <1>0, CopyParts
<1>3. /\ job' \in Copies /\ job'.step = "copy" /\ job'.op = "rotate" /\ job'.index = job.index
  <2>1. job.todo \ {f} \in SUBSET OneFile BY <1>2
  <2> QED BY <1>1, <1>2, <2>1 DEF Copies
<1>4. /\ files' \in [Epochs -> SUBSET OneFile]
      /\ \A d \in Epochs : d # e => files'[d] = files[d]
      /\ files[e] \subseteq files'[e]
  <2>1. f \in OneFile BY <1>1, <1>2
  <2>2. files[e] \union {f} \in SUBSET OneFile BY <1>2, <2>1 DEF IInv, Shape
  <2> QED BY <1>1, <1>2, <2>2 DEF IInv, Shape
<1>5. Shape'
  <2>1. job' \in Jobs BY <1>3 DEF Jobs
  <2> QED BY <1>0, <1>4, <2>1 DEF IInv, Shape
<1>6. Places'
  <2>1. \A d \in Epochs : d > e => files'[d] = {} /\ index'[d] = NoIndex
    BY <1>0, <1>2, <1>4, Bounds DEF IInv, Places
  <2> QED BY <1>0, <1>2, <2>1 DEF IInv, Places, NoOrphanEpoch
<1>7. JobAt' BY <1>0, <1>2, <1>3 DEF IInv, JobAt, Turned
<1>8. JobFits' BY <1>3 DEF JobFits, Early, Late
<1>9. Revs'
  <2>1. \A s \in Sources : \A r : Filed(files[e], s, r) => Filed(files'[e], s, r)
    BY <1>4 DEF Filed
  <2> QED BY <1>0, <2>1 DEF IInv, Revs
<1>10. IndexFits' BY <1>0, <1>2, <1>3 DEF IInv, IndexFits, Agrees, Speaks
<1>11. PointerFits' BY <1>0, <1>2, <1>3 DEF IInv, PointerFits
<1> QED BY <1>5, <1>6, <1>7, <1>8, <1>9, <1>10, <1>11 DEF IInv

LEMMA CopyIndexInv == ASSUME IInv, CopyIndex PROVE IInv'
<1> DEFINE e == state.epoch
<1>0. /\ Copying /\ job.index /\ cores' = cores /\ pointer' = pointer /\ state' = state
      /\ lost' = lost /\ drain' = drain /\ up' = up /\ feed' = feed
      /\ fetched' = fetched /\ verdict' = verdict /\ shards' = shards
      /\ files' = files /\ born' = born
      /\ job' = [job EXCEPT !.index = FALSE]
      /\ index' = [index EXCEPT ![e] = index[e - 1]] \/ ("copyIndex" \in Faulty /\ index' = index)
  BY DEF CopyIndex, outside, Fault
<1>1. /\ up /\ job.step = "copy" /\ job.op = "rotate" /\ job \in Copies
      /\ e \in Epochs /\ e - 1 \in Epochs /\ e > 1 /\ state.rev = born
  BY <1>0, CopyParts
<1>2. /\ job' \in Copies /\ job'.step = "copy" /\ job'.op = "rotate" /\ job'.index = FALSE
  BY <1>0, <1>1 DEF Copies
<1>3. /\ index' \in [Epochs -> Indexes] /\ \A d \in Epochs : d # e => index'[d] = index[d]
      /\ index'[e] = index[e - 1] \/ ("copyIndex" \in Faulty /\ index' = index)
  BY <1>0, <1>1 DEF IInv, Shape
<1>4. Shape'
  <2>1. job' \in Jobs BY <1>2 DEF Jobs
  <2> QED BY <1>0, <1>3, <2>1 DEF IInv, Shape
<1>5. Places'
  <2>1. \A d \in Epochs : d > e => files'[d] = {} /\ index'[d] = NoIndex
    BY <1>0, <1>1, <1>3, Bounds DEF IInv, Places
  <2> QED BY <1>0, <1>1, <2>1 DEF IInv, Places, NoOrphanEpoch
<1>6. JobAt' BY <1>0, <1>1, <1>2 DEF IInv, JobAt, Turned
<1>7. JobFits' BY <1>2 DEF JobFits, Early, Late
<1>8. Revs'
  <2>1. \A d \in Epochs : index'[d].rev <= state.rev /\ \A s \in Sources : index'[d].names[s] <= state.rev
    BY <1>1, <1>3 DEF IInv, Revs
  <2>2. \A s \in Sources : ~(index'[e].names[s] > born)
    <3> SUFFICES ASSUME NEW s \in Sources PROVE ~(index'[e].names[s] > born)
      OBVIOUS
    <3>1. index'[e].names[s] <= born BY <1>1, <2>1
    <3>2. index'[e].names[s] \in Nat /\ born \in Nat BY <1>1, <1>3 DEF Indexes, IInv, Shape
    <3> QED BY <3>1, <3>2
  <2> QED BY <1>0, <2>1, <2>2 DEF IInv, Revs
<1>9. IndexFits'
  <2>1. Speaks = e - 1 /\ Speaks' = e BY <1>0, <1>1, <1>2 DEF Speaks
  <2> QED BY <1>0, <1>1, <1>3, <2>1 DEF IInv, IndexFits, Agrees
<1>10. PointerFits' BY <1>0, <1>1, <1>2 DEF IInv, PointerFits
<1> QED BY <1>4, <1>5, <1>6, <1>7, <1>8, <1>9, <1>10 DEF IInv

LEMMA CopyEndsInv == ASSUME IInv, CopyEnds PROVE IInv'
<1>0. /\ Copying /\ ~job.index /\ job' = Idle /\ cores' = cores /\ pointer' = pointer /\ state' = state
      /\ lost' = lost /\ drain' = drain /\ up' = up /\ feed' = feed
      /\ fetched' = fetched /\ verdict' = verdict /\ shards' = shards
      /\ files' = files /\ born' = born /\ index' = index
  BY DEF CopyEnds, outside, disk
<1>1. up /\ job.step = "copy" /\ job'.step = "idle" /\ job' \in Jobs
  BY <1>0, Steps DEF Copying, Jobs
<1>2. Shape' BY <1>0, <1>1 DEF IInv, Shape
<1>3. Places' BY <1>0, <1>1 DEF IInv, Places, NoOrphanEpoch
<1>4. JobAt' BY <1>1 DEF JobAt, Turned
<1>5. JobFits' BY <1>1 DEF JobFits, Early, Late
<1>6. Revs' BY <1>0 DEF IInv, Revs
<1>7. IndexFits' BY <1>0, <1>1 DEF IInv, IndexFits, Agrees, Speaks
<1>8. PointerFits' BY <1>0, <1>1 DEF IInv, PointerFits
<1> QED BY <1>2, <1>3, <1>4, <1>5, <1>6, <1>7, <1>8 DEF IInv

-----------------------------------------------------------------------------
(* Purges of retired epochs. *)

\* A drain that goes on purges no epoch the chain still reads.
Unread == IF job.step \in {"advertise", "copy"} /\ job.op = "rotate" THEN {state.epoch - 1} ELSE {}

LEMMA DrainInv ==
  ASSUME IInv, UNCHANGED <<outside, up, state, lost, shards, job, pointer, born>>,
         drain' \in Drains, cores' \subseteq cores,
         files' \in [Epochs -> SUBSET OneFile], index' \in [Epochs -> Indexes],
         drain'.on => /\ drain'.todo \union drain'.purged \subseteq state.pending \ Unread
                      /\ drain'.purged \intersect cores' = {},
         ~up => drain' = Still,
         \A e \in Epochs : files'[e] \in {{}, files[e]} /\ index'[e] \in {NoIndex, index[e]},
         \A e \in Epochs \ (state.pending \ Unread) : files'[e] = files[e] /\ index'[e] = index[e]
  PROVE  IInv'
<1>0. /\ up' = up /\ lost' = lost /\ feed' = feed /\ state' = state /\ job' = job
      /\ fetched' = fetched /\ verdict' = verdict /\ shards' = shards /\ pointer' = pointer /\ born' = born
  BY DEF outside
<1>1. /\ \A d \in state.pending : d < state.epoch
      /\ state.epoch \in Nat /\ (state.epoch # 0 => state.epoch \in Epochs) /\ state.rev \in Nat
  BY StateParts DEF IInv, Places
<1>2. state.epoch # 0 => files'[state.epoch] = files[state.epoch] /\ index'[state.epoch] = index[state.epoch]
  BY <1>1
<1>3. Shape' BY <1>0 DEF IInv, Shape
<1>4. Places'
  <2>1. NoOrphanEpoch' BY <1>0 DEF IInv, Places, NoOrphanEpoch
  <2>2. \A e \in Epochs : e > state.epoch => files'[e] = {} /\ index'[e] = NoIndex
    BY DEF IInv, Places
  <2> QED BY <1>0, <2>1, <2>2 DEF IInv, Places
<1>5. JobAt'
  <2>1. Turned /\ drain'.on => state.epoch - 1 \notin drain'.todo \union drain'.purged
    BY DEF Turned, Unread
  <2> QED BY <1>0, <1>2, <2>1 DEF IInv, JobAt, Turned
<1>6. JobFits'
  <2>1. job.step \in Late => state.epoch # 0 BY Steps DEF IInv, JobAt
  <2> QED BY <1>0, <1>2, <2>1 DEF IInv, JobFits, Judged, Carried, Late
<1>7. Revs'
  <2>1. \A e \in Epochs : index'[e].rev <= state.rev /\ \A s \in Sources : index'[e].names[s] <= state.rev
    BY <1>1, NoIndexParts DEF IInv, Revs
  <2> QED BY <1>0, <1>2, <2>1 DEF IInv, Revs
<1>8. IndexFits'
  <2>1. Speaks' = Speaks BY <1>0 DEF Speaks
  <2>2. state.epoch # 0 => index'[Speaks] = index[Speaks]
    <3>1. CASE job.step \in {"advertise", "copy"} /\ job.op = "rotate"
      <4>1. state.epoch > 1 BY <3>1 DEF IInv, JobAt, Turned
      <4>2. state.epoch - 1 \in Epochs BY <1>1, <4>1, Bounds
      <4>3. state.epoch - 1 \notin state.pending \ Unread BY <3>1 DEF Unread
      <4>4. index'[state.epoch - 1] = index[state.epoch - 1] BY <4>2, <4>3
      <4> QED BY <1>2, <4>4 DEF Speaks
    <3>2. CASE ~(job.step \in {"advertise", "copy"} /\ job.op = "rotate")
      <4>1. job.step = "copy" => job.op = "rotate"
        BY JobKinds DEF Copies, IInv
      <4>2. Speaks = state.epoch BY <3>2, <4>1 DEF Speaks
      <4> QED BY <1>2, <4>2
    <3> QED BY <3>1, <3>2
  <2>3. state.epoch = 0 => \A s \in Sources : shards[s].rev = 0
    BY NoShardParts DEF IInv, Places
  <2> QED BY <1>0, <2>1, <2>2, <2>3 DEF IInv, IndexFits, Agrees
<1>9. PointerFits' BY <1>0 DEF IInv, PointerFits
<1> QED BY <1>3, <1>4, <1>5, <1>6, <1>7, <1>8, <1>9 DEF IInv

LEMMA DrainKinds ==
  ASSUME Shape, drain.on
  PROVE  /\ drain.todo \subseteq Epochs /\ drain.purged \subseteq Epochs
         /\ drain \in [on : {TRUE}, todo : SUBSET Epochs, purged : SUBSET Epochs]
<1>1. drain # Still BY DEF Still
<1>2. drain \in [on : {TRUE}, todo : SUBSET Epochs, purged : SUBSET Epochs] BY <1>1 DEF Shape, Drains
<1> QED BY <1>2

LEMMA StartDrainInv == ASSUME IInv, StartDrain PROVE IInv'
<1>1. PICK over \in SUBSET (state.pending \ InGrace) \ {{}} :
        drain' = [on |-> TRUE, todo |-> over, purged |-> {}]
  BY DEF StartDrain
<1>2. UNCHANGED <<outside, up, state, lost, shards, job, disk, born>> /\ up BY DEF StartDrain
<1>3. Unread \subseteq InGrace BY Steps DEF Unread, InGrace
<1>4. over \subseteq Epochs BY StateParts DEF IInv
<1>5. drain' \in Drains BY <1>1, <1>4 DEF Drains
<1>6. drain'.todo = over /\ drain'.purged = {} BY <1>1
<1>7. drain'.todo \union drain'.purged \subseteq state.pending \ Unread /\ drain'.purged \intersect cores = {}
  BY <1>3, <1>6
<1>8. UNCHANGED <<cores, files, index, pointer>> BY <1>2 DEF disk
<1>9. files' \in [Epochs -> SUBSET OneFile] /\ index' \in [Epochs -> Indexes] BY <1>8 DEF IInv, Shape
<1> QED BY <1>2, <1>5, <1>7, <1>8, <1>9, DrainInv

LEMMA DrainUnread ==
  ASSUME IInv, drain.on
  PROVE  /\ drain.todo \union drain.purged \subseteq state.pending \ Unread
         /\ drain.purged \intersect cores = {}
BY DEF IInv, Places, JobAt, Turned, Unread

LEMMA PurgeInv == ASSUME IInv, Purge PROVE IInv'
<1>0. UNCHANGED <<outside, up, state, lost, shards, job, pointer, born>> /\ up /\ drain.on
  BY DEF Purge
<1>1. PICK e \in drain.todo :
        \/ /\ drain' = [drain EXCEPT !.todo = @ \ {e}, !.purged = @ \union {e}]
           /\ cores' = cores \ {e}
           /\ files' = [files EXCEPT ![e] = {}]
           /\ index' = [index EXCEPT ![e] = NoIndex]
        \/ /\ drain' = [drain EXCEPT !.todo = @ \ {e}]
           /\ UNCHANGED <<cores, files, index>>
  BY DEF Purge
<1>2. /\ drain.todo \subseteq Epochs /\ drain.purged \subseteq Epochs
      /\ drain \in [on : {TRUE}, todo : SUBSET Epochs, purged : SUBSET Epochs]
  BY <1>0, DrainKinds DEF IInv
<1>3. /\ drain.todo \union drain.purged \subseteq state.pending \ Unread /\ drain.purged \intersect cores = {}
  BY <1>0, DrainUnread
<1>4. e \in Epochs BY <1>1, <1>2
<1>5. CASE /\ drain' = [drain EXCEPT !.todo = @ \ {e}, !.purged = @ \union {e}]
           /\ cores' = cores \ {e}
           /\ files' = [files EXCEPT ![e] = {}]
           /\ index' = [index EXCEPT ![e] = NoIndex]
  <2>1. /\ drain'.todo = drain.todo \ {e} /\ drain'.purged = drain.purged \union {e} /\ drain'.on
        /\ drain' \in [on : {TRUE}, todo : SUBSET Epochs, purged : SUBSET Epochs]
    BY <1>2, <1>4, <1>5
  <2>2. drain' \in Drains BY <2>1 DEF Drains
  <2>3. /\ files' \in [Epochs -> SUBSET OneFile] /\ index' \in [Epochs -> Indexes]
        /\ \A d \in Epochs : /\ files'[d] = (IF d = e THEN {} ELSE files[d])
                             /\ index'[d] = (IF d = e THEN NoIndex ELSE index[d])
    BY <1>5, NoIndexParts DEF IInv, Shape
  <2>4. /\ drain'.todo \union drain'.purged \subseteq state.pending \ Unread
        /\ drain'.purged \intersect cores' = {} /\ cores' \subseteq cores
    BY <1>1, <1>3, <1>5, <2>1
  <2>5. e \in state.pending \ Unread BY <1>1, <1>3
  <2> QED BY <1>0, <2>2, <2>3, <2>4, <2>5, DrainInv
<1>6. CASE drain' = [drain EXCEPT !.todo = @ \ {e}] /\ UNCHANGED <<cores, files, index>>
  <2>1. /\ drain'.todo = drain.todo \ {e} /\ drain'.purged = drain.purged
        /\ drain' \in [on : {TRUE}, todo : SUBSET Epochs, purged : SUBSET Epochs]
    BY <1>2, <1>4, <1>6
  <2>2. drain' \in Drains BY <2>1 DEF Drains
  <2>3. files' \in [Epochs -> SUBSET OneFile] /\ index' \in [Epochs -> Indexes] BY <1>6 DEF IInv, Shape
  <2> QED BY <1>0, <1>3, <1>6, <2>1, <2>2, <2>3, DrainInv
<1> QED BY <1>1, <1>5, <1>6

LEMMA EndDrainInv == ASSUME IInv, EndDrain PROVE IInv'
<1>0. /\ up /\ drain.on /\ drain' = Still /\ state' = [state EXCEPT !.pending = @ \ drain.purged]
      /\ cores' = cores /\ files' = files /\ index' = index
      /\ up' = up /\ lost' = lost /\ feed' = feed /\ job' = job
      /\ fetched' = fetched /\ verdict' = verdict /\ shards' = shards /\ pointer' = pointer /\ born' = born
  BY DEF EndDrain, outside, disk
<1>1. /\ state'.epoch = state.epoch /\ state'.rev = state.rev /\ state'.pending = state.pending \ drain.purged
      /\ state' \in [epoch : 0..MaxEpoch, rev : Nat, pending : SUBSET Epochs]
  BY <1>0 DEF IInv, Shape
<1>2. drain'.on = FALSE /\ drain' \in Drains BY <1>0 DEF Still, Drains
<1>3. Shape' BY <1>0, <1>1, <1>2 DEF IInv, Shape
<1>4. Places'
  <2>1. drain.purged \intersect cores = {} BY <1>0 DEF IInv, Places
  <2>2. NoOrphanEpoch'
    BY <1>0, <1>1, <2>1 DEF IInv, Places, NoOrphanEpoch
  <2> QED BY <1>0, <1>1, <1>2, <2>2 DEF IInv, Places
<1>5. JobAt' BY <1>0, <1>1, <1>2 DEF IInv, JobAt, Turned
<1>6. JobFits' BY <1>0, <1>1 DEF IInv, JobFits, Judged, Carried, Early, Late
<1>7. Revs' BY <1>0, <1>1 DEF IInv, Revs
<1>8. IndexFits' BY <1>0, <1>1 DEF IInv, IndexFits, Agrees, Speaks
<1>9. PointerFits' BY <1>0, <1>1 DEF IInv, PointerFits
<1> QED BY <1>3, <1>4, <1>5, <1>6, <1>7, <1>8, <1>9 DEF IInv

-----------------------------------------------------------------------------
(* Crashes and boots. *)

LEMMA CrashInv == ASSUME IInv, Crash PROVE IInv'
<1>0. /\ up' = FALSE /\ job' = Idle /\ drain' = Still /\ lost' \in {FALSE, state.epoch # 0}
      /\ fetched' = NoNames /\ verdict' = NoVerdict /\ shards' = [s \in Sources |-> NoShard]
      /\ cores' = cores /\ files' = files /\ index' = index /\ state' = state
      /\ feed' = feed /\ pointer' = pointer /\ born' = born
  BY DEF Crash, disk
<1>1. /\ \A s \in Sources : shards'[s] = NoShard /\ shards'[s].rev = 0
      /\ shards' \in [Sources -> Shard] /\ fetched' \in [Sources -> Nat]
  BY <1>0, NoShardParts DEF NoNames
<1>2. job' \in Jobs /\ drain' \in Drains /\ job'.step = "idle" /\ drain'.on = FALSE
  BY <1>0, Steps DEF Jobs, Drains, Still
<1>3. Shape' BY <1>0, <1>1, <1>2 DEF IInv, Shape
<1>4. Places' BY <1>0, <1>1, <1>2 DEF IInv, Places, NoOrphanEpoch
<1>5. JobAt' BY <1>2 DEF JobAt, Turned
<1>6. JobFits' BY <1>2 DEF JobFits, Early, Late
<1>7. Revs'
  <2>1. state.rev \in Nat /\ born \in Nat BY StateParts DEF IInv, Shape
  <2>2. \A s \in Sources : shards'[s].rev <= state.rev /\ ~(shards'[s].rev > born) BY <1>1, <2>1
  <2> QED BY <1>0, <2>2 DEF IInv, Revs
<1>8. IndexFits' BY <1>1 DEF IndexFits, Agrees
<1>9. PointerFits' BY <1>0 DEF PointerFits
<1> QED BY <1>3, <1>4, <1>5, <1>6, <1>7, <1>8, <1>9 DEF IInv

LEMMA RestoreFileInv == ASSUME IInv, RestoreFile PROVE IInv'
<1>0. /\ up' = up /\ lost' = FALSE /\ feed' = feed /\ job' = job /\ drain' = drain /\ state' = state
      /\ cores' = cores /\ files' = files /\ index' = index
      /\ fetched' = fetched /\ verdict' = verdict /\ shards' = shards /\ pointer' = pointer /\ born' = born
  BY DEF RestoreFile, outside, disk
<1>1. Shape' BY <1>0 DEF IInv, Shape
<1>2. Places' BY <1>0 DEF IInv, Places, NoOrphanEpoch
<1>3. JobAt' BY <1>0 DEF IInv, JobAt, Turned
<1>4. JobFits' BY <1>0 DEF IInv, JobFits, Judged, Carried, Early, Late
<1>5. Revs' BY <1>0 DEF IInv, Revs
<1>6. IndexFits' BY <1>0 DEF IInv, IndexFits, Agrees, Speaks
<1>7. PointerFits' BY <1>0 DEF IInv, PointerFits
<1> QED BY <1>1, <1>2, <1>3, <1>4, <1>5, <1>6, <1>7 DEF IInv

LEMMA BootInertInv == ASSUME IInv, BootInert PROVE IInv'
<1>0. /\ ~up /\ pointer = 0 /\ up' = TRUE /\ lost' = FALSE /\ state' = None /\ pointer' = 0
      /\ feed' = feed /\ job' = job /\ drain' = drain
      /\ fetched' = fetched /\ verdict' = verdict /\ shards' = shards /\ born' = born
      /\ Sweep({})
  BY DEF BootInert, outside, FirstBoot
<1>1. cores' = {}
  <2>1. cores' = cores \intersect {0} BY <1>0 DEF Sweep
  <2>2. \A d \in cores : d # 0 BY Bounds DEF IInv, Shape
  <2> QED BY <2>1, <2>2
<1>2. /\ \A e \in Epochs : files'[e] = {} /\ index'[e] = NoIndex
      /\ files' \in [Epochs -> SUBSET OneFile] /\ index' \in [Epochs -> Indexes]
  BY <1>0, <1>1, NoIndexParts DEF Sweep
<1>3. /\ state'.epoch = 0 /\ state'.rev = 0 /\ state'.pending = {}
      /\ state' \in [epoch : 0..MaxEpoch, rev : Nat, pending : SUBSET Epochs]
  BY <1>0, Bounds DEF None
<1>4. job' = Idle /\ drain' = Still /\ job'.step = "idle" /\ drain'.on = FALSE /\ \A s \in Sources : shards'[s] = NoShard
  BY <1>0, Steps DEF IInv, Places, Still
<1>5. Shape' BY <1>0, <1>1, <1>2, <1>3, Bounds DEF IInv, Shape
<1>6. Places' BY <1>0, <1>1, <1>2, <1>3, <1>4 DEF Places, NoOrphanEpoch
<1>7. JobAt' BY <1>4 DEF JobAt, Turned
<1>8. JobFits' BY <1>4 DEF JobFits, Early, Late
<1>9. Revs' BY <1>2, <1>3, <1>4, NoShardParts, NoIndexParts DEF Revs
<1>10. IndexFits' BY <1>4, NoShardParts DEF IndexFits, Agrees
<1>11. PointerFits' BY <1>0, <1>3 DEF PointerFits
<1> QED BY <1>5, <1>6, <1>7, <1>8, <1>9, <1>10, <1>11 DEF IInv

LEMMA LoadedParts ==
  ASSUME Shape, state.epoch # 0, NEW s \in Sources
  PROVE  /\ Loaded(s) \in Shard
         /\ Loaded(s).rev # 0 => /\ Loaded(s).rev = index[state.epoch].names[s]
                                 /\ Filed(files[state.epoch], s, Loaded(s).rev)
<1> DEFINE r == index[state.epoch].names[s]
           found == At(state.epoch, s, r)
           f == CHOOSE g \in found : TRUE
<1>0. state.epoch \in Epochs BY StateParts
<1>1. CASE found = {}
  <2>1. Loaded(s) = NoShard BY <1>1 DEF Loaded
  <2> QED BY <2>1, NoShardParts
<1>2. CASE found # {}
  <2>1. f \in found BY <1>2
  <2>2. Loaded(s) = [rev |-> f.rev, feed |-> f.feed, live |-> f.live] BY <1>2 DEF Loaded
  <2>3. f \in files[state.epoch] /\ f.src = s /\ f.rev = r BY <2>1 DEF At
  <2> HIDE DEF f, found, r
  <2>4. f.rev \in Nat \ {0} /\ f.feed \in Nat /\ f.live \in BOOLEAN BY <1>0, <2>3, FileParts
  <2>5. Loaded(s) \in Shard /\ Loaded(s).rev = f.rev BY <2>2, <2>4 DEF Shard
  <2> QED BY <2>3, <2>5 DEF Filed, r
<1> QED BY <1>1, <1>2

LEMMA ResumeInv == ASSUME IInv, Resume PROVE IInv'
<1> DEFINE e == state.epoch
<1>0. /\ ~up /\ e # 0 /\ up' = TRUE /\ pointer' = e /\ shards' = [s \in Sources |-> Loaded(s)]
      /\ state' = [state EXCEPT !.rev = Larger(@, index[e].rev)] /\ Sweep(Opened)
      /\ lost' = lost /\ feed' = feed /\ job' = job /\ drain' = drain
      /\ fetched' = fetched /\ verdict' = verdict /\ born' = born
  BY DEF Resume, outside
<1>1. e \in Epochs /\ e \in Nat /\ state.rev \in Nat /\ state.pending \subseteq Epochs
  BY <1>0, StateParts DEF IInv
<1>2. Larger(state.rev, index[e].rev) = state.rev
  BY <1>1, IndexParts DEF IInv, Revs, Larger
<1>3. state' = state
  <2>1. state' = [state EXCEPT !.rev = state.rev] BY <1>0, <1>2
  <2> QED BY <2>1 DEF IInv, Shape
<1>4. cores' = {e} \union state.pending
  BY <1>0 DEF Sweep, Opened
<1>5. /\ files' \in [Epochs -> SUBSET OneFile] /\ index' \in [Epochs -> Indexes]
      /\ files'[e] = files[e] /\ index'[e] = index[e]
      /\ \A d \in Epochs : files'[d] \in {{}, files[d]} /\ index'[d] \in {NoIndex, index[d]}
  <2>1. files' = [d \in Epochs |-> IF d \in cores' THEN files[d] ELSE {}] BY <1>0 DEF Sweep
  <2>2. index' = [d \in Epochs |-> IF d \in cores' THEN index[d] ELSE NoIndex] BY <1>0 DEF Sweep
  <2>3. files \in [Epochs -> SUBSET OneFile] /\ index \in [Epochs -> Indexes] BY DEF IInv, Shape
  <2>4. e \in cores' BY <1>4
  <2>5. files' \in [Epochs -> SUBSET OneFile] BY <2>1, <2>3
  <2>6. index' \in [Epochs -> Indexes] BY <2>2, <2>3, NoIndexParts
  <2> QED BY <1>1, <2>1, <2>2, <2>4, <2>5, <2>6
<1>6. \A s \in Sources : /\ shards'[s] \in Shard /\ shards'[s].rev \in Nat
                         /\ shards'[s].rev # 0 => /\ shards'[s].rev = index[e].names[s]
                                                  /\ Filed(files[e], s, shards'[s].rev)
  <2>1. \A s \in Sources : shards'[s] = Loaded(s) BY <1>0
  <2>2. \A s \in Sources : Loaded(s) \in Shard
    BY <1>0, LoadedParts DEF IInv
  <2>3. \A s \in Sources : Loaded(s).rev # 0 => /\ Loaded(s).rev = index[e].names[s]
                                               /\ Filed(files[e], s, Loaded(s).rev)
    BY <1>0, LoadedParts DEF IInv
  <2>4. \A x \in Shard : x.rev \in Nat BY DEF Shard
  <2> QED BY <2>1, <2>2, <2>3, <2>4
<1>7. shards' \in [Sources -> Shard] BY <1>0, <1>6
<1>8. job' = Idle /\ drain' = Still /\ job'.step = "idle" /\ drain'.on = FALSE /\ verdict' = NoVerdict
  BY <1>0, Steps DEF IInv, Places, Still
<1>9. Shape'
  <2>1. cores' \subseteq Epochs /\ pointer' \in 0..MaxEpoch BY <1>0, <1>1, <1>4, Bounds
  <2> QED BY <1>0, <1>3, <1>5, <1>7, <2>1 DEF IInv, Shape
<1>10. Places'
  <2>1. NoOrphanEpoch' BY <1>3, <1>4 DEF NoOrphanEpoch
  <2>2. \A d \in Epochs : d > e => files'[d] = {} /\ index'[d] = NoIndex
    BY <1>5 DEF IInv, Places
  <2> QED BY <1>0, <1>3, <1>8, <2>1, <2>2 DEF IInv, Places
<1>11. JobAt' BY <1>8 DEF JobAt, Turned
<1>12. JobFits' BY <1>8 DEF JobFits, Early, Late
<1>13. Revs'
  <2>1. \A d \in Epochs : index'[d].rev <= state.rev /\ \A s \in Sources : index'[d].names[s] <= state.rev
    BY <1>1, <1>5, NoIndexParts DEF IInv, Revs
  <2>2. \A s \in Sources : shards'[s].rev <= state.rev BY <1>1, <1>5, <1>6, <2>1
  <2>3. born \in Nat BY DEF IInv, Shape
  <2>4. \A s \in Sources : shards'[s].rev > born => Filed(files'[e], s, shards'[s].rev)
    BY <1>5, <1>6, <2>3
  <2>5. \A s \in Sources : index'[e].names[s] > born => Filed(files'[e], s, index'[e].names[s])
    BY <1>0, <1>5 DEF IInv, Revs
  <2> QED BY <1>0, <1>3, <2>1, <2>2, <2>4, <2>5 DEF Revs
<1>14. IndexFits'
  <2>1. Speaks' = e BY <1>3, <1>8 DEF Speaks
  <2> QED BY <1>5, <1>6, <2>1 DEF IndexFits, Agrees
<1>15. PointerFits' BY <1>0, <1>3 DEF PointerFits
<1> QED BY <1>9, <1>10, <1>11, <1>12, <1>13, <1>14, <1>15 DEF IInv

-----------------------------------------------------------------------------
(* The theorems. *)

LEMMA InitInv == ASSUME Init PROVE IInv
<1>0. /\ removing = {} /\ fetched = NoNames /\ verdict = NoVerdict /\ up = TRUE /\ state = None /\ lost = FALSE
      /\ shards = [s \in Sources |-> NoShard] /\ job = Idle /\ drain = Still
      /\ cores = {} /\ pointer = 0 /\ born = 0
      /\ files = [e \in Epochs |-> {}] /\ index = [e \in Epochs |-> NoIndex]
  BY DEF Init
<1>1. feed \in [Sources -> Nat]
  <2>1. (CHOOSE f \in Feeds : TRUE) \in Feeds BY FeedAssumption
  <2> QED BY <2>1, FeedAssumption DEF Init
<1>2. /\ state.epoch = 0 /\ state.rev = 0 /\ state.pending = {}
      /\ state \in [epoch : 0..MaxEpoch, rev : Nat, pending : SUBSET Epochs]
  BY <1>0, Bounds DEF None
<1>3. job.step = "idle" /\ drain.on = FALSE /\ \A s \in Sources : shards[s] = NoShard
  BY <1>0, Steps DEF Still
<1>4. \A e \in Epochs : files[e] = {} /\ index[e] = NoIndex BY <1>0
<1>5. Shape
  <2>1. shards \in [Sources -> Shard] /\ fetched \in [Sources -> Nat] BY <1>0, NoShardParts DEF NoNames
  <2>2. files \in [Epochs -> SUBSET OneFile] /\ index \in [Epochs -> Indexes] BY <1>0, NoIndexParts
  <2>3. job \in Jobs /\ drain \in Drains BY <1>0 DEF Jobs, Drains
  <2> QED BY <1>0, <1>1, <1>2, <2>1, <2>2, <2>3, Bounds DEF Shape
<1>6. Places BY <1>0, <1>2, <1>3, <1>4 DEF Places, NoOrphanEpoch
<1>7. JobAt BY <1>3 DEF JobAt, Turned
<1>8. JobFits BY <1>3 DEF JobFits, Early, Late
<1>9. Revs BY <1>2, <1>3, <1>4, NoShardParts, NoIndexParts DEF Revs
<1>10. IndexFits BY <1>3, NoShardParts DEF IndexFits, Agrees
<1>11. PointerFits BY <1>0, <1>2 DEF PointerFits
<1> QED BY <1>5, <1>6, <1>7, <1>8, <1>9, <1>10, <1>11 DEF IInv

LEMMA NextInv == ASSUME IInv, [Next]_vars PROVE IInv'
<1>1. CASE UNCHANGED vars
  <2>1. /\ feed' = feed /\ fetched' = fetched /\ verdict' = verdict
        /\ UNCHANGED <<up, state, lost, shards, job, drain, disk, born>>
    BY <1>1 DEF vars, outside, disk
  <2>2. /\ feed' \in [Sources -> Nat] /\ fetched' \in [Sources -> Nat] /\ verdict' \in {NoVerdict} \union Found
        /\ (~up => verdict' = NoVerdict)
    BY <2>1 DEF IInv, Shape, Places
  <2> QED BY <2>1, <2>2, OutsideInv
<1>2. CASE \E s \in Sources : ProviderChanges(s) \/ Fetch(s) \/ Remove(s) \/ Probe(s)
                              \/ StartPublish(s) \/ StartDrop(s)
  BY <1>2, WorldInv, StartPublishInv, StartDropInv
<1>3. CASE StartVerdict \/ StartRotate \/ WriteFails \/ RetireFails
  BY <1>3, StartVerdictInv, StartRotateInv, WriteFailsInv, RetireFailsInv
<1>4. CASE JobStep
  BY <1>4, CompareInv, PutShardInv, PutIndexInv, RetireInv, MintOpensInv, MintSavesInv, AdvertiseInv,
     CopyShardInv, CopyIndexInv, CopyEndsInv DEF JobStep
<1>5. CASE DrainStep
  BY <1>5, StartDrainInv, PurgeInv, EndDrainInv DEF DrainStep
<1>6. CASE Crash \/ RestoreFile \/ BootInert \/ Resume
  BY <1>6, CrashInv, RestoreFileInv, BootInertInv, ResumeInv
<1> QED BY <1>1, <1>2, <1>3, <1>4, <1>5, <1>6 DEF Next

\* What the inductive invariant says holds of every drive, for any number of
\* sources, rotations, crashes and failing steps (events.js).
THEOREM Invariance == Spec => []IInv
<1>1. Init => IInv
  BY InitInv
<1>2. IInv /\ [Next]_vars => IInv'
  BY NextInv
<1> QED BY <1>1, <1>2, PTL DEF Spec

\* A shard written in the current epoch is there for as long as its index names
\* it (_publishShard writes the shard, then the index, then reclaims). Nothing is
\* said of a shard a rotation has copied: a copy that fails leaves its entry
\* without a blob until the next sync.
THEOREM ShardsReadable == Spec => []NamedIsReadable
<1>1. IInv => NamedIsReadable
  <2> SUFFICES ASSUME IInv, NEW s \in Sources, state.epoch # 0, index[state.epoch].names[s] > born
               PROVE  At(state.epoch, s, index[state.epoch].names[s]) # {}
    BY DEF NamedIsReadable
  <2>1. Filed(files[state.epoch], s, index[state.epoch].names[s]) BY DEF IInv, Revs
  <2>2. PICK f \in files[state.epoch] : f.src = s /\ f.rev = index[state.epoch].names[s] BY <2>1 DEF Filed
  <2>3. f \in At(state.epoch, s, index[state.epoch].names[s]) BY <2>2 DEF At
  <2> QED BY <2>3
<1> QED BY <1>1, Invariance, PTL

\* No drive is forgotten on disk (pendingPurge, the sweep of a boot).
THEOREM NoDriveForgotten == Spec => []NoOrphanEpoch
<1>1. IInv => NoOrphanEpoch
  BY DEF IInv, Places
<1> QED BY <1>1, Invariance, PTL

LEMMA OnlyPutChanges ==
  ASSUME IInv, [Next]_vars, up, up', NEW s \in Sources, shards[s].rev # 0, shards'[s].rev # 0,
         shards'[s] # shards[s]
  PROVE  PutShard
<1>1. CASE UNCHANGED vars
  BY <1>1 DEF vars
<1>2. ASSUME NEW t \in Sources,
             ProviderChanges(t) \/ Fetch(t) \/ Remove(t) \/ Probe(t) \/ StartPublish(t)
      PROVE  FALSE
  BY <1>2 DEF ProviderChanges, Fetch, Remove, Probe, StartPublish
<1>3. ASSUME NEW t \in Sources, StartDrop(t) PROVE FALSE
  <2>1. shards' = shards \/ shards' = [shards EXCEPT ![t] = NoShard]
    BY <1>3 DEF StartDrop
  <2>2. shards'[s] = shards[s] \/ shards'[s] = NoShard
    BY <2>1 DEF IInv, Shape
  <2> QED BY <2>2, NoShardParts
<1>4. CASE StartVerdict \/ StartRotate \/ WriteFails \/ RetireFails
  BY <1>4 DEF StartVerdict, StartRotate, WriteFails, RetireFails
<1>5. CASE JobStep
  BY <1>5 DEF JobStep, Compare, PutIndex, Retire, MintOpens, MintSaves, Advertise, CopyShard, CopyIndex, CopyEnds
<1>6. CASE DrainStep
  BY <1>6 DEF DrainStep, StartDrain, Purge, EndDrain
<1>7. CASE Crash \/ RestoreFile \/ BootInert \/ Resume
  BY <1>7 DEF Crash, RestoreFile, BootInert, Resume
<1> QED BY <1>1, <1>2, <1>3, <1>4, <1>5, <1>6, <1>7 DEF Next

\* Only a verdict given on the very feed that is published moves its isLive flag,
\* whatever was published between the probe and the verdict (applyLiveness, and
\* the carry-over of _publishShard).
THEOREM FlagsJudged == Spec => FlagIsJudged
<1> DEFINE Step(s) == (up /\ up' /\ shards[s].rev # 0 /\ shards'[s].rev # 0 /\ shards[s].live # shards'[s].live)
                        => /\ job.op = "verdict" /\ shards[s].feed = shards'[s].feed
                           /\ job.judged = shards'[s].feed
           A == \A s \in Sources : Step(s)
<1>1. IInv /\ [Next]_vars => A
  <2> SUFFICES ASSUME IInv, [Next]_vars, NEW s \in Sources, up, up', shards[s].rev # 0, shards'[s].rev # 0,
                      shards[s].live # shards'[s].live
               PROVE  /\ job.op = "verdict" /\ shards[s].feed = shards'[s].feed
                      /\ job.judged = shards'[s].feed
    OBVIOUS
  <2>1. PutShard BY OnlyPutChanges
  <2>2. /\ job.step = "put"
        /\ shards' = [shards EXCEPT ![job.src] = [rev |-> state.rev, feed |-> job.feed, live |-> job.live]]
    BY <2>1 DEF PutShard
  <2>3. job \in Writes BY <2>2, JobKinds DEF IInv
  <2>4. job.op \in {"publish", "verdict"} /\ job.src \in Sources /\ job.op # "rotate" BY <2>3, WriteParts
  <2>5. s = job.src /\ shards'[s].live = job.live /\ shards'[s].feed = job.feed
    BY <2>2, <2>4 DEF IInv, Shape
  <2>6. Judged(job) /\ Carried(job) BY <2>2, <2>4, Steps DEF IInv, JobFits
  <2> QED BY <2>4, <2>5, <2>6 DEF Judged, Carried
<1>2. Spec => [][A]_vars
  <2>1. IInv /\ [Next]_vars => [A]_vars BY <1>1
  <2> QED BY <2>1, Invariance, PTL DEF Spec
<1> QED BY <1>2 DEF FlagIsJudged

\* A sync that succeeded leaves viewers reading what it fetched, as long as no
\* write of an index fails (_publishShard, the copy of a rotation).
THEOREM SyncedShown ==
  ASSUME {"index", "copyIndex"} \intersect Faulty = {}
  PROVE  Spec => SyncedIsShown
<1> DEFINE Done(s, f) == up /\ up' /\ job.step \in {"compare", "retire"} /\ job' = Idle
                           /\ job.op = "publish" /\ job.src = s /\ job.feed = f
           A == \A s \in Sources, f \in Feeds : Done(s, f) => Shown(s, f)'
<1>1. ASSUME IInv, [Next]_vars, NEW s \in Sources, NEW f \in Feeds, Done(s, f)
      PROVE  Shown(s, f)'
  <2> DEFINE e == state.epoch
             r == index[e].names[s]
  <2>1. job # Idle BY <1>1, Steps
  <2>2. /\ e # 0 /\ e \in Epochs /\ pointer = e /\ shards[s].rev \in Nat
    BY <1>1, ShardParts, StateParts DEF IInv, JobAt, PointerFits
  <2>3. Compare \/ Retire \/ RetireFails
    <3>1. CASE UNCHANGED vars BY <1>1, <2>1, <3>1 DEF vars
    <3>2. ASSUME NEW t \in Sources, ProviderChanges(t) \/ Fetch(t) \/ Remove(t) \/ Probe(t)
                                    \/ StartPublish(t) \/ StartDrop(t)
          PROVE  FALSE
      BY <1>1, <2>1, <3>2 DEF ProviderChanges, Fetch, Remove, Probe, StartPublish, StartDrop, Resting
    <3>3. CASE StartVerdict \/ StartRotate \/ WriteFails
      BY <1>1, <2>1, <3>3 DEF StartVerdict, StartRotate, WriteFails, Resting
    <3>4. CASE JobStep
      BY <1>1, <3>4 DEF JobStep, PutShard, PutIndex, MintOpens, MintSaves, Advertise, CopyShard, CopyIndex,
                        CopyEnds, Copying
    <3>5. CASE DrainStep
      BY <1>1, <2>1, <3>5 DEF DrainStep, StartDrain, Purge, EndDrain
    <3>6. CASE Crash \/ RestoreFile \/ BootInert \/ Resume
      BY <1>1, <2>1, <3>6 DEF Crash, RestoreFile, BootInert, Resume
    <3> QED BY <1>1, <3>1, <3>2, <3>3, <3>4, <3>5, <3>6 DEF Next
  <2>4. SUFFICES \E g \in files'[e] : g.src = s /\ g.rev = r /\ g.feed = f /\ pointer' = e /\ index' = index
    <3>1. PICK g \in files'[e] : g.src = s /\ g.rev = r /\ g.feed = f /\ pointer' = e /\ index' = index
      BY <2>4
    <3>2. g \in At(pointer, s, index[pointer].names[s])' BY <2>2, <3>1 DEF At
    <3> QED BY <2>2, <3>1, <3>2 DEF Shown
  <2>5. CASE Compare
    <3>a. job \in Writes /\ "put" \in Early \union Late
      BY <1>1, <2>5, JobKinds, Steps DEF Compare, IInv
    <3>b. [job EXCEPT !.step = "put"].step = "put" BY <3>a, WriteGoes
    <3>1. SameBytes /\ UNCHANGED <<files, index, pointer>>
      BY <1>1, <2>5, <3>b, Steps DEF Compare, Then, disk
    <3>2. PICK g \in At(e, s, job.prev) : g.feed = f BY <1>1, <3>1 DEF SameBytes
    <3>3. g \in files[e] /\ g.src = s /\ g.rev = job.prev BY <3>2 DEF At
    <3>4. g.rev \in Nat \ {0} BY <1>1, <2>2, <3>3, FileParts DEF IInv
    <3>5. job.prev = shards[s].rev BY <1>1, <2>5, Steps DEF Compare, IInv, JobFits
    <3>6. Speaks = e BY <2>5 DEF Compare, Speaks
    <3>7. r = shards[s].rev
      BY <1>1, <2>5, <3>3, <3>4, <3>5, <3>6 DEF Compare, IInv, IndexFits, Agrees
    <3> QED BY <2>2, <3>1, <3>2, <3>3, <3>5, <3>7
  <2>6. CASE Retire \/ RetireFails
    <3>1. job.step = "retire" BY <2>6 DEF Retire, RetireFails
    <3>2. /\ shards[s] = [rev |-> shards[s].rev, feed |-> f, live |-> job.live]
          /\ shards[s].rev > job.prev /\ File(s, shards[s]) \in files[e] /\ r = shards[s].rev
      BY <1>1, <3>1, Steps DEF IInv, JobFits
    <3>3. pointer' = pointer /\ index' = index BY <2>6 DEF Retire, RetireFails, disk
    <3>4. job.prev \in Nat BY <1>1, <3>1, LateParts, Steps
    <3> DEFINE g == File(s, shards[s])
    <3>5. g.src = s /\ g.rev = shards[s].rev /\ g.feed = shards[s].feed BY DEF File
    <3>6. shards[s].feed = f BY <3>2
    <3>7. g \notin At(e, job.src, job.prev) BY <2>2, <3>2, <3>4, <3>5 DEF At
    <3>8. files' = [files EXCEPT ![e] = @ \ At(e, job.src, job.prev)] \/ files' = files
      BY <2>6 DEF Retire, RetireFails, disk
    <3>9. g \in files'[e] BY <1>1, <2>2, <3>2, <3>7, <3>8 DEF IInv, Shape
    <3> QED BY <2>2, <3>2, <3>3, <3>5, <3>6, <3>9
  <2> QED BY <2>3, <2>5, <2>6
<1>2. IInv /\ [Next]_vars => A
  BY <1>1
<1>3. Spec => [][A]_vars
  <2>1. IInv /\ [Next]_vars => [A]_vars BY <1>2
  <2> HIDE DEF A
  <2> QED BY <2>1, Invariance, PTL DEF Spec
<1> QED BY <1>3 DEF SyncedIsShown
=============================================================================
