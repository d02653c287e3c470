# A TLA+ model of Aliran

Aliran is a peer-to-peer streaming system: a **panel** owns accounts, the catalog and
the entitlements in a signed, append-only key/value bee that every viewer replicates;
**broadcasters**, **repeaters**, the **library** and the **EPG** service produce, relay and
index content and register with the panel; a **reseller** service sells accounts for
credits on top of the panel's admin API; viewers use the **SDK** in a desktop or mobile app.

This directory holds TLA+ models of the parts of it that decide something under
concurrency or failure, the TLC configurations that check them on small instances, and
proofs of the properties that matter most for every value of the constants.

Contents: [the system](#the-system) · [the modules](#the-modules) · [the runs](#the-runs) ·
[fairness](#fairness) · [the proofs](#the-proofs) · [where code and intent
differ](#where-the-code-and-what-is-said-of-it-differ) · [not modelled](#what-is-not-modelled)
· [plan](#plan) · [running it](#running-it)

## The system

| part | source | state it keeps | operations | what is hard about it | what makes it correct |
|---|---|---|---|---|---|
| viewer accounts and sign-in | panel/src/rpc.js, panel/src/ops.js, core/session.js | `user/<name>` and `seen/<name>` in the bee | sign-in, create, delete, password, status, device limit, grants, device revocation | sign-ins under compare-and-swap race operators' plain read-then-put; undo of a resurrected record | a sign-in changes only its own device slot; limits hold at every write; what was disabled or logged out stays so |
| packages | panel/src/packages.js | secrets/packages.json, the grants of every account | define, assign, reconcile | a bulk pass that rewrites every account from a snapshot | grants are those of the packages, in the end |
| reseller ledger | reseller/src/ledger.js, control-server.js, control-auth.js, store.js, roles.js, reseller-cli.js | ledger.jsonl, balances in memory, principals, webhook ids | mint, transfer, reclaim, adjust, top-up, debit, delete | killed in an append; a second process; retried webhooks | no overdraft; nothing acknowledged is lost; one credit per payment |
| reseller accounts and sweeps | reseller/src/accounts.js, sweeps.js, panel-client.js | accounts.json, intents.json | activate, trial, renew, suspend, resume, delete, sweeps | money and a remote panel, neither transactional; calls that land late | coverage is paid for; what lapses ends; no orphan users |
| stream registration | broadcaster/src/panel-link.js, register.js, panel/src/rpc.js, panel/src/blobs-key.js | `catalog/<id>`, a challenge per connection, a queue per broadcaster | register, heartbeat, relookup, enrich, edit, delete, scope | one-shot challenges, latest-state-wins queue, three writers of one record | the catalog shows only what was wished for, and a running channel in the end |
| broadcaster channels | broadcaster/src/channel.js, core/store-gc.js | channels.json, a run per channel, one Corestore each | add, start, stop, update, remove, rotate, collect, boot | starts that await six times, a stop that frees the run before it is torn down, a collector that must know who still reads | what is held is kept; a purged feed never comes back while the channel stays registered; the catalog follows the run |
| the watchdog of a channel | broadcaster/src/channel.js | timers, backoff, counters of failures | look, respawn, failover, slate | counters reset by each other's evidence | a source that works is found; a channel without one shows the slate |
| imported sources | panel/src/sources.js, panel/src/ops.js | sources.json, secrets, catalog records, grants | sync, edit, remove, detach, purge | long passes of awaits over records others write | a purge revokes; no channel of a removed source stays; the catalog follows the feed |
| events drive | panel/src/events.js | one epoch drive each, an index, a purge list, a pointer, events-epoch.json | publish, judge, drop, rotate, drain, boot, sweep | a crash between the state file, the copy and the pointer; purges that must not take a live epoch | what the index names can be read; no drive is forgotten |
| programme guide | epg/src/guide.js | one epoch drive each, a purge list | ingest, rotate | as the events drive | as the events drive |
| liveness prober | panel/src/liveness.js | last verdict per stream | probe, demote | judges a snapshot | a verdict lands on what was judged |
| repeater | repeater/src, core/bee-watch.js | mirrors, tails, live ranges, arms in flight | follow, open, arm, sweep, drop, restart | ticks during a pass, arms that outlive their mirror | the mirrors follow the catalog; each window is bounded |
| library | library/src | titles on disk, drives | ingest, publish, remove | partial failure of an ingest | one generation, whole |
| core helpers | core | - | tokens, pairing, atomic writes | - | - |
| SDK player and local server | sdk | playback session, sign-in handover | play, switch, recover, pair | many async paths over one player | - |
| apps, dashboards, command lines | client, desktop, panel/admin-ui, broadcaster/control-ui, mcp | - | presentation | - | - |

How they interact. Every service of the operator's side is one Node process: between two
awaits its code runs alone, and every await is a point where any other handler may run.
The panel writes the bee; everybody else reads a replica of it and writes through the
panel's RPC (`register`, `login`, `session`) over a Hyperswarm connection, or through its
HTTP admin API. The reseller service calls that API and keeps its own files. A broadcaster
has one queue of registrations, one connection to the panel at a time, and one object per
channel.

So the models take one step per stretch between awaits, name every request in flight with
what it has read so far, and let any of them move next.

## The modules

| module | code it stands for | depends on |
|---|---|---|
| `PanelAccounts` | the `session` responder of rpc.js; the account operations of ops.js; packages.js's rewrite of grants | - |
| `CreditLedger` | ledger.js; the credit routes, principals and webhook of control-server.js; store.js's mutex; the CLI mint | - |
| `ResellerAccounts` | accounts.js, sweeps.js, panel-client.js; the panel as a set of users | credits as one number per principal: `CreditLedger` says how they are kept |
| `StreamRegistration` | panel-link.js, register.js; the calls of channel.js into it; the `register` responder; blobs-key.js; setMeta, deleteStreams and publisher scopes of ops.js | refines `CatalogPublication` |
| `CatalogPublication` | the abstract promise of the catalog | - |
| `BroadcasterChannel` | the manager and the runs of channel.js; store-gc.js | its `link` is what `StreamRegistration` calls a wish |
| `ChannelWatchdog` | inside one run: `_watchdog`, `_scheduleRespawn`, `_pickSource`, the slate of channel.js | the run of `BroadcasterChannel`, one respawn at a time |
| `EventsDrive` | events.js; the sweep of store.js; what sources.js and liveness.js ask of it | - |
| `SourceSync` | syncSource, setSource, addSource, removeSource of sources.js; deleteStreams of ops.js; the grants pass | - |
| `Repeater` | repeater/src/index.js, bee-watch.js; the panel's bee and pointers as seen by a replica | follows the catalog `StreamRegistration` writes and the pointer `EventsDrive` advertises |
| `*Proofs` | theorems about the module they are named after | TLAPS |
| `MC*` | constants, symmetry sets and instances for TLC | TLC |

### PanelAccounts

One account. A record of the bee is a node `[val, seq]`, `seq` the number the block got
(`len` counts them), or `NoNode`. A sign-in walks `decide` (the enrolment is read: current
entries, the limit, who goes), `put` under compare-and-swap, then `reread` if it lost,
`undo` if it found no key and so brought a deleted record back, then the day stamp of the
`seen` map (`stamp`, `stampPut`, `reseen`), and returns a token. An operator's operation is
a read and a plain put of the whole record with its change applied (`Outcome`); deletion is
two deletes. `auth` numbers the key pairs of an account: it is the identity by which a
re-created account differs from the one before it. `SessionRead` stands for a login that
proved the password of the record as read: the OPRF and the challenge arithmetic are
left out.

The recency by which a device is evicted is a day stamp, and so many devices may tie:
`Decisions` is the set of what the code may decide, each tie both ways.

### CreditLedger

The file is a sequence of lines, a line a transaction or `Garbage` (it does not parse),
`open` says whether its last line lacks the newline. An append writes `Glued(line)`: a new
line, or, onto an unterminated one, garbage. The boot scan is `Scans` (may the service
start) and `DropTail` (what it keeps). A request checks what the code checks before the
mutex when it arrives, queues on `chain`, and checks the rest in its `Turn`; the debit of an
activation holds the mutex across its panel call. The CLI opens the file the way a boot
does and appends, as a process of its own.

### ResellerAccounts

The registry is modelled twice, `mem` and `disk`; the panel is what the service can see of
it, a user that is absent, active or disabled. A call is `call` while a handler waits for
it; a call that is given up joins `late` and lands or never does. The `expires` clock counts
ticks of more than a minute, so that an intent older than the grace is one a tick has seen,
and a call that was given up lands before the next tick (the client aborts after seconds).
Both sweeps look at the registry outside the mutex and act inside it, as the code does, and
hold record objects across that wait: `Held` is what such an object shows once the name has
been used again. There is one expiry sweep and one reconcile sweep at a time: the timer of
each is armed again when it ends (the routes that start one by hand are left out). `Scope` stands for roles.js's scoping rules.

### StreamRegistration

The broadcaster's side: `chan` (running, wanted after a boot, generation of the feed),
`order`/`asked`/`pending`/`acked` (the Map of `PanelLink`, its desired states, deliveredSeq
< seq, `live`), `proc` the one delivery in flight, `link`, and which timers are armed. The
numbers `seq` and `deliveredSeq` are abstracted to what is done with them: `pending`, and
`current`, which the cycle in flight loses when somebody asks for something newer. The
panel's side: per connection, whether the challenge of the last hello is still unused
(`held`), and the responder at work (`resp`); the record; `secret`, whether the secrets file
has the stream's key; `scope` of the publisher; one enricher job per stream (`enr`); one
operator (`adm`). The three writers of a record each read it, await and put it whole, so
each can be overtaken by the others.

A registration carries liveness and feed as one wish, `ver` numbers wishes for the
history variables `landed` and `ever`. The blobs key of feed *f* is written *f*: what
matters is which feed it was read from. `title` stands for all the operator may edit.

`CatalogPublication` is the abstract machine: a set of wishes that grows, and a display that
shows nothing or one of the wishes, whole. `Publication == INSTANCE CatalogPublication WITH
...` maps `shown` to the liveness and the feed of the record, `wished` to `ever`.

Left out of it: proof of work and signatures (a register with the challenge of its own
connection verifies, any other does not), a publisher's status and key, a resume of a
channel that fails, the edits of feed and liveness that setMeta allows, and the links of
the library and the EPG service, which are copies of the same class.

### BroadcasterChannel

One disk-buffered channel. `meta` is the channel as the manager holds it and `saved` what
channels.json has of it; a generation of the feed stands for its key, its topic and its cores
(`cores`, of which `spoilt` are truncated). `run` is the generation the run serves. A start
walks `assert`, `drive`, `join` and is then a run; each step is a stretch of `start` between
awaits, and another start, a stop, an update or the shutdown may come between. `store` is the
lock of the Corestore, which a start that fails late leaves open (`leaked`). A rotation walks
`mint`, `announce` and commits; the generation it retires is in its `grace`, then `closing`.
`PeriodicGc`, `RetiredCloses` and `StartDone` are the three callers of the collector. `link`
is the last thing the channel said to `PanelLink`. A channel that was removed may be added
again (`add`, `key`): the store of the one before it is still on disk, and the new one is back
at the first generation, whose key is that of old. `aired` and `gone` begin anew then, so that
`NoRebirth` speaks of one life of the channel in the registry; across a removal a generation
that was shown and purged *is* opened again (see below). The addition waits until
nothing of the removed channel is on its way (`Vacant`).

### ChannelWatchdog

One unit of time is one look (`Look`), four seconds. Between looks an ffmpeg whose source is
dead exits and a respawn that is due fires. A respawn is armed by the look that finds ffmpeg
gone, and its backoff runs beside the next looks: `Races` says when the two fall together.
At four seconds both timers are armed in the same callback, the respawn first, so it
always comes before that look; at 8 and 16 either may; 1, 2 and 30 seconds end between looks. A
look that races the respawn (`racing`) may find the new ffmpeg alive before it has exited,
with the playlist of the process before and nothing `seen` (`lastSig`), and then takes it for
progress. Ages are counted in looks up to the largest bound they are compared with.
A source is good, dead (ffmpeg exits within two seconds) or hangs (runs and writes nothing), and
may change. Timers are punctual to less than two seconds: that, and the two seconds of an
exit, are what the model takes from the machine.

### EventsDrive

`cores` are the epochs on disk, `files[e]` the shards in the drive of epoch *e* (a source, a
revision, the feed it was mapped from, one `live` flag), `index[e]` its index.json, `pointer`
what the bee advertises. `shards` is what the panel has in memory, `state` the epoch, revision
and purge list of events-epoch.json, which a crash may lose (`lost`). All mutations pass
`_serialize`, so at most one `job` is at work; the purge of retired epochs (`drain`) runs
beside it. A verdict of the prober carries the feed it was asked of (`judged`), and
`Stale` drops it when another is published by then. A publication walks `compare`, `put`, `index`, `retire`; a rotation `mint`, `save`,
`advertise`, `copy`. Each step in `Faulty` may fail where the code has a `catch` or throws.
A boot loads the larger of what the state file and the drive know (`Resume`).

### SourceSync

One source, one user; a key is the number of its minting. The sync is a chain of snapshots:
the registry (`fetch`), the catalog (`scan`), the secrets (`Mint`), the users (`grant`); what
each step writes is computed from what an earlier one read. `deleteStreams` is a machine of
its own with three callers that may overlap: it looks for the records first (`PurgeChecks`,
where a missing one ends the sync that asked, and only a removal goes on), then strips,
erases and forgets. A removal that keeps the channels reads each record and puts it back
without the source (`DetachReads`, `DetachPuts`). The flags `BusyEdits` and `BusyDeletes` say
which schedules of the operator an instance looks at.

### Repeater

A core of a channel is `<<stream, feed, db or blobs>>`. `mirror` is `_mirrors`; `tail` what
is kept of a core that is followed (armed, cleared up to, the mark of the next sweep); `arms`
the `_armTail`s in flight (`open`, `await`, `clear`), each with the flag that the drop of its
mirror sets; `range` the live download range; `sweep` the clear in flight. `rec` is the
reconcile pass (`read`, `purge`, `get`, `open`, `ending`): it reads the catalog, purges what
is not wanted, reads the pointers, opens what is missing. The watch tells of a change only
while it is armed, and a tick between the end of a pass and its `.finally` is lost until the
periodic one. `known` and `held` are on disk and survive a restart, everything else is
memory. A length is learned some time after the block was appended (`Learn`); time is told
in retention periods (`Elapse`).

## The runs

Every run names its bounds in the `.cfg`. Each was chosen as the smallest instance in which
the hazards it is about happen, and each property has a mutant of the code (a definition of
the module and its changed form, listed in PROJECT.json) that the same run finds violating it.

| run | what is in it | bounds | what it shows |
|---|---|---|---|
| `accounts_sign_in_races` | two sign-ins, one operator with every operation, a fresh record and one an older build left | 2 devices, limit 1 or 2, two tries, no request starts after the 5th block, 2 days | a winning sign-in touches only its own slot (`SessionPutOwnsOnlyItsSlot`), the limit holds at every write, the undo deletes only what is dead, no stamp of a sibling is lost, no sign-in takes a disable back |
| `ledger_crashes` | two requests over root, super and reseller, one payment event, kills in and between appends, failed appends, offline mint | 3 lines, amounts of 1 | `AckedSurvives`, `CanStart`, `MemoryIsTheFile`, `TopUpOnce` |
| `reseller_ops` | two requests of all kinds, both sweeps, one name of the service and one of the panel's operator, a failed append | 1 credit, months of 2 ticks, 2 ticks, 2 records | `NoOverdraft`, `RefundsWithinPaid`, `DeletedStaysDeleted` |
| `reseller_faults` | one request at a time, repairs on, bulk suspension by an admin, one fault: a kill at any point, a call without an answer, a slow creation | 2 ticks, 1 record | `CoverageIsGranted`, `LapsedIsCutOff`, `SuspendReachesAll` |
| `registration_faults` | one stream, two connections, start, stop, rotate, one operation of the operator, one fault of any kind | 2 operations, 2 generations | `BlobsKeyBesideItsFeed`, `RegisteredIsWritten`, and the refinement of `CatalogPublication` |
| `registration_live` | two channels that run, one out of the publisher's scope, one fault | 1 operation of the broadcaster's, none of the panel's operator | `LiveIsShown`, `EnrichedInTheEnd` |
| `channel_life` | two operators and the resume pool, all operations, the channel removed and added again, crashes that spoil what is open, refused and failing starts | 5 generations, 2 sources, 5 operations, 2 faults | `HeldIsKept`, `NoRebirth`, `CatalogFollows`, `CutOver`, `Resumes` |
| `channel_watchdog` | two sources of every kind that change twice | the defaults of the code in looks (a primary retry of 75 is five minutes), but a slate after 2 failures per source instead of 3 | while none hangs viewers are never dark for more than 16 + 8 * `Threshold` looks (`DarkIsBounded`; here 48, and a trace reaches it), a good source is found (`GoodIsFound`), all dead ends in the slate (`DeadEndsInSlate`) |
| `channel_watchdog_hangs` | three sources that do not change | the defaults | the finding below |
| `events_epochs` | one source, two feeds, every failing step, a crash that may take the state file | 3 epochs, 2 faults, 2 changes, 1 crash | `NamedIsReadable`, `NoOrphanEpoch`, `FlagIsJudged`, `SyncedIsShown` |
| `source_sync` | two channels, feeds, exclusions, removal by purge and by detaching, deletions, a crash at any step | 3 changes, 1 crash | `NoZombie`, `GrantsFit`, `PurgeRevokes`, `Converges` |
| `repeater_follow` | a channel and the guide, rotation, removal, late blobs key, truncation of the bee; a restart, a failed read, a core that does not open, or a read never answered | 2 feeds, 1 block each, 2 changes, 1 fault | `WindowIsBounded`, `NoGhostRange`, `Follows`, `Expires` |

Why the bounds are enough. Two requests (and in `ResellerAccounts` two sweeps beside them)
are what it takes to get between the read and the write of one; a third would only repeat
the pattern of overtaking. A limit of one with two devices evicts, a limit of two does not.
Three lines let a torn line be followed by a repair and an append, and give the boot scan a
middle line. Two generations of a feed tell a rotated feed from the one before it; a channel
gets five, since a source change, a spoilt core and two rotations each take one. Two
connections give an orphaned responder and its successor. Three epochs of a drive are the
current one, the one in its grace and the one before it, which is purged. A third change of a
source lets a channel go, come back and go again. What the proofs cover does not depend on
any of these numbers.

A bound on time or on blocks stops new requests, never one in flight, so nothing is answered
only because a bound hid it. `CHECK_DEADLOCK FALSE` stands in most cfgs for that reason: at
the bound the system comes to rest.

Further instances, run by hand. `MCPanelAccountsReject` (policy `reject`, accounts over their
limit: `RevisionInv`, `NeverSilentlyBack`, `SignInAnswered`), `MCCreditLedgerOwners` (the
other ledger invariants without payments), `MCCreditLedgerTopUps` (two events without kills:
`TopUpOnce`, `TopUpCredited`, `Served`), `MCResellerAccountsJournal` (without faults:
`JournalBrackets`, `PromiseKept`, `ForeignUntouched`), `MCResellerAccountsBulk` (two accounts,
repairs off: the only instance in which the loop of a bulk suspension turns twice; the run
`reseller_faults` has one account), `MCRepeaterTwo` (two channels: `NoStrayCore`, `YoungIsKept` as well) hold.
`MCCreditLedgerTornEnd`, `MCResellerAccountsOrphan`, `MCResellerAccountsStaleSweep`,
`MCResellerAccountsForeign`, `MCResellerAccountsUnbracketed`, `MCPanelAccountsBack`,
`MCCreditLedgerCoAdmin`, `MCBroadcasterChannelFresh`, `MCSourceSyncEdit`,
`MCEventsDriveLeak`, `MCRepeaterOpen`, `MCRepeaterPark` and `MCRepeaterStorage` each end in the
counterexample described below.

## Fairness

- Sign-ins and requests (`SessionStep`, `Serve`): weak. A handler that has been awaited runs
  on; calls to the bee return; a call to the panel returns or is aborted by its timer
  (panel-client.js:38).
- The sweeps: weak. Their timers are armed again when a pass ends, failed or not.
- The registration queue: weak on `LinkStep`, since its timers are Node timers, and on the
  panel's responders. Weak on a connection only *while the relookup timer is armed*: the
  link looks for the panel only then (panel-link.js:264), and the panel is found in the end.
  Strong on nothing but a probe of a feed that is being served: a peer that serves is found
  in one attempt or another (blobs-key.js:53).
- `Heartbeat` is weak and needs the queue to have drained: it comes every five minutes
  (HEARTBEAT_MS), a retry every two seconds.
- A restart of the panel is one step with the sweep of the enricher (index.js:142): it reads
  the records as the panel announces itself, before anybody has found it again.
- A channel: weak on the steps of a start, a stop, a rotation and the boot, which are what an
  event loop has begun. Nothing is fair about a rotation that is due, and a start that failed
  is repeated by nobody: so `Resumes` speaks of a boot after which no fault comes.
- The watchdog: weak on `Look`, an interval, on the respawn timer and on the exit of an ffmpeg
  whose source is dead.
- A source: the scheduler starts syncs of an enabled source for ever (weak), the provider
  answers now and then (strong: it may fail as often as it likes in between).
- The events drive has no liveness property, and none is assumed fair.
- The repeater: weak on the pass, the watch, the periodic tick, the arms and the sweep.
- Nothing is fair that a person does.

`LapsedIsCutOff` after a fault needs the repair (`RECONCILE_REPAIR`): without it a disable
that the panel never heard stays unheard, as docs/reseller-panel.md says of the
default. `MCResellerAccountsBulk` has the repair off and no fault on the wire.

## The proofs

| theorem | module | of | provided |
|---|---|---|---|
| `TypeInvariant` | PanelAccountsProofs | `Spec => []TypeOK` | the assumptions of the module |
| `RevisionInvariant` | PanelAccountsProofs | `Spec => []RevisionInv` | the same |
| `SessionPutSafety` | PanelAccountsProofs | `Spec => SessionPutOwnsOnlyItsSlot` | the same |
| `DeviceLimit`, `SiblingStamps` | PanelAccountsProofs | `Spec => DeviceLimitAtWrite`, `SiblingStampKept` | the same |
| `UndoSafety`, `DisableSafety` | PanelAccountsProofs | `Spec => UndoDeletesOnlyTheDead`, `DisableSticks` | one operator at a time (`OneOperator`) |
| `NothingSilentlyBack` | PanelAccountsProofs | `Spec => []NeverSilentlyBack` | operators only create and delete (`OnlyRemakes`) |
| `TypeInvariant` | CreditLedgerProofs | `Spec => []TypeOK` | the assumptions of the module |
| `SequenceInvariant` | CreditLedgerProofs | `Spec => []SeqGrows` | nobody mints with the CLI on a running service |
| `Durability` | CreditLedgerProofs | `Spec => []AckedSurvives` | no line without its newline, no fragment of a failed append |
| `RestartAllowed` | CreditLedgerProofs | `Spec => []CanStart` | the same |
| `MemoryFollowsFile` | CreditLedgerProofs | `Spec => []MemoryIsTheFile` | the same, and nobody mints with the CLI on a running service |
| `Solvency` | CreditLedgerProofs | `Spec => []NoOverdraft` | the same three, and no correction that takes (`Adjusts \subseteq Nat`) |
| `TopUpsCredited` | CreditLedgerProofs | `Spec => TopUpOnce` | the assumptions of the module |
| `DuplicatesCredited` | CreditLedgerProofs | `Spec => []TopUpCredited` | those of `Durability` |
| `NothingLeftBehind` | CreditLedgerProofs | `Spec => []CreditsHaveAnOwner` | those of `Solvency`; one admin, who alone creates, and no payments (`OneAdmin`) |
| `TypeInvariant`, `NoDebt`, `PromisesSurvive` | ResellerAccountsProofs | `Spec => []TypeOK`, `[]NoOverdraft`, `[]PromiseKept` | the assumptions of the module |
| `SuspensionComplete` | ResellerAccountsProofs | `Spec => SuspendReachesAll` | the same (the property speaks of a suspension that met no fault) |
| `DeletedForGood` | ResellerAccountsProofs | `Spec => DeletedStaysDeleted` | no call to the panel goes unanswered |
| `RefundSafety` | ResellerAccountsProofs | `Spec /\ []AdminsGiveNothing => []RefundsWithinPaid` | a trial is shorter than a month |
| `NoFreeTime` | ResellerAccountsProofs | `Spec => []CoverageIsGranted` | no append fails |
| `JournalSafety` | ResellerAccountsProofs | `Spec => []JournalBrackets` | nothing goes wrong but calls that are not answered |
| `ForeignSafety` | ResellerAccountsProofs | `Spec => []ForeignUntouched` | no kills, or repairs off |
| `TypeInvariant`, `BlobsKeySafety` | StreamRegistrationProofs | `Spec => []TypeOK`, `[]BlobsKeyBesideItsFeed` | the assumptions of the module |
| `RegisteredSafety` | StreamRegistrationProofs | `Spec => []RegisteredIsWritten` | the same |
| `CatalogRefinement` | StreamRegistrationProofs | `Spec => PublicationSpec` | the same |
| `TypeInvariant`, `HeldKept`, `NeverReborn`, `CatalogTrue` | BroadcasterChannelProofs | `Spec => []TypeOK`, `[]HeldIsKept`, `[]NoRebirth`, `[]CatalogFollows` | the assumptions of the module |
| `CutOverSafe` | BroadcasterChannelProofs | `Spec => CutOver` | the same (`NoRebirth`: since the channel was last added) |
| `WatchdogTypeInvariant`, `DarkEnds` | BroadcasterChannelProofs | `W!Spec => []W!TypeOK`, `[]W!DarkIsBounded`, `W` an instance of `ChannelWatchdog` | the assumptions of that module |
| `Invariance`, `ShardsReadable`, `NoDriveForgotten`, `FlagsJudged` | EventsDriveProofs | `Spec => []IInv`, `[]NamedIsReadable`, `[]NoOrphanEpoch`, `FlagIsJudged` | the same |
| `SyncedShown` | EventsDriveProofs | `Spec => SyncedIsShown` | no write of the index fails |
| `TypeInvariant`, `NothingDroppedWorks`, `WindowsBounded`, `NothingStray` | RepeaterProofs | `Spec => []TypeOK`, `[]NoGhostRange`, `[]WindowIsBounded`, `[]NoStrayCore` | the same |
| `YoungBlocksKept` | RepeaterProofs | `Spec => YoungIsKept` | the same |
| `TypeInvariant`, `ZombieFree` | SourceSyncProofs | `Spec => []TypeOK`, `[]NoZombie` | nothing beyond the module's assumptions |
| `GrantsOpenTheirChannel`, `Revocation` | SourceSyncProofs | `Spec => []GrantsFit`, `PurgeRevokes` | no single channel is deleted while the source is synced or removed |

**Sign-ins.** The compare-and-swap compares revision numbers, and the responder's claim is
about contents: that the put leaves everything an operator wrote. What connects the two is
`RevisionInv`: the record a sign-in holds is from a revision the bee has passed, and *if* the
current revision has that number, the current record *is* the one held; and what it is
about to put is the held record with its own slot. It is inductive together with `TypeOK`:
every write takes the number `len`, which is above all that is held. From it the action
property follows in one step, for any number of devices, sign-ins and operators.

The limit is a matter of counting: `DecisionLimit` says that whoever is evicted, and however
ties are broken, what a decision leaves has no more entries than the limit of the record it
was read from. `PutInv` carries that to the put, which rewrites the same record.
`SiblingStamps` rests on the same comparison as the sign-in, on the other map (`StampInv`): a
stamp that lands between the build of a map and its put changes the map's revision, so the
put loses. `UndoSafety` numbers the key pairs: once an account was deleted, each copy of it
that a sign-in or an operation still holds has a number of the dead (`DeadInv`), and a record
back from the dead means that none was minted since. This and `DisableSafety` need the proviso
on the operators: their puts compare nothing, so a second operator who read the record
before the first one's delete or disable puts it back whole.

`NothingSilentlyBack` is the other half of the undo: a record back from the dead is on its way
out again, or somebody was warned of it. `BackInv` ties the record that is back to the sign-in
that put it there, by its keys: only that sign-in will undo it, and no other write may take the
record over in between. An operator's put of a record read while it was back is such a write
(`MCPanelAccountsBack`), hence the proviso.

**The ledger.** A file of lines is handled as a function on `1..n` (`IsFile`), since an
append may replace its last element: `FileLength`, `AppendToFile`, `FrontOfFile`,
`GluedFile`, `DroppedTail` are what the rest stands on. `NextIsFileStep` reduces the
actions to the few things that may happen to the file, and the invariants are
proved of those. `SeqGrows` is strengthened to `SeqInv`: in memory, `nextSeq` is above every
line; the boot re-derives it from the last line (`NextAbove`, which rests on the growth
itself). `Durability` needs that the boot drops nothing but garbage; it holds only under
the provisos, and the instance `MCCreditLedgerTornEnd` shows that they are needed. `TopUpOnce`
is exclusion: who is past its look at the seen list holds the mutex (`MutexHeld`), and a
write that adds no line of an event counts none (`CountKept`).

A balance is a fold over the file. `BalanceSum` gives it a function of partial sums
(`IsSum`) to reason about, and what a line adds, what the boot keeps and what a
file without the line would have summed to are proved of that function, by taking the least
number at which a claim fails: induction in a form the prover can follow. `MemInv` says
that in memory are the sums of the file and the number after its last line; it rests on
`TailInv`, by which a running service has a file of whole lines only, and fails without it:
a balance that counts a line which is then lost. `Solvency` (`SolvInv`) adds that who was found
able to pay, and holds the mutex across the panel call, still is when the line is appended.

`DuplicatesCredited` follows the id of a payment backwards (`NotedInv`): what is in the list of
ids, or about to be put there, was credited by a line the service was told of, and `Durability`
says that such a line is in the file for good. `NothingLeftBehind` is about requests that were
let in before they queued: nothing inside the mutex looks up the one who asks. It rests on
who may be gone by then (`OwnInv`): a parent of somebody in the hierarchy is in it (`Rooted`), so
who may reclaim or delete is there to be credited; and a deletion past its line leaves an owner
with nothing and no child (`Leaving`), also when a kill comes before the save. `OneAdmin` names
what that argument needs; both ways to do without it end in a counterexample below.

**Reseller accounts.** `Shapes` types the state; `MutexHeld` says that only who has the turn is
past the checks it made then (`Engaged`), which is what the awaits inside the mutex are
worth. `NoOverdraft` follows with `Funded`: who was found able to pay, and waits for the panel,
still can, since nobody else debits. `CoverageIsGranted` is about the disk, which two
sweeps and the bulk operation save beside the requests: `Covered` follows the time
a record gives through memory. It was granted unless the account is being made right now,
and then no save can come between (`Quiet`); what the sweep holds across its wait is
a record of a known identity or a dead one (`Swept`). The proviso is the failed append, after
which memory promises what was not paid. `PromisesSurvive` needs none: neither memory nor
disk ever falls behind what was promised of the record (`Promised`), whatever fails.

`DeletedStaysDeleted` is about a record that a sweep picked and that was deleted before the
sweep had its turn. What keeps it dead is that the panel has no such user, so the sweep's
call is rejected and nothing is flipped (`Buried`). That is no longer so once a create which
nobody waits for may still land: it gives the sweep a user to disable, and the record comes
back. Hence the proviso; as far as the panel has answered, a late create can only be of a
name whose record is younger (`Young`). `RefundsWithinPaid` counts months: `PaidFor` says that a
live record has fewer whole months left than one more than were paid for it or are about to
be. Its provisos are what the code's arithmetic gives away: an admin's months cost nothing and
become credits when a reseller of the scope deletes the account, and a trial of a month or more
would be refunded as one. `SuspendReachesAll` needs that no account is skipped: as long as no
fault was met every live record has its user at the panel (`ReachInv`), so no call of the loop is
rejected; and the loop holds the mutex over all its calls, so that nothing is made or enabled
behind it.
The type invariant needs a fact of its own (`NameInv`), since a sweep writes through an object
it holds: what it holds was once made, and what was made has an owner.

`JournalSafety` and `ForeignSafety` rest on one fact about a set of names (`Tidy`): an intent of
such a name is that of a creation at work, too young for the reconcile sweep, which
therefore has none of those names in hand. Taken of all names, where only calls
without an answer go wrong, it keeps the sweep from closing the intent of a creation
(`Bracketed`); taken of the names that are not the service's, whose creations all end with the
panel's rejection, it keeps a repair from reaching those users (`ForeignInv`: no call that is
under way to one of them is anything but a creation, `SparesForeign`). A kill leaves an intent that stands
for no creation, and both fail (`MCResellerAccountsUnbracketed`, `MCResellerAccountsForeign`).

**Registration.** `Inv` follows a wish on its way: it is in the queue, then in the cycle that
delivers it, on the wire, at the responder, and in the record (`Sender`, `Keeper`); and it
follows every copy of a record that somebody has read and is about to put back. Each place
holds a pair of liveness and feed that was wished for, and wishes are only ever added
(`Grows`), so what a place holds stays good whoever else moves. `NextKeeps` shows more than
that the invariant is kept: a step either wishes and leaves the catalog alone, or puts one good
record (`Published`). The refinement is that fact read through the mapping: a wish is `Wish`,
a put is `Show`, `Hide` or nothing a viewer can see. `RegisteredIsWritten` is not inductive:
`Track` adds that what is on the wire belongs to the cycle in flight (`Paired`), also after a
connection was lost and a responder went on without it; that a cycle is current only while
its ask is the stream's (`CurrentIsAsked`); and that a broadcaster that is down has no
connection and no acknowledgement (`Links`). The type invariant comes with what the link relies on
without checking (`Lined`): a stream is in the queue once, what waits is in the queue, and a cycle in
flight is of a stream that waits. None of it depends on how many streams,
connections, faults or operations there are.

**Channels.** None of the four safety properties is inductive, since each is kept by facts about
others: the collector spares one generation only, so there must be no second one. `Holders`
says that the Corestore has one holder (a start, the run, or whoever tears it down): it is what
makes two overlapping starts, or a start that overlaps a stop, harmless, and it rests on the
store's lock alone. `Rotation` says what a rotation in flight may rely on once a stop has come
between, and `Numbers` that a generation that was shown is never above the registry's number,
on disk or in memory, and one that was purged strictly below it: so the next one opened is
new (`NoRebirth`), also after a crash that lost the last save. Both sets begin anew when a removed
channel is added again, and what the theorem says does not reach across that. `CutOver` is one step from
there. The steps that move nothing of this are one lemma (`FrameInv`).

**The watchdog.** The counters that decide when a viewer is left without anything new reset each
other, and a bound follows only from all of them together. `SlateShown` ties the flag to
what ffmpeg runs, and says that the slate dies of its age alone. A failure doubles the backoff,
and a look that races a respawn takes the failures back to zero: what ends that game is that
nothing takes the backoff down again while the channel is dark, and that its largest value is
raced by no look (`TimerParts`). So from there on every failure counts. `Spent` says how long
the channel has been dark at most when it is found dead with a backoff and a number of failures,
and `DarkParts` adds the wait that is under way. It holds for any number of sources and
any thresholds, failover and retry times; the seconds of a look and of the backoff are the
code's, and a backoff whose cap were a multiple of the look would leave no bound at all (the
mutant of `DarkIsBounded`). The watchdog is a machine of its own, and is reached through an
instance (`W`).

**Events.** `IInv` says where drives may be (`Places`), what the mutation at work may rely on
(`JobAt`, `JobFits`), that a revision is used once and that what memory or the index calls
published is in the drive (`Revs`). `ShardsReadable` speaks of the entries that were written in
the current epoch: one that a rotation copied over may be named without its blob when its copy
failed. `FlagsJudged` rests on `JobFits`: a verdict past the look at the shard judges the feed
that is published, since nothing else passes `_serialize` until it ends. `SyncedIsShown` needs in addition that the index
agrees with memory but for the source that is being written (`IndexFits`), which an index
write that fails breaks for good: hence the proviso, which the run shares.

**The repeater.** What has to be excluded is that something that runs in the background touches a
core that was dropped and taken up again. `Fit` says who still may: the tail of a mirror in
the map; of the arms of one core at most one that was not told to stop (`OneArm`); a sweep
whose bounds are the tail's own (`SweepFits`). `TailsHold` then carries the window across the
sweeps. The pass, whose variable part is two sets and three functions, is treated once
(`StartsKeep`, `PurgeKeeps`).

**Sources.** `NoZombie` is about a state at rest, and a removal passes through many that are not:
`Cleared` names who still has to take each channel of a source that is being removed, the
list to detach or the purge in flight, and that no sync runs from there on. It
holds whatever else the panel does. The grants need more, and the proviso: `Exclusive` says
that the purges, the sync and the removal exclude one another where they write from what
they read before (`OneActive`, `NoneActive`), so their snapshots are the
truth when they are written back (`PurgesFit`, `SyncFits`, and `Detaching` for a record a removal
has read); `Sealed` that a channel that is
there has no key or one minted after its last purge, so what a grant seals was never
revoked. A deletion of a single channel beside a sync breaks `Exclusive`, and the
instance with `BusyDeletes` shows that it breaks the properties too.

Only model-checked: what must happen under fairness, for which the prover has no rule
(`LapsedIsCutOff`, `LiveIsShown`, `EnrichedInTheEnd`, `Resumes`, `GoodIsFound`, `DeadEndsInSlate`,
`Converges`, `Follows`, `Expires`). Every other property of a run that is to hold is a
theorem. The hand-run instances check a few more: where the table above does not
name one, it is checked on its instance only.

## Where the code and what is said of it differ

One run expects a violation: `channel_watchdog_hangs`. A source that hangs (ffmpeg runs and
writes nothing) is killed and respawned; the respawn forgets the last playlist it saw
(channel.js:1323), so the first look at the new process finds the playlist of the old one,
takes it for progress, and clears the count of failures. The slate never comes back, and
docs/configuration.md:98 says "a still-dead source re-slates on the next failure".

A source that is dead meets the same line where a look races its respawn: one whose backoff is
four seconds, each time, and one of 8 or 16 by chance (channel.js:1230, 1288, 1300). When that is the
try out of the slate, the slate does not come back on the next failure either: the backoff
was put back to its base, the failures to zero, and both climb again with the channel dark. channel.js:1085-1097
calls that reset load-bearing for the viewer's dead air, which lasts as long as `DarkIsBounded` says.

More are in cfgs to run by hand:

- `MCCreditLedgerTornEnd`: a kill in an append can leave the whole line without its newline.
  The line parses, so the boot keeps it and leaves the file unterminated; the next
  transaction is glued to it, and the boot after that cuts off both (or, if more lines
  followed, refuses to start). ledger.js:20 says what a torn final line is meant to be.
- `MCResellerAccountsOrphan`: a crash between the panel's create and the save leaves an intent
  to chase, as it should. When the operator retries first, the panel answers `exists`, and
  the catch closes the intent for that error as for any other: nobody knows the user.
- `MCResellerAccountsStaleSweep`: the expiry sweep lists what is due outside the mutex and does
  not look again inside; an account renewed while the sweep queued is disabled, and no sweep
  enables it again.
- `MCResellerAccountsForeign`: an activation of a name that a user of the panel's own has opens
  an intent before it asks the panel; killed there, the intent stays, and the reconcile sweep with
  `RECONCILE_REPAIR` disables that user. sweeps.js:99 says that a user with an intent and
  no entry "is OUR orphan", docs/reseller-panel.md:275 that such users are "invisible to the
  reseller panel entirely".
- `MCResellerAccountsUnbracketed`: the sweep looks a stale intent up at the panel outside the
  mutex (sweeps.js:104) and closes it by name; an activation of the name that started
  meanwhile loses its own. accounts.js:51-53 says that an intent exists exactly while
  a creation is in flight.
- `MCPanelAccountsBack`: a sign-in put a deleted account back and is about to undo it; an
  operator's change read the record in that moment, and puts it after the undo. The account
  is back and nobody is told. rpc.js:348-360, which weighs this race, names only a rewrite
  *before* the undo, which is logged.
- `MCCreditLedgerCoAdmin`: the reclaim of a second admin authenticates, the first deletes that
  admin, and the reclaim in the queue credits who is gone: reclaim (control-server.js:759) looks
  up whose credits it takes and never the one who asks. deletePrincipal (control-server.js:698)
  takes the balance back so that nothing is left.
  `MCCreditLedgerOwners` with four clients, no faults and `Ops = {"mint", "delete", "create"}` finds
  the same of a super whose creation of a reseller was queued when it was deleted:
  `addPrincipal` (control-auth.js:109) does not ask whether the parent is there. The reseller
  has a parent that is gone, and its deletion, asked for by the same super in time, gives that
  one its credits.

Other behaviours the models reach, which no comment denies or which are the price of a choice
the code makes knowingly. They are why some properties are worded as they are.

Accounts. A retry of a sign-in decides again on the new record, but the password was proved
against the old one. A second sign-in may read a resurrected record before the undo and be
admitted. Operations of two operators (or an operator and the package pass) on one account
are read and plain put: the later put takes back the earlier one, and no property here says otherwise.
`DisableSticks` is checked and proved with one operator at a time; what it shows is that no *sign-in*
undoes a disable.

Ledger. A failed append that did write a part of a line leaves it open to be glued to
(`Durability` excludes it). `reseller-cli mint` on a running service gets a number the
service will also use, and memory does not follow the file (`MemoryIsTheFile` is checked with
offline mints, and says nothing of a CLI beside a running service). A kill between the credit of a payment event and the note of its id credits
twice when the provider retries (`TopUpOnce` speaks of what the service knows, and then it
knows of neither). A top-up may be
credited to a principal deleted while it queued (control-server.js:529).

Reseller accounts. A create that lands after it was given up closes its intent although the
user exists. A failed append leaves no intent behind and a paid panel user without a record
(`JournalBrackets` is checked without faults).
A save from an object that was held across the mutex brings a record back for as long as it
is not reloaded. A kill between a refund's line and the save refunds again on the retry; so
`RefundsWithinPaid` is checked without kills. `CoverageIsGranted` is checked without failed
appends, for the reason below. Deleting an account an admin renewed for free
refunds the months nobody paid. A failed append after the record was changed leaves time that
was not paid. With repairs on, a foreign user of the same name as a stale intent is disabled.
An operation authorised before the mutex may run on another reseller's account of the same
name. A desired status computed before the mutex may be stale when applied.

Registration. When a connection dies under a register, the responder at the panel goes on,
and may write after the newer state that a second connection delivered: an older state
overtakes a newer one until the next heartbeat or, for a channel that was stopped, until its
next change (panel-link.js:20 promises that stale state is never delivered; delivered it is
not, written it may be). The enricher's put, the operator's edit and the register read, await and
put whole records: each takes back what the others wrote in between. What holds regardless
is what the runs check: a blobs key never lands beside another feed, liveness and feed are
never mixed from two wishes, what is reported as registered was written once, and the state
of a running channel is in the end the one shown.

Channels. A change of the source does not always bring a new feed: a start whose drive was
opened before the change serves the old generation with the new source
(`MCBroadcasterChannelFresh`; channel.js:1946-1951 and docs/reference.md:213 say that each
source gets a fresh feed). A start that fails after it opened the store leaves it open, and no
other start of the channel succeeds until the process ends. When the next generation is
spoilt too, a start does not heal itself. The list of the resume pool is made at boot: a
channel an operator stopped meanwhile is started again, and one whose resume fails keeps the
"live" of the run before in the catalog until its next change. close() does not wait for a
start in flight; a remove that comes during a start leaves a run that nobody lists. Two
changes of the source during a rotation set the generation back by one; nothing shown or
purged is affected. A channel that is removed and added again under its id is back at
generation 1 of the store that was kept (channel.js:1882-1911, 1979-1985): a feed that viewers have seen
and whose cores were purged is opened again under the same key, or serves a new source. The slate
itself ends with the backoff as it had grown, before it is put back to the base. With
five or more sources that hang and a primary retried every 300 s the last is never tried.

Sources. An edit that lands during a sync is masked: the sync stores the ETag of bytes it
mapped by the old rules, and the next sync skips (`MCSourceSyncEdit`; sources.js:568 clears
the ETag for exactly this reason, 1686 puts it back); `Converges` is checked with edits between
syncs only (`BusyEdits`). With an ETag that depends on content
alone a half-applied feed can be masked the same way (`ContentTags`). A pass over the grants
seals keys it read before a deletion that overlaps it (`BusyDeletes`). A channel deleted by
hand stays away until the feed changes. A crash in a removal leaves the source there,
disabled.

Events. After an index write, or the copy of the index, failed, the next sync finds the same
bytes and skips: the index is not written again until something changes. When it failed
in a removal, the retry does nothing and the removed source stays named. A failed put of the
pointer leaves viewers on the old epoch, which is purged when its grace ends. Restoring an
older events-epoch.json mints an epoch a second time. Shards whose reclaim failed are copied
from epoch to epoch (`MCEventsDriveLeak`).

Repeater. A rotation or a removal that happens while the box is down leaves the old core's blocks on
disk for ever (`MCRepeaterStorage`; docs/repeater.md:26-30 promises bounded storage). A
core whose ready() rejects leaves a hollow mirror in the map, and the retry of the pass skips it
(`MCRepeaterOpen`; index.js:214-215). A read of a pointer that is not answered within 15 s
counts as "pointer removed", and the guide's mirror is purged (`MCRepeaterPark`; index.js:316,
324). After a restart a tail is armed at the length on disk, so what was appended meanwhile
is downloaded, old as it is.

## What is not modelled

PROJECT.json lists every part with its reason. In short: cryptography (proof of work, OPRF,
signatures, sealed grants), which the models take for granted; media (encoder arguments, HLS
playlists, XMLTV), which is data; presentation (apps, dashboards, command lines, MCP), most
of the repository by lines; reports, notifications and analytics, which nothing reads back;
snapshots, whose difficulty is the layout of an archive.

Within the parts that are modelled: memory-only channels, push inputs, a slate whose file is
missing; the channel of the environment (ensureLegacy), and an id that is added again
while a start, a run or a teardown of the channel removed before is still on its way; the
other writers of an imported channel's record (setMeta, the liveness flip of the prober), which
read and put it whole beside a sync; the clearing of index blobs and the copy a viewer of the events drive has read;
conflicts between sources and the failure of a single put in a sync; the repeater's full
mirror of the panel's bee, its status and its swarm, a blobs key that changes beside
the same feed (the panel never writes one: `BlobsKeyBesideItsFeed`), and several tails in
one sweep.

## Plan

Built: the ten modules above and their proofs. What a next step would be worth:

1. `SignInHandover` (sdk/signin-pair.js): the code shown on one device and confirmed on another.
2. `Library` (library/src/titles.js, ingest.js): the queue and the swap of a generation.
3. The guide's drive (epg/src/guide.js) as a second instance of `EventsDrive`, whose epochs it
   shares but for the order of its save and its advertisement.

## Running it

    tlc -workers 2 -config MCStreamRegistration.cfg MCStreamRegistration
    tlapm PanelAccountsProofs.tla

PROJECT.json names each run with its module and cfg, what each definition models (source
file and lines), the hazards and the properties that would catch them, and the theorems.
Symmetry is declared over interchangeable requests or connections, never in a run that
checks liveness.
