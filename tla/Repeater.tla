------------------------------ MODULE Repeater ------------------------------
(***************************************************************************)
(* The repeater (repeater/src/index.js): a box without keys that follows   *)
(* the panel's public catalog and, for every channel it has selected,      *)
(* keeps the tail of the channel's two cores and serves it.  One pass at a *)
(* time makes the mirrors follow the catalog; each core is armed, sampled  *)
(* and swept in the background.  Mirrors are memory; blocks are on disk.   *)
(*                                                                         *)
(* A catalog entry is one the selection takes, with its feed and whether   *)
(* the panel has put the blobs key beside it; a blobs key never changes    *)
(* without the feed (StreamRegistration, BlobsKeyBesideItsFeed).  Blocks   *)
(* are numbered; time is told in retention periods.                        *)
(***************************************************************************)
EXTENDS Integers, FiniteSets

CONSTANTS
  Stream,      \* the channels
  Pointers,    \* the drives mirrored whole: "epg", "assets"
  Faults,      \* subset of {"restart", "read", "open", "park"}
  MaxFeed,     \* bound: feeds of a channel, and drives of a pointer
  MaxLen,      \* bound: blocks of a core, a drive's header not counted
  MaxChanges,  \* bound: changes of the catalog and of the pointers
  MaxFaults    \* bound

ASSUME FaultAssumption == Faults \subseteq {"restart", "read", "open", "park"}
ASSUME BoundAssumption ==
  /\ {MaxFeed, MaxLen} \subseteq Nat \ {0} /\ {MaxChanges, MaxFaults} \subseteq Nat

VARIABLES
  catalog,  \* per channel: None, or its feed and whether its blobs key is there
  pointer,  \* per pointer, the drive it names; 0: none
  known,    \* per core, its length as the box has it on disk
  held,     \* per core, the blocks on disk
  up,
  watch,    \* the watch of the catalog: armed, has it a change to tell
  dirty,    \* _dirty
  rec,      \* _reconciling: the pass in flight
  mirror,   \* _mirrors
  tail,     \* per core, its tail in the mirror
  range,    \* per core, where its live download range starts
  arms,     \* the arm runs in flight
  sweep,    \* the sweep's clear in flight
  drive,    \* _driveMirrors
  failed,   \* history: the opening of a core has failed since the box came up
  changes, faults, restarts

world == <<catalog, pointer>>
disk  == <<known, held>>
tails == <<tail, range, arms, sweep>>
pass  == <<watch, dirty, rec>>
count == <<failed, changes, faults, restarts>>
vars  == <<world, disk, up, pass, mirror, tails, drive, count>>

None == [none |-> TRUE]
Off  == -1

Core == Stream \X (1..MaxFeed) \X {"db", "blobs"}
Db(s, f)    == <<s, f, "db">>
Blobs(s, f) == <<s, f, "blobs">>

\* The first block of the metadata is the drive's header and stays.
Floor(c)     == IF c[3] = "db" THEN 1 ELSE 0
Blocks(m, n) == m..(n - 1)
Larger(a, b) == IF a > b THEN a ELSE b

-----------------------------------------------------------------------------
(* The panel and the origins. *)

Changing == changes < MaxChanges /\ changes' = changes + 1 /\ UNCHANGED <<failed, faults, restarts>>

\* A change that reaches the bee's replica is told by a watch that is armed.
Told == watch' = [watch EXCEPT !.news = watch.armed]

\* A channel appears, goes, rotates its feed, or gets its blobs key.
CatalogChanges ==
  /\ Changing /\ Told
  /\ \E s \in Stream, e \in {None} \union [feed : 1..MaxFeed, blobs : BOOLEAN] :
       /\ e # catalog[s]
       /\ catalog[s] # None /\ e # None => e.feed > catalog[s].feed \/ (e.feed = catalog[s].feed /\ e.blobs)
       /\ catalog' = [catalog EXCEPT ![s] = e]
  /\ UNCHANGED <<pointer, disk, up, dirty, rec, mirror, tails, drive>>

PointerChanges ==
  /\ Changing /\ Told
  /\ \E p \in Pointers : pointer[p] < MaxFeed /\ pointer' = [pointer EXCEPT ![p] = @ + 1]
  /\ UNCHANGED <<catalog, disk, up, dirty, rec, mirror, tails, drive>>

Strikes(f) ==
  /\ f \in Faults /\ faults < MaxFaults /\ faults' = faults + 1
  /\ failed' = (failed \/ f = "open") /\ UNCHANGED <<changes, restarts>>

-----------------------------------------------------------------------------
(* Following the catalog. *)

Idle    == [pc |-> "idle"]
Reading == [pc |-> "read"]
Sleep   == [pc |-> "sleep"]
Ending  == [pc |-> "ending"]

\* _scheduleReconcile: one pass at a time; the loop looks at the flag again.
Scheduled ==
  IF rec = Idle THEN rec' = Reading /\ dirty' = FALSE ELSE dirty' = TRUE /\ UNCHANGED rec

Tick ==
  /\ up /\ watch.armed /\ watch.news
  /\ watch' = [watch EXCEPT !.news = FALSE]
  /\ Scheduled
  /\ UNCHANGED <<world, disk, up, mirror, tails, drive, count>>

\* The panel's bee was rebuilt: the watch ends and hears nothing until it is
\* armed again.
Truncated ==
  /\ up /\ watch.armed /\ Changing
  /\ watch' = [armed |-> FALSE, news |-> FALSE]
  /\ UNCHANGED <<world, disk, up, dirty, rec, mirror, tails, drive>>

\* Armed first, then resynced.
Rearm ==
  /\ up /\ ~watch.armed
  /\ watch' = [armed |-> TRUE, news |-> FALSE]
  /\ Scheduled
  /\ UNCHANGED <<world, disk, up, mirror, tails, drive, count>>

\* The safety net behind the watch.
Periodic ==
  /\ up /\ Scheduled
  /\ UNCHANGED <<world, disk, up, watch, mirror, tails, drive, count>>

Follow == Tick \/ Rearm

\* A pass that throws is tried again in five seconds.
Retried == rec' = Sleep /\ dirty' = TRUE

ReadFails ==
  /\ up /\ rec = Reading /\ Strikes("read") /\ Retried
  /\ UNCHANGED <<world, disk, up, watch, mirror, tails, drive>>

SleepEnds ==
  /\ up /\ rec = Sleep /\ rec' = Reading /\ dirty' = FALSE
  /\ UNCHANGED <<world, disk, up, watch, mirror, tails, drive, count>>

-----------------------------------------------------------------------------
(* A pass, from each await to the next. *)

NewTail == [armed |-> FALSE, cleared |-> 0, mark |-> 0]
Arm(c, step) == [core |-> c, step |-> step, at |-> 0, closed |-> FALSE]

NewMirror(want, s) == [feed |-> want[s].feed, blobs |-> FALSE]

\* The loop sees the flag, or leaves; the next pass may start a moment later.
PassEnds == IF dirty THEN rec' = Reading /\ dirty' = FALSE ELSE rec' = Ending /\ UNCHANGED dirty

\* What is left of the wanted set, in any order: a mirror that waited for its
\* blobs key gets it, until one that is missing has to be opened.
Starts(want, left, mir, til, ar) ==
  LET missing == {s \in left : mir[s] = None}
      late    == {s \in left \ missing : want[s].blobs /\ ~mir[s].blobs}
      Key(s)  == Blobs(s, mir[s].feed)
      With(K) == [s \in Stream |-> IF s \in K THEN [feed |-> mir[s].feed, blobs |-> TRUE] ELSE mir[s]]
  IN \E K \in SUBSET late :
       /\ tail' = [c \in Core |-> IF c \in {Key(s) : s \in K} THEN NewTail ELSE til[c]]
       /\ arms' = ar \union {Arm(Key(s), "open") : s \in K}
       /\ \/ \E s \in missing :
               /\ mirror' = [With(K) EXCEPT ![s] = NewMirror(want, s)]
               /\ rec' = [pc |-> "open", want |-> want, left |-> left \ (K \union {s}), s |-> s]
               /\ UNCHANGED dirty
          \/ /\ missing = {} /\ K = late
             /\ mirror' = With(K)
             /\ PassEnds

AllOf(want) == {s \in Stream : want[s] # None}

\* The mirrors of channels that are gone, and of feeds that were rotated.
Gone(want)     == {s \in Stream : mirror[s] # None /\ want[s] = None}
Unwanted(want) ==
  {s \in Stream : mirror[s] # None /\ (want[s] = None \/ want[s].feed # mirror[s].feed)}

\* _dropMirror: what runs in the background for it is told by a flag.
Drops(want) ==
  \/ /\ \E s \in Unwanted(want) :
          /\ mirror' = [mirror EXCEPT ![s] = None]
          /\ arms' = {IF a.core[1] = s THEN [a EXCEPT !.closed = TRUE] ELSE a : a \in arms}
          /\ sweep' = IF sweep # None /\ sweep.core[1] = s THEN [sweep EXCEPT !.closed = TRUE]
                      ELSE sweep
     /\ rec' = [pc |-> "purge", want |-> want]
     /\ UNCHANGED <<tail, dirty>>
  \/ /\ Unwanted(want) = {}
     /\ IF Pointers = {} THEN Starts(want, AllOf(want), mirror, tail, arms)
        ELSE rec' = [pc |-> "get", want |-> want, left |-> Pointers]
             /\ UNCHANGED <<mirror, tail, arms, dirty>>
     /\ UNCHANGED sweep

CatalogRead ==
  /\ up /\ rec = Reading
  /\ Drops(catalog)
  /\ UNCHANGED <<world, disk, up, watch, range, drive, count>>

Dropped == {c \in Core : tail[c] # None /\ mirror[c[1]] = None}

\* One core at a time: its range goes, then its blocks.
Purge ==
  /\ up /\ rec.pc = "purge"
  /\ \E c \in Dropped :
       /\ tail' = [tail EXCEPT ![c] = None] /\ range' = [range EXCEPT ![c] = Off]
       /\ known' = [known EXCEPT ![c] = 0] /\ held' = [held EXCEPT ![c] = {}]
  /\ UNCHANGED <<world, up, pass, mirror, arms, sweep, drive, count>>

PurgesDone ==
  /\ up /\ rec.pc = "purge" /\ Dropped = {}
  /\ Drops(rec.want)
  /\ UNCHANGED <<world, disk, up, watch, range, drive, count>>

\* _reconcilePointerMirror: a read that throws changes nothing, and one that is
\* not answered in time has read that there is no drive.
Names(p) ==
  \/ drive' = [drive EXCEPT ![p] = pointer[p]] /\ UNCHANGED count
  \/ Strikes("read") /\ UNCHANGED drive
  \/ Strikes("park") /\ drive' = [drive EXCEPT ![p] = 0]

PointerRead ==
  /\ up /\ rec.pc = "get"
  /\ \E p \in rec.left :
       /\ Names(p)
       /\ IF rec.left = {p} THEN Starts(rec.want, AllOf(rec.want), mirror, tail, arms)
          ELSE rec' = [rec EXCEPT !.left = @ \ {p}] /\ UNCHANGED <<mirror, tail, arms, dirty>>
  /\ UNCHANGED <<world, disk, up, watch, range, sweep>>

DriveFails ==
  /\ up /\ rec.pc = "get" /\ Strikes("open") /\ Retried
  /\ \E p \in rec.left : pointer[p] # drive[p] /\ drive' = [drive EXCEPT ![p] = pointer[p]]
  /\ UNCHANGED <<world, disk, up, watch, mirror, tails>>

\* _startMirror: the metadata core is open; attach it, and the blobs if their
\* key is known, which are opened in the background.
Opened ==
  /\ up /\ rec.pc = "open"
  /\ LET s  == rec.s
         f  == mirror[s].feed
         db == Db(s, f)
         bl == Blobs(s, f)
     IN IF rec.want[s].blobs
          THEN Starts(rec.want, rec.left, [mirror EXCEPT ![s] = [feed |-> f, blobs |-> TRUE]],
                      [tail EXCEPT ![db] = NewTail, ![bl] = NewTail],
                      arms \union {Arm(db, "await"), Arm(bl, "open")})
          ELSE Starts(rec.want, rec.left, mirror, [tail EXCEPT ![db] = NewTail],
                      arms \union {Arm(db, "await")})
  /\ UNCHANGED <<world, disk, up, watch, range, sweep, drive, count>>

OpenFails ==
  /\ up /\ rec.pc = "open" /\ Strikes("open") /\ Retried
  /\ UNCHANGED <<world, disk, up, watch, mirror, tails, drive>>

PassGone ==
  /\ up /\ rec = Ending /\ rec' = Idle
  /\ UNCHANGED <<world, disk, up, watch, dirty, mirror, tails, drive, count>>

Pass == SleepEnds \/ CatalogRead \/ Purge \/ PurgesDone \/ PointerRead \/ Opened \/ PassGone

-----------------------------------------------------------------------------
(* Cores: opening, arming, downloading. *)

\* The origin appends, and a core that is open learns its length from a peer;
\* the disk remembers it.
Learn(c) ==
  /\ up /\ tail[c] # None /\ catalog[c[1]] # None /\ catalog[c[1]].feed = c[2]
  /\ \A a \in arms : a.core = c => a.step # "open"
  /\ known[c] < MaxLen + Floor(c) /\ known' = [known EXCEPT ![c] = @ + 1]
  /\ UNCHANGED <<world, held, up, pass, mirror, tails, drive, count>>

\* What was begun for a mirror that was dropped since goes no further.
NeverGivenUp(x) == FALSE
GivenUp(x)      == x.closed

Becomes(a, b) == arms' = (arms \ {a}) \union {b}
Ends(a)       == arms' = arms \ {a}

BlobsOpen(c) ==
  /\ \E a \in arms : a.core = c /\ a.step = "open"
       /\ IF GivenUp(a) THEN Ends(a) ELSE Becomes(a, [a EXCEPT !.step = "await"])
  /\ UNCHANGED <<world, disk, up, pass, mirror, tail, range, sweep, drive, count>>

BlobsFail(c) ==
  /\ Strikes("open")
  /\ \E a \in arms :
       /\ a.core = c /\ a.step = "open" /\ ~GivenUp(a)
       /\ Ends(a) /\ tail' = [tail EXCEPT ![c] = None]
  /\ UNCHANGED <<world, disk, up, pass, mirror, range, sweep, drive>>

\* _armTail: with a length, what a run before has left below it is cleared.
ArmBegins(c) ==
  /\ \E a \in arms :
       /\ a.core = c /\ a.step = "await"
       /\ GivenUp(a) \/ known[c] > 0
       /\ IF GivenUp(a) THEN Ends(a) ELSE Becomes(a, [a EXCEPT !.step = "clear", !.at = known[c]])
  /\ UNCHANGED <<world, disk, up, pass, mirror, tail, range, sweep, drive, count>>

NoRemnants(c, at) == {}
Remnants(c, at)   == Blocks(Floor(c), at)

ArmEnds(c) ==
  /\ \E a \in arms :
       /\ a.core = c /\ a.step = "clear" /\ Ends(a)
       /\ IF GivenUp(a) THEN UNCHANGED <<held, tail, range>>
          ELSE LET start == Larger(a.at, Floor(c)) IN
               /\ held'  = [held EXCEPT ![c] = @ \ Remnants(c, a.at)]
               /\ range' = [range EXCEPT ![c] = start]
               /\ tail'  = [tail EXCEPT ![c] = [armed |-> TRUE, cleared |-> start, mark |-> 0]]
  /\ UNCHANGED <<world, known, up, pass, mirror, sweep, drive, count>>

ArmStep(c) == BlobsOpen(c) \/ ArmBegins(c) \/ ArmEnds(c)

\* The live range, and once armed the header, ask for what is missing.
Wanted(c) ==
  (IF range[c] = Off THEN {} ELSE Blocks(range[c], known[c]))
    \union (IF tail[c] # None /\ tail[c].armed THEN Blocks(0, Floor(c)) ELSE {})

Fetch(c) ==
  /\ up
  /\ Wanted(c) \ held[c] # {}
  /\ held' = [held EXCEPT ![c] = @ \union Wanted(c)]
  /\ UNCHANGED <<world, known, up, pass, mirror, tails, drive, count>>

-----------------------------------------------------------------------------
(* Retention. *)

Armed == {c \in Core : tail[c] # None /\ tail[c].armed}

\* A retention period passes: what the samples of a tail have seen is expired.
\* (They are taken sixty times in a period; here all the time.)
Elapse ==
  /\ up
  /\ tail' = [c \in Core |-> IF c \in Armed THEN [tail[c] EXCEPT !.mark = known[c]] ELSE tail[c]]
  /\ UNCHANGED <<world, disk, up, pass, mirror, range, arms, sweep, drive, count>>

Expired(c) == tail[c].mark

\* The range is torn down before the blocks below the mark are cleared.
SweepBegins(c) ==
  /\ up /\ sweep = None /\ c \in Armed /\ mirror[c[1]] # None
  /\ Expired(c) > tail[c].cleared
  /\ sweep' = [core |-> c, from |-> Larger(tail[c].cleared, Floor(c)), to |-> Expired(c), closed |-> FALSE]
  /\ range' = [range EXCEPT ![c] = Off]
  /\ UNCHANGED <<world, disk, up, pass, mirror, tail, arms, drive, count>>

StillSweeping == IF sweep.closed THEN sweep ELSE None
SweepOver     == None

SweepEnds ==
  /\ sweep # None /\ sweep' = SweepOver
  /\ LET c == sweep.core IN
     IF GivenUp(sweep) THEN UNCHANGED <<held, tail, range>>
     ELSE /\ held'  = [held EXCEPT ![c] = @ \ Blocks(sweep.from, sweep.to)]
          /\ range' = [range EXCEPT ![c] = sweep.to]
          /\ tail'  = [tail EXCEPT ![c] = [@ EXCEPT !.cleared = sweep.to]]
  /\ UNCHANGED <<world, known, up, pass, mirror, arms, drive, count>>

-----------------------------------------------------------------------------
(* The process. *)

\* A crash, or close(): nothing on disk is given up.
Restart ==
  /\ up /\ up' = FALSE
  /\ "restart" \in Faults /\ faults < MaxFaults /\ faults' = faults + 1 /\ restarts' = restarts + 1
  /\ failed' = FALSE
  /\ watch' = [armed |-> FALSE, news |-> FALSE] /\ dirty' = FALSE /\ rec' = Idle
  /\ mirror' = [s \in Stream |-> None] /\ tail' = [c \in Core |-> None]
  /\ range' = [c \in Core |-> Off] /\ arms' = {} /\ sweep' = None
  /\ drive' = [p \in Pointers |-> 0]
  /\ UNCHANGED <<world, disk, changes>>

Boot ==
  /\ ~up /\ up' = TRUE
  /\ watch' = [armed |-> TRUE, news |-> FALSE]
  /\ rec' = Reading
  /\ UNCHANGED <<world, disk, dirty, mirror, tails, drive, count>>

Init ==
  /\ catalog = [s \in Stream |-> None] /\ pointer = [p \in Pointers |-> 0]
  /\ known = [c \in Core |-> 0] /\ held = [c \in Core |-> {}]
  /\ up = FALSE /\ watch = [armed |-> FALSE, news |-> FALSE] /\ dirty = FALSE /\ rec = Idle
  /\ mirror = [s \in Stream |-> None] /\ tail = [c \in Core |-> None]
  /\ range = [c \in Core |-> Off] /\ arms = {} /\ sweep = None
  /\ drive = [p \in Pointers |-> 0]
  /\ failed = FALSE /\ changes = 0 /\ faults = 0 /\ restarts = 0

Next ==
  \/ CatalogChanges \/ PointerChanges \/ Truncated
  \/ Follow \/ Periodic \/ Pass \/ ReadFails \/ DriveFails \/ OpenFails
  \/ Elapse \/ SweepEnds \/ Restart \/ Boot
  \/ \E c \in Core : Learn(c) \/ ArmStep(c) \/ BlobsFail(c) \/ Fetch(c) \/ SweepBegins(c)

\* Peers answer and timers fire; nothing is owed of the panel and the origins.
Spec ==
  /\ Init /\ [][Next]_vars
  /\ WF_vars(Boot) /\ WF_vars(Follow) /\ WF_vars(Periodic) /\ WF_vars(Pass)
  /\ WF_vars(Elapse) /\ WF_vars(SweepEnds)
  /\ WF_vars(\E c \in Core : Learn(c)) /\ WF_vars(\E c \in Core : ArmStep(c))
  /\ WF_vars(\E c \in Core : SweepBegins(c))

-----------------------------------------------------------------------------
(* Properties. *)

\* The type invariant.
TypeOK ==
  /\ catalog \in [Stream -> {None} \union [feed : 1..MaxFeed, blobs : BOOLEAN]]
  /\ pointer \in [Pointers -> 0..MaxFeed] /\ drive \in [Pointers -> 0..MaxFeed]
  /\ known \in [Core -> 0..(MaxLen + 1)]
  /\ held \in [Core -> SUBSET (0..MaxLen)]
  /\ {up, dirty, failed} \subseteq BOOLEAN /\ watch \in [armed : BOOLEAN, news : BOOLEAN]
  /\ mirror \in [Stream -> {None} \union [feed : 1..MaxFeed, blobs : BOOLEAN]]
  /\ tail \in [Core -> {None} \union
       [armed : BOOLEAN, cleared : 0..(MaxLen + 1), mark : 0..(MaxLen + 1)]]
  /\ range \in [Core -> Off..(MaxLen + 1)]
  /\ arms \subseteq [core : Core, step : {"open", "await", "clear"}, at : 0..(MaxLen + 1), closed : BOOLEAN]
  /\ sweep = None \/ sweep \in [core : Core, from : 0..(MaxLen + 1), to : 0..(MaxLen + 1), closed : BOOLEAN]

\* The window of an armed core holds nothing below what was cleared but the
\* drive's header: neither what a run before has left nor a block that was
\* cleared and asked for again (docs/repeater.md, "storage bounded").
WindowIsBounded ==
  \A c \in Armed :
    held[c] \subseteq Blocks(0, Floor(c)) \union Blocks(tail[c].cleared, MaxLen + 1)

\* An armed core loses no block before a retention period has passed.
YoungIsKept ==
  [][\A c \in Armed : tail'[c] # None => held[c] \ held'[c] \subseteq Blocks(0, tail[c].mark)]_vars

\* Nothing in the background puts a core that was dropped to work again: each
\* live range is that of a core in a mirror, or about to be purged.
NoGhostRange ==
  \A c \in Core : range[c] # Off =>
    /\ tail[c] # None /\ tail[c].armed
    /\ rec.pc = "purge" \/ (mirror[c[1]] # None /\ mirror[c[1]].feed = c[2])

\* As long as the box runs, the blocks on disk are those of cores in a mirror:
\* storage stays bounded over any number of rotations (_dropMirror).
NoStrayCore ==
  restarts = 0 => \A c \in Core : held[c] # {} => tail[c] # None

\* The mirrors are those of the catalog, and at work.
Matches(s) ==
  IF catalog[s] = None THEN mirror[s] = None
  ELSE /\ mirror[s] = catalog[s]
       /\ Db(s, mirror[s].feed) \in Armed
       /\ mirror[s].blobs => Blobs(s, mirror[s].feed) \in Armed

InStep == up /\ drive = pointer /\ \A s \in Stream : Matches(s)

\* As long as cores can be opened the mirrors come to match the catalog, however
\* its changes, the truncations of the bee, failed reads and restarts fall.
Follows == <>[](failed \/ InStep)

\* The same of a pass that could not open a core ("a failed pass retries
\* instead of silently dropping the change", _scheduleReconcile).
FailedIsRetried == <>[]InStep

\* In the end nothing but headers outlives its retention in a mirror.
Expires == <>[](\A c \in Armed : held[c] \subseteq Blocks(0, Floor(c)))

\* What the comments say of storage across restarts as well.
StorageIsBounded == up /\ rec = Idle => \A c \in Core : held[c] # {} => tail[c] # None

\* A drive is given up only when the panel names another.
DriveIsKept ==
  [][\A p \in Pointers : up' /\ drive[p] # 0 /\ drive[p] = pointer[p] => drive'[p] = drive[p]]_vars

=============================================================================
