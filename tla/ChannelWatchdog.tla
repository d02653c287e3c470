--------------------------- MODULE ChannelWatchdog ---------------------------
(***************************************************************************)
(* What keeps a running pull channel on the air (broadcaster/src/          *)
(* channel.js): the watchdog that looks at ffmpeg every four seconds, the  *)
(* respawns with their backoff, the rotation through the backup sources    *)
(* and the offline slate.                                                  *)
(*                                                                         *)
(* One unit of time is one look of the watchdog; ages are counted in looks *)
(* and stop at the largest bound they are compared with. Timers are        *)
(* punctual to less than the two seconds that lie between a look and any   *)
(* respawn whose backoff is no multiple of the look.                       *)
(***************************************************************************)
EXTENDS Integers, FiniteSets

CONSTANTS
  Sources,       \* how many urls the input has, the primary and its fallbacks
  Ways,          \* what a source may be: subset of {"good", "dead", "hangs"}
  StallGrace,    \* looks without progress before a source is killed
  BackoffReset,  \* looks after a restart before progress resets the backoff
  PrimaryRetry,  \* looks on a backup before the primary is tried again
  SlateRetry,    \* looks the slate is shown before a source is tried again
  FailoverAfter, \* failed respawns on one source before the next is tried
  SlateAfter,    \* failed respawns per source before the slate is shown
  MaxChanges     \* bound: changes of the sources, and respawns over memory

ASSUME CountAssumption == Sources \in Nat \ {0} /\ FailoverAfter \in Nat \ {0} /\ SlateAfter \in Nat \ {0}
ASSUME TimeAssumption  == {StallGrace, BackoffReset, PrimaryRetry, SlateRetry} \subseteq Nat \ {0} /\ MaxChanges \in Nat
ASSUME WayAssumption   == Ways \subseteq {"good", "dead", "hangs"}

VARIABLES
  source,      \* what each source is now
  ff,          \* ffmpeg: is it alive, what was it spawned with
  playlist,    \* is there a playlist in the work directory
  seen,        \* lastSig: a playlist was seen since the last respawn
  still,       \* age of lastAdvanceAt
  restarted,   \* age of lastRestartAt
  timer,       \* the respawn timer: 0 unarmed, 1 due before the next look
  racing,      \* is the respawn due, or done, as the next look is due
  backoff,     \* seconds the next respawn is put off
  at, misses,  \* srcIndex, srcFailures
  primaryAge,  \* age of lastPrimaryTryAt
  failures,    \* failed respawns since a source last advanced
  slated, slateAge,
  changes,
  dark         \* history: looks since anything was produced

retry == <<at, misses, primaryAge, failures, slated, slateAge>>
watch == <<seen, still, restarted, timer, racing, backoff>>
vars  == <<source, ff, playlist, watch, retry, changes, dark>>

Source == 0..(Sources - 1)
Slate  == -1

BackoffBase == 1
BackoffMaxRound == 32
BackoffMax  == 30

Lesser(a, b) == IF a < b THEN a ELSE b
Older(age, bound) == Lesser(age + 1, bound)

\* A backoff of a multiple of four seconds ends as a look is due. The timer of
\* four was armed before that of the look, so the respawn is first; of the others
\* either may be first.
Races(seconds) == IF seconds % 4 # 0 THEN {FALSE} ELSE IF seconds = 4 THEN {TRUE} ELSE BOOLEAN

\* The looks that are over, or due with it, when a timer of so many seconds ends.
Looks(seconds) == seconds \div 4

Produces == ff.alive /\ (ff.on # Slate => source[ff.on] = "good")

Hanging == \E s \in Source : source[s] = "hangs"

-----------------------------------------------------------------------------
(* The decisions of a respawn. *)

Pick(i, n, age) == [at |-> i, misses |-> n, age |-> age]

\* Home to the primary when it is time, else forward after a run of failures.
PickSource(n) ==
  IF Sources < 2 THEN Pick(0, n, primaryAge)
  ELSE IF at # 0 /\ primaryAge >= PrimaryRetry THEN Pick(0, 0, 0)
  ELSE IF n >= FailoverAfter
    THEN LET next == (at + 1) % Sources IN Pick(next, 0, IF next = 0 THEN 0 ELSE primaryAge)
  ELSE Pick(at, n, primaryAge)

Threshold == SlateAfter * Sources

ShowsSlate(n) == IF slated THEN slateAge < SlateRetry ELSE n >= Threshold

\* Leaving the slate to try a source puts the backoff back to the base.
BackoffNow(slate)  == IF slated /\ ~slate THEN BackoffBase ELSE backoff

FailedOnce == IF slated \/ misses >= FailoverAfter THEN 0 ELSE misses + 1
\* A respawn of the slate is no evidence against a source. (What is counted past
\* the threshold by more than two makes no difference.)
Failed == IF slated THEN failures ELSE Lesser(failures + 1, Threshold + 2)

-----------------------------------------------------------------------------
(* ffmpeg and its sources. *)

\* A dead source makes ffmpeg exit within two seconds of its spawn.
DiesAtOnce == ff.alive /\ ff.on # Slate /\ source[ff.on] = "dead"

Exits ==
  /\ DiesAtOnce
  /\ ff' = [ff EXCEPT !.alive = FALSE]
  /\ UNCHANGED <<source, playlist, watch, retry, changes, dark>>

Change ==
  /\ changes < MaxChanges /\ changes' = changes + 1
  /\ \E s \in Source, w \in Ways : w # source[s] /\ source' = [source EXCEPT ![s] = w]
  /\ UNCHANGED <<ff, playlist, watch, retry, dark>>

-----------------------------------------------------------------------------
(* The timers. *)

RespawnFires ==
  /\ timer = 1
  /\ LET pick  == PickSource(misses + 1)
         slate == ShowsSlate(Failed)
     IN  /\ at' = pick.at /\ misses' = pick.misses /\ primaryAge' = pick.age
         /\ failures' = Failed
         /\ slated' = slate
         /\ slateAge' = IF slated /\ slate THEN slateAge ELSE 0
         /\ backoff' = Lesser(2 * BackoffNow(slate), BackoffMax)
         /\ ff' = [alive |-> TRUE, on |-> IF slate THEN Slate ELSE pick.at]
  /\ timer' = 0 /\ seen' = FALSE /\ still' = 0 /\ restarted' = 0
  /\ UNCHANGED <<source, playlist, racing, changes, dark>>

\* A look comes after the exit of a dead source, unless the respawn was due as
\* the look was: then it may still find the new process alive.
Looking == timer # 1 /\ (DiesAtOnce => racing)

\* The longest time that DarkIsBounded speaks of.
Longest == 16 + 8 * Threshold
Darker  == IF Produces \/ Hanging THEN 0 ELSE Older(dark, Longest + 1)

\* A respawn is put off by the backoff; one that is on its way is enough.
Arms == \E race \in Races(backoff) :
          racing' = race /\ timer' = Looks(backoff) + (IF race THEN 0 ELSE 1)

TimePasses ==
  /\ restarted' = Older(restarted, BackoffReset + 1)
  /\ primaryAge' = Older(primaryAge, PrimaryRetry)
  /\ slateAge' = IF slated THEN Older(slateAge, SlateRetry) ELSE 0
  /\ IF timer # 0 THEN timer' = timer - 1 /\ UNCHANGED racing
     ELSE IF ff.alive THEN timer' = 0 /\ racing' = FALSE
     ELSE Arms
  /\ dark' = Darker

LookDead ==
  /\ Looking /\ ~ff.alive
  /\ TimePasses
  /\ still' = Older(still, StallGrace + 1)
  /\ UNCHANGED <<source, ff, playlist, seen, backoff, at, misses, failures, slated, changes>>

NeverUp   == FALSE
\* The slate never ends by itself: when its time is up it is killed. A source
\* whose ffmpeg has grown over the memory cap is killed as well.
SlateIsUp == slated /\ slateAge >= SlateRetry

Kills(yes) == ff' = IF yes THEN [ff EXCEPT !.alive = FALSE] ELSE ff

Bloats == changes < MaxChanges /\ ~slated

\* Any playlist but the one last seen is progress; after a respawn none is
\* seen, so the one the process before has left will do.
Progress == Produces \/ (playlist /\ ~seen)

LookProgress ==
  /\ Looking /\ ff.alive /\ Progress
  /\ seen' = TRUE /\ still' = 1
  /\ misses' = 0
  /\ failures' = IF slated THEN failures ELSE 0
  /\ backoff' = IF restarted > BackoffReset THEN BackoffBase ELSE backoff
  /\ playlist' = (playlist \/ Produces)
  /\ TimePasses
  /\ \/ Kills(SlateIsUp) /\ UNCHANGED changes
     \/ Bloats /\ Kills(TRUE) /\ changes' = changes + 1
  /\ UNCHANGED <<source, at, slated>>

LookStill ==
  /\ Looking /\ ff.alive /\ ~Progress
  /\ LET stalled == still > StallGrace
     IN  /\ Kills(stalled \/ SlateIsUp)
         /\ still' = IF stalled THEN 1 ELSE Older(still, StallGrace + 1)
  /\ TimePasses
  /\ UNCHANGED <<source, playlist, seen, backoff, at, misses, failures, slated, changes>>

-----------------------------------------------------------------------------

Init ==
  /\ source \in [Source -> Ways]
  /\ ff = [alive |-> TRUE, on |-> 0]
  /\ playlist = FALSE /\ seen = FALSE /\ still = 0 /\ restarted = 0
  /\ timer = 0 /\ racing = FALSE
  /\ backoff = BackoffBase
  /\ at = 0 /\ misses = 0 /\ primaryAge = 0 /\ failures = 0
  /\ slated = FALSE /\ slateAge = 0
  /\ changes = 0 /\ dark = 0

Look == LookDead \/ LookProgress \/ LookStill

Next == Exits \/ Change \/ RespawnFires \/ Look

\* Timers fire and a process whose source is dead exits; no source owes a change.
Spec == Init /\ [][Next]_vars /\ WF_vars(Exits) /\ WF_vars(RespawnFires) /\ WF_vars(Look)

-----------------------------------------------------------------------------
(* Properties. *)

\* The type invariant.
TypeOK ==
  /\ source \in [Source -> Ways]
  /\ ff \in [alive : BOOLEAN, on : Source \cup {Slate}]
  /\ {playlist, seen, racing, slated} \subseteq BOOLEAN
  /\ still \in 0..(StallGrace + 1) /\ restarted \in 0..(BackoffReset + 1)
  /\ timer \in 0..(Looks(BackoffMax) + 1) /\ backoff \in BackoffBase..BackoffMax
  /\ at \in Source /\ misses \in Nat /\ primaryAge \in 0..PrimaryRetry
  /\ failures \in Nat /\ slateAge \in 0..SlateRetry
  /\ changes \in 0..MaxChanges /\ dark \in 0..(Longest + 1)

\* With sources that fail at once or work, however they change, viewers are never
\* without anything new for more than this many looks. A look that races a
\* respawn takes the playlist of the process before for progress and has the
\* failures counted from nothing again, but only while the backoff climbs: the
\* longest backoff is no multiple of the look.
DarkIsBounded == dark <= Longest

\* Once no source changes and none hangs, a good source is on the air, and it
\* stays there.
GoodIsFound == <>[](~Hanging /\ \E s \in Source : source[s] = "good") => <>[](Produces /\ ff.on # Slate)

\* Once every source is dead for good, the slate is shown again and again.
DeadEndsInSlate == <>[](\A s \in Source : source[s] = "dead") => []<>slated

\* As the documentation has it: a source that is offline, however it is, ends
\* in the slate.
OfflineEndsInSlate == <>[](\A s \in Source : source[s] # "good") => []<>slated

=============================================================================
