-------------------------- MODULE RepeaterProofs ---------------------------
(***************************************************************************)
(* What a repeater keeps is bounded and nothing it has given up is put to  *)
(* work again, for any number of channels and pointers, changes of the     *)
(* catalog, failing steps and restarts.                                    *)
(*                                                                         *)
(* The invariant says who may still touch a core: the mirror in the map,   *)
(* at most one arm that is not told to stop, and the sweep in flight.      *)
(***************************************************************************)
EXTENDS Repeater, TLAPS

Entry == [feed : 1..MaxFeed, blobs : BOOLEAN]
Wants == [Stream -> {None} \union Entry]
Level == 0..(MaxLen + 1)
Tail  == [armed : BOOLEAN, cleared : Level, mark : Level]
Tails == [Core -> {None} \union Tail]
ArmOf == [core : Core, step : {"open", "await", "clear"}, at : Level, closed : BOOLEAN]
Sweep == [core : Core, from : Level, to : Level, closed : BOOLEAN]

\* The core is one of the mirror's.
In(mir, c) == mir[c[1]] # None /\ mir[c[1]].feed = c[2]

\* Tails, mirrors and the arms that go on fit one another.
TailsFit(mir, til) == \A c \in Core : til[c] # None /\ mir[c[1]] # None => In(mir, c)
ArmsFit(mir, til, ar) ==
  \A a \in ar : ~a.closed => til[a.core] # None /\ ~til[a.core].armed /\ In(mir, a.core)
OneArm(ar) == \A a, b \in ar : ~a.closed /\ ~b.closed /\ a.core = b.core => a = b
Waits(mir, til) ==
  \A s \in Stream : mir[s] # None /\ ~mir[s].blobs => til[Blobs(s, mir[s].feed)] = None

Fit(mir, til, ar) ==
  TailsFit(mir, til) /\ ArmsFit(mir, til, ar) /\ OneArm(ar) /\ Waits(mir, til)

NoneDropped(mir, til) == \A c \in Core : til[c] # None => mir[c[1]] # None

Typed(mir, til, ar) == mir \in Wants /\ til \in Tails /\ ar \subseteq ArmOf

\* A live range starts where the clearing ended, and the sweep in flight has
\* the mark of the core it sweeps.
RangesFit(til, rng) ==
  \A c \in Core : rng[c] # Off => til[c] # None /\ til[c].armed /\ rng[c] = til[c].cleared
SweepFits(mir, til, sw) ==
  sw # None /\ ~sw.closed =>
    /\ til[sw.core] # None /\ til[sw.core].armed /\ In(mir, sw.core)
    /\ sw.from = til[sw.core].cleared /\ sw.to <= til[sw.core].mark
    /\ sw.from <= sw.to

ArmedTail(c) == Floor(c) <= tail[c].cleared /\ tail[c].mark <= known[c]
TailsHold    == \A c \in Armed : ArmedTail(c)

Stray == restarts = 0 => \A c \in Core : held[c] # {} => c \in Armed

PassFits ==
  /\ rec.pc \in {"purge", "get", "open"} => rec.want \in Wants
  /\ rec.pc = "get" => rec = [pc |-> "get", want |-> rec.want, left |-> rec.left]
  /\ rec.pc = "open" =>
       /\ rec.s \in Stream /\ rec.left \subseteq AllOf(rec.want) /\ rec.want[rec.s] # None
       /\ mirror[rec.s] = NewMirror(rec.want, rec.s)
       /\ tail[Db(rec.s, mirror[rec.s].feed)] = None
  /\ rec.pc # "purge" => NoneDropped(mirror, tail)
  /\ ~up => rec = Idle

Blocked == TailsHold /\ WindowIsBounded /\ Stray

\* What the other variables may hold.
Outside ==
  /\ catalog \in Wants
  /\ pointer \in [Pointers -> 0..MaxFeed] /\ drive \in [Pointers -> 0..MaxFeed]
  /\ watch \in [armed : BOOLEAN, news : BOOLEAN]
  /\ up \in BOOLEAN /\ dirty \in BOOLEAN /\ failed \in BOOLEAN /\ restarts \in Nat
Stored ==
  /\ known \in [Core -> Level] /\ held \in [Core -> SUBSET (0..MaxLen)]
  /\ range \in [Core -> Off..(MaxLen + 1)] /\ sweep \in {None} \union Sweep

IInv ==
  /\ Outside /\ Stored /\ Typed(mirror, tail, arms) /\ PassFits
  /\ Fit(mirror, tail, arms) /\ RangesFit(tail, range) /\ SweepFits(mirror, tail, sweep)
  /\ Blocked

-----------------------------------------------------------------------------
(* Cores and the records the variables hold. *)

LEMMA Bounds == MaxFeed \in Nat \ {0} /\ MaxLen \in Nat \ {0}
BY BoundAssumption

LEMMA CoreParts ==
  ASSUME NEW c \in Core
  PROVE  /\ c[1] \in Stream /\ c[2] \in 1..MaxFeed /\ c[3] \in {"db", "blobs"}
         /\ c = <<c[1], c[2], c[3]>> /\ Floor(c) \in {0, 1}
BY DEF Core, Floor

LEMMA TheCores ==
  ASSUME NEW s \in Stream, NEW f \in 1..MaxFeed
  PROVE  /\ Db(s, f) \in Core /\ Blobs(s, f) \in Core /\ Db(s, f) # Blobs(s, f)
         /\ Db(s, f)[1] = s /\ Db(s, f)[2] = f /\ Blobs(s, f)[1] = s /\ Blobs(s, f)[2] = f
BY DEF Core, Db, Blobs

LEMMA TailIsNot == ASSUME NEW t \in Tail PROVE t # None
<1>1. "none" \in DOMAIN None BY DEF None
<1>2. "none" \notin DOMAIN t BY DEF Tail
<1> QED BY <1>1, <1>2

LEMMA EntryIsNot == ASSUME NEW e \in Entry PROVE e # None
<1>1. "none" \in DOMAIN None BY DEF None
<1>2. "none" \notin DOMAIN e BY DEF Entry
<1> QED BY <1>1, <1>2

LEMMA SweepIsNot == ASSUME NEW e \in Sweep PROVE e # None
<1>1. "none" \in DOMAIN None BY DEF None
<1>2. "none" \notin DOMAIN e BY DEF Sweep
<1> QED BY <1>1, <1>2

LEMMA NewTailOK == NewTail \in Tail /\ NewTail # None /\ ~NewTail.armed
<1>1. NewTail \in Tail BY Bounds DEF NewTail, Tail, Level
<1> QED BY <1>1, TailIsNot DEF NewTail

LEMMA NewArmOK ==
  ASSUME NEW c \in Core, NEW st \in {"open", "await"}
  PROVE  Arm(c, st) \in ArmOf /\ ~Arm(c, st).closed /\ Arm(c, st).core = c
BY Bounds DEF Arm, ArmOf, Level

LEMMA EntryOf ==
  ASSUME NEW mir \in Wants, NEW s \in Stream, mir[s] # None
  PROVE  mir[s] \in Entry /\ mir[s].feed \in 1..MaxFeed /\ mir[s].blobs \in BOOLEAN
BY DEF Wants, Entry

LEMMA TailOf ==
  ASSUME NEW til \in Tails, NEW c \in Core, til[c] # None
  PROVE  til[c] \in Tail
BY DEF Tails

-----------------------------------------------------------------------------
(* Starts: mirrors that were waiting get their blobs core, one is added. *)

\* Nothing that is there goes, and what is new is a tail that is not armed.
Extends(mir, til, mir2, til2) ==
  /\ \A c \in Core : In(mir, c) => In(mir2, c)
  /\ \A c \in Core : til[c] # None => til2[c] = til[c]
  /\ \A c \in Core : til[c] = None => til2[c] \in {None, NewTail}

LEMMA StartsKeep ==
  ASSUME NEW want \in Wants, NEW left, left \subseteq AllOf(want), NEW mir, NEW til, NEW ar,
         Typed(mir, til, ar), Fit(mir, til, ar), NoneDropped(mir, til),
         Starts(want, left, mir, til, ar), dirty \in BOOLEAN
  PROVE  /\ Typed(mirror, tail, arms)' /\ Fit(mirror, tail, arms)' /\ NoneDropped(mirror, tail)'
         /\ Extends(mir, til, mirror', tail') /\ dirty' \in BOOLEAN
         /\ \/ rec'.pc \in {"read", "ending"}
            \/ /\ rec'.pc = "open" /\ rec'.want = want
               /\ rec'.s \in Stream /\ rec'.left \subseteq AllOf(want) /\ want[rec'.s] # None
               /\ mirror'[rec'.s] = NewMirror(want, rec'.s)
               /\ tail'[Db(rec'.s, mirror'[rec'.s].feed)] = None
<1> DEFINE missing == {s \in left : mir[s] = None}
           late    == {s \in left \ missing : want[s].blobs /\ ~mir[s].blobs}
           Key(s)  == Blobs(s, mir[s].feed)
           With(K) == [s \in Stream |-> IF s \in K THEN [feed |-> mir[s].feed, blobs |-> TRUE] ELSE mir[s]]
<1>1. PICK K \in SUBSET late :
        /\ tail' = [c \in Core |-> IF c \in {Key(s) : s \in K} THEN NewTail ELSE til[c]]
        /\ arms' = ar \union {Arm(Key(s), "open") : s \in K}
        /\ \/ \E s \in missing :
                /\ mirror' = [With(K) EXCEPT ![s] = NewMirror(want, s)]
                /\ rec' = [pc |-> "open", want |-> want, left |-> left \ (K \union {s}), s |-> s]
                /\ UNCHANGED dirty
           \/ /\ missing = {} /\ K = late
              /\ mirror' = With(K)
              /\ PassEnds
  BY DEF Starts
<1>2. left \subseteq Stream /\ \A s \in left : want[s] # None
  BY DEF AllOf
<1>3. mir \in Wants /\ til \in Tails /\ ar \subseteq ArmOf
  BY DEF Typed
<1>4. \A s \in K : /\ s \in Stream /\ s \in left /\ mir[s] # None /\ ~mir[s].blobs
                   /\ mir[s].feed \in 1..MaxFeed
                   /\ Key(s) \in Core /\ Key(s)[1] = s /\ Key(s)[2] = mir[s].feed
                   /\ til[Key(s)] = None
  <2> SUFFICES ASSUME NEW s \in K
               PROVE  /\ s \in Stream /\ s \in left /\ mir[s] # None /\ ~mir[s].blobs
                      /\ mir[s].feed \in 1..MaxFeed
                      /\ Key(s) \in Core /\ Key(s)[1] = s /\ Key(s)[2] = mir[s].feed
                      /\ til[Key(s)] = None
    OBVIOUS
  <2>1. s \in Stream /\ s \in left /\ mir[s] # None /\ ~mir[s].blobs
    BY <1>2
  <2>2. mir[s].feed \in 1..MaxFeed
    BY <1>3, <2>1, EntryOf
  <2>3. Key(s) \in Core /\ Key(s)[1] = s /\ Key(s)[2] = mir[s].feed
    BY <2>1, <2>2, TheCores
  <2>4. til[Key(s)] = None
    BY <2>1 DEF Fit, Waits
  <2> QED BY <2>1, <2>2, <2>3, <2>4
<1> HIDE DEF Key
<1>5. /\ tail' \in Tails
      /\ \A c \in Core : til[c] # None => tail'[c] = til[c]
      /\ \A c \in Core : til[c] = None => tail'[c] \in {None, NewTail}
      /\ \A s \in K : tail'[Key(s)] = NewTail
      /\ \A c \in Core : tail'[c] # til[c] => \E s \in K : c = Key(s)
  BY <1>1, <1>3, <1>4, NewTailOK DEF Tails
<1>6. \A a \in arms' : a \in ar \/ \E s \in K : a = Arm(Key(s), "open")
  BY <1>1
<1>7. arms' \subseteq ArmOf
  BY <1>3, <1>4, <1>6, NewArmOK
<1>8. With(K) \in Wants /\ \A s \in Stream :
        /\ (mir[s] # None) = (With(K)[s] # None)
        /\ mir[s] # None => With(K)[s].feed = mir[s].feed /\ (With(K)[s].blobs = (mir[s].blobs \/ s \in K))
  <2> SUFFICES ASSUME NEW s \in Stream
               PROVE  /\ With(K)[s] \in {None} \union Entry
                      /\ (mir[s] # None) = (With(K)[s] # None)
                      /\ mir[s] # None => With(K)[s].feed = mir[s].feed
                                         /\ (With(K)[s].blobs = (mir[s].blobs \/ s \in K))
    BY DEF Wants
  <2>1. CASE s \in K
    <3>1. With(K)[s] = [feed |-> mir[s].feed, blobs |-> TRUE]
      BY <2>1
    <3>2. With(K)[s] \in Entry
      BY <3>1, <2>1, <1>4 DEF Entry
    <3> QED BY <3>1, <3>2, <2>1, <1>4, EntryIsNot
  <2>2. CASE s \notin K
    <3>1. With(K)[s] = mir[s] /\ mir[s] \in {None} \union Entry
      BY <2>2, <1>3 DEF Wants
    <3>2. mir[s] # None => mir[s].blobs \in BOOLEAN
      BY <1>3, EntryOf
    <3> HIDE DEF With
    <3> QED BY <2>2, <3>1, <3>2
  <2> QED BY <2>1, <2>2
<1> HIDE DEF With
<1> DEFINE Grown ==
             /\ mirror' \in Wants
             /\ \A s \in Stream : mir[s] # None =>
                  /\ mirror'[s] # None /\ mirror'[s].feed = mir[s].feed
                  /\ mirror'[s].blobs = (mir[s].blobs \/ s \in K)
           Opening ==
             /\ rec'.pc = "open" /\ rec'.want = want
             /\ rec'.s \in Stream /\ rec'.left \subseteq AllOf(want) /\ want[rec'.s] # None
             /\ mirror'[rec'.s] = NewMirror(want, rec'.s)
             /\ tail'[Db(rec'.s, mirror'[rec'.s].feed)] = None
<1>9. Grown
  <2>1. ASSUME NEW s \in missing, mirror' = [With(K) EXCEPT ![s] = NewMirror(want, s)]
        PROVE  Grown
    <3>1. s \in Stream /\ want[s] # None /\ mir[s] = None
      BY <2>1, <1>2
    <3>2. NewMirror(want, s) \in Entry
      BY <3>1, EntryOf DEF NewMirror, Entry
    <3> QED BY <1>8, <2>1, <3>1, <3>2 DEF Wants
  <2>2. CASE mirror' = With(K)
    BY <1>8, <2>2
  <2> QED BY <1>1, <2>1, <2>2
<1>10. NoneDropped(mirror, tail)' /\ TailsFit(mirror, tail)'
  <2> SUFFICES ASSUME NEW c \in Core, tail'[c] # None
               PROVE  mirror'[c[1]] # None /\ mirror'[c[1]].feed = c[2]
    BY DEF NoneDropped, TailsFit, In
  <2>1. c[1] \in Stream
    BY CoreParts
  <2>2. mir[c[1]] # None /\ mir[c[1]].feed = c[2]
    <3>1. CASE til[c] # None
      BY <3>1 DEF NoneDropped, Fit, TailsFit, In
    <3>2. CASE til[c] = None
      BY <3>2, <1>4, <1>5
    <3> QED BY <3>1, <3>2
  <2> QED BY <2>1, <2>2, <1>9
<1>11. Extends(mir, til, mirror', tail')
  BY <1>5, <1>9, CoreParts DEF Extends, In
<1>12. ArmsFit(mirror, tail, arms)' /\ OneArm(arms)'
  <2>1. \A a \in ar : ~a.closed => til[a.core] # None /\ ~til[a.core].armed /\ In(mir, a.core) /\ a.core \in Core
    BY <1>3 DEF Fit, ArmsFit, ArmOf
  <2>2. \A s \in K : Arm(Key(s), "open").core = Key(s) /\ tail'[Key(s)] = NewTail /\ In(mirror', Key(s))
    BY <1>4, <1>5, <1>9, NewArmOK DEF In
  <2>3. ArmsFit(mirror, tail, arms)'
    BY <2>1, <2>2, <1>5, <1>6, <1>11, NewTailOK DEF ArmsFit, Extends
  <2>4. \A a \in ar, s \in K : ~a.closed => a.core # Key(s)
    BY <2>1, <1>4
  <2>5. \A s, t \in K : Key(s) = Key(t) => s = t
    BY <1>4
  <2>6. OneArm(arms)'
    BY <2>2, <2>4, <2>5, <1>6 DEF OneArm, Fit
  <2> QED BY <2>3, <2>6
<1>13. Waits(mirror, tail)'
  <2> SUFFICES ASSUME NEW s \in Stream, mirror'[s] # None, ~mirror'[s].blobs
               PROVE  tail'[Blobs(s, mirror'[s].feed)] = None
    BY DEF Waits
  <2> DEFINE b == Blobs(s, mirror'[s].feed)
  <2>1. b \in Core /\ b[1] = s
    BY <1>9, EntryOf, TheCores
  <2>2. til[b] = None
    <3>1. CASE mir[s] # None
      BY <3>1, <1>9 DEF Fit, Waits
    <3>2. CASE mir[s] = None
      BY <3>2, <2>1 DEF NoneDropped
    <3> QED BY <3>1, <3>2
  <2>3. s \notin K
    BY <1>4, <1>9
  <2> HIDE DEF b
  <2>4. tail'[b] = None
    BY <2>1, <2>2, <2>3, <1>4, <1>5
  <2> QED BY <2>4 DEF b
<1>14. dirty' \in BOOLEAN
  BY <1>1 DEF PassEnds
<1>15. rec'.pc \in {"read", "ending"} \/ Opening
  <2>1. CASE PassEnds
    BY <2>1 DEF PassEnds, Reading, Ending
  <2>2. ASSUME NEW s \in missing, mirror' = [With(K) EXCEPT ![s] = NewMirror(want, s)],
               rec' = [pc |-> "open", want |-> want, left |-> left \ (K \union {s}), s |-> s]
        PROVE  Opening
    <3>1. s \in Stream /\ want[s] # None /\ mir[s] = None
      BY <2>2, <1>2
    <3>2. mirror'[s] = NewMirror(want, s)
      BY <3>1, <2>2, <1>8 DEF Wants
    <3>3. mirror'[s].feed \in 1..MaxFeed
      BY <3>1, <3>2, EntryOf DEF NewMirror
    <3>4. Db(s, mirror'[s].feed) \in Core /\ Db(s, mirror'[s].feed)[1] = s
      BY <3>1, <3>3, TheCores
    <3>5. tail'[Db(s, mirror'[s].feed)] = None
      <4>1. til[Db(s, mirror'[s].feed)] = None
        BY <3>1, <3>4 DEF NoneDropped
      <4>2. \A k \in K : Db(s, mirror'[s].feed) # Key(k)
        BY <3>1, <3>4, <1>4
      <4> QED BY <4>1, <4>2, <3>4, <1>5
    <3> QED BY <2>2, <3>1, <3>2, <3>5
  <2> QED BY <1>1, <2>1, <2>2
<1> QED
  BY <1>5, <1>7, <1>9, <1>10, <1>11, <1>12, <1>13, <1>14, <1>15 DEF Typed, Fit

-----------------------------------------------------------------------------
(* The steps of a pass. *)

\* What is on disk and in the background is as good for a larger set of tails.
LEMMA BackgroundKeeps ==
  ASSUME Stored, RangesFit(tail, range), SweepFits(mirror, tail, sweep), Blocked,
         Extends(mirror, tail, mirror', tail'), UNCHANGED <<known, held, range, sweep, restarts>>
  PROVE  /\ Stored' /\ RangesFit(tail, range)' /\ SweepFits(mirror, tail, sweep)' /\ Blocked'
<1>1. \A c \in Core : c \in Armed => c \in Armed' /\ tail'[c] = tail[c]
  BY DEF Armed, Extends
<1>2. \A c \in Core : c \in Armed' => c \in Armed
  <2> SUFFICES ASSUME NEW c \in Core, tail'[c] # None, tail'[c].armed
               PROVE  tail[c] # None /\ tail[c].armed
    BY DEF Armed
  <2>1. tail[c] # None
    BY NewTailOK DEF Extends
  <2> QED BY <2>1 DEF Extends
<1>3. RangesFit(tail, range)'
  BY DEF RangesFit, Extends
<1>4. SweepFits(mirror, tail, sweep)'
  <2> SUFFICES ASSUME sweep # None, ~sweep.closed
               PROVE  SweepFits(mirror, tail, sweep)'
    BY DEF SweepFits
  <2>1. sweep.core \in Core
    BY DEF Stored, Sweep
  <2>2. /\ tail[sweep.core] # None /\ tail[sweep.core].armed /\ In(mirror, sweep.core)
        /\ sweep.from = tail[sweep.core].cleared /\ sweep.to <= tail[sweep.core].mark
        /\ sweep.from <= sweep.to
    BY DEF SweepFits
  <2>3. tail'[sweep.core] = tail[sweep.core] /\ In(mirror', sweep.core)
    BY <2>1, <2>2 DEF Extends
  <2> QED BY <2>2, <2>3 DEF SweepFits
<1>5. TailsHold'
  BY <1>1, <1>2 DEF Blocked, TailsHold, ArmedTail, Armed
<1>6. WindowIsBounded'
  BY <1>1, <1>2 DEF Blocked, WindowIsBounded, Armed
<1>7. Stray'
  BY <1>1 DEF Blocked, Stray
<1> QED BY <1>3, <1>4, <1>5, <1>6, <1>7 DEF Stored, Blocked

LEMMA ExtendsNothing ==
  ASSUME NEW mir, NEW til, NEW mir2, NEW til2, mir2 = mir, til2 = til
  PROVE  Extends(mir, til, mir2, til2)
BY DEF Extends

\* A pass that goes on from here leaves everything in order.
LEMMA StartsInv ==
  ASSUME IInv, NEW want \in Wants, NEW left, left \subseteq AllOf(want), NEW mir, NEW til, NEW ar,
         Typed(mir, til, ar), Fit(mir, til, ar), NoneDropped(mir, til),
         Extends(mirror, tail, mir, til), Starts(want, left, mir, til, ar),
         up, Outside', UNCHANGED <<known, held, range, sweep, restarts, up>>
  PROVE  IInv'
<1>1. dirty \in BOOLEAN
  BY DEF IInv, Outside
<1>2. /\ Typed(mirror, tail, arms)' /\ Fit(mirror, tail, arms)' /\ NoneDropped(mirror, tail)'
      /\ Extends(mir, til, mirror', tail')
      /\ \/ rec'.pc \in {"read", "ending"}
         \/ /\ rec'.pc = "open" /\ rec'.want = want
            /\ rec'.s \in Stream /\ rec'.left \subseteq AllOf(want) /\ want[rec'.s] # None
            /\ mirror'[rec'.s] = NewMirror(want, rec'.s)
            /\ tail'[Db(rec'.s, mirror'[rec'.s].feed)] = None
  BY <1>1, StartsKeep
<1>3. Extends(mirror, tail, mirror', tail')
  BY <1>2, NewTailOK DEF Extends
<1>4. /\ Stored' /\ RangesFit(tail, range)' /\ SweepFits(mirror, tail, sweep)' /\ Blocked'
  BY <1>3, BackgroundKeeps DEF IInv
<1>5. PassFits'
  BY <1>2 DEF PassFits
<1> QED BY <1>2, <1>4, <1>5 DEF IInv

\* A mirror that is dropped leaves its tails to be purged, and tells what runs
\* for it to stop.
LEMMA DropInv ==
  ASSUME IInv, NEW want \in Wants, NoneDropped(mirror, tail), NEW s \in Stream, up,
         mirror' = [mirror EXCEPT ![s] = None],
         arms' = {IF a.core[1] = s THEN [a EXCEPT !.closed = TRUE] ELSE a : a \in arms},
         sweep' = IF sweep # None /\ sweep.core[1] = s THEN [sweep EXCEPT !.closed = TRUE] ELSE sweep,
         rec' = [pc |-> "purge", want |-> want],
         Outside', UNCHANGED <<known, held, range, tail, restarts, up>>
  PROVE  IInv'
<1>1. /\ mirror \in Wants /\ tail \in Tails /\ arms \subseteq ArmOf /\ Stored
  BY DEF IInv, Typed
<1>2. mirror' \in Wants /\ mirror'[s] = None /\ \A t \in Stream \ {s} : mirror'[t] = mirror[t]
  BY <1>1 DEF Wants
<1>3. \A a \in arms' : \E b \in arms :
        /\ a.core = b.core /\ a \in ArmOf
        /\ ~a.closed => a = b /\ a.core[1] # s
  <2> SUFFICES ASSUME NEW b \in arms, NEW a, a = IF b.core[1] = s THEN [b EXCEPT !.closed = TRUE] ELSE b
               PROVE  a.core = b.core /\ a \in ArmOf /\ (~a.closed => a = b /\ a.core[1] # s)
    OBVIOUS
  <2>1. b \in ArmOf
    BY <1>1
  <2>2. CASE b.core[1] = s
    <3>1. a = [b EXCEPT !.closed = TRUE]
      BY <2>2
    <3> QED BY <2>1, <3>1 DEF ArmOf
  <2> QED BY <2>1, <2>2
<1>4. arms' \subseteq ArmOf
  BY <1>3
<1>5. \A a \in arms' : a.core \in Core /\ a.core[1] \in Stream
  BY <1>4, CoreParts DEF ArmOf
<1>6. \A c \in Core : c[1] # s => (In(mirror', c) = In(mirror, c) /\ mirror'[c[1]] = mirror[c[1]])
  BY <1>2, CoreParts DEF In
<1>7. Fit(mirror, tail, arms)'
  <2>1. TailsFit(mirror, tail)'
    BY <1>2, <1>6, CoreParts DEF IInv, Fit, TailsFit
  <2>2. ArmsFit(mirror, tail, arms)'
    BY <1>3, <1>5, <1>6 DEF IInv, Fit, ArmsFit
  <2>3. OneArm(arms)'
    BY <1>3 DEF IInv, Fit, OneArm
  <2>4. Waits(mirror, tail)'
    BY <1>2 DEF IInv, Fit, Waits
  <2> QED BY <2>1, <2>2, <2>3, <2>4 DEF Fit
<1>8. /\ sweep' \in {None} \union Sweep
      /\ sweep' # None /\ ~sweep'.closed => sweep' = sweep /\ sweep.core \in Core /\ sweep.core[1] # s
  <2>1. CASE sweep # None /\ sweep.core[1] = s
    <3>1. sweep \in Sweep /\ sweep' = [sweep EXCEPT !.closed = TRUE]
      BY <1>1, <2>1 DEF Stored
    <3> QED BY <3>1 DEF Sweep
  <2>2. CASE ~(sweep # None /\ sweep.core[1] = s)
    BY <1>1, <2>2 DEF Stored, Sweep
  <2> QED BY <2>1, <2>2
<1>9. SweepFits(mirror, tail, sweep)'
  BY <1>6, <1>8 DEF IInv, SweepFits
<1>10. Stored' /\ RangesFit(tail, range)'
  BY <1>1, <1>8 DEF Stored, IInv, RangesFit
<1>11. Blocked'
  <2>1. Armed' = Armed
    BY DEF Armed
  <2>2. TailsHold' /\ WindowIsBounded' /\ Stray'
    BY <2>1 DEF IInv, Blocked, TailsHold, ArmedTail, WindowIsBounded, Stray
  <2> QED BY <2>2 DEF Blocked
<1>12. PassFits'
  BY DEF PassFits
<1> QED BY <1>1, <1>2, <1>4, <1>7, <1>9, <1>10, <1>11, <1>12 DEF IInv, Typed

\* With the drops done the pass turns to the pointers, or starts mirrors.
LEMMA DropsInv ==
  ASSUME IInv, NEW want \in Wants, NoneDropped(mirror, tail), up, Drops(want),
         UNCHANGED <<world, disk, up, watch, range, drive, count>>
  PROVE  IInv'
<1>1. UNCHANGED <<catalog, pointer, known, held, up, watch, range, drive, failed, restarts>>
  BY DEF world, disk, count
<1>2. ASSUME dirty' \in BOOLEAN PROVE Outside'
  BY <1>1, <1>2 DEF IInv, Outside
<1>3. CASE Unwanted(want) # {} /\ rec' = [pc |-> "purge", want |-> want]
  <2>1. PICK s \in Unwanted(want) :
          /\ mirror' = [mirror EXCEPT ![s] = None]
          /\ arms' = {IF a.core[1] = s THEN [a EXCEPT !.closed = TRUE] ELSE a : a \in arms}
          /\ sweep' = IF sweep # None /\ sweep.core[1] = s THEN [sweep EXCEPT !.closed = TRUE] ELSE sweep
          /\ UNCHANGED <<tail, dirty>>
    BY <1>3 DEF Drops
  <2>2. Outside' /\ s \in Stream
    BY <1>2, <2>1 DEF IInv, Outside, Unwanted
  <2> QED BY <1>1, <1>3, <2>1, <2>2, DropInv
<1>4. CASE /\ Pointers = {} /\ Starts(want, AllOf(want), mirror, tail, arms)
           /\ UNCHANGED sweep
  <2>1. Typed(mirror, tail, arms) /\ Fit(mirror, tail, arms) /\ dirty \in BOOLEAN
    BY DEF IInv, Outside
  <2>2. dirty' \in BOOLEAN
    BY <1>4, <2>1, StartsKeep
  <2>3. Extends(mirror, tail, mirror, tail)
    BY ExtendsNothing
  <2> QED BY <1>1, <1>2, <1>4, <2>1, <2>2, <2>3, StartsInv
<1>5. CASE /\ rec' = [pc |-> "get", want |-> want, left |-> Pointers]
           /\ UNCHANGED <<mirror, tail, arms, dirty, sweep>>
  <2>1. Outside'
    BY <1>2, <1>5 DEF IInv, Outside
  <2>2. Extends(mirror, tail, mirror', tail')
    BY <1>5, ExtendsNothing
  <2>3. /\ Stored' /\ RangesFit(tail, range)' /\ SweepFits(mirror, tail, sweep)' /\ Blocked'
    BY <1>1, <1>5, <2>2, BackgroundKeeps DEF IInv
  <2>4. Typed(mirror, tail, arms)' /\ Fit(mirror, tail, arms)' /\ PassFits'
    BY <1>1, <1>5 DEF IInv, Typed, Fit, TailsFit, ArmsFit, OneArm, Waits, PassFits, NoneDropped
  <2> QED BY <2>1, <2>3, <2>4 DEF IInv
<1> QED BY <1>3, <1>4, <1>5 DEF Drops

\* A step that leaves mirrors, cores and what runs for them alone.
LEMMA StillInv ==
  ASSUME IInv, Outside', PassFits',
         UNCHANGED <<known, held, mirror, tail, range, arms, sweep, restarts>>
  PROVE  IInv'
<1>1. Armed' = Armed
  BY DEF Armed
<1>2. Stored' /\ RangesFit(tail, range)' /\ SweepFits(mirror, tail, sweep)'
  BY DEF IInv, Stored, RangesFit, SweepFits
<1>3. TailsHold' /\ WindowIsBounded' /\ Stray'
  BY <1>1 DEF IInv, Blocked, TailsHold, ArmedTail, WindowIsBounded, Stray
<1>4. Fit(mirror, tail, arms)' /\ Typed(mirror, tail, arms)'
  BY DEF IInv, Fit, TailsFit, ArmsFit, OneArm, Waits, Typed
<1> QED BY <1>2, <1>3, <1>4 DEF IInv, Blocked

LEMMA SchedulesInv ==
  ASSUME IInv, up, UNCHANGED <<mirror, tail, up>>, Scheduled
  PROVE  PassFits' /\ dirty' \in BOOLEAN
<1>1. CASE rec = Idle
  <2>0. rec' = Reading /\ dirty' = FALSE
    BY <1>1, Zenon DEF Scheduled
  <2>1. rec'.pc = "read" /\ rec.pc = "idle" /\ dirty' \in BOOLEAN
    BY <1>1, <2>0 DEF Reading, Idle
  <2>2. NoneDropped(mirror, tail)'
    BY <2>1 DEF IInv, PassFits, NoneDropped
  <2> QED BY <2>1, <2>2 DEF PassFits
<1>2. CASE rec # Idle
  <2>1. rec' = rec /\ dirty' \in BOOLEAN
    BY <1>2 DEF Scheduled
  <2> QED BY <2>1 DEF IInv, PassFits, NoneDropped, AllOf
<1> QED BY <1>1, <1>2

\* The steps that only move the pass, the watch or the world.
LEMMA QuietInv ==
  ASSUME IInv,
         \/ CatalogChanges \/ PointerChanges \/ Truncated \/ Tick \/ Rearm \/ Periodic
         \/ ReadFails \/ SleepEnds \/ DriveFails \/ OpenFails \/ PassGone \/ Boot
  PROVE  IInv'
<1> USE DEF world, disk, tails, pass, count
<1> DEFINE Still == UNCHANGED <<known, held, mirror, tail, range, arms, sweep, restarts>>
<1>1. CASE CatalogChanges
  <2>1. Still /\ UNCHANGED <<up, rec, dirty, pointer, drive, failed>>
    BY <1>1 DEF CatalogChanges, Changing
  <2>2. catalog' \in Wants
    <3>1. PICK s \in Stream, e \in {None} \union Entry : catalog' = [catalog EXCEPT ![s] = e]
      BY <1>1 DEF CatalogChanges, Entry
    <3> QED BY <3>1 DEF IInv, Outside, Wants
  <2>3. watch' \in [armed : BOOLEAN, news : BOOLEAN]
    BY <1>1 DEF CatalogChanges, Told, IInv, Outside
  <2>4. Outside' /\ PassFits'
    BY <2>1, <2>2, <2>3 DEF IInv, Outside, PassFits, NoneDropped, AllOf
  <2> QED BY <2>1, <2>4, StillInv
<1>2. CASE PointerChanges
  <2>1. Still /\ UNCHANGED <<up, rec, dirty, catalog, drive, failed>>
    BY <1>2 DEF PointerChanges, Changing
  <2>2. pointer' \in [Pointers -> 0..MaxFeed]
    BY <1>2, Bounds DEF PointerChanges, IInv, Outside
  <2>3. watch' \in [armed : BOOLEAN, news : BOOLEAN]
    BY <1>2 DEF PointerChanges, Told, IInv, Outside
  <2>4. Outside' /\ PassFits'
    BY <2>1, <2>2, <2>3 DEF IInv, Outside, PassFits, NoneDropped, AllOf
  <2> QED BY <2>1, <2>4, StillInv
<1>3. CASE Truncated
  <2>1. /\ Still /\ UNCHANGED <<up, rec, dirty, catalog, pointer, drive, failed>>
        /\ watch' \in [armed : BOOLEAN, news : BOOLEAN]
    BY <1>3 DEF Truncated, Changing
  <2>2. Outside' /\ PassFits'
    BY <2>1 DEF IInv, Outside, PassFits, NoneDropped, AllOf
  <2> QED BY <2>1, <2>2, StillInv
<1>4. CASE Tick \/ Rearm \/ Periodic
  <2>1. Still /\ UNCHANGED <<up, catalog, pointer, drive, failed>> /\ up /\ Scheduled
    BY <1>4 DEF Tick, Rearm, Periodic
  <2>2. watch' \in [armed : BOOLEAN, news : BOOLEAN]
    <3>1. watch \in [armed : BOOLEAN, news : BOOLEAN]
      BY DEF IInv, Outside
    <3>2. \/ watch' = [watch EXCEPT !.news = FALSE]
          \/ watch' = [armed |-> TRUE, news |-> FALSE]
          \/ watch' = watch
      BY <1>4 DEF Tick, Rearm, Periodic
    <3>3. CASE watch' = [watch EXCEPT !.news = FALSE]
      BY <3>1, <3>3
    <3>4. CASE watch' = [armed |-> TRUE, news |-> FALSE]
      BY <3>4
    <3>5. CASE watch' = watch
      BY <3>1, <3>5
    <3> QED BY <3>2, <3>3, <3>4, <3>5
  <2>3. PassFits' /\ dirty' \in BOOLEAN
    BY <2>1, SchedulesInv
  <2>4. Outside'
    BY <2>1, <2>2, <2>3 DEF IInv, Outside
  <2> QED BY <2>1, <2>3, <2>4, StillInv
<1>5. CASE ReadFails \/ SleepEnds \/ OpenFails \/ PassGone
  <2>1. /\ Still /\ UNCHANGED <<up, catalog, pointer, drive, watch>> /\ up
        /\ dirty' \in BOOLEAN /\ failed' \in BOOLEAN
    BY <1>5 DEF ReadFails, SleepEnds, OpenFails, PassGone, Strikes, Retried, IInv, Outside
  <2>2. rec.pc \in {"read", "sleep", "open", "ending"} /\ rec'.pc \in {"sleep", "read", "idle"}
    BY <1>5 DEF ReadFails, SleepEnds, OpenFails, PassGone, Retried, Reading, Sleep, Ending, Idle
  <2>3. NoneDropped(mirror, tail)'
    BY <2>1, <2>2 DEF IInv, PassFits, NoneDropped
  <2>4. Outside' /\ PassFits'
    BY <2>1, <2>2, <2>3 DEF IInv, Outside, PassFits
  <2> QED BY <2>1, <2>4, StillInv
<1>6. CASE DriveFails
  <2>1. /\ Still /\ UNCHANGED <<up, catalog, pointer, watch>> /\ up /\ rec.pc = "get" /\ rec'.pc = "sleep"
        /\ dirty' \in BOOLEAN /\ failed' \in BOOLEAN
    BY <1>6 DEF DriveFails, Strikes, Retried, Sleep, IInv, Outside
  <2>2. drive' \in [Pointers -> 0..MaxFeed]
    <3>1. PICK p \in rec.left : drive' = [drive EXCEPT ![p] = pointer[p]]
      BY <1>6 DEF DriveFails
    <3>2. CASE p \in Pointers
      BY <3>1, <3>2 DEF IInv, Outside
    <3>3. CASE p \notin Pointers
      BY <3>1, <3>3 DEF IInv, Outside
    <3> QED BY <3>2, <3>3
  <2>3. Outside' /\ PassFits'
    BY <2>1, <2>2 DEF IInv, Outside, PassFits, NoneDropped
  <2> QED BY <2>1, <2>3, StillInv
<1>7. CASE Boot
  <2>1. /\ Still /\ UNCHANGED <<dirty, catalog, pointer, drive, failed>> /\ rec'.pc = "read" /\ up' = TRUE /\ ~up
        /\ watch' \in [armed : BOOLEAN, news : BOOLEAN]
    BY <1>7 DEF Boot, Reading
  <2>2. NoneDropped(mirror, tail)'
    BY <2>1 DEF IInv, PassFits, Idle, NoneDropped
  <2>3. Outside' /\ PassFits'
    BY <2>1, <2>2 DEF IInv, Outside, PassFits
  <2> QED BY <2>1, <2>3, StillInv
<1> QED BY <1>1, <1>2, <1>3, <1>4, <1>5, <1>6, <1>7

LEMMA PurgeInv ==
  ASSUME IInv, Purge
  PROVE  IInv'
<1> USE DEF world, disk, tails, pass, count
<1>1. PICK c \in Dropped :
        /\ tail' = [tail EXCEPT ![c] = None] /\ range' = [range EXCEPT ![c] = Off]
        /\ known' = [known EXCEPT ![c] = 0] /\ held' = [held EXCEPT ![c] = {}]
  BY DEF Purge
<1>2. /\ up /\ rec.pc = "purge"
      /\ UNCHANGED <<catalog, pointer, up, watch, dirty, rec, mirror, arms, sweep, drive, failed, restarts>>
  BY DEF Purge
<1>3. c \in Core /\ tail[c] # None /\ mirror[c[1]] = None
  BY DEF Dropped
<1>4. tail \in Tails /\ Stored /\ arms \subseteq ArmOf
  BY DEF IInv, Typed
<1>5. /\ tail' \in Tails /\ tail'[c] = None /\ \A d \in Core \ {c} : tail'[d] = tail[d]
      /\ range'[c] = Off /\ \A d \in Core \ {c} : range'[d] = range[d]
      /\ held'[c] = {} /\ \A d \in Core \ {c} : held'[d] = held[d] /\ known'[d] = known[d]
  BY <1>1, <1>3, <1>4 DEF Tails, Stored
<1>6. Stored'
  <2>1. 0 \in Level /\ Off \in Off..(MaxLen + 1)
    BY Bounds DEF Level, Off
  <2>2. known' \in [Core -> Level] /\ held' \in [Core -> SUBSET (0..MaxLen)]
    BY <1>1, <1>4, <2>1 DEF Stored
  <2>3. range' \in [Core -> Off..(MaxLen + 1)]
    BY <1>1, <1>4, <2>1 DEF Stored
  <2> QED BY <1>2, <1>4, <2>2, <2>3 DEF Stored
<1>7. Armed' = Armed \ {c}
  BY <1>3, <1>5 DEF Armed
<1>8. Blocked'
  <2>1. Armed \subseteq Core
    BY DEF Armed
  <2>2. TailsHold'
    BY <1>5, <1>7, <2>1 DEF IInv, Blocked, TailsHold, ArmedTail
  <2>3. WindowIsBounded'
    BY <1>5, <1>7, <2>1 DEF IInv, Blocked, WindowIsBounded
  <2>4. Stray'
    BY <1>2, <1>5, <1>7 DEF IInv, Blocked, Stray
  <2> QED BY <2>2, <2>3, <2>4 DEF Blocked
<1>9. \A a \in arms : ~a.closed => a.core \in Core \ {c}
  BY <1>3, <1>4 DEF IInv, Fit, ArmsFit, In, ArmOf
<1>10. Fit(mirror, tail, arms)'
  <2>1. TailsFit(mirror, tail)' /\ ArmsFit(mirror, tail, arms)' /\ OneArm(arms)'
    BY <1>2, <1>5, <1>9 DEF IInv, Fit, TailsFit, ArmsFit, OneArm
  <2>2. Waits(mirror, tail)'
    <3> SUFFICES ASSUME NEW s \in Stream, mirror[s] # None, ~mirror[s].blobs
                 PROVE  tail'[Blobs(s, mirror[s].feed)] = None
      BY <1>2 DEF Waits
    <3>1. Blobs(s, mirror[s].feed) \in Core
      BY EntryOf, TheCores DEF IInv, Typed
    <3>2. tail[Blobs(s, mirror[s].feed)] = None
      BY DEF IInv, Fit, Waits
    <3> QED BY <1>5, <3>1, <3>2
  <2> QED BY <2>1, <2>2 DEF Fit
<1>11. RangesFit(tail, range)'
  BY <1>5 DEF IInv, RangesFit
<1>12. SweepFits(mirror, tail, sweep)'
  <2> SUFFICES ASSUME sweep # None, ~sweep.closed PROVE SweepFits(mirror, tail, sweep)'
    BY <1>2 DEF SweepFits
  <2>1. sweep.core \in Core \ {c}
    BY <1>3, <1>4 DEF IInv, SweepFits, In, Stored, Sweep
  <2> QED BY <1>2, <1>5, <2>1 DEF IInv, SweepFits
<1>13. Outside' /\ PassFits'
  BY <1>2 DEF IInv, Outside, PassFits
<1> QED BY <1>2, <1>5, <1>6, <1>8, <1>10, <1>11, <1>12, <1>13 DEF IInv, Typed

\* The steps in which a pass goes on, besides Purge.
LEMMA OnwardInv ==
  ASSUME IInv, CatalogRead \/ PurgesDone
  PROVE  IInv'
<1>1. CASE CatalogRead
  <2>1. up /\ rec.pc # "purge" /\ catalog \in Wants
    BY <1>1 DEF CatalogRead, Reading, IInv, Outside
  <2>2. NoneDropped(mirror, tail)
    BY <2>1 DEF IInv, PassFits
  <2> QED BY <1>1, <2>1, <2>2, DropsInv DEF CatalogRead
<1>2. CASE PurgesDone
  <2>1. up /\ rec.pc = "purge" /\ rec.want \in Wants
    BY <1>2 DEF PurgesDone, IInv, PassFits
  <2>2. NoneDropped(mirror, tail)
    BY <1>2 DEF PurgesDone, Dropped, NoneDropped
  <2> QED BY <1>2, <2>1, <2>2, DropsInv DEF PurgesDone
<1> QED BY <1>1, <1>2

LEMMA NamesOK ==
  ASSUME IInv, NEW p, Names(p)
  PROVE  drive' \in [Pointers -> 0..MaxFeed] /\ failed' \in BOOLEAN /\ restarts' = restarts
<1>1. drive \in [Pointers -> 0..MaxFeed] /\ pointer \in [Pointers -> 0..MaxFeed] /\ failed \in BOOLEAN
  BY DEF IInv, Outside
<1>2. \/ drive' = [drive EXCEPT ![p] = pointer[p]] \/ drive' = drive \/ drive' = [drive EXCEPT ![p] = 0]
  BY DEF Names
<1>3. drive' \in [Pointers -> 0..MaxFeed]
  BY <1>1, <1>2, Bounds
<1>4. failed' \in BOOLEAN /\ restarts' = restarts
  BY <1>1 DEF Names, Strikes, count
<1> QED BY <1>3, <1>4

LEMMA PointerReadInv ==
  ASSUME IInv, PointerRead
  PROVE  IInv'
<1> USE DEF world, disk, tails, pass, count
<1>1. PICK p \in rec.left :
        /\ Names(p)
        /\ IF rec.left = {p} THEN Starts(rec.want, AllOf(rec.want), mirror, tail, arms)
           ELSE rec' = [rec EXCEPT !.left = @ \ {p}] /\ UNCHANGED <<mirror, tail, arms, dirty>>
  BY DEF PointerRead
<1>2. /\ up /\ rec.pc = "get" /\ rec.want \in Wants /\ NoneDropped(mirror, tail)
      /\ rec = [pc |-> "get", want |-> rec.want, left |-> rec.left]
  BY DEF PointerRead, IInv, PassFits
<1>3. UNCHANGED <<catalog, pointer, known, held, up, watch, range, sweep>>
  BY DEF PointerRead
<1>4. drive' \in [Pointers -> 0..MaxFeed] /\ failed' \in BOOLEAN /\ restarts' = restarts
  BY <1>1, NamesOK
<1>5. ASSUME dirty' \in BOOLEAN PROVE Outside'
  BY <1>3, <1>4, <1>5 DEF IInv, Outside
<1>6. CASE rec.left = {p}
  <2>1. Typed(mirror, tail, arms) /\ Fit(mirror, tail, arms) /\ dirty \in BOOLEAN
    BY DEF IInv, Outside
  <2>2. Starts(rec.want, AllOf(rec.want), mirror, tail, arms)
    BY <1>1, <1>6
  <2>3. dirty' \in BOOLEAN
    BY <1>2, <2>1, <2>2, StartsKeep
  <2>4. Extends(mirror, tail, mirror, tail)
    BY ExtendsNothing
  <2> QED BY <1>2, <1>3, <1>4, <1>5, <2>1, <2>2, <2>3, <2>4, StartsInv
<1>7. CASE rec.left # {p}
  <2>1. rec' = [rec EXCEPT !.left = @ \ {p}] /\ UNCHANGED <<mirror, tail, arms, dirty>>
    BY <1>1, <1>7
  <2>2. rec' = [pc |-> "get", want |-> rec.want, left |-> rec.left \ {p}]
    BY <1>2, <2>1
  <2>3. Outside'
    BY <1>5, <2>1 DEF IInv, Outside
  <2>4. PassFits'
    BY <1>2, <1>3, <2>1, <2>2 DEF PassFits, NoneDropped
  <2> QED BY <1>3, <1>4, <2>1, <2>3, <2>4, StillInv
<1> QED BY <1>6, <1>7

\* The metadata core is open: it gets a tail, and the blobs core if its key is
\* known, each with an arm of its own.
LEMMA OpenedInv ==
  ASSUME IInv, Opened
  PROVE  IInv'
<1> USE DEF world, disk, tails, pass, count
<1> DEFINE st == rec.s
           f  == mirror[st].feed
           db == Db(st, f)
           bl == Blobs(st, f)
           mir == [mirror EXCEPT ![st] = [feed |-> f, blobs |-> TRUE]]
           til == [tail EXCEPT ![db] = NewTail]
           til2 == [tail EXCEPT ![db] = NewTail, ![bl] = NewTail]
           ar  == arms \union {Arm(db, "await")}
           ar2 == arms \union {Arm(db, "await"), Arm(bl, "open")}
<1>1. /\ up /\ rec.pc = "open" /\ rec.want \in Wants /\ NoneDropped(mirror, tail)
      /\ st \in Stream /\ rec.left \subseteq AllOf(rec.want) /\ rec.want[st] # None
      /\ mirror[st] = NewMirror(rec.want, st) /\ tail[db] = None
  BY DEF Opened, IInv, PassFits
<1>2. IF rec.want[st].blobs THEN Starts(rec.want, rec.left, mir, til2, ar2)
      ELSE Starts(rec.want, rec.left, mirror, til, ar)
  BY DEF Opened
<1>3. UNCHANGED <<catalog, pointer, known, held, up, watch, range, sweep, drive, failed, restarts>>
  BY DEF Opened
<1>4. mirror \in Wants /\ tail \in Tails /\ arms \subseteq ArmOf /\ Fit(mirror, tail, arms)
  BY DEF IInv, Typed
<1>5. /\ f = rec.want[st].feed /\ f \in 1..MaxFeed /\ mirror[st] # None /\ mirror[st].feed = f /\ ~mirror[st].blobs
  <2>1. rec.want[st] \in Entry
    BY <1>1, EntryOf
  <2>2. NewMirror(rec.want, st) \in Entry /\ NewMirror(rec.want, st).feed = rec.want[st].feed /\ ~NewMirror(rec.want, st).blobs
    BY <2>1 DEF NewMirror, Entry
  <2> QED BY <1>1, <2>1, <2>2, EntryIsNot DEF Entry
<1>6. /\ db \in Core /\ bl \in Core /\ db # bl /\ db[1] = st /\ db[2] = f /\ bl[1] = st /\ bl[2] = f
  BY <1>1, <1>5, TheCores
<1>7. tail[bl] = None
  BY <1>1, <1>4, <1>5 DEF Fit, Waits
<1>8. In(mirror, db) /\ In(mirror, bl)
  BY <1>5, <1>6 DEF In
<1>9. /\ Arm(db, "await") \in ArmOf /\ ~Arm(db, "await").closed /\ Arm(db, "await").core = db
      /\ Arm(bl, "open") \in ArmOf /\ ~Arm(bl, "open").closed /\ Arm(bl, "open").core = bl
  BY <1>6, NewArmOK
<1>10. \A a \in arms : ~a.closed => a.core # db /\ a.core # bl /\ a.core \in Core
  BY <1>1, <1>4, <1>7 DEF Fit, ArmsFit, ArmOf
<1>11. dirty \in BOOLEAN /\ (dirty' \in BOOLEAN => Outside')
  BY <1>3 DEF IInv, Outside
<1> HIDE DEF st, f, db, bl
<1>12. CASE rec.want[st].blobs
  <2>1. /\ mir \in Wants /\ mir[st] = [feed |-> f, blobs |-> TRUE] /\ mir[st] # None
        /\ \A t \in Stream \ {st} : mir[t] = mirror[t]
    <3>1. [feed |-> f, blobs |-> TRUE] \in Entry
      BY <1>5 DEF Entry
    <3> QED BY <1>1, <1>4, <3>1, EntryIsNot DEF Wants
  <2>2. /\ til2 \in Tails /\ til2[db] = NewTail /\ til2[bl] = NewTail
        /\ \A c \in Core \ {db, bl} : til2[c] = tail[c]
    BY <1>4, <1>6, NewTailOK DEF Tails
  <2>3. ar2 \subseteq ArmOf
    BY <1>4, <1>9
  <2> HIDE DEF mir, til2
  <2>4. \A c \in Core : In(mir, c) = In(mirror, c) /\ (mir[c[1]] # None) = (mirror[c[1]] # None)
    <3> SUFFICES ASSUME NEW c \in Core
                 PROVE  In(mir, c) = In(mirror, c) /\ (mir[c[1]] # None) = (mirror[c[1]] # None)
      OBVIOUS
    <3>1. c[1] \in Stream
      BY CoreParts
    <3>2. CASE c[1] = st
      BY <2>1, <1>5, <3>2 DEF In
    <3>3. CASE c[1] # st
      BY <2>1, <3>1, <3>3 DEF In
    <3> QED BY <3>2, <3>3
  <2>5. NoneDropped(mir, til2) /\ TailsFit(mir, til2)
    BY <1>1, <1>4, <1>6, <1>8, <2>2, <2>4 DEF NoneDropped, Fit, TailsFit, In
  <2>6. ArmsFit(mir, til2, ar2) /\ OneArm(ar2)
    <3>1. ArmsFit(mir, til2, ar2)
      BY <1>4, <1>6, <1>8, <1>9, <1>10, <2>2, <2>4, NewTailOK DEF Fit, ArmsFit
    <3>2. OneArm(ar2)
      BY <1>4, <1>6, <1>9, <1>10 DEF Fit, OneArm
    <3> QED BY <3>1, <3>2
  <2>7. Waits(mir, til2)
    <3> SUFFICES ASSUME NEW s \in Stream, mir[s] # None, ~mir[s].blobs
                 PROVE  til2[Blobs(s, mir[s].feed)] = None
      BY DEF Waits
    <3>1. s # st /\ mir[s] = mirror[s]
      BY <2>1
    <3>2. Blobs(s, mirror[s].feed) \in Core /\ Blobs(s, mirror[s].feed)[1] = s
      BY <1>4, <3>1, EntryOf, TheCores
    <3>3. tail[Blobs(s, mirror[s].feed)] = None
      BY <1>4, <3>1 DEF Fit, Waits
    <3> QED BY <1>6, <2>2, <3>1, <3>2, <3>3
  <2>8. Extends(mirror, tail, mir, til2)
    BY <1>1, <1>7, <2>2, <2>4 DEF Extends
  <2>9. Starts(rec.want, rec.left, mir, til2, ar2)
    BY <1>2, <1>12
  <2>10. Typed(mir, til2, ar2) /\ Fit(mir, til2, ar2) /\ NoneDropped(mir, til2)
    BY <2>1, <2>2, <2>3, <2>5, <2>6, <2>7 DEF Typed, Fit
  <2>11. Outside'
    BY <1>1, <1>11, <2>9, <2>10, StartsKeep
  <2> HIDE DEF ar2
  <2> QED BY <1>1, <1>3, <2>8, <2>9, <2>10, <2>11, StartsInv
<1>13. CASE ~rec.want[st].blobs
  <2>1. /\ til \in Tails /\ til[db] = NewTail
        /\ \A c \in Core \ {db} : til[c] = tail[c]
    BY <1>4, <1>6, NewTailOK DEF Tails
  <2>2. ar \subseteq ArmOf
    BY <1>4, <1>9
  <2> HIDE DEF til
  <2>3. NoneDropped(mirror, til) /\ TailsFit(mirror, til)
    BY <1>1, <1>4, <1>6, <1>8, <2>1 DEF NoneDropped, Fit, TailsFit, In
  <2>4. ArmsFit(mirror, til, ar)
    BY <1>4, <1>6, <1>8, <1>9, <1>10, <2>1, NewTailOK DEF Fit, ArmsFit
  <2>5. OneArm(ar)
    BY <1>4, <1>6, <1>9, <1>10 DEF Fit, OneArm
  <2>6. Waits(mirror, til)
    <3> SUFFICES ASSUME NEW s \in Stream, mirror[s] # None, ~mirror[s].blobs
                 PROVE  til[Blobs(s, mirror[s].feed)] = None
      BY DEF Waits
    <3>1. Blobs(s, mirror[s].feed) \in Core /\ Blobs(s, mirror[s].feed)[1] = s /\ mirror[s].feed \in 1..MaxFeed
      BY <1>4, EntryOf, TheCores
    <3>2. tail[Blobs(s, mirror[s].feed)] = None
      BY <1>4 DEF Fit, Waits
    <3>3. Blobs(s, mirror[s].feed) # db
      BY <3>1 DEF db, Db, Blobs
    <3> QED BY <2>1, <3>1, <3>2, <3>3
  <2>7. Extends(mirror, tail, mirror, til)
    BY <1>1, <2>1 DEF Extends
  <2>8. Starts(rec.want, rec.left, mirror, til, ar)
    BY <1>2, <1>13
  <2>9. Typed(mirror, til, ar) /\ Fit(mirror, til, ar) /\ NoneDropped(mirror, til)
    BY <1>4, <2>1, <2>2, <2>3, <2>4, <2>5, <2>6 DEF Typed, Fit
  <2>10. Outside'
    BY <1>1, <1>11, <2>8, <2>9, StartsKeep
  <2> HIDE DEF ar
  <2> QED BY <1>1, <1>3, <2>7, <2>8, <2>9, <2>10, StartsInv
<1> QED BY <1>12, <1>13

-----------------------------------------------------------------------------
(* What runs in the background. *)

\* A step that adds no tail leaves the pass in order.
LEMMA PassStill ==
  ASSUME IInv, UNCHANGED <<rec, mirror, up>>, \A c \in Core : tail[c] = None => tail'[c] = None
  PROVE  PassFits'
<1>1. rec.pc # "purge" => NoneDropped(mirror, tail)'
  BY DEF IInv, PassFits, NoneDropped
<1>2. ASSUME rec.pc = "open" PROVE tail'[Db(rec.s, mirror[rec.s].feed)] = None
  <2>1. /\ rec.s \in Stream /\ tail[Db(rec.s, mirror[rec.s].feed)] = None
        /\ mirror[rec.s] = NewMirror(rec.want, rec.s) /\ rec.want \in Wants /\ rec.want[rec.s] # None
    BY <1>2 DEF IInv, PassFits
  <2>2. mirror[rec.s].feed \in 1..MaxFeed
    BY <2>1, EntryOf DEF NewMirror
  <2>3. Db(rec.s, mirror[rec.s].feed) \in Core
    BY <2>1, <2>2, TheCores
  <2> QED BY <2>1, <2>3
<1>3. rec' = rec /\ mirror' = mirror /\ up' = up
  OBVIOUS
<1> QED BY <1>1, <1>2, <1>3 DEF IInv, PassFits

LEMMA LearnInv ==
  ASSUME IInv, NEW c \in Core, Learn(c)
  PROVE  IInv'
<1> USE DEF world, disk, tails, pass, count
<1>1. /\ known[c] < MaxLen + Floor(c) /\ known' = [known EXCEPT ![c] = @ + 1]
      /\ UNCHANGED <<catalog, pointer, held, up, watch, dirty, rec, mirror, tail, range, arms, sweep, drive, failed, restarts>>
  BY DEF Learn
<1>2. /\ known \in [Core -> Level] /\ Floor(c) \in {0, 1}
  BY CoreParts DEF IInv, Stored
<1>3. known' \in [Core -> Level] /\ \A d \in Core : known[d] <= known'[d]
  BY <1>1, <1>2, Bounds DEF Level
<1>4. Stored' /\ RangesFit(tail, range)' /\ SweepFits(mirror, tail, sweep)'
  BY <1>1, <1>3 DEF IInv, Stored, RangesFit, SweepFits
<1>5. Armed' = Armed /\ \A d \in Armed : d \in Core /\ tail[d] \in Tail
  BY <1>1, TailOf DEF Armed, IInv, Typed
<1>6. TailsHold'
  <2> SUFFICES ASSUME NEW d \in Armed PROVE ArmedTail(d)'
    BY <1>5 DEF TailsHold
  <2>1. ArmedTail(d) /\ tail[d].mark \in Level /\ known[d] \in Level /\ known'[d] \in Level
    BY <1>2, <1>3, <1>5 DEF IInv, Blocked, TailsHold, Tail
  <2> QED BY <1>1, <1>3, <1>5, <2>1 DEF ArmedTail, Level
<1>7. WindowIsBounded' /\ Stray'
  BY <1>1, <1>5 DEF IInv, Blocked, WindowIsBounded, Stray
<1>8. Outside' /\ PassFits'
  BY <1>1, PassStill DEF IInv, Outside
<1>9. Fit(mirror, tail, arms)' /\ Typed(mirror, tail, arms)'
  BY <1>1 DEF IInv, Fit, TailsFit, ArmsFit, OneArm, Waits, Typed
<1> QED BY <1>4, <1>6, <1>7, <1>8, <1>9 DEF IInv, Blocked

\* What a core may ask for are blocks of its window.
LEMMA WantedOK ==
  ASSUME IInv, NEW c \in Core
  PROVE  /\ Wanted(c) \subseteq 0..MaxLen
         /\ Wanted(c) # {} => c \in Armed
         /\ Wanted(c) \subseteq Blocks(0, Floor(c)) \union Blocks(tail[c].cleared, MaxLen + 1)
<1>1. /\ known[c] \in Level /\ range[c] \in Off..(MaxLen + 1) /\ Floor(c) \in {0, 1}
      /\ tail[c] # None => tail[c] \in Tail
      /\ range[c] # Off => tail[c] # None /\ tail[c].armed /\ range[c] = tail[c].cleared
  BY CoreParts, TailOf DEF IInv, Stored, Typed, RangesFit
<1> DEFINE live == IF range[c] = Off THEN {} ELSE Blocks(range[c], known[c])
           head == IF tail[c] # None /\ tail[c].armed THEN Blocks(0, Floor(c)) ELSE {}
<1>2. live \subseteq 0..MaxLen /\ live \subseteq Blocks(tail[c].cleared, MaxLen + 1) /\ (live # {} => c \in Armed)
  <2>1. CASE range[c] = Off
    BY <2>1
  <2>2. CASE range[c] # Off
    <3>1. range[c] \in Level /\ tail[c].cleared \in Level /\ c \in Armed
      BY <1>1, <2>2 DEF Tail, Armed
    <3> QED BY <1>1, <2>2, <3>1, Bounds DEF Level, Blocks
  <2> QED BY <2>1, <2>2
<1>3. head \subseteq 0..MaxLen /\ head \subseteq Blocks(0, Floor(c)) /\ (head # {} => c \in Armed)
  BY <1>1, Bounds DEF Blocks, Armed
<1>4. Wanted(c) = live \union head
  BY DEF Wanted
<1> QED BY <1>2, <1>3, <1>4

LEMMA FetchInv ==
  ASSUME IInv, NEW c \in Core, Fetch(c)
  PROVE  IInv'
<1> USE DEF world, disk, tails, pass, count
<1>1. /\ held' = [held EXCEPT ![c] = @ \union Wanted(c)] /\ Wanted(c) # {}
      /\ UNCHANGED <<catalog, pointer, known, up, watch, dirty, rec, mirror, tail, range, arms, sweep, drive, failed, restarts>>
  BY DEF Fetch
<1>2. /\ held \in [Core -> SUBSET (0..MaxLen)]
      /\ Wanted(c) \subseteq 0..MaxLen /\ c \in Armed
      /\ Wanted(c) \subseteq Blocks(0, Floor(c)) \union Blocks(tail[c].cleared, MaxLen + 1)
  BY <1>1, WantedOK DEF IInv, Stored
<1>3. Armed' = Armed /\ Armed \subseteq Core
  BY <1>1 DEF Armed
<1>4. held' \in [Core -> SUBSET (0..MaxLen)]
  BY <1>1, <1>2
<1>5. held'[c] = held[c] \union Wanted(c) /\ \A d \in Core \ {c} : held'[d] = held[d]
  BY <1>1, <1>2
<1>6. Stored' /\ RangesFit(tail, range)' /\ SweepFits(mirror, tail, sweep)'
  BY <1>1, <1>4 DEF IInv, Stored, RangesFit, SweepFits
<1>7. TailsHold'
  BY <1>1, <1>3 DEF IInv, Blocked, TailsHold, ArmedTail
<1>8. WindowIsBounded'
  <2> SUFFICES ASSUME NEW d \in Armed
               PROVE  held'[d] \subseteq Blocks(0, Floor(d)) \union Blocks(tail[d].cleared, MaxLen + 1)
    BY <1>1, <1>3 DEF WindowIsBounded
  <2>1. held[d] \subseteq Blocks(0, Floor(d)) \union Blocks(tail[d].cleared, MaxLen + 1)
    BY DEF IInv, Blocked, WindowIsBounded
  <2>2. CASE d = c
    BY <1>2, <1>5, <2>1, <2>2
  <2>3. CASE d # c
    BY <1>3, <1>5, <2>1, <2>3
  <2> QED BY <2>2, <2>3
<1>9. Stray'
  BY <1>1, <1>2, <1>3, <1>5 DEF IInv, Blocked, Stray
<1>10. Outside' /\ PassFits'
  BY <1>1, PassStill DEF IInv, Outside
<1>11. Fit(mirror, tail, arms)' /\ Typed(mirror, tail, arms)'
  BY <1>1 DEF IInv, Fit, TailsFit, ArmsFit, OneArm, Waits, Typed
<1> QED BY <1>6, <1>7, <1>8, <1>9, <1>10, <1>11 DEF IInv, Blocked

LEMMA ElapseInv ==
  ASSUME IInv, Elapse
  PROVE  IInv'
<1> USE DEF world, disk, tails, pass, count
<1>1. /\ tail' = [c \in Core |-> IF c \in Armed THEN [tail[c] EXCEPT !.mark = known[c]] ELSE tail[c]]
      /\ UNCHANGED <<catalog, pointer, known, held, up, watch, dirty, rec, mirror, range, arms, sweep, drive, failed, restarts>>
  BY DEF Elapse
<1>2. /\ tail \in Tails /\ \A c \in Armed : /\ c \in Core /\ tail[c] \in Tail /\ tail[c] # None /\ tail[c].armed
                                             /\ known[c] \in Level /\ ArmedTail(c)
  BY TailOf DEF Armed, IInv, Typed, Stored, Blocked, TailsHold
<1>3. \A c \in Core : c \notin Armed => tail'[c] = tail[c]
  BY <1>1
<1>4. \A c \in Armed : /\ tail'[c] \in Tail /\ tail'[c].armed /\ tail'[c].cleared = tail[c].cleared
                       /\ tail'[c].mark = known[c] /\ tail[c].mark <= tail'[c].mark
  BY <1>1, <1>2 DEF Tail, ArmedTail
<1>5. tail' \in Tails /\ \A c \in Core : (tail'[c] = None) = (tail[c] = None)
  <2>1. \A c \in Core : tail'[c] \in {None} \union Tail
    BY <1>2, <1>3, <1>4 DEF Tails
  <2>2. tail' \in Tails
    BY <1>1, <2>1 DEF Tails
  <2>3. \A c \in Core : (tail'[c] = None) = (tail[c] = None)
    BY <1>2, <1>3, <1>4, TailIsNot
  <2> QED BY <2>2, <2>3
<1>6. Armed' = Armed
  BY <1>3, <1>4, <1>5 DEF Armed
<1>7. RangesFit(tail, range)'
  <2> SUFFICES ASSUME NEW c \in Core, range[c] # Off
               PROVE  tail'[c] # None /\ tail'[c].armed /\ range[c] = tail'[c].cleared
    BY <1>1 DEF RangesFit
  <2>1. c \in Armed /\ range[c] = tail[c].cleared
    BY DEF IInv, RangesFit, Armed
  <2> QED BY <1>4, <2>1, TailIsNot
<1>8. SweepFits(mirror, tail, sweep)'
  <2> SUFFICES ASSUME sweep # None, ~sweep.closed PROVE SweepFits(mirror, tail, sweep)'
    BY <1>1 DEF SweepFits
  <2>1. /\ sweep.core \in Armed /\ In(mirror, sweep.core)
        /\ sweep.from = tail[sweep.core].cleared /\ sweep.to <= tail[sweep.core].mark
        /\ sweep.from <= sweep.to /\ sweep.to \in Level
    BY DEF IInv, SweepFits, Stored, Sweep, Armed
  <2>2. tail[sweep.core].mark \in Level /\ tail'[sweep.core].mark \in Level
    BY <1>2, <1>4, <2>1 DEF Tail
  <2>3. sweep.to <= tail'[sweep.core].mark
    BY <1>4, <2>1, <2>2 DEF Level
  <2> QED BY <1>1, <1>4, <2>1, <2>3, TailIsNot DEF SweepFits
<1>9. TailsHold' /\ WindowIsBounded' /\ Stray'
  <2>1. TailsHold'
    <3> SUFFICES ASSUME NEW c \in Armed PROVE ArmedTail(c)'
      BY <1>6 DEF TailsHold
    <3> QED BY <1>1, <1>2, <1>4 DEF ArmedTail, Level
  <2>2. WindowIsBounded'
    BY <1>1, <1>4, <1>6 DEF IInv, Blocked, WindowIsBounded
  <2>3. Stray'
    BY <1>1, <1>6 DEF IInv, Blocked, Stray
  <2> QED BY <2>1, <2>2, <2>3
<1>10. Fit(mirror, tail, arms)'
  <2>1. \A a \in arms : a.core \in Core
    BY DEF IInv, Typed, ArmOf
  <2>2. ArmsFit(mirror, tail, arms)'
    <3> SUFFICES ASSUME NEW a \in arms, ~a.closed
                 PROVE  tail'[a.core] # None /\ ~tail'[a.core].armed /\ In(mirror, a.core)
      BY <1>1 DEF ArmsFit
    <3>1. a.core \in Core /\ a.core \notin Armed /\ tail[a.core] # None /\ ~tail[a.core].armed /\ In(mirror, a.core)
      BY <2>1 DEF IInv, Fit, ArmsFit, Armed
    <3> QED BY <1>3, <3>1
  <2>3. TailsFit(mirror, tail)' /\ OneArm(arms)'
    BY <1>1, <1>5 DEF IInv, Fit, TailsFit, OneArm
  <2>4. Waits(mirror, tail)'
    <3> SUFFICES ASSUME NEW s \in Stream, mirror[s] # None, ~mirror[s].blobs
                 PROVE  tail'[Blobs(s, mirror[s].feed)] = None
      BY <1>1 DEF Waits
    <3>1. Blobs(s, mirror[s].feed) \in Core
      BY EntryOf, TheCores DEF IInv, Typed
    <3> QED BY <1>5, <3>1 DEF IInv, Fit, Waits
  <2> QED BY <2>2, <2>3, <2>4 DEF Fit
<1>11. Outside' /\ PassFits' /\ Stored'
  BY <1>1, <1>5, PassStill DEF IInv, Outside, Stored
<1> QED BY <1>1, <1>5, <1>7, <1>8, <1>9, <1>10, <1>11 DEF IInv, Typed, Blocked

\* An arm that goes a step further, or ends.
LEMMA ArmMoves ==
  ASSUME IInv, NEW a \in arms,
         \/ arms' = arms \ {a}
         \/ \E b \in ArmOf : b.core = a.core /\ b.closed = a.closed /\ arms' = (arms \ {a}) \union {b},
         UNCHANGED <<world, disk, up, pass, mirror, tail, range, sweep, drive, count>>
  PROVE  IInv'
<1> USE DEF world, disk, pass, count
<1>1. arms \subseteq ArmOf
  BY DEF IInv, Typed
<1>2. arms' \subseteq ArmOf /\ \A x \in arms' : \E y \in arms :
        y.core = x.core /\ y.closed = x.closed /\ (x = y \/ (y = a /\ a \notin arms' \ {x}))
  <2>1. CASE arms' = arms \ {a}
    BY <1>1, <2>1
  <2>2. CASE arms' # arms \ {a}
    <3>1. PICK b \in ArmOf : b.core = a.core /\ b.closed = a.closed /\ arms' = (arms \ {a}) \union {b}
      BY <2>2
    <3> QED BY <1>1, <3>1
  <2> QED BY <2>1, <2>2
<1>3. ArmsFit(mirror, tail, arms)'
  BY <1>2 DEF IInv, Fit, ArmsFit
<1>4. OneArm(arms)'
  <2>1. OneArm(arms)
    BY DEF IInv, Fit
  <2>2. CASE arms' = arms \ {a}
    BY <2>1, <2>2 DEF OneArm
  <2>3. CASE arms' # arms \ {a}
    <3>1. PICK b \in ArmOf : b.core = a.core /\ b.closed = a.closed /\ arms' = (arms \ {a}) \union {b}
      BY <2>3
    <3>2. \A y \in arms \ {a} : ~y.closed /\ ~b.closed => y.core # b.core
      BY <2>1, <3>1 DEF OneArm
    <3> QED BY <2>1, <3>1, <3>2 DEF OneArm
  <2> QED BY <2>2, <2>3
<1>5. TailsFit(mirror, tail)' /\ Waits(mirror, tail)'
  BY DEF IInv, Fit, TailsFit, Waits
<1>6. Extends(mirror, tail, mirror', tail')
  BY ExtendsNothing
<1>7. Stored' /\ RangesFit(tail, range)' /\ SweepFits(mirror, tail, sweep)' /\ Blocked'
  BY <1>6, BackgroundKeeps DEF IInv
<1>8. Outside' /\ PassFits'
  BY PassStill DEF IInv, Outside
<1> QED BY <1>2, <1>3, <1>4, <1>5, <1>7, <1>8 DEF IInv, Typed, Fit

LEMMA ArmStepInv ==
  ASSUME IInv, NEW c \in Core, BlobsOpen(c) \/ ArmBegins(c)
  PROVE  IInv'
<1> USE DEF world, disk, pass, count
<1>1. CASE BlobsOpen(c)
  <2>1. PICK a \in arms : /\ a.core = c /\ a.step = "open"
                         /\ IF GivenUp(a) THEN Ends(a) ELSE Becomes(a, [a EXCEPT !.step = "await"])
    BY <1>1 DEF BlobsOpen
  <2>2. a \in ArmOf
    BY DEF IInv, Typed
  <2>3. [a EXCEPT !.step = "await"] \in ArmOf /\ [a EXCEPT !.step = "await"].core = a.core
        /\ [a EXCEPT !.step = "await"].closed = a.closed
    BY <2>2 DEF ArmOf
  <2>4. UNCHANGED <<world, disk, up, pass, mirror, tail, range, sweep, drive, count>>
    BY <1>1 DEF BlobsOpen
  <2> QED BY <2>1, <2>3, <2>4, ArmMoves DEF Ends, Becomes
<1>2. CASE ArmBegins(c)
  <2>1. PICK a \in arms : /\ a.core = c /\ a.step = "await"
                         /\ IF GivenUp(a) THEN Ends(a)
                            ELSE Becomes(a, [a EXCEPT !.step = "clear", !.at = known[c]])
    BY <1>2 DEF ArmBegins
  <2>2. a \in ArmOf /\ known[c] \in Level
    BY DEF IInv, Typed, Stored
  <2> DEFINE b == [a EXCEPT !.step = "clear", !.at = known[c]]
  <2>3. b \in ArmOf /\ b.core = a.core /\ b.closed = a.closed
    BY <2>2 DEF ArmOf
  <2>4. UNCHANGED <<world, disk, up, pass, mirror, tail, range, sweep, drive, count>>
    BY <1>2 DEF ArmBegins
  <2> HIDE DEF b
  <2>5. arms' = arms \ {a} \/ arms' = (arms \ {a}) \union {b}
    BY <2>1 DEF Ends, Becomes, b
  <2> QED BY <2>3, <2>4, <2>5, ArmMoves
<1> QED BY <1>1, <1>2

\* The blobs core did not open: its tail goes with its arm.
LEMMA BlobsFailInv ==
  ASSUME IInv, NEW c \in Core, BlobsFail(c)
  PROVE  IInv'
<1> USE DEF world, disk, pass, count
<1>1. PICK a \in arms : /\ a.core = c /\ a.step = "open" /\ ~a.closed
                       /\ arms' = arms \ {a} /\ tail' = [tail EXCEPT ![c] = None]
  BY DEF BlobsFail, GivenUp, Ends
<1>2. /\ UNCHANGED <<catalog, pointer, known, held, up, watch, dirty, rec, mirror, range, sweep, drive, restarts>>
      /\ failed' \in BOOLEAN
  BY DEF BlobsFail, Strikes, IInv, Outside
<1>3. tail[c] # None /\ ~tail[c].armed /\ \A b \in arms' : ~b.closed => b.core # c
  BY <1>1 DEF IInv, Fit, ArmsFit, OneArm
<1>4. /\ tail \in Tails /\ tail' \in Tails /\ tail'[c] = None
      /\ \A d \in Core \ {c} : tail'[d] = tail[d]
  BY <1>1 DEF IInv, Typed, Tails
<1>5. arms' \subseteq ArmOf /\ \A b \in arms' : b \in arms /\ b.core \in Core
  BY <1>1 DEF IInv, Typed, ArmOf
<1>6. Armed' = Armed /\ c \notin Armed /\ Armed \subseteq Core
  BY <1>3, <1>4 DEF Armed
<1>7. Fit(mirror, tail, arms)'
  <2>1. TailsFit(mirror, tail)' /\ ArmsFit(mirror, tail, arms)' /\ OneArm(arms)'
    BY <1>2, <1>3, <1>4, <1>5 DEF IInv, Fit, TailsFit, ArmsFit, OneArm
  <2>2. Waits(mirror, tail)'
    <3> SUFFICES ASSUME NEW s \in Stream, mirror[s] # None, ~mirror[s].blobs
                 PROVE  tail'[Blobs(s, mirror[s].feed)] = None
      BY <1>2 DEF Waits
    <3>1. Blobs(s, mirror[s].feed) \in Core
      BY EntryOf, TheCores DEF IInv, Typed
    <3> QED BY <1>4, <3>1 DEF IInv, Fit, Waits
  <2> QED BY <2>1, <2>2 DEF Fit
<1>8. RangesFit(tail, range)'
  BY <1>2, <1>3, <1>4 DEF IInv, RangesFit
<1>9. SweepFits(mirror, tail, sweep)'
  <2> SUFFICES ASSUME sweep # None, ~sweep.closed PROVE SweepFits(mirror, tail, sweep)'
    BY <1>2 DEF SweepFits
  <2>1. sweep.core \in Core \ {c}
    BY <1>3 DEF IInv, SweepFits, Stored, Sweep
  <2> QED BY <1>2, <1>4, <2>1 DEF IInv, SweepFits
<1>10. TailsHold' /\ WindowIsBounded' /\ Stray'
  BY <1>2, <1>4, <1>6 DEF IInv, Blocked, TailsHold, ArmedTail, WindowIsBounded, Stray
<1>11. Outside' /\ PassFits' /\ Stored'
  BY <1>2, <1>4, PassStill DEF IInv, Outside, Stored
<1> QED BY <1>2, <1>4, <1>5, <1>7, <1>8, <1>9, <1>10, <1>11 DEF IInv, Typed, Blocked

\* What was left below the edge is cleared, and the core is armed.
LEMMA ArmEndsInv ==
  ASSUME IInv, NEW c \in Core, ArmEnds(c)
  PROVE  IInv'
<1> USE DEF world, disk, pass, count
<1>1. PICK a \in arms :
        /\ a.core = c /\ arms' = arms \ {a}
        /\ IF a.closed THEN UNCHANGED <<held, tail, range>>
           ELSE LET start == Larger(a.at, Floor(c)) IN
                /\ held'  = [held EXCEPT ![c] = @ \ Remnants(c, a.at)]
                /\ range' = [range EXCEPT ![c] = start]
                /\ tail'  = [tail EXCEPT ![c] = [armed |-> TRUE, cleared |-> start, mark |-> 0]]
  BY DEF ArmEnds, GivenUp, Ends
<1>2. UNCHANGED <<catalog, pointer, known, up, watch, dirty, rec, mirror, sweep, drive, failed, restarts>>
  BY DEF ArmEnds
<1>3. CASE a.closed
  <2>1. UNCHANGED <<held, tail, range>> /\ arms' = arms \ {a}
    BY <1>1, <1>3
  <2>2. changes' = changes /\ faults' = faults
    BY DEF ArmEnds
  <2>3. UNCHANGED <<world, disk, up, pass, mirror, tail, range, sweep, drive, count>>
    BY <1>2, <2>1, <2>2
  <2> QED BY <2>1, <2>3, ArmMoves
<1>4. CASE ~a.closed
  <2> DEFINE start == Larger(a.at, Floor(c))
             new == [armed |-> TRUE, cleared |-> start, mark |-> 0]
  <2>1. /\ held' = [held EXCEPT ![c] = @ \ Remnants(c, a.at)]
        /\ range' = [range EXCEPT ![c] = start] /\ tail' = [tail EXCEPT ![c] = new]
    BY <1>1, <1>4
  <2>2. a.at \in Level /\ Floor(c) \in {0, 1}
    BY CoreParts DEF IInv, Typed, ArmOf
  <2>3. start \in Level /\ start >= Floor(c) /\ start >= a.at /\ start \in {a.at, Floor(c)}
    BY <2>2, Bounds DEF Larger, Level
  <2> HIDE DEF start
  <2>4. new \in Tail /\ new # None /\ new.armed /\ new.cleared = start /\ new.mark = 0
    <3>1. new \in Tail
      BY <2>3, Bounds DEF Tail, Level
    <3> QED BY <3>1, TailIsNot
  <2> HIDE DEF new
  <2>5. /\ tail[c] # None /\ ~tail[c].armed /\ In(mirror, c) /\ \A b \in arms' : ~b.closed => b.core # c
    BY <1>1, <1>4 DEF IInv, Fit, ArmsFit, OneArm
  <2>6. /\ tail \in Tails /\ tail' \in Tails /\ tail'[c] = new /\ \A d \in Core \ {c} : tail'[d] = tail[d]
        /\ held'[c] = held[c] \ Remnants(c, a.at) /\ \A d \in Core \ {c} : held'[d] = held[d]
        /\ range'[c] = start /\ \A d \in Core \ {c} : range'[d] = range[d]
    BY <2>1, <2>4 DEF IInv, Typed, Tails, Stored
  <2>7. arms' \subseteq ArmOf /\ \A b \in arms' : b \in arms /\ b.core \in Core
    BY <1>1 DEF IInv, Typed, ArmOf
  <2>8. Armed' = Armed \union {c} /\ Armed \subseteq Core \ {c}
    BY <2>4, <2>5, <2>6 DEF Armed
  <2>9. Stored'
    <3>1. held' \in [Core -> SUBSET (0..MaxLen)]
      BY <2>1 DEF IInv, Stored
    <3>2. start \in Off..(MaxLen + 1)
      BY <2>3, Bounds DEF Off, Level
    <3>3. range' \in [Core -> Off..(MaxLen + 1)]
      BY <2>1, <3>2 DEF IInv, Stored
    <3> QED BY <1>2, <3>1, <3>3 DEF IInv, Stored
  <2>10. Fit(mirror, tail, arms)'
    <3>1. TailsFit(mirror, tail)'
      BY <1>2, <2>5, <2>6 DEF IInv, Fit, TailsFit
    <3>2. ArmsFit(mirror, tail, arms)' /\ OneArm(arms)'
      BY <1>2, <2>5, <2>6, <2>7 DEF IInv, Fit, ArmsFit, OneArm
    <3>3. Waits(mirror, tail)'
      <4> SUFFICES ASSUME NEW s \in Stream, mirror[s] # None, ~mirror[s].blobs
                   PROVE  tail'[Blobs(s, mirror[s].feed)] = None
        BY <1>2 DEF Waits
      <4>1. Blobs(s, mirror[s].feed) \in Core /\ tail[Blobs(s, mirror[s].feed)] = None
        BY EntryOf, TheCores DEF IInv, Typed, Fit, Waits
      <4> QED BY <2>5, <2>6, <4>1
    <3> QED BY <3>1, <3>2, <3>3 DEF Fit
  <2>11. RangesFit(tail, range)'
    BY <2>4, <2>6 DEF IInv, RangesFit
  <2>12. SweepFits(mirror, tail, sweep)'
    <3> SUFFICES ASSUME sweep # None, ~sweep.closed PROVE SweepFits(mirror, tail, sweep)'
      BY <1>2 DEF SweepFits
    <3>1. sweep.core \in Core \ {c}
      BY <2>5 DEF IInv, SweepFits, Stored, Sweep
    <3> QED BY <1>2, <2>6, <3>1 DEF IInv, SweepFits
  <2>13. TailsHold'
    <3> SUFFICES ASSUME NEW d \in Armed' PROVE ArmedTail(d)'
      BY DEF TailsHold
    <3>1. CASE d = c
      <4>1. known[c] \in Level
        BY DEF IInv, Stored
      <4> QED BY <1>2, <2>3, <2>4, <2>6, <3>1, <4>1 DEF ArmedTail, Level
    <3>2. CASE d # c
      BY <1>2, <2>6, <2>8, <3>2 DEF IInv, Blocked, TailsHold, ArmedTail
    <3> QED BY <3>1, <3>2
  <2>14. WindowIsBounded'
    <3> SUFFICES ASSUME NEW d \in Armed'
                 PROVE  held'[d] \subseteq Blocks(0, Floor(d)) \union Blocks(tail'[d].cleared, MaxLen + 1)
      BY DEF WindowIsBounded
    <3>1. CASE d = c
      <4>1. held[c] \subseteq 0..MaxLen
        BY DEF IInv, Stored
      <4>2. held'[c] = held[c] \ Blocks(Floor(c), a.at) /\ tail'[c].cleared = start
        BY <2>4, <2>6 DEF Remnants
      <4>3. \A n \in 0..MaxLen : n < Floor(c) \/ n \in Blocks(Floor(c), a.at) \/ n \in Blocks(start, MaxLen + 1)
        BY <2>2, <2>3, Bounds DEF Blocks, Level
      <4>4. \A n \in 0..MaxLen : n < Floor(c) => n \in Blocks(0, Floor(c))
        BY <2>2, Bounds DEF Blocks
      <4> QED BY <3>1, <4>1, <4>2, <4>3, <4>4
    <3>2. CASE d # c
      BY <2>6, <2>8, <3>2 DEF IInv, Blocked, WindowIsBounded
    <3> QED BY <3>1, <3>2
  <2>15. Stray'
    BY <1>2, <2>6, <2>8 DEF IInv, Blocked, Stray
  <2>16. Outside' /\ PassFits'
    BY <1>2, <2>5, <2>6, PassStill DEF IInv, Outside
  <2> QED BY <1>2, <2>6, <2>7, <2>9, <2>10, <2>11, <2>12, <2>13, <2>14, <2>15, <2>16
             DEF IInv, Typed, Blocked
<1> QED BY <1>3, <1>4

-----------------------------------------------------------------------------
(* Retention, and restarts. *)

LEMMA SweepBeginsInv ==
  ASSUME IInv, NEW c \in Core, SweepBegins(c)
  PROVE  IInv'
<1> USE DEF world, disk, pass, count
<1>1. /\ c \in Armed /\ mirror[c[1]] # None /\ tail[c].mark > tail[c].cleared
      /\ sweep' = [core |-> c, from |-> Larger(tail[c].cleared, Floor(c)), to |-> tail[c].mark, closed |-> FALSE]
      /\ range' = [range EXCEPT ![c] = Off]
      /\ UNCHANGED <<catalog, pointer, known, held, up, watch, dirty, rec, mirror, tail, arms, drive, failed, restarts>>
  BY DEF SweepBegins, Expired
<1>2. /\ tail[c] # None /\ tail[c].armed /\ tail[c] \in Tail /\ In(mirror, c) /\ ArmedTail(c)
      /\ tail[c].mark \in Level /\ tail[c].cleared \in Level /\ Floor(c) \in {0, 1}
  <2>1. tail[c] # None /\ tail[c].armed /\ tail[c] \in Tail
    BY <1>1, TailOf DEF Armed, IInv, Typed
  <2>2. In(mirror, c) /\ ArmedTail(c)
    BY <1>1, <2>1 DEF IInv, Fit, TailsFit, Blocked, TailsHold
  <2> QED BY <2>1, <2>2, CoreParts DEF Tail
<1>3. Larger(tail[c].cleared, Floor(c)) = tail[c].cleared
  BY <1>2 DEF Larger, ArmedTail, Level
<1>4. sweep' \in Sweep /\ sweep' # None
  <2>1. sweep' \in Sweep
    BY <1>1, <1>2, <1>3 DEF Sweep
  <2> QED BY <2>1, SweepIsNot
<1>5. range' \in [Core -> Off..(MaxLen + 1)] /\ range'[c] = Off /\ \A d \in Core \ {c} : range'[d] = range[d]
  <2>1. Off \in Off..(MaxLen + 1)
    BY Bounds DEF Off
  <2> QED BY <1>1, <2>1 DEF IInv, Stored
<1>6. Stored' /\ RangesFit(tail, range)'
  BY <1>1, <1>4, <1>5 DEF IInv, Stored, RangesFit
<1>7. SweepFits(mirror, tail, sweep)'
  BY <1>1, <1>2, <1>3 DEF SweepFits, Level
<1>8. Armed' = Armed
  BY <1>1 DEF Armed
<1>9. TailsHold' /\ WindowIsBounded' /\ Stray'
  BY <1>1, <1>8 DEF IInv, Blocked, TailsHold, ArmedTail, WindowIsBounded, Stray
<1>10. Outside' /\ PassFits'
  BY <1>1, PassStill DEF IInv, Outside
<1>11. Fit(mirror, tail, arms)' /\ Typed(mirror, tail, arms)'
  BY <1>1 DEF IInv, Fit, TailsFit, ArmsFit, OneArm, Waits, Typed
<1> QED BY <1>6, <1>7, <1>9, <1>10, <1>11 DEF IInv, Blocked

\* What a sweep that ends does to its core.
LEMMA SweepEffect ==
  ASSUME IInv, SweepEnds, ~sweep.closed
  PROVE  LET c == sweep.core IN
         /\ c \in Armed /\ c \in Core /\ In(mirror, c)
         /\ sweep.from = tail[c].cleared /\ sweep.to <= tail[c].mark /\ sweep.from <= sweep.to
         /\ sweep.from \in Level /\ sweep.to \in Level
         /\ held' = [held EXCEPT ![c] = @ \ Blocks(sweep.from, sweep.to)]
         /\ range' = [range EXCEPT ![c] = sweep.to]
         /\ tail' \in Tails /\ tail'[c] \in Tail /\ tail'[c].armed
         /\ tail'[c].cleared = sweep.to /\ tail'[c].mark = tail[c].mark
         /\ \A d \in Core \ {c} : tail'[d] = tail[d]
<1> DEFINE c == sweep.core
<1>1. sweep # None /\ sweep \in Sweep
  BY DEF SweepEnds, IInv, Stored
<1>2. /\ c \in Core /\ sweep.from \in Level /\ sweep.to \in Level
  BY <1>1 DEF Sweep
<1>3. /\ tail[c] # None /\ tail[c].armed /\ In(mirror, c)
      /\ sweep.from = tail[c].cleared /\ sweep.to <= tail[c].mark /\ sweep.from <= sweep.to
  BY <1>1 DEF IInv, SweepFits
<1>4. tail[c] \in Tail /\ tail \in Tails
  BY <1>2, <1>3, TailOf DEF IInv, Typed
<1>5. /\ held' = [held EXCEPT ![c] = @ \ Blocks(sweep.from, sweep.to)]
      /\ range' = [range EXCEPT ![c] = sweep.to]
      /\ tail' = [tail EXCEPT ![c] = [tail[c] EXCEPT !.cleared = sweep.to]]
  BY DEF SweepEnds, GivenUp
<1> DEFINE new == [tail[c] EXCEPT !.cleared = sweep.to]
<1>6. new \in Tail /\ new.armed /\ new.cleared = sweep.to /\ new.mark = tail[c].mark
  BY <1>2, <1>3, <1>4 DEF Tail
<1> HIDE DEF new
<1>7. tail' = [tail EXCEPT ![c] = new]
  BY <1>5 DEF new
<1>8. tail' \in Tails /\ tail'[c] = new /\ \A d \in Core \ {c} : tail'[d] = tail[d]
  BY <1>2, <1>4, <1>6, <1>7 DEF Tails
<1>9. c \in Armed
  BY <1>2, <1>3 DEF Armed
<1> HIDE DEF c
<1> QED BY <1>2, <1>3, <1>5, <1>6, <1>8, <1>9 DEF c

LEMMA SweepEndsInv ==
  ASSUME IInv, SweepEnds
  PROVE  IInv'
<1> USE DEF world, disk, pass, count
<1>1. /\ sweep' = None
      /\ UNCHANGED <<catalog, pointer, known, up, watch, dirty, rec, mirror, arms, drive, failed, restarts>>
  BY DEF SweepEnds, SweepOver
<1>2. SweepFits(mirror, tail, sweep)'
  BY <1>1 DEF SweepFits
<1>3. CASE sweep.closed
  <2>1. UNCHANGED <<held, tail, range>>
    BY <1>3 DEF SweepEnds, GivenUp
  <2>2. Armed' = Armed
    BY <2>1 DEF Armed
  <2>3. Stored' /\ RangesFit(tail, range)'
    BY <1>1, <2>1 DEF IInv, Stored, RangesFit
  <2>4. TailsHold' /\ WindowIsBounded' /\ Stray'
    BY <1>1, <2>1, <2>2 DEF IInv, Blocked, TailsHold, ArmedTail, WindowIsBounded, Stray
  <2>5. Outside' /\ PassFits'
    BY <1>1, <2>1, PassStill DEF IInv, Outside
  <2>6. Fit(mirror, tail, arms)' /\ Typed(mirror, tail, arms)'
    BY <1>1, <2>1 DEF IInv, Fit, TailsFit, ArmsFit, OneArm, Waits, Typed
  <2> QED BY <1>2, <2>3, <2>4, <2>5, <2>6 DEF IInv, Blocked
<1>4. CASE ~sweep.closed
  <2> DEFINE c == sweep.core
  <2>1. /\ c \in Armed /\ c \in Core /\ In(mirror, c)
        /\ sweep.from = tail[c].cleared /\ sweep.to <= tail[c].mark /\ sweep.from <= sweep.to
        /\ sweep.from \in Level /\ sweep.to \in Level
        /\ held' = [held EXCEPT ![c] = @ \ Blocks(sweep.from, sweep.to)]
        /\ range' = [range EXCEPT ![c] = sweep.to]
        /\ tail' \in Tails /\ tail'[c] \in Tail /\ tail'[c].armed
        /\ tail'[c].cleared = sweep.to /\ tail'[c].mark = tail[c].mark
        /\ \A d \in Core \ {c} : tail'[d] = tail[d]
    BY <1>4, SweepEffect
  <2> HIDE DEF c
  <2>2. tail[c] # None /\ tail'[c] # None /\ \A d \in Core : (tail'[d] = None) = (tail[d] = None)
    BY <2>1, TailIsNot DEF Armed
  <2>3. Armed' = Armed /\ Armed \subseteq Core
    BY <2>1, <2>2 DEF Armed
  <2>4. /\ held \in [Core -> SUBSET (0..MaxLen)] /\ held'[c] = held[c] \ Blocks(sweep.from, sweep.to)
        /\ \A d \in Core \ {c} : held'[d] = held[d]
        /\ range'[c] = sweep.to /\ \A d \in Core \ {c} : range'[d] = range[d]
    BY <2>1 DEF IInv, Stored
  <2>5. Stored'
    <3>1. held' \in [Core -> SUBSET (0..MaxLen)]
      BY <2>1, <2>4
    <3>2. sweep.to \in Off..(MaxLen + 1)
      BY <2>1, Bounds DEF Level, Off
    <3>3. range' \in [Core -> Off..(MaxLen + 1)]
      BY <2>1, <3>2 DEF IInv, Stored
    <3> QED BY <1>1, <3>1, <3>3 DEF IInv, Stored
  <2>6. RangesFit(tail, range)'
    BY <2>1, <2>2, <2>4 DEF IInv, RangesFit
  <2>7. TailsHold'
    <3> SUFFICES ASSUME NEW d \in Armed PROVE ArmedTail(d)'
      BY <2>3 DEF TailsHold
    <3>1. ArmedTail(d)
      BY DEF IInv, Blocked, TailsHold
    <3>2. CASE d = c
      <4>1. Floor(c) \in {0, 1} /\ known[c] \in Level
        BY <2>1, CoreParts DEF IInv, Stored
      <4> QED BY <1>1, <2>1, <3>1, <3>2, <4>1 DEF ArmedTail, Level
    <3>3. CASE d # c
      BY <1>1, <2>1, <2>3, <3>1, <3>3 DEF ArmedTail
    <3> QED BY <3>2, <3>3
  <2>8. WindowIsBounded'
    <3> SUFFICES ASSUME NEW d \in Armed
                 PROVE  held'[d] \subseteq Blocks(0, Floor(d)) \union Blocks(tail'[d].cleared, MaxLen + 1)
      BY <2>3 DEF WindowIsBounded
    <3>1. held[d] \subseteq Blocks(0, Floor(d)) \union Blocks(tail[d].cleared, MaxLen + 1)
      BY DEF IInv, Blocked, WindowIsBounded
    <3>2. CASE d = c
      <4>1. \A n : n \in Blocks(sweep.from, MaxLen + 1) => n \in Blocks(sweep.from, sweep.to) \/ n \in Blocks(sweep.to, MaxLen + 1)
        BY <2>1, Bounds DEF Blocks, Level
      <4> QED BY <2>1, <2>4, <3>1, <3>2, <4>1
    <3>3. CASE d # c
      BY <2>1, <2>3, <2>4, <3>1, <3>3
    <3> QED BY <3>2, <3>3
  <2>9. Stray'
    BY <1>1, <2>3, <2>4 DEF IInv, Blocked, Stray
  <2>10. Outside' /\ PassFits'
    BY <1>1, <2>2, PassStill DEF IInv, Outside
  <2>11. Fit(mirror, tail, arms)'
    <3>1. \A a \in arms : ~a.closed => a.core \in Core \ {c}
      BY <2>1 DEF IInv, Typed, ArmOf, Fit, ArmsFit, Armed
    <3>2. TailsFit(mirror, tail)' /\ ArmsFit(mirror, tail, arms)' /\ OneArm(arms)'
      BY <1>1, <2>1, <2>2, <3>1 DEF IInv, Fit, TailsFit, ArmsFit, OneArm
    <3>3. Waits(mirror, tail)'
      <4> SUFFICES ASSUME NEW s \in Stream, mirror[s] # None, ~mirror[s].blobs
                   PROVE  tail'[Blobs(s, mirror[s].feed)] = None
        BY <1>1 DEF Waits
      <4>1. Blobs(s, mirror[s].feed) \in Core /\ tail[Blobs(s, mirror[s].feed)] = None
        BY EntryOf, TheCores DEF IInv, Typed, Fit, Waits
      <4> QED BY <2>2, <4>1
    <3> QED BY <3>2, <3>3 DEF Fit
  <2> QED BY <1>1, <1>2, <2>1, <2>5, <2>6, <2>7, <2>8, <2>9, <2>10, <2>11 DEF IInv, Typed, Blocked
<1> QED BY <1>3, <1>4

LEMMA RestartInv ==
  ASSUME IInv, Restart
  PROVE  IInv'
<1> USE DEF world, disk
<1>1. /\ up' = FALSE /\ failed' = FALSE /\ dirty' = FALSE /\ rec' = Idle /\ restarts' = restarts + 1
      /\ watch' = [armed |-> FALSE, news |-> FALSE]
      /\ mirror' = [s \in Stream |-> None] /\ tail' = [c \in Core |-> None]
      /\ range' = [c \in Core |-> Off] /\ arms' = {} /\ sweep' = None
      /\ drive' = [p \in Pointers |-> 0]
      /\ UNCHANGED <<catalog, pointer, known, held>>
  BY DEF Restart
<1>2. Outside'
  <2>1. up' \in BOOLEAN /\ dirty' \in BOOLEAN /\ failed' \in BOOLEAN
    BY <1>1
  <2>2. watch' \in [armed : BOOLEAN, news : BOOLEAN]
    BY <1>1
  <2>3. drive' \in [Pointers -> 0..MaxFeed]
    BY <1>1, Bounds
  <2>4. catalog' \in Wants /\ pointer' \in [Pointers -> 0..MaxFeed] /\ restarts' \in Nat
    BY <1>1 DEF IInv, Outside
  <2> QED BY <2>1, <2>2, <2>3, <2>4 DEF Outside
<1>3. Stored' /\ Typed(mirror, tail, arms)'
  <2>1. Off \in Off..(MaxLen + 1)
    BY Bounds DEF Off
  <2> QED BY <1>1, <2>1 DEF IInv, Stored, Typed, Wants, Tails
<1>4. Fit(mirror, tail, arms)' /\ RangesFit(tail, range)' /\ SweepFits(mirror, tail, sweep)'
  BY <1>1 DEF Fit, TailsFit, ArmsFit, OneArm, Waits, RangesFit, SweepFits
<1>5. PassFits'
  BY <1>1 DEF PassFits, NoneDropped, Idle
<1>6. Blocked'
  <2>1. Armed' = {}
    BY <1>1 DEF Armed
  <2>2. restarts' # 0
    BY <1>1 DEF IInv, Outside
  <2> QED BY <2>1, <2>2 DEF Blocked, TailsHold, WindowIsBounded, Stray
<1> QED BY <1>2, <1>3, <1>4, <1>5, <1>6 DEF IInv

-----------------------------------------------------------------------------
(* The theorems. *)

LEMMA IInvInit == Init => IInv
<1> SUFFICES ASSUME Init PROVE IInv
  OBVIOUS
<1>1. Outside
  <2>1. up \in BOOLEAN /\ dirty \in BOOLEAN /\ failed \in BOOLEAN
    BY DEF Init
  <2>2. watch \in [armed : BOOLEAN, news : BOOLEAN]
    BY DEF Init
  <2>3. drive \in [Pointers -> 0..MaxFeed] /\ pointer \in [Pointers -> 0..MaxFeed]
    BY Bounds DEF Init
  <2>4. catalog \in Wants /\ restarts \in Nat
    BY DEF Init, Wants
  <2> QED BY <2>1, <2>2, <2>3, <2>4 DEF Outside
<1>2. Stored /\ Typed(mirror, tail, arms)
  <2>1. Off \in Off..(MaxLen + 1) /\ 0 \in Level
    BY Bounds DEF Off, Level
  <2> QED BY <2>1 DEF Init, Stored, Typed, Wants, Tails
<1>3. Fit(mirror, tail, arms) /\ RangesFit(tail, range) /\ SweepFits(mirror, tail, sweep)
  BY DEF Init, Fit, TailsFit, ArmsFit, OneArm, Waits, RangesFit, SweepFits
<1>4. PassFits
  BY DEF Init, PassFits, NoneDropped, Idle
<1>5. Blocked
  <2>1. Armed = {} /\ \A c \in Core : held[c] = {}
    BY DEF Init, Armed
  <2> QED BY <2>1 DEF Blocked, TailsHold, WindowIsBounded, Stray
<1> QED BY <1>1, <1>2, <1>3, <1>4, <1>5 DEF IInv

LEMMA IInvNext == IInv /\ [Next]_vars => IInv'
<1> SUFFICES ASSUME IInv, [Next]_vars PROVE IInv'
  OBVIOUS
<1>1. CASE UNCHANGED vars
  <2>1. /\ UNCHANGED <<known, held, mirror, tail, range, arms, sweep, restarts>>
        /\ UNCHANGED <<catalog, pointer, up, watch, dirty, rec, drive, failed>>
    BY <1>1 DEF vars, world, disk, pass, tails, count
  <2>2. Outside' /\ PassFits'
    BY <2>1, PassStill DEF IInv, Outside
  <2> QED BY <2>1, <2>2, StillInv
<1>2. CASE Next
  <2>1. CASE CatalogChanges \/ PointerChanges \/ Truncated \/ Follow \/ Periodic \/ ReadFails \/ DriveFails \/ OpenFails \/ Boot
    BY <2>1, QuietInv DEF Follow
  <2>2. CASE Pass
    BY <2>2, QuietInv, OnwardInv, PurgeInv, PointerReadInv, OpenedInv DEF Pass
  <2>3. CASE Elapse
    BY <2>3, ElapseInv
  <2>4. CASE SweepEnds
    BY <2>4, SweepEndsInv
  <2>5. CASE Restart
    BY <2>5, RestartInv
  <2>6. CASE \E c \in Core : Learn(c) \/ ArmStep(c) \/ BlobsFail(c) \/ Fetch(c) \/ SweepBegins(c)
    BY <2>6, LearnInv, ArmStepInv, ArmEndsInv, BlobsFailInv, FetchInv, SweepBeginsInv DEF ArmStep
  <2> QED BY <1>2, <2>1, <2>2, <2>3, <2>4, <2>5, <2>6 DEF Next
<1> QED BY <1>1, <1>2

\* The inductive invariant holds whatever the catalog, the fetches, the clears and
\* the restarts do: no mirror, arm or sweep outlives the drop of its core.
THEOREM Invariance == Spec => []IInv
<1>1. Init => IInv
  BY IInvInit
<1>2. IInv /\ [Next]_vars => IInv'
  BY IInvNext
<1> QED BY <1>1, <1>2, PTL DEF Spec

\* Mirrors, tails, ranges, arms and sweeps keep their shape.
THEOREM TypeInvariant == Spec => []TypeOK
<1>1. IInv => TypeOK
  BY DEF IInv, Outside, Stored, Typed, TypeOK, Wants, Entry, Tails, Tail, ArmOf, Sweep, Level
<1> QED BY <1>1, Invariance, PTL

\* Whatever an arm or a sweep has begun, no core that a pass has dropped is put
\* to work again (the guards after the awaits of _armTail and _sweep).
THEOREM NothingDroppedWorks == Spec => []NoGhostRange
<1>1. IInv => NoGhostRange
  <2> SUFFICES ASSUME IInv, NEW c \in Core, range[c] # Off
               PROVE  /\ tail[c] # None /\ tail[c].armed
                      /\ rec.pc = "purge" \/ (mirror[c[1]] # None /\ mirror[c[1]].feed = c[2])
    BY DEF NoGhostRange
  <2>1. tail[c] # None /\ tail[c].armed
    BY DEF IInv, RangesFit
  <2>2. rec.pc # "purge" => mirror[c[1]] # None /\ mirror[c[1]].feed = c[2]
    BY <2>1 DEF IInv, PassFits, NoneDropped, Fit, TailsFit, In
  <2> QED BY <2>1, <2>2
<1> QED BY <1>1, Invariance, PTL

\* An armed core holds nothing below what was cleared but the drive's header.
THEOREM WindowsBounded == Spec => []WindowIsBounded
<1>1. IInv => WindowIsBounded
  BY DEF IInv, Blocked
<1> QED BY <1>1, Invariance, PTL

\* As long as the box has not restarted, each block on disk is a mirror's, or is
\* about to be purged: however many rotations there were (_dropMirror).
THEOREM NothingStray == Spec => []NoStrayCore
<1>1. IInv => NoStrayCore
  BY DEF IInv, Blocked, Stray, NoStrayCore, Armed
<1> QED BY <1>1, Invariance, PTL

\* Blocks go in three ways: a purge, an arm and a sweep.
LEMMA BlocksGo ==
  ASSUME [Next]_vars
  PROVE  \/ \A c \in Core : held[c] \subseteq held'[c]
         \/ Purge \/ SweepEnds \/ \E c \in Core : ArmEnds(c)
         \/ \E c \in Core : Fetch(c)
<1> USE DEF disk
<1>1. CASE UNCHANGED vars
  BY <1>1 DEF vars
<1>2. CASE \/ CatalogChanges \/ PointerChanges \/ Truncated \/ Tick \/ Rearm \/ Periodic \/ SleepEnds
           \/ CatalogRead \/ PurgesDone \/ PointerRead
  BY <1>2 DEF CatalogChanges, PointerChanges, Truncated, Tick, Rearm, Periodic, SleepEnds, CatalogRead,
              PurgesDone, PointerRead
<1>3. CASE Opened \/ PassGone \/ ReadFails \/ DriveFails \/ OpenFails \/ Elapse \/ Restart \/ Boot
  BY <1>3 DEF Opened, PassGone, ReadFails, DriveFails, OpenFails, Elapse, Restart, Boot
<1>4. CASE \E c \in Core : Learn(c) \/ BlobsOpen(c) \/ ArmBegins(c) \/ BlobsFail(c) \/ SweepBegins(c)
  BY <1>4 DEF Learn, BlobsOpen, ArmBegins, BlobsFail, SweepBegins
<1> QED BY <1>1, <1>2, <1>3, <1>4 DEF Next, Follow, Pass, ArmStep

\* An armed core loses no block before its retention has passed, whatever
\* sweeps, drops, failures and restarts do (_sweep).
THEOREM YoungBlocksKept == Spec => YoungIsKept
<1> DEFINE Young == \A c \in Armed : tail'[c] # None => held[c] \ held'[c] \subseteq Blocks(0, tail[c].mark)
<1>1. IInv /\ [Next]_vars => Young
  <2> SUFFICES ASSUME IInv, [Next]_vars, NEW c \in Armed, tail'[c] # None
               PROVE  held[c] \ held'[c] \subseteq Blocks(0, tail[c].mark)
    OBVIOUS
  <2>1. c \in Core /\ tail[c] # None /\ tail[c].armed /\ held \in [Core -> SUBSET (0..MaxLen)] /\ tail \in Tails
    BY DEF Armed, IInv, Stored, Typed
  <2>2. CASE Purge
    <3>1. PICK d \in Core : tail' = [tail EXCEPT ![d] = None] /\ held' = [held EXCEPT ![d] = {}]
      BY <2>2 DEF Purge, Dropped
    <3>2. d # c
      BY <2>1, <3>1 DEF Tails
    <3> QED BY <2>1, <3>1, <3>2
  <2>3. CASE SweepEnds
    <3>1. CASE sweep.closed
      BY <2>3, <3>1 DEF SweepEnds, GivenUp
    <3>2. CASE ~sweep.closed
      <4>1. /\ held' = [held EXCEPT ![sweep.core] = @ \ Blocks(sweep.from, sweep.to)]
            /\ sweep.core \in Core /\ sweep.from \in Level /\ sweep.to \in Level
            /\ sweep.to <= tail[sweep.core].mark /\ sweep.core \in Armed
        BY <2>3, <3>2, SweepEffect
      <4>2. tail[sweep.core].mark \in Level
        BY <2>1, <4>1, TailOf DEF Armed, Tail
      <4>3. Blocks(sweep.from, sweep.to) \subseteq Blocks(0, tail[sweep.core].mark)
        BY <4>1, <4>2, Bounds DEF Blocks, Level
      <4> QED BY <2>1, <4>1, <4>3
    <3> QED BY <3>1, <3>2
  <2>4. CASE \E d \in Core : ArmEnds(d)
    <3>1. PICK d \in Core : ArmEnds(d)
      BY <2>4
    <3>2. PICK a \in arms :
            /\ a.core = d
            /\ IF a.closed THEN UNCHANGED <<held, tail, range>>
               ELSE LET start == Larger(a.at, Floor(d)) IN
                    /\ held'  = [held EXCEPT ![d] = @ \ Remnants(d, a.at)]
                    /\ range' = [range EXCEPT ![d] = start]
                    /\ tail'  = [tail EXCEPT ![d] = [armed |-> TRUE, cleared |-> start, mark |-> 0]]
      BY <3>1 DEF ArmEnds, GivenUp
    <3>3. ~a.closed => d # c /\ held' = [held EXCEPT ![d] = @ \ Remnants(d, a.at)]
      BY <2>1, <3>2 DEF IInv, Fit, ArmsFit
    <3> QED BY <2>1, <3>2, <3>3
  <2>5. CASE \E d \in Core : Fetch(d)
    BY <2>1, <2>5 DEF Fetch
  <2> QED BY <2>1, <2>2, <2>3, <2>4, <2>5, BlocksGo
<1>2. IInv /\ [Next]_vars => [Young]_vars
  BY <1>1
<1> HIDE DEF Young
<1>3. Spec => [][Young]_vars
  BY <1>2, Invariance, PTL DEF Spec
<1> QED BY <1>3 DEF YoungIsKept, Young

=============================================================================
