----------------------- MODULE BroadcasterChannelProofs -----------------------
(***************************************************************************)
(* What the life of a channel promises for any number of operators, starts *)
(* and stops that overlap, rotations, changes of the source and crashes.   *)
(*                                                                         *)
(* The invariant says that the store has one holder (a start, the run, or  *)
(* a teardown), and that no generation is numbered above the registry's    *)
(* before it is shown nor used again after it was purged, for as long as    *)
(* the registry keeps the channel.                                         *)
(*                                                                         *)
(* The last part is about the watchdog of one run (ChannelWatchdog): how   *)
(* long its viewers may be left without anything new.                      *)
(***************************************************************************)
EXTENDS BroadcasterChannel, TLAPS

\* The calls that have the store open: a start on its way, an addition that
\* learns the key of its drive.
InStart(c) == req[c].pc \in {"drive", "join", "key"}

\* The Corestore is held by one such call, by the run, or by who tears it down.
Holders ==
  /\ run # 0 => store = "used" /\ down = "nobody"
  /\ down # "nobody" => store = "used"
  /\ \A c \in Caller : InStart(c) => store = "used" /\ run = 0 /\ down = "nobody"
  /\ \A c, d \in Caller : InStart(c) /\ InStart(d) => c = d
  /\ \A c \in Caller : req[c].pc = "stop" => down = c

Rotation ==
  /\ run = 0 => old = NoOld
  /\ rot.live => run # 0 /\ old.pc # "grace" /\ rot.pc # "none"
  /\ rot.pc # "none" =>
       rot.gen \in Gen /\ (run # 0 \/ down # "nobody") /\ \A a \in aired : a < rot.gen

\* What was shown is no younger than the registry, what was purged is older.
Numbers ==
  /\ \A a \in aired : a <= meta.gen /\ a <= saved.gen
  /\ run # 0 => run \in aired /\ \A a \in aired : a <= run
  /\ \A c \in Caller : req[c].pc = "join" =>
       req[c].gen \in Gen /\ req[c].gen <= meta.gen /\ \A a \in aired : a <= req[c].gen
  /\ gone \subseteq aired /\ \A g \in gone : g < meta.gen /\ g < saved.gen

\* What the panel link says follows the run, but while it is torn down.
Linked ==
  /\ run # 0 => link = Say("live", run)
  /\ run = 0 /\ down = "nobody" => link.say # "live"

\* A process that ended left nothing on its way.
Ended ==
  up = "down" => /\ run = 0 /\ rot.pc = "none" /\ down = "nobody"
                 /\ \A c \in Caller : req[c].pc = "idle"

\* HeldIsKept, one kind of holder at a time.
HeldParts ==
  /\ run # 0 => run \in cores
  /\ old.pc = "grace" => old.gen \in cores
  /\ rot.pc = "announce" /\ rot.live => rot.gen \in cores
  /\ \A c \in Caller : req[c].pc = "join" => req[c].gen \in cores

IInv == TypeOK /\ Holders /\ Rotation /\ Numbers /\ HeldParts /\ NoRebirth /\ Linked /\ Ended

-----------------------------------------------------------------------------
(* Numbers, callers and the records the variables hold. *)

Slot == [pc : {"idle", "assert", "drive", "join", "stop", "add", "key"}, gen : Gen \cup {0}]

LEMMA Bounds == Gen \subseteq Nat /\ 0 \notin Gen /\ 1 \in Gen /\ 1 \in 1..MaxSource
BY BoundsAssumption DEF Gen

LEMMA GenOrNone == \A g \in Gen \cup {0} : g \in Nat
BY BoundsAssumption DEF Gen

LEMMA Callers == \A c \in Caller : c # "close" /\ c # "nobody"
BY CallerAssumption DEF Caller

LEMMA MetaParts ==
  ASSUME NEW mt \in Meta
  PROVE  /\ mt.gen \in Gen /\ mt.gen \in Nat /\ mt.src \in 1..MaxSource
         /\ mt.reg \in BOOLEAN /\ mt.wanted \in BOOLEAN
BY Bounds DEF Meta

LEMMA SlotOf ==
  ASSUME NEW g \in Gen \cup {0}, NEW pc \in {"idle", "assert", "drive", "join", "stop", "add", "key"}
  PROVE  At(pc, g) \in Slot /\ At(pc, g).pc = pc /\ At(pc, g).gen = g
BY DEF At, Slot

LEMMA IdleSlot == Idle \in Slot /\ Idle.pc = "idle"
BY DEF Idle, Slot

\* What a caller's slot becomes, the others keep theirs.
LEMMA ReqGoes ==
  ASSUME TypeOK, NEW c \in Caller, NEW s \in Slot, req' = [req EXCEPT ![c] = s]
  PROVE  /\ req' \in [Caller -> Slot] /\ req'[c] = s
         /\ \A d \in Caller : d # c => req'[d] = req[d]
BY DEF TypeOK, Slot

LEMMA SayParts ==
  ASSUME NEW w \in {"nothing", "live", "idle"}, NEW g \in Gen \cup {0}
  PROVE  /\ Say(w, g) \in [say : {"nothing", "live", "idle"}, gen : Gen \cup {0}]
         /\ Say(w, g).say = w /\ Say(w, g).gen = g
BY DEF Say

LEMMA Nothings ==
  /\ NoOld \in [pc : {"none", "grace", "closing"}, gen : Gen \cup {0}] /\ NoOld.pc = "none"
  /\ NoRot \in [pc : {"none", "mint", "announce"}, gen : Gen \cup {0}, live : BOOLEAN]
  /\ NoRot.pc = "none" /\ NoRot.live = FALSE
  /\ Silent \in [say : {"nothing", "live", "idle"}, gen : Gen \cup {0}] /\ Silent.say = "nothing"
BY DEF NoOld, NoRot, Silent

LEMMA Kinds ==
  ASSUME TypeOK
  PROVE  /\ meta \in Meta /\ saved \in Meta /\ run \in Gen \cup {0}
         /\ meta.gen \in Nat /\ saved.gen \in Nat /\ run \in Nat
         /\ old \in [pc : {"none", "grace", "closing"}, gen : Gen \cup {0}]
         /\ rot \in [pc : {"none", "mint", "announce"}, gen : Gen \cup {0}, live : BOOLEAN]
         /\ rot.gen \in Nat
         /\ \A a \in aired : a \in Gen /\ a \in Nat
         /\ \A a \in gone : a \in Gen /\ a \in Nat
         /\ \A c \in Caller : req[c] \in Slot /\ req[c].gen \in Gen \cup {0} /\ req[c].gen \in Nat
<1>1. meta \in Meta /\ saved \in Meta /\ run \in Gen \cup {0} BY DEF TypeOK
<1>2. meta.gen \in Nat /\ saved.gen \in Nat BY <1>1, MetaParts
<1>3. run \in Nat BY <1>1, Bounds
<1>4. /\ old \in [pc : {"none", "grace", "closing"}, gen : Gen \cup {0}]
      /\ rot \in [pc : {"none", "mint", "announce"}, gen : Gen \cup {0}, live : BOOLEAN]
  BY DEF TypeOK
<1>5. rot.gen \in Nat
  <2>1. rot.gen \in Gen \cup {0} BY <1>4
  <2> QED BY <2>1, GenOrNone
<1>6. (\A a \in aired : a \in Gen /\ a \in Nat) /\ (\A a \in gone : a \in Gen /\ a \in Nat)
  BY Bounds DEF TypeOK
<1>7. \A c \in Caller : req[c] \in Slot BY DEF TypeOK, Slot
<1>8. \A c \in Caller : req[c].gen \in Gen \cup {0} /\ req[c].gen \in Nat
  BY <1>7, Bounds DEF Slot
<1> QED BY <1>1, <1>2, <1>3, <1>4, <1>5, <1>6, <1>7, <1>8

LEMMA HeldIs == HeldParts <=> HeldIsKept
BY DEF HeldParts, HeldIsKept, Held

LEMMA Counted ==
  ASSUME TypeOK, CountOp \/ (\E f \in Faults : Fault(f)) \/ UNCHANGED used
  PROVE  ops' \in Nat /\ faults' \in Nat
BY DEF TypeOK, CountOp, Fault, used

-----------------------------------------------------------------------------
(* Steps that open, serve, retire and purge nothing. *)

LEMMA FrameInv ==
  ASSUME IInv, TypeOK', Ended', meta'.gen >= meta.gen,
         saved'.gen >= saved.gen \/ saved'.gen >= meta.gen,
         UNCHANGED <<run, old, rot, down, store, cores, link, aired, gone>>,
         \A c \in Caller : req'[c] = req[c] \/ req'[c].pc \in {"idle", "assert"}
  PROVE  IInv'
<1>1. UNCHANGED run /\ UNCHANGED old /\ UNCHANGED rot /\ UNCHANGED down /\ UNCHANGED store
      /\ UNCHANGED cores /\ UNCHANGED link /\ UNCHANGED aired /\ UNCHANGED gone
  OBVIOUS
<1>2. /\ meta.gen \in Nat /\ saved.gen \in Nat /\ meta'.gen \in Nat /\ saved'.gen \in Nat
      /\ (\A a \in aired : a \in Nat) /\ (\A a \in gone : a \in Nat)
      /\ \A c \in Caller : req[c].gen \in Nat
  <2>1. TypeOK BY DEF IInv
  <2>2. meta' \in Meta /\ saved' \in Meta BY DEF TypeOK
  <2> QED BY <2>1, <2>2, Kinds, MetaParts
<1>3. Holders' /\ Rotation' /\ HeldParts' /\ NoRebirth' /\ Linked'
  BY <1>1 DEF IInv, Holders, InStart, Rotation, HeldParts, NoRebirth, Linked
<1>4. Numbers'
  <2>1. \A a \in aired : a <= meta'.gen /\ a <= saved'.gen
    BY <1>2 DEF IInv, Numbers
  <2>2. \A g \in gone : g < meta'.gen /\ g < saved'.gen
    BY <1>2 DEF IInv, Numbers
  <2>3. \A c \in Caller : req'[c].pc = "join" =>
          req'[c].gen \in Gen /\ req'[c].gen <= meta'.gen /\ \A a \in aired : a <= req'[c].gen
    BY <1>2 DEF IInv, Numbers
  <2> QED BY <1>1, <2>1, <2>2, <2>3 DEF IInv, Numbers
<1> QED BY <1>3, <1>4 DEF IInv

LEMMA StartAskedInv ==
  ASSUME IInv, NEW c \in Client, StartAsked(c)
  PROVE  IInv'
<1>1. c \in Caller /\ TypeOK BY DEF Caller, IInv
<1>2. At("assert", 0) \in Slot /\ At("assert", 0).pc = "assert" BY SlotOf
<1>3. /\ req' \in [Caller -> Slot] /\ req'[c].pc = "assert"
      /\ \A d \in Caller : d # c => req'[d] = req[d]
  BY <1>1, <1>2, ReqGoes DEF StartAsked
<1>4. ops' \in Nat /\ faults' \in Nat BY <1>1, Counted DEF StartAsked
<1>5. TypeOK' BY <1>1, <1>3, <1>4 DEF StartAsked, TypeOK, Slot, disk, hist
<1>6. Ended' BY DEF StartAsked, Ended
<1>7. meta.gen \in Nat /\ saved.gen \in Nat BY <1>1, Kinds
<1> QED BY <1>1, <1>3, <1>5, <1>6, <1>7, FrameInv DEF StartAsked, disk, hist

LEMMA PoolStartsInv == ASSUME IInv, PoolStarts PROVE IInv'
<1>1. Pool \in Caller /\ TypeOK BY DEF Caller, IInv
<1>2. At("assert", 0) \in Slot /\ At("assert", 0).pc = "assert" BY SlotOf
<1>3. /\ req' \in [Caller -> Slot]
      /\ \A d \in Caller : req'[d] = req[d] \/ req'[d].pc = "assert"
  <2>1. CASE meta.reg /\ run = 0
    <3>1. req' = [req EXCEPT ![Pool] = At("assert", 0)] BY <2>1 DEF PoolStarts
    <3> QED BY <1>1, <1>2, <3>1, ReqGoes
  <2>2. CASE ~(meta.reg /\ run = 0)
    <3>1. req' = req BY <2>2 DEF PoolStarts
    <3> QED BY <1>1, <3>1 DEF TypeOK, Slot
  <2> QED BY <2>1, <2>2
<1>4. /\ UNCHANGED <<up, meta, run, playing, old, rot, down, store, link>>
      /\ UNCHANGED <<saved, cores, spoilt, carried, aired, gone, ops, faults>> 
      /\ resume' \in BOOLEAN
  BY DEF PoolStarts, disk, hist, used
<1>5. TypeOK' BY <1>1, <1>3, <1>4 DEF TypeOK, Slot
<1>6. Ended' BY DEF PoolStarts, Ended
<1>7. meta.gen \in Nat /\ saved.gen \in Nat BY <1>1, Kinds
<1> QED BY <1>1, <1>3, <1>5, <1>6, <1>7, FrameInv DEF PoolStarts, disk, hist

LEMMA StartRefusedInv ==
  ASSUME IInv, NEW c \in Caller, StartRefused(c)
  PROVE  IInv'
<1>1. TypeOK BY DEF IInv
<1>3. /\ req' \in [Caller -> Slot] /\ req'[c].pc = "idle"
      /\ \A d \in Caller : d # c => req'[d] = req[d]
  BY <1>1, IdleSlot, ReqGoes DEF StartRefused, Answer
<1>4. ops' \in Nat /\ faults' \in Nat BY <1>1, Counted DEF StartRefused, Fault
<1>5. TypeOK' BY <1>1, <1>3, <1>4 DEF StartRefused, TypeOK, Slot, disk, hist
<1>6. Ended' BY DEF StartRefused, Serving, Ended
<1>7. meta.gen \in Nat /\ saved.gen \in Nat BY <1>1, Kinds
<1> QED BY <1>1, <1>3, <1>5, <1>6, <1>7, FrameInv DEF StartRefused, disk, hist

LEMMA UpdateInv == ASSUME IInv, Update PROVE IInv'
<1>1. TypeOK BY DEF IInv
<1>2. /\ meta' \in Meta /\ meta'.gen >= meta.gen
      /\ saved' = meta'
  <2>1. meta \in Meta /\ meta.gen \in Nat /\ meta.gen \in Gen /\ meta.src \in 1..MaxSource
    BY <1>1, Kinds, MetaParts
  <2>2. meta.gen + 1 \in Gen /\ meta.src + 1 \in 1..MaxSource
    BY <2>1, BoundsAssumption DEF Update, Gen
  <2>3. meta' = [meta EXCEPT !.src = meta.src + 1, !.gen = meta.gen + 1] /\ saved' = meta'
    BY DEF Update, SaveAs
  <2>4. meta' \in Meta BY <2>1, <2>2, <2>3 DEF Meta
  <2>5. meta'.gen = meta.gen + 1 BY <2>1, <2>3 DEF Meta
  <2> QED BY <2>1, <2>3, <2>4, <2>5
<1>4. ops' \in Nat /\ faults' \in Nat BY <1>1, Counted DEF Update
<1>5. TypeOK' BY <1>1, <1>2, <1>4 DEF Update, TypeOK, hist
<1>6. Ended' BY DEF Update, Ended, IInv
<1>7. meta.gen \in Nat /\ saved.gen \in Nat BY <1>1, Kinds
<1>8. UNCHANGED <<run, old, rot, down, store, cores, link, aired, gone>> /\ req' = req
  BY DEF Update, hist
<1> QED BY <1>2, <1>5, <1>6, <1>7, <1>8, FrameInv

LEMMA RespawnInv == ASSUME IInv, Respawn PROVE IInv'
<1>1. TypeOK BY DEF IInv
<1>2. run \in Gen /\ meta.src \in 1..MaxSource
  BY <1>1, Kinds, MetaParts DEF Respawn
<1>3. carried' \in [Gen -> SUBSET (1..MaxSource)]
  <2>1. carried[run] \cup {meta.src} \in SUBSET (1..MaxSource) BY <1>1, <1>2 DEF TypeOK
  <2> QED BY <1>1, <2>1 DEF Respawn, TypeOK
<1>5. TypeOK' BY <1>1, <1>2, <1>3 DEF Respawn, TypeOK, disk, used
<1>6. Ended' BY DEF Respawn, Ended, IInv
<1>7. meta.gen \in Nat /\ saved.gen \in Nat BY <1>1, Kinds
<1>8. UNCHANGED <<meta, saved, run, old, rot, down, store, cores, link, aired, gone>> /\ req' = req
  BY DEF Respawn, disk
<1> QED BY <1>5, <1>6, <1>7, <1>8, FrameInv

LEMMA RemoveInv == ASSUME IInv, Remove PROVE IInv'
<1>1. TypeOK BY DEF IInv
<1>2. meta' \in Meta /\ meta'.gen = meta.gen /\ saved' = meta'
  <2>1. meta' = [meta EXCEPT !.reg = FALSE] /\ saved' = meta' BY DEF Remove, SaveAs
  <2> QED BY <1>1, <2>1, Kinds DEF Meta
<1>4. ops' \in Nat /\ faults' \in Nat BY <1>1, Counted DEF Remove
<1>5. TypeOK' BY <1>1, <1>2, <1>4 DEF Remove, TypeOK, hist
<1>6. Ended' BY DEF Remove, Ended, IInv
<1>7. meta.gen \in Nat /\ saved.gen \in Nat BY <1>1, Kinds
<1>8. UNCHANGED <<run, old, rot, down, store, cores, link, aired, gone>> /\ req' = req
  BY DEF Remove, hist
<1> QED BY <1>2, <1>5, <1>6, <1>7, <1>8, FrameInv

LEMMA OtherSavesInv == ASSUME IInv, OtherSaves PROVE IInv'
<1>1. TypeOK BY DEF IInv
<1>5. TypeOK' BY <1>1 DEF OtherSaves, TypeOK, hist, used
<1>6. Ended' BY DEF OtherSaves, Ended, IInv
<1>7. meta.gen \in Nat /\ saved.gen \in Nat BY <1>1, Kinds
<1>8. UNCHANGED <<meta, run, old, rot, down, store, cores, link, aired, gone>> /\ req' = req
      /\ saved' = meta
  BY DEF OtherSaves, hist
<1> QED BY <1>5, <1>6, <1>7, <1>8, FrameInv

-----------------------------------------------------------------------------
(* The collector. *)

LEMMA PurgeParts ==
  ASSUME TypeOK, NEW g \in Gen, Purge(cores, Spared(g), aired)
  PROVE  /\ cores' = cores \cap {g} /\ spoilt' \subseteq Gen /\ cores' \subseteq Gen
         /\ gone' \subseteq Gen
         /\ \A a \in gone' : a \in gone \/ (a \in aired /\ a # g)
         /\ gone \subseteq gone'
<1>1. /\ cores' = cores \cap {g} /\ spoilt' = spoilt \cap {g}
      /\ gone' = gone \cup (aired \cap (cores \ {g}))
  BY DEF Purge, Spared
<1>2. cores \subseteq Gen /\ spoilt \subseteq Gen /\ aired \subseteq Gen /\ gone \subseteq Gen
  BY DEF TypeOK
<1> QED BY <1>1, <1>2

\* A collection while the run goes on, with nothing retired that is waited for.
LEMMA CollectInv ==
  ASSUME IInv, TypeOK', run # 0, rot.pc = "none", old.pc # "grace",
         old' = old \/ old' = NoOld, Purge(cores, Spared(run), aired),
         UNCHANGED <<up, meta, saved, run, rot, down, store, req, link, aired>>
  PROVE  IInv'
<1>1. TypeOK BY DEF IInv
<1>2. run \in Gen BY <1>1, <1>1, Kinds
<1>3. /\ cores' = cores \cap {run}
      /\ \A a \in gone' : a \in gone \/ (a \in aired /\ a # run)
  BY <1>1, <1>2, PurgeParts
<1>4. UNCHANGED up /\ UNCHANGED meta /\ UNCHANGED saved /\ UNCHANGED run /\ UNCHANGED rot
      /\ UNCHANGED down /\ UNCHANGED store /\ UNCHANGED req /\ UNCHANGED link /\ UNCHANGED aired
  OBVIOUS
<1>5. old'.pc # "grace"
  BY Nothings
<1>6. \A c \in Caller : ~InStart(c)
  BY DEF IInv, Holders
<1>7. Holders' BY <1>4 DEF IInv, Holders, InStart
<1>8. Rotation' BY <1>4, <1>5 DEF IInv, Rotation
<1>9. Numbers'
  <2>1. \A a \in aired : a <= run /\ a <= meta.gen /\ a <= saved.gen
    BY DEF IInv, Numbers
  <2>2. run \in Nat /\ meta.gen \in Nat /\ saved.gen \in Nat /\ \A a \in aired : a \in Nat
    BY <1>1, Kinds
  <2>3. run \in aired BY DEF IInv, Numbers
  <2>4. \A a \in aired : a # run => a < meta.gen /\ a < saved.gen
    BY <2>1, <2>2, <2>3
  <2>5. gone' \subseteq aired' /\ \A g \in gone' : g < meta'.gen /\ g < saved'.gen
    BY <1>3, <1>4, <2>4 DEF IInv, Numbers
  <2> QED BY <1>4, <2>5 DEF IInv, Numbers
<1>10. HeldParts'
  <2>1. run \in cores BY DEF IInv, HeldParts
  <2> QED BY <1>3, <1>4, <1>5, <1>6, <2>1 DEF HeldParts, InStart
<1>11. NoRebirth'
  <2>1. run \notin gone'
    BY <1>3 DEF IInv, NoRebirth, HeldParts
  <2> QED BY <1>3, <2>1 DEF NoRebirth
<1>12. Linked' /\ Ended'
  BY <1>4 DEF IInv, Linked, Ended
<1> QED BY <1>7, <1>8, <1>9, <1>10, <1>11, <1>12 DEF IInv

LEMMA PeriodicGcInv == ASSUME IInv, PeriodicGc PROVE IInv'
<1>1. TypeOK BY DEF IInv
<1>2. run \in Gen BY <1>1, Kinds DEF PeriodicGc
<1>3. /\ UNCHANGED <<up, meta, saved, run, playing, old, rot, down, store, req, resume, link, carried, aired>>
      /\ UNCHANGED <<ops, faults>>
  BY DEF PeriodicGc, used
<1>4. Purge(cores, Spared(run), aired) /\ run # 0 /\ rot.pc = "none" /\ old.pc # "grace"
  BY DEF PeriodicGc, MayCollect
<1>5. TypeOK' BY <1>1, <1>2, <1>3, <1>4, PurgeParts DEF TypeOK
<1> QED BY <1>3, <1>4, <1>5, CollectInv

\* The retired generation goes on closing, and nothing else moves.
LEMMA RetiredInv ==
  ASSUME IInv, TypeOK', old'.pc # "grace", run # 0,
         UNCHANGED <<up, meta, saved, run, rot, down, store, cores, req, link, aired, gone>>
  PROVE  IInv'
<1>1. UNCHANGED up /\ UNCHANGED meta /\ UNCHANGED saved /\ UNCHANGED run /\ UNCHANGED rot
      /\ UNCHANGED down /\ UNCHANGED store /\ UNCHANGED req /\ UNCHANGED link /\ UNCHANGED aired
      /\ UNCHANGED cores /\ UNCHANGED gone
  OBVIOUS
<1>2. Holders' /\ Rotation' /\ Numbers' /\ HeldParts' /\ NoRebirth' /\ Linked' /\ Ended'
  BY <1>1 DEF IInv, Holders, InStart, Rotation, Numbers, HeldParts, NoRebirth, Linked, Ended
<1> QED BY <1>2 DEF IInv

LEMMA GraceEndsInv == ASSUME IInv, GraceEnds PROVE IInv'
<1>1. TypeOK BY DEF IInv
<1>2. old' \in [pc : {"none", "grace", "closing"}, gen : Gen \cup {0}] /\ old'.pc = "closing"
  BY <1>1, Kinds DEF GraceEnds
<1>3. run # 0
  BY Nothings DEF GraceEnds, IInv, Rotation
<1>4. TypeOK' BY <1>1, <1>2 DEF GraceEnds, TypeOK, disk, hist, used
<1> QED BY <1>2, <1>3, <1>4, RetiredInv DEF GraceEnds, disk, hist

LEMMA RetiredClosesInv == ASSUME IInv, RetiredCloses PROVE IInv'
<1>1. TypeOK BY DEF IInv
<1>2. run # 0
  BY Nothings DEF RetiredCloses, IInv, Rotation
<1>3. run \in Gen BY <1>1, <1>2, Kinds
<1>4. /\ UNCHANGED <<up, meta, saved, run, playing, rot, down, store, req, resume, link, carried, aired>>
      /\ UNCHANGED <<ops, faults>> /\ old' = NoOld /\ old.pc = "closing"
  BY DEF RetiredCloses, used
<1>5. CASE MayCollect
  <2>1. Purge(cores, Spared(run), aired) BY <1>5 DEF RetiredCloses
  <2>2. TypeOK' BY <1>1, <1>3, <1>4, <2>1, PurgeParts, Nothings DEF TypeOK
  <2> QED BY <1>2, <1>4, <1>5, <2>1, <2>2, CollectInv DEF MayCollect
<1>6. CASE ~MayCollect
  <2>1. UNCHANGED <<cores, spoilt, gone>> BY <1>6 DEF RetiredCloses
  <2>2. TypeOK' BY <1>1, <1>4, <2>1, Nothings DEF TypeOK
  <2> QED BY <1>2, <1>4, <2>1, <2>2, RetiredInv, Nothings
<1> QED BY <1>5, <1>6

-----------------------------------------------------------------------------
(* The start, from its store to its run. *)

LEMMA StoreOpensInv ==
  ASSUME IInv, NEW c \in Caller, StoreOpens(c)
  PROVE  IInv'
<1>1. TypeOK BY DEF IInv
<1>2. /\ UNCHANGED <<up, meta, run, playing, old, rot, down, resume, link>>
      /\ UNCHANGED <<saved, cores, spoilt, carried, aired, gone, ops, faults>>
      /\ req[c].pc = "assert" /\ up # "down"
  BY DEF StoreOpens, Serving, disk, hist, used
<1>3. CASE store = "free"
  <2>1. store' = "used" /\ req' = [req EXCEPT ![c] = At("drive", 0)]
    BY <1>3 DEF StoreOpens
  <2>2. At("drive", 0) \in Slot /\ At("drive", 0).pc = "drive" BY SlotOf
  <2>3. /\ req' \in [Caller -> Slot] /\ req'[c].pc = "drive"
        /\ \A d \in Caller : d # c => req'[d] = req[d]
    BY <1>1, <2>1, <2>2, ReqGoes
  <2>4. run = 0 /\ down = "nobody" /\ \A d \in Caller : ~InStart(d)
    BY <1>3 DEF IInv, Holders
  <2>5. TypeOK' BY <1>1, <1>2, <2>1, <2>3 DEF TypeOK, Slot
  <2>6. Holders' BY <1>2, <2>1, <2>3, <2>4 DEF IInv, Holders, InStart
  <2>7. Rotation' /\ NoRebirth' /\ Linked' /\ Ended'
    BY <1>2 DEF IInv, Rotation, NoRebirth, Linked, Ended
  <2>8. Numbers' BY <1>2, <2>3 DEF IInv, Numbers
  <2>9. HeldParts' BY <1>2, <2>3 DEF IInv, HeldParts
  <2> QED BY <2>5, <2>6, <2>7, <2>8, <2>9 DEF IInv
<1>4. CASE store # "free"
  <2>1. store' = store /\ req' = [req EXCEPT ![c] = Idle]
    BY <1>4 DEF StoreOpens, Answer
  <2>2. /\ req' \in [Caller -> Slot] /\ req'[c].pc = "idle"
        /\ \A d \in Caller : d # c => req'[d] = req[d]
    BY <1>1, <2>1, IdleSlot, ReqGoes
  <2>3. TypeOK' BY <1>1, <1>2, <2>1, <2>2 DEF TypeOK, Slot
  <2>4. Ended' BY <1>2 DEF Ended
  <2>5. meta.gen \in Nat /\ saved.gen \in Nat BY <1>1, Kinds
  <2> QED BY <1>2, <2>1, <2>2, <2>3, <2>4, <2>5, FrameInv
<1> QED BY <1>3, <1>4

\* A call that fails after it opened the store leaves it open.
LEMMA LeaksInv ==
  ASSUME IInv, TypeOK', NEW c \in Caller, store' = "leaked", up # "down",
         run = 0, down = "nobody", \A d \in Caller : d # c => ~InStart(d),
         req'[c].pc = "idle", \A d \in Caller : d # c => req'[d] = req[d],
         meta'.gen >= meta.gen,
         UNCHANGED <<up, run, old, rot, down, link, saved, cores, aired, gone>>
  PROVE  IInv'
<1>1. UNCHANGED up /\ UNCHANGED run /\ UNCHANGED old /\ UNCHANGED rot /\ UNCHANGED down
      /\ UNCHANGED link /\ UNCHANGED saved /\ UNCHANGED cores /\ UNCHANGED aired /\ UNCHANGED gone
  OBVIOUS
<1>2. run = 0 /\ down = "nobody" /\ \A d \in Caller : d # c => ~InStart(d)
  OBVIOUS
<1>3. Holders' BY <1>1, <1>2 DEF IInv, Holders, InStart
<1>4. Rotation' /\ NoRebirth' /\ Linked' /\ Ended'
  BY <1>1 DEF IInv, Rotation, NoRebirth, Linked, Ended
<1>5. \A d \in Caller : req'[d].pc # "join"
  BY <1>2 DEF InStart
<1>6. Numbers'
  <2>1. meta.gen \in Nat /\ meta'.gen \in Nat /\ (\A a \in aired : a \in Nat) /\ (\A a \in gone : a \in Nat)
    <3>1. TypeOK /\ meta' \in Meta BY DEF IInv, TypeOK
    <3> QED BY <3>1, Kinds, MetaParts
  <2>2. (\A a \in aired : a <= meta'.gen) /\ (\A g \in gone : g < meta'.gen)
    BY <2>1 DEF IInv, Numbers
  <2> QED BY <1>1, <1>2, <1>5, <2>2 DEF IInv, Numbers
<1>7. HeldParts' BY <1>1, <1>5 DEF IInv, HeldParts
<1> QED BY <1>3, <1>4, <1>6, <1>7 DEF IInv

LEMMA StartBreaksInv ==
  ASSUME IInv, NEW c \in Caller, StartBreaks(c)
  PROVE  IInv'
<1>1. TypeOK BY DEF IInv
<1>2. /\ UNCHANGED <<up, meta, run, playing, old, rot, down, resume, link>>
      /\ UNCHANGED <<saved, cores, spoilt, carried, aired, gone>>
      /\ InStart(c) /\ up # "down" /\ store' = "leaked" /\ req' = [req EXCEPT ![c] = Idle]
  BY DEF StartBreaks, Serving, disk, hist, InStart, Answer
<1>3. /\ req' \in [Caller -> Slot] /\ req'[c].pc = "idle"
      /\ \A d \in Caller : d # c => req'[d] = req[d]
  BY <1>1, <1>2, IdleSlot, ReqGoes
<1>4. ops' \in Nat /\ faults' \in Nat BY <1>1, Counted DEF StartBreaks, Fault
<1>5. TypeOK' BY <1>1, <1>2, <1>3, <1>4 DEF TypeOK, Slot
<1>6. meta.gen \in Nat BY <1>1, Kinds
<1>7. run = 0 /\ down = "nobody" /\ \A d \in Caller : d # c => ~InStart(d)
  BY <1>2 DEF IInv, Holders
<1> QED BY <1>2, <1>3, <1>5, <1>6, <1>7, LeaksInv

LEMMA DriveOpensInv ==
  ASSUME IInv, NEW c \in Caller, DriveOpens(c)
  PROVE  IInv'
<1>1. TypeOK BY DEF IInv
<1> DEFINE g == Healed(meta.gen)
<1>2. /\ UNCHANGED <<up, run, playing, old, rot, down, resume, link>>
      /\ UNCHANGED <<saved, spoilt, carried, aired, gone, ops, faults>>
      /\ req[c].pc = "drive" /\ up # "down" /\ g \in Gen /\ meta' = [meta EXCEPT !.gen = g]
  BY DEF DriveOpens, Serving, hist, used
<1>3. g >= meta.gen /\ g \in Nat /\ meta.gen \in Nat
  BY <1>1, Kinds DEF Healed
<1>4. meta' \in Meta /\ meta'.gen = g
  BY <1>1, <1>2, Kinds DEF Meta
<1>5. CASE g \in spoilt
  <2>1. store' = "leaked" /\ req' = [req EXCEPT ![c] = Idle] /\ UNCHANGED cores
    BY <1>5 DEF DriveOpens, Answer
  <2>2. /\ req' \in [Caller -> Slot] /\ req'[c].pc = "idle"
        /\ \A d \in Caller : d # c => req'[d] = req[d]
    BY <1>1, <2>1, IdleSlot, ReqGoes
  <2>3. TypeOK' BY <1>1, <1>2, <1>4, <2>1, <2>2 DEF TypeOK, Slot
  <2>4. InStart(c) BY <1>2 DEF InStart
  <2>5. \A d \in Caller : d # c => ~InStart(d) BY <2>4 DEF IInv, Holders
  <2>6. run = 0 /\ down = "nobody" BY <2>4 DEF IInv, Holders
  <2> QED BY <1>2, <1>3, <1>4, <2>1, <2>2, <2>3, <2>5, <2>6, LeaksInv
<1>6. CASE g \notin spoilt
  <2>1. store' = store /\ req' = [req EXCEPT ![c] = At("join", g)] /\ cores' = cores \cup {g}
    BY <1>6 DEF DriveOpens
  <2>2. At("join", g) \in Slot /\ At("join", g).pc = "join" /\ At("join", g).gen = g
    BY <1>2, SlotOf
  <2>3. /\ req' \in [Caller -> Slot] /\ req'[c].pc = "join" /\ req'[c].gen = g
        /\ \A d \in Caller : d # c => req'[d] = req[d]
    BY <1>1, <2>1, <2>2, ReqGoes
  <2>4. TypeOK' BY <1>1, <1>2, <1>4, <2>1, <2>3 DEF TypeOK, Slot
  <2>5. InStart(c) /\ run = 0 /\ \A d \in Caller : d # c => ~InStart(d)
    BY <1>2 DEF IInv, Holders, InStart
  <2>6. Holders' BY <1>2, <2>1, <2>3, <2>5 DEF IInv, Holders, InStart
  <2>7. Rotation' /\ Linked' /\ Ended'
    BY <1>2 DEF IInv, Rotation, Linked, Ended
  <2>8. /\ \A a \in aired : a \in Nat /\ a <= g
        /\ \A a \in gone : a \in Nat /\ a < g
    BY <1>1, <1>3, Kinds DEF IInv, Numbers
  <2>9. Numbers'
    <3>1. \A d \in Caller : req'[d].pc = "join" => d = c
      BY <2>3, <2>5 DEF InStart
    <3> HIDE DEF g
    <3> QED BY <1>2, <1>3, <1>4, <2>3, <2>5, <2>8, <3>1 DEF IInv, Numbers
  <2>10. HeldParts'
    BY <1>2, <2>1, <2>3 DEF IInv, HeldParts
  <2>11. NoRebirth'
    <3>1. g \notin gone BY <1>3, <2>8
    <3> QED BY <1>2, <2>1, <3>1 DEF IInv, NoRebirth
  <2> QED BY <2>4, <2>6, <2>7, <2>9, <2>10, <2>11 DEF IInv
<1> QED BY <1>5, <1>6

LEMMA StartDoneInv ==
  ASSUME IInv, NEW c \in Caller, StartDone(c)
  PROVE  IInv'
<1>1. TypeOK BY DEF IInv
<1> DEFINE g == req[c].gen
<1>2. /\ UNCHANGED <<up, old, rot, down, store, resume, ops, faults>>
      /\ req[c].pc = "join" /\ up # "down" /\ run' = g /\ playing' = meta.src
      /\ Purge(cores, Spared(g), aired) /\ link' = Say("live", g) /\ aired' = aired \cup {g}
      /\ carried' = [carried EXCEPT ![g] = carried[g] \cup {meta.src}]
      /\ meta' = [meta EXCEPT !.wanted = TRUE] /\ saved' = meta' /\ req' = [req EXCEPT ![c] = Idle]
  BY DEF StartDone, Serving, Airs, SaveAs, Started, Answer, used
<1>3. /\ InStart(c) /\ run = 0 /\ down = "nobody" /\ store = "used"
      /\ \A d \in Caller : d # c => ~InStart(d)
  BY <1>2 DEF IInv, Holders, InStart
<1>4. /\ g \in Gen /\ g <= meta.gen /\ g \in cores /\ (\A a \in aired : a <= g)
      /\ \A a \in aired : a <= meta.gen
  BY <1>2 DEF IInv, Numbers, HeldParts
<1>5. /\ g # 0 /\ g \in Nat /\ meta.gen \in Nat /\ meta.src \in 1..MaxSource
      /\ \A a \in aired : a \in Nat
  BY <1>1, <1>4, Bounds, Kinds, MetaParts
<1>6. /\ req' \in [Caller -> Slot] /\ req'[c].pc = "idle"
      /\ \A d \in Caller : d # c => req'[d] = req[d]
  BY <1>1, <1>2, IdleSlot, ReqGoes
<1>7. meta' \in Meta /\ meta'.gen = meta.gen
  <2>1. meta \in Meta BY <1>1, Kinds
  <2> QED BY <1>2, <2>1 DEF Meta
<1>8. /\ cores' = cores \cap {g} /\ cores' \subseteq Gen /\ spoilt' \subseteq Gen /\ gone' \subseteq Gen
      /\ \A a \in gone' : a \in gone \/ (a \in aired /\ a # g)
  BY <1>1, <1>2, <1>4, PurgeParts
<1>9. /\ link' \in [say : {"nothing", "live", "idle"}, gen : Gen \cup {0}]
  BY <1>2, <1>4, SayParts
<1>10. carried' \in [Gen -> SUBSET (1..MaxSource)]
  <2>1. carried[g] \cup {meta.src} \in SUBSET (1..MaxSource) BY <1>1, <1>4, <1>5 DEF TypeOK
  <2> QED BY <1>1, <1>2, <2>1 DEF TypeOK
<1> HIDE DEF g
<1>11. TypeOK'
  <2>1. run' \in Gen \cup {0} /\ playing' \in 1..MaxSource /\ aired' \subseteq Gen /\ saved' \in Meta
    BY <1>1, <1>2, <1>4, <1>5, <1>7 DEF TypeOK
  <2> QED BY <1>1, <1>2, <1>6, <1>7, <1>8, <1>9, <1>10, <2>1 DEF TypeOK, Slot
<1>12. \A d \in Caller : ~InStart(d)'
  BY <1>3, <1>6 DEF InStart
<1>13. Holders'
  <2>1. \A d \in Caller : req'[d].pc = "stop" => down' = d
    BY <1>2, <1>6 DEF IInv, Holders
  <2> QED BY <1>2, <1>3, <1>12, <2>1 DEF Holders
<1>14. Rotation'
  <2>1. ~rot.live /\ rot.pc = "none" /\ old = NoOld
    BY <1>3 DEF IInv, Rotation
  <2> QED BY <1>2, <1>5, <2>1 DEF Rotation
<1>15. Numbers'
  <2>1. \A a \in aired' : a <= g /\ a <= meta'.gen /\ a <= saved'.gen
    BY <1>2, <1>4, <1>5, <1>7
  <2>2. gone' \subseteq aired'
    BY <1>2, <1>8 DEF IInv, Numbers
  <2>3. \A a \in gone' : a < meta'.gen
    <3>1. \A a \in aired : a # g => a < meta.gen
      BY <1>4, <1>5
    <3> QED BY <1>7, <1>8, <3>1 DEF IInv, Numbers
  <2>4. \A a \in gone' : a < saved'.gen BY <1>2, <2>3
  <2>5. \A d \in Caller : req'[d].pc # "join" BY <1>12 DEF InStart
  <2> QED BY <1>2, <2>1, <2>2, <2>3, <2>4, <2>5 DEF Numbers
<1>16. HeldParts'
  <2>1. old.pc # "grace" /\ ~rot.live
    BY <1>3, Nothings DEF IInv, Rotation
  <2>2. \A d \in Caller : req'[d].pc # "join" BY <1>12 DEF InStart
  <2> QED BY <1>2, <1>4, <1>8, <2>1, <2>2 DEF HeldParts
<1>17. NoRebirth'
  <2>1. g \notin gone' BY <1>4, <1>8 DEF IInv, NoRebirth
  <2> QED BY <1>8, <2>1 DEF NoRebirth
<1>18. Linked' /\ Ended'
  BY <1>2, <1>5 DEF Linked, Ended
<1> QED BY <1>11, <1>13, <1>14, <1>15, <1>16, <1>17, <1>18 DEF IInv

-----------------------------------------------------------------------------
(* The addition of a channel that was removed. *)

LEMMA AddAskedInv ==
  ASSUME IInv, NEW c \in Client, AddAsked(c)
  PROVE  IInv'
<1>1. c \in Caller /\ TypeOK BY DEF Caller, IInv
<1>2. /\ UNCHANGED <<up, run, playing, old, rot, down, store, resume, link>>
      /\ UNCHANGED <<saved, cores, spoilt, carried>>
      /\ up = "up" /\ run = 0 /\ down = "nobody" /\ aired' = {} /\ gone' = {}
      /\ req' = [req EXCEPT ![c] = At("add", 0)]
  BY DEF AddAsked, Vacant, disk
<1>3. \A d \in Caller : req[d].pc = "idle"
  BY IdleSlot DEF AddAsked, Vacant
<1>4. At("add", 0) \in Slot /\ At("add", 0).pc = "add" BY SlotOf
<1>5. /\ req' \in [Caller -> Slot] /\ req'[c].pc = "add"
      /\ \A d \in Caller : d # c => req'[d] = req[d]
  BY <1>1, <1>2, <1>4, ReqGoes
<1>6. \A d \in Caller : req'[d].pc \in {"idle", "add"}
  BY <1>3, <1>5
<1>7. meta' \in Meta
  <2>1. New \in Meta BY Bounds DEF New, Meta
  <2>2. PICK s \in meta.src..MaxSource : meta' = [New EXCEPT !.src = s]
    BY DEF AddAsked
  <2>3. meta.src \in 1..MaxSource BY <1>1, Kinds, MetaParts
  <2>4. s \in 1..MaxSource BY <2>2, <2>3
  <2> QED BY <2>1, <2>2, <2>4 DEF Meta
<1>8. ops' \in Nat /\ faults' \in Nat BY <1>1, Counted DEF AddAsked
<1>9. TypeOK' BY <1>1, <1>2, <1>5, <1>7, <1>8 DEF TypeOK, Slot
<1>10. Holders' BY <1>2, <1>6 DEF Holders, InStart
<1>11. rot.pc = "none" /\ ~rot.live /\ old = NoOld
  BY <1>2 DEF IInv, Rotation
<1>12. Rotation' /\ HeldParts' BY <1>2, <1>6, <1>11, Nothings DEF Rotation, HeldParts
<1>13. Numbers' BY <1>2, <1>6 DEF Numbers
<1>14. NoRebirth' /\ Linked' /\ Ended'
  BY <1>2 DEF IInv, NoRebirth, Linked, Ended
<1> QED BY <1>9, <1>10, <1>12, <1>13, <1>14 DEF IInv

LEMMA AddOpensInv ==
  ASSUME IInv, NEW c \in Client, AddOpens(c)
  PROVE  IInv'
<1>1. c \in Caller /\ TypeOK BY DEF Caller, IInv
<1>2. /\ UNCHANGED <<up, meta, saved, run, playing, old, rot, down, spoilt, resume, link>>
      /\ UNCHANGED <<carried, aired, gone, ops, faults>>
      /\ req[c].pc = "add" /\ up # "down"
  BY DEF AddOpens, Serving, hist, used
<1>3. meta.gen \in Gen /\ meta.gen \in Nat /\ saved.gen \in Nat
  BY <1>1, Kinds, MetaParts
<1>4. CASE store # "free"
  <2>1. UNCHANGED <<store, cores>> /\ req' = [req EXCEPT ![c] = Idle]
    BY <1>4 DEF AddOpens, Answer
  <2>2. /\ req' \in [Caller -> Slot] /\ req'[c].pc = "idle"
        /\ \A d \in Caller : d # c => req'[d] = req[d]
    BY <1>1, <2>1, IdleSlot, ReqGoes
  <2>3. TypeOK' BY <1>1, <1>2, <2>1, <2>2 DEF TypeOK, Slot
  <2>4. Ended' BY <1>2 DEF Ended
  <2> QED BY <1>2, <1>3, <2>1, <2>2, <2>3, <2>4, FrameInv
<1>5. ASSUME store = "free"
      PROVE  run = 0 /\ down = "nobody" /\ \A d \in Caller : ~InStart(d)
  BY <1>5 DEF IInv, Holders
<1>6. CASE store = "free" /\ meta.gen \in spoilt
  <2>1. store' = "leaked" /\ req' = [req EXCEPT ![c] = Idle] /\ UNCHANGED cores
    BY <1>6 DEF AddOpens, Answer
  <2>2. /\ req' \in [Caller -> Slot] /\ req'[c].pc = "idle"
        /\ \A d \in Caller : d # c => req'[d] = req[d]
    BY <1>1, <2>1, IdleSlot, ReqGoes
  <2>3. TypeOK' BY <1>1, <1>2, <2>1, <2>2 DEF TypeOK, Slot
  <2> QED BY <1>1, <1>2, <1>3, <1>5, <1>6, <2>1, <2>2, <2>3, LeaksInv
<1>7. CASE store = "free" /\ meta.gen \notin spoilt
  <2>1. /\ store' = "used" /\ cores' = cores \cup {meta.gen}
        /\ req' = [req EXCEPT ![c] = At("key", meta.gen)]
    BY <1>7 DEF AddOpens
  <2>2. At("key", meta.gen) \in Slot /\ At("key", meta.gen).pc = "key"
    BY <1>3, SlotOf
  <2>3. /\ req' \in [Caller -> Slot] /\ req'[c].pc = "key"
        /\ \A d \in Caller : d # c => req'[d] = req[d]
    BY <1>1, <2>1, <2>2, ReqGoes
  <2>4. TypeOK' BY <1>1, <1>2, <1>3, <2>1, <2>3 DEF TypeOK, Slot
  <2>5. run = 0 /\ down = "nobody" /\ \A d \in Caller : ~InStart(d)
    BY <1>5, <1>7
  <2>6. Holders' BY <1>2, <2>1, <2>3, <2>5 DEF IInv, Holders, InStart
  <2>7. Rotation' /\ Linked' /\ Ended'
    BY <1>2 DEF IInv, Rotation, Linked, Ended
  <2>8. Numbers' BY <1>2, <2>3 DEF IInv, Numbers
  <2>9. HeldParts' BY <1>2, <2>1, <2>3 DEF IInv, HeldParts
  <2>10. NoRebirth'
    <3>1. \A g \in gone : g < meta.gen /\ g \in Nat
      BY <1>1, Kinds DEF IInv, Numbers
    <3>2. meta.gen \notin gone BY <1>3, <3>1
    <3> QED BY <1>2, <2>1, <3>2 DEF IInv, NoRebirth
  <2> QED BY <2>4, <2>6, <2>7, <2>8, <2>9, <2>10 DEF IInv
<1> QED BY <1>4, <1>6, <1>7

LEMMA AddDoneInv ==
  ASSUME IInv, NEW c \in Client, AddDone(c)
  PROVE  IInv'
<1>1. c \in Caller /\ TypeOK BY DEF Caller, IInv
<1>2. /\ UNCHANGED <<up, run, playing, old, rot, down, cores, spoilt, resume, link>>
      /\ UNCHANGED <<carried, aired, gone, ops, faults>>
      /\ req[c].pc = "key" /\ up # "down" /\ store' = "free"
      /\ meta' = meta /\ saved' = meta /\ req' = [req EXCEPT ![c] = Idle]
  BY DEF AddDone, Serving, SaveAs, Answer, hist, used
<1>3. /\ req' \in [Caller -> Slot] /\ req'[c].pc = "idle"
      /\ \A d \in Caller : d # c => req'[d] = req[d]
  BY <1>1, <1>2, IdleSlot, ReqGoes
<1>4. TypeOK' BY <1>1, <1>2, <1>3 DEF TypeOK, Slot
<1>5. run = 0 /\ down = "nobody" /\ \A d \in Caller : d # c => ~InStart(d)
  BY <1>1, <1>2 DEF IInv, Holders, InStart
<1>6. Holders' BY <1>2, <1>3, <1>5 DEF IInv, Holders, InStart
<1>7. Rotation' /\ NoRebirth' /\ Linked' /\ Ended'
  BY <1>2 DEF IInv, Rotation, NoRebirth, Linked, Ended
<1>8. Numbers' BY <1>2, <1>3 DEF IInv, Numbers
<1>9. HeldParts' BY <1>2, <1>3 DEF IInv, HeldParts
<1> QED BY <1>4, <1>6, <1>7, <1>8, <1>9 DEF IInv

-----------------------------------------------------------------------------
(* The stop, asked for or part of the shutdown. *)

LEMMA HaltParts ==
  ASSUME IInv, NEW who \in Caller \cup {"close"}, Halt(who)
  PROVE  /\ run' = 0 /\ old' = NoOld /\ down' = who /\ down' # "nobody"
         /\ rot' \in [pc : {"none", "mint", "announce"}, gen : Gen \cup {0}, live : BOOLEAN]
         /\ rot'.pc = rot.pc /\ rot'.gen = rot.gen /\ rot'.live = FALSE
<1>1. TypeOK BY DEF IInv
<1>2. rot' = [rot EXCEPT !.live = FALSE] /\ run' = 0 /\ old' = NoOld /\ down' = who
  BY DEF Halt
<1>3. /\ rot' \in [pc : {"none", "mint", "announce"}, gen : Gen \cup {0}, live : BOOLEAN]
      /\ rot'.pc = rot.pc /\ rot'.gen = rot.gen /\ rot'.live = FALSE
  BY <1>1, <1>2, Kinds
<1>4. who # "nobody" BY Callers
<1> QED BY <1>2, <1>3, <1>4

\* The run is gone and its pipeline is being torn down.
LEMMA HaltInv ==
  ASSUME IInv, TypeOK', Ended', run # 0, NEW who \in Caller \cup {"close"}, Halt(who),
         UNCHANGED <<meta, saved, store, cores, link, aired, gone>>,
         \A c \in Caller : req'[c] = req[c] \/ (req'[c].pc = "stop" /\ c = who)
  PROVE  IInv'
<1>1. UNCHANGED meta /\ UNCHANGED saved /\ UNCHANGED store /\ UNCHANGED cores /\ UNCHANGED link
      /\ UNCHANGED aired /\ UNCHANGED gone
  OBVIOUS
<1>2. /\ run' = 0 /\ old' = NoOld /\ down' = who /\ down' # "nobody"
      /\ rot'.pc = rot.pc /\ rot'.gen = rot.gen /\ ~rot'.live
  BY HaltParts
<1>3. store = "used" /\ down = "nobody" /\ \A c \in Caller : ~InStart(c)
  BY DEF IInv, Holders
<1>4. \A c \in Caller : req[c].pc # "stop"
  BY <1>3, Callers DEF IInv, Holders
<1>5. \A c \in Caller : ~InStart(c)' /\ (req'[c].pc = "stop" => c = who)
  BY <1>3, <1>4 DEF InStart
<1>6. Holders' BY <1>1, <1>2, <1>3, <1>5 DEF Holders
<1>7. Rotation' BY <1>1, <1>2 DEF IInv, Rotation
<1>8. \A c \in Caller : req'[c].pc # "join" BY <1>5 DEF InStart
<1>9. Numbers' BY <1>1, <1>2, <1>8 DEF IInv, Numbers
<1>10. HeldParts' BY <1>1, <1>2, <1>8, Nothings DEF HeldParts
<1>11. NoRebirth' /\ Linked' BY <1>1, <1>2 DEF IInv, NoRebirth, Linked
<1> QED BY <1>6, <1>7, <1>9, <1>10, <1>11 DEF IInv

LEMMA StopAskedInv ==
  ASSUME IInv, NEW c \in Client, StopAsked(c)
  PROVE  IInv'
<1>1. c \in Caller /\ TypeOK BY DEF Caller, IInv
<1>2. /\ UNCHANGED <<up, meta, playing, store, resume, link>>
      /\ UNCHANGED <<saved, cores, spoilt, carried, aired, gone>>
      /\ run # 0 /\ Halt(c) /\ up = "up" /\ req' = [req EXCEPT ![c] = At("stop", run)]
  BY DEF StopAsked, disk, hist
<1>3. run \in Gen \cup {0} BY <1>1, Kinds
<1>4. At("stop", run) \in Slot /\ At("stop", run).pc = "stop" BY <1>3, SlotOf
<1>5. /\ req' \in [Caller -> Slot] /\ req'[c].pc = "stop"
      /\ \A d \in Caller : d # c => req'[d] = req[d]
  BY <1>1, <1>2, <1>4, ReqGoes
<1>6. ops' \in Nat /\ faults' \in Nat BY <1>1, Counted DEF StopAsked
<1>7. /\ run' = 0 /\ old' = NoOld /\ down' = c
      /\ rot' \in [pc : {"none", "mint", "announce"}, gen : Gen \cup {0}, live : BOOLEAN]
  BY <1>1, <1>2, HaltParts
<1>8. TypeOK' BY <1>1, <1>2, <1>5, <1>6, <1>7, Nothings DEF TypeOK, Slot
<1>9. Ended' BY <1>2 DEF Ended
<1> QED BY <1>1, <1>2, <1>5, <1>8, <1>9, HaltInv

LEMMA ShutdownInv == ASSUME IInv, Shutdown PROVE IInv'
<1>1. TypeOK BY DEF IInv
<1>2. /\ UNCHANGED <<meta, playing, store, req, resume, link>>
      /\ UNCHANGED <<saved, cores, spoilt, carried, aired, gone>> /\ up' = "closing"
  BY DEF Shutdown, disk, hist
<1>3. ops' \in Nat /\ faults' \in Nat BY <1>1, Counted DEF Shutdown
<1>4. Ended' BY <1>2 DEF Ended
<1>5. CASE run # 0 /\ meta.reg
  <2>1. Halt("close") BY <1>5 DEF Shutdown
  <2>2. /\ run' = 0 /\ old' = NoOld /\ down' = "close"
        /\ rot' \in [pc : {"none", "mint", "announce"}, gen : Gen \cup {0}, live : BOOLEAN]
    BY <2>1, HaltParts
  <2>3. TypeOK' BY <1>1, <1>2, <1>3, <2>2, Nothings DEF TypeOK
  <2> QED BY <1>2, <1>4, <1>5, <2>1, <2>3, HaltInv
<1>6. CASE ~(run # 0 /\ meta.reg)
  <2>1. UNCHANGED <<run, old, rot, down>> BY <1>6 DEF Shutdown
  <2>2. TypeOK' BY <1>1, <1>2, <1>3, <2>1 DEF TypeOK
  <2>3. meta.gen \in Nat /\ saved.gen \in Nat BY <1>1, Kinds
  <2> QED BY <1>2, <1>4, <2>1, <2>2, <2>3, FrameInv
<1> QED BY <1>5, <1>6

\* The pipeline is torn down: nobody holds the store any more.
LEMMA TornInv ==
  ASSUME IInv, TypeOK', Ended', down # "nobody", TornDown, link'.say # "live",
         meta'.gen = meta.gen, saved'.gen = saved.gen \/ saved'.gen = meta.gen,
         UNCHANGED <<run, old, cores, aired, gone>>,
         \A c \in Caller : req'[c].pc = "idle" \/ (req'[c] = req[c] /\ c # down)
  PROVE  IInv'
<1>1. UNCHANGED run /\ UNCHANGED old /\ UNCHANGED cores /\ UNCHANGED aired /\ UNCHANGED gone
  OBVIOUS
<1>2. down' = "nobody" /\ store' = "free" /\ rot'.pc = "none" /\ ~rot'.live
  BY Nothings DEF TornDown
<1>3. run = 0 /\ \A c \in Caller : ~InStart(c)
  BY DEF IInv, Holders
<1>4. \A c \in Caller : ~InStart(c)' /\ req'[c].pc # "stop"
  BY <1>3 DEF IInv, Holders, InStart
<1>5. Holders' BY <1>1, <1>2, <1>3, <1>4 DEF Holders
<1>6. Rotation' BY <1>1, <1>2, <1>3 DEF IInv, Rotation
<1>7. \A c \in Caller : req'[c].pc # "join" BY <1>4 DEF InStart
<1>8. Numbers' BY <1>1, <1>3, <1>7 DEF IInv, Numbers
<1>9. HeldParts' BY <1>1, <1>2, <1>7 DEF IInv, HeldParts
<1>10. NoRebirth' /\ Linked' BY <1>1, <1>3 DEF IInv, NoRebirth, Linked
<1> QED BY <1>5, <1>6, <1>8, <1>9, <1>10 DEF IInv

LEMMA StopDoneInv ==
  ASSUME IInv, NEW c \in Caller, StopDone(c)
  PROVE  IInv'
<1>1. TypeOK BY DEF IInv
<1>2. /\ UNCHANGED <<up, run, playing, old, resume, cores, spoilt, carried, aired, gone, ops, faults>>
      /\ TornDown /\ req[c].pc = "stop" /\ up # "down" /\ link' = Say("idle", req[c].gen)
      /\ meta' = [meta EXCEPT !.wanted = FALSE] /\ saved' = meta' /\ req' = [req EXCEPT ![c] = Idle]
  BY DEF StopDone, Serving, Withdraws, SaveAs, Stopped, Answer, hist, used
<1>3. meta' \in Meta /\ meta'.gen = meta.gen
  <2>1. meta \in Meta BY <1>1, Kinds
  <2> QED BY <1>2, <2>1 DEF Meta
<1>4. /\ req' \in [Caller -> Slot] /\ req'[c].pc = "idle"
      /\ \A d \in Caller : d # c => req'[d] = req[d]
  BY <1>1, <1>2, IdleSlot, ReqGoes
<1>5. /\ link' \in [say : {"nothing", "live", "idle"}, gen : Gen \cup {0}] /\ link'.say = "idle"
  BY <1>1, <1>2, Kinds, SayParts
<1>6. TypeOK'
  <2>1. saved' \in Meta BY <1>2, <1>3
  <2> QED BY <1>1, <1>2, <1>3, <1>4, <1>5, <2>1, Nothings DEF TypeOK, Slot, TornDown
<1>7. down = c /\ down # "nobody" BY <1>2, Callers DEF IInv, Holders
<1>8. Ended' BY <1>2 DEF Ended
<1> QED BY <1>2, <1>3, <1>4, <1>5, <1>6, <1>7, <1>8, TornInv

LEMMA CloseDoneInv == ASSUME IInv, CloseDone PROVE IInv'
<1>1. TypeOK BY DEF IInv
<1>2. /\ UNCHANGED <<up, meta, run, playing, old, req, resume, saved, cores, spoilt>>
      /\ UNCHANGED <<carried, aired, gone, ops, faults>>
      /\ TornDown /\ down = "close" /\ up = "closing" /\ link' = Say("idle", meta.gen)
  BY DEF CloseDone, Withdraws, disk, hist, used
<1>3. /\ link' \in [say : {"nothing", "live", "idle"}, gen : Gen \cup {0}] /\ link'.say = "idle"
  BY <1>1, <1>2, Kinds, MetaParts, SayParts
<1>4. TypeOK' BY <1>1, <1>2, <1>3, Nothings DEF TypeOK, TornDown
<1>5. Ended' BY <1>2 DEF Ended
<1>6. \A c \in Caller : c # down BY <1>2, Callers
<1> QED BY <1>2, <1>3, <1>4, <1>5, <1>6, TornInv

-----------------------------------------------------------------------------
(* The rotation. *)

\* The rotation goes on to another step, or gives up.
LEMMA RotInv ==
  ASSUME IInv, TypeOK', run # 0,
         UNCHANGED <<up, meta, saved, run, old, down, store, req, link, aired, gone>>,
         cores \subseteq cores', \A g \in cores' : g \in cores \/ g \notin aired,
         \/ rot'.pc = "none" /\ ~rot'.live
         \/ /\ rot'.pc # "none" /\ rot'.gen \in Gen /\ \A a \in aired : a < rot'.gen
            /\ rot'.live => old.pc # "grace"
            /\ rot'.pc = "announce" => rot'.gen \in cores'
  PROVE  IInv'
<1>1. UNCHANGED up /\ UNCHANGED meta /\ UNCHANGED saved /\ UNCHANGED run /\ UNCHANGED old
      /\ UNCHANGED down /\ UNCHANGED store /\ UNCHANGED req /\ UNCHANGED link /\ UNCHANGED aired
      /\ UNCHANGED gone
  OBVIOUS
<1>2. Holders' /\ Numbers' /\ Linked'
  BY <1>1 DEF IInv, Holders, InStart, Numbers, Linked
<1>3. Rotation' BY <1>1 DEF IInv, Rotation
<1>4. HeldParts' BY <1>1 DEF IInv, HeldParts
<1>5. NoRebirth' BY <1>1 DEF IInv, NoRebirth, Numbers
<1>6. Ended' BY <1>1 DEF IInv, Ended
<1> QED BY <1>2, <1>3, <1>4, <1>5, <1>6 DEF IInv

LEMMA RotateBeginsInv == ASSUME IInv, RotateBegins PROVE IInv'
<1>1. TypeOK BY DEF IInv
<1>2. /\ UNCHANGED <<up, meta, run, playing, old, down, store, req, resume, link>>
      /\ UNCHANGED <<saved, cores, spoilt, carried, aired, gone>>
      /\ run # 0 /\ old.pc # "grace" /\ meta.gen < MaxGen
      /\ rot' = [pc |-> "mint", gen |-> meta.gen + 1, live |-> TRUE]
  BY DEF RotateBegins, MayCollect, disk, hist
<1>3. meta.gen \in Gen /\ meta.gen \in Nat BY <1>1, Kinds, MetaParts
<1>4. meta.gen + 1 \in Gen BY <1>2, <1>3, BoundsAssumption DEF Gen
<1>5. /\ rot' \in [pc : {"none", "mint", "announce"}, gen : Gen \cup {0}, live : BOOLEAN]
      /\ rot'.pc = "mint" /\ rot'.gen = meta.gen + 1
  BY <1>2, <1>4
<1>6. ops' \in Nat /\ faults' \in Nat BY <1>1, Counted DEF RotateBegins
<1>7. TypeOK' BY <1>1, <1>2, <1>5, <1>6 DEF TypeOK
<1>8. \A a \in aired : a < meta.gen + 1
  <2>1. \A a \in aired : a <= meta.gen /\ a \in Nat BY <1>1, Kinds DEF IInv, Numbers
  <2> QED BY <1>3, <2>1
<1> QED BY <1>2, <1>4, <1>5, <1>7, <1>8, RotInv

\* A stop may have come while the generation was being opened: the rotation
\* then has no run to go on for.
LEMMA RotateLostInv ==
  ASSUME IInv, TypeOK', run = 0, rot.pc # "none",
         UNCHANGED <<up, meta, saved, run, old, down, store, req, link, aired, gone>>,
         cores \subseteq cores', \A g \in cores' : g \in cores \/ g = rot.gen,
         rot'.pc = "none", ~rot'.live
  PROVE  IInv'
<1>1. UNCHANGED up /\ UNCHANGED meta /\ UNCHANGED saved /\ UNCHANGED run /\ UNCHANGED old
      /\ UNCHANGED down /\ UNCHANGED store /\ UNCHANGED req /\ UNCHANGED link /\ UNCHANGED aired
      /\ UNCHANGED gone
  OBVIOUS
<1>2. Holders' /\ Numbers' /\ Linked' /\ Rotation'
  BY <1>1 DEF IInv, Holders, InStart, Numbers, Linked, Rotation
<1>3. HeldParts' BY <1>1 DEF IInv, HeldParts
<1>4. NoRebirth'
  <2>1. rot.gen \in Nat /\ \A a \in aired : a < rot.gen /\ a \in Nat
    BY Kinds DEF IInv, Rotation
  <2>2. rot.gen \notin aired BY <2>1
  <2> QED BY <1>1, <2>2 DEF IInv, NoRebirth, Numbers
<1>5. Ended' BY <1>1 DEF IInv, Ended
<1> QED BY <1>2, <1>3, <1>4, <1>5 DEF IInv

LEMMA RotateMintsInv == ASSUME IInv, RotateMints PROVE IInv'
<1>1. TypeOK BY DEF IInv
<1>2. /\ UNCHANGED <<up, meta, saved, spoilt, run, playing, old, down, store, req, resume, link>>
      /\ UNCHANGED <<aired, gone, ops, faults>> /\ rot.pc = "mint"
  BY DEF RotateMints, used
<1>3. /\ rot.gen \in Gen /\ \A a \in aired : a < rot.gen
      /\ rot.live => run # 0 /\ old.pc # "grace"
  BY <1>2 DEF IInv, Rotation
<1>4. rot.gen \notin aired
  <2>1. rot.gen \in Nat /\ \A a \in aired : a \in Nat BY <1>1, Kinds
  <2> QED BY <1>3, <2>1
<1>5. CASE rot.gen \notin spoilt /\ rot.live
  <2>1. /\ rot' = [rot EXCEPT !.pc = "announce"] /\ cores' = cores \cup {rot.gen}
        /\ carried' = [carried EXCEPT ![rot.gen] = carried[rot.gen] \cup {playing}]
    BY <1>5 DEF RotateMints
  <2>2. /\ rot' \in [pc : {"none", "mint", "announce"}, gen : Gen \cup {0}, live : BOOLEAN]
        /\ rot'.pc = "announce" /\ rot'.gen = rot.gen /\ rot'.live
    BY <1>1, <1>5, <2>1, Kinds
  <2>3. carried' \in [Gen -> SUBSET (1..MaxSource)]
    <3>1. carried[rot.gen] \cup {playing} \in SUBSET (1..MaxSource) BY <1>1, <1>3 DEF TypeOK
    <3> QED BY <1>1, <2>1, <3>1 DEF TypeOK
  <2>4. TypeOK' BY <1>1, <1>2, <1>3, <2>1, <2>2, <2>3 DEF TypeOK
  <2> QED BY <1>2, <1>3, <1>4, <1>5, <2>1, <2>2, <2>4, RotInv
<1>6. CASE rot.gen \in spoilt \/ ~rot.live
  <2>1. /\ rot' = NoRot /\ UNCHANGED carried /\ cores \subseteq cores'
        /\ \A g \in cores' : g \in cores \/ g = rot.gen
    BY <1>6 DEF RotateMints
  <2>2. TypeOK' BY <1>1, <1>2, <1>3, <2>1, Nothings DEF TypeOK
  <2>3. CASE run # 0
    BY <1>2, <1>4, <2>1, <2>2, <2>3, Nothings, RotInv
  <2>4. CASE run = 0
    BY <1>2, <2>1, <2>2, <2>4, Nothings, RotateLostInv
  <2> QED BY <2>3, <2>4
<1> QED BY <1>5, <1>6

LEMMA RotateCommitsInv == ASSUME IInv, RotateCommits PROVE IInv'
<1>1. TypeOK BY DEF IInv
<1>2. /\ UNCHANGED <<up, playing, down, store, cores, spoilt, req, resume, carried, gone>>
      /\ UNCHANGED <<ops, faults>> /\ rot.pc = "announce" /\ rot' = NoRot
  BY DEF RotateCommits, used
<1>3. rot.gen \in Gen /\ \A a \in aired : a < rot.gen
  BY <1>2 DEF IInv, Rotation
<1>4. rot.gen \in Nat /\ rot.gen # 0 /\ meta.gen \in Nat /\ \A a \in aired : a \in Nat
  BY <1>1, <1>3, Kinds, Bounds
<1>5. CASE rot.live
  <2>1. /\ run' = rot.gen /\ old' = [pc |-> "grace", gen |-> run]
        /\ meta' = [meta EXCEPT !.gen = rot.gen] /\ saved' = meta'
        /\ link' = Say("live", rot.gen) /\ aired' = aired \cup {rot.gen}
    BY <1>5 DEF RotateCommits, Retired, SaveAs, Rotated, Airs
  <2>2. run # 0 /\ run \in cores /\ rot.gen \in cores
    BY <1>2, <1>5 DEF IInv, Rotation, HeldParts
  <2>3. \A c \in Caller : ~InStart(c) /\ req[c].pc # "join"
    BY <2>2 DEF IInv, Holders, InStart
  <2>4. old' \in [pc : {"none", "grace", "closing"}, gen : Gen \cup {0}] /\ old'.gen = run
    BY <1>1, <2>1, Kinds
  <2>5. meta' \in Meta /\ meta'.gen = rot.gen /\ saved'.gen = rot.gen
    <3>1. meta \in Meta BY <1>1, Kinds
    <3> QED BY <1>3, <2>1, <3>1 DEF Meta
  <2>6. link' \in [say : {"nothing", "live", "idle"}, gen : Gen \cup {0}]
    BY <1>3, <2>1, SayParts
  <2>7. TypeOK'
    <3>1. run' \in Gen \cup {0} /\ saved' \in Meta /\ aired' \subseteq Gen
      BY <1>1, <1>3, <2>1, <2>5 DEF TypeOK
    <3> QED BY <1>1, <1>2, <2>4, <2>5, <2>6, <3>1, Nothings DEF TypeOK
  <2>8. Holders' BY <1>2, <1>4, <2>1, <2>2, <2>3 DEF IInv, Holders, InStart
  <2>9. Rotation' BY <1>2, <1>4, <2>1, Nothings DEF Rotation
  <2>10. Numbers'
    <3>1. \A a \in aired' : a <= rot.gen BY <1>3, <1>4, <2>1
    <3>2. gone \subseteq aired /\ \A g \in gone : g < rot.gen
      BY <1>3 DEF IInv, Numbers
    <3> QED BY <1>2, <1>3, <2>1, <2>3, <2>5, <3>1, <3>2 DEF Numbers
  <2>11. HeldParts' BY <1>2, <2>1, <2>2, <2>3, <2>4, Nothings DEF HeldParts
  <2>12. NoRebirth' BY <1>2 DEF IInv, NoRebirth
  <2>13. Linked' BY <1>4, <2>1 DEF Linked
  <2>14. Ended'
    <3>1. up # "down" BY <1>2 DEF IInv, Ended
    <3> QED BY <1>2, <3>1 DEF Ended
  <2> QED BY <2>7, <2>8, <2>9, <2>10, <2>11, <2>12, <2>13, <2>14 DEF IInv
<1>6. CASE ~rot.live
  <2>1. UNCHANGED <<run, old, meta, saved, link, aired>> BY <1>6 DEF RotateCommits
  <2>2. TypeOK' BY <1>1, <1>2, <2>1, Nothings DEF TypeOK
  <2>3. CASE run # 0
    BY <1>2, <2>1, <2>2, <2>3, Nothings, RotInv
  <2>4. CASE run = 0
    BY <1>2, <2>1, <2>2, <2>4, Nothings, RotateLostInv
  <2> QED BY <2>3, <2>4
<1> QED BY <1>5, <1>6

-----------------------------------------------------------------------------
(* The end of the process and its boot. *)

LEMMA EndsParts ==
  ASSUME Ends
  PROVE  /\ up' = "down" /\ run' = 0 /\ playing' = 1 /\ old' = NoOld /\ rot' = NoRot
         /\ down' = "nobody" /\ store' = "free" /\ resume' \in BOOLEAN /\ link' = Silent
         /\ req' \in [Caller -> Slot] /\ \A c \in Caller : req'[c].pc = "idle"
BY IdleSlot DEF Ends

LEMMA EndsInv ==
  ASSUME IInv, TypeOK', Ends, UNCHANGED <<meta, saved, cores, aired, gone>>
  PROVE  IInv'
<1>1. UNCHANGED meta /\ UNCHANGED saved /\ UNCHANGED cores /\ UNCHANGED aired /\ UNCHANGED gone
  OBVIOUS
<1>2. /\ up' = "down" /\ run' = 0 /\ old' = NoOld /\ rot' = NoRot /\ down' = "nobody"
      /\ store' = "free" /\ link' = Silent /\ \A c \in Caller : req'[c].pc = "idle"
  BY EndsParts
<1>3. Holders' /\ Rotation' /\ HeldParts' /\ Linked' /\ Ended'
  BY <1>1, <1>2, Nothings DEF Holders, InStart, Rotation, HeldParts, Linked, Ended
<1>4. Numbers' /\ NoRebirth'
  BY <1>1, <1>2 DEF IInv, Numbers, NoRebirth
<1> QED BY <1>3, <1>4 DEF IInv

LEMMA ExitInv == ASSUME IInv, Exit PROVE IInv'
<1>1. TypeOK BY DEF IInv
<1>2. /\ UNCHANGED <<meta, saved, cores, spoilt, carried, aired, gone, ops, faults>> /\ Ends
  BY DEF Exit, disk, hist, used
<1>3. TypeOK' BY <1>1, <1>2, EndsParts, Nothings, Bounds DEF TypeOK, Slot
<1> QED BY <1>2, <1>3, EndsInv

LEMMA CrashInv == ASSUME IInv, Crash PROVE IInv'
<1>1. TypeOK BY DEF IInv
<1>2. /\ UNCHANGED <<meta, saved, cores, carried, aired, gone>> /\ Ends
      /\ \E S \in SUBSET Open : spoilt' = spoilt \cup S
  BY DEF Crash, hist
<1>3. spoilt' \subseteq Gen
  <2>1. Open \subseteq Gen BY <1>1 DEF Open, TypeOK
  <2> QED BY <1>1, <1>2, <2>1 DEF TypeOK
<1>4. ops' \in Nat /\ faults' \in Nat BY <1>1, Counted DEF Crash, Fault
<1>5. TypeOK' BY <1>1, <1>2, <1>3, <1>4, EndsParts, Nothings, Bounds DEF TypeOK, Slot
<1> QED BY <1>2, <1>5, EndsInv

LEMMA BootInv == ASSUME IInv, Boot PROVE IInv'
<1>1. TypeOK BY DEF IInv
<1>2. /\ UNCHANGED <<run, playing, old, rot, down, store, req, saved, cores, spoilt>>
      /\ UNCHANGED <<carried, aired, gone, ops, faults>>
      /\ up = "down" /\ up' = "up" /\ meta' = saved
      /\ link' = IF saved.reg /\ ~saved.wanted THEN Say("idle", saved.gen) ELSE Silent
  BY DEF Boot, disk, hist, used
<1>3. resume' \in BOOLEAN
  <2>1. saved.reg \in BOOLEAN /\ saved.wanted \in BOOLEAN BY <1>1, Kinds, MetaParts
  <2>2. resume' = (saved.reg /\ saved.wanted) BY DEF Boot
  <2> QED BY <2>1, <2>2
<1>4. /\ link' \in [say : {"nothing", "live", "idle"}, gen : Gen \cup {0}] /\ link'.say # "live"
  <2>1. saved.gen \in Gen \cup {0} BY <1>1, Kinds, MetaParts
  <2>2. /\ Say("idle", saved.gen) \in [say : {"nothing", "live", "idle"}, gen : Gen \cup {0}]
        /\ Say("idle", saved.gen).say = "idle"
    BY <2>1, SayParts
  <2> QED BY <1>2, <2>2, Nothings
<1>5. TypeOK' BY <1>1, <1>2, <1>3, <1>4 DEF TypeOK
<1>6. run = 0 /\ rot.pc = "none" /\ down = "nobody" /\ \A c \in Caller : req[c].pc = "idle"
  BY <1>2 DEF IInv, Ended
<1>7. Holders' /\ Rotation' /\ HeldParts' /\ NoRebirth' /\ Linked' /\ Ended'
  BY <1>2, <1>4, <1>6 DEF IInv, Holders, InStart, Rotation, HeldParts, NoRebirth, Linked, Ended
<1>8. Numbers' BY <1>2, <1>6 DEF IInv, Numbers
<1> QED BY <1>5, <1>7, <1>8 DEF IInv

-----------------------------------------------------------------------------
(* The invariant. *)

LEMMA InitInv == ASSUME Init PROVE IInv
<1>1. New \in Meta /\ New.gen = 1 BY Bounds DEF New, Meta
<1>2. /\ up = "up" /\ meta = New /\ saved = New
      /\ run = 0 /\ playing = 1 /\ old = NoOld /\ rot = NoRot /\ down = "nobody"
      /\ store = "free" /\ cores = {1} /\ spoilt = {}
      /\ req = [c \in Caller |-> Idle] /\ link = Say("idle", 1)
      /\ carried = [g \in Gen |-> {}] /\ aired = {} /\ gone = {}
      /\ ops = 0 /\ faults = 0
  BY DEF Init
<1>3. resume \in BOOLEAN BY DEF Init
<1>4. /\ link \in [say : {"nothing", "live", "idle"}, gen : Gen \cup {0}] /\ link.say = "idle"
  BY <1>2, Bounds, SayParts
<1>5. req \in [Caller -> Slot] /\ \A c \in Caller : req[c].pc = "idle"
  BY <1>2, IdleSlot
<1>6. TypeOK BY <1>1, <1>2, <1>3, <1>4, <1>5, Nothings, Bounds DEF TypeOK, Slot
<1>7. Holders /\ Rotation /\ Numbers /\ HeldParts /\ NoRebirth /\ Linked /\ Ended
  BY <1>2, <1>4, <1>5, Nothings
     DEF Holders, InStart, Rotation, Numbers, HeldParts, NoRebirth, Linked, Ended
<1> QED BY <1>6, <1>7 DEF IInv

LEMMA StutterInv == ASSUME IInv, UNCHANGED vars PROVE IInv'
BY DEF IInv, vars, disk, hist, used, TypeOK, Holders, InStart, Rotation, Numbers, HeldParts,
       NoRebirth, Linked, Ended

LEMMA NextInv == ASSUME IInv, Next PROVE IInv'
<1>1. CASE \E c \in Client : StartAsked(c) \/ StopAsked(c) \/ AddAsked(c) \/ AddSteps(c)
  BY <1>1, StartAskedInv, StopAskedInv, AddAskedInv, AddOpensInv, AddDoneInv DEF AddSteps
<1>2. CASE \E c \in Caller : StartSteps(c) \/ StartRefused(c) \/ StartBreaks(c) \/ StopDone(c)
  BY <1>2, StoreOpensInv, DriveOpensInv, StartDoneInv, StartRefusedInv, StartBreaksInv,
     StopDoneInv DEF StartSteps
<1>3. CASE PoolStarts \/ Update \/ Respawn \/ Remove \/ OtherSaves
  BY <1>3, PoolStartsInv, UpdateInv, RespawnInv, RemoveInv, OtherSavesInv
<1>4. CASE RotateBegins \/ RotateSteps \/ PeriodicGc
  BY <1>4, RotateBeginsInv, RotateMintsInv, RotateCommitsInv, GraceEndsInv, RetiredClosesInv,
     PeriodicGcInv DEF RotateSteps
<1>5. CASE Shutdown \/ CloseDone \/ Exit \/ Crash \/ Boot
  BY <1>5, ShutdownInv, CloseDoneInv, ExitInv, CrashInv, BootInv
<1> QED BY <1>1, <1>2, <1>3, <1>4, <1>5 DEF Next

\* The invariant holds of every reachable state of a broadcaster's channel.
THEOREM Invariance == Spec => []IInv
<1>1. Init => IInv BY InitInv
<1>2. IInv /\ [Next]_vars => IInv' BY NextInv, StutterInv
<1> QED BY <1>1, <1>2, PTL DEF Spec

\* Every variable keeps its type, whatever starts, stops and rotations overlap.
THEOREM TypeInvariant == Spec => []TypeOK
<1>1. IInv => TypeOK BY DEF IInv
<1> QED BY <1>1, Invariance, PTL

\* The collector (channel.js, core/store-gc.js) deletes no core of the
\* generation that is served, retired in its grace, announced or being opened.
THEOREM HeldKept == Spec => []HeldIsKept
<1>1. IInv => HeldIsKept BY HeldIs DEF IInv
<1> QED BY <1>1, Invariance, PTL

\* While the registry keeps a channel, no generation that was shown and then
\* purged is opened again: a viewer's replica of its feed is never contradicted.
\* A channel that is removed and added again begins a new history, at its first
\* generation.
THEOREM NeverReborn == Spec => []NoRebirth
<1>1. IInv => NoRebirth BY DEF IInv
<1> QED BY <1>1, Invariance, PTL

\* When nothing is on its way the panel link says of the channel what is true.
THEOREM CatalogTrue == Spec => []CatalogFollows
<1>1. IInv => CatalogFollows
  BY DEF IInv, Linked, CatalogFollows, Quiet
<1> QED BY <1>1, Invariance, PTL

\* Only a rotation that commits moves the catalog from a generation that is
\* served to another, and only with the first in its grace; a grace ends only
\* when its time is over or with the run.
LEMMA CutOverStep ==
  ASSUME IInv, Next
  PROVE  /\ (link.say = "live" /\ link'.say = "live" /\ link'.gen # link.gen /\ run = link.gen)
              => {link.gen, link'.gen} \subseteq Held'
         /\ old.pc = "grace" => old' = old \/ old'.pc = "closing" \/ run' = 0
<1> DEFINE Moves == link.say = "live" /\ link'.say = "live" /\ link'.gen # link.gen /\ run = link.gen
           Graceful == old.pc = "grace" => old' = old \/ old'.pc = "closing" \/ run' = 0
           Goal == (Moves => {link.gen, link'.gen} \subseteq Held') /\ Graceful
<1> SUFFICES Goal OBVIOUS
<1>0. TypeOK BY DEF IInv
<1>1. CASE link' = link /\ (old' = old \/ run' = 0)
  BY <1>1
<1>2. CASE \E c \in Client : StartAsked(c) \/ StopAsked(c) \/ AddAsked(c) \/ AddSteps(c)
  BY <1>2, <1>1 DEF StartAsked, StopAsked, Halt, AddAsked, AddSteps, AddOpens, AddDone
<1>3. ASSUME NEW c \in Caller, StartSteps(c) \/ StartRefused(c) \/ StartBreaks(c) \/ StopDone(c)
      PROVE  Goal
  <2>1. CASE StartDone(c)
    <3>1. run = 0 /\ down = "nobody"
      BY <2>1 DEF StartDone, IInv, Holders, InStart
    <3>2. link.say # "live" /\ old = NoOld BY <3>1 DEF IInv, Linked, Rotation
    <3> QED BY <3>2, Nothings
  <2>2. CASE StopDone(c)
    <3>1. link'.say = "idle" /\ old' = old
      BY <1>0, <2>2, Kinds, SayParts DEF StopDone, Withdraws
    <3> QED BY <3>1
  <2>3. CASE StoreOpens(c) \/ DriveOpens(c) \/ StartRefused(c) \/ StartBreaks(c)
    BY <1>1, <2>3 DEF StoreOpens, DriveOpens, StartRefused, StartBreaks
  <2> QED BY <1>3, <2>1, <2>2, <2>3 DEF StartSteps
<1>4. CASE PoolStarts \/ Update \/ Respawn \/ Remove \/ OtherSaves \/ RotateBegins \/ RotateMints
           \/ PeriodicGc
  BY <1>1, <1>4 DEF PoolStarts, Update, Respawn, Remove, OtherSaves, RotateBegins, RotateMints,
                    PeriodicGc
<1>5. CASE RotateCommits
  <2>1. CASE rot.live
    <3>1. old.pc # "grace" BY <2>1 DEF IInv, Rotation
    <3>2. run' = rot.gen /\ old' = [pc |-> "grace", gen |-> run] /\ link' = Say("live", rot.gen)
      BY <1>5, <2>1 DEF RotateCommits, Retired, Airs
    <3>3. rot.gen \in Gen BY <1>5 DEF RotateCommits, IInv, Rotation
    <3>4. rot.gen # 0 /\ link'.gen = rot.gen /\ old'.pc = "grace" /\ old'.gen = run
      BY <3>2, <3>3, Bounds, SayParts
    <3>5. run \in Held' /\ rot.gen \in Held'
      BY <3>2, <3>4 DEF Held
    <3> QED BY <3>1, <3>4, <3>5
  <2>2. CASE ~rot.live
    BY <1>1, <1>5, <2>2 DEF RotateCommits
  <2> QED BY <2>1, <2>2
<1>6. CASE GraceEnds \/ RetiredCloses
  <2>1. link' = link /\ (old.pc = "grace" => old'.pc = "closing")
    BY <1>0, <1>6, Kinds DEF GraceEnds, RetiredCloses
  <2> QED BY <2>1
<1>7. CASE Shutdown
  BY <1>1, <1>7 DEF Shutdown, Halt
<1>8. CASE CloseDone
  <2>1. link'.say = "idle" /\ old' = old
    BY <1>0, <1>8, Kinds, MetaParts, SayParts DEF CloseDone, Withdraws
  <2> QED BY <2>1
<1>9. CASE Exit \/ Crash
  <2>1. link'.say = "nothing" /\ run' = 0
    BY <1>9, EndsParts, Nothings DEF Exit, Crash
  <2> QED BY <2>1
<1>10. CASE Boot
  <2>1. old' = old /\ link.say # "live"
    BY <1>10 DEF Boot, IInv, Ended, Linked
  <2> QED BY <2>1
<1> QED BY <1>2, <1>3, <1>4, <1>5, <1>6, <1>7, <1>8, <1>9, <1>10 DEF Next, RotateSteps

\* A viewer that follows the catalog always finds the generation it is sent to
\* served, and the one it comes from until its grace has ended.
THEOREM CutOverSafe == Spec => CutOver
<1>1. IInv /\ [Next]_vars =>
        [/\ (link.say = "live" /\ link'.say = "live" /\ link'.gen # link.gen /\ run = link.gen)
              => {link.gen, link'.gen} \subseteq Held'
         /\ old.pc = "grace" => old' = old \/ old'.pc = "closing" \/ run' = 0]_vars
  BY CutOverStep
<1> QED BY <1>1, Invariance, PTL DEF Spec, CutOver

-----------------------------------------------------------------------------
(* The watchdog of a run. ChannelWatchdog is a state machine of its own,   *)
(* of the ffmpeg of one run: it is reached through an instance, and shares *)
(* no variable with the machine above.                                     *)

CONSTANTS Sources, Ways, StallGrace, BackoffReset, PrimaryRetry, SlateRetry,
          FailoverAfter, SlateAfter, MaxChanges
VARIABLES source, ff, playlist, seen, still, restarted, timer, racing, backoff, at, misses,
          primaryAge, failures, slated, slateAge, changes, dark

W == INSTANCE ChannelWatchdog

\* What the watchdog's module assumes of its constants.
WatchdogConstants ==
  /\ Sources \in Nat \ {0} /\ FailoverAfter \in Nat \ {0} /\ SlateAfter \in Nat \ {0}
  /\ StallGrace \in Nat \ {0} /\ BackoffReset \in Nat \ {0}
  /\ PrimaryRetry \in Nat \ {0} /\ SlateRetry \in Nat \ {0} /\ MaxChanges \in Nat
  /\ Ways \subseteq {"good", "dead", "hangs"}

\* The longest a channel has been dark when a source is found dead with a backoff
\* of b seconds and n failures counted: 5 looks at most between a slate and the
\* try after it that starts the count again, then what the climb of the backoff
\* costs, then eight looks for each failure. Where the count has not been started
\* again the slate is next, 8 looks at most after the last.
Spent(b, n) == CASE b = 1 -> 0
                 [] b = 2 -> IF n >= W!Threshold THEN 8 ELSE 5
                 [] b = 4 -> 6 [] b = 8 -> 8 [] b = 16 -> 11 [] OTHER -> 16 + 8 * n

\* ffmpeg runs the slate exactly while the run is slated; the slate is killed when
\* its time is up and not before. With the failures of a slate no source is tried
\* twice.
SlateShown ==
  /\ slated <=> ff.on = W!Slate
  /\ slated => failures >= W!Threshold /\ (ff.alive \/ slateAge >= SlateRetry)
  /\ ~slated /\ failures >= W!Threshold => backoff = 2

\* The looks from the one that arms a respawn to its end.
Wait == W!Looks(backoff) + (IF racing THEN 0 ELSE 1)

\* The respawn timer is armed for the dead only, and a look that races a respawn
\* is the first after it. The longest backoff is raced by none.
TimerParts ==
  /\ backoff \in {1, 2, 4, 8, 16, 30}
  /\ timer # 0 => /\ ~ff.alive /\ timer <= Wait
                  /\ racing => backoff \in {4, 8, 16}
  /\ timer = 0 /\ racing => restarted = 0

\* The dark so far: with the respawn armed, between respawn and look, slated.
DarkParts ==
  /\ timer # 0 =>
       dark <= (IF slated THEN 0 ELSE Spent(backoff, failures)) + 1 + Wait - timer
  /\ timer = 0 /\ slated => dark <= IF ff.alive THEN W!Longest ELSE 0
  /\ timer = 0 /\ ~slated => /\ dark <= Spent(backoff, failures)
                             /\ racing => dark <= Spent(backoff, 0) - 1

DarkInv == W!TypeOK /\ SlateShown /\ TimerParts /\ DarkParts

LEMMA WatchdogNumbers ==
  ASSUME WatchdogConstants
  PROVE  /\ W!Threshold \in Nat \ {0} /\ W!Longest = 16 + 8 * W!Threshold
         /\ W!Slate \notin W!Source /\ 0 \in W!Source /\ W!Source \subseteq Nat
         /\ W!Looks(W!BackoffMax) = 7
<1>1. \A a, b \in Nat \ {0} : a * b \in Nat \ {0}
  OBVIOUS
<1>2. W!Threshold \in Nat \ {0}
  BY <1>1 DEF WatchdogConstants, W!Threshold
<1>3. W!Slate \notin W!Source /\ 0 \in W!Source /\ W!Source \subseteq Nat
  BY DEF WatchdogConstants, W!Slate, W!Source
<1>4. W!Looks(W!BackoffMax) = 7
  BY DEF W!Looks, W!BackoffMax
<1> QED BY <1>2, <1>3, <1>4 DEF W!Longest

\* How far away a respawn may be, and which backoffs a look races.
LEMMA LooksAre ==
  /\ W!Looks(1) = 0 /\ W!Looks(2) = 0 /\ W!Looks(4) = 1
  /\ W!Looks(8) = 2 /\ W!Looks(16) = 4 /\ W!Looks(30) = 7
  BY DEF W!Looks

LEMMA WaitIs ==
  ASSUME backoff \in {1, 2, 4, 8, 16, 30}, racing \in BOOLEAN
  PROVE  Wait \in 0..8 /\ (racing => Wait = W!Looks(backoff)) /\ (~racing => Wait = W!Looks(backoff) + 1)
  BY LooksAre DEF Wait

LEMMA RacesAre ==
  ASSUME NEW b \in {1, 2, 4, 8, 16, 30}, NEW race \in W!Races(b)
  PROVE  race \in BOOLEAN /\ (race => b \in {4, 8, 16})
<1>1. 1 % 4 = 1 /\ 2 % 4 = 2 /\ 30 % 4 = 2
  OBVIOUS
<1> QED BY <1>1 DEF W!Races

\* What a respawn tries next is one of the sources.
LEMMA PickIsSource ==
  ASSUME WatchdogConstants, W!TypeOK, NEW n \in Nat
  PROVE  /\ W!PickSource(n).at \in W!Source /\ W!PickSource(n).misses \in Nat
         /\ W!PickSource(n).age \in 0..PrimaryRetry
<1>1. \A m, i \in Nat : (i + 1) % Sources \in 0..(Sources - 1)
  BY DEF WatchdogConstants
<1>2. at \in Nat /\ at \in W!Source /\ primaryAge \in 0..PrimaryRetry /\ 0 \in 0..PrimaryRetry
  BY DEF W!TypeOK, W!Source, WatchdogConstants
<1>3. (at + 1) % Sources \in W!Source /\ 0 \in W!Source
  BY <1>1, <1>2 DEF W!Source, WatchdogConstants
<1> QED BY <1>2, <1>3 DEF W!PickSource, W!Pick

LEMMA WatchdogTypes ==
  ASSUME WatchdogConstants, W!TypeOK
  PROVE  /\ ff = [alive |-> ff.alive, on |-> ff.on] /\ ff.alive \in BOOLEAN
         /\ ff.on \in W!Source \cup {W!Slate}
         /\ playlist \in BOOLEAN /\ seen \in BOOLEAN /\ racing \in BOOLEAN /\ slated \in BOOLEAN
         /\ still \in 0..(StallGrace + 1) /\ restarted \in 0..(BackoffReset + 1)
         /\ timer \in 0..8 /\ backoff \in 1..30 /\ misses \in Nat /\ failures \in Nat
         /\ slateAge \in 0..SlateRetry /\ primaryAge \in 0..PrimaryRetry
         /\ dark \in 0..(W!Longest + 1) /\ dark \in Nat /\ W!Longest \in Nat
         /\ changes \in 0..MaxChanges
<1>1. timer \in 0..8
  BY WatchdogNumbers DEF W!TypeOK
<1>2. W!Longest \in Nat
  BY WatchdogNumbers
<1>3. dark \in 0..(W!Longest + 1) /\ dark \in Nat
  BY <1>2 DEF W!TypeOK
<1> QED BY <1>1, <1>2, <1>3 DEF W!TypeOK, W!BackoffBase, W!BackoffMax

\* A look that finds ffmpeg alive and counts as dark races a respawn of a source.
LEMMA DarkLookRaces ==
  ASSUME WatchdogConstants, W!TypeOK, SlateShown, ff.alive, W!Looking, ~W!Produces
  PROVE  ~slated /\ (W!Hanging \/ racing)
<1>1. ff.on # W!Slate /\ source[ff.on] # "good"
  BY DEF W!Produces
<1>2. ff.on \in W!Source
  BY <1>1, WatchdogTypes
<1>3. source[ff.on] \in {"dead", "hangs"}
  BY <1>1, <1>2 DEF W!TypeOK, WatchdogConstants
<1>4. source[ff.on] = "dead" => racing
  BY <1>1 DEF W!Looking, W!DiesAtOnce
<1> QED BY <1>1, <1>2, <1>3, <1>4 DEF SlateShown, W!Hanging

LEMMA AgesTyped ==
  ASSUME WatchdogConstants, W!TypeOK, W!TimePasses
  PROVE  /\ restarted' \in 0..(BackoffReset + 1) /\ primaryAge' \in 0..PrimaryRetry
         /\ slateAge' \in 0..SlateRetry /\ dark' \in 0..(W!Longest + 1) /\ dark' <= dark + 1
         /\ W!Produces \/ W!Hanging => dark' = 0
         /\ slated /\ slateAge >= SlateRetry => slateAge' >= SlateRetry
<1>1. \A b \in Nat : \A a \in 0..b : W!Older(a, b) \in 0..b /\ (a >= b => W!Older(a, b) = b)
                                 /\ W!Older(a, b) <= a + 1
  BY DEF W!Older, W!Lesser
<1>2. /\ restarted \in 0..(BackoffReset + 1) /\ primaryAge \in 0..PrimaryRetry
      /\ slateAge \in 0..SlateRetry /\ dark \in 0..(W!Longest + 1)
      /\ BackoffReset + 1 \in Nat /\ PrimaryRetry \in Nat /\ SlateRetry \in Nat /\ W!Longest + 1 \in Nat
  BY WatchdogTypes DEF WatchdogConstants
<1>3. /\ restarted' = W!Older(restarted, BackoffReset + 1)
      /\ primaryAge' = W!Older(primaryAge, PrimaryRetry)
      /\ slateAge' = W!Older(slateAge, SlateRetry) \/ (~slated /\ slateAge' = 0)
      /\ dark' = IF W!Produces \/ W!Hanging THEN 0 ELSE W!Older(dark, W!Longest + 1)
  BY DEF W!TimePasses, W!Darker
<1>4. /\ restarted' \in 0..(BackoffReset + 1) /\ primaryAge' \in 0..PrimaryRetry
  BY <1>1, <1>2, <1>3
<1>5. slateAge' \in 0..SlateRetry /\ (slated /\ slateAge >= SlateRetry => slateAge' >= SlateRetry)
  <2>1. /\ W!Older(slateAge, SlateRetry) \in 0..SlateRetry
        /\ slateAge >= SlateRetry => W!Older(slateAge, SlateRetry) = SlateRetry
    BY <1>1, <1>2
  <2> QED BY <1>2, <1>3, <2>1
<1>6. dark' \in 0..(W!Longest + 1) /\ dark' <= dark + 1 /\ (W!Produces \/ W!Hanging => dark' = 0)
  <2>1. W!Older(dark, W!Longest + 1) \in 0..(W!Longest + 1) /\ W!Older(dark, W!Longest + 1) <= dark + 1
    BY <1>1, <1>2
  <2>2. 0 \in 0..(W!Longest + 1) /\ 0 <= dark + 1
    BY <1>2
  <2> QED BY <1>3, <2>1, <2>2
<1> QED BY <1>4, <1>5, <1>6

LEMMA TimerGoes ==
  ASSUME WatchdogConstants, W!TypeOK, backoff \in {1, 2, 4, 8, 16, 30}, W!TimePasses
  PROVE  /\ timer' \in 0..8 /\ racing' \in BOOLEAN
         /\ timer # 0 => timer' = timer - 1 /\ (racing' <=> racing)
         /\ timer = 0 /\ ff.alive => timer' = 0 /\ ~racing'
         /\ timer = 0 /\ ~ff.alive =>
              timer' # 0 /\ timer' = W!Looks(backoff) + (IF racing' THEN 0 ELSE 1) /\ (racing' => backoff \in {4, 8, 16})
<1>1. timer \in 0..8 /\ racing \in BOOLEAN /\ ff.alive \in BOOLEAN
  BY WatchdogTypes
<1>2. CASE timer # 0
  <2>1. timer' = timer - 1 /\ racing' = racing
    BY <1>2 DEF W!TimePasses
  <2> QED BY <1>1, <1>2, <2>1
<1>3. CASE timer = 0 /\ ff.alive
  <2>1. timer' = 0 /\ racing' = FALSE
    BY <1>3 DEF W!TimePasses
  <2>2. racing' \in BOOLEAN /\ ~racing'
    BY <2>1, Zenon
  <2>3. timer' \in 0..8
    BY <2>1
  <2> QED BY <1>3, <2>1, <2>2, <2>3
<1>4. CASE timer = 0 /\ ~ff.alive
  <2>1. \E race \in W!Races(backoff) : racing' = race /\ timer' = W!Looks(backoff) + (IF race THEN 0 ELSE 1)
    BY <1>4 DEF W!TimePasses, W!Arms
  <2>2. PICK race \in W!Races(backoff) : racing' = race /\ timer' = W!Looks(backoff) + (IF race THEN 0 ELSE 1)
    BY <2>1
  <2>3. race \in BOOLEAN /\ (race => backoff \in {4, 8, 16})
    BY RacesAre
  <2>4. W!Looks(backoff) + (IF race THEN 0 ELSE 1) \in 1..8
    BY <2>3, LooksAre
  <2>5. timer' \in 1..8 /\ timer' = W!Looks(backoff) + (IF racing' THEN 0 ELSE 1)
    BY <2>2, <2>4
  <2>6. racing' \in BOOLEAN /\ (racing' => backoff \in {4, 8, 16})
    BY <2>2, <2>3
  <2>7. timer' \in 0..8 /\ timer' # 0
    BY <2>5
  <2> QED BY <1>4, <2>5, <2>6, <2>7
<1> QED BY <1>1, <1>2, <1>3, <1>4

LEMMA LookKeepsTypes ==
  ASSUME WatchdogConstants, W!TypeOK, backoff \in {1, 2, 4, 8, 16, 30}, W!Look
  PROVE  W!TypeOK'
<1> USE WatchdogTypes
<1>1. W!TimePasses /\ ff' \in {ff, [ff EXCEPT !.alive = FALSE]} /\ UNCHANGED <<source, at, slated>>
  BY DEF W!Look, W!LookDead, W!LookProgress, W!LookStill, W!Kills
<1>2. still' \in 0..(StallGrace + 1)
  <2>1. W!Older(still, StallGrace + 1) \in 0..(StallGrace + 1)
    BY DEF W!Older, W!Lesser, WatchdogConstants
  <2>2. still' \in {1, W!Older(still, StallGrace + 1)}
    BY DEF W!Look, W!LookDead, W!LookProgress, W!LookStill
  <2>3. 1 \in 0..(StallGrace + 1)
    BY DEF WatchdogConstants
  <2> QED BY <2>1, <2>2, <2>3
<1>3. backoff' \in 1..30 /\ misses' \in Nat /\ failures' \in Nat
  <2>1. backoff' \in {1, backoff} /\ misses' \in {0, misses} /\ failures' \in {0, failures}
    BY DEF W!Look, W!LookDead, W!LookProgress, W!LookStill, W!BackoffBase
  <2> QED BY <2>1
<1>4. playlist' \in BOOLEAN /\ seen' \in BOOLEAN /\ slated' \in BOOLEAN
  <2>1. W!Produces \in BOOLEAN
    BY DEF W!Produces
  <2> QED BY <1>1, <2>1 DEF W!Look, W!LookDead, W!LookProgress, W!LookStill
<1>5. changes' \in 0..MaxChanges
  <2>1. changes' = changes \/ (changes < MaxChanges /\ changes' = changes + 1)
    BY DEF W!Look, W!LookDead, W!LookProgress, W!LookStill, W!Bloats
  <2> QED BY <2>1 DEF WatchdogConstants
<1>6. ff' \in [alive : BOOLEAN, on : W!Source \cup {W!Slate}]
  BY <1>1 DEF W!TypeOK
<1>7. source' \in [W!Source -> Ways] /\ at' \in W!Source
  BY <1>1 DEF W!TypeOK
<1>8. 8 = W!Looks(W!BackoffMax) + 1
  BY WatchdogNumbers
<1> QED BY <1>2, <1>3, <1>4, <1>5, <1>6, <1>7, <1>8, <1>1, AgesTyped, TimerGoes DEF W!TypeOK, W!BackoffBase, W!BackoffMax

\* A respawn, with what it decides named.
LEMMA Respawns ==
  ASSUME WatchdogConstants, W!TypeOK, W!RespawnFires
  PROVE  /\ timer = 1 /\ timer' = 0 /\ ff'.alive
         /\ failures' \in Nat /\ failures' = IF slated THEN failures
                                         ELSE IF failures <= W!Threshold THEN failures + 1
                                         ELSE W!Threshold + 2
         /\ slated' = IF slated THEN slateAge < SlateRetry ELSE failures' >= W!Threshold
         /\ slated' \in BOOLEAN /\ slateAge' \in 0..SlateRetry
         /\ backoff' \in 1..30
         /\ backoff' = IF slated /\ ~slated' THEN 2 ELSE IF 2 * backoff < 30 THEN 2 * backoff ELSE 30
         /\ restarted' = 0 /\ (slated' <=> ff'.on = W!Slate)
         /\ ff' \in [alive : BOOLEAN, on : W!Source \cup {W!Slate}]
         /\ UNCHANGED <<source, playlist, racing, changes, dark>>
<1> USE WatchdogTypes, WatchdogNumbers
<1>1. /\ failures' = W!Failed
      /\ slated' = W!ShowsSlate(W!Failed)
      /\ ff' = [alive |-> TRUE, on |-> IF slated' THEN W!Slate ELSE W!PickSource(misses + 1).at]
      /\ slateAge' = IF slated /\ slated' THEN slateAge ELSE 0
      /\ backoff' = W!Lesser(2 * W!BackoffNow(slated'), W!BackoffMax)
      /\ timer = 1 /\ timer' = 0 /\ restarted' = 0
      /\ UNCHANGED <<source, playlist, racing, changes, dark>>
  BY DEF W!RespawnFires
<1>2. /\ failures' \in Nat /\ failures' = IF slated THEN failures
                                       ELSE IF failures <= W!Threshold THEN failures + 1
                                       ELSE W!Threshold + 2
  BY <1>1 DEF W!Failed, W!Lesser
<1>3. slated' \in BOOLEAN /\ slated' = IF slated THEN slateAge < SlateRetry ELSE failures' >= W!Threshold
  <2>1. slated' = IF slated THEN slateAge < SlateRetry ELSE failures' >= W!Threshold
    BY <1>1 DEF W!ShowsSlate
  <2>2. (slateAge < SlateRetry) \in BOOLEAN /\ (failures' >= W!Threshold) \in BOOLEAN
    BY <1>2 DEF WatchdogConstants
  <2> QED BY <2>1, <2>2
<1>4. /\ backoff' \in 1..30
      /\ backoff' = IF slated /\ ~slated' THEN 2 ELSE IF 2 * backoff < 30 THEN 2 * backoff ELSE 30
  BY <1>1, <1>3 DEF W!Lesser, W!BackoffNow, W!BackoffBase, W!BackoffMax
<1>5. W!PickSource(misses + 1).at \in W!Source
  BY PickIsSource
<1>6. /\ ff' \in [alive : BOOLEAN, on : W!Source \cup {W!Slate}] /\ ff'.alive
      /\ slated' <=> ff'.on = W!Slate
  BY <1>1, <1>3, <1>5
<1>7. slateAge' \in 0..SlateRetry
  BY <1>1 DEF WatchdogConstants
<1> QED BY <1>1, <1>2, <1>3, <1>4, <1>6, <1>7

LEMMA RespawnKeepsTypes ==
  ASSUME WatchdogConstants, W!TypeOK, W!RespawnFires
  PROVE  W!TypeOK'
<1>1. /\ at' \in W!Source /\ misses' \in Nat /\ primaryAge' \in 0..PrimaryRetry
      /\ still' = 0 /\ restarted' = 0 /\ seen' = FALSE
  BY PickIsSource, WatchdogTypes DEF W!RespawnFires
<1>2. 0 \in 0..(StallGrace + 1) /\ 0 \in 0..(BackoffReset + 1) /\ 0 \in 0..(W!Looks(W!BackoffMax) + 1)
  BY WatchdogNumbers DEF WatchdogConstants
<1>3. racing' \in BOOLEAN /\ dark' \in 0..(W!Longest' + 1) /\ W!Longest' = W!Longest
  BY Respawns, WatchdogTypes DEF W!Longest, W!Threshold
<1> QED BY <1>1, <1>2, <1>3, Respawns DEF W!TypeOK, W!BackoffBase, W!BackoffMax

\* What is spent grows with the failures, and covers what the last backoff cost.
LEMMA SpentGrows ==
  ASSUME NEW b \in {1, 2, 4, 8, 16, 30}, NEW n \in Nat, W!Threshold \in Nat
  PROVE  Spent(b, n) \in Nat /\ Spent(b, 0) \in Nat /\ Spent(b, 0) <= Spent(b, n)
  BY DEF Spent

LEMMA SpentIs ==
  ASSUME NEW n \in Nat, W!Threshold \in Nat, n < W!Threshold
  PROVE  /\ Spent(1, n) = 0 /\ Spent(2, n) = 5 /\ Spent(4, n) = 6
         /\ Spent(8, n) = 8 /\ Spent(16, n) = 11 /\ Spent(30, n) = 16 + 8 * n
  BY DEF Spent

LEMMA SpentAtMost ==
  ASSUME NEW b \in {1, 2, 4, 8, 16, 30}, NEW n \in Nat, W!Threshold \in Nat \ {0},
         n >= W!Threshold => b = 2
  PROVE  Spent(b, n) <= 8 + 8 * W!Threshold
  BY DEF Spent

LEMMA RespawnSpends ==
  ASSUME WatchdogConstants, NEW b \in {1, 2, 4, 8, 16, 30}, NEW n \in Nat, n + 1 < W!Threshold,
         NEW race \in BOOLEAN, race => b \in {4, 8, 16},
         NEW wait \in Nat, race => wait = W!Looks(b), ~race => wait = W!Looks(b) + 1,
         NEW c \in Nat, c = IF 2 * b < 30 THEN 2 * b ELSE 30
  PROVE  /\ c \in {2, 4, 8, 16, 30}
         /\ Spent(b, n) + wait <= Spent(c, n + 1)
         /\ race => Spent(b, n) + wait <= Spent(c, 0) - 1
<1>0. W!Threshold \in Nat /\ W!Threshold # 0
  BY WatchdogNumbers
<1>1. c \in {2, 4, 8, 16, 30} /\ (b = 1 => c = 2) /\ (b = 2 => c = 4) /\ (b = 4 => c = 8)
      /\ (b = 8 => c = 16) /\ (b = 16 => c = 30) /\ (b = 30 => c = 30)
  OBVIOUS
<1>2. wait = W!Looks(b) \/ wait = W!Looks(b) + 1
  OBVIOUS
<1>3. race => wait = W!Looks(b) /\ b \in {4, 8, 16}
  OBVIOUS
<1>4. n < W!Threshold /\ n + 1 \in Nat /\ 0 < W!Threshold
  BY <1>0
<1>5. /\ Spent(1, n) = 0 /\ Spent(2, n) = 5 /\ Spent(4, n) = 6 /\ Spent(8, n) = 8 /\ Spent(16, n) = 11
      /\ Spent(30, n) = 16 + 8 * n
  BY <1>0, <1>4, SpentIs
<1>6. /\ Spent(2, n + 1) = 5 /\ Spent(4, n + 1) = 6 /\ Spent(8, n + 1) = 8 /\ Spent(16, n + 1) = 11
      /\ Spent(30, n + 1) = 16 + 8 * (n + 1)
  BY <1>0, <1>4, SpentIs
<1>7. Spent(8, 0) = 8 /\ Spent(16, 0) = 11 /\ Spent(30, 0) = 16
  BY DEF Spent
<1> QED BY <1>1, <1>2, <1>3, <1>5, <1>6, <1>7, LooksAre

LEMMA RespawnKeepsDark ==
  ASSUME WatchdogConstants, DarkInv, W!RespawnFires
  PROVE  DarkInv'
<1>0. /\ W!TypeOK /\ W!TypeOK' /\ W!Threshold' = W!Threshold /\ W!Slate' = W!Slate /\ W!Longest' = W!Longest
  BY RespawnKeepsTypes DEF DarkInv, W!Threshold, W!Slate, W!Longest
<1>1. /\ timer = 1 /\ ~ff.alive /\ backoff \in {1, 2, 4, 8, 16, 30} /\ racing \in BOOLEAN
      /\ (racing => backoff \in {4, 8, 16}) /\ failures \in Nat /\ dark \in Nat /\ slated \in BOOLEAN
  BY <1>0, Respawns, WatchdogTypes DEF DarkInv, TimerParts
<1>2. W!Threshold \in Nat /\ W!Threshold # 0 /\ W!Longest = 16 + 8 * W!Threshold
  BY WatchdogNumbers
<1>3. dark <= (IF slated THEN 0 ELSE Spent(backoff, failures)) + Wait
  <2>1. dark <= (IF slated THEN 0 ELSE Spent(backoff, failures)) + 1 + Wait - 1
    BY <1>1 DEF DarkInv, DarkParts
  <2>2. Wait \in Nat /\ Spent(backoff, failures) \in Nat
    <3>1. Wait \in 0..8
      BY <1>1, WaitIs
    <3>2. Spent(backoff, failures) \in Nat
      BY <1>1, <1>2, SpentGrows
    <3> QED BY <3>1, <3>2
  <2> QED BY <2>1, <2>2
<1>4. /\ timer' = 0 /\ ff'.alive /\ racing' = racing /\ dark' = dark /\ restarted' = 0
      /\ (slated' <=> ff'.on = W!Slate) /\ slated' \in BOOLEAN
      /\ failures' \in Nat /\ failures' = IF slated THEN failures
                                      ELSE IF failures <= W!Threshold THEN failures + 1
                                      ELSE W!Threshold + 2
      /\ slated => (slated' <=> slateAge < SlateRetry)
      /\ ~slated => (slated' <=> failures' >= W!Threshold)
      /\ backoff' = IF slated /\ ~slated' THEN 2 ELSE IF 2 * backoff < 30 THEN 2 * backoff ELSE 30
  BY <1>0, Respawns
<1>5. slated => failures >= W!Threshold /\ ~slated'
  <2>1. slateAge \in Nat /\ SlateRetry \in Nat
    BY <1>0, WatchdogTypes DEF WatchdogConstants
  <2> QED BY <1>1, <1>4, <2>1 DEF DarkInv, SlateShown
<1>6. ~slated /\ failures >= W!Threshold => backoff = 2
  BY DEF DarkInv, SlateShown
<1>7. W!Threshold \in Nat \ {0} /\ W!Longest = 16 + 8 * W!Threshold
  BY WatchdogNumbers
<1>8. backoff' \in {1, 2, 4, 8, 16, 30}
  BY <1>1, <1>4
<1>9. SlateShown'
  BY <1>0, <1>4, <1>5, <1>7 DEF SlateShown
<1>10. TimerParts'
  BY <1>4, <1>8 DEF TimerParts
<1>11. DarkParts'
  <2>1. CASE slated
    <3>1. ~slated' /\ failures' = failures /\ backoff' = 2 /\ failures >= W!Threshold
      BY <1>4, <1>5, <2>1
    <3>2. dark <= Wait /\ Wait <= 8 /\ Wait \in Nat /\ (racing => Wait <= 4)
      <4>1. Wait \in 0..8 /\ (racing => Wait = W!Looks(backoff))
        BY <1>1, WaitIs
      <4>2. dark <= Wait
        BY <1>3, <2>1, <4>1
      <4> QED BY <1>1, <4>1, <4>2, LooksAre
    <3>3. Spent(2, failures)' = 8 /\ Spent(2, 0)' = 5
      BY <1>0, <1>1, <1>7, <3>1 DEF Spent
    <3>4. Spent(backoff, failures)' = 8 /\ Spent(backoff, 0)' = 5
      BY <3>1, <3>3
    <3> QED BY <1>1, <1>4, <3>1, <3>2, <3>4 DEF DarkParts
  <2>2. CASE ~slated /\ slated'
    <3>1. Wait \in 0..8 /\ dark <= Spent(backoff, failures) + Wait
      BY <1>1, <1>3, <2>2, WaitIs
    <3>2. Spent(backoff, failures) <= 8 + 8 * W!Threshold /\ Spent(backoff, failures) \in Nat
      BY <1>1, <1>6, <1>7, <1>2, <2>2, SpentAtMost, SpentGrows
    <3>3. dark <= 16 + 8 * W!Threshold
      BY <1>1, <1>2, <3>1, <3>2
    <3> QED BY <1>0, <1>4, <1>7, <2>2, <3>3 DEF DarkParts
  <2>3. CASE ~slated /\ ~slated'
    <3>1. failures' = failures + 1 /\ failures + 1 < W!Threshold
      BY <1>1, <1>4, <1>2, <2>3
    <3>2. backoff' \in Nat /\ backoff' = IF 2 * backoff < 30 THEN 2 * backoff ELSE 30
      BY <1>4, <1>8, <2>3
    <3>3. Wait \in Nat /\ (racing => Wait = W!Looks(backoff)) /\ (~racing => Wait = W!Looks(backoff) + 1)
      BY <1>1, WaitIs
    <3>4. /\ Spent(backoff, failures) + Wait <= Spent(backoff', failures + 1)
          /\ racing => Spent(backoff, failures) + Wait <= Spent(backoff', 0) - 1
      BY <1>1, <3>1, <3>2, <3>3, RespawnSpends
    <3>5. /\ Spent(backoff, failures)' = Spent(backoff', failures + 1) /\ Spent(backoff, 0)' = Spent(backoff', 0)
      BY <1>0, <3>1 DEF Spent
    <3>6. /\ Spent(backoff, failures) \in Nat /\ Wait \in Nat
          /\ Spent(backoff', failures + 1) \in Nat /\ Spent(backoff', 0) \in Nat
      <4>1. Spent(backoff, failures) \in Nat
        BY <1>1, <1>2, SpentGrows
      <4>2. failures + 1 \in Nat
        BY <1>1
      <4>3. Spent(backoff', failures + 1) \in Nat /\ Spent(backoff', 0) \in Nat
        BY <1>8, <1>2, <4>2, SpentGrows
      <4> QED BY <3>3, <4>1, <4>3
    <3>7. dark <= Spent(backoff', failures + 1) /\ (racing => dark <= Spent(backoff', 0) - 1)
      BY <1>1, <1>3, <2>3, <3>4, <3>6
    <3> QED BY <1>4, <2>3, <3>5, <3>7 DEF DarkParts
  <2> QED BY <1>1, <1>4, <2>1, <2>2, <2>3
<1> QED BY <1>0, <1>9, <1>10, <1>11 DEF DarkInv

LEMMA LookKeepsDark ==
  ASSUME WatchdogConstants, DarkInv, W!Look
  PROVE  DarkInv'
<1>0. /\ W!TypeOK /\ SlateShown /\ backoff \in {1, 2, 4, 8, 16, 30}
      /\ W!Threshold' = W!Threshold /\ W!Slate' = W!Slate /\ W!Longest' = W!Longest
  BY DEF DarkInv, TimerParts, W!Threshold, W!Slate, W!Longest
<1>1. W!TypeOK'
  BY <1>0, LookKeepsTypes
<1>2. /\ W!Looking /\ W!TimePasses /\ slated' = slated
      /\ ff'.on = ff.on /\ (ff'.alive => ff.alive) /\ ff'.alive \in BOOLEAN
  BY <1>0, WatchdogTypes DEF W!Look, W!LookDead, W!LookProgress, W!LookStill, W!Kills
<1>3. /\ dark \in Nat /\ failures \in Nat /\ timer \in Nat /\ slated \in BOOLEAN /\ racing \in BOOLEAN
      /\ W!Threshold \in Nat \ {0} /\ slateAge \in Nat /\ slateAge' \in Nat /\ SlateRetry \in Nat
      /\ dark' \in Nat /\ failures' \in Nat /\ W!Longest \in Nat
  <2>1. /\ dark \in Nat /\ failures \in Nat /\ timer \in Nat /\ slated \in BOOLEAN /\ racing \in BOOLEAN
        /\ slateAge \in Nat /\ SlateRetry \in Nat /\ W!Longest \in Nat /\ W!Threshold \in Nat \ {0}
    BY <1>0, WatchdogTypes, WatchdogNumbers DEF WatchdogConstants
  <2>2. dark' \in Nat /\ slateAge' \in Nat
    <3>1. dark' \in 0..(W!Longest + 1) /\ slateAge' \in 0..SlateRetry
      BY <1>0, <1>2, AgesTyped
    <3> QED BY <2>1, <3>1
  <2>3. failures' \in {0, failures}
    BY DEF W!Look, W!LookDead, W!LookProgress, W!LookStill
  <2> QED BY <2>1, <2>2, <2>3
<1>4. CASE W!LookDead
  <2>1. ~ff.alive /\ ~ff'.alive /\ UNCHANGED <<ff, backoff, failures, slated>>
    BY <1>2, <1>4 DEF W!LookDead
  <2>2. SlateShown'
    <3>1. slated /\ slateAge >= SlateRetry => slateAge' >= SlateRetry
      BY <1>0, <1>2, AgesTyped
    <3> QED BY <1>0, <1>2, <1>3, <2>1, <3>1 DEF SlateShown
  <2>3. timer # 1 /\ (timer # 0 => timer' = timer - 1 /\ (racing' <=> racing))
        /\ (timer = 0 => /\ timer' # 0 /\ timer' = W!Looks(backoff) + (IF racing' THEN 0 ELSE 1)
                         /\ racing' => backoff \in {4, 8, 16})
    <3>1. timer # 1
      BY <1>2 DEF W!Looking
    <3>2. timer # 0 => timer' = timer - 1 /\ (racing' <=> racing)
      BY <1>0, <1>2, TimerGoes
    <3>3. timer = 0 => /\ timer' # 0 /\ timer' = W!Looks(backoff) + (IF racing' THEN 0 ELSE 1)
                       /\ racing' => backoff \in {4, 8, 16}
      BY <1>0, <1>2, <2>1, TimerGoes
    <3> QED BY <3>1, <3>2, <3>3
  <2>4. /\ racing' \in BOOLEAN /\ timer' \in Nat /\ Wait' = W!Looks(backoff) + (IF racing' THEN 0 ELSE 1)
        /\ Wait \in Nat /\ Wait' \in Nat /\ (timer # 0 => Wait' = Wait)
    <3>1. racing' \in BOOLEAN /\ timer' \in Nat
      BY <1>0, <1>2, TimerGoes
    <3>2. Wait' = W!Looks(backoff) + (IF racing' THEN 0 ELSE 1)
      BY <2>1 DEF Wait, W!Looks
    <3>3. W!Looks(backoff) \in Nat
      BY <1>0, LooksAre
    <3>4. Wait' \in Nat /\ Wait \in Nat
      BY <3>2, <3>3 DEF Wait
    <3> QED BY <2>3, <3>1, <3>2, <3>4 DEF Wait
  <2>5. /\ timer' # 0 /\ timer' <= Wait'
        /\ racing' => backoff \in {4, 8, 16}
    <3>1. CASE timer = 0
      BY <2>3, <2>4, <3>1
    <3>2. CASE timer # 0
      <4>1. timer <= Wait /\ (racing => backoff \in {4, 8, 16})
        BY <3>2 DEF DarkInv, TimerParts
      <4>2. timer - 1 # 0 /\ timer - 1 <= Wait
        BY <1>3, <2>3, <2>4, <3>2, <4>1
      <4> QED BY <2>3, <2>4, <3>2, <4>1, <4>2
    <3> QED BY <3>1, <3>2
  <2>6. TimerParts'
    BY <1>0, <2>1, <2>5 DEF TimerParts
  <2>7. dark' <= (IF slated THEN 0 ELSE Spent(backoff, failures)) + 1 + Wait' - timer'
    <3>1. dark' <= dark + 1 /\ timer' \in Nat /\ Spent(backoff, failures) \in Nat
      <4>1. dark' <= dark + 1
        BY <1>0, <1>2, AgesTyped
      <4> QED BY <1>0, <1>3, <2>4, <4>1, SpentGrows
    <3>2. CASE timer = 0
      <4>1. dark <= IF slated THEN 0 ELSE Spent(backoff, failures)
        BY <2>1, <3>2 DEF DarkInv, DarkParts
      <4> QED BY <1>3, <2>3, <2>4, <3>1, <3>2, <4>1
    <3>3. CASE timer # 0
      <4>1. dark <= (IF slated THEN 0 ELSE Spent(backoff, failures)) + 1 + Wait - timer
        BY <3>3 DEF DarkInv, DarkParts
      <4>2. timer' = timer - 1 /\ Wait' = Wait
        BY <2>3, <2>4, <3>3
      <4> QED BY <1>3, <2>4, <3>1, <4>1, <4>2
    <3> QED BY <3>2, <3>3
  <2>8. DarkParts'
    <3>1. Spent(backoff, failures)' = Spent(backoff, failures)
      BY <1>0, <2>1 DEF Spent
    <3> QED BY <1>2, <2>5, <2>7, <3>1 DEF DarkParts
  <2> QED BY <1>1, <2>2, <2>6, <2>8 DEF DarkInv
<1>5. CASE W!LookProgress \/ W!LookStill
  <2>1. ff.alive /\ timer = 0 /\ timer' = 0 /\ racing' = FALSE
    <3>1. ff.alive /\ timer = 0
      BY <1>5 DEF DarkInv, TimerParts, W!LookProgress, W!LookStill
    <3> QED BY <1>0, <1>2, <3>1, TimerGoes
  <2>2. slated => W!LookProgress
    BY <1>0, <1>2, <1>5, <2>1, DarkLookRaces DEF W!LookStill, W!Progress
  <2>3. slated => failures' = failures /\ (~ff'.alive => slateAge >= SlateRetry)
    BY <2>1, <2>2 DEF W!LookProgress, W!Kills, W!SlateIsUp, W!Bloats
  <2>4. ~slated /\ W!LookProgress => failures' = 0
    BY DEF W!LookProgress
  <2>5. W!LookStill => UNCHANGED <<failures, backoff>>
    BY DEF W!LookStill
  <2>6. ~slated' /\ failures' >= W!Threshold => backoff' = 2
    <3>1. ~slated /\ failures >= W!Threshold => backoff = 2
      BY <1>0 DEF SlateShown
    <3> QED BY <1>2, <1>3, <1>5, <2>4, <2>5, <3>1
  <2>7. SlateShown'
    BY <1>0, <1>2, <1>3, <2>1, <2>3, <2>6, AgesTyped DEF SlateShown
  <2>8. backoff' \in {1, backoff} /\ failures' \in {0, failures}
        /\ (restarted <= BackoffReset => backoff' = backoff)
    <3>1. restarted <= BackoffReset => ~(restarted > BackoffReset)
      BY <1>0, WatchdogTypes DEF WatchdogConstants
    <3> QED BY <1>5, <3>1 DEF W!LookProgress, W!LookStill, W!BackoffBase
  <2>9. TimerParts'
    BY <1>0, <2>1, <2>8 DEF TimerParts
  <2>10. backoff' \in {1, 2, 4, 8, 16, 30}
    BY <1>0, <2>8
  <2>11. Spent(backoff', failures') \in Nat /\ Spent(backoff', 0) <= Spent(backoff', failures')
         /\ Spent(backoff', 0) \in Nat
    BY <1>3, <2>10, SpentGrows
  <2>12. ~slated => dark' <= Spent(backoff', failures')
    <3> SUFFICES ASSUME ~slated PROVE dark' <= Spent(backoff', failures')
      OBVIOUS
    <3>1. CASE W!Produces \/ W!Hanging
      <4>1. dark' = 0
        BY <1>0, <1>2, <3>1, AgesTyped
      <4> QED BY <2>11, <4>1
    <3>2. CASE ~(W!Produces \/ W!Hanging)
      <4>1. racing
        BY <1>0, <1>2, <2>1, <3>2, DarkLookRaces
      <4>2. restarted = 0 /\ dark <= Spent(backoff, 0) - 1
        BY <2>1, <4>1 DEF DarkInv, TimerParts, DarkParts
      <4>3. backoff' = backoff
        BY <2>8, <4>2 DEF WatchdogConstants
      <4>4. dark' <= dark + 1
        BY <1>0, <1>2, AgesTyped
      <4> QED BY <1>3, <2>11, <4>2, <4>3, <4>4
    <3> QED BY <3>1, <3>2
  <2>13. slated => dark' = 0
    <3>1. slated => W!Produces
      BY <1>0, <1>2, <2>1, DarkLookRaces
    <3> QED BY <1>0, <1>2, <3>1, AgesTyped
  <2>14. DarkParts'
    <3>1. Spent(backoff, failures)' = Spent(backoff', failures')
      BY <1>0 DEF Spent
    <3> QED BY <1>0, <1>2, <1>3, <2>1, <2>12, <2>13, <3>1 DEF DarkParts
  <2> QED BY <1>1, <2>7, <2>9, <2>14 DEF DarkInv
<1> QED BY <1>4, <1>5 DEF W!Look

LEMMA OthersKeepDark ==
  ASSUME WatchdogConstants, DarkInv, W!Exits \/ W!Change \/ UNCHANGED W!vars
  PROVE  DarkInv'
<1>0. /\ UNCHANGED <<playlist, seen, still, restarted, timer, racing, backoff, at, misses, primaryAge>>
      /\ UNCHANGED <<failures, slated, slateAge, dark>>
      /\ W!Threshold' = W!Threshold /\ W!Slate' = W!Slate /\ W!Longest' = W!Longest
  BY DEF W!Exits, W!Change, W!vars, W!watch, W!retry, W!Threshold, W!Slate, W!Longest
<1>1. /\ ff'.on = ff.on /\ (ff'.alive = ff.alive \/ (ff.alive /\ ff.on # W!Slate /\ ff'.alive = FALSE))
      /\ W!TypeOK'
  <2>1. CASE W!Exits
    <3>1. ff.alive /\ ff.on # W!Slate /\ ff' = [ff EXCEPT !.alive = FALSE] /\ UNCHANGED <<source, changes>>
      BY <2>1 DEF W!Exits, W!DiesAtOnce
    <3>2. ff' \in [alive : BOOLEAN, on : W!Source \cup {W!Slate}] /\ ff'.on = ff.on /\ ff'.alive = FALSE
      BY <3>1 DEF DarkInv, W!TypeOK
    <3> QED BY <1>0, <3>1, <3>2 DEF DarkInv, W!TypeOK
  <2>2. CASE W!Change
    <3>1. changes' \in 0..MaxChanges /\ source' \in [W!Source -> Ways] /\ ff' = ff
      BY <2>2 DEF W!Change, DarkInv, W!TypeOK, WatchdogConstants
    <3> QED BY <1>0, <3>1 DEF DarkInv, W!TypeOK
  <2>3. CASE UNCHANGED W!vars
    BY <1>0, <2>3 DEF W!vars, DarkInv, W!TypeOK
  <2> QED BY <2>1, <2>2, <2>3
<1>2. ff.alive \in BOOLEAN /\ slated \in BOOLEAN
  BY WatchdogTypes DEF DarkInv
<1>3. SlateShown'
  BY <1>0, <1>1, <1>2 DEF DarkInv, SlateShown
<1>4. TimerParts'
  BY <1>0, <1>1, <1>2 DEF DarkInv, TimerParts, Wait, W!Looks
<1>5. DarkParts'
  <2>1. /\ Spent(backoff, failures)' = Spent(backoff, failures) /\ Spent(backoff, 0)' = Spent(backoff, 0)
        /\ Wait' = Wait
    BY <1>0 DEF Spent, Wait, W!Looks
  <2>2. slated => ff'.alive = ff.alive
    BY <1>1 DEF DarkInv, SlateShown
  <2> QED BY <1>0, <1>2, <2>1, <2>2 DEF DarkInv, DarkParts
<1> QED BY <1>1, <1>3, <1>4, <1>5 DEF DarkInv

LEMMA WatchdogInvariant ==
  ASSUME WatchdogConstants
  PROVE  W!Spec => []DarkInv
<1>1. W!Init => DarkInv
  <2> SUFFICES ASSUME W!Init PROVE DarkInv
    OBVIOUS
  <2>1. W!TypeOK
    <3>1. /\ ff \in [alive : BOOLEAN, on : W!Source \cup {W!Slate}] /\ at \in W!Source
          /\ source \in [W!Source -> Ways]
      BY WatchdogNumbers DEF W!Init
    <3>2. /\ 0 \in 0..(StallGrace + 1) /\ 0 \in 0..(BackoffReset + 1) /\ 0 \in 0..PrimaryRetry
          /\ 0 \in 0..SlateRetry /\ 0 \in 0..MaxChanges
      BY DEF WatchdogConstants
    <3>3. 0 \in 0..(W!Looks(W!BackoffMax) + 1) /\ backoff \in W!BackoffBase..W!BackoffMax
      BY WatchdogNumbers DEF W!Init, W!BackoffBase, W!BackoffMax
    <3>4. /\ playlist \in BOOLEAN /\ seen \in BOOLEAN /\ racing \in BOOLEAN /\ slated \in BOOLEAN
          /\ still = 0 /\ restarted = 0 /\ timer = 0 /\ misses = 0 /\ failures = 0
          /\ primaryAge = 0 /\ slateAge = 0 /\ changes = 0 /\ dark = 0
      BY DEF W!Init
    <3>5. misses \in Nat /\ failures \in Nat /\ dark \in 0..(W!Longest + 1)
      BY <3>4, WatchdogNumbers
    <3> QED BY <3>1, <3>2, <3>3, <3>4, <3>5 DEF W!TypeOK
  <2>2. SlateShown /\ TimerParts /\ DarkParts
    <3>1. /\ ff = [alive |-> TRUE, on |-> 0] /\ timer = 0 /\ racing = FALSE /\ backoff = 1 /\ failures = 0
          /\ slated = FALSE /\ dark = 0
      BY DEF W!Init, W!BackoffBase
    <3>2. Spent(1, 0) = 0 /\ W!Threshold \in Nat \ {0} /\ 0 # W!Slate
      BY WatchdogNumbers DEF Spent, W!Slate
    <3> QED BY <3>1, <3>2 DEF SlateShown, TimerParts, DarkParts
  <2> QED BY <2>1, <2>2 DEF DarkInv
<1>2. DarkInv /\ [W!Next]_(W!vars) => DarkInv'
  BY RespawnKeepsDark, LookKeepsDark, OthersKeepDark DEF W!Next
<1> QED BY <1>1, <1>2, PTL DEF W!Spec

\* Every variable of the watchdog keeps its type.
THEOREM WatchdogTypeInvariant ==
  ASSUME WatchdogConstants
  PROVE  W!Spec => []W!TypeOK
<1>1. DarkInv => W!TypeOK
  BY DEF DarkInv
<1> QED BY <1>1, WatchdogInvariant, PTL

\* For any number of sources, whatever the times and thresholds are set to and
\* however the sources change: while none hangs, viewers are without anything new
\* for no more than sixteen looks and eight for each failure the slate waits for.
THEOREM DarkEnds ==
  ASSUME WatchdogConstants
  PROVE  W!Spec => []W!DarkIsBounded
<1>1. DarkInv => W!DarkIsBounded
  <2> SUFFICES ASSUME DarkInv PROVE dark <= 16 + 8 * W!Threshold
    BY WatchdogNumbers DEF W!DarkIsBounded
  <2>1. /\ dark \in Nat /\ timer \in Nat /\ failures \in Nat /\ slated \in BOOLEAN /\ ff.alive \in BOOLEAN
        /\ racing \in BOOLEAN /\ backoff \in {1, 2, 4, 8, 16, 30} /\ W!Threshold \in Nat \ {0}
    BY WatchdogTypes, WatchdogNumbers DEF DarkInv, TimerParts
  <2>2. Wait \in 0..8 /\ Spent(backoff, failures) \in Nat
    BY <2>1, WaitIs, SpentGrows
  <2>3. ~slated => Spent(backoff, failures) <= 8 + 8 * W!Threshold
    <3>1. ~slated /\ failures >= W!Threshold => backoff = 2
      BY DEF DarkInv, SlateShown
    <3> QED BY <2>1, <3>1, SpentAtMost
  <2>4. CASE timer # 0
    <3>1. dark <= (IF slated THEN 0 ELSE Spent(backoff, failures)) + 1 + Wait - timer
      BY <2>4 DEF DarkInv, DarkParts
    <3> QED BY <2>1, <2>2, <2>3, <2>4, <3>1
  <2>5. CASE timer = 0 /\ slated
    BY <2>1, <2>5, WatchdogNumbers DEF DarkInv, DarkParts
  <2>6. CASE timer = 0 /\ ~slated
    <3>1. dark <= Spent(backoff, failures)
      BY <2>6 DEF DarkInv, DarkParts
    <3> QED BY <2>1, <2>2, <2>3, <2>6, <3>1
  <2> QED BY <2>1, <2>4, <2>5, <2>6
<1> QED BY <1>1, WatchdogInvariant, PTL

=============================================================================
