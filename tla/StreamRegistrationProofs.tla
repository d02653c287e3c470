---------------------- MODULE StreamRegistrationProofs ----------------------
(***************************************************************************)
(* What the catalog shows of a stream is, whole, something its publisher   *)
(* wished for, and the blobs key beside a feed is that feed's, for any     *)
(* number of streams, connections, restarts, lost connections and edits.   *)
(*                                                                         *)
(* The invariant follows a wish on its way: from the queue to the cycle    *)
(* that delivers it, over the wire to the responder, and into the record;  *)
(* and it follows copies of a record held by whoever has read one and is   *)
(* about to put it back.                                                   *)
(***************************************************************************)
EXTENDS StreamRegistration, FiniteSetTheorems, FunctionTheorems, SequenceTheorems, TLAPS

State == BOOLEAN \X (1..MaxFeed)

\* An ask that was wished for of s, ev being all the wishes.
Asks(ev, s, ask) == ask \in Ask /\ <<ask.live, ask.feed>> \in ev[s]

Rec == Record \cup {NoRecord}

\* A record of s as it may stand in the catalog.
RecOK(ev, s, rec) ==
  /\ rec \in Rec /\ rec.blobs \in {0, rec.feed}
  /\ Exists(rec) => <<rec.live, rec.feed>> \in ev[s]

ChanOK == chan \in [Stream -> [running : BOOLEAN, wanted : BOOLEAN, feed : 1..MaxFeed]]
EverOK(ev) == ev \in [Stream -> SUBSET State]

QueueOK(ev, o, a) ==
  /\ o \in Seq(Stream) /\ a \in [Stream -> Ask]
  /\ \A i \in DOMAIN o : Asks(ev, o[i], a[o[i]])

Cycle == [pc : {"hello", "register"}, s : Stream, ask : Ask, current : BOOLEAN]
CycleOK(ev, cycle) == cycle = NoCycle \/ (cycle \in Cycle /\ Asks(ev, cycle.s, cycle.ask))

WireOK(ev, w) == w.kind = "register" => w.s \in Stream /\ Asks(ev, w.s, w.ask)

RespOK(ev, r) ==
  \/ r = NoResp
  \/ /\ r \in [pc : {"read", "put"}, s : Stream, ask : Ask, rec : Rec]
     /\ Asks(ev, r.s, r.ask)
     /\ r.pc = "put" => RecOK(ev, r.s, r.rec)

JobPcs == {"none", "look", "looked", "probe", "check", "put", "sleep"}
JobOK(ev, s, j) ==
  /\ j \in [pc : JobPcs, rec : Rec, tries : Nat]
  /\ j.pc = "put" => RecOK(ev, s, j.rec)

AdmOK(ev, a) ==
  \/ a = NoAdmin
  \/ a \in [pc : {"title", "delete", "forget"}, s : Stream, rec : Record] /\ RecOK(ev, a.s, a.rec)

Sender ==
  /\ ChanOK /\ EverOK(ever) /\ QueueOK(ever, order, asked)
  /\ CycleOK(ever, proc) /\ WireOK(ever, wire)

Keeper ==
  /\ resp = [c \in Conn |-> resp[c]] /\ \A c \in Conn : RespOK(ever, resp[c])
  /\ catalog \in [Stream -> Rec] /\ \A s \in Stream : RecOK(ever, s, catalog[s])
  /\ enr = [s \in Stream |-> enr[s]] /\ \A s \in Stream : JobOK(ever, s, enr[s])
  /\ AdmOK(ever, adm)

Inv == Sender /\ Keeper

\* Wishes are never forgotten.
Grows(ev, ew) == \A s \in Stream : ev[s] \subseteq ew[s]

-----------------------------------------------------------------------------
(* The queue. *)

\* A queue somebody waits in has a first stream that is pending.
LEMMA FirstIsListed ==
  ASSUME NEW o \in Seq(Stream), NEW p, Waiting(o, p)
  PROVE  \E i \in DOMAIN o : FirstPending(o, p) = o[i] /\ p[o[i]]
<1> DEFINE T == {i \in DOMAIN o : p[o[i]]}
<1>1. DOMAIN o = 1..Len(o) /\ Len(o) \in Nat
  BY LenProperties
<1>2. T \subseteq Nat /\ T # {}
  BY <1>1 DEF Waiting
<1>3. PICK i \in T : \A j \in T : ~(<<j, i>> \in OpToRel(<, Nat))
  <2> HIDE DEF T
  <2> QED BY <1>2, NatLessThanWellFounded, WFMin
<1>4. \A j \in 1..(i - 1) : ~p[o[j]]
  <2> SUFFICES ASSUME NEW j \in 1..(i - 1), p[o[j]] PROVE FALSE
    OBVIOUS
  <2>1. j \in T /\ i \in T /\ j \in Nat /\ i \in Nat /\ j < i
    BY <1>1
  <2>2. <<j, i>> \in OpToRel(<, Nat)
    BY <2>1 DEF OpToRel
  <2> QED BY <1>3, <2>1, <2>2
<1> QED BY <1>4 DEF FirstPending

LEMMA ProcessKeeps ==
  ASSUME NEW ev, NEW o, NEW a, NEW p, NEW l, NEW t, NEW cycle,
         QueueOK(ev, o, a), CycleOK(ev, cycle), Process(o, a, p, l, t, cycle)
  PROVE  CycleOK(ev, proc')
<1>1. CASE cycle.pc # "idle" \/ ~Waiting(o, p) \/ l = Off
  BY <1>1 DEF Process
<1>2. CASE ~(cycle.pc # "idle" \/ ~Waiting(o, p) \/ l = Off)
  <2>1. PICK i \in DOMAIN o : FirstPending(o, p) = o[i]
    BY <1>2, FirstIsListed DEF QueueOK
  <2>2. o[i] \in Stream /\ Asks(ev, o[i], a[o[i]])
    BY <2>1, ElementOfSeq, LenProperties DEF QueueOK
  <2>3. proc' = [pc |-> "hello", s |-> o[i], ask |-> a[o[i]], current |-> TRUE]
    BY <1>2, <2>1 DEF Process
  <2> QED BY <2>2, <2>3 DEF CycleOK, Cycle, Asks
<1> QED BY <1>1, <1>2

LEMMA OvertakenKeeps ==
  ASSUME NEW ev, CycleOK(ev, proc), NEW S
  PROVE  CycleOK(ev, Overtaken(S))
BY DEF Overtaken, CycleOK, Cycle, NoCycle, Asks

-----------------------------------------------------------------------------
(* More wishes leave everything as good as it was. *)

LEMMA AsksGrow ==
  ASSUME NEW ev, NEW ew, Grows(ev, ew), NEW s \in Stream, NEW ask, Asks(ev, s, ask)
  PROVE  Asks(ew, s, ask)
BY DEF Grows, Asks

LEMMA RecGrow ==
  ASSUME NEW ev, NEW ew, Grows(ev, ew), NEW s \in Stream, NEW rec, RecOK(ev, s, rec)
  PROVE  RecOK(ew, s, rec)
BY DEF Grows, RecOK

LEMMA CycleGrow ==
  ASSUME NEW ev, NEW ew, Grows(ev, ew), NEW cycle, CycleOK(ev, cycle)
  PROVE  CycleOK(ew, cycle)
<1>1. CASE cycle = NoCycle
  BY <1>1 DEF CycleOK
<1>2. CASE cycle \in Cycle /\ Asks(ev, cycle.s, cycle.ask)
  BY <1>2, AsksGrow DEF CycleOK, Cycle
<1> QED BY <1>1, <1>2 DEF CycleOK

LEMMA WireGrow ==
  ASSUME NEW ev, NEW ew, Grows(ev, ew), NEW w, WireOK(ev, w)
  PROVE  WireOK(ew, w)
BY AsksGrow DEF WireOK

LEMMA KeeperGrow ==
  ASSUME Keeper, Grows(ever, ever'), UNCHANGED <<resp, catalog, enr, adm>>
  PROVE  Keeper'
<1>1. ASSUME NEW c \in Conn PROVE RespOK(ever', resp[c])
  <2>1. RespOK(ever, resp[c])
    BY DEF Keeper
  <2>2. CASE resp[c] = NoResp
    BY <2>2 DEF RespOK
  <2>3. CASE resp[c] # NoResp
    BY <2>1, <2>3, AsksGrow, RecGrow DEF RespOK
  <2> QED BY <2>2, <2>3
<1>2. ASSUME NEW s \in Stream PROVE RecOK(ever', s, catalog[s]) /\ JobOK(ever', s, enr[s])
  BY RecGrow DEF Keeper, JobOK
<1>3. AdmOK(ever', adm)
  <2>1. CASE adm = NoAdmin
    BY <2>1 DEF AdmOK
  <2>2. CASE adm # NoAdmin
    BY <2>2, RecGrow DEF Keeper, AdmOK
  <2> QED BY <2>1, <2>2
<1> QED BY <1>1, <1>2, <1>3 DEF Keeper

-----------------------------------------------------------------------------
(* The broadcaster: what it sends is what was wished for. *)

LEMMA SenderFrom ==
  ASSUME WireOK(ever, wire'), ChanOK', EverOK(ever'), Grows(ever, ever'),
         QueueOK(ever', order', asked'), CycleOK(ever', proc')
  PROVE  Sender'
BY WireGrow DEF Sender

LEMMA NothingWished ==
  ASSUME ever' = ever
  PROVE  Grows(ever, ever')
BY DEF Grows

\* The wishes of some streams, added to what was wished before.
LEMMA WishesGrow ==
  ASSUME EverOK(ever), NEW S \in SUBSET Stream, NEW w \in [Stream -> State],
         ever' = [s \in Stream |-> IF s \in S THEN ever[s] \cup {w[s]} ELSE ever[s]]
  PROVE  EverOK(ever') /\ Grows(ever, ever')
BY DEF EverOK, Grows

\* The queue with one more stream, which may be there already.
LEMMA OnceIsQueue ==
  ASSUME order \in Seq(Stream), NEW s \in Stream
  PROVE  /\ Once(s) \in Seq(Stream)
         /\ \A i \in DOMAIN Once(s) : Once(s)[i] = s \/ \E j \in DOMAIN order : Once(s)[i] = order[j]
<1>1. CASE s \in Listed
  BY <1>1 DEF Once
<1>2. CASE s \notin Listed
  <2>1. Once(s) = Append(order, s)
    BY <1>2 DEF Once
  <2>2. /\ Append(order, s) \in Seq(Stream) /\ Len(Append(order, s)) = Len(order) + 1
        /\ \A i \in 1..Len(order) : Append(order, s)[i] = order[i]
        /\ Append(order, s)[Len(order) + 1] = s
    BY AppendProperties
  <2>3. DOMAIN Append(order, s) = 1..(Len(order) + 1) /\ DOMAIN order = 1..Len(order) /\ Len(order) \in Nat
    BY <2>2, LenProperties
  <2> QED BY <2>1, <2>2, <2>3
<1> QED BY <1>1, <1>2

LEMMA SetDesiredKeeps ==
  ASSUME Sender, NEW s \in Stream, NEW live \in BOOLEAN, NEW feed \in 1..MaxFeed,
         SetDesired(s, live, feed)
  PROVE  /\ EverOK(ever') /\ Grows(ever, ever')
         /\ QueueOK(ever', order', asked') /\ CycleOK(ever', proc')
<1> DEFINE ask == Wish(live, feed, asked[s].ver + 1)
<1>1. /\ order' = Once(s) /\ asked' = [asked EXCEPT ![s] = ask]
      /\ ever' = [ever EXCEPT ![s] = @ \cup {<<live, feed>>}]
      /\ \E p : Process(order', asked', p, link, timer, Overtaken({s}))
  BY DEF SetDesired
<1>2. ask \in Ask /\ ask.live = live /\ ask.feed = feed
  BY DEF Sender, QueueOK, Ask, Wish
<1>3. EverOK(ever') /\ Grows(ever, ever') /\ <<live, feed>> \in ever'[s]
  BY <1>1 DEF Sender, EverOK, Grows, State
<1>4. QueueOK(ever', order', asked')
  <2>1. order' \in Seq(Stream)
    BY <1>1, OnceIsQueue DEF Sender, QueueOK
  <2>2. asked' \in [Stream -> Ask]
    BY <1>1, <1>2 DEF Sender, QueueOK
  <2>3. ASSUME NEW i \in DOMAIN order' PROVE Asks(ever', order'[i], asked'[order'[i]])
    <3>1. CASE order'[i] = s
      <4>1. asked'[s] = ask
        BY <1>1 DEF Sender, QueueOK
      <4> QED BY <3>1, <4>1, <1>2, <1>3 DEF Asks
    <3>2. CASE order'[i] # s
      <4>1. PICK j \in DOMAIN order : order'[i] = order[j]
        BY <1>1, <3>2, OnceIsQueue DEF Sender, QueueOK
      <4>2. Asks(ever, order[j], asked[order[j]]) /\ order[j] \in Stream
        BY ElementOfSeq, LenProperties DEF Sender, QueueOK
      <4>3. asked'[order[j]] = asked[order[j]]
        BY <1>1, <3>2, <4>1, <4>2 DEF Sender, QueueOK
      <4> QED BY <4>1, <4>2, <4>3, <1>3, AsksGrow
    <3> QED BY <3>1, <3>2
  <2> QED BY <2>1, <2>2, <2>3 DEF QueueOK
<1>5. CycleOK(ever', Overtaken({s}))
  BY <1>3, CycleGrow, OvertakenKeeps DEF Sender
<1> QED BY <1>1, <1>3, <1>4, <1>5, ProcessKeeps

LEMMA ChannelKeeps ==
  ASSUME Sender, NEW s \in Stream, Channel(s) \/ Resume(s)
  PROVE  Sender' /\ Grows(ever, ever')
<1>0. chan[s].feed \in 1..MaxFeed /\ WireOK(ever, wire)
  BY DEF Sender, ChanOK
<1>1. wire' = wire
  BY DEF Channel, Start, Stop, Rotate, Resume
<1>2. \E live \in BOOLEAN, feed \in 1..MaxFeed : SetDesired(s, live, feed)
  <2>1. CASE Start(s)
    BY <2>1 DEF Start
  <2>2. CASE Stop(s)
    BY <2>2, <1>0 DEF Stop
  <2>3. CASE Rotate(s)
    <3>1. chan[s].feed + 1 \in 1..MaxFeed
      BY <2>3, <1>0, BoundsAssumption DEF Rotate
    <3> QED BY <2>3, <3>1 DEF Rotate
  <2>4. CASE Resume(s)
    BY <2>4, <1>0 DEF Resume
  <2> QED BY <2>1, <2>2, <2>3, <2>4 DEF Channel
<1>3. ChanOK'
  <2>1. ASSUME NEW f \in 1..MaxFeed, chan' = Runs(s, f) PROVE ChanOK'
    BY <2>1 DEF Sender, ChanOK, Runs
  <2>2. CASE Start(s)
    BY <2>1, <2>2 DEF Start
  <2>3. CASE Stop(s)
    <3> DEFINE d == [running |-> FALSE, wanted |-> FALSE, feed |-> chan[s].feed]
    <3>1. chan' = [chan EXCEPT ![s] = d]
      BY <2>3 DEF Stop, Sender, ChanOK
    <3>2. d \in [running : BOOLEAN, wanted : BOOLEAN, feed : 1..MaxFeed]
      BY <1>0
    <3> HIDE DEF d
    <3> QED BY <3>1, <3>2 DEF Sender, ChanOK
  <2>4. CASE Rotate(s)
    <3>1. chan[s].feed + 1 \in 1..MaxFeed
      BY <2>4, <1>0, BoundsAssumption DEF Rotate
    <3> QED BY <2>1, <2>4, <3>1 DEF Rotate
  <2>5. CASE Resume(s)
    BY <2>1, <2>5, <1>0 DEF Resume
  <2> QED BY <2>2, <2>3, <2>4, <2>5 DEF Channel
<1> QED BY <1>0, <1>1, <1>2, <1>3, SetDesiredKeeps, SenderFrom

LEMMA LinkLostKeeps ==
  ASSUME Sender, LinkLost, ever' = ever
  PROVE  Sender'
BY DEF Sender, LinkLost, ChanOK, QueueOK, CycleOK, WireOK, Quiet

LEMMA LinkKeeps ==
  ASSUME Sender, LinkStep \/ Heartbeat \/ \E c \in Conn : Connect(c)
  PROVE  Sender' /\ ever' = ever
<1> USE DEF Sender
<1>1. ASSUME NEW c \in Conn, Connect(c) PROVE Sender' /\ ever' = ever
  BY <1>1, ProcessKeeps DEF Connect, ChanOK
<1>2. CASE RetryTimer
  BY <1>2, ProcessKeeps DEF RetryTimer, ChanOK
<1>3. CASE Heartbeat
  <2>1. \E p : Process(order, asked, p, link, timer, Overtaken(Reasserted))
    BY <1>3 DEF Heartbeat
  <2>2. CycleOK(ever, proc')
    BY <2>1, OvertakenKeeps, ProcessKeeps
  <2> QED BY <1>3, <2>2 DEF Heartbeat, ChanOK
<1>4. ASSUME NEW c \in Conn, Hello(c) PROVE Sender' /\ ever' = ever
  <2>1. proc \in Cycle /\ Asks(ever, proc.s, proc.ask)
    BY <1>4 DEF Hello, CycleOK, NoCycle
  <2>2. CycleOK(ever, proc')
    BY <1>4, <2>1 DEF Hello, CycleOK, Cycle, Asks
  <2>3. WireOK(ever, wire')
    BY <1>4, <2>1 DEF Hello, WireOK, Cycle
  <2> QED BY <1>4, <2>2, <2>3 DEF Hello, ChanOK
<1>5. CASE Answered
  <2>1. wire' = Quiet /\ UNCHANGED <<chan, order, asked, ever>>
    BY <1>5 DEF Answered
  <2>2. proc' = NoCycle \/ \E p : Process(order, asked, p, link, timer, NoCycle)
    BY <1>5 DEF Answered
  <2>3. CycleOK(ever, NoCycle)
    BY DEF CycleOK
  <2>4. CycleOK(ever, proc')
    BY <2>2, <2>3, ProcessKeeps
  <2> QED BY <2>1, <2>4 DEF ChanOK, WireOK, Quiet
<1> QED BY <1>1, <1>2, <1>3, <1>4, <1>5 DEF LinkStep

LEMMA ShutdownKeeps ==
  ASSUME Sender, Shutdown
  PROVE  Sender' /\ Grows(ever, ever')
<1> DEFINE R == {s \in Stream : chan[s].running}
           w == [s \in Stream |-> <<FALSE, chan[s].feed>>]
           a == [s \in Stream |-> IF s \in R THEN Wish(FALSE, chan[s].feed, asked[s].ver + 1) ELSE asked[s]]
<1>1. /\ order' = order /\ asked' = a /\ wire' = wire
      /\ chan' = [s \in Stream |-> [chan[s] EXCEPT !.running = FALSE]]
      /\ \E p : Process(order, a, p, link, timer, Overtaken(R))
  BY DEF Shutdown
<1>2. ever' = [s \in Stream |-> IF s \in R THEN ever[s] \cup {w[s]} ELSE ever[s]]
  BY DEF Shutdown
<1>3. w \in [Stream -> State] /\ R \in SUBSET Stream
  BY DEF Sender, ChanOK, State
<1>4. EverOK(ever') /\ Grows(ever, ever')
  <2> HIDE DEF w, R
  <2> QED BY <1>2, <1>3, WishesGrow DEF Sender
<1>5. ChanOK'
  BY <1>1 DEF Sender, ChanOK
<1>6. ASSUME NEW s \in Stream
      PROVE  a[s] \in Ask /\ (Asks(ever, s, asked[s]) => Asks(ever', s, a[s]))
  <2>1. CASE s \in R
    <3>1. a[s] = Wish(FALSE, chan[s].feed, asked[s].ver + 1)
      BY <2>1
    <3>2. a[s] \in Ask /\ a[s].live = FALSE /\ a[s].feed = chan[s].feed
      BY <3>1 DEF Wish, Ask, Sender, ChanOK, QueueOK
    <3>3. <<FALSE, chan[s].feed>> \in ever'[s]
      BY <2>1, <1>2
    <3> QED BY <3>2, <3>3 DEF Asks
  <2>2. CASE s \notin R
    <3>1. a[s] = asked[s] /\ asked[s] \in Ask
      BY <2>2 DEF Sender, QueueOK
    <3> QED BY <3>1, <1>4, AsksGrow
  <2> QED BY <2>1, <2>2
<1>7. QueueOK(ever', order, a)
  <2>1. \A i \in DOMAIN order : order[i] \in Stream
    BY ElementOfSeq, LenProperties DEF Sender, QueueOK
  <2>2. a \in [Stream -> Ask]
    BY <1>6
  <2> HIDE DEF a
  <2> QED BY <2>1, <2>2, <1>6 DEF Sender, QueueOK
<1>8. CycleOK(ever', Overtaken(R))
  BY <1>4, CycleGrow, OvertakenKeeps DEF Sender
<1>9. CycleOK(ever', proc')
  <2> HIDE DEF a, R
  <2> QED BY <1>1, <1>7, <1>8, ProcessKeeps
<1> HIDE DEF a, w, R
<1> QED BY <1>1, <1>4, <1>5, <1>7, <1>9, SenderFrom DEF Sender

LEMMA EndsKeeps ==
  ASSUME Sender, Ends
  PROVE  Sender' /\ ever' = ever
<1>1. /\ order' = <<>> /\ proc' = NoCycle /\ wire' = Quiet /\ ever' = ever
      /\ chan' = [s \in Stream |-> [chan[s] EXCEPT !.running = FALSE]]
      /\ asked' = [s \in Stream |-> Wish(FALSE, 1, asked[s].ver)]
  BY DEF Ends
<1>2. ChanOK'
  BY <1>1 DEF Sender, ChanOK
<1>3. asked' \in [Stream -> Ask]
  BY <1>1, BoundsAssumption DEF Sender, QueueOK, Ask, Wish
<1>4. <<>> \in Seq(Stream) /\ DOMAIN <<>> = {}
  BY EmptySeq
<1> QED BY <1>1, <1>2, <1>3, <1>4 DEF Sender, QueueOK, CycleOK, WireOK, Quiet

\* The order a boot puts the idle channels in has nothing else in it.
LEMMA ListedOnce ==
  ASSUME NEW I \in SUBSET Stream
  PROVE  SetToSeq(I) \in Seq(I)
<1> DEFINE n == Cardinality(I)
<1>1. IsFiniteSet(I)
  BY StreamAssumption, FS_Subset
<1>2. n \in Nat /\ ExistsBijection(1..n, I)
  BY <1>1, FS_CardinalityType
<1>3. PICK f \in Bijection(1..n, I) : TRUE
  BY <1>2, Fun_ExistsBij
<1>4. f \in [1..n -> I] /\ IsInjective(f)
  BY <1>3 DEF Bijection, Injection, IsInjective
<1>5. SetToSeq(I) \in [1..n -> I]
  BY <1>4 DEF SetToSeq
<1> HIDE DEF n
<1> QED BY <1>2, <1>5, IsASeq

LEMMA BootKeeps ==
  ASSUME Sender, Boot
  PROVE  Sender' /\ Grows(ever, ever')
<1> DEFINE I == {s \in Stream : ~chan[s].wanted}
           o == SetToSeq(I)
           w == [s \in Stream |-> <<FALSE, chan[s].feed>>]
           a == [s \in Stream |-> IF s \in I THEN Wish(FALSE, chan[s].feed, asked[s].ver + 1) ELSE asked[s]]
<1>1. /\ order' = o /\ asked' = a /\ wire' = wire /\ chan' = chan
      /\ \E p : Process(o, a, p, Off, {}, NoCycle)
  BY DEF Boot
<1>2. ever' = [s \in Stream |-> IF s \in I THEN ever[s] \cup {w[s]} ELSE ever[s]]
  BY DEF Boot
<1>3. w \in [Stream -> State] /\ I \in SUBSET Stream
  BY DEF Sender, ChanOK, State
<1>4. EverOK(ever') /\ Grows(ever, ever')
  <2> HIDE DEF w, I
  <2> QED BY <1>2, <1>3, WishesGrow DEF Sender
<1>5. ASSUME NEW s \in Stream
      PROVE  a[s] \in Ask /\ (s \in I => Asks(ever', s, a[s]))
  <2>1. CASE s \in I
    <3>1. a[s] = Wish(FALSE, chan[s].feed, asked[s].ver + 1)
      BY <2>1
    <3>2. a[s] \in Ask /\ a[s].live = FALSE /\ a[s].feed = chan[s].feed
      BY <3>1 DEF Wish, Ask, Sender, ChanOK, QueueOK
    <3>3. <<FALSE, chan[s].feed>> \in ever'[s]
      BY <2>1, <1>2
    <3> QED BY <3>2, <3>3 DEF Asks
  <2>2. CASE s \notin I
    BY <2>2 DEF Sender, QueueOK
  <2> QED BY <2>1, <2>2
<1>6. QueueOK(ever', o, a)
  <2>1. o \in Seq(I) /\ o \in Seq(Stream)
    <3>1. o \in Seq(I)
      BY <1>3, ListedOnce
    <3>2. o \in [1..Len(o) -> I] /\ Len(o) \in Nat
      BY <3>1, LenProperties
    <3>3. o \in [1..Len(o) -> Stream]
      BY <3>2, <1>3
    <3> HIDE DEF o, I
    <3> QED BY <3>1, <3>2, <3>3, IsASeq
  <2>2. \A i \in DOMAIN o : o[i] \in I
    <3> HIDE DEF o, I
    <3> QED BY <2>1, ElementOfSeq, LenProperties
  <2>3. a \in [Stream -> Ask]
    BY <1>5
  <2> HIDE DEF a, o, I
  <2> QED BY <1>3, <1>5, <2>1, <2>2, <2>3 DEF QueueOK
<1>7. CycleOK(ever', proc')
  <2>1. CycleOK(ever', NoCycle)
    BY DEF CycleOK
  <2> HIDE DEF a, o
  <2> QED BY <1>1, <1>6, <2>1, ProcessKeeps
<1>8. ChanOK'
  BY <1>1 DEF Sender, ChanOK
<1> HIDE DEF a, o, w, I
<1> QED BY <1>1, <1>4, <1>6, <1>7, <1>8, SenderFrom DEF Sender

-----------------------------------------------------------------------------
(* The panel: every write of a record is as good as the records it comes   *)
(* from and the wish it carries out.                                       *)

\* One record replaced, the wishes being what they were.
Puts(s, rec) == RecOK(ever, s, rec) /\ catalog' = [catalog EXCEPT ![s] = rec]

\* What a step may do to the catalog: nothing, or put one good record.
CatalogStep == catalog' = catalog \/ \E s \in Stream, rec \in Rec : Puts(s, rec)

LEMMA PutKeeps ==
  ASSUME Keeper, NEW s \in Stream, NEW rec \in Rec, Puts(s, rec)
  PROVE  catalog' \in [Stream -> Rec] /\ \A t \in Stream : RecOK(ever, t, catalog'[t])
BY DEF Keeper, Puts

LEMMA CatalogKeeps ==
  ASSUME Keeper, CatalogStep
  PROVE  catalog' \in [Stream -> Rec] /\ \A t \in Stream : RecOK(ever, t, catalog'[t])
<1>1. CASE catalog' = catalog
  BY <1>1 DEF Keeper
<1>2. ASSUME NEW s \in Stream, NEW rec \in Rec, Puts(s, rec)
      PROVE catalog' \in [Stream -> Rec] /\ \A t \in Stream : RecOK(ever, t, catalog'[t])
  BY <1>2, PutKeeps
<1> QED BY <1>1, <1>2 DEF CatalogStep

LEMMA NoRecordIsGood ==
  ASSUME NEW s
  PROVE  NoRecord \in Rec /\ RecOK(ever, s, NoRecord)
BY DEF Rec, RecOK, NoRecord, Exists

\* The record a register makes of the one it found shows its wish.
LEMMA RegisteredIsGood ==
  ASSUME NEW s \in Stream, NEW rec, RecOK(ever, s, rec), NEW ask, Asks(ever, s, ask)
  PROVE  /\ RegisterRecord(rec, ask) \in Rec
         /\ RecOK(ever, s, RegisterRecord(rec, ask))
<1> DEFINE new == RegisterRecord(rec, ask)
<1>1. /\ ask.live \in BOOLEAN /\ ask.feed \in 1..MaxFeed
      /\ <<ask.live, ask.feed>> \in ever[s]
  BY DEF Asks, Ask
<1>2. rec.blobs \in 0..MaxFeed /\ rec.title \in {0, 1} /\ rec.blobs \in {0, rec.feed}
  BY BoundsAssumption DEF RecOK, Rec, Record, NoRecord
<1>3. KeptBlobs(rec, ask) \in {0, ask.feed} /\ KeptBlobs(rec, ask) \in 0..MaxFeed
  BY <1>1, <1>2, BoundsAssumption DEF KeptBlobs
<1>4. new = [live |-> ask.live, feed |-> ask.feed, blobs |-> KeptBlobs(rec, ask), title |-> rec.title]
  BY DEF RegisterRecord
<1>5. new \in Record
  BY <1>1, <1>2, <1>3, <1>4 DEF Record
<1>6. new.live = ask.live /\ new.feed = ask.feed /\ new.blobs = KeptBlobs(rec, ask)
  BY <1>4
<1> HIDE DEF new
<1>7. new \in Rec /\ RecOK(ever, s, new)
  BY <1>1, <1>3, <1>5, <1>6 DEF RecOK, Rec
<1> QED BY <1>7 DEF new

\* A responder's own entry replaced by a good one.
LEMMA RespKeeps ==
  ASSUME Keeper, NEW c \in Conn, NEW r, RespOK(ever, r), resp' = [resp EXCEPT ![c] = r]
  PROVE  resp' = [d \in Conn |-> resp'[d]] /\ \A d \in Conn : RespOK(ever, resp'[d])
BY DEF Keeper

LEMMA JobKeeps ==
  ASSUME Keeper, NEW s \in Stream, NEW j, JobOK(ever, s, j), enr' = [enr EXCEPT ![s] = j]
  PROVE  enr' = [t \in Stream |-> enr'[t]] /\ \A t \in Stream : JobOK(ever, t, enr'[t])
BY DEF Keeper

\* A job that is not about to put is good if it has the shape of one.
LEMMA JobShape ==
  ASSUME NEW s, NEW pc \in JobPcs \ {"put"}, NEW rec \in Rec, NEW n \in Nat
  PROVE  JobOK(ever, s, Job(pc, rec, n))
BY DEF JobOK, Job

LEMMA NewJobs ==
  ASSUME NEW s
  PROVE  JobOK(ever, s, NoJob) /\ JobOK(ever, s, NewJob)
BY NoRecordIsGood, JobShape DEF NoJob, NewJob, JobPcs

LEMMA EnqueueKeeps ==
  ASSUME Keeper, NEW s \in Stream, Enqueue(s)
  PROVE  enr' = [t \in Stream |-> enr'[t]] /\ \A t \in Stream : JobOK(ever, t, enr'[t])
<1> DEFINE j == IF enr[s].pc \in {"none", "sleep"} THEN NewJob ELSE Job(enr[s].pc, enr[s].rec, 0)
<1>1. enr' = [enr EXCEPT ![s] = j]
  BY DEF Enqueue, Keeper
<1>2. JobOK(ever, s, Job(enr[s].pc, enr[s].rec, 0))
  BY DEF Keeper, JobOK, Job
<1>3. JobOK(ever, s, j)
  BY <1>2, NewJobs
<1> HIDE DEF j
<1> QED BY <1>1, <1>3, JobKeeps

\* The panel's part from its pieces.
LEMMA KeeperFrom ==
  ASSUME Keeper, ever' = ever, CatalogStep,
         resp' = [c \in Conn |-> resp'[c]] /\ \A c \in Conn : RespOK(ever, resp'[c]),
         enr' = [s \in Stream |-> enr'[s]] /\ \A s \in Stream : JobOK(ever, s, enr'[s]),
         AdmOK(ever, adm')
  PROVE  Keeper'
BY CatalogKeeps DEF Keeper

\* One step of the panel: it wishes for nothing and keeps everything good.
PanelKept == Keeper' /\ ever' = ever /\ CatalogStep

LEMMA RegisterKeeps ==
  ASSUME Sender, Keeper, NEW c \in Conn,
         RegisterArrives(c) \/ Unchanged(c) \/ RegisterReads(c) \/ RegisterPuts(c)
  PROVE  PanelKept /\ WireOK(ever, wire')
<1> USE DEF PanelKept
<1> DEFINE r == resp[c]
<1>0. RespOK(ever, r) /\ RespOK(ever, NoResp) /\ AdmOK(ever, adm) /\ WireOK(ever, wire)
  BY DEF Sender, Keeper, RespOK
<1>r. ASSUME NEW s, NEW res, Reply(c, s, res) PROVE WireOK(ever, wire')
  BY <1>r, <1>0 DEF Reply, WireOK
<1>1. CASE RegisterArrives(c)
  <2>1. /\ ever' = ever /\ UNCHANGED <<catalog, enr, adm>>
        /\ wire.s \in Stream /\ Asks(ever, wire.s, wire.ask)
    BY <1>1, <1>0 DEF RegisterArrives, WireOK
  <2> DEFINE new == [pc |-> "read", s |-> wire.s, ask |-> wire.ask, rec |-> NoRecord]
  <2>2. RespOK(ever, new)
    BY <2>1, NoRecordIsGood DEF RespOK, Asks
  <2>3. \/ resp' = resp /\ \E res : Reply(c, wire.s, res)
        \/ resp' = [resp EXCEPT ![c] = new] /\ wire' = [kind |-> "served"]
    BY <1>1 DEF RegisterArrives
  <2>4. WireOK(ever, wire')
    BY <2>3, <1>r DEF WireOK
  <2>5. resp' = [d \in Conn |-> resp'[d]] /\ \A d \in Conn : RespOK(ever, resp'[d])
    <3>1. CASE resp' = resp
      BY <3>1 DEF Keeper
    <3>2. CASE resp' = [resp EXCEPT ![c] = new]
      <4> HIDE DEF new
      <4> QED BY <3>2, <2>2, RespKeeps
    <3> QED BY <2>3, <3>1, <3>2
  <2>6. enr' = [s \in Stream |-> enr'[s]] /\ \A s \in Stream : JobOK(ever, s, enr'[s])
    BY <2>1 DEF Keeper
  <2>7. CatalogStep
    BY <2>1 DEF CatalogStep
  <2> HIDE DEF new
  <2> QED BY <1>0, <2>1, <2>4, <2>5, <2>6, <2>7, KeeperFrom
<1>2. CASE Unchanged(c)
  <2>1. /\ ever' = ever /\ UNCHANGED <<catalog, adm>> /\ Enqueue(r.s)
        /\ resp' = [resp EXCEPT ![c] = NoResp] /\ Reply(c, r.s, "ok")
    BY <1>2 DEF Unchanged, QueueUnwritten
  <2>2. r.s \in Stream
    BY <1>2, <1>0 DEF Unchanged, RespOK, NoResp
  <2>3. CatalogStep
    BY <2>1 DEF CatalogStep
  <2> QED BY <1>0, <1>r, <2>1, <2>2, <2>3, RespKeeps, EnqueueKeeps, KeeperFrom
<1>3. CASE RegisterReads(c)
  <2> DEFINE new == [pc |-> "put", s |-> r.s, ask |-> r.ask, rec |-> catalog[r.s]]
  <2>1. /\ ever' = ever /\ UNCHANGED <<catalog, enr, adm, wire>>
        /\ resp' = [resp EXCEPT ![c] = new]
    BY <1>3 DEF RegisterReads
  <2>2. r.s \in Stream /\ r.ask \in Ask /\ Asks(ever, r.s, r.ask)
    BY <1>3, <1>0 DEF RegisterReads, RespOK, NoResp
  <2>3. RespOK(ever, new)
    BY <2>2 DEF RespOK, Keeper
  <2>4. CatalogStep
    BY <2>1 DEF CatalogStep
  <2>5. enr' = [s \in Stream |-> enr'[s]] /\ \A s \in Stream : JobOK(ever, s, enr'[s])
    BY <2>1 DEF Keeper
  <2> HIDE DEF new
  <2> QED BY <1>0, <2>1, <2>3, <2>4, <2>5, RespKeeps, KeeperFrom
<1>4. CASE RegisterPuts(c)
  <2> DEFINE new == RegisterRecord(r.rec, r.ask)
  <2>1. /\ ever' = ever /\ adm' = adm /\ Enqueue(r.s) /\ Reply(c, r.s, "ok")
        /\ resp' = [resp EXCEPT ![c] = NoResp] /\ catalog' = [catalog EXCEPT ![r.s] = new]
    BY <1>4 DEF RegisterPuts
  <2>2. r.s \in Stream /\ Asks(ever, r.s, r.ask) /\ RecOK(ever, r.s, r.rec)
    BY <1>4, <1>0 DEF RegisterPuts, RespOK, NoResp
  <2>3. new \in Rec /\ RecOK(ever, r.s, new)
    BY <2>2, RegisteredIsGood
  <2>4. CatalogStep
    BY <2>1, <2>2, <2>3 DEF CatalogStep, Puts
  <2> HIDE DEF new
  <2> QED BY <1>0, <1>r, <2>1, <2>2, <2>4, RespKeeps, EnqueueKeeps, KeeperFrom
<1> QED BY <1>1, <1>2, <1>3, <1>4

LEMMA EnrichKeeps ==
  ASSUME Keeper, NEW s \in Stream, EnrichStep(s) \/ ProbeFails(s)
  PROVE  PanelKept /\ UNCHANGED <<chan, order, asked, proc, wire>>
<1> USE DEF PanelKept
<1> DEFINE j == enr[s]
<1>0. /\ j.pc \in JobPcs /\ j.rec \in Rec /\ j.tries \in Nat
      /\ JobOK(ever, s, j) /\ catalog[s] \in Rec /\ RecOK(ever, s, catalog[s])
  BY DEF Keeper, JobOK
<1>1. ASSUME NEW k, JobOK(ever, s, k), enr' = [enr EXCEPT ![s] = k], CatalogStep,
             UNCHANGED <<resp, adm, ever>>
      PROVE  PanelKept
  <2>1. enr' = [t \in Stream |-> enr'[t]] /\ \A t \in Stream : JobOK(ever, t, enr'[t])
    BY <1>1, JobKeeps
  <2>2. resp' = [c \in Conn |-> resp'[c]] /\ \A c \in Conn : RespOK(ever, resp'[c])
    BY <1>1 DEF Keeper
  <2>3. AdmOK(ever, adm')
    BY <1>1 DEF Keeper
  <2> QED BY <1>1, <2>1, <2>2, <2>3, KeeperFrom
<1>2. ASSUME NEW pc \in JobPcs \ {"put"}, NEW rec \in Rec, NEW n \in Nat
      PROVE  JobOK(ever, s, Job(pc, rec, n))
  BY JobShape
<1>3. j.tries + 1 \in Nat /\ JobOK(ever, s, Failed(j)) /\ JobOK(ever, s, NoJob)
  BY <1>0, <1>2, NewJobs DEF Failed, JobPcs
<1>c. catalog' = catalog => CatalogStep
  BY DEF CatalogStep
<1>4. CASE EnrichLooks(s)
  <2>1. JobOK(ever, s, Job("looked", catalog[s], j.tries))
    BY <1>0, <1>2 DEF JobPcs
  <2> QED BY <1>4, <1>1, <1>c, <2>1 DEF EnrichLooks, Keeper, bcast
<1>5. CASE EnrichJudges(s)
  <2> DEFINE k == IF NothingToDo(j.rec, s) THEN NoJob ELSE Job("probe", j.rec, j.tries)
  <2>1. JobOK(ever, s, k)
    BY <1>0, <1>2, <1>3 DEF JobPcs
  <2>2. enr' = [enr EXCEPT ![s] = k]
    BY <1>5 DEF EnrichJudges, Keeper
  <2> HIDE DEF k
  <2> QED BY <1>5, <1>1, <1>c, <2>1, <2>2 DEF EnrichJudges, bcast
<1>6. CASE ProbeAnswers(s)
  <2>1. JobOK(ever, s, Job("check", j.rec, j.tries))
    BY <1>0, <1>2 DEF JobPcs
  <2> QED BY <1>6, <1>1, <1>c, <2>1 DEF ProbeAnswers, Keeper, bcast
<1>7. CASE EnrichChecks(s)
  <2> DEFINE cat == catalog[s]
             rec == [cat EXCEPT !.blobs = j.rec.feed]
             k   == IF ~Exists(cat) \/ ~SameFeed(cat, j.rec.feed) THEN Failed(j)
                    ELSE IF cat.blobs # 0 THEN NoJob ELSE Job("put", rec, j.tries)
  <2>1. enr' = [enr EXCEPT ![s] = k]
    BY <1>7 DEF EnrichChecks, Keeper
  <2>2. ASSUME Exists(cat), SameFeed(cat, j.rec.feed) PROVE JobOK(ever, s, Job("put", rec, j.tries))
    <3>1. cat \in Record
      BY <1>0, <2>2 DEF Rec, NoRecord, Exists
    <3>2. j.rec.feed = cat.feed /\ cat.feed \in 1..MaxFeed
      BY <2>2, <3>1 DEF SameFeed, Record
    <3>3. rec \in Record /\ rec.blobs = cat.feed /\ rec.feed = cat.feed /\ rec.live = cat.live
      BY <3>1, <3>2, BoundsAssumption DEF Record
    <3>4. RecOK(ever, s, rec)
      BY <1>0, <2>2, <3>3 DEF RecOK, Rec, Exists
    <3>5. rec \in Rec
      BY <3>3 DEF Rec
    <3> HIDE DEF rec
    <3> QED BY <1>0, <3>4, <3>5 DEF JobOK, Job, JobPcs
  <2>3. JobOK(ever, s, k)
    BY <1>3, <2>2
  <2> HIDE DEF k
  <2> QED BY <1>7, <1>1, <1>c, <2>1, <2>3 DEF EnrichChecks, bcast
<1>8. CASE EnrichPuts(s)
  <2>1. RecOK(ever, s, j.rec)
    BY <1>8, <1>0 DEF EnrichPuts, JobOK
  <2>2. CatalogStep
    BY <1>8, <1>0, <2>1 DEF EnrichPuts, CatalogStep, Puts
  <2> QED BY <1>8, <1>1, <1>3, <2>2 DEF EnrichPuts, bcast
<1>9. CASE EnrichWakes(s)
  <2> DEFINE k == IF j.tries < MaxAttempts THEN Job("look", j.rec, j.tries) ELSE NoJob
  <2>1. JobOK(ever, s, k)
    BY <1>0, <1>2, <1>3 DEF JobPcs
  <2>2. enr' = [enr EXCEPT ![s] = k]
    BY <1>9 DEF EnrichWakes, Keeper
  <2> HIDE DEF k
  <2> QED BY <1>9, <1>1, <1>c, <2>1, <2>2 DEF EnrichWakes, bcast
<1>10. CASE ProbeFails(s)
  <2>1. enr' = [enr EXCEPT ![s] = Failed(j)]
    BY <1>10 DEF ProbeFails, Keeper
  <2> QED BY <1>10, <1>1, <1>3, <1>c, <2>1 DEF ProbeFails, bcast
<1> QED BY <1>4, <1>5, <1>6, <1>7, <1>8, <1>9, <1>10 DEF EnrichStep

LEMMA OperatorKeeps ==
  ASSUME Keeper,
         \/ SetMetaPuts \/ DeleteStreams
         \/ \E s \in Stream : EditScope(s) \/ \E op \in AdminOps : AdminReads(s, op)
  PROVE  PanelKept /\ UNCHANGED <<chan, order, asked, proc, wire>>
<1> USE DEF PanelKept
<1>1. ASSUME AdmOK(ever, adm'), CatalogStep, UNCHANGED <<resp, enr, ever>>
      PROVE  PanelKept
  <2>1. resp' = [c \in Conn |-> resp'[c]] /\ \A c \in Conn : RespOK(ever, resp'[c])
    BY <1>1 DEF Keeper
  <2>2. enr' = [s \in Stream |-> enr'[s]] /\ \A s \in Stream : JobOK(ever, s, enr'[s])
    BY <1>1 DEF Keeper
  <2> QED BY <1>1, <2>1, <2>2, KeeperFrom
<1>c. catalog' = catalog => CatalogStep
  BY DEF CatalogStep
<1>a. AdmOK(ever, NoAdmin) /\ AdmOK(ever, adm)
  BY DEF AdmOK, Keeper
<1>2. ASSUME NEW s \in Stream, NEW op \in AdminOps, AdminReads(s, op)
      PROVE  PanelKept /\ UNCHANGED <<chan, order, asked, proc, wire>>
  <2> DEFINE a == [pc |-> op, s |-> s, rec |-> catalog[s]]
  <2>1. op \in {"title", "delete"} /\ adm' = a
    BY <1>2, SwitchAssumption DEF AdminReads
  <2>2. catalog[s] \in Record /\ RecOK(ever, s, catalog[s])
    BY <1>2 DEF AdminReads, Keeper, Rec, Exists, NoRecord
  <2>3. AdmOK(ever, a)
    BY <2>1, <2>2 DEF AdmOK
  <2> HIDE DEF a
  <2> QED BY <1>2, <1>1, <1>c, <2>1, <2>3 DEF AdminReads, bcast
<1>3. ASSUME NEW s \in Stream, EditScope(s)
      PROVE  PanelKept /\ UNCHANGED <<chan, order, asked, proc, wire>>
  BY <1>3, <1>1, <1>a, <1>c DEF EditScope, bcast
<1>4. CASE SetMetaPuts
  <2> DEFINE rec == [adm.rec EXCEPT !.title = 1 - @]
  <2>1. adm.s \in Stream /\ adm.rec \in Record /\ RecOK(ever, adm.s, adm.rec)
    BY <1>4, <1>a DEF SetMetaPuts, AdmOK, NoAdmin
  <2>2. /\ rec \in Record
        /\ rec.live = adm.rec.live /\ rec.feed = adm.rec.feed /\ rec.blobs = adm.rec.blobs
    BY <2>1 DEF Record
  <2>3. catalog' = [catalog EXCEPT ![adm.s] = rec]
    BY <1>4 DEF SetMetaPuts
  <2> HIDE DEF rec
  <2>4. rec \in Rec /\ RecOK(ever, adm.s, rec)
    BY <2>1, <2>2 DEF RecOK, Rec, Exists
  <2>5. CatalogStep
    BY <2>1, <2>3, <2>4 DEF CatalogStep, Puts
  <2> QED BY <1>4, <1>1, <1>a, <2>5 DEF SetMetaPuts, bcast
<1>5. CASE DeleteStreams
  <2>1. adm \in [pc : {"title", "delete", "forget"}, s : Stream, rec : Record] /\ RecOK(ever, adm.s, adm.rec)
    BY <1>5, <1>a DEF DeleteStreams, AdmOK, NoAdmin
  <2>2. adm' = [adm EXCEPT !.pc = "forget"] \/ adm' = NoAdmin
    BY <1>5 DEF DeleteStreams
  <2>3. AdmOK(ever, adm')
    BY <1>a, <2>1, <2>2 DEF AdmOK
  <2>4. CatalogStep
    BY <1>5, <2>1, NoRecordIsGood DEF DeleteStreams, CatalogStep, Puts
  <2> QED BY <1>5, <1>1, <2>3, <2>4 DEF DeleteStreams, bcast
<1> QED BY <1>2, <1>3, <1>4, <1>5

\* A panel that comes back has forgotten its requests; its records are there.
LEMMA PanelCrashKeeps ==
  ASSUME Inv, PanelCrash
  PROVE  Inv' /\ PanelKept
<1>1. Sender' /\ ever' = ever
  <2>1. CASE link = Off
    BY <2>1 DEF PanelCrash, Inv, Sender, bcast, ChanOK
  <2>2. CASE link # Off
    BY <2>2, LinkLostKeeps DEF PanelCrash, Inv
  <2> QED BY <2>1, <2>2
<1> DEFINE E == [s \in Stream |-> IF NothingToDo(catalog[s], s) THEN NoJob ELSE NewJob]
<1>2. /\ resp' = [c \in Conn |-> NoResp] /\ adm' = NoAdmin /\ catalog' = catalog
      /\ enr' = E
  BY DEF PanelCrash
<1>3. \A s \in Stream : JobOK(ever, s, E[s])
  BY NewJobs
<1>4. enr' = [s \in Stream |-> enr'[s]] /\ \A s \in Stream : JobOK(ever, s, enr'[s])
  BY <1>2, <1>3
<1>5. resp' = [c \in Conn |-> resp'[c]] /\ \A c \in Conn : RespOK(ever, resp'[c])
  BY <1>2 DEF RespOK
<1>6. CatalogStep /\ AdmOK(ever, adm')
  BY <1>2 DEF CatalogStep, AdmOK
<1> QED BY <1>1, <1>4, <1>5, <1>6, KeeperFrom DEF Inv, PanelKept

-----------------------------------------------------------------------------
(* The theorems. *)

LEMMA InitInv == Init => Inv
<1> SUFFICES ASSUME Init PROVE Inv
  OBVIOUS
<1> USE DEF Init
<1>1. ChanOK /\ EverOK(ever)
  BY BoundsAssumption DEF ChanOK, EverOK
<1>2. QueueOK(ever, order, asked)
  <2>1. <<>> \in Seq(Stream) /\ DOMAIN <<>> = {}
    BY EmptySeq
  <2>2. NoAsk \in Ask
    BY BoundsAssumption DEF NoAsk, Wish, Ask
  <2> QED BY <2>1, <2>2 DEF QueueOK
<1>3. Sender
  BY <1>1, <1>2 DEF Sender, CycleOK, WireOK, Quiet
<1>4. Keeper
  BY NoRecordIsGood, NewJobs DEF Keeper, RespOK, AdmOK
<1> QED BY <1>3, <1>4 DEF Inv

\* A step either wishes, and leaves the catalog alone, or puts one record.
Published ==
  /\ Grows(ever, ever') /\ (ever' = ever \/ catalog' = catalog)
  /\ CatalogStep

LEMMA NextKeeps ==
  ASSUME Inv, [Next]_vars
  PROVE  Inv' /\ Published
<1> USE DEF Inv
<1>1. ASSUME Sender', Grows(ever, ever'), UNCHANGED <<resp, catalog, enr, adm>>
      PROVE  Inv' /\ Published
  BY <1>1, KeeperGrow DEF Published, CatalogStep
<1>2. ASSUME PanelKept, WireOK(ever, wire'), UNCHANGED <<chan, order, asked, proc>>
      PROVE  Inv' /\ Published
  <2>1. Sender'
    BY <1>2 DEF PanelKept, Sender, ChanOK
  <2> QED BY <1>2, <2>1, NothingWished DEF PanelKept, Published
<1>3. CASE LinkStep \/ Heartbeat \/ \E c \in Conn : Connect(c)
  <2>1. Sender' /\ ever' = ever
    BY <1>3, LinkKeeps
  <2>2. UNCHANGED <<resp, catalog, enr, adm>>
    BY <1>3 DEF LinkStep, Heartbeat, Connect, RetryTimer, Answered, Hello, panel
  <2> QED BY <1>1, <2>1, <2>2, NothingWished
<1>4. ASSUME NEW s \in Stream, Channel(s) \/ Resume(s) PROVE Inv' /\ Published
  <2>1. UNCHANGED <<resp, catalog, enr, adm>>
    BY <1>4 DEF Channel, Start, Stop, Rotate, Resume, panel
  <2> QED BY <1>1, <1>4, <2>1, ChannelKeeps
<1>5. CASE PanelStep
  <2>1. ASSUME NEW c \in Conn, RegisterArrives(c) \/ Unchanged(c) \/ RegisterReads(c) \/ RegisterPuts(c)
        PROVE  Inv' /\ Published
    <3>1. UNCHANGED <<chan, order, asked, proc>>
      BY <2>1 DEF RegisterArrives, Unchanged, RegisterReads, RegisterPuts, bcast
    <3> QED BY <1>2, <2>1, <3>1, RegisterKeeps
  <2>2. CASE SetMetaPuts \/ DeleteStreams
    BY <1>2, <2>2, OperatorKeeps DEF Sender
  <2> QED BY <1>5, <2>1, <2>2 DEF PanelStep
<1>6. ASSUME NEW s \in Stream, EnrichStep(s) \/ ProbeFails(s) PROVE Inv' /\ Published
  BY <1>2, <1>6, EnrichKeeps DEF Sender
<1>7. ASSUME NEW s \in Stream, EditScope(s) \/ \E op \in AdminOps : AdminReads(s, op)
      PROVE  Inv' /\ Published
  BY <1>2, <1>7, OperatorKeeps DEF Sender
<1>8. CASE Drop
  BY <1>1, <1>8, LinkLostKeeps, NothingWished DEF Drop, panel
<1>9. CASE PanelCrash
  BY <1>9, PanelCrashKeeps, NothingWished DEF PanelKept, Published
<1>10. CASE Shutdown
  BY <1>1, <1>10, ShutdownKeeps DEF Shutdown, panel
<1>11. CASE Exit \/ Crash
  BY <1>1, <1>11, EndsKeeps, NothingWished DEF Exit, Crash, Ends, panel
<1>12. CASE Boot
  BY <1>1, <1>12, BootKeeps DEF Boot, panel
<1>13. CASE UNCHANGED vars
  <2>1. Sender' /\ ever' = ever
    BY <1>13 DEF vars, bcast, Sender, ChanOK
  <2>2. UNCHANGED <<resp, catalog, enr, adm>>
    BY <1>13 DEF vars, panel
  <2> QED BY <1>1, <2>1, <2>2, NothingWished
<1> QED BY <1>3, <1>4, <1>5, <1>6, <1>7, <1>8, <1>9, <1>10, <1>11, <1>12, <1>13 DEF Next

\* The blobs key the catalog gives for a feed is that feed's, however the
\* enricher, registers, the operator, rotations and crashes interleave.
THEOREM BlobsKeySafety == Spec => []BlobsKeyBesideItsFeed
<1>1. Inv => BlobsKeyBesideItsFeed
  BY DEF Inv, Keeper, RecOK, BlobsKeyBesideItsFeed
<1>2. Inv /\ [Next]_vars => Inv'
  BY NextKeeps
<1> QED BY <1>1, <1>2, InitInv, PTL DEF Spec

\* The abstract state a record maps to.
Shows(rec) == IF Exists(rec) THEN <<rec.live, rec.feed>> ELSE <<>>

LEMMA PutIsShown ==
  ASSUME Inv, Inv', ever' = ever, CatalogStep
  PROVE  [Publication!Next]_(Publication!vars)
<1> DEFINE shown == [s \in Stream |-> Shows(catalog[s])]
<1>1. CASE catalog' = catalog
  BY <1>1 DEF Publication!vars
<1>2. ASSUME NEW s \in Stream, NEW rec \in Rec, Puts(s, rec)
      PROVE  [Publication!Next]_(Publication!vars)
  <2>1. [t \in Stream |-> Shows(catalog'[t])] = [shown EXCEPT ![s] = Shows(rec)]
    BY <1>2 DEF Puts, Inv, Keeper
  <2>2. CASE Exists(rec)
    <3>1. Shows(rec) \in ever[s]
      BY <1>2, <2>2 DEF Puts, RecOK, Shows
    <3>2. Publication!Show(s)
      BY <2>1, <3>1 DEF Publication!Show, Shows
    <3> QED BY <3>2 DEF Publication!Next
  <2>3. CASE ~Exists(rec)
    <3>1. Publication!Hide(s)
      BY <2>1, <2>3 DEF Publication!Hide, Publication!Nothing, Shows
    <3> QED BY <3>1 DEF Publication!Next
  <2> QED BY <2>2, <2>3
<1> QED BY <1>1, <1>2 DEF CatalogStep

\* The catalog implements its abstract specification: every step of the
\* broadcaster, the panel, the enricher, the operator or a fault is a wish,
\* the showing of one wish as a whole, or nothing a viewer can see.
THEOREM CatalogRefinement == Spec => PublicationSpec
<1>1. Init => Publication!Init
  BY DEF Init, Publication!Init, Publication!Nothing, Exists, NoRecord
<1>2. Inv /\ Inv' /\ [Next]_vars => [Publication!Next]_(Publication!vars)
  <2> SUFFICES ASSUME Inv, Inv', [Next]_vars PROVE [Publication!Next]_(Publication!vars)
    OBVIOUS
  <2>1. Published
    BY NextKeeps
  <2>2. CASE ever' = ever
    BY <2>1, <2>2, PutIsShown DEF Published
  <2>3. CASE catalog' = catalog
    <3>1. Publication!Wish
      BY <2>1, <2>3 DEF Publication!Wish, Published, Grows, Inv, Sender, EverOK, State
    <3> QED BY <3>1 DEF Publication!Next
  <2> QED BY <2>1, <2>2, <2>3 DEF Published
<1>3. Inv /\ [Next]_vars => Inv'
  BY NextKeeps
<1> QED BY <1>1, <1>2, <1>3, InitInv, PTL DEF Spec, PublicationSpec, Publication!Spec

-----------------------------------------------------------------------------
(* What is reported as registered was written: the answer on the wire is   *)
(* of the cycle in flight, and the cycle is current only while its ask is  *)
(* the stream's.                                                           *)

\* An answer is on the wire, and a responder at work on the connection in
\* use, only for the cycle in flight.
Paired ==
  /\ wire.kind # "none" => proc.pc = "register"
  /\ wire.kind = "register" => wire.s = proc.s /\ wire.ask = proc.ask
  /\ wire.kind = "reply" /\ wire.res = "ok" => landed[proc.s] >= proc.ask.ver
  /\ \A c \in Conn : link = c /\ resp[c].pc # "none" =>
       /\ wire.kind = "served" /\ resp[c].s = proc.s /\ resp[c].ask = proc.ask

CurrentIsAsked == proc.pc # "idle" /\ proc.current => proc.ask = asked[proc.s]

Links ==
  /\ link \in Conn \cup {Off}
  /\ link = Off => proc.pc = "idle"
  /\ up = "down" => link = Off /\ \A s \in Stream : ~acked[s]

Counted == landed \in [Stream -> Nat] /\ acked \in [Stream -> BOOLEAN] /\ pending \in [Stream -> BOOLEAN]

Track == Paired /\ CurrentIsAsked /\ Links /\ Counted /\ RegisteredIsWritten

\* What _process leaves: the cycle there was, or a new one on a connection.
LEMMA ProcessStarts ==
  ASSUME NEW o, NEW a, NEW p, NEW l, NEW t, NEW cycle, Process(o, a, p, l, t, cycle)
  PROVE  \/ proc' = cycle
         \/ /\ cycle.pc = "idle" /\ l # Off
            /\ proc'.pc = "hello" /\ proc'.ask = a[proc'.s]
BY DEF Process

\* A step of the broadcaster that sends and receives nothing.
LEMMA QueueTracks ==
  ASSUME Inv, Track, NEW S \in SUBSET Stream, NEW p \in [Stream -> BOOLEAN],
         \A s \in S : p[s], \A s \in Stream \ S : p[s] = pending[s] /\ asked'[s] = asked[s],
         pending' = p, Process(order', asked', p, link, timer, Overtaken(S)) \/ proc' = Overtaken(S),
         UNCHANGED <<link, acked, wire, resp, landed>>, up' = "down" => up = "down"
  PROVE  Track'
<1>1. proc = NoCycle \/ proc \in Cycle
  BY DEF Inv, Sender, CycleOK
<1>2. /\ Overtaken(S).pc = proc.pc
      /\ proc.pc # "idle" => Overtaken(S).s = proc.s /\ Overtaken(S).ask = proc.ask
      /\ proc.pc # "idle" /\ Overtaken(S).current => proc.current /\ proc.s \notin S
  BY <1>1 DEF Overtaken, Cycle, NoCycle
<1>3. \/ proc' = Overtaken(S)
      \/ /\ proc.pc = "idle" /\ link # Off
         /\ proc'.pc = "hello" /\ proc'.ask = asked'[proc'.s]
  BY <1>2, ProcessStarts
<1> HIDE DEF Track
<1>4. Paired'
  BY <1>2, <1>3 DEF Track, Paired
<1>5. CurrentIsAsked'
  <2>1. CASE proc' = Overtaken(S)
    <3>1. proc.pc # "idle" => proc.s \in Stream
      BY <1>1 DEF Cycle, NoCycle
    <3> QED BY <2>1, <3>1, <1>2 DEF Track, CurrentIsAsked
  <2>2. CASE proc' # Overtaken(S)
    BY <2>2, <1>3 DEF CurrentIsAsked
  <2> QED BY <2>1, <2>2
<1>6. Links'
  BY <1>2, <1>3 DEF Track, Links
<1>7. RegisteredIsWritten'
  BY DEF Track, Counted, RegisteredIsWritten, IsRegistered
<1> QED BY <1>4, <1>5, <1>6, <1>7 DEF Track, Counted

LEMMA ChannelTracks ==
  ASSUME Inv, Track, NEW s \in Stream, Channel(s) \/ Resume(s)
  PROVE  Track'
<1>1. UNCHANGED <<wire, resp, landed>>
  BY DEF Channel, Start, Stop, Rotate, Resume, panel
<1>2. PICK live, feed : SetDesired(s, live, feed)
  BY DEF Channel, Start, Stop, Rotate, Resume
<1> DEFINE p == [pending EXCEPT ![s] = TRUE]
<1>3. /\ pending' = p /\ Process(order', asked', p, link, timer, Overtaken({s}))
      /\ UNCHANGED <<link, acked, up>> /\ \A t \in Stream \ {s} : asked'[t] = asked[t]
  BY <1>2 DEF SetDesired, Inv, Sender, QueueOK
<1>4. p \in [Stream -> BOOLEAN] /\ p[s] /\ \A t \in Stream \ {s} : p[t] = pending[t]
  BY DEF Track, Counted
<1> HIDE DEF p
<1> QED BY <1>1, <1>3, <1>4, QueueTracks

LEMMA ShutdownTracks ==
  ASSUME Inv, Track, Shutdown
  PROVE  Track'
<1> DEFINE R == {s \in Stream : chan[s].running}
           p == [s \in Stream |-> pending[s] \/ s \in R]
<1>1. /\ UNCHANGED <<wire, resp, landed, link, acked>> /\ up' = "closing" /\ pending' = p
      /\ Process(order', asked', p, link, timer, Overtaken(R))
  BY DEF Shutdown, panel
<1>2. \A s \in Stream \ R : asked'[s] = asked[s]
  BY DEF Shutdown
<1>3. p \in [Stream -> BOOLEAN] /\ (\A s \in R : p[s]) /\ \A s \in Stream \ R : p[s] = pending[s]
  BY DEF Track, Counted
<1>4. R \in SUBSET Stream
  OBVIOUS
<1> HIDE DEF R, p
<1> QED BY <1>1, <1>2, <1>3, <1>4, QueueTracks

LEMMA HeartbeatTracks ==
  ASSUME Inv, Track, Heartbeat
  PROVE  Track'
<1> DEFINE p == [s \in Stream |-> pending[s] \/ s \in Reasserted]
<1>1. /\ UNCHANGED <<wire, resp, landed, link, acked, up, order, asked>> /\ pending' = p
      /\ Process(order', asked', p, link, timer, Overtaken(Reasserted))
  BY DEF Heartbeat, panel
<1>2. Reasserted \in SUBSET Stream
  BY ElementOfSeq, LenProperties DEF Reasserted, Listed, Inv, Sender, QueueOK
<1>3. p \in [Stream -> BOOLEAN] /\ (\A s \in Reasserted : p[s])
      /\ \A s \in Stream \ Reasserted : p[s] = pending[s]
  BY <1>2 DEF Track, Counted
<1> HIDE DEF p
<1> QED BY <1>1, <1>2, <1>3, QueueTracks

LEMMA LinkLostTracks ==
  ASSUME Track, LinkLost, landed' = landed, resp' = resp \/ resp' = [c \in Conn |-> NoResp]
  PROVE  Track'
BY OffAssumption DEF Track, Paired, CurrentIsAsked, Links, Counted, RegisteredIsWritten, IsRegistered,
     LinkLost, NoCycle, Quiet

LEMMA LinkTracks ==
  ASSUME Inv, Track, LinkStep \/ \E c \in Conn : Connect(c)
  PROVE  Track'
<1>0. proc = NoCycle \/ proc \in Cycle
  BY DEF Inv, Sender, CycleOK
<1>1. ASSUME NEW c \in Conn, Connect(c) PROVE Track'
  <2>1. proc.pc = "idle" /\ wire.kind = "none" /\ resp[c].pc = "none" /\ link' = c
    BY <1>1 DEF Connect, Track, Links, Paired
  <2>2. proc' = proc \/ (proc'.pc = "hello" /\ proc'.ask = asked[proc'.s])
    BY <1>1, ProcessStarts DEF Connect
  <2> QED BY <1>1, <2>1, <2>2, OffAssumption
        DEF Connect, Track, Paired, CurrentIsAsked, Links, Counted, RegisteredIsWritten, IsRegistered
<1>2. CASE RetryTimer
  <2>1. /\ proc' = proc \/ (proc.pc = "idle" /\ link # Off /\ proc'.pc = "hello" /\ proc'.ask = asked[proc'.s])
        /\ UNCHANGED <<up, link, asked, pending, acked, wire, resp, landed>>
    BY <1>2, ProcessStarts DEF RetryTimer, panel
  <2> QED BY <2>1 DEF Track, Paired, CurrentIsAsked, Links, Counted, RegisteredIsWritten, IsRegistered
<1>3. ASSUME NEW c \in Conn, Hello(c) PROVE Track'
  <2>1. /\ proc.pc = "hello" /\ link = c /\ wire' = [kind |-> "register", s |-> proc.s, ask |-> proc.ask]
        /\ proc' = [proc EXCEPT !.pc = "register"]
        /\ UNCHANGED <<up, link, asked, pending, acked, resp, landed>>
    BY <1>3 DEF Hello
  <2>2. /\ proc'.pc = "register" /\ proc'.s = proc.s /\ proc'.ask = proc.ask /\ proc'.current = proc.current
    BY <1>0, <2>1 DEF Cycle, NoCycle
  <2>3. resp[c].pc = "none"
    BY <2>1 DEF Track, Paired
  <2> QED BY <2>1, <2>2, <2>3, OffAssumption
        DEF Track, Paired, CurrentIsAsked, Links, Counted, RegisteredIsWritten, IsRegistered
<1>4. CASE Answered
  <2> DEFINE s == proc.s
             ok == wire.res = "ok" \/ Terminal(wire.res)
  <2>1. /\ proc.pc = "register" /\ wire.kind = "reply" /\ wire' = Quiet
        /\ UNCHANGED <<up, link, asked, resp, landed>>
    BY <1>4 DEF Answered, panel
  <2>2. s \in Stream /\ proc.current \in BOOLEAN /\ proc.ask.live \in BOOLEAN
    BY <1>0, <2>1 DEF Cycle, NoCycle, Ask
  <2>3. /\ proc' = NoCycle \/ (link # Off /\ proc'.pc = "hello" /\ proc'.ask = asked[proc'.s])
        /\ \/ UNCHANGED <<pending, acked>>
           \/ /\ pending' = [pending EXCEPT ![s] = StillPending(proc)]
              /\ acked' = [acked EXCEPT ![s] = wire.res = "ok" /\ proc.ask.live]
    BY <1>4, ProcessStarts DEF Answered
  <2>4. Paired' /\ CurrentIsAsked'
    <3>1. \A c \in Conn : link = c => resp[c].pc = "none"
      BY <2>1 DEF Track, Paired
    <3> QED BY <2>1, <2>3, <3>1 DEF Paired, CurrentIsAsked, NoCycle, Quiet
  <2>5. Counted'
    BY <2>1, <2>2, <2>3 DEF Track, Counted, StillPending
  <2>6. link # Off /\ up # "down"
    BY <2>1 DEF Track, Links
  <2>7. Links'
    BY <2>1, <2>3, <2>6 DEF Track, Links, NoCycle
  <2>8. ASSUME NEW t \in Stream, acked'[t], ~pending'[t] PROVE landed[t] >= asked[t].ver
    <3>1. CASE acked'[t] = acked[t] /\ pending'[t] = pending[t]
      BY <2>8, <3>1 DEF Track, RegisteredIsWritten, IsRegistered
    <3>2. CASE ~(acked'[t] = acked[t] /\ pending'[t] = pending[t])
      <4>1. t = s /\ pending' = [pending EXCEPT ![s] = StillPending(proc)]
            /\ acked' = [acked EXCEPT ![s] = wire.res = "ok" /\ proc.ask.live]
        BY <2>3, <3>2 DEF Track, Counted
      <4>2. proc.current /\ wire.res = "ok"
        BY <2>2, <2>8, <4>1 DEF Track, Counted, StillPending
      <4> QED BY <2>1, <4>1, <4>2 DEF Track, Paired, CurrentIsAsked
    <3> QED BY <3>1, <3>2
  <2> QED BY <2>1, <2>4, <2>5, <2>7, <2>8 DEF Track, RegisteredIsWritten, IsRegistered
<1> QED BY <1>1, <1>2, <1>3, <1>4 DEF LinkStep

LEMMA EndsTrack ==
  ASSUME Track, Exit \/ Crash
  PROVE  Track'
<1>1. /\ link' = Off /\ wire' = Quiet /\ proc' = NoCycle /\ UNCHANGED <<resp, landed>>
      /\ pending' = [s \in Stream |-> FALSE] /\ acked' = [s \in Stream |-> FALSE]
  BY DEF Exit, Crash, Ends, panel
<1>2. Paired' /\ CurrentIsAsked' /\ Links'
  BY <1>1, OffAssumption DEF Paired, CurrentIsAsked, Links, NoCycle, Quiet
<1> QED BY <1>1, <1>2 DEF Track, Counted, RegisteredIsWritten, IsRegistered

LEMMA BootTracks ==
  ASSUME Track, Boot
  PROVE  Track'
<1> DEFINE p == [s \in Stream |-> s \in {t \in Stream : ~chan[t].wanted}]
<1>1. /\ up = "down" /\ link = Off /\ \A s \in Stream : ~acked[s]
      /\ wire.kind = "none" /\ proc.pc = "idle"
  BY DEF Boot, Track, Links, Paired
<1>2. /\ UNCHANGED <<link, acked, wire, resp, landed>> /\ pending' = p /\ up' = "up"
      /\ Process(order', asked', p, Off, {}, NoCycle)
  BY DEF Boot, panel
<1>3. proc' = NoCycle
  BY <1>2, ProcessStarts
<1>4. p \in [Stream -> BOOLEAN]
  OBVIOUS
<1> HIDE DEF p
<1>5. Paired' /\ CurrentIsAsked' /\ Links'
  BY <1>1, <1>2, <1>3, OffAssumption DEF Paired, CurrentIsAsked, Links, NoCycle
<1> QED BY <1>1, <1>2, <1>4, <1>5 DEF Track, Counted, RegisteredIsWritten, IsRegistered

\* A step of the panel that answers nobody.
LEMMA SilentTracks ==
  ASSUME Track, UNCHANGED <<bcast, wire, resp, landed>>
  PROVE  Track'
BY DEF Track, Paired, CurrentIsAsked, Links, Counted, RegisteredIsWritten, IsRegistered, bcast

\* What landed stays landed.
LEMMA NewestGrows ==
  ASSUME NEW s \in Stream, NEW ver \in Nat, landed \in [Stream -> Nat], Newest(s, ver)
  PROVE  /\ landed' \in [Stream -> Nat] /\ landed'[s] >= ver
         /\ \A t \in Stream : landed'[t] >= landed[t]
BY DEF Newest

LEMMA RegisterTracks ==
  ASSUME Inv, Track, NEW c \in Conn,
         RegisterArrives(c) \/ Unchanged(c) \/ RegisterReads(c) \/ RegisterPuts(c)
  PROVE  Track'
<1>1. resp = [d \in Conn |-> resp[d]] /\ RespOK(ever, resp[c])
  BY DEF Inv, Keeper
<1>2. proc = NoCycle \/ proc \in Cycle
  BY DEF Inv, Sender, CycleOK
<1>3. CASE RegisterArrives(c)
  <2>1. /\ link = c /\ wire.kind = "register" /\ UNCHANGED <<bcast, landed>>
        /\ \/ /\ wire' = [kind |-> "reply", s |-> wire.s, res |-> Refusal(wire.s, c)]
              /\ Refusal(wire.s, c) # "ok" /\ resp' = resp
           \/ /\ wire' = [kind |-> "served"]
              /\ resp' = [resp EXCEPT ![c] = [pc |-> "read", s |-> wire.s, ask |-> wire.ask, rec |-> NoRecord]]
    BY <1>3 DEF RegisterArrives, Reply
  <2>2. proc.pc = "register" /\ wire.s = proc.s /\ wire.ask = proc.ask
    BY <2>1 DEF Track, Paired
  <2>3. resp[c].pc = "none"
    BY <2>1 DEF Track, Paired
  <2>4. Paired'
    <3>1. CASE resp' = resp
      BY <2>1, <2>2, <2>3, <3>1 DEF Paired, bcast
    <3>2. CASE resp' # resp
      BY <1>1, <2>1, <2>2, <3>2 DEF Paired, bcast
    <3> QED BY <3>1, <3>2
  <2> QED BY <2>1, <2>4 DEF Track, CurrentIsAsked, Links, Counted, RegisteredIsWritten, IsRegistered, bcast
<1>4. CASE RegisterReads(c)
  <2>1. /\ UNCHANGED <<bcast, wire, landed>> /\ resp[c].pc = "read"
        /\ resp' = [resp EXCEPT ![c] = [pc |-> "put", s |-> resp[c].s, ask |-> resp[c].ask, rec |-> catalog[resp[c].s]]]
    BY <1>4 DEF RegisterReads
  <2>2. Paired'
    BY <1>1, <2>1 DEF Track, Paired, bcast
  <2> QED BY <2>1, <2>2 DEF Track, CurrentIsAsked, Links, Counted, RegisteredIsWritten, IsRegistered, bcast
<1>5. CASE Unchanged(c) \/ RegisterPuts(c)
  <2> DEFINE r == resp[c]
  <2>1. /\ UNCHANGED bcast /\ r.pc # "none" /\ resp' = [resp EXCEPT ![c] = NoResp]
        /\ Newest(r.s, r.ask.ver) /\ Reply(c, r.s, "ok")
    BY <1>5 DEF Unchanged, RegisterPuts
  <2>2. r.s \in Stream /\ r.ask.ver \in Nat
    BY <1>1, <2>1 DEF RespOK, Asks, Ask, NoResp
  <2>3. /\ landed' \in [Stream -> Nat] /\ landed'[r.s] >= r.ask.ver
        /\ \A t \in Stream : landed'[t] >= landed[t]
    BY <2>1, <2>2, NewestGrows DEF Track, Counted
  <2>4. ASSUME link = c PROVE Paired'
    <3>1. wire' = [kind |-> "reply", s |-> r.s, res |-> "ok"]
      BY <2>1, <2>4 DEF Reply
    <3>2. proc.pc = "register" /\ r.s = proc.s /\ r.ask = proc.ask
      BY <2>1, <2>4 DEF Track, Paired
    <3>3. resp'[c].pc = "none"
      BY <1>1, <2>1 DEF NoResp
    <3> HIDE DEF r
    <3> QED BY <2>1, <2>3, <2>4, <3>1, <3>2, <3>3 DEF Paired, bcast
  <2>5. ASSUME link # c PROVE Paired'
    <3>1. wire' = wire /\ \A d \in Conn \ {c} : resp'[d] = resp[d]
      BY <1>1, <2>1, <2>5 DEF Reply
    <3>2. wire.kind # "none" => proc.s \in Stream /\ proc.ask.ver \in Nat
      BY <1>2 DEF Track, Paired, Cycle, NoCycle, Ask
    <3>3. wire.kind = "reply" /\ wire.res = "ok" => landed'[proc.s] >= proc.ask.ver
      BY <2>3, <3>2 DEF Track, Paired, Counted
    <3> HIDE DEF r
    <3> QED BY <2>1, <2>5, <3>1, <3>3 DEF Track, Paired, bcast
  <2>6. RegisteredIsWritten'
    <3>1. \A s \in Stream : asked[s].ver \in Nat
      BY DEF Inv, Sender, QueueOK, Ask
    <3> HIDE DEF r
    <3> QED BY <2>1, <2>3, <3>1 DEF Track, Counted, RegisteredIsWritten, IsRegistered, bcast
  <2> HIDE DEF r
  <2>7. Paired'
    BY <2>4, <2>5
  <2> QED BY <2>1, <2>3, <2>6, <2>7 DEF Track, CurrentIsAsked, Links, Counted, bcast
<1> QED BY <1>3, <1>4, <1>5

LEMMA InitTrack == Init => Track
BY OffAssumption DEF Init, Track, Paired, CurrentIsAsked, Links, Counted, RegisteredIsWritten, IsRegistered,
     NoCycle, Quiet, NoResp

LEMMA NextTracks ==
  ASSUME Inv, Track, [Next]_vars
  PROVE  Track'
<1>1. CASE LinkStep \/ \E c \in Conn : Connect(c)
  BY <1>1, LinkTracks
<1>2. CASE Heartbeat
  BY <1>2, HeartbeatTracks
<1>3. ASSUME NEW s \in Stream, Channel(s) \/ Resume(s) PROVE Track'
  BY <1>3, ChannelTracks
<1>4. CASE PanelStep
  <2>1. ASSUME NEW c \in Conn, RegisterArrives(c) \/ Unchanged(c) \/ RegisterReads(c) \/ RegisterPuts(c)
        PROVE  Track'
    BY <2>1, RegisterTracks
  <2>2. CASE SetMetaPuts \/ DeleteStreams
    BY <2>2, SilentTracks DEF SetMetaPuts, DeleteStreams
  <2> QED BY <1>4, <2>1, <2>2 DEF PanelStep
<1>5. ASSUME NEW s \in Stream, EnrichStep(s) \/ ProbeFails(s) PROVE Track'
  BY <1>5, SilentTracks DEF EnrichStep, EnrichLooks, EnrichJudges, ProbeAnswers, EnrichChecks, EnrichPuts,
       EnrichWakes, ProbeFails
<1>6. ASSUME NEW s \in Stream, EditScope(s) \/ \E op \in AdminOps : AdminReads(s, op) PROVE Track'
  BY <1>6, SilentTracks DEF EditScope, AdminReads
<1>7. CASE Drop
  BY <1>7, LinkLostTracks DEF Drop, panel
<1>8. CASE PanelCrash
  <2>1. landed' = landed /\ resp' = [c \in Conn |-> NoResp]
    BY <1>8 DEF PanelCrash
  <2>2. CASE LinkLost
    BY <2>1, <2>2, LinkLostTracks
  <2>3. CASE link = Off /\ UNCHANGED <<bcast, wire>>
    BY <2>1, <2>3, OffAssumption
      DEF Track, Paired, CurrentIsAsked, Links, Counted, RegisteredIsWritten, IsRegistered, bcast
  <2> QED BY <1>8, <2>2, <2>3 DEF PanelCrash
<1>9. CASE Shutdown
  BY <1>9, ShutdownTracks
<1>10. CASE Exit \/ Crash
  BY <1>10, EndsTrack
<1>11. CASE Boot
  BY <1>11, BootTracks
<1>12. CASE UNCHANGED vars
  BY <1>12, SilentTracks DEF vars, panel
<1> QED BY <1>1, <1>2, <1>3, <1>4, <1>5, <1>6, <1>7, <1>8, <1>9, <1>10, <1>11, <1>12 DEF Next

\* A stream that status reports as registered was written, or found written, by
\* the panel in the state wished for now, whatever was lost or overtaken on the
\* way (_process and status of panel-link.js, the register responder of rpc.js).
THEOREM RegisteredSafety == Spec => []RegisteredIsWritten
<1>1. Inv /\ Track /\ [Next]_vars => (Inv /\ Track)'
  BY NextKeeps, NextTracks
<1>2. Inv /\ Track => RegisteredIsWritten
  BY DEF Track
<1> QED BY <1>1, <1>2, InitInv, InitTrack, PTL DEF Spec

-----------------------------------------------------------------------------
(* Types, and with them what the queue relies on: it has a stream once,    *)
(* what waits is in it, and a cycle in flight is of a stream that waits.   *)

Lined ==
  /\ IsInjective(order)
  /\ \A s \in Stream : pending[s] => s \in Listed
  /\ proc.pc # "idle" => pending[proc.s]
  /\ \A s \in Stream : chan[s].running => s \in Listed /\ up # "down"
  /\ timer \subseteq {"retry", "relookup"} /\ up \in {"up", "closing", "down"}
  /\ secret \in [Stream -> BOOLEAN] /\ scope \subseteq Stream

\* The next cycle is of a stream that waits.
LEMMA ProcessPends ==
  ASSUME NEW o \in Seq(Stream), NEW a, NEW p, NEW l, NEW t, NEW cycle,
         cycle.pc # "idle" => p[cycle.s], Process(o, a, p, l, t, cycle)
  PROVE  /\ proc'.pc # "idle" => p[proc'.s]
         /\ timer' \subseteq t \cup {"relookup"}
<1>1. timer' \subseteq t \cup {"relookup"}
  BY DEF Process
<1>2. CASE cycle.pc # "idle" \/ ~Waiting(o, p) \/ l = Off
  BY <1>1, <1>2 DEF Process
<1>3. CASE ~(cycle.pc # "idle" \/ ~Waiting(o, p) \/ l = Off)
  <2>1. p[FirstPending(o, p)]
    BY <1>3, FirstIsListed
  <2>2. proc'.s = FirstPending(o, p)
    BY <1>3 DEF Process
  <2> QED BY <1>1, <2>1, <2>2
<1> QED BY <1>2, <1>3

\* A stream that asks is put at the end of the queue unless it is there.
LEMMA OnceIsOnce ==
  ASSUME order \in Seq(Stream), IsInjective(order), NEW s \in Stream
  PROVE  /\ IsInjective(Once(s))
         /\ {Once(s)[i] : i \in DOMAIN Once(s)} = Listed \cup {s}
<1>1. CASE s \in Listed
  BY <1>1 DEF Once, Listed
<1>2. CASE s \notin Listed
  <2>1. Once(s) = Append(order, s)
    BY <1>2 DEF Once
  <2>2. /\ Append(order, s) \in Seq(Stream) /\ Len(Append(order, s)) = Len(order) + 1
        /\ \A i \in 1..Len(order) : Append(order, s)[i] = order[i]
        /\ Append(order, s)[Len(order) + 1] = s
    BY AppendProperties
  <2>3. DOMAIN Append(order, s) = 1..(Len(order) + 1) /\ DOMAIN order = 1..Len(order) /\ Len(order) \in Nat
    BY <2>2, LenProperties
  <2>4. \A i \in DOMAIN order : order[i] # s
    BY <1>2 DEF Listed
  <2>5. IsInjective(Once(s))
    BY <2>1, <2>2, <2>3, <2>4 DEF IsInjective
  <2>6. {Once(s)[i] : i \in DOMAIN Once(s)} = Listed \cup {s}
    BY <2>1, <2>2, <2>3 DEF Listed
  <2> QED BY <2>5, <2>6
<1> QED BY <1>1, <1>2

\* A step of the broadcaster that asks for something and loses no ask.
LEMMA QueueLines ==
  ASSUME Inv, Lined, NEW S \in SUBSET Stream, NEW p,
         pending' = p, \A s \in S : p[s], \A s \in Stream : pending[s] => p[s],
         \A s \in Stream : p[s] => s \in Listed', IsInjective(order'), order' \in Seq(Stream),
         Process(order', asked', p, link, timer, Overtaken(S)),
         \A s \in Stream : chan'[s].running => s \in Listed' /\ up' # "down",
         up' \in {"up", "closing", "down"}, UNCHANGED <<secret, scope>>
  PROVE  Lined'
<1>1. proc = NoCycle \/ proc \in Cycle
  BY DEF Inv, Sender, CycleOK
<1>2. Overtaken(S).pc # "idle" => p[Overtaken(S).s]
  BY <1>1 DEF Overtaken, Cycle, NoCycle, Lined
<1>3. (proc'.pc # "idle" => p[proc'.s]) /\ timer' \subseteq timer \cup {"relookup"}
  BY <1>2, ProcessPends
<1> QED BY <1>3 DEF Lined

LEMMA WishLines ==
  ASSUME Inv, Counted, Lined, (\E s \in Stream : Channel(s) \/ Resume(s)) \/ Heartbeat \/ Shutdown
  PROVE  Lined'
<1>q. order \in Seq(Stream) /\ Listed \subseteq Stream
  <2>1. order \in Seq(Stream)
    BY DEF Inv, Sender, QueueOK
  <2> QED BY <2>1, ElementOfSeq, LenProperties DEF Listed
<1>1. ASSUME NEW s \in Stream, Channel(s) \/ Resume(s) PROVE Lined'
  <2> DEFINE p == [pending EXCEPT ![s] = TRUE]
  <2>1. PICK live, feed : SetDesired(s, live, feed)
    BY <1>1 DEF Channel, Start, Stop, Rotate, Resume
  <2>2. /\ order' = Once(s) /\ pending' = p /\ up' = up /\ UNCHANGED <<secret, scope>>
        /\ Process(order', asked', p, link, timer, Overtaken({s}))
    BY <1>1, <2>1 DEF SetDesired, Channel, Start, Stop, Rotate, Resume, panel
  <2>3. p[s] /\ \A t \in Stream : pending[t] => p[t]
    BY DEF Counted
  <2>4. \A t \in Stream : p[t] => pending[t] \/ t = s
    BY DEF Counted
  <2> HIDE DEF p
  <2>5. up # "down" /\ \A t \in Stream : chan'[t].running => chan[t].running \/ t = s
    <3>1. up = "up"
      BY <1>1 DEF Channel, Start, Stop, Rotate, Resume
    <3>2. \A t \in Stream \ {s} : chan'[t] = chan[t]
      BY <1>1 DEF Channel, Start, Stop, Rotate, Resume, Runs, Inv, Sender, ChanOK
    <3> QED BY <3>1, <3>2
  <2>6. IsInjective(order') /\ order' \in Seq(Stream) /\ Listed' = Listed \cup {s}
    <3>1. Listed' = {Once(s)[i] : i \in DOMAIN Once(s)}
      BY <2>2 DEF Listed
    <3>2. IsInjective(order)
      BY DEF Lined
    <3> QED BY <1>q, <2>2, <3>1, <3>2, OnceIsOnce, OnceIsQueue
  <2> QED BY <2>2, <2>3, <2>4, <2>5, <2>6, QueueLines DEF Lined
<1>2. CASE Heartbeat
  <2> DEFINE p == [t \in Stream |-> pending[t] \/ t \in Reasserted]
  <2>1. /\ UNCHANGED <<order, asked, up, chan, secret, scope>> /\ pending' = p
        /\ Process(order', asked', p, link, timer, Overtaken(Reasserted))
    BY <1>2 DEF Heartbeat, panel
  <2>2. Reasserted \subseteq Listed /\ Listed' = Listed
    BY <2>1 DEF Reasserted, Listed
  <2>3. /\ \A t \in Reasserted : p[t]
        /\ \A t \in Stream : (pending[t] => p[t]) /\ (p[t] => t \in Listed')
    BY <1>q, <2>2 DEF Lined
  <2> HIDE DEF p
  <2> QED BY <1>q, <2>1, <2>2, <2>3, QueueLines DEF Lined
<1>3. CASE Shutdown
  <2> DEFINE R == {t \in Stream : chan[t].running}
             p == [t \in Stream |-> pending[t] \/ t \in R]
  <2>1. /\ UNCHANGED <<order, secret, scope>> /\ pending' = p /\ up' = "closing"
        /\ Process(order', asked', p, link, timer, Overtaken(R))
        /\ \A t \in Stream : ~chan'[t].running
    BY <1>3 DEF Shutdown, panel, Inv, Sender, ChanOK
  <2>2. R \subseteq Listed /\ Listed' = Listed
    BY <2>1 DEF Lined, Listed
  <2>3. /\ \A t \in R : p[t]
        /\ \A t \in Stream : (pending[t] => p[t]) /\ (p[t] => t \in Listed')
    BY <2>2 DEF Lined
  <2>4. R \in SUBSET Stream
    OBVIOUS
  <2> HIDE DEF p, R
  <2> QED BY <1>q, <2>1, <2>3, <2>4, QueueLines DEF Lined
<1> QED BY <1>1, <1>2, <1>3

LEMMA LinkLines ==
  ASSUME Inv, Counted, Lined, LinkStep \/ \E c \in Conn : Connect(c)
  PROVE  Lined'
<1>q. order \in Seq(Stream) /\ (proc = NoCycle \/ proc \in Cycle)
  BY DEF Inv, Sender, QueueOK, CycleOK
<1>o. order' = order /\ UNCHANGED <<chan, up, secret, scope>>
  BY DEF LinkStep, RetryTimer, Answered, Hello, Connect, panel
<1>1. ASSUME (proc'.pc # "idle" => pending'[proc'.s]) /\ timer' \subseteq timer \cup {"retry", "relookup"},
             \A s \in Stream : pending'[s] => pending[s]
      PROVE  Lined'
  BY <1>o, <1>1 DEF Lined, Listed
<1>2. ASSUME NEW c \in Conn, Connect(c) PROVE Lined'
  <2>1. /\ pending' = pending
        /\ Process(order, asked, pending, c, timer \ {"relookup"}, proc)
    BY <1>2 DEF Connect
  <2>2. (proc'.pc # "idle" => pending[proc'.s]) /\ timer' \subseteq timer \cup {"relookup"}
    BY <1>q, <2>1, ProcessPends DEF Lined
  <2> QED BY <1>1, <2>1, <2>2
<1>3. CASE RetryTimer
  <2>1. /\ pending' = pending
        /\ Process(order, asked, pending, link, timer \ {"retry"}, proc)
    BY <1>3 DEF RetryTimer
  <2>2. (proc'.pc # "idle" => pending[proc'.s]) /\ timer' \subseteq timer \cup {"relookup"}
    BY <1>q, <2>1, ProcessPends DEF Lined
  <2> QED BY <1>1, <2>1, <2>2
<1>4. ASSUME NEW c \in Conn, Hello(c) PROVE Lined'
  <2>1. proc.pc = "hello" /\ proc' = [proc EXCEPT !.pc = "register"] /\ UNCHANGED <<pending, timer>>
    BY <1>4 DEF Hello
  <2>2. proc'.s = proc.s /\ pending[proc.s]
    BY <1>q, <2>1 DEF Cycle, NoCycle, Lined
  <2> QED BY <1>1, <2>1, <2>2
<1>5. CASE Answered
  <2> DEFINE p == [pending EXCEPT ![proc.s] = StillPending(proc)]
  <2>1. \/ pending' = p /\ Process(order, asked, p, link, timer, NoCycle)
        \/ pending' = pending /\ proc' = NoCycle /\ timer' = timer \cup {"retry"}
    BY <1>5 DEF Answered
  <2>2. \A s \in Stream : p[s] => pending[s]
    <3>1. proc.pc = "register"
      BY <1>5 DEF Answered
    <3>2. pending[proc.s]
      BY <3>1 DEF Lined
    <3> QED BY <3>2 DEF Counted
  <2> HIDE DEF p
  <2>3. CASE pending' = p /\ Process(order, asked, p, link, timer, NoCycle)
    <3>1. (proc'.pc # "idle" => p[proc'.s]) /\ timer' \subseteq timer \cup {"relookup"}
      BY <1>q, <2>3, ProcessPends DEF NoCycle
    <3> QED BY <1>1, <2>2, <2>3, <3>1
  <2>4. CASE pending' = pending /\ proc' = NoCycle /\ timer' = timer \cup {"retry"}
    BY <1>1, <2>4 DEF NoCycle
  <2> QED BY <2>1, <2>3, <2>4
<1> QED BY <1>2, <1>3, <1>4, <1>5 DEF LinkStep

\* A boot lists every idle channel, once.
LEMMA BootOrder ==
  ASSUME NEW I \in SUBSET Stream
  PROVE  IsInjective(SetToSeq(I)) /\ I = {SetToSeq(I)[i] : i \in DOMAIN SetToSeq(I)}
<1> DEFINE n == Cardinality(I)
           o == SetToSeq(I)
<1>1. IsFiniteSet(I)
  BY StreamAssumption, FS_Subset
<1>2. n \in Nat /\ ExistsBijection(1..n, I)
  BY <1>1, FS_CardinalityType
<1>3. PICK f \in Bijection(1..n, I) : TRUE
  BY <1>2, Fun_ExistsBij
<1>4. f \in [1..n -> I] /\ IsInjective(f)
  BY <1>3 DEF Bijection, Injection, IsInjective
<1>5. o \in [1..n -> I] /\ IsInjective(o)
  BY <1>4 DEF SetToSeq
<1>6. Cardinality(1..n) = n
  BY <1>2, FS_Interval
<1> HIDE DEF n, o
<1>7. o \in Injection(1..n, I)
  BY <1>5 DEF Injection, IsInjective
<1>8. o \in Surjection(1..n, I)
  BY <1>1, <1>6, <1>7, FS_Injection DEF n
<1>9. I = {o[i] : i \in DOMAIN o}
  BY <1>5, <1>8 DEF Surjection
<1> QED BY <1>5, <1>9 DEF o

LEMMA BootLines ==
  ASSUME Inv, Lined, Boot
  PROVE  Lined'
<1> DEFINE I == {s \in Stream : ~chan[s].wanted}
           p == [s \in Stream |-> s \in I]
<1>1. /\ order' = SetToSeq(I) /\ pending' = p /\ up = "down" /\ up' = "up"
      /\ UNCHANGED <<chan, secret, scope>>
      /\ Process(order', asked', p, Off, {}, NoCycle)
  BY DEF Boot, panel
<1>2. IsInjective(order') /\ Listed' = I
  <2>1. I \in SUBSET Stream
    OBVIOUS
  <2> HIDE DEF I
  <2> QED BY <1>1, <2>1, BootOrder DEF Listed
<1>3. \A s \in Stream : pending'[s] => s \in Listed'
  BY <1>1, <1>2
<1>4. proc' = NoCycle /\ timer' \subseteq {"retry", "relookup"}
  BY <1>1 DEF Process, NoCycle
<1> QED BY <1>1, <1>2, <1>3, <1>4 DEF Lined, NoCycle

\* Losing the connection or the process ends the cycle in flight.
LEMMA EndLines ==
  ASSUME Inv, Lined, (LinkLost /\ UNCHANGED <<secret, scope>>) \/ Ends
  PROVE  Lined'
<1>1. CASE LinkLost /\ UNCHANGED <<secret, scope>>
  <2>1. proc' = NoCycle /\ timer' \subseteq timer \cup {"retry", "relookup"}
    BY <1>1 DEF LinkLost
  <2> QED BY <1>1, <2>1 DEF LinkLost, Lined, Listed, NoCycle
<1>2. CASE Ends
  <2>1. /\ order' = <<>> /\ proc' = NoCycle /\ timer' = {} /\ up' = "down"
        /\ UNCHANGED <<secret, scope>>
        /\ \A s \in Stream : ~pending'[s] /\ ~chan'[s].running
    BY <1>2 DEF Ends, panel, Inv, Sender, ChanOK
  <2>2. IsInjective(<<>>)
    BY EmptySeq DEF IsInjective
  <2> QED BY <2>1, <2>2 DEF Lined, NoCycle
<1> QED BY <1>1, <1>2

LEMMA NextLines ==
  ASSUME Inv, Counted, Lined, [Next]_vars
  PROVE  Lined'
<1>1. ASSUME UNCHANGED bcast, secret' \in [Stream -> BOOLEAN], scope' \subseteq Stream PROVE Lined'
  BY <1>1 DEF bcast, Lined, Listed
<1>2. CASE LinkStep \/ \E c \in Conn : Connect(c)
  BY <1>2, LinkLines
<1>3. CASE (\E s \in Stream : Channel(s) \/ Resume(s)) \/ Heartbeat \/ Shutdown
  BY <1>3, WishLines
<1>4. CASE PanelStep
  <2>1. UNCHANGED <<bcast, scope>>
    BY <1>4 DEF PanelStep, SetMetaPuts, DeleteStreams, RegisterArrives, Unchanged, RegisterReads, RegisterPuts
  <2>2. \/ secret' = secret
        \/ \E s \in Stream : \E b \in BOOLEAN : secret' = [secret EXCEPT ![s] = b]
    <3>1. CASE SetMetaPuts
      BY <3>1 DEF SetMetaPuts
    <3>2. CASE DeleteStreams
      <4>1. secret' = secret \/ (adm.pc = "forget" /\ secret' = [secret EXCEPT ![adm.s] = FALSE])
        BY <3>2 DEF DeleteStreams
      <4>2. adm.pc = "forget" => adm.s \in Stream
        BY DEF Inv, Keeper, AdmOK, NoAdmin
      <4> QED BY <4>1, <4>2
    <3>3. ASSUME NEW c \in Conn, RegisterArrives(c)
          PROVE  \/ secret' = secret
                 \/ \E s \in Stream : \E b \in BOOLEAN : secret' = [secret EXCEPT ![s] = b]
      <4>1. wire.kind = "register" /\ (secret' = secret \/ secret' = [secret EXCEPT ![wire.s] = @ \/ wire.ask.live])
        BY <3>3 DEF RegisterArrives
      <4>2. wire.s \in Stream /\ wire.ask.live \in BOOLEAN
        BY <4>1 DEF Inv, Sender, WireOK, Asks, Ask
      <4> QED BY <4>1, <4>2 DEF Lined
    <3>4. ASSUME NEW c \in Conn, Unchanged(c) \/ RegisterReads(c) \/ RegisterPuts(c) PROVE secret' = secret
      BY <3>4 DEF Unchanged, RegisterReads, RegisterPuts
    <3> QED BY <1>4, <3>1, <3>2, <3>3, <3>4 DEF PanelStep
  <2>3. secret' \in [Stream -> BOOLEAN] /\ scope' \subseteq Stream
    BY <2>1, <2>2 DEF Lined
  <2> QED BY <1>1, <2>1, <2>3
<1>5. ASSUME NEW s \in Stream, EnrichStep(s) \/ ProbeFails(s) \/ \E op \in AdminOps : AdminReads(s, op)
      PROVE  Lined'
  <2>1. UNCHANGED <<bcast, secret, scope>>
    BY <1>5 DEF EnrichStep, EnrichLooks, EnrichJudges, ProbeAnswers, EnrichChecks, EnrichPuts,
       EnrichWakes, ProbeFails, AdminReads
  <2> QED BY <1>1, <2>1 DEF Lined
<1>6. ASSUME NEW s \in Stream, EditScope(s) PROVE Lined'
  <2>1. UNCHANGED <<bcast, secret>> /\ scope' \subseteq scope \cup {s}
    BY <1>6 DEF EditScope
  <2> QED BY <1>1, <2>1 DEF Lined
<1>7. CASE Drop \/ PanelCrash
  <2>1. UNCHANGED <<secret, scope>> /\ (LinkLost \/ UNCHANGED bcast)
    BY <1>7 DEF Drop, PanelCrash, panel
  <2> QED BY <1>1, <2>1, EndLines DEF Lined
<1>8. CASE Exit \/ Crash
  BY <1>8, EndLines DEF Exit, Crash
<1>9. CASE Boot
  BY <1>9, BootLines
<1>10. CASE UNCHANGED vars
  BY <1>1, <1>10 DEF vars, panel, Lined
<1> QED BY <1>2, <1>3, <1>4, <1>5, <1>6, <1>7, <1>8, <1>9, <1>10 DEF Next

\* Every variable keeps its type, and no stream is in the queue twice, waits
\* outside it, or is delivered without waiting in it on a connection, through
\* any number of restarts, lost connections and wishes (_streams, _process of
\* panel-link.js).
THEOREM TypeInvariant == Spec => []TypeOK
<1>1. Init => Lined
  <2> SUFFICES ASSUME Init PROVE Lined
    OBVIOUS
  <2>1. IsInjective(<<>>)
    BY EmptySeq DEF IsInjective
  <2> QED BY <2>1, StreamAssumption DEF Init, Lined, NoCycle
<1>2. Inv /\ Track /\ Lined /\ [Next]_vars => (Inv /\ Track /\ Lined)'
  BY NextKeeps, NextTracks, NextLines DEF Track
<1>3. Inv /\ Track /\ Lined => TypeOK
  <2> SUFFICES ASSUME Inv, Track, Lined PROVE TypeOK
    OBVIOUS
  <2>1. order \in Seq(Stream)
    BY DEF Inv, Sender, QueueOK
  <2>2. Cardinality(Listed) = Len(order)
    <3>1. Len(order) \in Nat /\ DOMAIN order = 1..Len(order) /\ order \in [1..Len(order) -> Stream]
      BY <2>1, LenProperties
    <3>2. order \in Bijection(1..Len(order), Listed)
      BY <3>1 DEF Bijection, Injection, Surjection, IsInjective, Listed, Lined
    <3>3. IsFiniteSet(1..Len(order)) /\ Cardinality(1..Len(order)) = Len(order)
      BY <3>1, FS_Interval
    <3>4. ExistsBijection(1..Len(order), Listed)
      BY <3>2 DEF ExistsBijection
    <3> QED BY <3>3, <3>4, FS_Bijection
  <2>3. /\ proc.pc # "idle" => proc.pc \in {"hello", "register"} /\ link \in Conn /\ pending[proc.s]
        /\ link \in Conn \cup {Off}
    <3>1. proc = NoCycle \/ proc \in Cycle
      BY DEF Inv, Sender, CycleOK
    <3>2. proc.pc # "idle" => proc.pc \in {"hello", "register"}
      BY <3>1 DEF Cycle, NoCycle
    <3>3. link \in Conn \cup {Off} /\ (link = Off => proc.pc = "idle")
      BY DEF Track, Links
    <3> QED BY <3>2, <3>3 DEF Lined
  <2> QED BY <2>1, <2>2, <2>3
        DEF TypeOK, Inv, Sender, Keeper, ChanOK, QueueOK, Rec, Track, Counted, Lined
<1> QED BY <1>1, <1>2, <1>3, InitInv, InitTrack, PTL DEF Spec
=============================================================================
