------------------------- MODULE StreamRegistration -------------------------
(***************************************************************************)
(* How a stream gets into the catalog: the broadcaster's queue of          *)
(* registrations (broadcaster/src/panel-link.js), fed by its channels      *)
(* (channel.js), the panel's `register` responder (panel/src/rpc.js), and  *)
(* the two others that write the same records, the blobs-key enricher      *)
(* (panel/src/blobs-key.js) and the panel's operator (panel/src/ops.js).   *)
(*                                                                         *)
(* Sequence numbers of the queue are modelled by what is done with them: a *)
(* stream is pending while deliveredSeq < seq, and the cycle in flight is  *)
(* current while nobody has asked for anything since it was taken up.      *)
(***************************************************************************)
EXTENDS Naturals, FiniteSets, SequencesExt

CONSTANTS
  Stream,
  Conn,        \* connections to the panel; one is reused once it is closed and drained
  AdminOps,    \* what the panel's operator may do: subset of {"title", "delete", "scope"}
  Wanted,      \* the channels that are to run when the broadcaster first boots
  Scoped,      \* the streams in the scope of the publisher at first
  Faults,      \* subset of {"drop", "panelCrash", "crash", "probeFails"}
  MaxFeed,     \* bound: generations of a feed
  MaxOps,      \* bound: starts, stops and rotations
  MaxAdmin,    \* bound: operations of the panel's operator
  MaxFaults,   \* bound: faults
  MaxAttempts  \* attempts of the enricher before it parks

ASSUME BoundsAssumption ==
  MaxFeed \in Nat \ {0} /\ MaxOps \in Nat /\ MaxAdmin \in Nat /\ MaxFaults \in Nat
    /\ MaxAttempts \in Nat \ {0}
ASSUME StreamAssumption == IsFiniteSet(Stream) /\ Wanted \subseteq Stream /\ Scoped \subseteq Stream
ASSUME SwitchAssumption ==
  AdminOps \subseteq {"title", "delete", "scope"} /\ Faults \subseteq {"drop", "panelCrash", "crash", "probeFails"}

VARIABLES
  chan,      \* the channels: is it running, is it to run after a boot, its feed
  up,        \* is the broadcaster up
  order,     \* PanelLink._streams: the streams with a desired state, in Map order
  asked,     \* the desired state of each
  pending,   \* deliveredSeq < seq
  acked,     \* st.live
  proc,      \* the register cycle in flight
  link,      \* the connection to the panel, or Off
  timer,     \* which of the link's timers are armed
  held,      \* connections whose challenge is the one the last hello gave out
  wire,      \* what is under way on the connection
  resp,      \* the panel's register responders, one per connection
  catalog, secret, scope,  \* the panel's records, its secrets file, its publisher entry
  enr,       \* the enricher's jobs
  adm,       \* the operator's request in flight
  ops, admins, faults,     \* how much of each bound is used
  landed,    \* history: the newest desired state a responder wrote or found written
  ever       \* history: every pair of liveness and feed asked for

bcast == <<chan, up, order, asked, pending, acked, proc, link, timer>>
panel == <<held, resp, catalog, secret, scope, enr, adm>>
used  == <<ops, admins, faults>>
vars  == <<bcast, panel, wire, used, landed, ever>>

-----------------------------------------------------------------------------
(* Shapes. *)

Off == "off"
ASSUME OffAssumption == Off \notin Conn

Ask      == [live : BOOLEAN, feed : 1..MaxFeed, ver : Nat]
Wish(live, feed, ver) == [live |-> live, feed |-> feed, ver |-> ver]
NoAsk    == Wish(FALSE, 1, 0)
Record   == [live : BOOLEAN, feed : 1..MaxFeed, blobs : 0..MaxFeed, title : {0, 1}]
NoRecord == [live |-> FALSE, feed |-> 0, blobs |-> 0, title |-> 0]
Exists(r) == r.feed # 0

NoCycle == [pc |-> "idle"]
Quiet   == [kind |-> "none"]
NoResp  == [pc |-> "none"]
Job(pc, rec, tries) == [pc |-> pc, rec |-> rec, tries |-> tries]
NoJob   == Job("none", NoRecord, 0)
NewJob  == Job("look", NoRecord, 0)
NoAdmin == [pc |-> "none"]

Listed == {order[i] : i \in DOMAIN order}

-----------------------------------------------------------------------------
(* The queue of the broadcaster. *)

\* The first stream of the queue that is pending.
FirstPending(o, p) ==
  o[CHOOSE i \in DOMAIN o : p[o[i]] /\ \A j \in 1..(i - 1) : ~p[o[j]]]

Waiting(o, p) == \E i \in DOMAIN o : p[o[i]]

\* What _process does up to its first await: nothing while a cycle is in
\* flight, take up the first pending stream, or ask for a connection.
Process(o, a, p, l, t, cycle) ==
  /\ proc'  = IF cycle.pc # "idle" \/ ~Waiting(o, p) \/ l = Off THEN cycle
              ELSE LET s == FirstPending(o, p)
                   IN  [pc |-> "hello", s |-> s, ask |-> a[s], current |-> TRUE]
  /\ timer' = IF cycle.pc = "idle" /\ Waiting(o, p) /\ l = Off THEN t \cup {"relookup"} ELSE t

\* The cycle in flight, once somebody asked for something new of these streams.
Overtaken(S) == IF proc.pc # "idle" /\ proc.s \in S THEN [proc EXCEPT !.current = FALSE] ELSE proc

Once(s)   == IF s \in Listed THEN order ELSE Append(order, s)

\* The newest wish replaces the one before it.
SetDesired(s, live, feed) ==
  LET ask == Wish(live, feed, asked[s].ver + 1)
      o   == Once(s)
      a   == [asked EXCEPT ![s] = ask]
      p   == [pending EXCEPT ![s] = TRUE]
  IN  /\ order' = o /\ asked' = a /\ pending' = p
      /\ ever' = [ever EXCEPT ![s] = @ \cup {<<live, feed>>}]
      /\ Process(o, a, p, link, timer, Overtaken({s}))
      /\ UNCHANGED <<up, acked, link>>

\* What a finished cycle leaves of "pending": nothing newer was asked for.
Delivered(cycle)    == FALSE
StillPending(cycle) == ~cycle.current

\* Policy refuses this very payload: sending it again cannot succeed.
AlwaysRetried(res) == FALSE
Terminal(res)      == res \in {"revoked", "out-of-scope"}

-----------------------------------------------------------------------------
(* Channels. *)

CountOp == ops < MaxOps /\ ops' = ops + 1 /\ UNCHANGED <<admins, faults>>

Runs(s, f) == [chan EXCEPT ![s] = [running |-> TRUE, wanted |-> TRUE, feed |-> f]]

\* A start keeps the feed, or finds that the source was changed (or the store
\* spoilt) and comes up with the next generation.
Start(s) ==
  /\ up = "up" /\ ~chan[s].running /\ ~chan[s].wanted
  /\ CountOp
  /\ \E f \in {chan[s].feed, chan[s].feed + 1} \cap 1..MaxFeed :
       chan' = Runs(s, f) /\ SetDesired(s, TRUE, f)
  /\ UNCHANGED <<panel, wire, landed>>

\* The boot starts the channels that ran before.
Resume(s) ==
  /\ up = "up" /\ ~chan[s].running /\ chan[s].wanted
  /\ chan' = Runs(s, chan[s].feed)
  /\ SetDesired(s, TRUE, chan[s].feed)
  /\ UNCHANGED <<panel, wire, used, landed>>

Stop(s) ==
  /\ up = "up" /\ chan[s].running
  /\ CountOp
  /\ chan' = [chan EXCEPT ![s] = [running |-> FALSE, wanted |-> FALSE, feed |-> @.feed]]
  /\ SetDesired(s, FALSE, chan[s].feed)
  /\ UNCHANGED <<panel, wire, landed>>

Rotate(s) ==
  /\ up = "up" /\ chan[s].running /\ chan[s].feed < MaxFeed
  /\ CountOp
  /\ chan' = Runs(s, chan[s].feed + 1)
  /\ SetDesired(s, TRUE, chan[s].feed + 1)
  /\ UNCHANGED <<panel, wire, landed>>

-----------------------------------------------------------------------------
(* The link. *)

\* A lookup finds the panel, or the panel comes by itself. A lookup that finds
\* nothing is armed again: what is pending stays so while there is no link.
Connect(c) ==
  /\ up # "down" /\ link = Off /\ resp[c].pc = "none"
  /\ link' = c
  /\ held' = [held EXCEPT ![c] = FALSE]
  /\ Process(order, asked, pending, c, timer \ {"relookup"}, proc)
  /\ UNCHANGED <<chan, up, order, asked, pending, acked, wire,
                 resp, catalog, secret, scope, enr, adm, used, landed, ever>>

RetryTimer ==
  /\ "retry" \in timer
  /\ Process(order, asked, pending, link, timer \ {"retry"}, proc)
  /\ UNCHANGED <<chan, up, order, asked, pending, acked, link, panel, wire, used, landed, ever>>

\* Every five minutes: time enough for the queue to have drained.
Reasserted == {s \in Listed : asked[s].live}
Heartbeat ==
  /\ up # "down" /\ ~Waiting(order, pending) /\ Reasserted # {}
  /\ LET p == [s \in Stream |-> pending[s] \/ s \in Reasserted]
     IN  pending' = p /\ Process(order, asked, p, link, timer, Overtaken(Reasserted))
  /\ UNCHANGED <<chan, up, order, asked, acked, link, panel, wire, used, landed, ever>>

\* The connection answers hello; the payload, signed with its challenge, goes out.
Hello(c) ==
  /\ proc.pc = "hello" /\ link = c
  /\ proc' = [proc EXCEPT !.pc = "register"]
  /\ held' = [held EXCEPT ![c] = TRUE]
  /\ wire' = [kind |-> "register", s |-> proc.s, ask |-> proc.ask]
  /\ UNCHANGED <<chan, up, order, asked, pending, acked, link, timer,
                 resp, catalog, secret, scope, enr, adm, used, landed, ever>>

\* The answer of the responder ends the cycle, and the queue goes on.
Answered ==
  LET s == proc.s
      p == [pending EXCEPT ![s] = StillPending(proc)]
  IN  /\ proc.pc = "register" /\ wire.kind = "reply"
      /\ wire' = Quiet
      /\ IF wire.res = "ok" \/ Terminal(wire.res)
         THEN /\ pending' = p
              /\ acked' = [acked EXCEPT ![s] = wire.res = "ok" /\ proc.ask.live]
              /\ Process(order, asked, p, link, timer, NoCycle)
         ELSE /\ proc' = NoCycle /\ timer' = timer \cup {"retry"}
              /\ UNCHANGED <<pending, acked>>
      /\ UNCHANGED <<chan, up, order, asked, link, panel, used, landed, ever>>

\* What losing the connection does to the broadcaster.
LinkLost ==
  /\ link' = Off /\ wire' = Quiet /\ proc' = NoCycle
  /\ timer' = timer \cup (IF proc.pc # "idle" THEN {"retry"} ELSE {})
                    \cup (IF Waiting(order, pending) THEN {"relookup"} ELSE {})
  /\ UNCHANGED <<chan, up, order, asked, pending, acked>>

-----------------------------------------------------------------------------
(* The panel's register responder. *)

Refusal(s, c) ==
  IF ~held[c] THEN "unauthorized" ELSE IF s \notin scope THEN "out-of-scope" ELSE "ok"

Reply(c, s, res) == wire' = IF link = c THEN [kind |-> "reply", s |-> s, res |-> res] ELSE wire

\* A register rotates the challenge, whatever comes of it; what is accepted
\* stores its key before it looks at the record.
RegisterArrives(c) ==
  /\ link = c /\ wire.kind = "register" /\ resp[c].pc = "none"
  /\ held' = [held EXCEPT ![c] = FALSE]
  /\ IF Refusal(wire.s, c) # "ok"
     THEN Reply(c, wire.s, Refusal(wire.s, c)) /\ UNCHANGED <<resp, secret>>
     ELSE /\ resp' = [resp EXCEPT ![c] = [pc |-> "read", s |-> wire.s, ask |-> wire.ask, rec |-> NoRecord]]
          /\ secret' = [secret EXCEPT ![wire.s] = @ \/ wire.ask.live]
          /\ wire' = [kind |-> "served"]
  /\ UNCHANGED <<bcast, catalog, scope, enr, adm, used, landed, ever>>

\* The record a register makes of the one it found: the publisher owns
\* liveness and feed, the enricher the blobs key, the operator the rest.
KeptBlobs(rec, ask) == IF ask.feed = rec.feed THEN rec.blobs ELSE 0
FirstFeed(rec, ask) ==
  [live |-> ask.live, feed |-> IF Exists(rec) THEN rec.feed ELSE ask.feed, blobs |-> rec.blobs, title |-> rec.title]
RegisterRecord(rec, ask) ==
  [live |-> ask.live, feed |-> ask.feed, blobs |-> KeptBlobs(rec, ask), title |-> rec.title]

\* Queue the stream for the enricher: a new job, or a fresh budget for the one
\* there is, which wakes up if it sleeps.
Enqueue(s) ==
  enr' = [enr EXCEPT ![s] =
            IF @.pc \in {"none", "sleep"} THEN NewJob ELSE Job(@.pc, @.rec, 0)]

Newest(s, ver) == landed' = [landed EXCEPT ![s] = IF ver > @ THEN ver ELSE @]

NotQueued(s)      == UNCHANGED enr
QueueUnwritten(s) == Enqueue(s)

\* Nothing to write: the record already says so. The stream is queued all the same.
Unchanged(c) ==
  LET r == resp[c] IN
  /\ r.pc = "read" /\ RegisterRecord(catalog[r.s], r.ask) = catalog[r.s]
  /\ QueueUnwritten(r.s) /\ Newest(r.s, r.ask.ver)
  /\ resp' = [resp EXCEPT ![c] = NoResp]
  /\ Reply(c, r.s, "ok")
  /\ UNCHANGED <<bcast, held, catalog, secret, scope, adm, used, ever>>

RegisterReads(c) ==
  LET r == resp[c] IN
  /\ r.pc = "read" /\ RegisterRecord(catalog[r.s], r.ask) # catalog[r.s]
  /\ resp' = [resp EXCEPT ![c] = [pc |-> "put", s |-> r.s, ask |-> r.ask, rec |-> catalog[r.s]]]
  /\ UNCHANGED <<bcast, held, catalog, secret, scope, enr, adm, wire, used, landed, ever>>

RegisterPuts(c) ==
  LET r == resp[c] IN
  /\ r.pc = "put"
  /\ catalog' = [catalog EXCEPT ![r.s] = RegisterRecord(r.rec, r.ask)]
  /\ Enqueue(r.s) /\ Newest(r.s, r.ask.ver)
  /\ resp' = [resp EXCEPT ![c] = NoResp]
  /\ Reply(c, r.s, "ok")
  /\ UNCHANGED <<bcast, held, secret, scope, adm, used, ever>>

-----------------------------------------------------------------------------
(* The enricher: one job per stream. *)

\* The record the job read, before it goes on with it.
EnrichLooks(s) ==
  /\ enr[s].pc = "look"
  /\ enr' = [enr EXCEPT ![s] = Job("looked", catalog[s], @.tries)]
  /\ UNCHANGED <<bcast, held, resp, catalog, secret, scope, adm, wire, used, landed, ever>>

NothingToDo(rec, s) == ~Exists(rec) \/ rec.blobs # 0 \/ ~secret[s]

EnrichJudges(s) ==
  /\ enr[s].pc = "looked"
  /\ enr' = [enr EXCEPT ![s] = IF NothingToDo(@.rec, s) THEN NoJob ELSE Job("probe", @.rec, @.tries)]
  /\ UNCHANGED <<bcast, held, resp, catalog, secret, scope, adm, wire, used, landed, ever>>

\* A failed attempt counts, and the job sleeps whatever is left of its budget.
Failed(job) == Job("sleep", job.rec, job.tries + 1)

Served(s) == chan[s].running /\ chan[s].feed = enr[s].rec.feed

ProbeFails(s) ==
  /\ enr[s].pc = "probe"
  /\ \/ ~Served(s) /\ UNCHANGED used
     \/ /\ Served(s) /\ "probeFails" \in Faults /\ faults < MaxFaults
        /\ faults' = faults + 1 /\ UNCHANGED <<ops, admins>>
  /\ enr' = [enr EXCEPT ![s] = Failed(@)]
  /\ UNCHANGED <<bcast, held, resp, catalog, secret, scope, adm, wire, landed, ever>>

ProbeAnswers(s) ==
  /\ enr[s].pc = "probe"
  /\ enr' = [enr EXCEPT ![s] = Job("check", @.rec, @.tries)]
  /\ UNCHANGED <<bcast, held, resp, catalog, secret, scope, adm, wire, used, landed, ever>>

\* The blobs key read is the one of the feed that was probed.
AnyFeed(rec, probed)  == TRUE
SameFeed(rec, probed) == rec.feed = probed

EnrichChecks(s) ==
  LET probed == enr[s].rec.feed IN
  /\ enr[s].pc = "check"
  /\ enr' = [enr EXCEPT ![s] =
               IF ~Exists(catalog[s]) \/ ~SameFeed(catalog[s], probed) THEN Failed(@)
               ELSE IF catalog[s].blobs # 0 THEN NoJob
               ELSE Job("put", [catalog[s] EXCEPT !.blobs = probed], @.tries)]
  /\ UNCHANGED <<bcast, held, resp, catalog, secret, scope, adm, wire, used, landed, ever>>

EnrichPuts(s) ==
  /\ enr[s].pc = "put"
  /\ catalog' = [catalog EXCEPT ![s] = enr[s].rec]
  /\ enr' = [enr EXCEPT ![s] = NoJob]
  /\ UNCHANGED <<bcast, held, resp, secret, scope, adm, wire, used, landed, ever>>

\* The pause is over: another attempt, or the job parks.
EnrichWakes(s) ==
  /\ enr[s].pc = "sleep"
  /\ enr' = [enr EXCEPT ![s] = IF @.tries < MaxAttempts THEN Job("look", @.rec, @.tries) ELSE NoJob]
  /\ UNCHANGED <<bcast, held, resp, catalog, secret, scope, adm, wire, used, landed, ever>>

-----------------------------------------------------------------------------
(* The panel's operator. *)

CountAdmin == admins < MaxAdmin /\ admins' = admins + 1 /\ UNCHANGED <<ops, faults>>

AdminReads(s, op) ==
  /\ adm.pc = "none" /\ op \in AdminOps \ {"scope"} /\ Exists(catalog[s])
  /\ CountAdmin
  /\ adm' = [pc |-> op, s |-> s, rec |-> catalog[s]]
  /\ UNCHANGED <<bcast, held, resp, catalog, secret, scope, enr, wire, landed, ever>>

SetMetaPuts ==
  /\ adm.pc = "title"
  /\ catalog' = [catalog EXCEPT ![adm.s] = [adm.rec EXCEPT !.title = 1 - @]]
  /\ adm' = NoAdmin
  /\ UNCHANGED <<bcast, held, resp, secret, scope, enr, wire, used, landed, ever>>

\* The record goes before the key.
DeleteStreams ==
  /\ \/ /\ adm.pc = "delete"
        /\ catalog' = [catalog EXCEPT ![adm.s] = NoRecord]
        /\ adm' = [adm EXCEPT !.pc = "forget"]
        /\ UNCHANGED secret
     \/ /\ adm.pc = "forget"
        /\ secret' = [secret EXCEPT ![adm.s] = FALSE]
        /\ adm' = NoAdmin
        /\ UNCHANGED catalog
  /\ UNCHANGED <<bcast, held, resp, scope, enr, wire, used, landed, ever>>

EditScope(s) ==
  /\ "scope" \in AdminOps
  /\ CountAdmin
  /\ scope' = IF s \in scope THEN scope \ {s} ELSE scope \cup {s}
  /\ UNCHANGED <<bcast, held, resp, catalog, secret, enr, adm, wire, landed, ever>>

-----------------------------------------------------------------------------
(* Faults. *)

Fault(f) == f \in Faults /\ faults < MaxFaults /\ faults' = faults + 1 /\ UNCHANGED <<ops, admins>>

\* The connection closes. A responder that was working on it goes on.
Drop ==
  /\ Fault("drop") /\ link # Off
  /\ LinkLost
  /\ UNCHANGED <<panel, landed, ever>>

\* The panel dies and comes back; its sweep queues what has no blobs key.
PanelCrash ==
  /\ Fault("panelCrash")
  /\ IF link = Off THEN UNCHANGED <<bcast, wire>> ELSE LinkLost
  /\ resp' = [c \in Conn |-> NoResp]
  /\ adm' = NoAdmin
  /\ enr' = [s \in Stream |-> IF NothingToDo(catalog[s], s) THEN NoJob ELSE NewJob]
  /\ UNCHANGED <<held, catalog, secret, scope, landed, ever>>

\* A graceful end takes the streams off the catalog and keeps the wish to run.
Shutdown ==
  /\ Fault("crash") /\ up = "up" /\ \E s \in Stream : chan[s].running
  /\ LET R == {s \in Stream : chan[s].running}
         a == [s \in Stream |-> IF s \in R THEN Wish(FALSE, chan[s].feed, asked[s].ver + 1) ELSE asked[s]]
         p == [s \in Stream |-> pending[s] \/ s \in R]
     IN  /\ asked' = a /\ pending' = p
         /\ ever' = [s \in Stream |-> IF s \in R THEN ever[s] \cup {<<FALSE, chan[s].feed>>} ELSE ever[s]]
         /\ Process(order, a, p, link, timer, Overtaken(R))
  /\ chan' = [s \in Stream |-> [chan[s] EXCEPT !.running = FALSE]]
  /\ up' = "closing"
  /\ UNCHANGED <<order, acked, link, panel, wire, landed>>

\* The process ends, once it has waited for the queue or of a sudden.
Ends ==
  /\ chan' = [s \in Stream |-> [chan[s] EXCEPT !.running = FALSE]]
  /\ up' = "down" /\ order' = <<>>
  /\ asked' = [s \in Stream |-> Wish(FALSE, 1, asked[s].ver)]
  /\ pending' = [s \in Stream |-> FALSE] /\ acked' = [s \in Stream |-> FALSE]
  /\ proc' = NoCycle /\ link' = Off /\ timer' = {} /\ wire' = Quiet
  /\ UNCHANGED <<panel, landed, ever>>

Exit  == up = "closing" /\ Ends /\ UNCHANGED used
Crash == up = "up" /\ Fault("crash") /\ Ends

\* The boot asks for every channel that is not to run to be shown idle.
Boot ==
  /\ up = "down"
  /\ LET I == {s \in Stream : ~chan[s].wanted}
         o == SetToSeq(I)
         a == [s \in Stream |-> IF s \in I THEN Wish(FALSE, chan[s].feed, asked[s].ver + 1) ELSE asked[s]]
         p == [s \in Stream |-> s \in I]
     IN  /\ order' = o /\ asked' = a /\ pending' = p
         /\ ever' = [s \in Stream |-> IF s \in I THEN ever[s] \cup {<<FALSE, chan[s].feed>>} ELSE ever[s]]
         /\ Process(o, a, p, Off, {}, NoCycle)
  /\ up' = "up"
  /\ UNCHANGED <<chan, acked, link, panel, wire, used, landed>>

-----------------------------------------------------------------------------
Init ==
  /\ chan = [s \in Stream |-> [running |-> FALSE, wanted |-> s \in Wanted, feed |-> 1]]
  /\ up = "down" /\ order = <<>>
  /\ asked = [s \in Stream |-> NoAsk]
  /\ pending = [s \in Stream |-> FALSE] /\ acked = [s \in Stream |-> FALSE]
  /\ proc = NoCycle /\ link = Off /\ timer = {} /\ wire = Quiet
  /\ held = [c \in Conn |-> FALSE] /\ resp = [c \in Conn |-> NoResp]
  /\ catalog = [s \in Stream |-> NoRecord] /\ secret = [s \in Stream |-> FALSE]
  /\ scope = Scoped
  /\ enr = [s \in Stream |-> NoJob] /\ adm = NoAdmin
  /\ ops = 0 /\ admins = 0 /\ faults = 0
  /\ landed = [s \in Stream |-> 0]
  /\ ever = [s \in Stream |-> {}]

Channel(s) == Start(s) \/ Stop(s) \/ Rotate(s)

LinkStep ==
  \/ RetryTimer \/ Answered
  \/ \E c \in Conn : Hello(c)

PanelStep ==
  \/ SetMetaPuts \/ DeleteStreams
  \/ \E c \in Conn : RegisterArrives(c) \/ Unchanged(c) \/ RegisterReads(c) \/ RegisterPuts(c)

EnrichStep(s) ==
  \/ EnrichLooks(s) \/ EnrichJudges(s) \/ ProbeAnswers(s) \/ EnrichChecks(s)
  \/ EnrichPuts(s) \/ EnrichWakes(s)

Next ==
  \/ LinkStep \/ Heartbeat \/ PanelStep
  \/ \E s \in Stream : Channel(s) \/ Resume(s) \/ EnrichStep(s) \/ ProbeFails(s) \/ EditScope(s)
  \/ \E s \in Stream, op \in AdminOps : AdminReads(s, op)
  \/ \E c \in Conn : Connect(c)
  \/ Drop \/ PanelCrash \/ Shutdown \/ Exit \/ Crash \/ Boot

Spec == Init /\ [][Next]_vars

\* Timers fire, requests are answered and handlers go on; a lookup finds the
\* panel; the boot resumes; a feed that is served can be probed in the end.
Fairness ==
  /\ WF_vars(LinkStep) /\ WF_vars(Heartbeat) /\ WF_vars(PanelStep)
  /\ WF_vars("relookup" \in timer /\ \E c \in Conn : Connect(c))
  /\ WF_vars(Boot) /\ WF_vars(Exit)
  /\ \A s \in Stream :
       /\ WF_vars(Resume(s))
       /\ WF_vars(EnrichStep(s)) /\ SF_vars(ProbeAnswers(s) /\ Served(s))

FairSpec == Spec /\ Fairness

-----------------------------------------------------------------------------
(* Properties. *)

TypeOK ==
  /\ chan \in [Stream -> [running : BOOLEAN, wanted : BOOLEAN, feed : 1..MaxFeed]]
  /\ up \in {"up", "closing", "down"}
  /\ order \in Seq(Stream) /\ Cardinality(Listed) = Len(order)
  /\ asked \in [Stream -> Ask]
  /\ pending \in [Stream -> BOOLEAN] /\ acked \in [Stream -> BOOLEAN]
  /\ \A s \in Stream : pending[s] => s \in Listed
  /\ proc.pc # "idle" => proc.pc \in {"hello", "register"} /\ link \in Conn /\ pending[proc.s]
  /\ link \in Conn \cup {Off}
  /\ timer \subseteq {"retry", "relookup"}
  /\ catalog \in [Stream -> Record \cup {NoRecord}]
  /\ secret \in [Stream -> BOOLEAN] /\ scope \subseteq Stream

\* A blobs key in the catalog is the one of the feed beside it, whoever else
\* rotates, edits or deletes the record while the enricher waits for the header
\* (panel/src/blobs-key.js:126, panel/src/rpc.js:563).
BlobsKeyBesideItsFeed == \A s \in Stream : catalog[s].blobs \in {0, catalog[s].feed}

\* What status reports as registered has been written: the panel put, or found
\* written, the state wished for now, not one that was overtaken while it was
\* under way (panel-link.js:157).
IsRegistered(s) == acked[s] /\ ~pending[s]
RegisteredIsWritten == \A s \in Stream : IsRegistered(s) => landed[s] >= asked[s].ver

\* A channel that runs and may be published is in the end shown live with the
\* feed it serves: through a lost connection, a restart of either side and other
\* streams that are refused for good.
Shown(s) == catalog[s].live /\ catalog[s].feed = chan[s].feed
LiveIsShown ==
  \A s \in Stream : <>[](chan[s].running /\ s \in scope) => <>[]Shown(s)

\* ... and its blobs key follows, so that a repeater can mirror it.
EnrichedInTheEnd ==
  \A s \in Stream : <>[](chan[s].running /\ s \in scope) => <>[](catalog[s].blobs = chan[s].feed)

\* The catalog as a viewer may take it: only what the broadcaster asked for,
\* liveness and feed together, whichever handlers write it.
Publication == INSTANCE CatalogPublication WITH
  State <- BOOLEAN \X (1..MaxFeed),
  wished <- ever, shown <- [s \in Stream |-> IF Exists(catalog[s]) THEN <<catalog[s].live, catalog[s].feed>> ELSE <<>>]
PublicationSpec == Publication!Spec
=============================================================================
