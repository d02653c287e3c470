----------------------------- MODULE CreditLedger -----------------------------
(***************************************************************************)
(* The credit ledger of the reseller panel and everybody who writes to it: *)
(*                                                                         *)
(*   - ledger.js: one append-only file, a JSON line per transaction; the   *)
(*     balances are a map built by a boot scan and updated per append; a   *)
(*     line torn by a crash is cut off at the next boot;                   *)
(*   - the credit routes of control-server.js (mint, transfer, reclaim,    *)
(*     adjust, delete a principal, the payment webhook), each run under    *)
(*     the service's one mutex, and the debit of an activation or a        *)
(*     renewal (accounts.js), which holds the mutex across its panel call; *)
(*   - `reseller-cli mint`, another process on the same file.              *)
(*                                                                         *)
(* What a request checks before it queues on the mutex and what it checks  *)
(* inside are different steps here, as they are in the code.               *)
(***************************************************************************)
EXTENDS Integers, Sequences, SequencesExt

CONSTANTS
  Principal,   \* names of the hierarchy
  Root,        \* the seeded admin, undeletable
  AdminTier,   \* admin and co-admins
  Parent,      \* the parent of each principal
  Event,       \* event ids of the payment provider
  EventTo,     \* the principal each event tops up
  Client,      \* requests that can be in flight at once
  Ops,         \* the routes in use
  Amounts,     \* amounts a request may carry
  Adjusts,     \* corrections `adjust` may be given
  Faults,      \* what may go wrong: see AllFaults
  EventsMax,   \* WEBHOOK_EVENTS_MAX
  MaxLines     \* bound: no request starts once the file has this many lines

AllOps == {"mint", "transfer", "reclaim", "adjust", "delete", "create", "topup", "spend"}

\* "crash": the service is killed between two steps.  "tornPart", "tornEnd":
\* killed in an append, with a part of the line on disk or all of it but its
\* newline.  "appendFails", "appendTears": the append throws with nothing, or
\* a part of the line, written.  "cliLive": an operator mints with the CLI
\* while the service runs.
AllFaults == {"crash", "tornPart", "tornEnd", "appendFails", "appendTears", "cliLive"}

ASSUME PrincipalAssumption == Root \in AdminTier /\ AdminTier \subseteq Principal
ASSUME EventAssumption     == EventTo \in [Event -> Principal]
ASSUME AmountAssumption    == Amounts \subseteq Nat \ {0} /\ Adjusts \subseteq Int \ {0}
ASSUME BoundsAssumption    == EventsMax \in Nat /\ MaxLines \in Nat
ASSUME SwitchAssumption    == Ops \subseteq AllOps /\ Faults \subseteq AllFaults

VARIABLES
  file,        \* ledger.jsonl: its lines, each a transaction or Garbage
  open,        \* the last line of the file lacks its newline
  seen,        \* state/webhook-events.json: ids already credited, oldest first
  principals,  \* principals.json: who exists
  up,          \* the service runs
  bal,         \* balances, in memory
  nextSeq,     \* the number the next line gets, in memory
  req,         \* the requests in flight
  chain,       \* the mutex: the clients on it, in order of arrival
  acked        \* transactions whose append returned

vars == <<file, open, seen, principals, up, bal, nextSeq, req, chain, acked>>

-----------------------------------------------------------------------------
(* Lines and their sums.                                                   *)

NoEvent == "none"
ASSUME NoEventAssumption == NoEvent \notin Event

\* A line that does not parse.
Garbage == [seq |-> 0]

Credit(p, n)     == [q \in Principal |-> IF q = p THEN n ELSE 0]
Pair(from, to, n) == [q \in Principal |-> IF q = from THEN -n ELSE IF q = to THEN n ELSE 0]

Line(seq, move, ev) == [seq |-> seq, move |-> move, ev |-> ev]

IsLine(l) ==
  /\ l = Line(l.seq, l.move, l.ev)
  /\ l.seq \in Nat \ {0}
  /\ l.move \in [Principal -> Int]
  /\ l.ev \in Event \union {NoEvent}

\* What a line moves to p, and the balance a scan of the lines f derives.
Share(l, p) == IF l = Garbage THEN 0 ELSE l.move[p]

BalanceIn(f, p) ==
  LET sum[n \in 0..Len(f)] == IF n = 0 THEN 0 ELSE sum[n - 1] + Share(f[n], p)
  IN sum[Len(f)]

\* A file that ends in an open line swallows the next one: the two share one
\* physical line, which does not parse.
GluedTo(f, l) == IF f.open THEN Append(Front(f.lines), Garbage) ELSE Append(f.lines, l)
Glued(l)      == GluedTo([lines |-> file, open |-> open], l)

\* The boot scan: the last line may be cut off, any other bad one refuses.
Scans       == \A i \in 1..(Len(file) - 1) : file[i] # Garbage
TornTail    == file # <<>> /\ Last(file) = Garbage
LeaveTail   == [lines |-> file, open |-> open]
DropTail    == [lines |-> IF TornTail THEN Front(file) ELSE file,
                open  |-> open /\ ~TornTail]
NextSeqOf(f) == IF f = <<>> THEN 1 ELSE Last(f).seq + 1

-----------------------------------------------------------------------------
(* Requests.                                                               *)

Idle == [pc |-> "idle"]

\* What a request asks: `me` is the record it authenticated as, `to` the
\* principal it names; a webhook delivery has no `me` but an event.
Requests ==
       [op : {"mint"}, me : AdminTier, to : Principal, n : Amounts]
  \union [op : {"transfer", "reclaim"}, me : Principal, to : Principal, n : Amounts]
  \union [op : {"adjust"}, me : AdminTier, to : Principal, n : Adjusts]
  \union [op : {"delete", "create"}, me : Principal, to : Principal]
  \union [op : {"spend"}, me : Principal \ AdminTier, n : Amounts]
  \union {[op |-> "topup", ev |-> e, to |-> EventTo[e], n |-> n] : e \in Event, n \in Amounts}

\* Admin tiers fund and manage everybody below the root; a super reseller
\* its own resellers.
MayFund(me, to)   == me # to /\ (me \in AdminTier \/ Parent[to] = me)
CanManage(me, to) ==
  /\ to # Root
  /\ IF to \in AdminTier THEN me = Root ELSE me \in AdminTier \/ Parent[to] = me

\* Checks made before the request queues on the mutex: it authenticates as a
\* principal that exists; a webhook delivery names one that exists.
Authentic(q) ==
  IF q.op = "topup" THEN q.to \in principals ELSE q.me \in principals

\* Checks made inside the mutex, against the live balances.
NeverSeen(ev)  == FALSE
SeenBefore(ev) == \E i \in DOMAIN seen : seen[i] = ev

Accepted(q) ==
  CASE q.op \in {"mint", "adjust"} -> q.to \in principals
    [] q.op = "transfer" -> q.to \in principals /\ MayFund(q.me, q.to) /\ bal[q.me] >= q.n
    [] q.op = "reclaim"  -> q.to \in principals /\ MayFund(q.me, q.to) /\ bal[q.to] > 0
    [] q.op = "delete"   -> /\ q.to \in principals /\ CanManage(q.me, q.to)
                            /\ \A p \in principals \ {Root} : Parent[p] # q.to
    [] q.op = "create"   -> q.to \notin principals /\ q.to # Root /\ Parent[q.to] = q.me
    [] q.op = "topup"    -> ~SeenBefore(q.ev)
    [] q.op = "spend"    -> bal[q.me] >= q.n

Least(a, b) == IF a < b THEN a ELSE b

\* The transaction an accepted request appends.
Move(q) ==
  CASE q.op \in {"mint", "adjust", "topup"} -> Credit(q.to, q.n)
    [] q.op = "transfer" -> Pair(q.me, q.to, q.n)
    [] q.op = "reclaim"  -> Pair(q.to, q.me, Least(q.n, bal[q.to]))
    [] q.op = "delete"   -> Pair(q.to, q.me, bal[q.to])
    [] q.op = "spend"    -> Credit(q.me, -q.n)

TxOf(q) == Line(nextSeq, Move(q), IF q.op = "topup" THEN q.ev ELSE NoEvent)

HasCredits(q)   == bal[q.to] > 0

\* Creating a principal, and deleting one that holds nothing, write no line.
WritesLine(q) == q.op # "create" /\ (q.op = "delete" => HasCredits(q))

-----------------------------------------------------------------------------
(* The service.                                                            *)

\* The mutex is a chain of promises: a handler runs when all that called it
\* before have settled, and holds it across its own awaits.
NoTurn(c) == TRUE
Turn(c)   == chain # <<>> /\ Head(chain) = c

\* A handler that returns, or throws, lets the next one run.
NextInChain  == Tail(chain)

Done(c) ==
  /\ req' = [req EXCEPT ![c] = Idle]
  /\ chain' = NextInChain

Failed(c) ==
  /\ req' = [req EXCEPT ![c] = Idle]
  /\ chain' = NextInChain

Arrive(c) ==
  /\ up /\ req[c] = Idle
  /\ Len(file) < MaxLines
  /\ \E q \in Requests :
       /\ q.op \in Ops /\ Authentic(q)
       /\ req' = [req EXCEPT ![c] = [pc |-> "queued", q |-> q]]
  /\ chain' = Append(chain, c)
  /\ UNCHANGED <<file, open, seen, principals, up, bal, nextSeq, acked>>

\* ledger.append() of an accepted request returns: the line is in the file,
\* then the number and the balances follow.
BalancesAfter(l) == [p \in Principal |-> bal[p] + l.move[p]]
AppendReturns(l) ==
  /\ file' = Glued(l) /\ open' = FALSE
  /\ nextSeq' = nextSeq + 1
  /\ bal' = BalancesAfter(l)
  /\ acked' = acked \union {l}

\* The mutex runs a queued request: refused by the checks inside, or on to
\* its append; a spend has to hear from the panel first.
Refuse(c) ==
  /\ up /\ Turn(c) /\ req[c].pc = "queued" /\ ~Accepted(req[c].q)
  /\ Failed(c)
  /\ UNCHANGED <<file, open, seen, principals, up, bal, nextSeq, acked>>

AskPanel(c) ==
  /\ up /\ Turn(c) /\ req[c].pc = "queued"
  /\ req[c].q.op = "spend" /\ Accepted(req[c].q)
  /\ req' = [req EXCEPT ![c] = [pc |-> "panel", q |-> req[c].q]]
  /\ UNCHANGED <<file, open, seen, principals, up, bal, nextSeq, chain, acked>>

PanelRefuses(c) ==
  /\ up /\ Turn(c) /\ req[c].pc = "panel"
  /\ Failed(c)
  /\ UNCHANGED <<file, open, seen, principals, up, bal, nextSeq, acked>>

\* A request whose next step is the append of its line.
AtAppend(c) ==
  /\ Turn(c)
  /\ \/ req[c].pc = "panel"
     \/ /\ req[c].pc = "queued" /\ req[c].q.op # "spend"
        /\ Accepted(req[c].q) /\ WritesLine(req[c].q)

\* What is left to do after the append: the seen ids, the principal record.
AfterAppend(c) ==
  CASE req[c].q.op = "topup"  -> /\ req' = [req EXCEPT ![c] = [pc |-> "seen", q |-> req[c].q]]
                                 /\ UNCHANGED chain
    [] req[c].q.op = "delete" -> /\ req' = [req EXCEPT ![c] = [pc |-> "remove", q |-> req[c].q]]
                                 /\ UNCHANGED chain
    [] OTHER                  -> Done(c)

RunAppend(c) ==
  /\ up /\ AtAppend(c)
  /\ AppendReturns(TxOf(req[c].q))
  /\ AfterAppend(c)
  /\ UNCHANGED <<seen, principals, up>>

\* The append throws: the request fails, memory is as it was, and the file
\* may have got a part of the line.
Throws ==
  \/ "appendFails" \in Faults /\ UNCHANGED <<file, open>>
  \/ "appendTears" \in Faults /\ file' = Glued(Garbage) /\ open' = TRUE

MemoryFirst(c) ==
  /\ up /\ AtAppend(c) /\ Throws
  /\ bal' = BalancesAfter(TxOf(req[c].q))
  /\ Failed(c)
  /\ UNCHANGED <<seen, principals, up, nextSeq, acked>>

RunAppendFails(c) ==
  /\ up /\ AtAppend(c) /\ Throws
  /\ Failed(c)
  /\ UNCHANGED <<seen, principals, up, bal, nextSeq, acked>>

\* A deletion with nothing to reclaim, and a creation, touch no line.
RunNoLine(c) ==
  /\ up /\ Turn(c) /\ req[c].pc = "queued"
  /\ Accepted(req[c].q) /\ ~WritesLine(req[c].q)
  /\ principals' = IF req[c].q.op = "create" THEN principals \union {req[c].q.to}
                                              ELSE principals \ {req[c].q.to}
  /\ Done(c)
  /\ UNCHANGED <<file, open, seen, up, bal, nextSeq, acked>>

\* The last stretch of a deletion and of a webhook delivery: an atomic write
\* of another file.
RemovePrincipal(c) ==
  /\ up /\ Turn(c) /\ req[c].pc = "remove"
  /\ principals' = principals \ {req[c].q.to}
  /\ Done(c)
  /\ UNCHANGED <<file, open, seen, up, bal, nextSeq, acked>>

Pruned(ids) == SubSeq(ids, Len(ids) - Least(Len(ids), EventsMax) + 1, Len(ids))

NoteSeen(c) ==
  /\ up /\ Turn(c) /\ req[c].pc = "seen"
  /\ seen' = Pruned(Append(seen, req[c].q.ev))
  /\ Done(c)
  /\ UNCHANGED <<file, open, principals, up, bal, nextSeq, acked>>

-----------------------------------------------------------------------------
(* Crash, boot, and the CLI.                                               *)

ZeroBalances == [p \in Principal |-> 0]

Die ==
  /\ up' = FALSE
  /\ req' = [c \in Client |-> Idle] /\ chain' = <<>>
  /\ bal' = ZeroBalances /\ nextSeq' = 1
  /\ UNCHANGED <<seen, principals, acked>>

Crash ==
  /\ up /\ "crash" \in Faults
  /\ UNCHANGED <<file, open>>
  /\ Die

\* Killed inside fs.appendFileSync: the line is there and nobody was told,
\* or a part of it is, or all of it but the newline.
CrashInAppend(c) ==
  /\ up /\ AtAppend(c) /\ "crash" \in Faults
  /\ LET l == TxOf(req[c].q) IN
     \/ file' = Glued(l) /\ open' = FALSE
     \/ "tornPart" \in Faults /\ file' = Glued(Garbage) /\ open' = TRUE
     \/ "tornEnd" \in Faults /\ file' = Glued(l) /\ open' = TRUE
  /\ Die

\* openLedger(): the scan, the repair of a torn tail, the maps.
Boot ==
  /\ ~up /\ Scans
  /\ file' = DropTail.lines /\ open' = DropTail.open
  /\ up' = TRUE
  /\ bal' = [p \in Principal |-> BalanceIn(DropTail.lines, p)]
  /\ nextSeq' = NextSeqOf(DropTail.lines)
  /\ UNCHANGED <<seen, principals, req, chain, acked>>

\* `reseller-cli mint`: opens the ledger as a boot does, then appends.  It
\* is a process of its own: the service's memory does not follow.
CliMint ==
  /\ ~up \/ "cliLive" \in Faults
  /\ Len(file) < MaxLines /\ Scans
  /\ \E p \in principals, n \in Amounts :
       LET l == Line(NextSeqOf(DropTail.lines), Credit(p, n), NoEvent) IN
       /\ file' = GluedTo(DropTail, l) /\ open' = FALSE
       /\ acked' = acked \union {l}
  /\ UNCHANGED <<seen, principals, up, bal, nextSeq, req, chain>>

Init ==
  /\ file = <<>> /\ open = FALSE /\ seen = <<>>
  /\ principals = Principal
  /\ up = TRUE
  /\ bal = ZeroBalances /\ nextSeq = 1
  /\ req = [c \in Client |-> Idle] /\ chain = <<>>
  /\ acked = {}

Serve(c) ==
  Refuse(c) \/ AskPanel(c) \/ PanelRefuses(c) \/ RunAppend(c) \/ RunAppendFails(c)
    \/ RunNoLine(c) \/ RemovePrincipal(c) \/ NoteSeen(c)

Next ==
  \/ \E c \in Client : Arrive(c) \/ Serve(c) \/ CrashInAppend(c)
  \/ Crash \/ Boot \/ CliMint

Spec == Init /\ [][Next]_vars

\* The event loop keeps running whoever holds the mutex, and a panel call is
\* answered or times out.
FairSpec == Spec /\ \A c \in Client : WF_vars(Serve(c))

-----------------------------------------------------------------------------
(* Properties.                                                             *)

TypeOK ==
  /\ \A i \in 1..Len(file) : file[i] = Garbage \/ IsLine(file[i])
  /\ open \in BOOLEAN /\ up \in BOOLEAN
  /\ principals \subseteq Principal /\ Root \in principals
  /\ bal \in [Principal -> Int] /\ nextSeq \in Nat \ {0}
  /\ \A i \in DOMAIN seen : seen[i] \in Event
  /\ \A i \in DOMAIN chain : chain[i] \in Client
  /\ \A c \in Client : \/ req[c] = Idle
                       \/ req[c] = [pc |-> req[c].pc, q |-> req[c].q]
                          /\ req[c].q \in Requests
                          /\ req[c].pc \in {"queued", "panel", "seen", "remove"}

\* The ledger never shows a negative balance: what a payer is checked to hold
\* is still there when the debit is written, an await later (ledger.js:5-8,
\* "no cached-balance over-spend").
NoOverdraft == \A p \in Principal : BalanceIn(file, p) >= 0

\* A transaction whose append returned stays readable in the file, through
\* crashes, torn lines and the repair at boot (ledger.js:20-22).
AckedSurvives == \A l \in acked : \E i \in DOMAIN file : file[i] = l

\* A crash in an append never keeps the service from starting again: the one
\* bad line there may be is the last (ledger.js:20-22).
CanStart == \A i \in 1..(Len(file) - 1) : file[i] # Garbage

\* One global sequence: the numbers of the lines only ever grow
\* (ledger.js:5-6, "one global monotonic seq").
SeqGrows ==
  \A i, j \in DOMAIN file :
    i < j /\ file[i] # Garbage /\ file[j] # Garbage => file[i].seq < file[j].seq

\* While the service runs its balances, and the number it gives next, are
\* those a boot scan of the file would derive (docs: "Balances are always
\* derived from it, never stored, so they can never drift").
MemoryIsTheFile ==
  up => /\ \A p \in Principal : bal[p] = BalanceIn(DropTail.lines, p)
        /\ nextSeq = NextSeqOf(DropTail.lines)

\* While the service lives, an event of the payment provider credits at most
\* once, however often and however concurrently it is delivered (docs: "a retry
\* can never double-credit"): no delivery credits what another one has credited
\* and is still noting, or has noted.
TopUpOnce ==
  [][\A e \in Event :
       Cardinality({i \in DOMAIN file' : file'[i] # Garbage /\ file'[i].ev = e})
         > Cardinality({i \in DOMAIN file : file[i] # Garbage /\ file[i].ev = e})
       => /\ \A i \in DOMAIN seen : seen[i] # e
          /\ \A c \in Client : req[c] # Idle /\ req[c].pc = "seen" => req[c].q.ev # e]_vars

\* An event the service will answer as a duplicate was credited (docs: "the
\* credits land as a normal MINT ledger line").
TopUpCredited ==
  \A i \in DOMAIN seen : \E j \in DOMAIN file : file[j] # Garbage /\ file[j].ev = seen[i]

\* Credits belong to somebody: a deleted principal leaves none behind for
\* the next one of that name (control-server.js, deletePrincipal).
CreditsHaveAnOwner == \A p \in Principal \ principals : BalanceIn(file, p) = 0

\* A request is answered, whatever happened to the one before it on the
\* mutex (store.js:27, rejections "never break the chain").
Served == \A c \in Client : req[c] # Idle ~> req[c] = Idle
=============================================================================
