--------------------------- MODULE ResellerAccounts ---------------------------
(***************************************************************************)
(* Viewer accounts of the reseller panel: the subscription clock.          *)
(*                                                                         *)
(*   - accounts.js: the registry (in memory, and accounts.json on disk),   *)
(*     the intent journal, and the operations that pair a call to the      *)
(*     panel's admin API with a movement of credits, each under the        *)
(*     service's one mutex;                                                *)
(*   - sweeps.js: the expiry sweep and the reconcile sweep, which look     *)
(*     outside the mutex and act inside it;                                *)
(*   - the panel itself, from here a set of users that are absent, active  *)
(*     or disabled, behind calls that may time out and land later.         *)
(*                                                                         *)
(* Credits are those of CreditLedger; here a balance per principal is      *)
(* enough.  Everything between two awaits of a handler is one step.        *)
(***************************************************************************)
EXTENDS Integers, Sequences

CONSTANTS
  Acct,        \* account names
  AdminTier,   \* principals whose account operations are free
  Reseller,    \* principals who pay
  Scope,       \* the owners whose accounts each principal may operate
  Credits,     \* what each reseller holds at the start
  Foreign,     \* names of panel users the reseller panel did not create
  Client,      \* requests that can be in flight at once
  Ops,         \* the routes in use
  Months,      \* how many months a request may buy
  MonthTicks, TrialTicks,  \* a month and a trial, in ticks of the clock
  Repair,      \* RECONCILE_REPAIR
  Faults,      \* what may go wrong: see AllFaults
  MaxFaults,   \* bound: how often it may
  Horizon,     \* bound: the last tick of the clock
  MaxRecords   \* bound: no activation starts once this many records were made

AllOps == {"activate", "trial", "renew", "suspend", "resume", "remove",
           "disableAll", "enableAll"}

\* "silent": a call to the panel gets no answer in time.  "appendFails": the
\* ledger's append throws.  "crash": the service is killed, and restarts.
\* "slowDecorate": the calls that decorate a new account take over a minute.
AllFaults == {"silent", "appendFails", "crash", "slowDecorate"}

Principal == AdminTier \union Reseller

ASSUME ScopeAssumption  == Scope \in [Principal -> SUBSET Principal]
ASSUME CreditAssumption == Credits \in [Reseller -> Nat]
\* TRIAL_HOURS is at least one (config.js:132).
ASSUME MonthAssumption  == Months \subseteq Nat \ {0} /\ MonthTicks \in Nat \ {0}
                           /\ TrialTicks \in Nat \ {0}
ASSUME TierAssumption   == AdminTier \intersect Reseller = {}
ASSUME ProcAssumption   == "sweep" \notin Client /\ "reconcile" \notin Client
ASSUME SetAssumption    == /\ Foreign \subseteq Acct /\ Ops \subseteq AllOps
                           /\ Faults \subseteq AllFaults /\ Repair \in BOOLEAN
ASSUME BoundAssumption  == {Horizon, MaxFaults, MaxRecords} \subseteq Nat

VARIABLES
  now,         \* the clock
  mem,         \* the registry in memory: account -> record
  disk,        \* accounts.json
  intent,      \* state/intents.json: account -> "none", "fresh" or "old" (a minute)
  bal,         \* credits of the resellers
  paid,        \* months debited minus refunded, for the account's latest record
  granted,     \* the expiry bought, or given by an admin or as a trial
  told,        \* history: the expiry the last answered request on the record promised
  panel,       \* the panel's users: account -> "absent", "active" or "disabled"
  call,        \* the call to the panel in flight under the mutex
  late,        \* calls nobody waits for any more, which may still land
  req,         \* the requests in flight
  chain,       \* the mutex: who queues on it, in order of arrival
  sweep,       \* the expiry sweep
  recon,       \* the reconcile sweep
  records,     \* records made so far: a record has an identity
  faults       \* faults so far

books   == <<bal, paid, granted, told>>
wire    == <<panel, call, late>>
sweeps  == <<sweep, recon>>
world   == <<now, records, faults>>
vars    == <<now, mem, disk, intent, bal, paid, granted, told, panel, call, late,
             req, chain, sweep, recon, records, faults>>

-----------------------------------------------------------------------------
(* Records and the panel.                                                  *)

NoOwner == "none"

\* A name that was never used is treated as one that was deleted.
NoRecord == [id |-> 0, owner |-> NoOwner, kind |-> "trial", status |-> "deleted", expires |-> 0]

Live(r)    == r.status # "deleted"
Lapsed(r)  == r.expires <= now

\* Remaining months, rounded down: what a refund gives back.
RemainingMonths(r) == IF Lapsed(r) THEN 0 ELSE (r.expires - now) \div MonthTicks
BegunMonths(r)     == IF Lapsed(r) THEN 0 ELSE (r.expires - now + MonthTicks - 1) \div MonthTicks
RefundDue(r)       == RemainingMonths(r)

\* The object a sweep or a handler holds: once the name is used again it is
\* another one than the registry's, and was deleted.
Held(a, id) == IF mem[a].id = id THEN mem[a] ELSE NoRecord

\* A call to the panel that it rejects (`exists`, 404), or what it does.
NoCall     == [eff |-> "none"]
Call(a, e) == [a |-> a, eff |-> e]
Rejected(k) == IF k.eff = "create" THEN panel[k.a] # "absent" ELSE panel[k.a] = "absent"
After(k) ==
  [panel EXCEPT ![k.a] = CASE k.eff \in {"create", "active"} -> "active"
                           [] k.eff = "disabled" -> "disabled"
                           [] k.eff = "delete"   -> "absent"]

Fault(f) == f \in Faults /\ faults < MaxFaults /\ faults' = faults + 1
NoFault  == UNCHANGED faults

PanelDoes ==
  /\ call # NoCall /\ ~Rejected(call)
  /\ panel' = After(call) /\ call' = NoCall
  /\ UNCHANGED late

PanelRejects ==
  /\ call # NoCall /\ Rejected(call)
  /\ call' = NoCall
  /\ UNCHANGED <<panel, late>>

\* The client gives up (10 s); the panel may yet carry the call out.
PanelSilent ==
  /\ call # NoCall /\ Fault("silent")
  /\ late' = late \union {call} /\ call' = NoCall
  /\ UNCHANGED panel

-----------------------------------------------------------------------------
(* The mutex and the requests.                                             *)

Idle == [pc |-> "idle"]

NoTurn(p) == chain # <<>>
Turn(p)   == chain # <<>> /\ Head(chain) = p

Requests ==
       [op : {"activate"}, me : Principal, a : Acct, n : Months]
  \union [op : {"trial"}, me : Principal, a : Acct]
  \union [op : {"renew"}, me : Principal, a : Acct, n : Months]
  \union [op : {"suspend", "resume", "remove"}, me : Principal, a : Acct]
  \union [op : {"disableAll", "enableAll"}, me : AdminTier, owner : Principal]

Pays(q)   == q.me \notin AdminTier
CanPay(q) == Pays(q) => bal[q.me] >= q.n

\* requireAccountScope(), before the request queues on the mutex; the routes
\* that make an account name none that exists.
InScope(q) ==
  q.op \in {"renew", "suspend", "resume", "remove"} =>
    Live(mem[q.a]) /\ mem[q.a].owner \in Scope[q.me]

\* The checks inside the mutex.
Accepted(q) ==
  CASE q.op = "activate" -> ~Live(mem[q.a]) /\ CanPay(q)
    [] q.op = "trial"    -> ~Live(mem[q.a])
    [] q.op = "renew"    -> Live(mem[q.a]) /\ CanPay(q)
    [] q.op = "resume"   -> Live(mem[q.a]) /\ ~Lapsed(mem[q.a])
    [] q.op \in {"suspend", "remove"} -> Live(mem[q.a])
    [] OTHER -> TRUE

WithinBounds(q) ==
  /\ q.op \in {"activate", "trial"} => records < MaxRecords
  /\ q.op = "renew" => mem[q.a].expires <= Horizon

Arrive(c) ==
  /\ req[c] = Idle
  /\ \E q \in Requests :
       /\ q.op \in Ops /\ WithinBounds(q) /\ InScope(q)
       /\ req' = [req EXCEPT ![c] = [pc |-> "queued", q |-> q]]
  /\ chain' = Append(chain, c)
  /\ UNCHANGED <<mem, disk, intent, books, wire, sweeps, world>>

Release   == chain' = Tail(chain)

Done(c) ==
  /\ req' = [req EXCEPT ![c] = Idle]
  /\ Release

\* Refused by a check; a trial also by the daily cap, whose count is left out.
Refuse(c) ==
  /\ Turn(c) /\ req[c].pc = "queued"
  /\ ~Accepted(req[c].q) \/ req[c].q.op = "trial"
  /\ Done(c)
  /\ UNCHANGED <<mem, disk, intent, books, wire, sweeps, world>>

Asks(c, pc, k) ==
  /\ call' = k
  /\ req' = [req EXCEPT ![c] = [pc |-> pc, q |-> req[c].q, at |-> now]]
  /\ UNCHANGED <<panel, late, chain>>

Accepts(c, op) ==
  Turn(c) /\ req[c].pc = "queued" /\ req[c].q.op = op /\ Accepted(req[c].q)

\* activate(), trial(): the intent is on disk before the panel is asked.
StartCreate(c) ==
  /\ Accepts(c, "activate") \/ Accepts(c, "trial")
  /\ intent' = [intent EXCEPT ![req[c].q.a] = "fresh"]
  /\ Asks(c, "create", Call(req[c].q.a, "create"))
  /\ UNCHANGED <<mem, disk, books, sweeps, world>>

NextId      == records + 1

NewRecord(q) ==
  [id |-> NextId, owner |-> q.me, status |-> "active",
   kind |-> IF q.op = "trial" THEN "trial" ELSE "paid",
   expires |-> now + IF q.op = "trial" THEN TrialTicks ELSE q.n * MonthTicks]

\* Only a user the panel made for this very call becomes an account.
CreateLands == PanelDoes

\* The panel made the user: the record exists in memory, and the calls that
\* set its packages, grants and devices follow.
Created(c) ==
  /\ Turn(c) /\ req[c].pc = "create" /\ CreateLands /\ NoFault
  /\ mem' = [mem EXCEPT ![req[c].q.a] = NewRecord(req[c].q)]
  /\ records' = records + 1
  /\ req' = [req EXCEPT ![c] = [pc |-> "decorate", q |-> req[c].q, at |-> now]]
  /\ told' = [told EXCEPT ![req[c].q.a] = 0]
  /\ UNCHANGED <<now, disk, intent, bal, paid, granted, chain, sweeps>>

CloseIntent(a) == [intent EXCEPT ![a] = "none"]

\* Whatever the reason, a create that did not succeed closes the intent.
CreateFails(c) ==
  /\ Turn(c) /\ req[c].pc = "create"
  /\ (PanelRejects /\ NoFault) \/ PanelSilent
  /\ intent' = CloseIntent(req[c].q.a)
  /\ Done(c)
  /\ UNCHANGED <<mem, disk, books, sweeps, now, records>>

\* renew() of a lapsed account that is disabled asks the panel first.
NeedsEnabling(a) == mem[a].status = "disabled" /\ Lapsed(mem[a])

StartEnable(c) ==
  /\ Accepts(c, "renew") /\ NeedsEnabling(req[c].q.a)
  /\ Asks(c, "enable", Call(req[c].q.a, "active"))
  /\ UNCHANGED <<mem, disk, intent, books, sweeps, world>>

StartStatus(c) ==
  /\ \/ Accepts(c, "suspend") /\ Asks(c, "status", Call(req[c].q.a, "disabled"))
     \/ Accepts(c, "resume")  /\ Asks(c, "status", Call(req[c].q.a, "active"))
  /\ UNCHANGED <<mem, disk, intent, books, sweeps, world>>

StartDelete(c) ==
  /\ Accepts(c, "remove")
  /\ Asks(c, "delete", Call(req[c].q.a, "delete"))
  /\ UNCHANGED <<mem, disk, intent, books, sweeps, world>>

\* The panel did not do it, so nothing changes here; an absent user counts as
\* deleted.
AskFails(c) ==
  /\ Turn(c) /\ req[c].pc \in {"enable", "status", "delete"}
  /\ PanelSilent \/ (PanelRejects /\ NoFault /\ req[c].pc # "delete")
  /\ Done(c)
  /\ UNCHANGED <<mem, disk, intent, books, sweeps, now, records>>

-----------------------------------------------------------------------------
(* The last stretch of an operation: change the record, append the ledger  *)
(* line, save the registry, close the intent, with no await in between.    *)

\* The request reaches it, with the panel's answer where it waits for one.
Finishes(c) ==
  /\ Turn(c)
  /\ \/ req[c].pc = "decorate" /\ UNCHANGED wire
     \/ Accepts(c, "renew") /\ ~NeedsEnabling(req[c].q.a) /\ UNCHANGED wire
     \/ req[c].pc \in {"enable", "status"} /\ PanelDoes
     \/ req[c].pc = "delete" /\ (PanelDoes \/ PanelRejects)

Later(x, y) == IF x > y THEN x ELSE y

\* renew() took the time before it asked the panel.
RenewedAt(c) == IF req[c].pc = "queued" THEN now ELSE req[c].at

RecordAfter(c) ==
  LET q == req[c].q  r == mem[q.a] IN
  CASE q.op \in {"activate", "trial"} -> r
    [] q.op = "renew" ->
         [r EXCEPT !.status  = IF req[c].pc = "enable" THEN "active" ELSE r.status,
                   !.expires = Later(RenewedAt(c), r.expires) + q.n * MonthTicks,
                   !.kind    = "paid"]
    [] q.op = "suspend" -> [r EXCEPT !.status = "disabled"]
    [] q.op = "resume"  -> [r EXCEPT !.status = "active"]
    [] q.op = "remove"  -> [r EXCEPT !.status = "deleted"]

MemAfter(c) == [mem EXCEPT ![req[c].q.a] = RecordAfter(c)]

\* What the request costs who made it, and what it gives back to the owner:
\* nothing when an admin deletes, or the account is a trial.
Price(c)  == LET q == req[c].q IN IF q.op \in {"activate", "renew"} /\ Pays(q) THEN q.n ELSE 0
Refund(c) ==
  LET q == req[c].q  r == mem[q.a] IN
  IF q.op = "remove" /\ Pays(q) /\ r.kind = "paid" THEN RefundDue(r) ELSE 0

WritesLine(c) == Price(c) > 0 \/ Refund(c) > 0 \/ req[c].q.op = "trial"

BalAfter(c) ==
  [p \in Reseller |-> bal[p] - (IF p = req[c].q.me THEN Price(c) ELSE 0)
                             + (IF Refund(c) > 0 /\ p = mem[req[c].q.a].owner
                                THEN Refund(c) ELSE 0)]

Booked(c) ==
  LET a == req[c].q.a IN
  /\ bal' = BalAfter(c)
  /\ paid' = [paid EXCEPT ![a] = IF req[c].pc = "decorate" THEN Price(c)
                                 ELSE @ + Price(c) - Refund(c)]
  /\ granted' = [granted EXCEPT ![a] = RecordAfter(c).expires]

Saved(c)   == MemAfter(c)

Finish(c) ==
  /\ Finishes(c) /\ Booked(c) /\ NoFault
  /\ mem' = MemAfter(c) /\ disk' = Saved(c)
  /\ told' = [told EXCEPT ![req[c].q.a] = RecordAfter(c).expires]
  /\ intent' = IF req[c].pc = "decorate" THEN CloseIntent(req[c].q.a) ELSE intent
  /\ Done(c)
  /\ UNCHANGED <<sweeps, now, records>>

\* The append throws.  The record was changed before it, except in remove().
FinishFails(c) ==
  /\ Finishes(c) /\ WritesLine(c) /\ Fault("appendFails")
  /\ mem' = IF req[c].q.op = "remove" THEN mem ELSE MemAfter(c)
  /\ Done(c)
  /\ UNCHANGED <<disk, intent, books, sweeps, now, records>>

-----------------------------------------------------------------------------
(* bulkSetOwnerStatus(): every account of a suspended or reinstated owner. *)

Target(q)    == IF q.op = "disableAll" THEN "disabled" ELSE "active"
WantingUnlapsed(q, a) ==
  /\ Live(mem[a]) /\ mem[a].owner = q.owner /\ mem[a].status # Target(q)
  /\ ~Lapsed(mem[a])
Wanting(q, a) ==
  /\ Live(mem[a]) /\ mem[a].owner = q.owner /\ mem[a].status # Target(q)
  /\ Target(q) = "active" => ~Lapsed(mem[a])

\* One account of the loop: the first when the mutex is had, another when the
\* one before was answered.
BulkAsks(c) ==
  /\ \/ Accepts(c, "disableAll") \/ Accepts(c, "enableAll")
     \/ Turn(c) /\ req[c].pc = "bulk" /\ call = NoCall
  /\ LET todo == IF req[c].pc = "bulk" THEN req[c].todo ELSE Acct
     IN  \E a \in todo :
           /\ Wanting(req[c].q, a)
           /\ req' = [req EXCEPT ![c] = [pc |-> "bulk", q |-> req[c].q, at |-> now,
                                         todo |-> todo \ {a}]]
           /\ call' = Call(a, Target(req[c].q))
  /\ UNCHANGED <<mem, disk, intent, books, panel, late, chain, sweeps, world>>

\* The answer for one account; a failure is left to the reconcile sweep.
BulkAnswer(c) ==
  /\ Turn(c) /\ req[c].pc = "bulk" /\ call # NoCall
  /\ \/ PanelDoes /\ NoFault /\ mem' = [mem EXCEPT ![call.a].status = Target(req[c].q)]
     \/ ((PanelRejects /\ NoFault) \/ PanelSilent) /\ UNCHANGED mem
  /\ UNCHANGED <<disk, intent, books, sweeps, now, records, req, chain>>

BulkEnd(c) ==
  /\ \/ Accepts(c, "disableAll") /\ \A a \in Acct : ~Wanting(req[c].q, a)
     \/ Accepts(c, "enableAll") /\ \A a \in Acct : ~Wanting(req[c].q, a)
     \/ /\ Turn(c) /\ req[c].pc = "bulk" /\ call = NoCall
        /\ \A a \in req[c].todo : ~Wanting(req[c].q, a)
  /\ disk' = mem
  /\ Done(c)
  /\ UNCHANGED <<mem, intent, books, wire, sweeps, world>>

-----------------------------------------------------------------------------
(* The expiry sweep.                                                       *)

NoSweep == [pc |-> "idle"]

Due == {w \in Acct \X {mem[a].id : a \in Acct} :
          /\ mem[w[1]].id = w[2] /\ mem[w[1]].status = "active" /\ Lapsed(mem[w[1]])}

Sweep(pc, due)         == [pc |-> pc, due |-> due]
SweepOn(pc, due, a, id) == [pc |-> pc, due |-> due, a |-> a, id |-> id]

\* The work list, read outside the mutex.
SweepStart ==
  /\ sweep.pc = "idle" /\ Due # {}
  /\ sweep' = Sweep("loop", Due)
  /\ UNCHANGED <<mem, disk, intent, books, wire, req, chain, recon, world>>

SweepQueues ==
  /\ sweep.pc = "loop"
  /\ \/ \E w \in sweep.due :
          sweep' = SweepOn("queued", sweep.due \ {w}, w[1], w[2])
     \/ sweep.due = {} /\ sweep' = Sweep("save", {})
  /\ chain' = Append(chain, "sweep")
  /\ UNCHANGED <<mem, disk, intent, books, wire, req, recon, world>>

\* disableLapsed(), inside the mutex.
SweepAsks ==
  /\ sweep.pc = "queued" /\ Turn("sweep")
  /\ call' = Call(sweep.a, "disabled")
  /\ sweep' = [sweep EXCEPT !.pc = "call"]
  /\ UNCHANGED <<mem, disk, intent, books, panel, late, req, chain, recon, world>>

Disabled(a, id) == IF mem[a].id = id THEN [mem EXCEPT ![a].status = "disabled"] ELSE mem
Kept(a, id)     == mem

\* Success flips the record; an unreachable panel abandons the tick.
SweepAnswered ==
  /\ sweep.pc = "call"
  /\ \/ PanelDoes /\ NoFault /\ mem' = Disabled(sweep.a, sweep.id)
                  /\ sweep' = Sweep("loop", sweep.due)
     \/ PanelRejects /\ NoFault /\ mem' = Kept(sweep.a, sweep.id)
                     /\ sweep' = Sweep("loop", sweep.due)
     \/ PanelSilent /\ UNCHANGED mem /\ sweep' = Sweep("loop", {})
  /\ Release
  /\ UNCHANGED <<disk, intent, books, req, recon, now, records>>

SweepSaves ==
  /\ sweep.pc = "save" /\ Turn("sweep")
  /\ disk' = mem /\ sweep' = NoSweep /\ Release
  /\ UNCHANGED <<mem, intent, books, wire, req, recon, world>>

SweepStep == SweepStart \/ SweepQueues \/ SweepAsks \/ SweepAnswered \/ SweepSaves

-----------------------------------------------------------------------------
(* The reconcile sweep.                                                    *)

NoRecon == [pc |-> "idle"]

Recon(pc, todo)          == [pc |-> pc, todo |-> todo]
ReconOn(pc, todo, a, s)  == [pc |-> pc, todo |-> todo, a |-> a, see |-> s]

\* Intents older than a minute.
StaleIntents == {a \in Acct : intent[a] = "old"}

ReconStart ==
  /\ recon.pc = "idle"
  /\ recon' = Recon("intents", StaleIntents)
  /\ UNCHANGED <<mem, disk, intent, books, wire, req, chain, sweep, world>>

\* Outside the mutex: the intent of a live account is closed, the user of any
\* other is looked up.
ReconIntent ==
  /\ recon.pc = "intents"
  /\ \E a \in recon.todo :
       IF Live(mem[a])
       THEN /\ intent' = CloseIntent(a)
            /\ recon' = Recon("intents", recon.todo \ {a})
       ELSE /\ UNCHANGED intent
            /\ recon' = ReconOn("chase", recon.todo \ {a}, a, panel[a])
  /\ UNCHANGED <<mem, disk, books, wire, req, chain, sweep, world>>

\* The look-up answers: no user, the create never landed; a user is an orphan.
ReconChases ==
  /\ recon.pc = "chase"
  /\ IF recon.see # "absent" /\ Repair
     THEN /\ chain' = Append(chain, "reconcile") /\ UNCHANGED intent
          /\ recon' = [recon EXCEPT !.pc = "orphan"]
     ELSE /\ intent' = IF recon.see = "absent" THEN CloseIntent(recon.a) ELSE intent
          /\ recon' = Recon("intents", recon.todo) /\ UNCHANGED chain
  /\ UNCHANGED <<mem, disk, books, wire, req, sweep, world>>

ReconIntentsDone ==
  /\ recon.pc = "intents" /\ recon.todo = {}
  /\ recon' = Recon("records", {w \in Acct \X {mem[a].id : a \in Acct} :
                                  mem[w[1]].id = w[2] /\ Live(mem[w[1]])})
  /\ UNCHANGED <<mem, disk, intent, books, wire, req, chain, sweep, world>>

\* The panel's user of a record that is still live; the look-up is no call of
\* the mutex.
CheckedActive(r) == r.status = "active"
Checked(r)       == Live(r)

ReconLooks ==
  /\ recon.pc = "records"
  /\ \E w \in recon.todo :
       recon' = IF Checked(Held(w[1], w[2]))
                THEN ReconOn("compare", recon.todo \ {w}, w, panel[w[1]])
                ELSE Recon("records", recon.todo \ {w})
  /\ UNCHANGED <<mem, disk, intent, books, wire, req, chain, sweep, world>>

\* The local clock's verdict on a record.
Desired(r) == IF r.status = "active" /\ ~Lapsed(r) THEN "active" ELSE "disabled"

ReconCompares ==
  /\ recon.pc = "compare"
  /\ LET want == Desired(Held(recon.a[1], recon.a[2])) IN
     IF Repair /\ recon.see \notin {"absent", want}
     THEN /\ chain' = Append(chain, "reconcile")
          /\ recon' = ReconOn("repair", recon.todo, recon.a[1], want)
     ELSE UNCHANGED chain /\ recon' = Recon("records", recon.todo)
  /\ UNCHANGED <<mem, disk, intent, books, wire, req, sweep, world>>

ReconAsks ==
  /\ recon.pc \in {"orphan", "repair"} /\ Turn("reconcile")
  /\ call' = Call(recon.a, IF recon.pc = "orphan" THEN "disabled" ELSE recon.see)
  /\ recon' = [recon EXCEPT !.pc = IF recon.pc = "orphan" THEN "orphanCall" ELSE "repairCall"]
  /\ UNCHANGED <<mem, disk, intent, books, panel, late, req, chain, sweep, world>>

\* An orphan that was disabled, or is gone, is no longer chased.
ReconAnswered ==
  /\ recon.pc \in {"orphanCall", "repairCall"}
  /\ \/ /\ (PanelDoes \/ PanelRejects) /\ NoFault
        /\ intent' = IF recon.pc = "orphanCall" THEN CloseIntent(recon.a) ELSE intent
     \/ PanelSilent /\ UNCHANGED intent
  /\ recon' = Recon(IF recon.pc = "orphanCall" THEN "intents" ELSE "records", recon.todo)
  /\ Release
  /\ UNCHANGED <<mem, disk, books, req, sweep, now, records>>

ReconEnds ==
  /\ recon.pc = "records" /\ recon.todo = {}
  /\ IF Repair THEN chain' = Append(chain, "reconcile") /\ recon' = Recon("save", {})
               ELSE UNCHANGED chain /\ recon' = NoRecon
  /\ UNCHANGED <<mem, disk, intent, books, wire, req, sweep, world>>

ReconSaves ==
  /\ recon.pc = "save" /\ Turn("reconcile")
  /\ disk' = mem /\ recon' = NoRecon /\ Release
  /\ UNCHANGED <<mem, intent, books, wire, req, sweep, world>>

ReconStep ==
  \/ ReconStart \/ ReconIntent \/ ReconChases \/ ReconIntentsDone \/ ReconLooks
  \/ ReconCompares \/ ReconAsks \/ ReconAnswered \/ ReconEnds \/ ReconSaves

-----------------------------------------------------------------------------
(* Time, late calls, crashes.                                              *)

\* A tick is more than a minute: a call is answered or given up before two
\* pass, and one that was given up has landed, or never will.
Creating(a) == \E c \in Client : req[c] # Idle /\ req[c].q.op \in {"activate", "trial"}
                                   /\ req[c].q.a = a /\ req[c].pc \in
                                     ({"create"} \union
                                      IF "slowDecorate" \in Faults THEN {} ELSE {"decorate"})

Tick ==
  /\ now < Horizon /\ late = {}
  /\ now' = now + 1
  /\ intent' = [a \in Acct |-> IF intent[a] = "fresh" /\ ~Creating(a)
                               THEN "old" ELSE intent[a]]
  /\ UNCHANGED <<mem, disk, books, wire, req, chain, sweeps, records, faults>>

LateLands ==
  /\ \E k \in late :
       /\ late' = late \ {k}
       /\ panel' = IF Rejected(k) THEN panel ELSE After(k)
  /\ UNCHANGED <<mem, disk, intent, books, call, req, chain, sweeps, world>>

LateLost ==
  /\ \E k \in late : late' = late \ {k}
  /\ UNCHANGED <<mem, disk, intent, books, panel, call, req, chain, sweeps, world>>

Restart ==
  /\ mem' = disk'
  /\ req' = [c \in Client |-> Idle] /\ chain' = <<>>
  /\ sweep' = NoSweep /\ recon' = NoRecon
  /\ UNCHANGED <<intent, now, records>>

\* Killed and started again: the panel may not have heard the last call yet.
Crash ==
  /\ Fault("crash")
  /\ late' = late \union ({call} \ {NoCall}) /\ call' = NoCall
  /\ UNCHANGED <<panel, disk, books>>
  /\ Restart

\* Killed in the last stretch of an operation: the ledger line is written
\* first, the registry after it.
SaveFirst(c)   == disk' = MemAfter(c) /\ (Booked(c) \/ UNCHANGED <<bal, paid, granted>>)
LedgerFirst(c) == Booked(c) /\ (disk' = disk \/ disk' = MemAfter(c))

CrashInFinish(c) ==
  /\ Finishes(c) /\ LedgerFirst(c) /\ Fault("crash")
  /\ Restart
  /\ UNCHANGED told

Init ==
  /\ now = 0
  /\ mem = [a \in Acct |-> NoRecord] /\ disk = mem
  /\ intent = [a \in Acct |-> "none"]
  /\ bal = Credits
  /\ paid = [a \in Acct |-> 0] /\ granted = paid /\ told = paid
  /\ panel = [a \in Acct |-> IF a \in Foreign THEN "active" ELSE "absent"]
  /\ call = NoCall /\ late = {}
  /\ req = [c \in Client |-> Idle] /\ chain = <<>>
  /\ sweep = NoSweep /\ recon = NoRecon
  /\ records = 0 /\ faults = 0

Serve(c) ==
  \/ Refuse(c) \/ StartCreate(c) \/ Created(c) \/ CreateFails(c)
  \/ StartEnable(c) \/ StartStatus(c) \/ StartDelete(c) \/ AskFails(c)
  \/ Finish(c) \/ FinishFails(c)
  \/ BulkAsks(c) \/ BulkAnswer(c) \/ BulkEnd(c)

Next ==
  \/ \E c \in Client : Arrive(c) \/ Serve(c) \/ CrashInFinish(c)
  \/ SweepStep \/ ReconStep
  \/ Tick \/ LateLands \/ LateLost \/ Crash

Spec == Init /\ [][Next]_vars

\* Handlers run on, calls are answered or given up, and both sweeps come
\* round again on their timers.
FairSpec == Spec /\ (\A c \in Client : WF_vars(Serve(c))) /\ WF_vars(SweepStep) /\ WF_vars(ReconStep)

-----------------------------------------------------------------------------
(* Properties.                                                             *)

IsRecord(r) ==
  /\ r = [id |-> r.id, owner |-> r.owner, kind |-> r.kind, status |-> r.status,
          expires |-> r.expires]
  /\ r.id \in Nat /\ r.owner \in Principal \union {NoOwner} /\ r.kind \in {"paid", "trial"}
  /\ r.status \in {"active", "disabled", "deleted"} /\ r.expires \in Nat
  /\ Live(r) => r.id # 0 /\ r.owner \in Principal

TypeOK ==
  /\ now \in Nat /\ records \in Nat /\ faults \in Nat
  /\ DOMAIN mem = Acct /\ DOMAIN disk = Acct
  /\ \A a \in Acct : IsRecord(mem[a]) /\ IsRecord(disk[a])
  /\ intent \in [Acct -> {"none", "fresh", "old"}]
  /\ panel \in [Acct -> {"absent", "active", "disabled"}]
  /\ bal \in [Reseller -> Int]
  /\ \A i \in DOMAIN chain : chain[i] \in Client \union {"sweep", "reconcile"}

\* A reseller never goes below zero: the credits a payer was checked to hold
\* before the panel was asked are still there when they are debited
\* (accounts.js:4-5, "as one uninterleaved sequence").
NoOverdraft == \A p \in Reseller : bal[p] >= 0

\* The registry on disk never promises an account more time than was paid
\* for, given as a trial, or given by an admin (accounts.js:7-9, "money/registry
\* commit only on its OK").
CoverageIsGranted == \A a \in Acct : Live(disk[a]) => disk[a].expires <= granted[a]

\* What an answered request promised is still in the registry after a crash
\* (docs, "the local ledger and registry commit").
PromiseKept == \A a \in Acct : Live(disk[a]) => disk[a].expires >= told[a]

\* As long as no append fails, deleting an account never gives back more months
\* than were paid for it (control-server.js:732, "Credits come from nothing
\* exactly here").
RefundsWithinPaid == faults = 0 => \A a \in Acct : paid[a] >= 0

\* An active panel user the service made is known to it, by a live record or
\* by an intent to chase (accounts.js:18-22).
NoOrphan ==
  \A a \in Acct \ Foreign :
    panel[a] = "active" => Live(mem[a]) \/ intent[a] # "none"
      \/ \E c \in Client : req[c] # Idle /\ req[c].pc = "delete" /\ req[c].q.a = a

\* A creation that is not committed is in the journal, so a crash leaves
\* something to chase (accounts.js:51-53).
JournalBrackets ==
  \A c \in Client : req[c] # Idle /\ req[c].pc \in {"create", "decorate"}
    => intent[req[c].q.a] # "none"

\* Panel users that are not the service's are left alone (docs: they "are
\* invisible to the reseller panel entirely").
ForeignUntouched == \A a \in Foreign : panel[a] = "active"

\* A deleted record stays deleted: what comes back under its name is another.
DeletedStaysDeleted ==
  [][\A a \in Acct : mem'[a].id = mem[a].id /\ ~Live(mem[a]) => ~Live(mem'[a])]_vars

\* The expiry sweep disables only lapsed subscriptions (sweeps.js:4-6).
SweepCutsOnlyLapsed ==
  [][sweep.pc = "call" /\ panel' # panel /\ chain' # chain /\ Live(mem[sweep.a])
       => Lapsed(mem[sweep.a])]_vars

\* A subscription that has lapsed is ended at the panel, or renewed or
\* deleted (sweeps.js:3-4, "nothing ends a lapsed subscription except this").
LapsedIsCutOff ==
  \A a \in Acct :
    Live(mem[a]) /\ Lapsed(mem[a]) /\ panel[a] = "active"
      ~> panel[a] # "active" \/ ~Live(mem[a]) \/ ~Lapsed(mem[a])

\* Suspending a principal with its accounts leaves none of them active, lapsed
\* or not (accounts.js:383-385).
SuspendReachesAll ==
  [][\A c \in Client :
       req[c] # Idle /\ req[c].q.op = "disableAll" /\ req'[c] = Idle /\ faults' = 0
         => \A a \in Acct : mem'[a].owner = req[c].q.owner => mem'[a].status # "active"]_vars

\* A request gets its answer whatever the panel does.
Answered == \A c \in Client : req[c] # Idle ~> req[c] = Idle
=============================================================================
