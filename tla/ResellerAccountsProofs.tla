------------------------ MODULE ResellerAccountsProofs ------------------------
(***************************************************************************)
(* What the mutex of the reseller panel is worth, for any number of        *)
(* accounts, principals, requests, faults and crashes: no reseller is      *)
(* debited below zero though the panel is awaited between the check and    *)
(* the debit, and the registry on disk promises no time that was not       *)
(* granted though two sweeps save it beside the requests; a deleted        *)
(* account stays deleted though a sweep may still hold it; no record lives *)
(* that was never made; no deletion gives back months that nobody paid; a  *)
(* suspension misses no account; every creation under way is in the        *)
(* journal; and the users of others are left alone.                        *)
(***************************************************************************)
EXTENDS ResellerAccounts, TLAPS

\* The requests of some operations.
Of(ops) == {q \in Requests : q.op \in ops}

Makes == {"activate", "trial"}
Bulk     == {"disableAll", "enableAll"}

States  == {"absent", "active", "disabled"}
Records == [id : Nat, owner : Principal \union {NoOwner}, kind : {"paid", "trial"},
            status : {"active", "disabled", "deleted"}, expires : Nat]
Calls   == [a : Acct, eff : {"create", "active", "disabled", "delete"}]
Work    == Acct \X Nat

Reqs ==
  {Idle}
  \union [pc : {"queued"}, q : Requests]
  \union [pc : {"create", "decorate"}, q : Of(Makes), at : Nat]
  \union [pc : {"enable"}, q : Of({"renew"}), at : Nat]
  \union [pc : {"status"}, q : Of({"suspend", "resume"}), at : Nat]
  \union [pc : {"delete"}, q : Of({"remove"}), at : Nat]
  \union [pc : {"bulk"}, q : Of(Bulk), at : Nat, todo : SUBSET Acct]

Sweeps ==
  {NoSweep}
  \union [pc : {"loop", "save"}, due : SUBSET Work]
  \union [pc : {"queued", "call"}, due : SUBSET Work, a : Acct, id : Nat]

Recons ==
  {NoRecon}
  \union [pc : {"intents"}, todo : SUBSET Acct]
  \union [pc : {"chase", "orphan", "orphanCall"}, todo : SUBSET Acct, a : Acct, see : States]
  \union [pc : {"records", "save"}, todo : SUBSET (Acct \X Nat)]
  \union [pc : {"compare"}, todo : SUBSET (Acct \X Nat), a : Acct \X Nat, see : States]
  \union [pc : {"repair", "repairCall"}, todo : SUBSET (Acct \X Nat), a : Acct,
          see : {"active", "disabled"}]

Procs == Client \union {"sweep", "reconcile"}

\* The shapes of the variables, the queue of the mutex aside.
Shapes ==
  /\ now \in Nat /\ records \in Nat /\ faults \in Nat
  /\ mem \in [Acct -> Records] /\ disk \in [Acct -> Records]
  /\ intent \in [Acct -> {"none", "fresh", "old"}]
  /\ bal \in [Reseller -> Int] /\ granted \in [Acct -> Nat]
  /\ panel \in [Acct -> States]
  /\ call \in Calls \union {NoCall} /\ late \subseteq Calls
  /\ req \in [Client -> Reqs]
  /\ sweep \in Sweeps /\ recon \in Recons

-----------------------------------------------------------------------------
(* What the shapes say. *)

\* What a request carries.
LEMMA RequestShape ==
  ASSUME NEW q \in Requests
  PROVE  /\ q.op \in AllOps /\ q.me \in Principal
         /\ q.op \in {"activate", "renew"} => q.n \in Nat \ {0}
         /\ q.op \notin Bulk => q.a \in Acct
         /\ q.op \in Bulk => q.owner \in Principal
<1>1. Months \subseteq Nat \ {0}
  BY MonthAssumption
<1>2. AdminTier \subseteq Principal
  BY DEF Principal
<1> QED BY <1>1, <1>2 DEF Requests, AllOps, Bulk

\* What is kept of a request in flight, by where it is.
LEMMA ReqShape ==
  ASSUME NEW r \in Reqs
  PROVE  /\ r.pc \in {"idle", "queued", "create", "decorate", "enable", "status", "delete", "bulk"}
         /\ r.pc = "idle" <=> r = Idle
         /\ r.pc # "idle" => r.q \in Requests
         /\ r.pc \in {"create", "decorate"} => r.q.op \in Makes
         /\ r.pc = "enable" => r.q.op = "renew"
         /\ r.pc = "status" => r.q.op \in {"suspend", "resume"}
         /\ r.pc = "delete" => r.q.op = "remove"
         /\ r.pc = "bulk" => r.q.op \in Bulk /\ r.todo \in SUBSET Acct
         /\ r.pc \notin {"idle", "queued"} => r.at \in Nat
  BY DEF Reqs, Idle, Of

\* The states of a request there can be.
LEMMA ReqIn ==
  ASSUME NEW q \in Requests, NEW at \in Nat, NEW todo \in SUBSET Acct
  PROVE  /\ Idle \in Reqs
         /\ [pc |-> "queued", q |-> q] \in Reqs
         /\ q.op \in Makes => [pc |-> "create", q |-> q, at |-> at] \in Reqs
         /\ q.op \in Makes => [pc |-> "decorate", q |-> q, at |-> at] \in Reqs
         /\ q.op = "renew" => [pc |-> "enable", q |-> q, at |-> at] \in Reqs
         /\ q.op \in {"suspend", "resume"} => [pc |-> "status", q |-> q, at |-> at] \in Reqs
         /\ q.op = "remove" => [pc |-> "delete", q |-> q, at |-> at] \in Reqs
         /\ q.op \in Bulk => [pc |-> "bulk", q |-> q, at |-> at, todo |-> todo] \in Reqs
  BY DEF Reqs, Of

\* What a sweep keeps.
LEMMA SweepShape ==
  ASSUME NEW s \in Sweeps
  PROVE  /\ s.pc \in {"idle", "loop", "save", "queued", "call"}
         /\ s.pc = "idle" <=> s = NoSweep
         /\ s.pc # "idle" => s.due \in SUBSET Work
         /\ s.pc \in {"queued", "call"} => s.a \in Acct /\ s.id \in Nat
  BY DEF Sweeps, NoSweep

\* The sweeps there can be.
LEMMA SweepIn ==
  ASSUME NEW due \in SUBSET Work, NEW a \in Acct, NEW id \in Nat
  PROVE  /\ NoSweep \in Sweeps
         /\ Sweep("loop", due) \in Sweeps /\ Sweep("save", due) \in Sweeps
         /\ SweepOn("queued", due, a, id) \in Sweeps
         /\ SweepOn("call", due, a, id) \in Sweeps
  BY DEF Sweeps, Sweep, SweepOn

\* A sweep that asks the panel goes on with what it had.
LEMMA SweepAsking ==
  ASSUME NEW s \in Sweeps, s.pc = "queued"
  PROVE  [s EXCEPT !.pc = "call"] = SweepOn("call", s.due, s.a, s.id)
<1>1. s \in [pc : {"queued", "call"}, due : SUBSET Work, a : Acct, id : Nat]
  BY DEF Sweeps, NoSweep
<1> QED BY <1>1 DEF SweepOn

\* What a reconcile keeps.
LEMMA ReconShape ==
  ASSUME NEW s \in Recons
  PROVE  /\ s.pc \in {"idle", "intents", "chase", "orphan", "orphanCall", "records", "save",
                      "compare", "repair", "repairCall"}
         /\ s.pc \in {"intents", "chase", "orphan", "orphanCall"} => s.todo \in SUBSET Acct
         /\ s.pc \in {"records", "save", "compare", "repair", "repairCall"}
              => s.todo \in SUBSET (Acct \X Nat)
         /\ s.pc \in {"chase", "orphan", "orphanCall", "repair", "repairCall"} => s.a \in Acct
         /\ s.pc = "compare" => s.a \in Acct \X Nat
         /\ s.pc \in {"chase", "orphan", "orphanCall", "compare"} => s.see \in States
         /\ s.pc \in {"repair", "repairCall"} => s.see \in {"active", "disabled"}
  BY DEF Recons, NoRecon

\* The reconciles there can be.
LEMMA ReconIn ==
  ASSUME NEW todo \in SUBSET Acct, NEW left \in SUBSET (Acct \X Nat), NEW a \in Acct,
         NEW w \in Acct \X Nat, NEW see \in States, NEW want \in {"active", "disabled"}
  PROVE  /\ NoRecon \in Recons
         /\ Recon("intents", todo) \in Recons
         /\ ReconOn("chase", todo, a, see) \in Recons
         /\ ReconOn("orphan", todo, a, see) \in Recons
         /\ ReconOn("orphanCall", todo, a, see) \in Recons
         /\ Recon("records", left) \in Recons /\ Recon("save", left) \in Recons
         /\ ReconOn("compare", left, w, see) \in Recons
         /\ ReconOn("repair", left, a, want) \in Recons
         /\ ReconOn("repairCall", left, a, want) \in Recons
  BY DEF Recons, Recon, ReconOn

\* A reconcile whose turn comes goes on with what it had.
LEMMA ReconMoves ==
  ASSUME NEW s \in Recons, NEW pc
  PROVE  /\ s.pc \in {"chase", "orphan"} => [s EXCEPT !.pc = pc] = ReconOn(pc, s.todo, s.a, s.see)
         /\ s.pc = "repair" => [s EXCEPT !.pc = pc] = ReconOn(pc, s.todo, s.a, s.see)
<1>1. ASSUME s.pc \in {"chase", "orphan"}
      PROVE  s \in [pc : {"chase", "orphan", "orphanCall"}, todo : SUBSET Acct, a : Acct, see : States]
  BY <1>1 DEF Recons, NoRecon
<1>2. ASSUME s.pc = "repair"
      PROVE  s \in [pc : {"repair", "repairCall"}, todo : SUBSET (Acct \X Nat), a : Acct,
                    see : {"active", "disabled"}]
  BY <1>2 DEF Recons, NoRecon
<1> QED BY <1>1, <1>2 DEF ReconOn

\* The queue of the mutex.
LEMMA QueueShape ==
  ASSUME NEW s \in Seq(Procs), NEW p \in Procs
  PROVE  /\ Append(s, p) \in Seq(Procs)
         /\ s # <<>> => Append(s, p) # <<>> /\ Head(Append(s, p)) = Head(s)
         /\ s # <<>> => Tail(s) \in Seq(Procs)
OBVIOUS

\* A price of some months, and the months that remain.
LEMMA MonthsCount ==
  /\ \A n \in Nat : n * MonthTicks \in Nat
  /\ \A r \in Records : now \in Nat => RemainingMonths(r) \in Nat
<1>1. MonthTicks \in Nat /\ MonthTicks > 0
  BY MonthAssumption
<1>2. \A n, m \in Nat : n * m \in Nat
  OBVIOUS
<1>3. \A n, m \in Nat : m > 0 => n \div m \in Nat
  OBVIOUS
<1>4. ASSUME NEW r \in Records, now \in Nat PROVE RemainingMonths(r) \in Nat
  <2>1. r.expires \in Nat
    BY DEF Records
  <2>2. CASE r.expires <= now
    BY <2>2 DEF RemainingMonths, Lapsed
  <2>3. CASE ~(r.expires <= now)
    <3>1. r.expires - now \in Nat
      BY <1>4, <2>1, <2>3
    <3> QED BY <1>1, <1>3, <2>3, <3>1 DEF RemainingMonths, Lapsed
  <2> QED BY <2>2, <2>3
<1> QED BY <1>1, <1>2, <1>4

-----------------------------------------------------------------------------
(* Every step keeps the shapes. *)

\* Whatever a call comes to.
LEMMA WireShape ==
  ASSUME Shapes, PanelDoes \/ PanelRejects \/ PanelSilent \/ UNCHANGED wire
  PROVE  panel' \in [Acct -> States] /\ call' \in Calls \union {NoCall} /\ late' \subseteq Calls
<1>1. call # NoCall => call \in Calls
  BY DEF Shapes
<1>2. CASE PanelDoes
  <2>1. call \in Calls /\ panel' = After(call) /\ call' = NoCall /\ late' = late
    BY <1>1, <1>2 DEF PanelDoes
  <2>2. After(call) \in [Acct -> States]
    BY <2>1 DEF After, Calls, States, Shapes
  <2> QED BY <2>1, <2>2 DEF Shapes
<1>3. CASE PanelRejects
  BY <1>3 DEF PanelRejects, Shapes
<1>4. CASE PanelSilent
  BY <1>1, <1>4 DEF PanelSilent, Shapes
<1>5. CASE UNCHANGED wire
  BY <1>5 DEF wire, Shapes
<1> QED BY <1>2, <1>3, <1>4, <1>5

\* Who reaches the last stretch of an operation, and with what.
LEMMA FinishShape ==
  ASSUME Shapes, NEW c \in Client, Finishes(c)
  PROVE  /\ req[c].q \in Requests /\ req[c].q.a \in Acct
         /\ \/ req[c].pc = "decorate" /\ req[c].q.op \in Makes
            \/ req[c].pc \in {"queued", "enable"} /\ req[c].q.op = "renew"
            \/ req[c].pc = "status" /\ req[c].q.op \in {"suspend", "resume"}
            \/ req[c].pc = "delete" /\ req[c].q.op = "remove"
         /\ Turn(c)
         /\ req[c].pc = "queued" => Accepted(req[c].q)
         /\ panel' \in [Acct -> States] /\ call' \in Calls \union {NoCall} /\ late' \subseteq Calls
<1>1. req[c] \in Reqs
  BY DEF Shapes
<1>2. /\ req[c].pc \in {"decorate", "queued", "enable", "status", "delete"}
      /\ req[c].pc = "queued" => req[c].q.op = "renew" /\ Accepted(req[c].q)
      /\ Turn(c)
  BY DEF Finishes, Accepts
<1>3. /\ req[c].q \in Requests
      /\ req[c].pc = "decorate" => req[c].q.op \in Makes
      /\ req[c].pc = "enable" => req[c].q.op = "renew"
      /\ req[c].pc = "status" => req[c].q.op \in {"suspend", "resume"}
      /\ req[c].pc = "delete" => req[c].q.op = "remove"
  BY <1>1, <1>2, ReqShape
<1>4. req[c].q.op \notin Bulk
  BY <1>2, <1>3 DEF Makes, Bulk
<1>5. req[c].q.a \in Acct
  BY <1>3, <1>4, RequestShape
<1>6. panel' \in [Acct -> States] /\ call' \in Calls \union {NoCall} /\ late' \subseteq Calls
  BY WireShape DEF Finishes
<1> QED BY <1>2, <1>3, <1>5, <1>6

\* What it makes of the record, and what it costs.
LEMMA RecordShape ==
  ASSUME Shapes, NEW c \in Client, Finishes(c)
  PROVE  /\ RecordAfter(c) \in Records /\ RecordAfter(c).id = mem[req[c].q.a].id
         /\ RecordAfter(c).owner = mem[req[c].q.a].owner
         /\ RecordAfter(c).expires >= mem[req[c].q.a].expires
         /\ req[c].q.op # "renew" => RecordAfter(c).expires = mem[req[c].q.a].expires
         /\ req[c].q.op = "remove" => ~Live(RecordAfter(c))
         /\ req[c].q.op # "remove" /\ Live(mem[req[c].q.a]) => Live(RecordAfter(c))
         /\ Price(c) \in Nat /\ Refund(c) \in Nat
         /\ Price(c) # 0 => /\ Price(c) = req[c].q.n /\ Pays(req[c].q) /\ Refund(c) = 0
                            /\ req[c].q.op \in {"activate", "renew"}
         /\ MemAfter(c) \in [Acct -> Records]
<1> DEFINE q == req[c].q
           r == mem[q.a]
<1>1. /\ q \in Requests /\ q.a \in Acct
      /\ q.op \in {"activate", "trial", "renew", "suspend", "resume", "remove"}
  BY FinishShape DEF Makes
<1>2. r \in Records /\ r.expires \in Nat
  BY <1>1 DEF Shapes, Records
<1>3. q.op \in {"activate", "renew"} => q.n \in Nat \ {0}
  BY <1>1, RequestShape
<1>4. RenewedAt(c) \in Nat
  <2>1. req[c] \in Reqs /\ now \in Nat
    BY DEF Shapes
  <2>2. req[c].pc \notin {"idle", "queued"} => req[c].at \in Nat
    BY <2>1, ReqShape
  <2>3. req[c].pc # "idle"
    BY FinishShape
  <2> QED BY <2>1, <2>2, <2>3 DEF RenewedAt
<1>5. q.op = "renew" => q.n * MonthTicks \in Nat
  BY <1>3, MonthsCount
<1>r. RefundDue(r) \in Nat
  BY <1>2, MonthsCount DEF RefundDue, Shapes
<1>6. Price(c) \in Nat /\ Refund(c) \in Nat
  BY <1>1, <1>3, <1>r DEF Price, Refund
<1>7. Price(c) # 0 => /\ Price(c) = q.n /\ Pays(q) /\ Refund(c) = 0
                      /\ q.op \in {"activate", "renew"}
  BY <1>1 DEF Price, Refund
<1> HIDE DEF q, r
<1>8. CASE q.op = "renew"
  <2> DEFINE e == Later(RenewedAt(c), r.expires) + q.n * MonthTicks
  <2>1. e \in Nat /\ e >= r.expires
    BY <1>2, <1>4, <1>5, <1>8 DEF Later
  <2> HIDE DEF e
  <2>2. RecordAfter(c) = [r EXCEPT !.status = IF req[c].pc = "enable" THEN "active" ELSE r.status,
                                   !.expires = e, !.kind = "paid"]
    BY <1>8 DEF RecordAfter, q, r, e
  <2>3. /\ RecordAfter(c) \in Records /\ RecordAfter(c).expires = e /\ RecordAfter(c).id = r.id
        /\ RecordAfter(c).owner = r.owner
        /\ RecordAfter(c).status = IF req[c].pc = "enable" THEN "active" ELSE r.status
    BY <1>2, <2>1, <2>2 DEF Records
  <2>4. MemAfter(c) \in [Acct -> Records]
    BY <1>1, <2>3 DEF MemAfter, Shapes, q
  <2> QED BY <1>6, <1>7, <1>8, <2>1, <2>3, <2>4 DEF q, r, Live
<1>9. CASE q.op # "renew"
  <2>1. /\ q.op \in {"activate", "trial"} => RecordAfter(c) = r
        /\ q.op = "suspend" => RecordAfter(c) = [r EXCEPT !.status = "disabled"]
        /\ q.op = "resume" => RecordAfter(c) = [r EXCEPT !.status = "active"]
        /\ q.op = "remove" => RecordAfter(c) = [r EXCEPT !.status = "deleted"]
    BY <1>1, <1>9 DEF RecordAfter, q, r
  <2>2. /\ RecordAfter(c) \in Records /\ RecordAfter(c).expires = r.expires
        /\ RecordAfter(c).id = r.id /\ RecordAfter(c).owner = r.owner
        /\ RecordAfter(c).status = CASE q.op \in {"activate", "trial"} -> r.status
                                     [] q.op = "suspend" -> "disabled"
                                     [] q.op = "resume" -> "active"
                                     [] q.op = "remove" -> "deleted"
    BY <1>1, <1>2, <1>9, <2>1 DEF Records
  <2>3. MemAfter(c) \in [Acct -> Records]
    BY <1>1, <2>2 DEF MemAfter, Shapes, q
  <2>4. /\ q.op = "remove" => ~Live(RecordAfter(c))
        /\ q.op # "remove" /\ Live(r) => Live(RecordAfter(c))
    BY <1>1, <1>9, <2>2 DEF Live
  <2> QED BY <1>2, <1>6, <1>7, <1>9, <2>2, <2>3, <2>4 DEF q, r
<1> QED BY <1>8, <1>9

\* What it does to the books.
LEMMA BookedShape ==
  ASSUME Shapes, NEW c \in Client, Finishes(c), Booked(c)
  PROVE  bal' \in [Reseller -> Int] /\ granted' \in [Acct -> Nat]
<1>1. /\ req[c].q.a \in Acct /\ RecordAfter(c) \in Records
      /\ Price(c) \in Nat /\ Refund(c) \in Nat
  BY FinishShape, RecordShape
<1>2. bal' = BalAfter(c) /\ granted' = [granted EXCEPT ![req[c].q.a] = RecordAfter(c).expires]
  BY DEF Booked
<1>3. BalAfter(c) \in [Reseller -> Int]
  BY <1>1 DEF BalAfter, Shapes
<1>4. RecordAfter(c).expires \in Nat
  BY <1>1 DEF Records
<1> QED BY <1>1, <1>2, <1>3, <1>4 DEF Shapes

\* Every step keeps the shapes.
LEMMA ShapesStep == Shapes /\ [Next]_vars => Shapes'
<1> SUFFICES ASSUME Shapes, [Next]_vars PROVE Shapes'
  OBVIOUS
<1>p. Client \subseteq Procs /\ "sweep" \in Procs /\ "reconcile" \in Procs
  BY DEF Procs
<1>n. \A f : Fault(f) => faults' \in Nat
  BY DEF Fault, Shapes
<1>m. NoFault => faults' \in Nat
  BY DEF NoFault, Shapes
<1>r. \A r \in Records, s \in {"active", "disabled", "deleted"} : [r EXCEPT !.status = s] \in Records
  BY DEF Records
<1>d. /\ \A a \in Acct : mem[a].id \in Nat
      /\ \A a \in Acct : mem[a] \in Records /\ mem[a].status \in {"active", "disabled", "deleted"}
  BY DEF Shapes, Records
<1>b. call \in Calls \union {NoCall} /\ late \subseteq Calls /\ panel \in [Acct -> States]
  BY DEF Shapes
<1>k. \A a \in Acct, e \in {"create", "active", "disabled", "delete"} : Call(a, e) \in Calls
  BY DEF Call, Calls
<1>i. Idle \in Reqs
  BY DEF Reqs
<1>q. \A c \in Client : req[c] \in Reqs
  BY DEF Shapes
<1>1. ASSUME NEW c \in Client, Arrive(c) PROVE Shapes'
  <2>1. PICK q \in Requests : req' = [req EXCEPT ![c] = [pc |-> "queued", q |-> q]]
    BY <1>1 DEF Arrive
  <2>2. [pc |-> "queued", q |-> q] \in Reqs
    BY DEF Reqs
  <2>3. req' \in [Client -> Reqs]
    BY <1>1, <2>1, <2>2 DEF Arrive, Shapes
  <2> QED BY <1>1, <2>3 DEF Arrive, Shapes, books, wire, sweeps, world
<1>2. ASSUME NEW c \in Client, Turn(c), Done(c)
      PROVE  req' \in [Client -> Reqs]
  BY <1>2, <1>i DEF Done, Shapes
<1>3. ASSUME NEW c \in Client, Refuse(c) PROVE Shapes'
  <2>1. req' \in [Client -> Reqs]
    BY <1>2, <1>3 DEF Refuse
  <2> QED BY <1>3, <2>1 DEF Refuse, Shapes, books, wire, sweeps, world
<1>4. ASSUME NEW c \in Client, NEW op \in AllOps, Accepts(c, op)
      PROVE  /\ req[c].q \in Requests /\ req[c].q.op = op /\ req[c].pc = "queued"
             /\ op \notin Bulk => req[c].q.a \in Acct
  BY <1>4, <1>q, ReqShape, RequestShape DEF Accepts
<1>5. ASSUME NEW c \in Client, NEW pc, NEW k \in Calls, Asks(c, pc, k),
             [pc |-> pc, q |-> req[c].q, at |-> now] \in Reqs
      PROVE  /\ req' \in [Client -> Reqs] /\ call' \in Calls \union {NoCall}
             /\ UNCHANGED <<panel, late, chain>>
  BY <1>5 DEF Asks, Shapes
<1>6. ASSUME NEW c \in Client, StartCreate(c) PROVE Shapes'
  <2>1. /\ req[c].q \in Requests /\ req[c].q.op \in Makes /\ req[c].q.a \in Acct
    BY <1>4, <1>6 DEF StartCreate, AllOps, Bulk, Makes
  <2>2. [pc |-> "create", q |-> req[c].q, at |-> now] \in Reqs /\ Call(req[c].q.a, "create") \in Calls
    BY <1>k, <2>1, ReqIn DEF Shapes
  <2>3. intent' \in [Acct -> {"none", "fresh", "old"}]
    BY <1>6 DEF StartCreate, Shapes
  <2>4. /\ req' \in [Client -> Reqs] /\ call' \in Calls \union {NoCall}
        /\ UNCHANGED <<panel, late, chain>>
    BY <1>5, <1>6, <2>2 DEF StartCreate
  <2> QED BY <1>6, <2>3, <2>4 DEF StartCreate, Shapes, books, sweeps, world
<1>7. ASSUME NEW c \in Client, Created(c) PROVE Shapes'
  <2>1. /\ req[c].q \in Requests /\ req[c].q.op \in Makes /\ req[c].q.me \in Principal
        /\ req[c].q.a \in Acct
    BY <1>7, <1>q, ReqShape, RequestShape DEF Created, Makes, Bulk
  <2>2. now + (IF req[c].q.op = "trial" THEN TrialTicks ELSE req[c].q.n * MonthTicks) \in Nat
    <3>1. req[c].q.op = "trial" => TrialTicks \in Nat
      BY MonthAssumption
    <3>2. req[c].q.op # "trial" => req[c].q.n * MonthTicks \in Nat
      BY <2>1, RequestShape, MonthsCount DEF Makes
    <3> QED BY <3>1, <3>2 DEF Shapes
  <2>3. NewRecord(req[c].q) \in Records
    BY <2>1, <2>2 DEF NewRecord, NextId, Records, Shapes
  <2>4. mem' \in [Acct -> Records] /\ records' \in Nat
    <3>1. mem' = [mem EXCEPT ![req[c].q.a] = NewRecord(req[c].q)] /\ records' = records + 1
      BY <1>7 DEF Created
    <3>2. mem' \in [Acct -> Records]
      BY <2>3, <3>1 DEF Shapes
    <3>3. records' \in Nat
      BY <3>1 DEF Shapes
    <3> QED BY <3>2, <3>3
  <2>5. [pc |-> "decorate", q |-> req[c].q, at |-> now] \in Reqs
    BY <2>1, ReqIn DEF Shapes
  <2>6. req' \in [Client -> Reqs]
    BY <1>7, <2>5 DEF Created, Shapes
  <2>7. panel' \in [Acct -> States] /\ call' \in Calls \union {NoCall} /\ late' \subseteq Calls
    BY <1>7, WireShape DEF Created, CreateLands
  <2> QED BY <1>7, <1>m, <2>4, <2>6, <2>7 DEF Created, Shapes, books, sweeps
<1>8. ASSUME NEW c \in Client, CreateFails(c) PROVE Shapes'
  <2>1. req' \in [Client -> Reqs]
    BY <1>2, <1>8 DEF CreateFails
  <2>2. panel' \in [Acct -> States] /\ call' \in Calls \union {NoCall} /\ late' \subseteq Calls
    BY <1>8, WireShape DEF CreateFails
  <2>3. intent' \in [Acct -> {"none", "fresh", "old"}]
    BY <1>8 DEF CreateFails, CloseIntent, Shapes
  <2>4. faults' \in Nat
    BY <1>8, <1>n, <1>m DEF CreateFails, PanelSilent
  <2> QED BY <1>8, <2>1, <2>2, <2>3, <2>4 DEF CreateFails, Shapes, books, sweeps
<1>9. ASSUME NEW c \in Client, StartEnable(c) \/ StartStatus(c) \/ StartDelete(c) PROVE Shapes'
  <2>1. \E pc : \E k \in Calls :
          Asks(c, pc, k) /\ [pc |-> pc, q |-> req[c].q, at |-> now] \in Reqs
    <3>1. CASE StartEnable(c)
      <4>1. req[c].q \in Requests /\ req[c].q.op = "renew" /\ req[c].q.a \in Acct
        BY <3>1, <1>4 DEF StartEnable, AllOps, Bulk
      <4>2. Call(req[c].q.a, "active") \in Calls /\ [pc |-> "enable", q |-> req[c].q, at |-> now] \in Reqs
        BY <4>1, <1>k, ReqIn DEF Shapes
      <4> QED BY <3>1, <4>2 DEF StartEnable
    <3>2. CASE StartStatus(c)
      <4>1. req[c].q \in Requests /\ req[c].q.op \in {"suspend", "resume"} /\ req[c].q.a \in Acct
        BY <3>2, <1>4 DEF StartStatus, AllOps, Bulk
      <4>2. /\ Call(req[c].q.a, "active") \in Calls /\ Call(req[c].q.a, "disabled") \in Calls
            /\ [pc |-> "status", q |-> req[c].q, at |-> now] \in Reqs
        BY <4>1, <1>k, ReqIn DEF Shapes
      <4> QED BY <3>2, <4>2 DEF StartStatus
    <3>3. CASE StartDelete(c)
      <4>1. req[c].q \in Requests /\ req[c].q.op = "remove" /\ req[c].q.a \in Acct
        BY <3>3, <1>4 DEF StartDelete, AllOps, Bulk
      <4>2. Call(req[c].q.a, "delete") \in Calls /\ [pc |-> "delete", q |-> req[c].q, at |-> now] \in Reqs
        BY <4>1, <1>k, ReqIn DEF Shapes
      <4> QED BY <3>3, <4>2 DEF StartDelete
    <3> QED BY <1>9, <3>1, <3>2, <3>3
  <2>2. /\ req' \in [Client -> Reqs] /\ call' \in Calls \union {NoCall}
        /\ UNCHANGED <<panel, late, chain>>
    BY <1>5, <2>1
  <2>3. UNCHANGED <<mem, disk, intent, bal, granted, sweep, recon, now, records, faults>>
    BY <1>9 DEF StartEnable, StartStatus, StartDelete, books, sweeps, world
  <2> QED BY <2>2, <2>3 DEF Shapes
<1>10. ASSUME NEW c \in Client, AskFails(c) PROVE Shapes'
  <2>1. req' \in [Client -> Reqs]
    BY <1>2, <1>10 DEF AskFails
  <2>2. panel' \in [Acct -> States] /\ call' \in Calls \union {NoCall} /\ late' \subseteq Calls
    BY <1>10, WireShape DEF AskFails
  <2>3. faults' \in Nat
    BY <1>10, <1>n, <1>m DEF AskFails, PanelSilent
  <2> QED BY <1>10, <2>1, <2>2, <2>3 DEF AskFails, Shapes, books, sweeps
<1>11. ASSUME NEW c \in Client, Finish(c) PROVE Shapes'
  <2>1. Finishes(c) /\ Booked(c) /\ Done(c)
    BY <1>11 DEF Finish
  <2>2. /\ Turn(c) /\ panel' \in [Acct -> States] /\ call' \in Calls \union {NoCall}
        /\ late' \subseteq Calls
    BY <2>1, FinishShape
  <2>3. req' \in [Client -> Reqs]
    BY <1>2, <2>1, <2>2
  <2>4. mem' \in [Acct -> Records] /\ disk' \in [Acct -> Records]
    BY <1>11, <2>1, RecordShape DEF Finish, Saved
  <2>5. bal' \in [Reseller -> Int] /\ granted' \in [Acct -> Nat]
    BY <2>1, BookedShape
  <2>6. intent' \in [Acct -> {"none", "fresh", "old"}]
    BY <1>11 DEF Finish, CloseIntent, Shapes
  <2> QED BY <1>11, <1>m, <2>2, <2>3, <2>4, <2>5, <2>6 DEF Finish, Shapes, sweeps
<1>12. ASSUME NEW c \in Client, FinishFails(c) PROVE Shapes'
  <2>1. Finishes(c) /\ Done(c)
    BY <1>12 DEF FinishFails
  <2>2. /\ Turn(c) /\ panel' \in [Acct -> States] /\ call' \in Calls \union {NoCall}
        /\ late' \subseteq Calls
    BY <2>1, FinishShape
  <2>3. req' \in [Client -> Reqs]
    BY <1>2, <2>1, <2>2
  <2>4. mem' \in [Acct -> Records]
    BY <1>12, <2>1, RecordShape DEF FinishFails, Shapes
  <2> QED BY <1>12, <1>n, <2>2, <2>3, <2>4 DEF FinishFails, Shapes, books, sweeps
<1>13. ASSUME NEW c \in Client, BulkAsks(c) PROVE Shapes'
  <2>1. /\ req[c].q \in Requests /\ req[c].q.op \in Bulk
        /\ req[c].pc = "bulk" => req[c].todo \in SUBSET Acct
    BY <1>4, <1>13, <1>q, ReqShape DEF BulkAsks, AllOps, Bulk
  <2> DEFINE todo == IF req[c].pc = "bulk" THEN req[c].todo ELSE Acct
  <2>2. todo \in SUBSET Acct
    BY <2>1
  <2>3. PICK a \in todo :
          /\ req' = [req EXCEPT ![c] = [pc |-> "bulk", q |-> req[c].q, at |-> now, todo |-> todo \ {a}]]
          /\ call' = Call(a, Target(req[c].q))
    BY <1>13 DEF BulkAsks
  <2>4. call' \in Calls
    BY <1>k, <2>2, <2>3 DEF Target
  <2>5. todo \ {a} \in SUBSET Acct
    BY <2>2
  <2> HIDE DEF todo
  <2>6. [pc |-> "bulk", q |-> req[c].q, at |-> now, todo |-> todo \ {a}] \in Reqs
    BY <2>1, <2>5, ReqIn DEF Shapes
  <2>7. req' \in [Client -> Reqs]
    BY <2>3, <2>6 DEF Shapes
  <2> QED BY <1>13, <2>4, <2>7 DEF BulkAsks, Shapes, books, sweeps, world
<1>14. ASSUME NEW c \in Client, BulkAnswer(c) PROVE Shapes'
  <2>1. Target(req[c].q) \in {"active", "disabled"} /\ call \in Calls
    BY <1>14, <1>b DEF Target, BulkAnswer
  <2>2. mem' \in [Acct -> Records]
    <3>1. call.a \in Acct
      BY <2>1 DEF Calls
    <3>2. [mem[call.a] EXCEPT !.status = Target(req[c].q)] \in Records
      BY <1>r, <1>d, <2>1, <3>1
    <3>3. \/ mem' = [mem EXCEPT ![call.a] = [mem[call.a] EXCEPT !.status = Target(req[c].q)]]
          \/ mem' = mem
      BY <1>14, <3>1 DEF BulkAnswer, Shapes
    <3> QED BY <3>1, <3>2, <3>3 DEF Shapes
  <2>3. panel' \in [Acct -> States] /\ call' \in Calls \union {NoCall} /\ late' \subseteq Calls
    BY <1>14, WireShape DEF BulkAnswer
  <2>4. faults' \in Nat
    BY <1>14, <1>n, <1>m DEF BulkAnswer, PanelSilent
  <2> QED BY <1>14, <2>2, <2>3, <2>4 DEF BulkAnswer, Shapes, books, sweeps
<1>15. ASSUME NEW c \in Client, BulkEnd(c) PROVE Shapes'
  <2>1. req' \in [Client -> Reqs]
    BY <1>2, <1>15 DEF BulkEnd, Accepts
  <2> QED BY <1>15, <2>1 DEF BulkEnd, Shapes, books, wire, sweeps, world
<1>16. CASE SweepStart
  <2>1. Due \in SUBSET Work
    <3> SUFFICES ASSUME NEW w \in Due PROVE w \in Work
      OBVIOUS
    <3>1. w \in Acct \X {mem[a].id : a \in Acct}
      BY DEF Due
    <3>2. {mem[a].id : a \in Acct} \subseteq Nat
      BY <1>d
    <3> QED BY <3>1, <3>2 DEF Work
  <2>2. sweep' \in Sweeps
    BY <1>16, <2>1 DEF SweepStart, Sweep, Sweeps
  <2> QED BY <1>16, <2>2 DEF SweepStart, Shapes, books, wire, world
<1>s. sweep \in Sweeps /\ recon \in Recons /\ {} \in SUBSET Work
  BY DEF Shapes
<1>17. CASE SweepQueues
  <2>1. sweep.due \in SUBSET Work
    BY <1>17, <1>s, SweepShape DEF SweepQueues
  <2>2. \A w \in Work : w[1] \in Acct /\ w[2] \in Nat
    BY DEF Work
  <2>3. \A w \in sweep.due : SweepOn("queued", sweep.due \ {w}, w[1], w[2]) \in Sweeps
    BY <2>1, <2>2 DEF Sweeps, SweepOn
  <2>4. Sweep("save", {}) \in Sweeps
    BY DEF Sweeps, Sweep
  <2>5. sweep' \in Sweeps
    BY <1>17, <2>3, <2>4 DEF SweepQueues
  <2> QED BY <1>17, <2>5 DEF SweepQueues, Shapes, books, wire, world
<1>18. CASE SweepAsks
  <2>1. /\ sweep.a \in Acct /\ sweep.id \in Nat /\ sweep.due \in SUBSET Work
        /\ sweep' = SweepOn("call", sweep.due, sweep.a, sweep.id)
    BY <1>18, <1>s, SweepShape, SweepAsking DEF SweepAsks
  <2>2. sweep' \in Sweeps
    BY <2>1, SweepIn
  <2>3. call' \in Calls
    BY <1>18, <1>k, <2>1 DEF SweepAsks
  <2> QED BY <1>18, <2>2, <2>3 DEF SweepAsks, Shapes, books, world
<1>19. CASE SweepAnswered
  <2>1. sweep.due \in SUBSET Work /\ sweep.a \in Acct
    BY <1>19, <1>s, SweepShape DEF SweepAnswered
  <2>2. sweep' \in Sweeps
    BY <1>19, <2>1 DEF SweepAnswered, Sweep, Sweeps
  <2>3. [mem[sweep.a] EXCEPT !.status = "disabled"] \in Records
    BY <1>r, <1>d, <2>1
  <2>4. mem' \in [Acct -> Records]
    <3>1. \/ mem' = [mem EXCEPT ![sweep.a] = [mem[sweep.a] EXCEPT !.status = "disabled"]]
          \/ mem' = mem
      BY <1>19, <2>1 DEF SweepAnswered, Disabled, Kept, Shapes
    <3> QED BY <2>1, <2>3, <3>1 DEF Shapes
  <2>5. panel' \in [Acct -> States] /\ call' \in Calls \union {NoCall} /\ late' \subseteq Calls
    BY <1>19, WireShape DEF SweepAnswered
  <2>6. faults' \in Nat
    BY <1>19, <1>n, <1>m DEF SweepAnswered, PanelSilent
  <2> QED BY <1>19, <2>2, <2>4, <2>5, <2>6 DEF SweepAnswered, Shapes, books
<1>20. CASE SweepSaves
  <2>1. sweep' \in Sweeps
    BY <1>20 DEF SweepSaves, Sweeps
  <2> QED BY <1>20, <2>1 DEF SweepSaves, Shapes, books, wire, world
<1>21. CASE ReconStart
  <2>1. recon' \in Recons
    BY <1>21 DEF ReconStart, StaleIntents, Recon, Recons
  <2> QED BY <1>21, <2>1 DEF ReconStart, Shapes, books, wire, world
<1>c. \A a \in Acct : CloseIntent(a) \in [Acct -> {"none", "fresh", "old"}]
  BY DEF CloseIntent, Shapes
<1>22. CASE ReconIntent
  <2>1. PICK a \in recon.todo :
          IF Live(mem[a])
          THEN intent' = CloseIntent(a) /\ recon' = Recon("intents", recon.todo \ {a})
          ELSE UNCHANGED intent /\ recon' = ReconOn("chase", recon.todo \ {a}, a, panel[a])
    BY <1>22 DEF ReconIntent
  <2>2. recon.todo \in SUBSET Acct /\ a \in Acct /\ panel[a] \in States
    BY <1>22, <1>s, <1>b, ReconShape DEF ReconIntent
  <2>3. recon' \in Recons
    BY <2>1, <2>2 DEF Recon, ReconOn, Recons
  <2>4. intent' \in [Acct -> {"none", "fresh", "old"}]
    BY <1>c, <2>1, <2>2 DEF Shapes
  <2> QED BY <1>22, <2>3, <2>4 DEF ReconIntent, Shapes, books, wire, world
<1>23. CASE ReconChases
  <2>1. recon.todo \in SUBSET Acct /\ recon.a \in Acct /\ recon.see \in States
    BY <1>23, <1>s, ReconShape DEF ReconChases
  <2>2. [recon EXCEPT !.pc = "orphan"] = ReconOn("orphan", recon.todo, recon.a, recon.see)
    BY <1>23, <1>s, ReconMoves DEF ReconChases
  <2>3. recon' \in Recons
    BY <1>23, <2>1, <2>2 DEF ReconChases, Recon, ReconOn, Recons
  <2>4. intent' \in [Acct -> {"none", "fresh", "old"}]
    BY <1>23, <1>c, <2>1 DEF ReconChases, Shapes
  <2> QED BY <1>23, <2>3, <2>4 DEF ReconChases, Shapes, books, wire, world
<1>24. CASE ReconIntentsDone
  <2> DEFINE live == {w \in Acct \X {mem[a].id : a \in Acct} : mem[w[1]].id = w[2] /\ Live(mem[w[1]])}
  <2>1. {mem[a].id : a \in Acct} \subseteq Nat
    BY <1>d
  <2>2. live \in SUBSET (Acct \X Nat)
    BY <2>1
  <2>3. recon' = Recon("records", live)
    BY <1>24 DEF ReconIntentsDone
  <2> HIDE DEF live
  <2>4. recon' \in Recons
    BY <2>2, <2>3 DEF Recon, Recons
  <2> QED BY <1>24, <2>4 DEF ReconIntentsDone, Shapes, books, wire, world
<1>25. CASE ReconLooks
  <2>1. PICK w \in recon.todo :
          recon' = IF Checked(Held(w[1], w[2]))
                   THEN ReconOn("compare", recon.todo \ {w}, w, panel[w[1]])
                   ELSE Recon("records", recon.todo \ {w})
    BY <1>25 DEF ReconLooks
  <2>2. recon.todo \in SUBSET (Acct \X Nat) /\ w \in Acct \X Nat /\ panel[w[1]] \in States
    BY <1>25, <1>s, <1>b, ReconShape DEF ReconLooks
  <2>3. recon' \in Recons
    BY <2>1, <2>2 DEF Recon, ReconOn, Recons
  <2> QED BY <1>25, <2>3 DEF ReconLooks, Shapes, books, wire, world
<1>26. CASE ReconCompares
  <2>1. recon.todo \in SUBSET (Acct \X Nat) /\ recon.a[1] \in Acct
    BY <1>26, <1>s, ReconShape DEF ReconCompares
  <2>2. \A r : Desired(r) \in {"active", "disabled"}
    BY DEF Desired
  <2>3. recon' \in Recons
    BY <1>26, <2>1, <2>2 DEF ReconCompares, Recon, ReconOn, Recons
  <2> QED BY <1>26, <2>3 DEF ReconCompares, Shapes, books, wire, world
<1>27. CASE ReconAsks
  <2>1. /\ recon.a \in Acct
        /\ recon.pc = "orphan" => recon.todo \in SUBSET Acct /\ recon.see \in States
        /\ recon.pc = "repair" => /\ recon.todo \in SUBSET (Acct \X Nat)
                                  /\ recon.see \in {"active", "disabled"}
    BY <1>27, <1>s, ReconShape DEF ReconAsks
  <2>2. /\ recon.pc = "orphan" => recon' = ReconOn("orphanCall", recon.todo, recon.a, recon.see)
        /\ recon.pc = "repair" => recon' = ReconOn("repairCall", recon.todo, recon.a, recon.see)
    BY <1>27, <1>s, ReconMoves DEF ReconAsks
  <2>3. recon' \in Recons
    BY <1>27, <2>1, <2>2 DEF ReconAsks, ReconOn, Recons
  <2>4. call' \in Calls
    BY <1>27, <1>k, <2>1 DEF ReconAsks
  <2> QED BY <1>27, <2>3, <2>4 DEF ReconAsks, Shapes, books, world
<1>28. CASE ReconAnswered
  <2>1. /\ recon.a \in Acct
        /\ recon.pc = "orphanCall" => recon.todo \in SUBSET Acct
        /\ recon.pc = "repairCall" => recon.todo \in SUBSET (Acct \X Nat)
    BY <1>28, <1>s, ReconShape DEF ReconAnswered
  <2>2. recon' \in Recons
    BY <1>28, <2>1 DEF ReconAnswered, Recon, Recons
  <2>3. intent' \in [Acct -> {"none", "fresh", "old"}]
    BY <1>28, <1>c, <2>1 DEF ReconAnswered, Shapes
  <2>4. panel' \in [Acct -> States] /\ call' \in Calls \union {NoCall} /\ late' \subseteq Calls
    BY <1>28, WireShape DEF ReconAnswered
  <2>5. faults' \in Nat
    BY <1>28, <1>n, <1>m DEF ReconAnswered, PanelSilent
  <2> QED BY <1>28, <2>2, <2>3, <2>4, <2>5 DEF ReconAnswered, Shapes, books
<1>29. CASE ReconEnds \/ ReconSaves
  <2>1. recon' \in Recons /\ disk' \in [Acct -> Records]
    BY <1>29 DEF ReconEnds, ReconSaves, Recon, NoRecon, Recons, Shapes
  <2> QED BY <1>29, <2>1 DEF ReconEnds, ReconSaves, Shapes, books, wire, world
<1>30. CASE Tick
  <2>1. intent' \in [Acct -> {"none", "fresh", "old"}] /\ now' \in Nat
    BY <1>30 DEF Tick, Shapes
  <2> QED BY <1>30, <2>1 DEF Tick, Shapes, books, wire, sweeps
<1>31. CASE LateLands \/ LateLost
  <2>1. \A k \in late : After(k) \in [Acct -> States]
    BY <1>b DEF After, Calls, States
  <2>2. panel' \in [Acct -> States] /\ late' \subseteq Calls
    BY <1>31, <1>b, <2>1 DEF LateLands, LateLost
  <2> QED BY <1>31, <2>2 DEF LateLands, LateLost, Shapes, books, sweeps, world
<1>32. ASSUME Restart PROVE req' \in [Client -> Reqs] /\ sweep' \in Sweeps /\ recon' \in Recons
  BY <1>32, <1>i DEF Restart, Sweeps, Recons
<1>33. CASE Crash
  <2>1. late' \subseteq Calls /\ call' = NoCall
    BY <1>33, <1>b DEF Crash
  <2>2. faults' \in Nat
    BY <1>33, <1>n DEF Crash
  <2> QED BY <1>32, <1>33, <2>1, <2>2 DEF Crash, Restart, Shapes, books
<1>34. ASSUME NEW c \in Client, CrashInFinish(c) PROVE Shapes'
  <2>1. /\ Finishes(c) /\ Booked(c) /\ (disk' = disk \/ disk' = MemAfter(c)) /\ Restart
        /\ Fault("crash")
    BY <1>34 DEF CrashInFinish, LedgerFirst
  <2>2. bal' \in [Reseller -> Int] /\ granted' \in [Acct -> Nat]
    BY <2>1, BookedShape
  <2>3. disk' \in [Acct -> Records]
    BY <2>1, RecordShape DEF Shapes
  <2>4. panel' \in [Acct -> States] /\ call' \in Calls \union {NoCall} /\ late' \subseteq Calls
    BY <2>1, FinishShape
  <2>5. faults' \in Nat
    BY <2>1, <1>n
  <2>6. req' \in [Client -> Reqs] /\ sweep' \in Sweeps /\ recon' \in Recons
    BY <1>32, <2>1
  <2> QED BY <2>1, <2>2, <2>3, <2>4, <2>5, <2>6 DEF Restart, Shapes
<1>35. CASE UNCHANGED vars
  BY <1>35 DEF vars, Shapes
<1> QED
  <2>1. ASSUME NEW c \in Client, Serve(c) PROVE Shapes'
    BY <1>3, <1>6, <1>7, <1>8, <1>9, <1>10, <1>11, <1>12, <1>13, <1>14, <1>15, <2>1 DEF Serve
  <2>2. CASE SweepStep
    BY <1>16, <1>17, <1>18, <1>19, <1>20, <2>2 DEF SweepStep
  <2>3. CASE ReconStep
    BY <1>21, <1>22, <1>23, <1>24, <1>25, <1>26, <1>27, <1>28, <1>29, <2>3 DEF ReconStep
  <2> QED BY <1>1, <1>30, <1>31, <1>33, <1>34, <1>35, <2>1, <2>2, <2>3 DEF Next

-----------------------------------------------------------------------------
(* The mutex. *)

\* Who is past the checks it made when its turn came.
Engaged ==
  {c \in Client : req[c].pc \notin {"idle", "queued"}}
    \union {p \in {"sweep"} : sweep.pc = "call"}
    \union {p \in {"reconcile"} : recon.pc \in {"orphanCall", "repairCall"}}

\* Only who has the turn is.
MutexHeld == chain \in Seq(Procs) /\ \A p \in Engaged : Turn(p)

\* Nobody else is engaged where somebody has the turn.
LEMMA OneEngaged ==
  ASSUME MutexHeld, NEW p, Turn(p)
  PROVE  Engaged \subseteq {p}
  BY DEF MutexHeld, Turn

\* Queueing, going on and leaving keep the mutex.
LEMMA MutexMoves ==
  ASSUME MutexHeld, NEW p \in Procs,
         \/ chain' = Append(chain, p) /\ Engaged' \subseteq Engaged
         \/ chain' = chain /\ Engaged' \subseteq Engaged
         \/ Turn(p) /\ chain' = chain /\ Engaged' \subseteq Engaged \union {p}
         \/ Turn(p) /\ chain' = Tail(chain) /\ Engaged' \subseteq Engaged \ {p}
         \/ chain' = <<>> /\ Engaged' = {}
  PROVE  MutexHeld'
<1>0. chain \in Seq(Procs) /\ \A e \in Engaged : Turn(e)
  BY DEF MutexHeld
<1>1. CASE chain' = Append(chain, p) /\ Engaged' \subseteq Engaged
  <2>1. \A e : Turn(e) => Turn(e)'
    BY <1>0, <1>1, QueueShape DEF Turn
  <2> QED BY <1>0, <1>1, <2>1, QueueShape DEF MutexHeld
<1>2. CASE chain' = chain /\ (Engaged' \subseteq Engaged \/ (Turn(p) /\ Engaged' \subseteq Engaged \union {p}))
  BY <1>0, <1>2 DEF MutexHeld, Turn
<1>3. CASE Turn(p) /\ chain' = Tail(chain) /\ Engaged' \subseteq Engaged \ {p}
  <2>1. Engaged' = {}
    BY <1>3, OneEngaged
  <2>2. chain' \in Seq(Procs)
    BY <1>0, <1>3, QueueShape DEF Turn
  <2> QED BY <2>1, <2>2 DEF MutexHeld
<1>4. CASE chain' = <<>> /\ Engaged' = {}
  BY <1>4 DEF MutexHeld
<1> QED BY <1>1, <1>2, <1>3, <1>4

\* Every step keeps the mutex.
LEMMA MutexStep == Shapes /\ MutexHeld /\ [Next]_vars => MutexHeld'
<1> SUFFICES ASSUME Shapes, MutexHeld, [Next]_vars PROVE MutexHeld'
  OBVIOUS
<1>p. /\ "sweep" \notin Client /\ "reconcile" \notin Client
      /\ Client \subseteq Procs /\ "sweep" \in Procs /\ "reconcile" \in Procs
  BY ProcAssumption DEF Procs
<1>d. DOMAIN req = Client
  BY DEF Shapes
<1>i. Idle.pc = "idle" /\ NoSweep.pc = "idle" /\ NoRecon.pc = "idle"
  BY DEF Idle, NoSweep, NoRecon
<1>1. ASSUME NEW c \in Client, Turn(c), Done(c), UNCHANGED <<sweep, recon>> PROVE MutexHeld'
  <2>1. chain' = Tail(chain) /\ Engaged' \subseteq Engaged \ {c}
    BY <1>1, <1>d, <1>i, <1>p DEF Done, Release, Engaged
  <2> QED BY <1>1, <1>p, <2>1, MutexMoves
<1>2. ASSUME NEW c \in Client, Turn(c), NEW x, req' = [req EXCEPT ![c] = x],
             UNCHANGED <<chain, sweep, recon>>
      PROVE  MutexHeld'
  <2>1. Engaged' \subseteq Engaged \union {c}
    BY <1>2, <1>d DEF Engaged
  <2> QED BY <1>2, <1>p, <2>1, MutexMoves
<1>3. ASSUME UNCHANGED <<chain, req, sweep, recon>> PROVE MutexHeld'
  <2>1. Engaged' = Engaged
    BY <1>3 DEF Engaged
  <2> QED BY <1>3, <1>p, <2>1, MutexMoves
<1>4. ASSUME NEW c \in Client, Arrive(c) PROVE MutexHeld'
  <2>1. PICK q : req' = [req EXCEPT ![c] = [pc |-> "queued", q |-> q]]
    BY <1>4 DEF Arrive
  <2>2. UNCHANGED <<sweep, recon>> /\ chain' = Append(chain, c)
    BY <1>4 DEF Arrive, sweeps
  <2>3. Engaged' \subseteq Engaged
    BY <1>d, <2>1, <2>2 DEF Engaged
  <2> QED BY <1>p, <2>2, <2>3, MutexMoves
<1>5. ASSUME NEW c \in Client, Serve(c) PROVE MutexHeld'
  <2>1. CASE Refuse(c) \/ CreateFails(c) \/ AskFails(c) \/ FinishFails(c) \/ BulkEnd(c) \/ Finish(c)
    <3>1. Turn(c) /\ Done(c) /\ UNCHANGED <<sweep, recon>>
      BY <2>1 DEF Refuse, CreateFails, AskFails, FinishFails, BulkEnd, Finish, Finishes, Accepts, sweeps
    <3> QED BY <1>1, <3>1
  <2>2. CASE StartCreate(c) \/ StartEnable(c) \/ StartStatus(c) \/ StartDelete(c)
    <3>1. Turn(c) /\ UNCHANGED <<chain, sweep, recon>>
      BY <2>2 DEF StartCreate, StartEnable, StartStatus, StartDelete, Accepts, Asks, sweeps
    <3>2. \E x : req' = [req EXCEPT ![c] = x]
      BY <2>2 DEF StartCreate, StartEnable, StartStatus, StartDelete, Asks
    <3> QED BY <1>2, <3>1, <3>2
  <2>3. CASE Created(c)
    BY <1>2, <2>3 DEF Created, sweeps
  <2>4. CASE BulkAsks(c)
    <3>1. Turn(c) /\ UNCHANGED <<chain, sweep, recon>>
      BY <2>4 DEF BulkAsks, Accepts, sweeps
    <3>2. \E x : req' = [req EXCEPT ![c] = x]
      BY <2>4 DEF BulkAsks
    <3> QED BY <1>2, <3>1, <3>2
  <2>5. CASE BulkAnswer(c)
    BY <1>3, <2>5 DEF BulkAnswer, sweeps
  <2> QED BY <1>5, <2>1, <2>2, <2>3, <2>4, <2>5 DEF Serve
<1>6. CASE SweepStep
  <2>1. CASE SweepStart \/ SweepQueues
    <3>1. sweep'.pc # "call" /\ UNCHANGED <<req, recon>>
      BY <2>1 DEF SweepStart, SweepQueues, Sweep, SweepOn
    <3>2. Engaged' \subseteq Engaged
      BY <3>1 DEF Engaged
    <3>3. chain' = chain \/ chain' = Append(chain, "sweep")
      BY <2>1 DEF SweepStart, SweepQueues
    <3> QED BY <1>p, <3>2, <3>3, MutexMoves
  <2>2. CASE SweepAsks
    <3>1. Engaged' \subseteq Engaged \union {"sweep"} /\ Turn("sweep") /\ chain' = chain
      BY <2>2 DEF SweepAsks, Engaged
    <3> QED BY <1>p, <3>1, MutexMoves
  <2>3. CASE SweepAnswered \/ SweepSaves
    <3>1. Turn("sweep")
      <4>1. CASE sweep.pc = "call"
        BY <4>1 DEF MutexHeld, Engaged
      <4>2. CASE SweepSaves
        BY <4>2 DEF SweepSaves
      <4> QED BY <2>3, <4>1, <4>2 DEF SweepAnswered
    <3>2. sweep'.pc # "call" /\ UNCHANGED <<req, recon>> /\ chain' = Tail(chain)
      BY <2>3, <1>i DEF SweepAnswered, SweepSaves, Sweep, Release
    <3>3. Engaged' \subseteq Engaged \ {"sweep"}
      BY <1>p, <3>2 DEF Engaged
    <3> QED BY <1>p, <3>1, <3>2, <3>3, MutexMoves
  <2> QED BY <1>6, <2>1, <2>2, <2>3 DEF SweepStep
<1>7. CASE ReconStep
  <2>0. recon \in Recons
    BY DEF Shapes
  <2>1. CASE ReconStart \/ ReconIntent \/ ReconChases \/ ReconIntentsDone \/ ReconLooks
             \/ ReconCompares \/ ReconEnds
    <3>1. recon'.pc \notin {"orphanCall", "repairCall"} /\ UNCHANGED <<req, sweep>>
      <4>1. CASE ReconChases
        <5>1. recon.pc = "chase" /\ UNCHANGED <<req, sweep>>
          BY <4>1 DEF ReconChases, Recon
        <5>2. [recon EXCEPT !.pc = "orphan"] = ReconOn("orphan", recon.todo, recon.a, recon.see)
          BY <2>0, <5>1, ReconMoves
        <5>3. \/ recon' = ReconOn("orphan", recon.todo, recon.a, recon.see)
              \/ recon' = Recon("intents", recon.todo)
          BY <4>1, <5>2 DEF ReconChases
        <5>4. recon'.pc \in {"orphan", "intents"}
          BY <5>3 DEF Recon, ReconOn
        <5> QED BY <5>1, <5>4
      <4>2. CASE ReconIntent
        BY <4>2 DEF ReconIntent, Recon, ReconOn
      <4>3. CASE ReconLooks
        BY <4>3 DEF ReconLooks, Recon, ReconOn
      <4>4. CASE ReconCompares
        BY <4>4 DEF ReconCompares, Recon, ReconOn
      <4> QED BY <1>i, <2>1, <4>1, <4>2, <4>3, <4>4
              DEF ReconStart, ReconIntentsDone, ReconEnds, Recon
    <3>2. Engaged' \subseteq Engaged
      BY <3>1 DEF Engaged
    <3>3. chain' = chain \/ chain' = Append(chain, "reconcile")
      BY <2>1 DEF ReconStart, ReconIntent, ReconChases, ReconIntentsDone, ReconLooks,
                  ReconCompares, ReconEnds
    <3> QED BY <1>p, <3>2, <3>3, MutexMoves
  <2>2. CASE ReconAsks
    <3>1. Engaged' \subseteq Engaged \union {"reconcile"} /\ Turn("reconcile") /\ chain' = chain
      BY <2>2 DEF ReconAsks, Engaged
    <3> QED BY <1>p, <3>1, MutexMoves
  <2>3. CASE ReconAnswered \/ ReconSaves
    <3>1. Turn("reconcile")
      <4>1. CASE recon.pc \in {"orphanCall", "repairCall"}
        BY <4>1 DEF MutexHeld, Engaged
      <4>2. CASE ReconSaves
        BY <4>2 DEF ReconSaves
      <4> QED BY <2>3, <4>1, <4>2 DEF ReconAnswered
    <3>2. recon'.pc \notin {"orphanCall", "repairCall"} /\ UNCHANGED <<req, sweep>> /\ chain' = Tail(chain)
      BY <2>3, <1>i DEF ReconAnswered, ReconSaves, Recon, Release
    <3>3. Engaged' \subseteq Engaged \ {"reconcile"}
      BY <1>p, <3>2 DEF Engaged
    <3> QED BY <1>p, <3>1, <3>2, <3>3, MutexMoves
  <2> QED BY <1>7, <2>1, <2>2, <2>3 DEF ReconStep
<1>8. CASE Tick \/ LateLands \/ LateLost \/ UNCHANGED vars
  BY <1>3, <1>8 DEF Tick, LateLands, LateLost, vars, sweeps
<1>9. ASSUME Restart PROVE MutexHeld'
  <2>1. chain' = <<>> /\ Engaged' = {}
    BY <1>9, <1>i DEF Restart, Engaged
  <2> QED BY <1>p, <2>1, MutexMoves
<1> QED BY <1>4, <1>5, <1>6, <1>7, <1>8, <1>9 DEF Next, Crash, CrashInFinish

-----------------------------------------------------------------------------
(* No overdraft. *)

\* Who was found able to pay and now waits for the panel can still pay.
Funded ==
  /\ NoOverdraft
  /\ \A c \in Client : req[c].pc \in {"create", "decorate", "enable"}
                         /\ req[c].q.op \in {"activate", "renew"} => CanPay(req[c].q)

\* A step that moves no credits, and nobody past the check, keeps it.
LEMMA FundedFrame ==
  ASSUME Funded, bal' = bal,
         \A c \in Client : \/ req'[c] = req[c]
                           \/ req'[c].pc \notin {"create", "decorate", "enable"}
                           \/ /\ req[c].pc \in {"create", "decorate", "enable"}
                              /\ req'[c].q = req[c].q
                           \/ req'[c].q.op \in {"activate", "renew"} => CanPay(req'[c].q)
  PROVE  Funded'
  BY DEF Funded, NoOverdraft, CanPay, Pays

\* Every step keeps it.
LEMMA FundedStep == Shapes /\ MutexHeld /\ Funded /\ [Next]_vars => Funded'
<1> SUFFICES ASSUME Shapes, MutexHeld, Funded, [Next]_vars PROVE Funded'
  OBVIOUS
<1>d. DOMAIN req = Client
  BY DEF Shapes
<1>i. Idle.pc = "idle"
  BY DEF Idle
<1>1. ASSUME NEW c \in Client, Done(c), UNCHANGED bal PROVE Funded'
  BY <1>1, <1>d, <1>i, FundedFrame DEF Done
<1>2. ASSUME UNCHANGED <<req, bal>> PROVE Funded'
  BY <1>2, FundedFrame
<1>3. ASSUME NEW c \in Client, Finishes(c), Booked(c), \A d \in Client : req'[d] = req[d] \/ req'[d] = Idle,
             req'[c] = Idle
      PROVE  Funded'
  <2>1. /\ Price(c) \in Nat /\ Refund(c) \in Nat
        /\ Price(c) # 0 => /\ Price(c) = req[c].q.n /\ Pays(req[c].q) /\ Refund(c) = 0
                           /\ req[c].q.op \in {"activate", "renew"}
    BY <1>3, RecordShape
  <2>2. /\ req[c].pc = "decorate" \/ req[c].pc \in {"queued", "enable"} \/ req[c].pc \in {"status", "delete"}
        /\ req[c].pc \in {"status", "delete"} => req[c].q.op \notin {"activate", "renew"}
        /\ req[c].pc = "queued" => Accepted(req[c].q) /\ req[c].q.op = "renew"
        /\ Turn(c) /\ req[c].q \in Requests
    BY <1>3, FinishShape DEF Makes
  <2>3. Price(c) # 0 => CanPay(req[c].q)
    <3>1. CASE req[c].pc = "queued"
      BY <2>2, <3>1 DEF Accepted
    <3>2. CASE req[c].pc # "queued"
      BY <2>1, <2>2, <3>2 DEF Funded
    <3> QED BY <3>1, <3>2
  <2>4. Price(c) # 0 => bal[req[c].q.me] >= Price(c)
    BY <2>1, <2>3 DEF CanPay
  <2>5. bal' = BalAfter(c)
    BY <1>3 DEF Booked
  <2>6. \A p \in Reseller : bal'[p] >= 0
    <3> SUFFICES ASSUME NEW p \in Reseller PROVE bal'[p] >= 0
      OBVIOUS
    <3>1. bal[p] \in Int /\ bal[p] >= 0
      BY DEF Funded, NoOverdraft, Shapes
    <3>2. bal'[p] = bal[p] - (IF p = req[c].q.me THEN Price(c) ELSE 0)
                           + (IF Refund(c) > 0 /\ p = mem[req[c].q.a].owner THEN Refund(c) ELSE 0)
      BY <2>5 DEF BalAfter
    <3> QED BY <2>1, <2>4, <3>1, <3>2
  <2>7. \A d \in Client : d # c => req[d].pc \in {"idle", "queued"}
    BY <2>2, OneEngaged DEF Engaged
  <2>8. \A d \in Client : req'[d].pc \notin {"create", "decorate", "enable"}
    BY <1>3, <1>i, <2>7
  <2> QED BY <2>6, <2>8 DEF Funded, NoOverdraft
<1>4. ASSUME NEW c \in Client, Arrive(c) PROVE Funded'
  <2>1. PICK q : req' = [req EXCEPT ![c] = [pc |-> "queued", q |-> q]]
    BY <1>4 DEF Arrive
  <2>2. /\ req'[c].pc = "queued" /\ bal' = bal
        /\ \A d \in Client : d # c => req'[d] = req[d]
    BY <1>4, <1>d, <2>1 DEF Arrive, books
  <2> QED BY <2>2, FundedFrame
<1>5. ASSUME NEW c \in Client, Serve(c) PROVE Funded'
  <2>1. CASE Refuse(c) \/ CreateFails(c) \/ AskFails(c) \/ FinishFails(c) \/ BulkEnd(c)
    BY <1>1, <2>1 DEF Refuse, CreateFails, AskFails, FinishFails, BulkEnd, books
  <2>2. CASE Finish(c)
    <3>1. Finishes(c) /\ Booked(c) /\ req' = [req EXCEPT ![c] = Idle]
      BY <2>2 DEF Finish, Done
    <3> QED BY <1>3, <1>d, <3>1
  <2>3. CASE StartCreate(c)
    <3>1. /\ req' = [req EXCEPT ![c] = [pc |-> "create", q |-> req[c].q, at |-> now]]
          /\ Accepted(req[c].q) /\ req[c].q.op \in {"activate", "trial"} /\ bal' = bal
      BY <2>3 DEF StartCreate, Accepts, Asks, books
    <3>2. req[c].q.op = "activate" => CanPay(req[c].q)
      BY <3>1 DEF Accepted
    <3>3. /\ req'[c].q = req[c].q /\ \A d \in Client : d # c => req'[d] = req[d]
      BY <1>d, <3>1
    <3> QED BY <3>1, <3>2, <3>3, FundedFrame
  <2>4. CASE StartEnable(c)
    <3>1. /\ req' = [req EXCEPT ![c] = [pc |-> "enable", q |-> req[c].q, at |-> now]]
          /\ Accepted(req[c].q) /\ req[c].q.op = "renew" /\ bal' = bal
      BY <2>4 DEF StartEnable, Accepts, Asks, books
    <3>2. CanPay(req[c].q)
      BY <3>1 DEF Accepted
    <3>3. /\ req'[c].q = req[c].q /\ \A d \in Client : d # c => req'[d] = req[d]
      BY <1>d, <3>1
    <3> QED BY <3>1, <3>2, <3>3, FundedFrame
  <2>5. CASE StartStatus(c) \/ StartDelete(c)
    <3>1. /\ \/ req' = [req EXCEPT ![c] = [pc |-> "status", q |-> req[c].q, at |-> now]]
             \/ req' = [req EXCEPT ![c] = [pc |-> "delete", q |-> req[c].q, at |-> now]]
          /\ bal' = bal
      BY <2>5 DEF StartStatus, StartDelete, Asks, books
    <3>2. /\ req'[c].pc \in {"status", "delete"} /\ \A d \in Client : d # c => req'[d] = req[d]
      BY <1>d, <3>1
    <3> QED BY <3>1, <3>2, FundedFrame
  <2>6. CASE Created(c)
    <3>1. /\ req' = [req EXCEPT ![c] = [pc |-> "decorate", q |-> req[c].q, at |-> now]]
          /\ req[c].pc = "create" /\ bal' = bal
      BY <2>6 DEF Created, books
    <3>2. /\ req'[c].q = req[c].q /\ \A d \in Client : d # c => req'[d] = req[d]
      BY <1>d, <3>1
    <3> QED BY <3>1, <3>2, FundedFrame
  <2>7. CASE BulkAsks(c)
    <3>1. /\ \E t : req' = [req EXCEPT ![c] = [pc |-> "bulk", q |-> req[c].q, at |-> now, todo |-> t]]
          /\ bal' = bal
      BY <2>7 DEF BulkAsks, books
    <3>2. /\ req'[c].pc = "bulk" /\ \A d \in Client : d # c => req'[d] = req[d]
      BY <1>d, <3>1
    <3> QED BY <3>1, <3>2, FundedFrame
  <2>8. CASE BulkAnswer(c)
    BY <1>2, <2>8 DEF BulkAnswer, books
  <2> QED BY <1>5, <2>1, <2>2, <2>3, <2>4, <2>5, <2>6, <2>7, <2>8 DEF Serve
<1>6. CASE SweepStep
  BY <1>2, <1>6 DEF SweepStep, SweepStart, SweepQueues, SweepAsks, SweepAnswered, SweepSaves, books
<1>7. CASE ReconStep
  BY <1>2, <1>7 DEF ReconStep, ReconStart, ReconIntent, ReconChases, ReconIntentsDone, ReconLooks,
     ReconCompares, ReconAsks, ReconAnswered, ReconEnds, ReconSaves, books
<1>8. CASE Tick \/ LateLands \/ LateLost \/ UNCHANGED vars
  BY <1>2, <1>8 DEF Tick, LateLands, LateLost, vars, books
<1>9. CASE Crash
  <2>1. bal' = bal /\ \A c \in Client : req'[c] = Idle
    BY <1>9 DEF Crash, Restart, books
  <2> QED BY <1>i, <2>1, FundedFrame
<1>10. ASSUME NEW c \in Client, CrashInFinish(c) PROVE Funded'
  <2>1. Finishes(c) /\ Booked(c) /\ \A d \in Client : req'[d] = Idle
    BY <1>10 DEF CrashInFinish, LedgerFirst, Restart
  <2> QED BY <1>3, <2>1
<1> QED BY <1>4, <1>5, <1>6, <1>7, <1>8, <1>9, <1>10 DEF Next

\* All of it holds at the start.
LEMMA FirstInit == Init => Shapes /\ MutexHeld /\ Funded
<1> SUFFICES ASSUME Init PROVE Shapes /\ MutexHeld /\ Funded
  OBVIOUS
<1>1. NoRecord \in Records
  BY DEF NoRecord, Records, NoOwner
<1>2. Idle \in Reqs /\ NoSweep \in Sweeps /\ NoRecon \in Recons
  BY DEF Reqs, Sweeps, Recons
<1>3. \A a \in Acct : (IF a \in Foreign THEN "active" ELSE "absent") \in States
  BY DEF States
<1>4. bal \in [Reseller -> Int] /\ \A p \in Reseller : bal[p] >= 0
  BY CreditAssumption DEF Init
<1>5. Shapes
  BY <1>1, <1>2, <1>3, <1>4 DEF Init, Shapes
<1>6. MutexHeld
  BY DEF Init, MutexHeld, Engaged, Idle, NoSweep, NoRecon
<1>7. Funded
  BY <1>4 DEF Init, Funded, NoOverdraft, Idle
<1> QED BY <1>5, <1>6, <1>7

\* No reseller goes below zero, however the panel's answers, the sweeps, the
\* crashes and the requests of others fall between check and debit.
THEOREM NoDebt == Spec => []NoOverdraft
<1>1. Init => Shapes /\ MutexHeld /\ Funded
  BY FirstInit
<1>2. Shapes /\ MutexHeld /\ Funded /\ [Next]_vars => (Shapes /\ MutexHeld /\ Funded)'
  BY ShapesStep, MutexStep, FundedStep
<1>3. Funded => NoOverdraft
  BY DEF Funded
<1> QED BY <1>1, <1>2, <1>3, PTL DEF Spec

-----------------------------------------------------------------------------
(* Coverage. *)

\* The account is made, but its record is neither booked nor saved yet.
Decorating(a) == \E c \in Client : req[c].pc = "decorate" /\ req[c].q.a = a

\* The time the registry in memory gives an account was granted, or is about
\* to be.
Given(a) == mem[a].expires <= granted[a] \/ Decorating(a)

\* The records the expiry sweep still means to disable.
SweepWork ==
  (IF sweep.pc = "idle" THEN {} ELSE sweep.due)
    \union (IF sweep.pc \in {"queued", "call"} THEN {<<sweep.a, sweep.id>>} ELSE {})

\* What the disk holds of a live account, memory holds too, and it was granted.
Backed(a) ==
  Live(disk[a]) => /\ Live(mem[a]) /\ mem[a].expires = disk[a].expires
                   /\ disk[a].expires <= granted[a]

\* A record in the sweep's hands is not given more than was granted, be it
\* deleted by now.
Swept(w) == w[2] <= records /\ (mem[w[1]].id = w[2] => Given(w[1]))

\* A name is not live where it is being made, nor on disk before it is booked.
Making(c) ==
  /\ req[c].pc = "create" => ~Live(mem[req[c].q.a])
  /\ req[c].pc = "decorate" => ~Live(disk[req[c].q.a])

\* The bulk operation asks for live accounts.
Asking(c) == req[c].pc = "bulk" /\ call # NoCall => Live(mem[call.a])

Covered ==
  /\ \A a \in Acct : Backed(a) /\ (Live(mem[a]) => Given(a))
  /\ \A a \in Acct : mem[a].id <= records /\ disk[a].id <= records
  /\ \A w \in SweepWork : Swept(w)
  /\ \A c \in Client : Making(c) /\ Asking(c)

\* While another than a decorating request has the turn, nobody decorates.
LEMMA Quiet ==
  ASSUME MutexHeld, NEW p, Turn(p), p \in Client => req[p].pc # "decorate"
  PROVE  \A a : ~Decorating(a)
  BY OneEngaged DEF Engaged, Decorating

\* Where somebody has the turn, the requests of others wait.
LEMMA OthersWait ==
  ASSUME MutexHeld, NEW p, Turn(p), NEW d \in Client, d # p
  PROVE  req[d].pc \in {"idle", "queued"}
  BY OneEngaged DEF Engaged

\* The work of a sweep names accounts.
LEMMA WorkShape == ASSUME Shapes PROVE SweepWork \subseteq Work
<1>1. sweep \in Sweeps
  BY DEF Shapes
<1> QED BY <1>1, SweepShape DEF SweepWork, Work

\* The expiry sweep adds to its work where it begins, and only there.
LEMMA SweepShrinks ==
  ASSUME Shapes, SweepQueues \/ SweepAsks \/ SweepSaves \/ SweepAnswered
  PROVE  SweepWork' \subseteq SweepWork
<1>t. sweep \in Sweeps
  BY DEF Shapes
<1>1. CASE SweepQueues
  <2>1. SweepWork = sweep.due
    BY <1>1 DEF SweepQueues, SweepWork
  <2>2. \A w \in sweep.due : w = <<w[1], w[2]>>
    BY <1>t, <1>1, SweepShape DEF SweepQueues, Work
  <2>3. CASE sweep' = Sweep("save", {})
    BY <2>3 DEF SweepWork, Sweep
  <2>4. ASSUME NEW w \in sweep.due, sweep' = SweepOn("queued", sweep.due \ {w}, w[1], w[2])
        PROVE  SweepWork' \subseteq SweepWork
    <3>1. SweepWork' = (sweep.due \ {w}) \union {<<w[1], w[2]>>}
      BY <2>4 DEF SweepWork, SweepOn
    <3> QED BY <2>1, <2>2, <3>1
  <2> QED BY <1>1, <2>3, <2>4 DEF SweepQueues
<1>2. CASE SweepAsks
  <2>1. sweep' = SweepOn("call", sweep.due, sweep.a, sweep.id)
    BY <1>t, <1>2, SweepAsking DEF SweepAsks
  <2> QED BY <1>2, <2>1 DEF SweepAsks, SweepWork, SweepOn
<1>3. CASE SweepSaves
  BY <1>3 DEF SweepSaves, SweepWork, NoSweep
<1>4. CASE SweepAnswered
  <2>1. sweep.pc = "call" /\ (sweep' = Sweep("loop", sweep.due) \/ sweep' = Sweep("loop", {}))
    BY <1>4 DEF SweepAnswered
  <2> QED BY <2>1 DEF SweepWork, Sweep
<1> QED BY <1>1, <1>2, <1>3, <1>4
\* A step that leaves the registry alone keeps it.
LEMMA CoverFrame ==
  ASSUME Covered, UNCHANGED <<mem, disk, granted, records>>, SweepWork' \subseteq SweepWork,
         \A c \in Client : \/ req'[c] = req[c]
                           \/ /\ req[c].pc # "decorate" /\ req'[c].pc # "decorate"
                              /\ req'[c].pc = "create" => ~Live(mem[req'[c].q.a]),
         \A c \in Client : req'[c].pc = "bulk" /\ call' # NoCall => Live(mem[call'.a])
  PROVE  Covered'
<1>1. \A a \in Acct : Decorating(a) => Decorating(a)'
  BY DEF Decorating
<1>2. \A a : Decorating(a) => Decorating(a)'
  BY DEF Decorating
<1>3. \A a : Given(a) => Given(a)'
  BY <1>2 DEF Given
<1>4. \A a \in Acct : Backed(a)' /\ (Live(mem'[a]) => Given(a)')
  BY <1>3 DEF Covered, Backed
<1>5. \A w \in SweepWork' : Swept(w)'
  BY <1>3 DEF Covered, Swept
<1>6. \A c \in Client : Making(c)'
  BY DEF Covered, Making
<1>7. \A c \in Client : Asking(c)'
  BY DEF Asking
<1> QED BY <1>4, <1>5, <1>6, <1>7 DEF Covered

\* A save where nobody decorates.
LEMMA CoverSave ==
  ASSUME Covered, UNCHANGED <<mem, granted, records>>, disk' = mem, SweepWork' \subseteq SweepWork,
         \A a : ~Decorating(a),
         \A c \in Client : req'[c].pc \in {"idle", "queued"}
  PROVE  Covered'
<1>1. \A a \in Acct : Live(mem[a]) => mem[a].expires <= granted[a]
  BY DEF Covered, Given
<1>2. \A w \in SweepWork : w[2] <= records /\ (mem[w[1]].id = w[2] => mem[w[1]].expires <= granted[w[1]])
  BY DEF Covered, Swept, Given
<1>3. \A a \in Acct : Backed(a)' /\ (Live(mem'[a]) => Given(a)')
  BY <1>1 DEF Backed, Given
<1>4. \A w \in SweepWork' : Swept(w)'
  BY <1>2 DEF Swept, Given
<1>5. \A a \in Acct : mem'[a].id <= records' /\ disk'[a].id <= records'
  BY DEF Covered
<1>6. \A c \in Client : Making(c)' /\ Asking(c)'
  BY DEF Making, Asking
<1> QED BY <1>3, <1>4, <1>5, <1>6 DEF Covered

\* A flip of the status, under the mutex, of a record whose time was granted.
LEMMA CoverFlip ==
  ASSUME Shapes, Covered, UNCHANGED <<disk, granted, records>>, SweepWork' \subseteq SweepWork,
         NEW a \in Acct, NEW s \in {"active", "disabled"}, mem' = [mem EXCEPT ![a].status = s],
         mem[a].expires <= granted[a], call' = NoCall,
         \A b : ~Decorating(b),
         \A c \in Client : req'[c].pc \notin {"create", "decorate"}
  PROVE  Covered'
<1>0. \A b \in Acct : mem[b] \in Records
  BY DEF Shapes
<1>1. \A b \in Acct : /\ mem'[b].expires = mem[b].expires /\ mem'[b].id = mem[b].id
                      /\ b # a => mem'[b] = mem[b]
                      /\ Live(mem[b]) => Live(mem'[b])
  BY <1>0 DEF Shapes, Records, Live
<1>2. \A b \in Acct : Backed(b)'
  BY <1>1 DEF Covered, Backed
<1>3. \A b \in Acct : Live(mem'[b]) => Given(b)'
  BY <1>1 DEF Covered, Given
<1>4. \A w \in SweepWork' : Swept(w)'
  <2> SUFFICES ASSUME NEW w \in SweepWork' PROVE Swept(w)'
    OBVIOUS
  <2>1. w[1] \in Acct
    BY WorkShape DEF Work
  <2>2. w \in SweepWork
    OBVIOUS
  <2>3. w[2] <= records /\ (mem[w[1]].id = w[2] => mem[w[1]].expires <= granted[w[1]])
    BY <2>2 DEF Covered, Swept, Given
  <2> QED BY <1>1, <2>1, <2>3 DEF Swept, Given
<1>5. \A b \in Acct : mem'[b].id <= records' /\ disk'[b].id <= records'
  BY <1>1 DEF Covered
<1>6. \A c \in Client : Making(c)' /\ Asking(c)'
  BY DEF Making, Asking
<1> QED BY <1>2, <1>3, <1>4, <1>5, <1>6 DEF Covered

\* A restart from a disk whose records were granted.
LEMMA CoverRestart ==
  ASSUME Restart, \A a \in Acct : Live(disk'[a]) => disk'[a].expires <= granted'[a],
         \A a \in Acct : disk'[a].id <= records
  PROVE  Covered'
<1>1. /\ mem' = disk' /\ records' = records /\ sweep' = NoSweep
      /\ \A c \in Client : req'[c].pc = "idle"
  BY DEF Restart, Idle
<1>2. \A a \in Acct : Backed(a)' /\ (Live(mem'[a]) => Given(a)')
  BY <1>1 DEF Backed, Given
<1>3. SweepWork' = {}
  BY <1>1 DEF SweepWork, NoSweep
<1>4. \A c \in Client : Making(c)' /\ Asking(c)'
  BY <1>1 DEF Making, Asking
<1> QED BY <1>1, <1>2, <1>3, <1>4 DEF Covered

\* Booking an operation and changing its record: what the record says after it
\* is what was granted.
LEMMA CoverFinish ==
  ASSUME Shapes, MutexHeld, Covered, NEW c \in Client, Finishes(c), Booked(c)
  PROVE  /\ \A a \in Acct : Live(MemAfter(c)[a]) => MemAfter(c)[a].expires <= granted'[a]
         /\ \A a \in Acct : Live(disk[a]) => disk[a].expires <= granted'[a]
         /\ \A a \in Acct : MemAfter(c)[a].id = mem[a].id
         /\ \A w \in SweepWork : MemAfter(c)[w[1]].id = w[2]
              => MemAfter(c)[w[1]].expires <= granted'[w[1]]
<1> DEFINE q == req[c].q
<1>1. /\ q.a \in Acct /\ Turn(c)
      /\ \/ req[c].pc = "decorate" /\ q.op \in Makes
         \/ req[c].pc # "decorate"
  BY FinishShape
<1>2. /\ RecordAfter(c) \in Records /\ RecordAfter(c).id = mem[q.a].id
      /\ RecordAfter(c).expires >= mem[q.a].expires
  BY RecordShape
<1>3. \A a \in Acct : MemAfter(c)[a] = IF a = q.a THEN RecordAfter(c) ELSE mem[a]
  BY <1>1 DEF MemAfter, Shapes
<1>4. \A a \in Acct : granted'[a] = IF a = q.a THEN RecordAfter(c).expires ELSE granted[a]
  BY <1>1 DEF Booked, Shapes
<1>5. \A a : a # q.a => ~Decorating(a)
  BY <1>1, OthersWait DEF Decorating
<1>6. /\ \A a \in Acct : mem[a].expires \in Nat /\ disk[a].expires \in Nat /\ granted[a] \in Nat
      /\ RecordAfter(c).expires \in Nat
  BY <1>2 DEF Shapes, Records
<1> HIDE DEF q
<1>7. \A a \in Acct : a # q.a /\ Live(mem[a]) => mem[a].expires <= granted[a]
  BY <1>5 DEF Covered, Given
<1>8. \A a \in Acct : Live(MemAfter(c)[a]) => MemAfter(c)[a].expires <= granted'[a]
  BY <1>3, <1>4, <1>6, <1>7
<1>9. \A a \in Acct : Live(disk[a]) => disk[a].expires = mem[a].expires /\ disk[a].expires <= granted[a]
  BY DEF Covered, Backed
<1>10. \A a \in Acct : Live(disk[a]) => disk[a].expires <= granted'[a]
  BY <1>2, <1>4, <1>6, <1>9
<1>11. \A w \in SweepWork : MemAfter(c)[w[1]].id = w[2]
         => MemAfter(c)[w[1]].expires <= granted'[w[1]]
  <2> SUFFICES ASSUME NEW w \in SweepWork, MemAfter(c)[w[1]].id = w[2]
               PROVE  MemAfter(c)[w[1]].expires <= granted'[w[1]]
    OBVIOUS
  <2>1. w[1] \in Acct
    BY WorkShape DEF Work
  <2>2. CASE w[1] = q.a
    BY <1>3, <1>4, <1>6, <2>1, <2>2
  <2>3. CASE w[1] # q.a
    <3>1. mem[w[1]].id = w[2]
      BY <1>3, <2>1, <2>3
    <3>2. mem[w[1]].expires <= granted[w[1]]
      BY <1>5, <2>3, <3>1 DEF Covered, Swept, Given
    <3> QED BY <1>3, <1>4, <2>1, <2>3, <3>2
  <2> QED BY <2>2, <2>3
<1> QED BY <1>2, <1>3, <1>8, <1>10, <1>11

\* Every step keeps it, where no append fails.
LEMMA CoverStep ==
  ASSUME "appendFails" \notin Faults
  PROVE  Shapes /\ MutexHeld /\ Covered /\ [Next]_vars => Covered'
<1> SUFFICES ASSUME Shapes, MutexHeld, Covered, [Next]_vars PROVE Covered'
  OBVIOUS
<1>d. DOMAIN req = Client /\ "sweep" \notin Client /\ "reconcile" \notin Client
  BY ProcAssumption DEF Shapes
<1>i. Idle.pc = "idle"
  BY DEF Idle
<1>t. sweep \in Sweeps /\ recon \in Recons /\ req \in [Client -> Reqs]
  BY DEF Shapes
<1>o. \A c \in Client : Asking(c)
  BY DEF Covered
\* A step that leaves registry, sweep and request alone: the call may be
\* answered, or asked by who has the turn.
<1>1. ASSUME UNCHANGED <<mem, disk, granted, records, req>>, SweepWork' \subseteq SweepWork,
             \/ call' = call \/ call' = NoCall
             \/ \E p : p \notin Client /\ Turn(p)
      PROVE  Covered'
  <2>1. \A c \in Client : req'[c].pc = "bulk" /\ call' # NoCall => Live(mem[call'.a])
    <3>1. CASE \E p : p \notin Client /\ Turn(p)
      BY <1>1, <3>1, OthersWait
    <3>2. CASE call' = call \/ call' = NoCall
      BY <1>1, <1>o, <3>2 DEF Asking
    <3> QED BY <1>1, <3>1, <3>2
  <2> QED BY <1>1, <2>1, CoverFrame
\* A step of the request that has the turn.
<1>2. ASSUME NEW c \in Client, Turn(c), UNCHANGED <<mem, disk, granted, records, sweep>>,
             NEW x, req' = [req EXCEPT ![c] = x], req[c].pc # "decorate", x.pc # "decorate",
             x.pc = "create" => ~Live(mem[x.q.a]), x.pc = "bulk" => Live(mem[call'.a])
      PROVE  Covered'
  <2>1. req'[c] = x /\ \A e \in Client : e # c => req'[e] = req[e]
    BY <1>2, <1>d
  <2>2. \A e \in Client : e # c => req'[e].pc \in {"idle", "queued"}
    BY <1>2, <2>1, OthersWait
  <2>3. SweepWork' = SweepWork
    BY <1>2 DEF SweepWork
  <2> QED BY <1>2, <2>1, <2>2, <2>3, CoverFrame
<1>3. ASSUME NEW c \in Client, Arrive(c) PROVE Covered'
  <2>1. PICK q : req' = [req EXCEPT ![c] = [pc |-> "queued", q |-> q]]
    BY <1>3 DEF Arrive
  <2>2. req[c].pc = "idle" /\ req'[c].pc = "queued" /\ \A e \in Client : e # c => req'[e] = req[e]
    BY <1>3, <1>d, <1>i, <2>1 DEF Arrive
  <2>3. UNCHANGED <<mem, disk, granted, records, sweep, call>>
    BY <1>3 DEF Arrive, books, wire, sweeps, world
  <2>4. SweepWork' = SweepWork
    BY <2>3 DEF SweepWork
  <2>5. \A e \in Client : req'[e].pc = "bulk" /\ call' # NoCall => Live(mem[call'.a])
    BY <1>o, <2>2, <2>3 DEF Asking
  <2> QED BY <2>2, <2>3, <2>4, <2>5, CoverFrame
<1>4. ASSUME NEW c \in Client, Serve(c) PROVE Covered'
  <2>1. CASE Refuse(c) \/ CreateFails(c) \/ AskFails(c)
    <3>1. /\ Turn(c) /\ Done(c) /\ UNCHANGED <<mem, disk, granted, records, sweep>>
          /\ req[c].pc # "decorate"
      BY <2>1 DEF Refuse, CreateFails, AskFails, books, sweeps, world
    <3> QED BY <1>2, <1>i, <3>1 DEF Done
  <2>2. CASE StartCreate(c)
    <3>1. /\ Turn(c) /\ req[c].pc = "queued" /\ req[c].q.op \in {"activate", "trial"}
          /\ Accepted(req[c].q) /\ UNCHANGED <<mem, disk, granted, records, sweep>>
          /\ req' = [req EXCEPT ![c] = [pc |-> "create", q |-> req[c].q, at |-> now]]
      BY <2>2 DEF StartCreate, Accepts, Asks, books, sweeps, world
    <3>2. ~Live(mem[req[c].q.a])
      BY <3>1 DEF Accepted
    <3>3. PICK x : x = [pc |-> "create", q |-> req[c].q, at |-> now]
      OBVIOUS
    <3>4. /\ x.pc = "create" /\ ~Live(mem[x.q.a]) /\ req' = [req EXCEPT ![c] = x]
      BY <3>1, <3>2, <3>3
    <3> QED BY <1>2, <3>1, <3>4
  <2>3. CASE StartEnable(c) \/ StartStatus(c) \/ StartDelete(c)
    <3>1. /\ Turn(c) /\ req[c].pc = "queued" /\ UNCHANGED <<mem, disk, granted, records, sweep>>
          /\ \E pc : /\ pc \in {"enable", "status", "delete"}
                     /\ req' = [req EXCEPT ![c] = [pc |-> pc, q |-> req[c].q, at |-> now]]
      BY <2>3 DEF StartEnable, StartStatus, StartDelete, Accepts, Asks, books, sweeps, world
    <3>2. PICK pc \in {"enable", "status", "delete"} :
            req' = [req EXCEPT ![c] = [pc |-> pc, q |-> req[c].q, at |-> now]]
      BY <3>1
    <3>3. PICK x : x = [pc |-> pc, q |-> req[c].q, at |-> now]
      OBVIOUS
    <3>4. x.pc \in {"enable", "status", "delete"} /\ req' = [req EXCEPT ![c] = x]
      BY <3>2, <3>3
    <3> QED BY <1>2, <3>1, <3>4
  <2>4. CASE Created(c)
    <3>0. PICK a : a = req[c].q.a
      OBVIOUS
    <3>1. /\ Turn(c) /\ req[c].pc = "create" /\ UNCHANGED <<disk, granted, sweep>>
          /\ mem' = [mem EXCEPT ![a] = NewRecord(req[c].q)] /\ records' = records + 1
          /\ req' = [req EXCEPT ![c] = [pc |-> "decorate", q |-> req[c].q, at |-> now]]
      BY <2>4, <3>0 DEF Created, books, sweeps
    <3>2. a \in Acct /\ ~Live(mem[a]) /\ ~Live(disk[a])
      <4>1. req[c].q \in Requests /\ req[c].q.op \in Makes
        BY <1>t, <3>1, ReqShape
      <4>2. a \in Acct
        BY <3>0, <4>1, RequestShape DEF Makes, Bulk
      <4>3. ~Live(mem[a])
        BY <3>0, <3>1 DEF Covered, Making
      <4> QED BY <4>2, <4>3 DEF Covered, Backed
    <3>3. /\ mem'[a].id = records + 1 /\ \A b \in Acct : b # a => mem'[b] = mem[b]
      BY <3>1, <3>2 DEF Shapes, NewRecord, NextId
    <3>4. /\ req'[c].pc = "decorate" /\ req'[c].q.a = a
          /\ \A e \in Client : e # c => req'[e].pc \in {"idle", "queued"}
      BY <1>d, <3>0, <3>1, OthersWait
    <3>5. Decorating(a)' /\ \A b : ~Decorating(b)
      BY <3>1, <3>4, Quiet DEF Decorating
    <3>6. /\ records \in Nat
          /\ \A b \in Acct : mem[b].id \in Nat /\ disk[b].id \in Nat
      BY DEF Shapes, Records
    <3>7. \A b \in Acct : Backed(b)' /\ (Live(mem'[b]) => Given(b)')
      <4> SUFFICES ASSUME NEW b \in Acct PROVE Backed(b)' /\ (Live(mem'[b]) => Given(b)')
        OBVIOUS
      <4>1. CASE b = a
        BY <3>1, <3>2, <3>5, <4>1 DEF Backed, Given
      <4>2. CASE b # a
        BY <3>1, <3>3, <3>5, <4>2 DEF Covered, Backed, Given
      <4> QED BY <4>1, <4>2
    <3>8. \A b \in Acct : mem'[b].id <= records' /\ disk'[b].id <= records'
      BY <3>1, <3>3, <3>6 DEF Covered
    <3>9. \A w \in SweepWork' : Swept(w)'
      <4> SUFFICES ASSUME NEW w \in SweepWork' PROVE Swept(w)'
        OBVIOUS
      <4>1. w \in SweepWork
        BY <3>1 DEF SweepWork
      <4>2. w[1] \in Acct /\ w[2] \in Nat /\ w[2] <= records
        BY <4>1, WorkShape DEF Work, Covered, Swept
      <4>3. CASE w[1] = a
        BY <3>1, <3>3, <3>6, <4>2, <4>3 DEF Swept
      <4>4. CASE w[1] # a
        <5>1. mem'[w[1]] = mem[w[1]] /\ granted'[w[1]] = granted[w[1]]
          BY <3>1, <3>3, <4>2, <4>4
        <5>2. mem[w[1]].id = w[2] => mem[w[1]].expires <= granted[w[1]]
          BY <3>5, <4>1 DEF Covered, Swept, Given
        <5> QED BY <3>1, <3>6, <4>2, <5>1, <5>2 DEF Swept, Given
      <4> QED BY <4>3, <4>4
    <3>10. \A e \in Client : Making(e)' /\ Asking(e)'
      BY <3>1, <3>2, <3>4 DEF Making, Asking
    <3> QED BY <3>7, <3>8, <3>9, <3>10 DEF Covered
  <2>5. CASE Finish(c)
    <3>1. /\ Finishes(c) /\ Booked(c) /\ mem' = MemAfter(c) /\ disk' = MemAfter(c)
          /\ req' = [req EXCEPT ![c] = Idle] /\ UNCHANGED <<sweep, records>>
      BY <2>5 DEF Finish, Saved, Done, sweeps
    <3>2. \A e \in Client : req'[e].pc \in {"idle", "queued"}
      <4>1. Turn(c)
        BY <3>1 DEF Finishes
      <4>2. req'[c] = Idle /\ \A e \in Client : e # c => req'[e] = req[e]
        BY <1>d, <3>1
      <4> QED BY <1>i, <4>1, <4>2, OthersWait
    <3>3. \A b \in Acct : Backed(b)' /\ (Live(mem'[b]) => Given(b)')
      BY <3>1, CoverFinish DEF Backed, Given
    <3>4. \A b \in Acct : mem'[b].id <= records' /\ disk'[b].id <= records'
      BY <3>1, CoverFinish DEF Covered
    <3>5. \A w \in SweepWork' : Swept(w)'
      <4>1. SweepWork' = SweepWork
        BY <3>1 DEF SweepWork
      <4> QED BY <3>1, <4>1, CoverFinish DEF Covered, Swept, Given
    <3>6. \A e \in Client : Making(e)' /\ Asking(e)'
      BY <3>2 DEF Making, Asking
    <3> QED BY <3>3, <3>4, <3>5, <3>6 DEF Covered
  <2>6. CASE FinishFails(c)
    BY <2>6 DEF FinishFails, Fault
  <2>7. CASE BulkAsks(c)
    <3>1. /\ Turn(c) /\ req[c].pc # "decorate" /\ UNCHANGED <<mem, disk, granted, records, sweep>>
      BY <2>7 DEF BulkAsks, Accepts, books, sweeps, world
    <3>2. \E b, t : /\ Wanting(req[c].q, b) /\ call' = Call(b, Target(req[c].q))
                    /\ req' = [req EXCEPT ![c] = [pc |-> "bulk", q |-> req[c].q, at |-> now, todo |-> t]]
      BY <2>7 DEF BulkAsks
    <3>3. PICK b, t : /\ Wanting(req[c].q, b) /\ call' = Call(b, Target(req[c].q))
                      /\ req' = [req EXCEPT ![c] = [pc |-> "bulk", q |-> req[c].q, at |-> now, todo |-> t]]
      BY <3>2
    <3>4. Live(mem[call'.a])
      BY <3>3 DEF Wanting, Call
    <3>5. PICK x : x = [pc |-> "bulk", q |-> req[c].q, at |-> now, todo |-> t]
      OBVIOUS
    <3>6. x.pc = "bulk" /\ req' = [req EXCEPT ![c] = x]
      BY <3>3, <3>5
    <3> QED BY <1>2, <3>1, <3>4, <3>6
  <2>8. CASE BulkAnswer(c)
    <3>1. /\ Turn(c) /\ req[c].pc = "bulk" /\ call # NoCall /\ call' = NoCall
          /\ UNCHANGED <<disk, granted, records, sweep, req>>
          /\ \/ mem' = [mem EXCEPT ![call.a].status = Target(req[c].q)]
             \/ mem' = mem
      BY <2>8 DEF BulkAnswer, PanelDoes, PanelRejects, PanelSilent, books, sweeps
    <3>2. SweepWork' = SweepWork
      BY <3>1 DEF SweepWork
    <3>3. CASE mem' = mem
      BY <1>1, <3>1, <3>2, <3>3
    <3>4. CASE mem' = [mem EXCEPT ![call.a].status = Target(req[c].q)]
      <4>1. call.a \in Acct /\ Live(mem[call.a])
        BY <1>o, <3>1 DEF Shapes, Calls, Asking
      <4>2. \A b : ~Decorating(b)
        BY <3>1, Quiet
      <4>3. mem[call.a].expires <= granted[call.a]
        BY <4>1, <4>2 DEF Covered, Given
      <4>4. \A e \in Client : req'[e].pc \notin {"create", "decorate"}
        BY <3>1, OthersWait
      <4>5. Target(req[c].q) \in {"active", "disabled"}
        BY DEF Target
      <4> QED BY <3>1, <3>2, <3>4, <4>1, <4>2, <4>3, <4>4, <4>5, CoverFlip
    <3> QED BY <3>1, <3>3, <3>4
  <2>9. CASE BulkEnd(c)
    <3>1. /\ Turn(c) /\ req[c].pc # "decorate" /\ disk' = mem /\ req' = [req EXCEPT ![c] = Idle]
          /\ UNCHANGED <<mem, granted, records, sweep>>
      BY <2>9 DEF BulkEnd, Accepts, Done, books, sweeps, world
    <3>2. \A b : ~Decorating(b)
      BY <3>1, Quiet
    <3>3. \A e \in Client : req'[e].pc \in {"idle", "queued"}
      <4>1. req'[c] = Idle /\ \A e \in Client : e # c => req'[e] = req[e]
        BY <1>d, <3>1
      <4> QED BY <1>i, <3>1, <4>1, OthersWait
    <3>4. SweepWork' = SweepWork
      BY <3>1 DEF SweepWork
    <3> QED BY <3>1, <3>2, <3>3, <3>4, CoverSave
  <2> QED BY <1>4, <2>1, <2>2, <2>3, <2>4, <2>5, <2>6, <2>7, <2>8, <2>9 DEF Serve
<1>5. CASE SweepStep
  <2>1. CASE SweepStart
    <3>1. /\ sweep' = Sweep("loop", Due) /\ UNCHANGED <<mem, disk, granted, records, req, call>>
      BY <2>1 DEF SweepStart, books, wire, world
    <3>2. SweepWork' = Due
      BY <3>1 DEF SweepWork, Sweep
    <3>3. \A a : Given(a) => Given(a)'
      BY <3>1 DEF Given, Decorating
    <3>4. \A w \in Due : Swept(w)'
      <4> SUFFICES ASSUME NEW w \in Due PROVE Swept(w)'
        OBVIOUS
      <4>1. w[1] \in Acct /\ mem[w[1]].id = w[2] /\ mem[w[1]].status = "active"
        BY DEF Due
      <4>2. Live(mem[w[1]])
        BY <4>1 DEF Live
      <4> QED BY <3>1, <3>3, <4>1, <4>2 DEF Covered, Swept
    <3>5. \A a \in Acct : Backed(a)' /\ (Live(mem'[a]) => Given(a)')
      BY <3>1, <3>3 DEF Covered, Backed
    <3>6. \A c \in Client : Making(c)' /\ Asking(c)'
      BY <3>1 DEF Covered, Making, Asking
    <3> QED BY <3>1, <3>2, <3>4, <3>5, <3>6 DEF Covered
  <2>2. CASE SweepQueues
    <3>1. SweepWork' \subseteq SweepWork
      BY <2>2, SweepShrinks
    <3> QED BY <1>1, <2>2, <3>1 DEF SweepQueues, books, wire, world
  <2>3. CASE SweepAsks
    <3>1. sweep' = SweepOn("call", sweep.due, sweep.a, sweep.id)
      BY <1>t, <2>3, SweepAsking DEF SweepAsks
    <3>2. SweepWork' = SweepWork
      BY <2>3, <3>1 DEF SweepAsks, SweepWork, SweepOn
    <3> QED BY <1>1, <1>d, <2>3, <3>2 DEF SweepAsks, books, world
  <2>4. CASE SweepAnswered
    <3>1. /\ sweep.pc = "call" /\ Turn("sweep")
      BY <2>4 DEF SweepAnswered, MutexHeld, Engaged
    <3>2. /\ UNCHANGED <<disk, granted, records, req>> /\ call' = NoCall
          /\ sweep' = Sweep("loop", sweep.due) \/ sweep' = Sweep("loop", {})
          /\ \/ mem' = mem
             \/ mem' = Disabled(sweep.a, sweep.id)
      BY <2>4 DEF SweepAnswered, Kept, PanelDoes, PanelRejects, PanelSilent, books
    <3>3. SweepWork' \subseteq SweepWork /\ <<sweep.a, sweep.id>> \in SweepWork
      BY <3>1, <3>2 DEF SweepWork, Sweep
    <3>4. CASE mem' = mem
      BY <1>1, <3>2, <3>3, <3>4
    <3>5. CASE mem[sweep.a].id = sweep.id /\ mem' = [mem EXCEPT ![sweep.a].status = "disabled"]
      <4>1. \A b : ~Decorating(b)
        BY <1>d, <3>1, Quiet
      <4>2. sweep.a \in Acct
        BY <1>t, <3>1, SweepShape
      <4>3. mem[sweep.a].expires <= granted[sweep.a]
        BY <3>3, <3>5, <4>1 DEF Covered, Swept, Given
      <4>4. \A e \in Client : req'[e].pc \notin {"create", "decorate"}
        BY <1>d, <3>1, <3>2, OthersWait
      <4> QED BY <3>2, <3>3, <3>5, <4>1, <4>2, <4>3, <4>4, CoverFlip
    <3> QED BY <3>2, <3>4, <3>5 DEF Disabled
  <2>5. CASE SweepSaves
    <3>1. /\ Turn("sweep") /\ disk' = mem /\ sweep' = NoSweep
          /\ UNCHANGED <<mem, granted, records, req>>
      BY <2>5 DEF SweepSaves, books, world
    <3>2. SweepWork' = {}
      BY <3>1 DEF SweepWork, NoSweep
    <3>3. /\ \A b : ~Decorating(b)
          /\ \A e \in Client : req'[e].pc \in {"idle", "queued"}
      BY <1>d, <3>1, Quiet, OthersWait
    <3> QED BY <3>1, <3>2, <3>3, CoverSave
  <2> QED BY <1>5, <2>1, <2>2, <2>3, <2>4, <2>5 DEF SweepStep
<1>6. CASE ReconStep
  <2>1. CASE ReconSaves
    <3>1. /\ Turn("reconcile") /\ disk' = mem /\ UNCHANGED <<mem, granted, records, req, sweep>>
      BY <2>1 DEF ReconSaves, books, world
    <3>2. SweepWork' = SweepWork
      BY <3>1 DEF SweepWork
    <3>3. /\ \A b : ~Decorating(b)
          /\ \A e \in Client : req'[e].pc \in {"idle", "queued"}
      BY <1>d, <3>1, Quiet, OthersWait
    <3> QED BY <3>1, <3>2, <3>3, CoverSave
  <2>2. CASE ~ReconSaves
    <3>1. /\ UNCHANGED <<mem, disk, granted, records, req, sweep>>
          /\ call' = call \/ call' = NoCall \/ Turn("reconcile")
      BY <1>6, <2>2 DEF ReconStep, ReconStart, ReconIntent, ReconChases, ReconIntentsDone,
         ReconLooks, ReconCompares, ReconAsks, ReconAnswered, ReconEnds, PanelDoes,
         PanelRejects, PanelSilent, books, wire, world
    <3>2. SweepWork' = SweepWork
      BY <3>1 DEF SweepWork
    <3> QED BY <1>1, <1>d, <3>1, <3>2
  <2> QED BY <2>1, <2>2
<1>7. CASE Tick \/ LateLands \/ LateLost \/ UNCHANGED vars
  <2>1. UNCHANGED <<mem, disk, granted, records, req, sweep, call>>
    BY <1>7 DEF Tick, LateLands, LateLost, vars, books, wire, sweeps, world
  <2>2. SweepWork' = SweepWork
    BY <2>1 DEF SweepWork
  <2> QED BY <1>1, <2>1, <2>2
<1>8. CASE Crash
  <2>1. UNCHANGED <<disk, granted>> /\ Restart
    BY <1>8 DEF Crash, books
  <2> QED BY <2>1, CoverRestart DEF Covered, Backed
<1>9. ASSUME NEW c \in Client, CrashInFinish(c) PROVE Covered'
  <2>1. Finishes(c) /\ Booked(c) /\ (disk' = disk \/ disk' = MemAfter(c)) /\ Restart
    BY <1>9 DEF CrashInFinish, LedgerFirst
  <2>2. \A a \in Acct : Live(disk'[a]) => disk'[a].expires <= granted'[a]
    BY <2>1, CoverFinish
  <2>3. \A a \in Acct : disk'[a].id <= records
    BY <2>1, CoverFinish DEF Covered
  <2> QED BY <2>1, <2>2, <2>3, CoverRestart
<1> QED BY <1>3, <1>4, <1>5, <1>6, <1>7, <1>8, <1>9 DEF Next

\* Where no append to the ledger fails, the registry on disk promises no
\* account more time than was granted: neither sweep saves a record that is
\* made but not booked, and neither a crash nor a name made anew, nor a late
\* answer to the sweep about the old one, brings one back.
THEOREM NoFreeTime ==
  ASSUME "appendFails" \notin Faults
  PROVE  Spec => []CoverageIsGranted
<1>1. Init => Shapes /\ MutexHeld /\ Funded
  BY FirstInit
<1>2. Init => Covered
  BY DEF Init, Covered, Backed, Making, Asking, SweepWork, NoSweep, Idle, NoRecord, Live
<1>3. Shapes /\ MutexHeld /\ [Next]_vars => (Shapes /\ MutexHeld)'
  BY ShapesStep, MutexStep
<1>4. Shapes /\ MutexHeld /\ Covered /\ [Next]_vars => Covered'
  BY CoverStep
<1>5. Covered => CoverageIsGranted
  BY DEF Covered, Backed, CoverageIsGranted
<1> QED BY <1>1, <1>2, <1>3, <1>4, <1>5, PTL DEF Spec

-----------------------------------------------------------------------------
(* Promises. *)

\* Neither the registry in memory nor the one on disk falls behind what was
\* promised of the record.
Promised ==
  \A a \in Acct : told[a] \in Nat /\ told[a] <= mem[a].expires /\ told[a] <= disk[a].expires

\* A step whose records expire no earlier, and that promises nothing new.
LEMMA PromiseFrame ==
  ASSUME Shapes, Promised, told' = told,
         \A a \in Acct : mem'[a].expires \in Nat /\ mem'[a].expires >= mem[a].expires,
         \/ disk' = disk
         \/ disk' = mem
  PROVE  Promised'
<1>1. \A a \in Acct : disk[a].expires \in Nat /\ mem[a].expires \in Nat
  BY DEF Shapes, Records
<1> QED BY <1>1 DEF Promised

\* Every step keeps it, whatever fails.
LEMMA PromiseStep == Shapes /\ DOMAIN told = Acct /\ Promised /\ [Next]_vars
                       => DOMAIN told' = Acct /\ Promised'
<1> SUFFICES ASSUME Shapes, DOMAIN told = Acct, Promised, [Next]_vars
             PROVE  DOMAIN told' = Acct /\ Promised'
  OBVIOUS
<1>x. \A a \in Acct : /\ disk[a].expires \in Nat /\ mem[a].expires \in Nat
                      /\ mem[a] \in Records
  BY DEF Shapes, Records
<1>1. ASSUME told' = told, mem' = mem, disk' = disk \/ disk' = mem
      PROVE  DOMAIN told' = Acct /\ Promised'
  BY <1>x, <1>1, PromiseFrame
<1>2. ASSUME told' = told, disk' = disk, NEW a \in Acct, NEW s, mem' = [mem EXCEPT ![a].status = s]
      PROVE  DOMAIN told' = Acct /\ Promised'
  <2>1. \A b \in Acct : mem'[b].expires = mem[b].expires
    BY <1>x, <1>2 DEF Shapes, Records
  <2> QED BY <1>x, <1>2, <2>1, PromiseFrame
<1>3. ASSUME NEW c \in Client, Finishes(c)
      PROVE  \A a \in Acct : MemAfter(c)[a].expires \in Nat /\ MemAfter(c)[a].expires >= mem[a].expires
  <2>1. req[c].q.a \in Acct
    BY <1>3, FinishShape
  <2>2. RecordAfter(c).expires \in Nat /\ RecordAfter(c).expires >= mem[req[c].q.a].expires
    BY <1>3, RecordShape DEF Records
  <2>3. \A a \in Acct : MemAfter(c)[a] = IF a = req[c].q.a THEN RecordAfter(c) ELSE mem[a]
    BY <2>1 DEF MemAfter, Shapes
  <2> QED BY <1>x, <2>2, <2>3
<1>4. ASSUME NEW c \in Client, Arrive(c) PROVE DOMAIN told' = Acct /\ Promised'
  BY <1>1, <1>4 DEF Arrive, books
<1>5. ASSUME NEW c \in Client, Serve(c) PROVE DOMAIN told' = Acct /\ Promised'
  <2>1. CASE \/ Refuse(c) \/ CreateFails(c) \/ AskFails(c) \/ StartCreate(c) \/ StartEnable(c)
             \/ StartStatus(c) \/ StartDelete(c) \/ BulkAsks(c) \/ BulkEnd(c)
    BY <1>1, <2>1 DEF Refuse, CreateFails, AskFails, StartCreate, StartEnable, StartStatus,
       StartDelete, BulkAsks, BulkEnd, books
  <2>2. CASE Created(c)
    <3>0. PICK a : a = req[c].q.a
      OBVIOUS
    <3>1. /\ told' = [told EXCEPT ![a] = 0] /\ mem' = [mem EXCEPT ![a] = NewRecord(req[c].q)]
          /\ disk' = disk
      BY <2>2, <3>0 DEF Created
    <3>2. req[c].q \in Requests /\ req[c].q.op \in Makes /\ a \in Acct
      <4>1. req[c].q \in Requests /\ req[c].q.op \in Makes
        BY <2>2, ReqShape DEF Created, Shapes
      <4> QED BY <3>0, <4>1, RequestShape DEF Makes, Bulk
    <3>3. NewRecord(req[c].q).expires \in Nat
      <4>1. req[c].q.op = "activate" => req[c].q.n * MonthTicks \in Nat
        BY <3>2, RequestShape, MonthsCount
      <4>2. now \in Nat /\ TrialTicks \in Nat
        BY MonthAssumption DEF Shapes
      <4>3. NewRecord(req[c].q).expires
              = now + (IF req[c].q.op = "trial" THEN TrialTicks ELSE req[c].q.n * MonthTicks)
        BY DEF NewRecord
      <4> QED BY <3>2, <4>1, <4>2, <4>3 DEF Makes
    <3>4. \A b \in Acct : b # a => mem'[b] = mem[b] /\ told'[b] = told[b]
      BY <3>1, <3>2 DEF Shapes
    <3>5. mem'[a] = NewRecord(req[c].q) /\ told'[a] = 0
      BY <3>1, <3>2 DEF Shapes
    <3> QED BY <1>x, <3>1, <3>3, <3>4, <3>5 DEF Promised
  <2>3. CASE Finish(c)
    <3>0. PICK a : a = req[c].q.a
      OBVIOUS
    <3>1. /\ Finishes(c) /\ mem' = MemAfter(c) /\ disk' = MemAfter(c)
          /\ told' = [told EXCEPT ![a] = RecordAfter(c).expires]
      BY <2>3, <3>0 DEF Finish, Saved
    <3>2. a \in Acct /\ RecordAfter(c).expires \in Nat
      BY <3>0, <3>1, FinishShape, RecordShape DEF Records
    <3>3. \A b \in Acct : /\ told'[b] = IF b = a THEN RecordAfter(c).expires ELSE told[b]
                          /\ MemAfter(c)[b] = IF b = a THEN RecordAfter(c) ELSE mem[b]
      BY <3>0, <3>1, <3>2 DEF MemAfter, Shapes
    <3> QED BY <3>1, <3>2, <3>3 DEF Promised
  <2>4. CASE FinishFails(c)
    <3>1. /\ Finishes(c) /\ told' = told /\ disk' = disk
          /\ mem' = mem \/ mem' = MemAfter(c)
      BY <2>4 DEF FinishFails, books
    <3>2. \A a \in Acct : mem'[a].expires \in Nat /\ mem'[a].expires >= mem[a].expires
      BY <1>x, <1>3, <3>1
    <3> QED BY <3>1, <3>2, PromiseFrame
  <2>5. CASE BulkAnswer(c)
    <3>1. /\ call # NoCall /\ told' = told /\ disk' = disk
          /\ \/ mem' = [mem EXCEPT ![call.a].status = Target(req[c].q)]
             \/ mem' = mem
      BY <2>5 DEF BulkAnswer, books
    <3>2. call.a \in Acct
      BY <3>1 DEF Shapes, Calls
    <3> QED BY <1>1, <1>2, <3>1, <3>2
  <2> QED BY <1>5, <2>1, <2>2, <2>3, <2>4, <2>5 DEF Serve
<1>6. CASE SweepStep
  <2>1. CASE SweepAnswered
    <3>1. /\ told' = told /\ disk' = disk
          /\ \/ mem' = mem
             \/ mem' = [mem EXCEPT ![sweep.a].status = "disabled"]
      BY <2>1 DEF SweepAnswered, Disabled, Kept, books
    <3>2. sweep.a \in Acct
      BY <2>1, SweepShape DEF SweepAnswered, Shapes
    <3> QED BY <1>1, <1>2, <3>1, <3>2
  <2>2. CASE ~SweepAnswered
    BY <1>1, <1>6, <2>2 DEF SweepStep, SweepStart, SweepQueues, SweepAsks, SweepSaves, books
  <2> QED BY <2>1, <2>2
<1>7. CASE ReconStep
  BY <1>1, <1>7 DEF ReconStep, ReconStart, ReconIntent, ReconChases, ReconIntentsDone, ReconLooks,
     ReconCompares, ReconAsks, ReconAnswered, ReconEnds, ReconSaves, books
<1>8. CASE Tick \/ LateLands \/ LateLost \/ UNCHANGED vars
  BY <1>1, <1>8 DEF Tick, LateLands, LateLost, vars, books
<1>9. CASE Crash
  <2>1. told' = told /\ disk' = disk /\ mem' = disk
    BY <1>9 DEF Crash, Restart, books
  <2> QED BY <2>1 DEF Promised
<1>10. ASSUME NEW c \in Client, CrashInFinish(c) PROVE DOMAIN told' = Acct /\ Promised'
  <2>1. Finishes(c) /\ told' = told /\ mem' = disk' /\ (disk' = disk \/ disk' = MemAfter(c))
    BY <1>10 DEF CrashInFinish, LedgerFirst, Restart
  <2>2. \A a \in Acct : told[a] <= MemAfter(c)[a].expires
    BY <1>x, <1>3, <2>1 DEF Promised
  <2> QED BY <2>1, <2>2 DEF Promised
<1> QED BY <1>4, <1>5, <1>6, <1>7, <1>8, <1>9, <1>10 DEF Next

\* What an answered request promised survives every crash, silent panel and
\* failed append: the registry on disk gives at least that time.
THEOREM PromisesSurvive == Spec => []PromiseKept
<1>1. Init => Shapes /\ MutexHeld /\ Funded
  BY FirstInit
<1>2. Init => DOMAIN told = Acct /\ Promised
  BY DEF Init, Promised, NoRecord
<1>3. Shapes /\ [Next]_vars => Shapes'
  BY ShapesStep
<1>4. Shapes /\ DOMAIN told = Acct /\ Promised /\ [Next]_vars => DOMAIN told' = Acct /\ Promised'
  BY PromiseStep
<1>5. Shapes /\ Promised => PromiseKept
  <2> SUFFICES ASSUME Shapes, Promised PROVE PromiseKept
    OBVIOUS
  <2>1. \A a \in Acct : disk[a].expires \in Nat
    BY DEF Shapes, Records
  <2> QED BY <2>1 DEF Promised, PromiseKept
<1>6. Shapes /\ DOMAIN told = Acct /\ Promised /\ [Next]_vars
        => (Shapes /\ DOMAIN told = Acct /\ Promised)'
  BY <1>3, <1>4
<1> QED BY <1>1, <1>2, <1>5, <1>6, PTL DEF Spec

-----------------------------------------------------------------------------
(* The dead stay dead. *)

\* The panel has always answered.
Heard == "silent" \notin Faults \/ faults = 0

\* A create nobody waits for any more may still land.
LateCreate(a) == Call(a, "create") \in late

\* The call under the mutex is the one of who has the mutex.
Calling ==
  /\ call # NoCall /\ call.eff \in {"create", "delete"} =>
       \E c \in Client : req[c].pc = call.eff /\ req[c].q.a = call.a
  /\ \A c \in Client :
       /\ req[c].pc = "create" => call = Call(req[c].q.a, "create")
       /\ req[c].pc = "delete" => call = Call(req[c].q.a, "delete")
       /\ req[c].pc = "bulk" /\ call # NoCall => Live(mem[call.a])
  /\ sweep.pc = "call" => call = Call(sweep.a, "disabled")

\* A name is made while no record of it lives, and changed while one does; and
\* what lives on disk lives in memory.
Lives ==
  /\ \A a \in Acct : Live(disk[a]) => Live(mem[a])
  /\ \A a \in Acct : mem[a].id <= records /\ disk[a].id <= records
  /\ \A c \in Client :
       /\ req[c].pc = "create" => ~Live(mem[req[c].q.a])
       /\ req[c].pc \in {"decorate", "enable", "status", "delete"} => Live(mem[req[c].q.a])

\* A record the expiry sweep still holds, and that died since, has no user at
\* the panel and will get none: so the sweep's call about it is rejected.
Buried(w) ==
  /\ w[2] <= records
  /\ mem[w[1]].id = w[2] => /\ ~LateCreate(w[1])
                            /\ ~Live(mem[w[1]]) => panel[w[1]] = "absent"

\* While a create may still land, a record of the name is younger than it.
Young(a) ==
  LateCreate(a) => /\ Live(mem[a]) => mem[a].expires > now
                   /\ Live(disk[a]) => disk[a].expires > now

NoGhosts == (\A a \in Acct : Young(a)) /\ (\A w \in SweepWork : Buried(w))

LifeInv == Calling /\ Lives /\ (Heard => NoGhosts)

\* A fault is counted, and nothing takes one back.
LEMMA FaultsCount ==
  ASSUME Shapes, [Next]_vars
  PROVE  faults' \in {faults, faults + 1}
<1> USE DEF Fault, NoFault, world, vars
<1>1. ASSUME PanelSilent PROVE faults' = faults + 1
  BY <1>1 DEF PanelSilent
<1>2. ASSUME NEW c \in Client, Arrive(c) \/ CrashInFinish(c) PROVE faults' \in {faults, faults + 1}
  BY <1>2 DEF Arrive, CrashInFinish
<1>3. ASSUME NEW c \in Client, Serve(c) PROVE faults' \in {faults, faults + 1}
  <2>1. CASE CreateFails(c) \/ AskFails(c) \/ BulkAnswer(c)
    BY <1>1, <2>1 DEF CreateFails, AskFails, BulkAnswer
  <2>2. CASE \/ Refuse(c) \/ StartCreate(c) \/ Created(c) \/ StartEnable(c) \/ StartStatus(c)
             \/ StartDelete(c) \/ Finish(c) \/ FinishFails(c) \/ BulkAsks(c) \/ BulkEnd(c)
    BY <2>2 DEF Refuse, StartCreate, Created, StartEnable, StartStatus, StartDelete, Finish,
       FinishFails, BulkAsks, BulkEnd
  <2> QED BY <1>3, <2>1, <2>2 DEF Serve
<1>4. CASE SweepStep
  BY <1>1, <1>4 DEF SweepStep, SweepStart, SweepQueues, SweepAsks, SweepAnswered, SweepSaves
<1>5. CASE ReconStep
  BY <1>1, <1>5 DEF ReconStep, ReconStart, ReconIntent, ReconChases, ReconIntentsDone, ReconLooks,
     ReconCompares, ReconAsks, ReconAnswered, ReconEnds, ReconSaves
<1>6. CASE Tick \/ LateLands \/ LateLost \/ Crash \/ UNCHANGED vars
  BY <1>6 DEF Tick, LateLands, LateLost, Crash
<1> QED BY <1>2, <1>3, <1>4, <1>5, <1>6 DEF Next

\* Where every call has been answered, this step is no call without an answer.
LEMMA HeardStep ==
  ASSUME Shapes, [Next]_vars, Heard'
  PROVE  Heard /\ ~PanelSilent
<1>1. faults \in Nat /\ faults' \in {faults, faults + 1}
  BY FaultsCount DEF Shapes
<1>2. Heard
  BY <1>1 DEF Heard
<1>3. ~PanelSilent
  BY <1>1 DEF Heard, PanelSilent, Fault
<1> QED BY <1>2, <1>3

\* Who has the mutex makes its own call, the others none.
LEMMA OwnCall ==
  ASSUME MutexHeld, NEW p, Turn(p), \A d \in Client : d # p => req'[d] = req[d],
         p # "sweep" => sweep' = sweep,
         \/ call' = NoCall
         \/ call'.eff \notin {"create", "delete"}
         \/ p \in Client /\ req'[p].pc = call'.eff /\ call'.a = req'[p].q.a,
         p \in Client => /\ req'[p].pc = "create" => call' = Call(req'[p].q.a, "create")
                         /\ req'[p].pc = "delete" => call' = Call(req'[p].q.a, "delete")
                         /\ req'[p].pc = "bulk" /\ call' # NoCall => Live(mem'[call'.a]),
         p = "sweep" /\ sweep'.pc = "call" => call' = Call(sweep'.a, "disabled")
  PROVE  Calling'
<1>1. \A d \in Client : d # p => req'[d].pc \in {"idle", "queued"}
  BY OthersWait
<1>2. p # "sweep" => sweep'.pc # "call"
  BY OneEngaged DEF Engaged
<1> QED BY <1>1, <1>2 DEF Calling, Call

\* A step that leaves the call and the registry alone keeps the call.
LEMMA CallFrame ==
  ASSUME Calling, UNCHANGED <<call, mem>>,
         \A c \in Client : req'[c] = req[c] \/ {req[c].pc, req'[c].pc} \subseteq {"idle", "queued"},
         sweep' = sweep \/ sweep'.pc # "call"
  PROVE  Calling'
<1>1. \A c \in Client : req[c].pc \notin {"idle", "queued"} => req'[c] = req[c]
  OBVIOUS
<1>2. \A c \in Client : req'[c].pc \notin {"idle", "queued"} => req'[c] = req[c]
  OBVIOUS
<1> QED BY <1>1, <1>2 DEF Calling

\* Whatever comes of the call, it is over.
LEMMA CallEnds ==
  ASSUME PanelDoes \/ PanelRejects \/ PanelSilent
  PROVE  call # NoCall /\ call' = NoCall
  BY DEF PanelDoes, PanelRejects, PanelSilent

LEMMA CallingStep == Shapes /\ MutexHeld /\ Calling /\ [Next]_vars => Calling'
<1> SUFFICES ASSUME Shapes, MutexHeld, Calling, [Next]_vars PROVE Calling'
  OBVIOUS
<1>d. DOMAIN req = Client /\ "sweep" \notin Client /\ "reconcile" \notin Client
  BY ProcAssumption DEF Shapes
<1>i. Idle.pc = "idle"
  BY DEF Idle
<1>t. sweep \in Sweeps /\ recon \in Recons /\ req \in [Client -> Reqs]
  BY DEF Shapes
<1>1. ASSUME NEW c \in Client, Turn(c), Done(c), UNCHANGED sweep, call' = NoCall \/ call' = call,
             call # NoCall => call' = NoCall \/ call.eff \notin {"create", "delete"}
      PROVE  Calling'
  <2>1. req'[c].pc = "idle" /\ \A d \in Client : d # c => req'[d] = req[d]
    BY <1>1, <1>d, <1>i DEF Done
  <2> QED BY <1>1, <1>d, <2>1, OwnCall
<1>2. ASSUME NEW c \in Client, Turn(c), NEW pc \in {"create", "enable", "status", "delete"}, NEW k,
             Asks(c, pc, k), UNCHANGED sweep,
             pc = "create" => k = Call(req[c].q.a, "create"),
             pc = "delete" => k = Call(req[c].q.a, "delete"),
             pc \notin {"create", "delete"} => k.eff \notin {"create", "delete"}
      PROVE  Calling'
  <2>1. /\ req'[c].pc = pc /\ req'[c].q = req[c].q /\ call' = k
        /\ \A d \in Client : d # c => req'[d] = req[d]
    BY <1>2, <1>d DEF Asks
  <2>2. pc \in {"create", "delete"} => k.eff = pc /\ k.a = req[c].q.a
    BY <1>2 DEF Call
  <2> QED BY <1>2, <1>d, <2>1, <2>2, OwnCall
<1>3. ASSUME NEW c \in Client, Turn(c), UNCHANGED <<req, sweep>>, call' = NoCall,
             req[c].pc \notin {"create", "delete"}
      PROVE  Calling'
  BY <1>3, <1>d, OwnCall
<1>4. ASSUME NEW c \in Client, Arrive(c) PROVE Calling'
  <2>1. PICK q : req' = [req EXCEPT ![c] = [pc |-> "queued", q |-> q]]
    BY <1>4 DEF Arrive
  <2>2. req[c].pc = "idle" /\ req'[c].pc = "queued" /\ \A e \in Client : e # c => req'[e] = req[e]
    BY <1>4, <1>d, <1>i, <2>1 DEF Arrive
  <2> QED BY <1>4, <2>2, CallFrame DEF Arrive, wire, sweeps
<1>5. ASSUME NEW c \in Client, Serve(c) PROVE Calling'
  <2>0. ASSUME Turn(c), req[c].pc \notin {"create", "delete"}, call # NoCall
        PROVE  call.eff \notin {"create", "delete"}
    <3>1. \A d \in Client : req[d].pc \notin {"create", "delete"}
      BY <2>0, OthersWait
    <3> QED BY <2>0, <3>1 DEF Calling
  <2>1. CASE Refuse(c) \/ BulkEnd(c)
    BY <1>1, <2>0, <2>1 DEF Refuse, BulkEnd, Accepts, wire, sweeps
  <2>2. CASE CreateFails(c) \/ AskFails(c)
    BY <1>1, <2>2, CallEnds DEF CreateFails, AskFails, sweeps
  <2>3. CASE StartCreate(c)
    BY <1>2, <2>3 DEF StartCreate, Accepts, sweeps
  <2>4. CASE StartEnable(c)
    <3>1. Call(req[c].q.a, "active").eff \notin {"create", "delete"}
      BY DEF Call
    <3> QED BY <1>2, <2>4, <3>1 DEF StartEnable, Accepts, sweeps
  <2>5. CASE StartStatus(c)
    <3>1. /\ Call(req[c].q.a, "active").eff \notin {"create", "delete"}
          /\ Call(req[c].q.a, "disabled").eff \notin {"create", "delete"}
      BY DEF Call
    <3> QED BY <1>2, <2>5, <3>1 DEF StartStatus, Accepts, sweeps
  <2>6. CASE StartDelete(c)
    BY <1>2, <2>6 DEF StartDelete, Accepts, sweeps
  <2>7. CASE Created(c)
    <3>1. /\ Turn(c) /\ UNCHANGED sweep /\ call' = NoCall /\ req'[c].pc = "decorate"
          /\ \A d \in Client : d # c => req'[d] = req[d]
      BY <1>d, <2>7, CallEnds DEF Created, CreateLands, sweeps
    <3> QED BY <1>d, <3>1, OwnCall
  <2>8. CASE Finish(c) \/ FinishFails(c)
    <3>1. Turn(c) /\ Done(c) /\ UNCHANGED sweep /\ (UNCHANGED wire \/ PanelDoes \/ PanelRejects)
      BY <2>8 DEF Finish, FinishFails, Finishes, sweeps
    <3>2. req[c].pc \notin {"create", "delete"} \/ PanelDoes \/ PanelRejects
      BY <2>8 DEF Finish, FinishFails, Finishes, Accepts
    <3> QED BY <1>1, <2>0, <3>1, <3>2, CallEnds DEF wire
  <2>9. CASE BulkAsks(c)
    <3>1. PICK b, t : /\ Wanting(req[c].q, b) /\ call' = Call(b, Target(req[c].q))
                      /\ req' = [req EXCEPT ![c] = [pc |-> "bulk", q |-> req[c].q, at |-> now, todo |-> t]]
      BY <2>9 DEF BulkAsks
    <3>2. Turn(c) /\ UNCHANGED <<mem, sweep>>
      BY <2>9 DEF BulkAsks, Accepts, sweeps
    <3>3. req'[c].pc = "bulk" /\ \A d \in Client : d # c => req'[d] = req[d]
      BY <1>d, <3>1
    <3>4. call'.eff \notin {"create", "delete"} /\ Live(mem'[call'.a])
      BY <3>1, <3>2 DEF Wanting, Target, Call
    <3> QED BY <1>d, <3>2, <3>3, <3>4, OwnCall
  <2>10. CASE BulkAnswer(c)
    BY <1>3, <2>10, CallEnds DEF BulkAnswer, sweeps
  <2> QED BY <1>5, <2>1, <2>2, <2>3, <2>4, <2>5, <2>6, <2>7, <2>8, <2>9, <2>10 DEF Serve
<1>6. CASE SweepStep
  <2>1. CASE SweepStart \/ SweepQueues
    <3>1. sweep'.pc # "call" /\ UNCHANGED <<req, mem, call>>
      BY <2>1 DEF SweepStart, SweepQueues, Sweep, SweepOn, wire
    <3> QED BY <3>1, CallFrame
  <2>2. CASE SweepAsks
    <3>1. sweep' = SweepOn("call", sweep.due, sweep.a, sweep.id)
      BY <1>t, <2>2, SweepAsking DEF SweepAsks
    <3>2. sweep'.pc = "call" /\ sweep'.a = sweep.a
      BY <3>1 DEF SweepOn
    <3>3. Turn("sweep") /\ UNCHANGED req /\ call' = Call(sweep.a, "disabled")
      BY <2>2 DEF SweepAsks
    <3>4. call'.eff \notin {"create", "delete"}
      BY <3>3 DEF Call
    <3> QED BY <1>d, <3>2, <3>3, <3>4, OwnCall
  <2>3. CASE SweepAnswered
    <3>1. sweep.pc = "call" /\ UNCHANGED req /\ call' = NoCall
      BY <2>3, CallEnds DEF SweepAnswered
    <3>2. Turn("sweep")
      BY <3>1 DEF MutexHeld, Engaged
    <3>3. sweep'.pc = "loop"
      BY <2>3 DEF SweepAnswered, Sweep
    <3> QED BY <1>d, <3>1, <3>2, <3>3, OwnCall
  <2>4. CASE SweepSaves
    <3>1. sweep'.pc # "call" /\ UNCHANGED <<req, mem, call>>
      BY <2>4 DEF SweepSaves, NoSweep, wire
    <3> QED BY <3>1, CallFrame
  <2> QED BY <1>6, <2>1, <2>2, <2>3, <2>4 DEF SweepStep
<1>7. CASE ReconStep
  <2>1. CASE ReconAsks
    <3>1. Turn("reconcile") /\ UNCHANGED <<req, sweep>>
          /\ call' = Call(recon.a, IF recon.pc = "orphan" THEN "disabled" ELSE recon.see)
          /\ recon.pc \in {"orphan", "repair"}
      BY <2>1 DEF ReconAsks
    <3>2. call'.eff \notin {"create", "delete"}
      BY <1>t, <3>1, ReconShape DEF Call
    <3> QED BY <1>d, <3>1, <3>2, OwnCall
  <2>2. CASE ReconAnswered
    <3>1. recon.pc \in {"orphanCall", "repairCall"} /\ UNCHANGED <<req, sweep>> /\ call' = NoCall
      BY <2>2, CallEnds DEF ReconAnswered
    <3>2. Turn("reconcile")
      BY <3>1 DEF MutexHeld, Engaged
    <3> QED BY <1>d, <3>1, <3>2, OwnCall
  <2>3. CASE ~ReconAsks /\ ~ReconAnswered
    <3>1. UNCHANGED <<req, sweep, mem, call>>
      BY <1>7, <2>3 DEF ReconStep, ReconStart, ReconIntent, ReconChases, ReconIntentsDone,
         ReconLooks, ReconCompares, ReconEnds, ReconSaves, wire
    <3> QED BY <3>1, CallFrame
  <2> QED BY <2>1, <2>2, <2>3
<1>8. CASE Tick \/ LateLands \/ LateLost \/ UNCHANGED vars
  <2>1. UNCHANGED <<req, sweep, mem, call>>
    BY <1>8 DEF Tick, LateLands, LateLost, vars, wire, sweeps
  <2> QED BY <2>1, CallFrame
<1>9. ASSUME Restart, call' = NoCall PROVE Calling'
  <2>1. sweep'.pc = "idle" /\ \A c \in Client : req'[c].pc = "idle"
    BY <1>9 DEF Restart, NoSweep, Idle
  <2> QED BY <1>9, <2>1 DEF Calling
<1>10. CASE Crash
  BY <1>9, <1>10 DEF Crash
<1>11. ASSUME NEW c \in Client, CrashInFinish(c) PROVE Calling'
  <2>1. UNCHANGED wire \/ call' = NoCall
    BY <1>11, CallEnds DEF CrashInFinish, Finishes
  <2>2. CASE call' = NoCall
    BY <1>9, <1>11, <2>2 DEF CrashInFinish
  <2>3. CASE call' = call /\ call # NoCall
    <3>1. Turn(c) /\ req[c].pc \notin {"create", "delete"}
      BY <1>11, <2>3, CallEnds DEF CrashInFinish, Finishes, Accepts
    <3>2. \A d \in Client : req[d].pc \notin {"create", "delete"}
      BY <3>1, OthersWait
    <3>3. sweep'.pc = "idle" /\ \A d \in Client : req'[d].pc = "idle"
      BY <1>11 DEF CrashInFinish, Restart, NoSweep, Idle
    <3> QED BY <2>3, <3>2, <3>3 DEF Calling
  <2> QED BY <2>1, <2>2, <2>3 DEF wire
<1> QED BY <1>4, <1>5, <1>6, <1>7, <1>8, <1>10, <1>11 DEF Next

\* A step that keeps the registry in memory keeps its lives.
LEMMA LivesFrame ==
  ASSUME Lives, UNCHANGED <<mem, records>>, disk' = disk \/ disk' = mem,
         \A c \in Client : \/ req'[c] = req[c]
                           \/ req'[c].pc \in {"idle", "queued", "bulk"}
                           \/ req'[c].pc = "create" /\ ~Live(mem[req'[c].q.a])
                           \/ req'[c].pc \in {"enable", "status", "delete"} /\ Live(mem[req'[c].q.a])
  PROVE  Lives'
<1>1. \A c \in Client : /\ req'[c].pc = "create" => ~Live(mem[req'[c].q.a])
                        /\ req'[c].pc \in {"decorate", "enable", "status", "delete"}
                             => Live(mem[req'[c].q.a])
  BY DEF Lives
<1> QED BY <1>1 DEF Lives

\* A status flipped while no request depends on it.
LEMMA LivesFlip ==
  ASSUME Shapes, Lives, UNCHANGED <<disk, records>>,
         NEW a \in Acct, NEW s \in {"active", "disabled"}, mem' = [mem EXCEPT ![a].status = s],
         \A c \in Client : req'[c].pc \in {"idle", "queued", "bulk"}
  PROVE  Lives'
<1>1. \A b \in Acct : /\ mem'[b].id = mem[b].id
                      /\ Live(mem[b]) => Live(mem'[b])
  BY DEF Shapes, Records, Live
<1> QED BY <1>1 DEF Lives

\* Where an operation finishes, its record lives, and after it unless it is
\* the deletion.
LEMMA FinishLives ==
  ASSUME Shapes, Lives, NEW c \in Client, Finishes(c)
  PROVE  /\ req[c].q.a \in Acct /\ Live(mem[req[c].q.a])
         /\ \A a \in Acct : MemAfter(c)[a] = IF a = req[c].q.a THEN RecordAfter(c) ELSE mem[a]
         /\ \A a \in Acct : /\ MemAfter(c)[a].id = mem[a].id
                            /\ Live(MemAfter(c)[a]) => Live(mem[a])
                            /\ MemAfter(c)[a].expires >= mem[a].expires
         /\ req[c].q.op # "remove" => \A a \in Acct : Live(mem[a]) => Live(MemAfter(c)[a])
<1>1. /\ req[c].q.a \in Acct
      /\ \/ req[c].pc \in {"decorate", "enable", "status", "delete"}
         \/ req[c].pc = "queued" /\ req[c].q.op = "renew" /\ Accepted(req[c].q)
  BY FinishShape
<1>2. Live(mem[req[c].q.a])
  BY <1>1 DEF Lives, Accepted
<1>3. \A a \in Acct : MemAfter(c)[a] = IF a = req[c].q.a THEN RecordAfter(c) ELSE mem[a]
  BY <1>1 DEF MemAfter, Shapes
<1>4. /\ RecordAfter(c).id = mem[req[c].q.a].id
      /\ RecordAfter(c).expires >= mem[req[c].q.a].expires
      /\ req[c].q.op # "remove" => Live(RecordAfter(c))
  BY <1>2, RecordShape
<1>5. \A a \in Acct : mem[a].expires \in Nat
  BY DEF Shapes, Records
<1> QED BY <1>1, <1>2, <1>3, <1>4, <1>5

\* What a step of an operation's last stretch may leave.
Outcomes(c) ==
  \/ mem' = MemAfter(c) /\ disk' = MemAfter(c)
  \/ mem' = disk' /\ disk' = disk
  \/ disk' = disk /\ mem' = IF req[c].q.op = "remove" THEN mem ELSE MemAfter(c)

LEMMA LivesFinish ==
  ASSUME Shapes, Lives, NEW c \in Client, Finishes(c), Outcomes(c), UNCHANGED records,
         \A d \in Client : req'[d].pc \in {"idle", "queued"}
  PROVE  Lives'
<1>1. \A a \in Acct : Live(disk'[a]) => Live(mem'[a])
  BY FinishLives DEF Lives, Outcomes
<1>2. \A a \in Acct : mem'[a].id <= records' /\ disk'[a].id <= records'
  BY FinishLives DEF Lives, Outcomes
<1> QED BY <1>1, <1>2 DEF Lives

LEMMA LivesStep == Shapes /\ MutexHeld /\ Calling /\ Lives /\ [Next]_vars => Lives'
<1> SUFFICES ASSUME Shapes, MutexHeld, Calling, Lives, [Next]_vars PROVE Lives'
  OBVIOUS
<1>d. DOMAIN req = Client /\ "sweep" \notin Client /\ "reconcile" \notin Client
  BY ProcAssumption DEF Shapes
<1>i. Idle.pc = "idle"
  BY DEF Idle
<1>t. sweep \in Sweeps /\ req \in [Client -> Reqs]
  BY DEF Shapes
<1>1. ASSUME UNCHANGED <<mem, records>>, disk' = disk \/ disk' = mem, NEW c \in Client, Done(c)
      PROVE  Lives'
  <2>1. \A d \in Client : req'[d] = req[d] \/ req'[d].pc = "idle"
    BY <1>1, <1>d, <1>i DEF Done
  <2> QED BY <1>1, <2>1, LivesFrame
<1>2. ASSUME NEW c \in Client, Arrive(c) PROVE Lives'
  <2>1. \A d \in Client : req'[d] = req[d] \/ req'[d].pc = "queued"
    BY <1>2, <1>d DEF Arrive
  <2> QED BY <1>2, <2>1, LivesFrame DEF Arrive, world
<1>3. ASSUME NEW c \in Client, Serve(c) PROVE Lives'
  <2>1. CASE Refuse(c) \/ CreateFails(c) \/ AskFails(c) \/ BulkEnd(c)
    BY <1>1, <2>1 DEF Refuse, CreateFails, AskFails, BulkEnd, world
  <2>2. CASE StartCreate(c) \/ StartEnable(c) \/ StartStatus(c) \/ StartDelete(c)
    <3>1. /\ UNCHANGED <<mem, disk, records>> /\ Accepted(req[c].q)
          /\ \E pc : /\ req' = [req EXCEPT ![c] = [pc |-> pc, q |-> req[c].q, at |-> now]]
                     /\ \/ pc = "create" /\ req[c].q.op \in {"activate", "trial"}
                        \/ /\ pc \in {"enable", "status", "delete"}
                           /\ req[c].q.op \in {"renew", "suspend", "resume", "remove"}
      BY <2>2 DEF StartCreate, StartEnable, StartStatus, StartDelete, Accepts, Asks, world
    <3>2. PICK pc : /\ req' = [req EXCEPT ![c] = [pc |-> pc, q |-> req[c].q, at |-> now]]
                    /\ \/ pc = "create" /\ req[c].q.op \in {"activate", "trial"}
                       \/ /\ pc \in {"enable", "status", "delete"}
                          /\ req[c].q.op \in {"renew", "suspend", "resume", "remove"}
      BY <3>1
    <3>3. /\ req'[c].pc = pc /\ req'[c].q.a = req[c].q.a
          /\ \A d \in Client : d # c => req'[d] = req[d]
      BY <1>d, <3>2
    <3>4. /\ pc = "create" => ~Live(mem[req[c].q.a])
          /\ pc # "create" => Live(mem[req[c].q.a])
      BY <3>1, <3>2 DEF Accepted
    <3> QED BY <3>1, <3>2, <3>3, <3>4, LivesFrame
  <2>3. CASE Created(c)
    <3>0. PICK a : a = req[c].q.a
      OBVIOUS
    <3>1. /\ Turn(c) /\ req[c].pc = "create" /\ disk' = disk
          /\ mem' = [mem EXCEPT ![a] = NewRecord(req[c].q)] /\ records' = records + 1
          /\ req' = [req EXCEPT ![c] = [pc |-> "decorate", q |-> req[c].q, at |-> now]]
      BY <2>3, <3>0 DEF Created
    <3>2. a \in Acct
      <4>1. req[c].q \in Requests /\ req[c].q.op \in Makes
        BY <1>t, <3>1, ReqShape
      <4> QED BY <3>0, <4>1, RequestShape DEF Makes, Bulk
    <3>3. /\ mem'[a].id = records + 1 /\ Live(mem'[a])
          /\ \A b \in Acct : b # a => mem'[b] = mem[b]
      BY <3>1, <3>2 DEF Shapes, NewRecord, NextId, Live
    <3>4. /\ req'[c].pc = "decorate" /\ req'[c].q.a = a
          /\ \A e \in Client : e # c => req'[e].pc \in {"idle", "queued"}
      BY <1>d, <3>0, <3>1, OthersWait
    <3>5. records \in Nat /\ \A b \in Acct : mem[b].id \in Nat /\ disk[b].id \in Nat
      BY DEF Shapes, Records
    <3>6. \A b \in Acct : mem'[b].id <= records' /\ disk'[b].id <= records'
      BY <3>1, <3>3, <3>5 DEF Lives
    <3>7. \A b \in Acct : Live(disk'[b]) => Live(mem'[b])
      BY <3>1, <3>3 DEF Lives
    <3> QED BY <3>3, <3>4, <3>6, <3>7 DEF Lives
  <2>4. CASE Finish(c) \/ FinishFails(c)
    <3>1. /\ Finishes(c) /\ Turn(c) /\ UNCHANGED records /\ req' = [req EXCEPT ![c] = Idle]
          /\ \/ mem' = MemAfter(c) /\ disk' = MemAfter(c)
             \/ disk' = disk /\ mem' = IF req[c].q.op = "remove" THEN mem ELSE MemAfter(c)
      BY <2>4 DEF Finish, FinishFails, Finishes, Saved, Done
    <3>2. \A d \in Client : req'[d].pc \in {"idle", "queued"}
      BY <1>d, <1>i, <3>1, OthersWait
    <3> QED BY <3>1, <3>2, LivesFinish DEF Outcomes
  <2>5. CASE BulkAsks(c)
    <3>1. /\ UNCHANGED <<mem, disk, records>>
          /\ \A d \in Client : req'[d] = req[d] \/ req'[d].pc = "bulk"
      BY <1>d, <2>5 DEF BulkAsks, world
    <3> QED BY <3>1, LivesFrame
  <2>6. CASE BulkAnswer(c)
    <3>1. /\ Turn(c) /\ req[c].pc = "bulk" /\ call # NoCall /\ UNCHANGED <<req, disk, records>>
          /\ \/ mem' = [mem EXCEPT ![call.a].status = Target(req[c].q)]
             \/ mem' = mem
      BY <2>6 DEF BulkAnswer
    <3>2. \A d \in Client : req'[d].pc \in {"idle", "queued", "bulk"}
      BY <3>1, OthersWait
    <3>3. call.a \in Acct /\ Target(req[c].q) \in {"active", "disabled"}
      BY <3>1 DEF Shapes, Calls, Target
    <3> QED BY <3>1, <3>2, <3>3, LivesFlip, LivesFrame
  <2> QED BY <1>3, <2>1, <2>2, <2>3, <2>4, <2>5, <2>6 DEF Serve
<1>4. CASE SweepStep
  <2>1. CASE SweepAnswered
    <3>1. /\ sweep.pc = "call" /\ UNCHANGED <<req, disk, records>>
          /\ \/ mem' = [mem EXCEPT ![sweep.a].status = "disabled"]
             \/ mem' = mem
      BY <2>1 DEF SweepAnswered, Disabled, Kept
    <3>2. \A d \in Client : req'[d].pc \in {"idle", "queued", "bulk"}
      <4>1. Turn("sweep")
        BY <3>1 DEF MutexHeld, Engaged
      <4> QED BY <1>d, <3>1, <4>1, OthersWait
    <3>3. sweep.a \in Acct
      BY <1>t, <3>1, SweepShape
    <3> QED BY <3>1, <3>2, <3>3, LivesFlip, LivesFrame
  <2>2. CASE ~SweepAnswered
    <3>1. UNCHANGED <<req, mem, records>> /\ (disk' = disk \/ disk' = mem)
      BY <1>4, <2>2 DEF SweepStep, SweepStart, SweepQueues, SweepAsks, SweepSaves, world
    <3> QED BY <3>1, LivesFrame
  <2> QED BY <2>1, <2>2
<1>5. CASE ReconStep
  <2>1. UNCHANGED <<req, mem, records>> /\ (disk' = disk \/ disk' = mem)
    BY <1>5 DEF ReconStep, ReconStart, ReconIntent, ReconChases, ReconIntentsDone, ReconLooks,
       ReconCompares, ReconAsks, ReconAnswered, ReconEnds, ReconSaves, world
  <2> QED BY <2>1, LivesFrame
<1>6. CASE Tick \/ LateLands \/ LateLost \/ UNCHANGED vars
  <2>1. UNCHANGED <<req, mem, records, disk>>
    BY <1>6 DEF Tick, LateLands, LateLost, vars, world
  <2> QED BY <2>1, LivesFrame
<1>7. CASE Crash
  <2>1. mem' = disk /\ disk' = disk /\ records' = records /\ \A c \in Client : req'[c].pc = "idle"
    BY <1>7 DEF Crash, Restart, Idle
  <2> QED BY <2>1 DEF Lives
<1>8. ASSUME NEW c \in Client, CrashInFinish(c) PROVE Lives'
  <2>1. /\ Finishes(c) /\ mem' = disk' /\ (disk' = disk \/ disk' = MemAfter(c))
        /\ UNCHANGED records /\ \A d \in Client : req'[d].pc = "idle"
    BY <1>8 DEF CrashInFinish, LedgerFirst, Restart, Idle
  <2> QED BY <2>1, LivesFinish DEF Outcomes
<1> QED BY <1>2, <1>3, <1>4, <1>5, <1>6, <1>7, <1>8 DEF Next

\* A call that makes no user leaves the absent ones absent.
LEMMA AbsentStays ==
  ASSUME Shapes, \/ PanelDoes /\ call.eff # "create"
                 \/ PanelRejects
                 \/ UNCHANGED wire
  PROVE  /\ \A a \in Acct : panel[a] = "absent" => panel'[a] = "absent"
         /\ late' = late
<1>1. CASE PanelDoes /\ call.eff # "create"
  <2>1. /\ call \in Calls /\ panel[call.a] # "absent" /\ late' = late
        /\ panel' = [panel EXCEPT ![call.a] = CASE call.eff \in {"create", "active"} -> "active"
                                                [] call.eff = "disabled" -> "disabled"
                                                [] call.eff = "delete"   -> "absent"]
    BY <1>1 DEF PanelDoes, After, Rejected, Shapes
  <2>2. \A a \in Acct : a # call.a => panel'[a] = panel[a]
    BY <2>1 DEF Shapes
  <2> QED BY <2>1, <2>2
<1>2. CASE PanelRejects \/ UNCHANGED wire
  BY <1>2 DEF PanelRejects, wire
<1> QED BY <1>1, <1>2

\* A step that leaves the registry and the clock alone: a create that lands
\* late is one that might.
LEMMA GhostFrame ==
  ASSUME NoGhosts, UNCHANGED <<mem, records, now>>, disk' = disk \/ disk' = mem,
         SweepWork' \subseteq SweepWork, SweepWork \subseteq Work, late' \subseteq late,
         \A a \in Acct : panel[a] = "absent" => panel'[a] = "absent" \/ LateCreate(a)
  PROVE  NoGhosts'
<1>1. \A a : LateCreate(a)' => LateCreate(a)
  BY DEF LateCreate, Call
<1>2. \A a \in Acct : Young(a)'
  BY <1>1 DEF NoGhosts, Young
<1>3. \A w \in SweepWork' : w[1] \in Acct /\ Buried(w)
  BY DEF NoGhosts, Work
<1>4. \A w \in SweepWork' : Buried(w)'
  BY <1>1, <1>3 DEF Buried
<1> QED BY <1>2, <1>4 DEF NoGhosts

\* A live record's status is flipped.
LEMMA GhostFlip ==
  ASSUME Shapes, NoGhosts, UNCHANGED <<disk, records, now, late>>, SweepWork' \subseteq SweepWork,
         NEW a \in Acct, Live(mem[a]), NEW s \in {"active", "disabled"},
         mem' = [mem EXCEPT ![a].status = s],
         \A b \in Acct : panel[b] = "absent" => panel'[b] = "absent"
  PROVE  NoGhosts'
<1>1. \A b \in Acct : /\ mem'[b].id = mem[b].id /\ mem'[b].expires = mem[b].expires
                      /\ Live(mem'[b]) <=> Live(mem[b])
  BY DEF Shapes, Records, Live
<1>2. \A b : LateCreate(b)' <=> LateCreate(b)
  BY DEF LateCreate, Call
<1>3. \A b \in Acct : Young(b)'
  BY <1>1, <1>2 DEF NoGhosts, Young
<1>4. \A w \in SweepWork' : w[1] \in Acct /\ Buried(w)
  BY WorkShape DEF NoGhosts, Work
<1>5. \A w \in SweepWork' : Buried(w)'
  BY <1>1, <1>2, <1>4 DEF Buried
<1> QED BY <1>3, <1>5 DEF NoGhosts

\* The last stretch of an operation: where it is the deletion, the panel's
\* user is gone.
LEMMA FinishPanel ==
  ASSUME Shapes, MutexHeld, Calling, NEW c \in Client, Finishes(c)
  PROVE  /\ \A a \in Acct : panel[a] = "absent" => panel'[a] = "absent"
         /\ late' = late
         /\ req[c].q.op = "remove" => panel'[req[c].q.a] = "absent"
<1>1. /\ req[c].q.a \in Acct /\ Turn(c) /\ req[c].pc # "create"
      /\ req[c].q.op = "remove" => req[c].pc = "delete"
  BY FinishShape DEF Makes
<1>2. \A d \in Client : req[d].pc # "create"
  BY <1>1, OthersWait
<1>3. call # NoCall => call.eff # "create"
  BY <1>2 DEF Calling
<1>4. /\ \A a \in Acct : panel[a] = "absent" => panel'[a] = "absent"
      /\ late' = late
  BY <1>3, AbsentStays DEF Finishes, PanelDoes
<1>5. ASSUME req[c].pc = "delete" PROVE panel'[req[c].q.a] = "absent"
  <2>1. call = Call(req[c].q.a, "delete")
    BY <1>5 DEF Calling
  <2>2. call.a = req[c].q.a /\ call.eff = "delete"
    BY <2>1 DEF Call
  <2>3. CASE PanelDoes
    <3>1. panel' = [panel EXCEPT ![req[c].q.a] = "absent"]
      BY <2>2, <2>3 DEF PanelDoes, After
    <3> QED BY <1>1, <3>1 DEF Shapes
  <2>4. CASE PanelRejects
    BY <2>2, <2>4 DEF PanelRejects, Rejected
  <2> QED BY <1>5, <2>3, <2>4 DEF Finishes, Accepts
<1> QED BY <1>1, <1>4, <1>5

LEMMA GhostFinish ==
  ASSUME Shapes, MutexHeld, Calling, Lives, NoGhosts, NEW c \in Client, Finishes(c), Outcomes(c),
         UNCHANGED <<records, now>>,
         SweepWork' = {} \/ (SweepWork' = SweepWork /\ (mem' = mem \/ mem' = MemAfter(c)))
  PROVE  NoGhosts'
<1> DEFINE q == req[c].q
<1>1. /\ q.a \in Acct /\ Live(mem[q.a])
      /\ \A a \in Acct : MemAfter(c)[a] = IF a = q.a THEN RecordAfter(c) ELSE mem[a]
      /\ \A a \in Acct : /\ MemAfter(c)[a].id = mem[a].id
                         /\ Live(MemAfter(c)[a]) => Live(mem[a])
                         /\ MemAfter(c)[a].expires >= mem[a].expires
      /\ q.op # "remove" => \A a \in Acct : Live(mem[a]) => Live(MemAfter(c)[a])
  BY FinishLives
<1>2. /\ \A a \in Acct : panel[a] = "absent" => panel'[a] = "absent"
      /\ late' = late
      /\ q.op = "remove" => panel'[q.a] = "absent"
  BY FinishPanel
<1>3. \A a \in Acct : /\ mem[a].expires \in Nat /\ disk[a].expires \in Nat
                      /\ MemAfter(c)[a].expires \in Nat
  BY RecordShape DEF Shapes, Records
<1>4. now \in Nat
  BY DEF Shapes
<1>5. \A a : LateCreate(a)' <=> LateCreate(a)
  BY <1>2 DEF LateCreate, Call
<1> HIDE DEF q
<1>6. \A a \in Acct : Young(a)'
  <2> SUFFICES ASSUME NEW a \in Acct, LateCreate(a)
               PROVE  /\ Live(mem'[a]) => mem'[a].expires > now
                      /\ Live(disk'[a]) => disk'[a].expires > now
    BY <1>5 DEF Young
  <2>1. /\ Live(mem[a]) => mem[a].expires > now
        /\ Live(disk[a]) => disk[a].expires > now
    BY DEF NoGhosts, Young
  <2>2. Live(MemAfter(c)[a]) => MemAfter(c)[a].expires > now
    BY <1>1, <1>3, <1>4, <2>1
  <2> QED BY <2>1, <2>2 DEF Outcomes
<1>7. CASE SweepWork' = {}
  BY <1>6, <1>7 DEF NoGhosts
<1>8. CASE SweepWork' = SweepWork /\ (mem' = mem \/ mem' = MemAfter(c))
  <2>1. ASSUME NEW w \in SweepWork PROVE Buried(w)'
    <3>1. w[1] \in Acct /\ Buried(w)
      BY WorkShape DEF NoGhosts, Work
    <3>2. mem'[w[1]].id = mem[w[1]].id
      BY <1>1, <1>8, <3>1
    <3>3. CASE Live(mem[w[1]]) => Live(mem'[w[1]])
      BY <1>2, <1>5, <3>1, <3>2, <3>3 DEF Buried
    <3>4. CASE Live(mem[w[1]]) /\ ~Live(mem'[w[1]])
      <4>1. w[1] = q.a /\ q.op = "remove"
        BY <1>1, <1>8, <3>1, <3>4
      <4> QED BY <1>2, <1>5, <3>1, <3>2, <4>1 DEF Buried
    <3> QED BY <3>3, <3>4
  <2> QED BY <1>6, <1>8, <2>1 DEF NoGhosts
<1> QED BY <1>7, <1>8

\* The expiry sweep disables no record that died.
LEMMA SweepSpares ==
  ASSUME Shapes, Calling, NoGhosts, SweepAnswered, ~PanelSilent
  PROVE  /\ call' = NoCall /\ late' = late /\ sweep.a \in Acct /\ sweep.pc = "call"
         /\ \A a \in Acct : panel[a] = "absent" => panel'[a] = "absent"
         /\ \/ mem' = mem
            \/ Live(mem[sweep.a]) /\ mem' = [mem EXCEPT ![sweep.a].status = "disabled"]
<1>1. sweep.pc = "call" /\ sweep.a \in Acct
  BY SweepShape DEF SweepAnswered, Shapes
<1>2. call = Call(sweep.a, "disabled")
  BY <1>1 DEF Calling
<1>3. call.a = sweep.a /\ call.eff = "disabled"
  BY <1>2 DEF Call
<1>4. /\ call' = NoCall /\ late' = late
      /\ \A a \in Acct : panel[a] = "absent" => panel'[a] = "absent"
  BY <1>3, CallEnds, AbsentStays DEF SweepAnswered
<1>5. CASE PanelDoes /\ mem' = Disabled(sweep.a, sweep.id)
  <2>1. panel[sweep.a] # "absent"
    BY <1>3, <1>5 DEF PanelDoes, Rejected
  <2>2. <<sweep.a, sweep.id>> \in SweepWork
    BY <1>1 DEF SweepWork
  <2>3. mem[sweep.a].id = sweep.id => Live(mem[sweep.a])
    BY <2>1, <2>2 DEF NoGhosts, Buried
  <2> QED BY <1>1, <1>4, <1>5, <2>3 DEF Disabled
<1>6. CASE mem' = Kept(sweep.a, sweep.id)
  BY <1>1, <1>4, <1>6 DEF Kept
<1> QED BY <1>5, <1>6 DEF SweepAnswered

LEMMA GhostStep ==
  Shapes /\ MutexHeld /\ Calling /\ Lives /\ NoGhosts /\ [Next]_vars /\ ~PanelSilent => NoGhosts'
<1> SUFFICES ASSUME Shapes, MutexHeld, Calling, Lives, NoGhosts, [Next]_vars, ~PanelSilent
             PROVE  NoGhosts'
  OBVIOUS
<1>d. DOMAIN req = Client /\ "sweep" \notin Client /\ "reconcile" \notin Client
  BY ProcAssumption DEF Shapes
<1>i. Idle.pc = "idle"
  BY DEF Idle
<1>t. sweep \in Sweeps /\ recon \in Recons /\ req \in [Client -> Reqs]
  BY DEF Shapes
<1>w. SweepWork \subseteq Work
  BY WorkShape
<1>u. UNCHANGED wire => late' = late /\ panel' = panel /\ call' = call
  BY DEF wire
<1>1. ASSUME UNCHANGED <<mem, records, now, late, panel, sweep>>, disk' = disk \/ disk' = mem
      PROVE  NoGhosts'
  <2>1. SweepWork' = SweepWork
    BY <1>1 DEF SweepWork
  <2> QED BY <1>1, <1>w, <2>1, GhostFrame
<1>2. ASSUME NEW c \in Client, Arrive(c) PROVE NoGhosts'
  BY <1>1, <1>2 DEF Arrive, wire, sweeps, world
<1>3. ASSUME NEW c \in Client, Serve(c) PROVE NoGhosts'
  <2>0. ASSUME Turn(c), req[c].pc # "create" PROVE call # NoCall => call.eff # "create"
    <3>1. \A d \in Client : req[d].pc # "create"
      BY <2>0, OthersWait
    <3> QED BY <3>1 DEF Calling
  <2>1. CASE Refuse(c) \/ BulkEnd(c) \/ BulkAsks(c)
    BY <1>1, <2>1 DEF Refuse, BulkEnd, BulkAsks, wire, sweeps, world
  <2>2. CASE StartCreate(c) \/ StartEnable(c) \/ StartStatus(c) \/ StartDelete(c)
    BY <1>1, <2>2 DEF StartCreate, StartEnable, StartStatus, StartDelete, Asks, sweeps, world
  <2>3. CASE CreateFails(c) \/ AskFails(c)
    <3>1. PanelRejects /\ UNCHANGED <<mem, disk, records, now, sweep>>
      BY <2>3 DEF CreateFails, AskFails, sweeps
    <3> QED BY <1>1, <3>1 DEF PanelRejects
  <2>4. CASE Created(c)
    <3>0. PICK a : a = req[c].q.a
      OBVIOUS
    <3>1. /\ Turn(c) /\ req[c].pc = "create" /\ UNCHANGED <<disk, now, sweep>> /\ PanelDoes
          /\ mem' = [mem EXCEPT ![a] = NewRecord(req[c].q)] /\ records' = records + 1
      BY <2>4, <3>0 DEF Created, CreateLands, sweeps
    <3>2. req[c].q \in Requests /\ req[c].q.op \in Makes /\ a \in Acct
      <4>1. req[c].q \in Requests /\ req[c].q.op \in Makes
        BY <1>t, <3>1, ReqShape
      <4> QED BY <3>0, <4>1, RequestShape DEF Makes, Bulk
    <3>3. NewRecord(req[c].q).id = records + 1 /\ NewRecord(req[c].q).expires > now
      <4>1. now \in Nat /\ TrialTicks \in Nat \ {0} /\ MonthTicks \in Nat \ {0}
        BY MonthAssumption DEF Shapes
      <4>2. req[c].q.op = "activate" => req[c].q.n * MonthTicks \in Nat \ {0}
        <5>1. req[c].q.op = "activate" => req[c].q.n \in Nat \ {0}
          BY <3>2, RequestShape
        <5>2. \A n, m \in Nat \ {0} : n * m \in Nat \ {0}
          OBVIOUS
        <5> QED BY <4>1, <5>1, <5>2
      <4>3. NewRecord(req[c].q).expires
              = now + (IF req[c].q.op = "trial" THEN TrialTicks ELSE req[c].q.n * MonthTicks)
        BY DEF NewRecord
      <4>4. NewRecord(req[c].q).id = records + 1
        BY DEF NewRecord, NextId
      <4> QED BY <3>2, <4>1, <4>2, <4>3, <4>4 DEF Makes
    <3>4. /\ mem'[a].id = records + 1 /\ mem'[a].expires > now
          /\ \A b \in Acct : b # a => mem'[b] = mem[b]
      BY <3>1, <3>2, <3>3 DEF Shapes
    <3>5. ~Live(disk[a])
      BY <3>0, <3>1, <3>2 DEF Lives
    <3>6. /\ late' = late
          /\ \A b \in Acct : b # a => panel'[b] = panel[b]
      <4>1. call = Call(a, "create")
        BY <3>0, <3>1 DEF Calling
      <4>2. call.a = a
        BY <4>1 DEF Call
      <4> QED BY <3>1, <3>2, <4>2 DEF PanelDoes, After, Shapes
    <3>7. \A b : LateCreate(b)' <=> LateCreate(b)
      BY <3>6 DEF LateCreate, Call
    <3>8. \A b \in Acct : Young(b)'
      <4> SUFFICES ASSUME NEW b \in Acct PROVE Young(b)'
        OBVIOUS
      <4>1. CASE b = a
        BY <3>1, <3>4, <3>5, <4>1 DEF Young
      <4>2. CASE b # a
        BY <3>1, <3>4, <3>7, <4>2 DEF NoGhosts, Young
      <4> QED BY <4>1, <4>2
    <3>9. \A w \in SweepWork' : Buried(w)'
      <4> SUFFICES ASSUME NEW w \in SweepWork' PROVE Buried(w)'
        OBVIOUS
      <4>1. w \in SweepWork
        BY <3>1 DEF SweepWork
      <4>2. Buried(w) /\ w[1] \in Acct /\ w[2] \in Nat /\ records \in Nat
        BY <1>w, <4>1 DEF NoGhosts, Work, Shapes
      <4>3. w[2] <= records /\ w[2] # records + 1
        BY <4>2 DEF Buried
      <4>4. CASE w[1] = a
        BY <3>1, <3>4, <4>2, <4>3, <4>4 DEF Buried
      <4>5. CASE w[1] # a
        BY <3>1, <3>4, <3>6, <3>7, <4>2, <4>3, <4>5 DEF Buried
      <4> QED BY <4>4, <4>5
    <3> QED BY <3>8, <3>9 DEF NoGhosts
  <2>5. CASE Finish(c) \/ FinishFails(c)
    <3>1. /\ Finishes(c) /\ UNCHANGED <<records, now, sweep>>
          /\ \/ mem' = MemAfter(c) /\ disk' = MemAfter(c)
             \/ disk' = disk /\ mem' = IF req[c].q.op = "remove" THEN mem ELSE MemAfter(c)
      BY <2>5 DEF Finish, FinishFails, Saved, sweeps
    <3>2. SweepWork' = SweepWork
      BY <3>1 DEF SweepWork
    <3> QED BY <3>1, <3>2, GhostFinish DEF Outcomes
  <2>6. CASE BulkAnswer(c)
    <3>1. /\ Turn(c) /\ req[c].pc = "bulk" /\ call # NoCall
          /\ UNCHANGED <<disk, records, now, sweep>> /\ (PanelDoes \/ PanelRejects)
          /\ \/ mem' = [mem EXCEPT ![call.a].status = Target(req[c].q)]
             \/ mem' = mem
      BY <2>6 DEF BulkAnswer, sweeps
    <3>2. /\ \A b \in Acct : panel[b] = "absent" => panel'[b] = "absent"
          /\ late' = late
      BY <2>0, <2>6, <3>1, AbsentStays DEF BulkAnswer
    <3>3. call.a \in Acct /\ Target(req[c].q) \in {"active", "disabled"} /\ Live(mem[call.a])
      BY <3>1 DEF Shapes, Calls, Target, Calling
    <3>4. SweepWork' = SweepWork
      BY <3>1 DEF SweepWork
    <3> QED BY <1>w, <3>1, <3>2, <3>3, <3>4, GhostFlip, GhostFrame
  <2> QED BY <1>3, <2>1, <2>2, <2>3, <2>4, <2>5, <2>6 DEF Serve
<1>4. CASE SweepStep
  <2>1. CASE SweepStart
    <3>1. /\ sweep' = Sweep("loop", Due)
          /\ UNCHANGED <<mem, disk, records, now, late, panel>>
      BY <2>1 DEF SweepStart, wire, world
    <3>2. SweepWork' = Due
      BY <3>1 DEF SweepWork, Sweep
    <3>3. ASSUME NEW w \in Due PROVE Buried(w)'
      <4>1. w[1] \in Acct /\ mem[w[1]].id = w[2] /\ Live(mem[w[1]]) /\ Lapsed(mem[w[1]])
        BY DEF Due, Live
      <4>2. mem[w[1]].expires \in Nat /\ now \in Nat
        BY <4>1 DEF Shapes, Records
      <4>3. ~LateCreate(w[1])
        BY <4>1, <4>2 DEF NoGhosts, Young, Lapsed
      <4>4. ~LateCreate(w[1])'
        BY <3>1, <4>3 DEF LateCreate, Call
      <4> QED BY <3>1, <4>1, <4>4 DEF Buried, Lives
    <3>4. \A a \in Acct : Young(a)'
      BY <3>1 DEF NoGhosts, Young, LateCreate, Call
    <3> QED BY <3>2, <3>3, <3>4 DEF NoGhosts
  <2>2. CASE SweepQueues \/ SweepAsks \/ SweepSaves
    <3>1. SweepWork' \subseteq SweepWork
      BY <2>2, SweepShrinks
    <3>2. UNCHANGED <<mem, records, now, late, panel>> /\ (disk' = disk \/ disk' = mem)
      BY <2>2 DEF SweepQueues, SweepAsks, SweepSaves, wire, world
    <3> QED BY <1>w, <3>1, <3>2, GhostFrame
  <2>3. CASE SweepAnswered
    <3>1. /\ UNCHANGED <<disk, records, now>>
          /\ sweep' = Sweep("loop", sweep.due) \/ sweep' = Sweep("loop", {})
      BY <2>3 DEF SweepAnswered
    <3>2. /\ late' = late /\ sweep.a \in Acct /\ sweep.pc = "call"
          /\ \A a \in Acct : panel[a] = "absent" => panel'[a] = "absent"
          /\ \/ mem' = mem
             \/ Live(mem[sweep.a]) /\ mem' = [mem EXCEPT ![sweep.a].status = "disabled"]
      BY <2>3, SweepSpares
    <3>3. SweepWork' \subseteq SweepWork
      BY <2>3, SweepShrinks
    <3> QED BY <1>w, <3>1, <3>2, <3>3, GhostFlip, GhostFrame
  <2> QED BY <1>4, <2>1, <2>2, <2>3 DEF SweepStep
<1>5. CASE ReconStep
  <2>1. CASE ReconAnswered
    <3>1. /\ recon.pc \in {"orphanCall", "repairCall"} /\ (PanelDoes \/ PanelRejects)
          /\ UNCHANGED <<mem, disk, records, now, sweep>>
      BY <2>1 DEF ReconAnswered
    <3>2. call # NoCall => call.eff # "create"
      <4>1. Turn("reconcile")
        BY <2>1 DEF ReconAnswered, MutexHeld, Engaged
      <4>2. \A d \in Client : req[d].pc # "create"
        BY <1>d, <4>1, OthersWait
      <4> QED BY <4>2 DEF Calling
    <3>3. /\ \A b \in Acct : panel[b] = "absent" => panel'[b] = "absent"
          /\ late' = late
      BY <2>1, <3>2, AbsentStays, CallEnds DEF ReconAnswered
    <3>4. SweepWork' = SweepWork
      BY <2>1 DEF ReconAnswered, SweepWork
    <3> QED BY <1>w, <2>1, <3>3, <3>4, GhostFrame DEF ReconAnswered
  <2>2. CASE ~ReconAnswered
    <3>1. UNCHANGED <<mem, records, now, late, panel, sweep>> /\ (disk' = disk \/ disk' = mem)
      BY <1>5, <2>2 DEF ReconStep, ReconStart, ReconIntent, ReconChases, ReconIntentsDone, ReconLooks,
         ReconCompares, ReconAsks, ReconEnds, ReconSaves, wire, world
    <3> QED BY <1>1, <3>1
  <2> QED BY <2>1, <2>2
<1>6. CASE Tick
  <2>1. late' = {} /\ late = {} /\ UNCHANGED <<mem, disk, records, panel, sweep>>
    BY <1>6 DEF Tick, wire, sweeps
  <2>2. \A a : ~LateCreate(a)' /\ ~LateCreate(a)
    BY <2>1 DEF LateCreate
  <2>3. SweepWork' = SweepWork
    BY <2>1 DEF SweepWork
  <2> QED BY <2>1, <2>2, <2>3 DEF NoGhosts, Young, Buried
<1>7. CASE LateLands \/ LateLost
  <2>1. PICK k \in late : /\ late' = late \ {k}
                          /\ panel' = panel \/ (~Rejected(k) /\ panel' = After(k))
    BY <1>7 DEF LateLands, LateLost
  <2>2. UNCHANGED <<mem, disk, records, now, sweep>>
    BY <1>7 DEF LateLands, LateLost, sweeps, world
  <2>3. k \in Calls
    BY DEF Shapes
  <2>4. ASSUME NEW a \in Acct, panel[a] = "absent"
        PROVE  panel'[a] = "absent" \/ LateCreate(a)
    <3>1. CASE k.a = a /\ k.eff = "create"
      <4>1. k = Call(a, "create")
        BY <2>3, <3>1 DEF Calls, Call
      <4> QED BY <4>1 DEF LateCreate
    <3>2. CASE k.a = a /\ k.eff # "create"
      <4>1. Rejected(k)
        BY <2>4, <3>2 DEF Rejected
      <4> QED BY <2>1, <2>4, <4>1
    <3>3. CASE k.a # a
      <4>1. After(k)[a] = panel[a]
        BY <2>3, <3>3 DEF After, Shapes, Calls
      <4> QED BY <2>1, <2>4, <4>1
    <3> QED BY <3>1, <3>2, <3>3
  <2>5. SweepWork' = SweepWork
    BY <2>2 DEF SweepWork
  <2> QED BY <1>w, <2>1, <2>2, <2>4, <2>5, GhostFrame
<1>8. CASE Crash
  <2>1. /\ mem' = disk /\ disk' = disk /\ records' = records /\ now' = now /\ sweep' = NoSweep
        /\ late' = late \union ({call} \ {NoCall})
    BY <1>8 DEF Crash, Restart
  <2>2. SweepWork' = {}
    BY <2>1 DEF SweepWork, NoSweep
  <2>3. ASSUME NEW a \in Acct PROVE Young(a)'
    <3>1. CASE LateCreate(a)
      BY <2>1, <3>1 DEF NoGhosts, Young
    <3>2. CASE Call(a, "create") = call /\ call # NoCall
      <4>1. call.a = a /\ call.eff = "create"
        BY <3>2 DEF Call
      <4>2. PICK c \in Client : req[c].pc = "create" /\ req[c].q.a = a
        BY <3>2, <4>1 DEF Calling
      <4>3. ~Live(disk[a])
        BY <4>2 DEF Lives
      <4> QED BY <2>1, <4>3 DEF Young
    <3>3. LateCreate(a)' => LateCreate(a) \/ (Call(a, "create") = call /\ call # NoCall)
      BY <2>1 DEF LateCreate, Call
    <3> QED BY <3>1, <3>2, <3>3 DEF Young
  <2> QED BY <2>2, <2>3 DEF NoGhosts
<1>9. ASSUME NEW c \in Client, CrashInFinish(c) PROVE NoGhosts'
  <2>1. /\ Finishes(c) /\ mem' = disk' /\ (disk' = disk \/ disk' = MemAfter(c))
        /\ UNCHANGED <<records, now>> /\ sweep' = NoSweep
    BY <1>9 DEF CrashInFinish, LedgerFirst, Restart
  <2>2. SweepWork' = {}
    BY <2>1 DEF SweepWork, NoSweep
  <2> QED BY <2>1, <2>2, GhostFinish DEF Outcomes
<1>10. CASE UNCHANGED vars
  BY <1>1, <1>10 DEF vars
<1> QED BY <1>2, <1>3, <1>4, <1>5, <1>6, <1>7, <1>8, <1>9, <1>10 DEF Next

LEMMA LifeInvariant == Spec => [](Shapes /\ MutexHeld /\ LifeInv)
<1>1. Init => Shapes /\ MutexHeld /\ LifeInv
  <2>1. Init => Shapes /\ MutexHeld
    BY FirstInit
  <2>2. Init => LifeInv
    BY DEF Init, LifeInv, Calling, Lives, NoGhosts, Young, Buried, SweepWork, LateCreate, NoSweep,
       Idle, NoRecord, NoCall, Live
  <2> QED BY <2>1, <2>2
<1>2. Shapes /\ MutexHeld /\ LifeInv /\ [Next]_vars => (Shapes /\ MutexHeld /\ LifeInv)'
  <2> SUFFICES ASSUME Shapes, MutexHeld, LifeInv, [Next]_vars
               PROVE  Shapes' /\ MutexHeld' /\ LifeInv'
    OBVIOUS
  <2>1. Shapes' /\ MutexHeld' /\ Calling' /\ Lives'
    BY ShapesStep, MutexStep, CallingStep, LivesStep DEF LifeInv
  <2>2. ASSUME Heard' PROVE NoGhosts'
    BY <2>2, HeardStep, GhostStep DEF LifeInv
  <2> QED BY <2>1, <2>2 DEF LifeInv
<1> QED BY <1>1, <1>2, PTL DEF Spec

\* No step brings a record back that died: what lives after a step lived
\* before it, or was made by it.
LEMMA NoneRises ==
  ASSUME Shapes, MutexHeld, LifeInv, [Next]_vars, Heard', NEW a \in Acct, ~Live(mem[a])
  PROVE  ~Live(mem'[a]) \/ mem'[a].id = records + 1
<1>0. /\ Heard /\ ~PanelSilent /\ Calling /\ Lives /\ NoGhosts
  BY HeardStep DEF LifeInv
<1>f. \A b \in Acct : \A s : b # a /\ mem' = [mem EXCEPT ![b].status = s] => mem'[a] = mem[a]
  BY DEF Shapes
<1>1. ASSUME NEW c \in Client, Serve(c) PROVE ~Live(mem'[a]) \/ mem'[a].id = records + 1
  <2>1. CASE \/ Refuse(c) \/ CreateFails(c) \/ AskFails(c) \/ StartCreate(c) \/ StartEnable(c)
             \/ StartStatus(c) \/ StartDelete(c) \/ BulkAsks(c) \/ BulkEnd(c)
    BY <2>1 DEF Refuse, CreateFails, AskFails, StartCreate, StartEnable, StartStatus, StartDelete,
       BulkAsks, BulkEnd
  <2>2. CASE Created(c)
    <3>1. PICK b : b = req[c].q.a
      OBVIOUS
    <3>2. mem' = [mem EXCEPT ![b] = NewRecord(req[c].q)]
      BY <2>2, <3>1 DEF Created
    <3>3. mem'[a] = IF a = b THEN NewRecord(req[c].q) ELSE mem[a]
      BY <3>2 DEF Shapes
    <3>4. NewRecord(req[c].q).id = records + 1
      BY DEF NewRecord, NextId
    <3> QED BY <3>3, <3>4
  <2>3. CASE Finish(c) \/ FinishFails(c)
    <3>1. Finishes(c) /\ (mem' = MemAfter(c) \/ mem' = mem)
      BY <2>3 DEF Finish, FinishFails
    <3> QED BY <1>0, <3>1, FinishLives
  <2>4. CASE BulkAnswer(c)
    <3>1. /\ req[c].pc = "bulk" /\ call # NoCall
          /\ \/ mem' = [mem EXCEPT ![call.a].status = Target(req[c].q)]
             \/ mem' = mem
      BY <2>4 DEF BulkAnswer
    <3>2. call.a \in Acct /\ Live(mem[call.a])
      BY <1>0, <3>1 DEF Shapes, Calls, Calling
    <3> QED BY <1>f, <3>1, <3>2
  <2> QED BY <1>1, <2>1, <2>2, <2>3, <2>4 DEF Serve
<1>2. CASE SweepStep
  <2>1. CASE SweepAnswered
    BY <1>0, <1>f, <2>1, SweepSpares
  <2>2. CASE ~SweepAnswered
    BY <1>2, <2>2 DEF SweepStep, SweepStart, SweepQueues, SweepAsks, SweepSaves
  <2> QED BY <2>1, <2>2
<1>3. CASE \/ \E c \in Client : Arrive(c)
           \/ ReconStep \/ Tick \/ LateLands \/ LateLost \/ UNCHANGED vars
  BY <1>3 DEF Arrive, ReconStep, ReconStart, ReconIntent, ReconChases, ReconIntentsDone, ReconLooks,
     ReconCompares, ReconAsks, ReconAnswered, ReconEnds, ReconSaves, Tick, LateLands, LateLost, vars
<1>4. CASE Crash
  BY <1>0, <1>4 DEF Crash, Restart, Lives
<1>5. ASSUME NEW c \in Client, CrashInFinish(c) PROVE ~Live(mem'[a])
  <2>1. Finishes(c) /\ mem' = disk' /\ (disk' = disk \/ disk' = MemAfter(c))
    BY <1>5 DEF CrashInFinish, LedgerFirst, Restart
  <2> QED BY <1>0, <2>1, FinishLives DEF Lives
<1> QED BY <1>1, <1>2, <1>3, <1>4, <1>5 DEF Next

\* A deleted account stays deleted, whatever crashes, failed appends and
\* sweeps fall between its deletion and the name's next use, where the panel
\* answers every call in time: a create given up on and carried out later may
\* give the expiry sweep a user to disable, and the sweep the record back.
THEOREM DeletedForGood ==
  ASSUME "silent" \notin Faults
  PROVE  Spec => DeletedStaysDeleted
<1>1. Shapes /\ MutexHeld /\ LifeInv /\ [Next]_vars =>
        [\A a \in Acct : mem'[a].id = mem[a].id /\ ~Live(mem[a]) => ~Live(mem'[a])]_vars
  <2> SUFFICES ASSUME Shapes, MutexHeld, LifeInv, Next, NEW a \in Acct, mem'[a].id = mem[a].id,
                      ~Live(mem[a])
               PROVE  ~Live(mem'[a])
    OBVIOUS
  <2>1. Heard'
    BY DEF Heard
  <2>2. mem[a].id \in Nat /\ records \in Nat /\ mem[a].id <= records
    BY DEF Shapes, Records, LifeInv, Lives
  <2>3. mem'[a].id # records + 1
    BY <2>2
  <2> QED BY <2>1, <2>3, NoneRises
<1> QED BY <1>1, LifeInvariant, PTL DEF Spec, DeletedStaysDeleted

-----------------------------------------------------------------------------
(* Types. *)

\* A record that lives was made, and one that was made has an owner.
Named(r) == (Live(r) => r.id # 0) /\ (r.id # 0 => r.owner \in Principal)

\* So has every record in the sweep's hands: it wakes none that never was.
NameInv ==
  /\ \A a \in Acct : Named(mem[a]) /\ Named(disk[a])
  /\ \A w \in SweepWork : w[2] # 0

\* A step that makes no record: it keeps, saves or reloads the registry.
LEMMA NameFrame ==
  ASSUME NameInv, disk' = disk \/ disk' = mem, mem' = mem \/ mem' = disk',
         SweepWork' \subseteq SweepWork
  PROVE  NameInv'
  BY DEF NameInv, Named, Live

\* The status of a record that was made is flipped.
LEMMA NameFlip ==
  ASSUME Shapes, NameInv, NEW a \in Acct, mem[a].id # 0, NEW s, disk' = disk,
         mem' = [mem EXCEPT ![a].status = s], SweepWork' \subseteq SweepWork
  PROVE  NameInv'
<1>1. \A b \in Acct : /\ mem'[b].id = mem[b].id /\ mem'[b].owner = mem[b].owner
                      /\ b # a => mem'[b] = mem[b]
  BY DEF Shapes, Records
<1>2. \A b \in Acct : Named(mem'[b])
  BY <1>1 DEF NameInv, Named
<1> QED BY <1>2 DEF NameInv, Named, Live

\* An operation that finishes changes no record's identity, and wakes none.
LEMMA NameFinish ==
  ASSUME Shapes, Lives, NameInv, NEW c \in Client, Finishes(c)
  PROVE  \A a \in Acct : Named(MemAfter(c)[a])
<1>1. RecordAfter(c).owner = mem[req[c].q.a].owner
  BY RecordShape
<1>2. \A a \in Acct : /\ MemAfter(c)[a].id = mem[a].id /\ MemAfter(c)[a].owner = mem[a].owner
                      /\ Live(MemAfter(c)[a]) => Live(mem[a])
  BY <1>1, FinishLives
<1> QED BY <1>2 DEF NameInv, Named

LEMMA NameStep == Shapes /\ MutexHeld /\ Calling /\ Lives /\ NameInv /\ [Next]_vars => NameInv'
<1> SUFFICES ASSUME Shapes, MutexHeld, Calling, Lives, NameInv, [Next]_vars PROVE NameInv'
  OBVIOUS
<1>t. sweep \in Sweeps /\ req \in [Client -> Reqs]
  BY DEF Shapes
<1>w. sweep' = sweep => SweepWork' = SweepWork
  BY DEF SweepWork
<1>r. ASSUME Restart PROVE SweepWork' = {}
  BY <1>r DEF Restart, SweepWork, NoSweep
<1>1. ASSUME NEW c \in Client, Serve(c) PROVE NameInv'
  <2>1. CASE \/ Refuse(c) \/ CreateFails(c) \/ AskFails(c) \/ StartCreate(c) \/ StartEnable(c)
             \/ StartStatus(c) \/ StartDelete(c) \/ BulkAsks(c) \/ BulkEnd(c)
    <3>1. mem' = mem /\ (disk' = disk \/ disk' = mem) /\ sweep' = sweep
      BY <2>1 DEF Refuse, CreateFails, AskFails, StartCreate, StartEnable, StartStatus,
         StartDelete, BulkAsks, BulkEnd, sweeps
    <3> QED BY <1>w, <3>1, NameFrame
  <2>2. CASE Created(c)
    <3>1. PICK a : a = req[c].q.a
      OBVIOUS
    <3>2. mem' = [mem EXCEPT ![a] = NewRecord(req[c].q)] /\ disk' = disk /\ sweep' = sweep
      BY <2>2, <3>1 DEF Created, sweeps
    <3>3. req[c].q.me \in Principal /\ records \in Nat
      BY <1>t, <2>2, ReqShape, RequestShape DEF Created, Shapes
    <3>4. Named(NewRecord(req[c].q))
      BY <3>3 DEF Named, NewRecord, NextId
    <3>5. \A b \in Acct : mem'[b] = IF b = a THEN NewRecord(req[c].q) ELSE mem[b]
      BY <3>2 DEF Shapes
    <3>6. \A b \in Acct : Named(mem'[b])
      BY <3>4, <3>5 DEF NameInv
    <3> QED BY <1>w, <3>2, <3>6 DEF NameInv, Named, Live
  <2>3. CASE Finish(c) \/ FinishFails(c)
    <3>1. /\ Finishes(c) /\ sweep' = sweep
          /\ \/ mem' = mem /\ disk' = disk
             \/ mem' = MemAfter(c) /\ (disk' = disk \/ disk' = MemAfter(c))
      BY <2>3 DEF Finish, FinishFails, Saved, sweeps
    <3>2. \A a \in Acct : Named(MemAfter(c)[a])
      BY <3>1, NameFinish
    <3> QED BY <1>w, <3>1, <3>2 DEF NameInv, Named, Live
  <2>4. CASE BulkAnswer(c)
    <3>1. /\ req[c].pc = "bulk" /\ call # NoCall /\ disk' = disk /\ sweep' = sweep
          /\ \/ mem' = [mem EXCEPT ![call.a].status = Target(req[c].q)]
             \/ mem' = mem
      BY <2>4 DEF BulkAnswer, sweeps
    <3>2. call.a \in Acct /\ mem[call.a].id # 0
      BY <3>1 DEF Shapes, Calls, Calling, NameInv, Named
    <3> QED BY <1>w, <3>1, <3>2, NameFlip, NameFrame
  <2> QED BY <1>1, <2>1, <2>2, <2>3, <2>4 DEF Serve
<1>2. CASE SweepStep
  <2>1. CASE SweepStart
    <3>1. UNCHANGED <<mem, disk>> /\ sweep' = Sweep("loop", Due)
      BY <2>1 DEF SweepStart
    <3>2. SweepWork' = Due
      BY <3>1 DEF SweepWork, Sweep
    <3>3. \A w \in Due : w[2] # 0
      BY DEF Due, NameInv, Named, Live
    <3> QED BY <3>1, <3>2, <3>3 DEF NameInv, Named, Live
  <2>2. CASE SweepQueues \/ SweepAsks \/ SweepSaves
    <3>1. mem' = mem /\ (disk' = disk \/ disk' = mem)
      BY <2>2 DEF SweepQueues, SweepAsks, SweepSaves
    <3> QED BY <2>2, <3>1, SweepShrinks, NameFrame
  <2>3. CASE SweepAnswered
    <3>1. /\ sweep.pc = "call" /\ disk' = disk
          /\ \/ mem' = mem
             \/ mem[sweep.a].id = sweep.id /\ mem' = [mem EXCEPT ![sweep.a].status = "disabled"]
      BY <2>3 DEF SweepAnswered, Disabled, Kept
    <3>2. sweep.a \in Acct /\ <<sweep.a, sweep.id>> \in SweepWork
      BY <1>t, <3>1, SweepShape DEF SweepWork
    <3>3. sweep.id # 0
      BY <3>2 DEF NameInv
    <3> QED BY <2>3, <3>1, <3>2, <3>3, SweepShrinks, NameFlip, NameFrame
  <2> QED BY <1>2, <2>1, <2>2, <2>3 DEF SweepStep
<1>3. CASE \/ \E c \in Client : Arrive(c)
           \/ ReconStep \/ Tick \/ LateLands \/ LateLost \/ UNCHANGED vars
  <2>1. mem' = mem /\ (disk' = disk \/ disk' = mem) /\ sweep' = sweep
    BY <1>3 DEF Arrive, ReconStep, ReconStart, ReconIntent, ReconChases, ReconIntentsDone, ReconLooks,
       ReconCompares, ReconAsks, ReconAnswered, ReconEnds, ReconSaves, Tick, LateLands, LateLost,
       sweeps, vars
  <2> QED BY <1>w, <2>1, NameFrame
<1>4. CASE Crash
  BY <1>r, <1>4, NameFrame DEF Crash, Restart
<1>5. ASSUME NEW c \in Client, CrashInFinish(c) PROVE NameInv'
  <2>1. Finishes(c) /\ Restart /\ mem' = disk' /\ (disk' = disk \/ disk' = MemAfter(c))
    BY <1>5 DEF CrashInFinish, LedgerFirst, Restart
  <2>2. \A a \in Acct : Named(MemAfter(c)[a])
    BY <2>1, NameFinish
  <2> QED BY <1>r, <2>1, <2>2 DEF NameInv, Named, Live
<1> QED BY <1>1, <1>2, <1>3, <1>4, <1>5 DEF Next

\* Every variable keeps its type, and the registry, in memory and on disk,
\* gives each live account an identity and an owner: no sweep, bulk operation
\* or reload makes a record of a name that was never activated.
THEOREM TypeInvariant == Spec => []TypeOK
<1>1. Init => NameInv
  BY DEF Init, NameInv, Named, Live, NoRecord, SweepWork, NoSweep
<1>2. Shapes /\ MutexHeld /\ LifeInv /\ NameInv /\ [Next]_vars => NameInv'
  BY NameStep DEF LifeInv
<1>3. Shapes /\ MutexHeld /\ NameInv => TypeOK
  <2> SUFFICES ASSUME Shapes, MutexHeld, NameInv PROVE TypeOK
    OBVIOUS
  <2>1. \A a \in Acct : mem[a] \in Records /\ disk[a] \in Records
    BY DEF Shapes
  <2>2. \A r \in Records :
          /\ r = [id |-> r.id, owner |-> r.owner, kind |-> r.kind, status |-> r.status,
                  expires |-> r.expires]
          /\ r.id \in Nat /\ r.owner \in Principal \union {NoOwner} /\ r.kind \in {"paid", "trial"}
          /\ r.status \in {"active", "disabled", "deleted"} /\ r.expires \in Nat
    BY DEF Records
  <2>3. \A a \in Acct : IsRecord(mem[a]) /\ IsRecord(disk[a])
    BY <2>1, <2>2 DEF IsRecord, NameInv, Named
  <2>4. \A i \in DOMAIN chain : chain[i] \in Client \union {"sweep", "reconcile"}
    BY DEF MutexHeld, Procs
  <2> QED BY <2>3, <2>4 DEF TypeOK, Shapes, States
<1> QED BY <1>1, <1>2, <1>3, LifeInvariant, PTL DEF Spec

-----------------------------------------------------------------------------
(* Nothing is given back that was not paid. *)

\* No admin makes or renews an account: what it gives, it gives for nothing.
AdminsGiveNothing ==
  \A c \in Client : req[c] # Idle /\ req[c].q.op \in {"activate", "renew"} => Pays(req[c].q)

\* A record has fewer whole months left than one more than these.
Owed(r, months) == r.expires - now < (months + 1) * MonthTicks

\* A record has no more whole months left than were paid for it, or are about
\* to be.
PaidFor ==
  /\ paid \in [Acct -> Nat]
  /\ \A c \in Client : req[c].pc = "enable" => req[c].at <= now
  /\ \A a \in Acct : Live(mem[a]) /\ ~Decorating(a) => Owed(mem[a], paid[a])
  /\ \A c \in Client : req[c].pc = "decorate" => Owed(mem[req[c].q.a], Price(c))

PaidInv == faults = 0 => PaidFor

\* Counting in months.
LEMMA MonthsMath ==
  /\ \A n \in Nat : n * MonthTicks \in Nat /\ (n + 1) * MonthTicks = n * MonthTicks + MonthTicks
  /\ \A n, p \in Nat : (p + n + 1) * MonthTicks = (p + 1) * MonthTicks + n * MonthTicks
  /\ \A p \in Nat : \A d \in Int : d < (p + 1) * MonthTicks => d \div MonthTicks <= p
<1>1. MonthTicks \in Nat /\ MonthTicks > 0
  BY MonthAssumption
<1>2. \A m, n \in Nat : n * m \in Nat /\ (n + 1) * m = n * m + m
  OBVIOUS
<1>3. \A m, n, p \in Nat : (p + n + 1) * m = (p + 1) * m + n * m
  OBVIOUS
<1>4. \A m, p \in Nat : \A d \in Int : m > 0 /\ d < (p + 1) * m => d \div m <= p
  OBVIOUS
<1> QED BY <1>1, <1>2, <1>3, <1>4

\* Where no fault was met, this step is none, and none was met before.
LEMMA NoFaultYet ==
  ASSUME Shapes, [Next]_vars, faults' = 0
  PROVE  faults = 0 /\ \A f : ~Fault(f)
<1>1. faults \in Nat /\ faults' \in {faults, faults + 1}
  BY FaultsCount DEF Shapes
<1>2. \A f : Fault(f) => faults' = faults + 1
  BY DEF Fault
<1> QED BY <1>1, <1>2

\* A new account whose decoration is awaited.
LEMMA DecorateShape ==
  ASSUME Shapes, NEW c \in Client, req[c].pc = "decorate"
  PROVE  /\ req[c].q \in Requests /\ req[c].q.op \in Makes /\ req[c].q.a \in Acct
         /\ Price(c) \in Nat
<1>1. req[c].q \in Requests /\ req[c].q.op \in Makes
  BY ReqShape DEF Shapes
<1>2. req[c].q.a \in Acct /\ (req[c].q.op \in {"activate", "renew"} => req[c].q.n \in Nat)
  BY <1>1, RequestShape DEF Makes, Bulk
<1> QED BY <1>1, <1>2 DEF Price

\* A step that leaves the registry and what was paid alone, time aside.
LEMMA PaidFrame ==
  ASSUME Shapes, PaidFor, UNCHANGED <<mem, paid>>, now' \in Nat, now' >= now,
         \A c \in Client : \/ req'[c] = req[c]
                           \/ req[c].pc # "decorate" /\ req'[c].pc \notin {"decorate", "enable"}
                           \/ req[c].pc # "decorate" /\ req'[c].pc = "enable" /\ req'[c].at <= now'
  PROVE  PaidFor'
<1>1. now \in Nat /\ \A a \in Acct : mem[a].expires \in Nat
  BY DEF Shapes, Records
<1>2. \A a \in Acct : Decorating(a)' <=> Decorating(a)
  BY DEF Decorating
<1>3. ASSUME NEW a \in Acct, NEW m \in Nat, Owed(mem[a], m) PROVE Owed(mem[a], m)'
  <2>1. (m + 1) * MonthTicks \in Nat
    BY MonthsMath
  <2> QED BY <1>1, <1>3, <2>1 DEF Owed
<1>4. \A a \in Acct : (Live(mem[a]) /\ ~Decorating(a) => Owed(mem[a], paid[a]))'
  BY <1>2, <1>3 DEF PaidFor
<1>5. ASSUME NEW c \in Client, req'[c].pc = "decorate"
      PROVE  Owed(mem[req[c].q.a], Price(c))'
  <2>1. req'[c] = req[c] /\ req[c].pc = "decorate" /\ Owed(mem[req[c].q.a], Price(c))
    BY <1>5 DEF PaidFor
  <2>2. Price(c)' = Price(c)
    BY <2>1 DEF Price, Pays
  <2>3. req[c].q.a \in Acct /\ Price(c) \in Nat
    BY <2>1, DecorateShape
  <2>4. Owed(mem[req[c].q.a], Price(c))' <=> mem[req[c].q.a].expires - now' < (Price(c) + 1) * MonthTicks
    BY <2>1, <2>2 DEF Owed
  <2>5. (Price(c) + 1) * MonthTicks \in Nat /\ mem[req[c].q.a].expires \in Nat
    <3>1. Price(c) + 1 \in Nat
      BY <2>3
    <3>2. (Price(c) + 1) * MonthTicks \in Nat
      BY <3>1, MonthsMath
    <3> QED BY <1>1, <2>3, <3>2
  <2> QED BY <1>1, <2>1, <2>4, <2>5 DEF Owed
<1>6. \A c \in Client : (req[c].pc = "enable" => req[c].at <= now)'
  <2> SUFFICES ASSUME NEW c \in Client, req'[c].pc = "enable", req'[c] = req[c] PROVE req[c].at <= now'
    OBVIOUS
  <2>1. req[c].at <= now /\ req[c].at \in Nat
    BY ReqShape DEF PaidFor, Shapes
  <2> QED BY <1>1, <2>1
<1> QED BY <1>4, <1>5, <1>6 DEF PaidFor

\* The status of a live record is flipped.
LEMMA PaidFlip ==
  ASSUME Shapes, PaidFor, UNCHANGED <<paid, req, now>>, NEW a \in Acct, Live(mem[a]),
         NEW s \in {"active", "disabled"}, mem' = [mem EXCEPT ![a].status = s]
  PROVE  PaidFor'
<1>1. \A b \in Acct : mem'[b].expires = mem[b].expires /\ (Live(mem'[b]) <=> Live(mem[b]))
  BY DEF Shapes, Records, Live
<1>2. \A b \in Acct : \A m : Owed(mem[b], m)' <=> Owed(mem[b], m)
  BY <1>1 DEF Owed
<1>3. \A b \in Acct : (Live(mem[b]) /\ ~Decorating(b) => Owed(mem[b], paid[b]))'
  BY <1>1 DEF PaidFor, Decorating, Owed
<1>4. ASSUME NEW c \in Client, req[c].pc = "decorate" PROVE Owed(mem[req[c].q.a], Price(c))'
  <2>1. req[c].q.a \in Acct /\ Price(c)' = Price(c)
    BY <1>4, DecorateShape DEF Price, Pays
  <2> QED BY <1>1, <1>4, <2>1 DEF PaidFor, Owed
<1> QED BY <1>3, <1>4 DEF PaidFor

\* A new record has the months of its request left, and a trial none.
LEMMA PaidCreated ==
  ASSUME Shapes, MutexHeld, AdminsGiveNothing, PaidFor, TrialTicks < MonthTicks,
         NEW c \in Client, Created(c)
  PROVE  PaidFor'
<1>0. PICK a, q : q = req[c].q /\ a = q.a
  OBVIOUS
<1>1. /\ Turn(c) /\ req[c].pc = "create" /\ UNCHANGED <<paid, now>>
      /\ mem' = [mem EXCEPT ![a] = NewRecord(q)]
      /\ req' = [req EXCEPT ![c] = [pc |-> "decorate", q |-> q, at |-> now]]
  BY <1>0 DEF Created
<1>2. q \in Requests /\ q.op \in Makes /\ a \in Acct /\ req[c] # Idle
  <2>1. q \in Requests /\ q.op \in Makes /\ req[c] # Idle
    BY <1>0, <1>1, ReqShape DEF Shapes
  <2> QED BY <1>0, <2>1, RequestShape DEF Makes, Bulk
<1>3. /\ DOMAIN req = Client /\ now \in Nat
      /\ TrialTicks \in Nat /\ MonthTicks \in Nat
  BY MonthAssumption DEF Shapes
<1>4. /\ req'[c].pc = "decorate" /\ req'[c].q = q
      /\ \A d \in Client : d # c => req'[d] = req[d] /\ req'[d].pc \in {"idle", "queued"}
  BY <1>1, <1>3, OthersWait
<1>5. /\ mem'[a] = NewRecord(q)
      /\ \A b \in Acct : b # a => mem'[b] = mem[b]
  BY <1>1, <1>2 DEF Shapes
<1>6. \A b : ~Decorating(b)
  BY <1>1, OthersWait DEF Decorating
<1>7. ASSUME NEW b \in Acct PROVE (Live(mem[b]) /\ ~Decorating(b) => Owed(mem[b], paid[b]))'
  <2>1. b # a => Owed(mem[b], paid[b])' \/ ~Live(mem'[b])
    BY <1>1, <1>5, <1>6 DEF PaidFor, Owed
  <2>2. b = a => Decorating(b)'
    BY <1>0, <1>4 DEF Decorating
  <2> QED BY <2>1, <2>2
<1>8. ASSUME NEW d \in Client, req'[d].pc = "decorate" PROVE Owed(mem[req[d].q.a], Price(d))'
  <2>1. d = c
    BY <1>4, <1>8
  <2>2. PICK n : n = Price(c)'
    OBVIOUS
  <2>3. n = IF q.op \in {"activate", "renew"} /\ Pays(q) THEN q.n ELSE 0
    BY <1>4, <2>2 DEF Price, Pays
  <2>4. mem'[a].expires = now + (IF q.op = "trial" THEN TrialTicks ELSE q.n * MonthTicks)
    BY <1>5 DEF NewRecord
  <2>5. CASE q.op = "trial"
    <3>1. n = 0 /\ mem'[a].expires = now + TrialTicks
      BY <2>3, <2>4, <2>5
    <3>2. (0 + 1) * MonthTicks = MonthTicks
      BY <1>3
    <3>3. mem'[a].expires - now < (n + 1) * MonthTicks
      BY <1>3, <3>1, <3>2
    <3> QED BY <1>0, <1>1, <1>4, <2>1, <2>2, <3>3 DEF Owed
  <2>6. CASE q.op = "activate"
    <3>1. n = q.n /\ q.n \in Nat
      BY <1>0, <1>2, <2>3, <2>6, RequestShape DEF AdminsGiveNothing
    <3>2. mem'[a].expires = now + n * MonthTicks
      BY <2>4, <2>6, <3>1
    <3>3. n * MonthTicks \in Nat /\ (n + 1) * MonthTicks = n * MonthTicks + MonthTicks
          /\ MonthTicks > 0
      BY <3>1, MonthsMath, MonthAssumption
    <3>4. mem'[a].expires - now < (n + 1) * MonthTicks
      BY <1>3, <3>2, <3>3
    <3> QED BY <1>0, <1>1, <1>4, <2>1, <2>2, <3>4 DEF Owed
  <2> QED BY <1>2, <2>5, <2>6 DEF Makes
<1>9. paid' \in [Acct -> Nat]
  BY <1>1 DEF PaidFor
<1>10. \A d \in Client : (req[d].pc = "enable" => req[d].at <= now)'
  BY <1>4
<1> QED BY <1>7, <1>8, <1>9, <1>10 DEF PaidFor

\* What a finished operation leaves paid for its account: a renewal adds the
\* months it costs to both sides, a deletion gives back no more than is left.
LEMMA PaidAfter ==
  ASSUME Shapes, Lives, MutexHeld, AdminsGiveNothing, PaidFor, NEW c \in Client, Finishes(c), Booked(c),
         now' = now
  PROVE  /\ paid'[req[c].q.a] \in Nat
         /\ Live(RecordAfter(c)) => Owed(RecordAfter(c), paid'[req[c].q.a])
         /\ \A b \in Acct : b # req[c].q.a => paid'[b] = paid[b]
         /\ DOMAIN paid' = Acct
<1>0. PICK a, q, p : q = req[c].q /\ a = q.a /\ p = paid[a]
  OBVIOUS
<1>1. /\ q \in Requests /\ a \in Acct /\ req[c] # Idle
      /\ \/ req[c].pc = "decorate" /\ q.op \in Makes
         \/ req[c].pc \in {"queued", "enable"} /\ q.op = "renew"
         \/ req[c].pc = "status" /\ q.op \in {"suspend", "resume"}
         \/ req[c].pc = "delete" /\ q.op = "remove"
      /\ Turn(c)
  <2>1. req[c] \in Reqs /\ req[c].pc # "idle"
    BY FinishShape DEF Shapes
  <2> QED BY <1>0, <2>1, FinishShape, ReqShape
<1>2. /\ p \in Nat /\ now \in Nat /\ MonthTicks \in Nat /\ mem[a] \in Records /\ mem[a].expires \in Nat
  BY <1>0, <1>1, MonthAssumption DEF PaidFor, Shapes, Records
<1>3. /\ paid'[a] = IF req[c].pc = "decorate" THEN Price(c) ELSE p + Price(c) - Refund(c)
      /\ \A b \in Acct : b # a => paid'[b] = paid[b]
      /\ DOMAIN paid' = Acct
  BY <1>0, <1>1 DEF Booked, PaidFor
<1>4. Live(mem[a]) /\ Price(c) \in Nat /\ Refund(c) \in Nat
  BY <1>0, FinishLives, RecordShape
<1>5. req[c].pc # "decorate" => Owed(mem[a], p)
  <2>1. ASSUME req[c].pc # "decorate" PROVE ~Decorating(a)
    BY <1>1, <2>1, OthersWait DEF Decorating
  <2> QED BY <1>0, <1>1, <1>4, <2>1 DEF PaidFor
<1>6. CASE q.op \in Makes
  <2>1. req[c].pc = "decorate" /\ paid'[a] = Price(c)
    BY <1>1, <1>3, <1>6 DEF Makes
  <2>2. RecordAfter(c) = mem[a]
    BY <1>0, <1>6 DEF RecordAfter, Makes
  <2> QED BY <1>0, <1>3, <1>4, <2>1, <2>2 DEF PaidFor
<1>7. CASE q.op = "renew"
  <2>1. q.n \in Nat /\ Pays(q) /\ req[c].pc \in {"queued", "enable"}
    <3>1. q.n \in Nat
      BY <1>1, <1>7, RequestShape
    <3>2. req[c].pc \in {"queued", "enable"}
      BY <1>1, <1>7 DEF Makes
    <3> QED BY <1>0, <1>1, <1>7, <3>1, <3>2 DEF AdminsGiveNothing
  <2>2. Price(c) = q.n /\ Refund(c) = 0 /\ paid'[a] = p + q.n
    <3>1. Price(c) = q.n /\ Refund(c) = 0
      BY <1>0, <1>7, <2>1 DEF Price, Refund
    <3> QED BY <1>2, <1>3, <2>1, <3>1
  <2>3. RenewedAt(c) \in Int /\ RenewedAt(c) <= now
    <3>1. CASE req[c].pc = "queued"
      BY <1>2, <3>1 DEF RenewedAt
    <3>2. CASE req[c].pc = "enable"
      <4>1. req[c].at \in Nat /\ req[c].at <= now
        BY <3>2, ReqShape DEF PaidFor, Shapes
      <4> QED BY <3>2, <4>1 DEF RenewedAt
    <3> QED BY <2>1, <3>1, <3>2
  <2>4. PICK e : e = Later(RenewedAt(c), mem[a].expires)
    OBVIOUS
  <2>5. RecordAfter(c).expires = e + q.n * MonthTicks
    <3>1. RecordAfter(c) =
            [mem[a] EXCEPT !.status  = IF req[c].pc = "enable" THEN "active" ELSE mem[a].status,
                           !.expires = e + q.n * MonthTicks, !.kind = "paid"]
      BY <1>0, <1>7, <2>4 DEF RecordAfter
    <3> QED BY <1>2, <3>1 DEF Records
  <2>6. /\ (p + 1) * MonthTicks \in Nat /\ (p + 1) * MonthTicks > 0
        /\ q.n * MonthTicks \in Nat
        /\ (p + q.n + 1) * MonthTicks = (p + 1) * MonthTicks + q.n * MonthTicks
    <3>1. p * MonthTicks \in Nat /\ (p + 1) * MonthTicks = p * MonthTicks + MonthTicks
      BY <1>2, MonthsMath
    <3>2. MonthTicks > 0
      BY MonthAssumption
    <3>3. q.n * MonthTicks \in Nat
          /\ (p + q.n + 1) * MonthTicks = (p + 1) * MonthTicks + q.n * MonthTicks
      BY <1>2, <2>1, MonthsMath
    <3> QED BY <1>2, <3>1, <3>2, <3>3
  <2>7. e \in Int /\ e - now < (p + 1) * MonthTicks
    BY <1>2, <1>5, <2>1, <2>3, <2>4, <2>6 DEF Later, Owed
  <2>8. RecordAfter(c).expires - now < (p + q.n + 1) * MonthTicks
    BY <1>2, <2>5, <2>6, <2>7
  <2>9. Owed(RecordAfter(c), paid'[a])
    BY <2>2, <2>8 DEF Owed
  <2>10. paid'[a] \in Nat
    BY <1>2, <2>1, <2>2
  <2> QED BY <1>0, <1>3, <2>9, <2>10
<1>8. CASE q.op \in {"suspend", "resume"}
  <2>1. Price(c) = 0 /\ Refund(c) = 0 /\ req[c].pc # "decorate"
    BY <1>0, <1>1, <1>8 DEF Price, Refund, Makes
  <2>2. paid'[a] = p /\ RecordAfter(c).expires = mem[a].expires
    BY <1>0, <1>2, <1>3, <1>8, <2>1, RecordShape
  <2> QED BY <1>0, <1>2, <1>3, <1>5, <2>1, <2>2 DEF Owed
<1>9. CASE q.op = "remove"
  <2>1. Price(c) = 0 /\ req[c].pc # "decorate" /\ ~Live(RecordAfter(c))
    BY <1>0, <1>1, <1>9, RecordShape DEF Price, Makes
  <2>2. Refund(c) <= p
    <3>1. RemainingMonths(mem[a]) <= p
      <4>1. (mem[a].expires - now) \div MonthTicks <= p
        BY <1>2, <1>5, <2>1, MonthsMath DEF Owed
      <4> QED BY <1>2, <4>1 DEF RemainingMonths
    <3>2. Refund(c) = 0 \/ Refund(c) = RemainingMonths(mem[a])
      BY <1>0 DEF Refund, RefundDue
    <3> QED BY <1>2, <3>1, <3>2
  <2>3. paid'[a] = p - Refund(c)
    BY <1>2, <1>3, <1>4, <2>1
  <2> QED BY <1>0, <1>2, <1>3, <1>4, <2>1, <2>2, <2>3
<1> QED BY <1>1, <1>6, <1>7, <1>8, <1>9

LEMMA PaidFinish ==
  ASSUME Shapes, Lives, MutexHeld, AdminsGiveNothing, PaidFor, NEW c \in Client, Finish(c)
  PROVE  PaidFor'
<1>1. /\ Finishes(c) /\ Booked(c) /\ now' = now /\ mem' = MemAfter(c) /\ Turn(c)
      /\ req' = [req EXCEPT ![c] = Idle]
  BY DEF Finish, Finishes, Done
<1>2. \A d \in Client : req'[d].pc \in {"idle", "queued"}
  BY <1>1, OthersWait DEF Shapes, Idle
<1>3. PICK a : a = req[c].q.a
  OBVIOUS
<1>4. /\ paid'[a] \in Nat /\ DOMAIN paid' = Acct
      /\ Live(RecordAfter(c)) => Owed(RecordAfter(c), paid'[a])
      /\ \A b \in Acct : b # a => paid'[b] = paid[b]
  BY <1>1, <1>3, PaidAfter
<1>5. /\ a \in Acct
      /\ \A b \in Acct : mem'[b] = IF b = a THEN RecordAfter(c) ELSE mem[b]
  BY <1>1, <1>3, FinishLives
<1>6. \A b \in Acct : b # a => ~Decorating(b)
  BY <1>1, <1>3, OthersWait DEF Decorating
<1>7. paid' \in [Acct -> Nat]
  <2>1. PICK v : paid' = [paid EXCEPT ![a] = v]
    BY <1>1, <1>3 DEF Booked
  <2>2. v \in Nat
    BY <1>4, <1>5, <2>1 DEF PaidFor
  <2> QED BY <1>5, <2>1, <2>2 DEF PaidFor
<1>8. ASSUME NEW b \in Acct, Live(mem'[b]) PROVE Owed(mem[b], paid[b])'
  <2>1. CASE b = a
    BY <1>1, <1>4, <1>5, <1>8, <2>1 DEF Owed
  <2>2. CASE b # a
    BY <1>1, <1>4, <1>5, <1>6, <1>8, <2>2 DEF PaidFor, Owed
  <2> QED BY <2>1, <2>2
<1> QED BY <1>2, <1>7, <1>8 DEF PaidFor

LEMMA PaidStep ==
  Shapes /\ MutexHeld /\ LifeInv /\ AdminsGiveNothing /\ PaidInv /\ TrialTicks < MonthTicks
    /\ [Next]_vars => PaidInv'
<1> SUFFICES ASSUME Shapes, MutexHeld, LifeInv, AdminsGiveNothing, PaidInv, TrialTicks < MonthTicks,
                    [Next]_vars, faults' = 0
             PROVE  PaidFor'
  BY DEF PaidInv
<1>0. /\ PaidFor /\ \A f : ~Fault(f)
      /\ Calling /\ Lives /\ NoGhosts
  BY NoFaultYet DEF PaidInv, LifeInv, Heard
<1>s. ~PanelSilent
  BY <1>0 DEF PanelSilent
<1>d. DOMAIN req = Client /\ now \in Nat
  BY DEF Shapes
<1>i. Idle.pc = "idle"
  BY DEF Idle
<1>1. ASSUME NEW c \in Client, UNCHANGED <<mem, paid, now>>, req[c].pc # "decorate",
             \A e \in Client : e # c => req'[e] = req[e],
             req'[c].pc # "decorate", req'[c].pc = "enable" => req'[c].at <= now
      PROVE  PaidFor'
  BY <1>0, <1>1, <1>d, PaidFrame
<1>2. ASSUME NEW c \in Client, Arrive(c) PROVE PaidFor'
  <2>1. PICK q : req' = [req EXCEPT ![c] = [pc |-> "queued", q |-> q]]
    BY <1>2 DEF Arrive
  <2>2. req[c].pc = "idle" /\ UNCHANGED <<mem, paid, now>>
    BY <1>2, <1>i DEF Arrive, books, world
  <2>3. req'[c].pc = "queued" /\ \A e \in Client : e # c => req'[e] = req[e]
    BY <1>d, <2>1
  <2> QED BY <1>1, <2>2, <2>3
<1>3. ASSUME NEW c \in Client, Serve(c) PROVE PaidFor'
  <2>1. CASE Refuse(c) \/ CreateFails(c) \/ AskFails(c) \/ BulkEnd(c)
    <3>1. /\ req' = [req EXCEPT ![c] = Idle] /\ UNCHANGED <<mem, paid, now>>
      BY <2>1 DEF Refuse, CreateFails, AskFails, BulkEnd, Done, books, world
    <3>2. req[c].pc # "decorate"
      BY <2>1 DEF Refuse, CreateFails, AskFails, BulkEnd, Accepts
    <3>3. req'[c].pc = "idle" /\ \A e \in Client : e # c => req'[e] = req[e]
      BY <1>d, <1>i, <3>1
    <3> QED BY <1>1, <3>1, <3>2, <3>3
  <2>2. CASE StartCreate(c) \/ StartEnable(c) \/ StartStatus(c) \/ StartDelete(c)
    <3>1. /\ UNCHANGED <<mem, paid, now>> /\ req[c].pc = "queued"
          /\ \E pc \in {"create", "enable", "status", "delete"} :
               req' = [req EXCEPT ![c] = [pc |-> pc, q |-> req[c].q, at |-> now]]
      BY <2>2 DEF StartCreate, StartEnable, StartStatus, StartDelete, Accepts, Asks, books, world
    <3>2. PICK pc \in {"create", "enable", "status", "delete"} :
             req' = [req EXCEPT ![c] = [pc |-> pc, q |-> req[c].q, at |-> now]]
      BY <3>1
    <3>3. /\ req'[c].pc = pc /\ req'[c].at = now
          /\ \A e \in Client : e # c => req'[e] = req[e]
      BY <1>d, <3>2
    <3> QED BY <1>1, <1>d, <3>1, <3>3
  <2>3. CASE Created(c)
    BY <1>0, <2>3, PaidCreated
  <2>4. CASE Finish(c)
    BY <1>0, <2>4, PaidFinish
  <2>5. CASE FinishFails(c)
    BY <1>0, <2>5 DEF FinishFails
  <2>6. CASE BulkAsks(c)
    <3>1. /\ UNCHANGED <<mem, paid, now>> /\ req[c].pc # "decorate"
          /\ \E t : req' = [req EXCEPT ![c] = [pc |-> "bulk", q |-> req[c].q, at |-> now, todo |-> t]]
      BY <2>6 DEF BulkAsks, Accepts, books, world
    <3>2. PICK t : req' = [req EXCEPT ![c] = [pc |-> "bulk", q |-> req[c].q, at |-> now, todo |-> t]]
      BY <3>1
    <3>3. req'[c].pc = "bulk" /\ \A e \in Client : e # c => req'[e] = req[e]
      BY <1>d, <3>2
    <3> QED BY <1>1, <3>1, <3>3
  <2>7. CASE BulkAnswer(c)
    <3>1. /\ req[c].pc = "bulk" /\ call # NoCall /\ UNCHANGED <<req, paid, now>>
          /\ \/ mem' = [mem EXCEPT ![call.a].status = Target(req[c].q)]
             \/ mem' = mem
      BY <2>7 DEF BulkAnswer, books
    <3>2. call.a \in Acct /\ Target(req[c].q) \in {"active", "disabled"} /\ Live(mem[call.a])
      BY <1>0, <3>1 DEF Shapes, Calls, Target, Calling
    <3> QED BY <1>0, <1>d, <3>1, <3>2, PaidFlip, PaidFrame
  <2> QED BY <1>3, <2>1, <2>2, <2>3, <2>4, <2>5, <2>6, <2>7 DEF Serve
<1>4. CASE SweepStep
  <2>1. CASE SweepAnswered
    <3>1. UNCHANGED <<req, paid, now>>
      BY <2>1 DEF SweepAnswered, books
    <3>2. /\ sweep.a \in Acct
          /\ \/ mem' = mem
             \/ Live(mem[sweep.a]) /\ mem' = [mem EXCEPT ![sweep.a].status = "disabled"]
      BY <1>0, <1>s, <2>1, SweepSpares
    <3> QED BY <1>0, <1>d, <3>1, <3>2, PaidFlip, PaidFrame
  <2>2. CASE ~SweepAnswered
    <3>1. UNCHANGED <<req, mem, paid, now>>
      BY <1>4, <2>2 DEF SweepStep, SweepStart, SweepQueues, SweepAsks, SweepSaves, books, world
    <3> QED BY <1>0, <1>d, <3>1, PaidFrame
  <2> QED BY <2>1, <2>2
<1>5. CASE ReconStep \/ LateLands \/ LateLost \/ UNCHANGED vars
  <2>1. UNCHANGED <<req, mem, paid, now>>
    BY <1>5 DEF ReconStep, ReconStart, ReconIntent, ReconChases, ReconIntentsDone, ReconLooks,
       ReconCompares, ReconAsks, ReconAnswered, ReconEnds, ReconSaves, LateLands, LateLost, vars,
       books, world
  <2> QED BY <1>0, <1>d, <2>1, PaidFrame
<1>6. CASE Tick
  <2>1. UNCHANGED <<req, mem, paid>> /\ now' = now + 1
    BY <1>6 DEF Tick, books
  <2> QED BY <1>0, <1>d, <2>1, PaidFrame
<1>7. CASE Crash \/ \E c \in Client : CrashInFinish(c)
  BY <1>0, <1>7 DEF Crash, CrashInFinish
<1> QED BY <1>2, <1>3, <1>4, <1>5, <1>6, <1>7 DEF Next

\* Deleting an account gives back no more months than were paid for it, as long
\* as no fault was met and the admins neither make nor renew one for nothing,
\* whose months a reseller's deletion would turn into credits; and where a
\* trial is shorter than a month, or its renewal would add a whole one.
THEOREM RefundSafety ==
  ASSUME TrialTicks < MonthTicks
  PROVE  Spec /\ []AdminsGiveNothing => []RefundsWithinPaid
<1>1. Init => PaidInv
  BY DEF Init, PaidInv, PaidFor, Decorating, Idle, NoRecord, Live
<1>2. PaidInv => RefundsWithinPaid
  <2>1. PaidInv /\ faults = 0 => paid \in [Acct -> Nat]
    BY DEF PaidInv, PaidFor
  <2> QED BY <2>1 DEF RefundsWithinPaid
<1>3. Shapes /\ MutexHeld /\ LifeInv /\ AdminsGiveNothing /\ PaidInv /\ [Next]_vars => PaidInv'
  BY PaidStep
<1> QED BY <1>1, <1>2, <1>3, LifeInvariant, PTL DEF Spec

-----------------------------------------------------------------------------
(* A suspension reaches every account. *)

\* An account of the owner that is still active is one the loop has yet to ask
\* for, or is asking for.
Reached(c) ==
  req[c].pc = "bulk" /\ req[c].q.op = "disableAll" =>
    \A a \in Acct : mem[a].owner = req[c].q.owner /\ mem[a].status = "active"
      => a \in req[c].todo \/ (call # NoCall /\ call.a = a)

\* As long as no fault was met, every live record has its user, so the panel
\* rejects no call of a loop.
ReachInv ==
  faults = 0 => /\ late = {}
                /\ \A a \in Acct : Live(mem[a]) => panel[a] # "absent"
                /\ \A c \in Client : Reached(c)

\* A call that is no deletion leaves every user there.
LEMMA UsersStay ==
  ASSUME Shapes, MutexHeld, Calling, NEW p, Turn(p), p \in Client => req[p].pc # "delete",
         PanelDoes \/ PanelRejects \/ UNCHANGED wire
  PROVE  \A a \in Acct : panel[a] # "absent" => panel'[a] # "absent"
<1>1. call # NoCall => call \in Calls /\ call.eff # "delete"
  <2>1. \A d \in Client : req[d].pc # "delete"
    BY OthersWait
  <2> QED BY <2>1 DEF Calling, Shapes
<1>2. CASE PanelDoes
  <2>1. /\ call.a \in Acct /\ call.eff \in {"create", "active", "disabled"}
        /\ panel' = [panel EXCEPT ![call.a] = CASE call.eff \in {"create", "active"} -> "active"
                                                [] call.eff = "disabled" -> "disabled"
                                                [] call.eff = "delete"   -> "absent"]
    BY <1>1, <1>2 DEF PanelDoes, After, Calls
  <2>2. /\ \A a \in Acct : a # call.a => panel'[a] = panel[a]
        /\ panel'[call.a] # "absent"
    BY <2>1 DEF Shapes
  <2> QED BY <2>2
<1>3. CASE PanelRejects \/ UNCHANGED wire
  BY <1>3 DEF PanelRejects, wire
<1> QED BY <1>2, <1>3

\* Whoever has the turn, no other request is in its loop.
LEMMA ReachedOthers ==
  ASSUME MutexHeld, NEW p, Turn(p), \A d \in Client : d # p => req'[d] = req[d],
         p \in Client => req'[p].pc # "bulk"
  PROVE  \A c \in Client : Reached(c)'
<1>1. \A c \in Client : req'[c].pc # "bulk"
  BY OthersWait
<1> QED BY <1>1 DEF Reached

\* A step that leaves the registry and the call alone.
LEMMA ReachedFrame ==
  ASSUME \A c \in Client : Reached(c), UNCHANGED <<mem, call>>,
         \A c \in Client : req'[c] = req[c] \/ req'[c].pc # "bulk"
  PROVE  \A c \in Client : Reached(c)'
  BY DEF Reached

LEMMA ReachStep ==
  Shapes /\ MutexHeld /\ LifeInv /\ ReachInv /\ [Next]_vars => ReachInv'
<1> SUFFICES ASSUME Shapes, MutexHeld, LifeInv, ReachInv, [Next]_vars, faults' = 0
             PROVE  /\ late' = {}
                    /\ \A a \in Acct : Live(mem'[a]) => panel'[a] # "absent"
                    /\ \A c \in Client : Reached(c)'
  BY DEF ReachInv
<1>0. /\ late = {} /\ \A a \in Acct : Live(mem[a]) => panel[a] # "absent"
      /\ \A c \in Client : Reached(c)
      /\ \A f : ~Fault(f)
      /\ Calling /\ Lives /\ NoGhosts
  BY NoFaultYet DEF ReachInv, LifeInv, Heard
<1>s. ~PanelSilent
  BY <1>0 DEF PanelSilent
<1>d. DOMAIN req = Client /\ "sweep" \notin Client /\ "reconcile" \notin Client
  BY ProcAssumption DEF Shapes
<1>i. Idle.pc = "idle"
  BY DEF Idle
<1>w. PanelDoes \/ PanelRejects \/ UNCHANGED wire => late' = {}
  BY <1>0 DEF PanelDoes, PanelRejects, wire
<1>f. \A b \in Acct : \A s : Live(mem[b]) /\ mem' = [mem EXCEPT ![b].status = s] =>
        \A a \in Acct : Live(mem'[a]) => Live(mem[a])
  BY DEF Shapes
<1>1. ASSUME UNCHANGED <<mem, panel, call, late>>,
             \A c \in Client : req'[c] = req[c] \/ req'[c].pc # "bulk"
      PROVE  /\ late' = {}
             /\ \A a \in Acct : Live(mem'[a]) => panel'[a] # "absent"
             /\ \A c \in Client : Reached(c)'
  BY <1>0, <1>1, ReachedFrame
<1>2. ASSUME NEW c \in Client, Arrive(c)
      PROVE  /\ late' = {}
             /\ \A a \in Acct : Live(mem'[a]) => panel'[a] # "absent"
             /\ \A d \in Client : Reached(d)'
  <2>1. PICK q : req' = [req EXCEPT ![c] = [pc |-> "queued", q |-> q]]
    BY <1>2 DEF Arrive
  <2>2. req'[c].pc = "queued" /\ \A e \in Client : e # c => req'[e] = req[e]
    BY <1>d, <2>1
  <2> QED BY <1>1, <1>2, <2>2 DEF Arrive, wire
<1>3. ASSUME NEW c \in Client, Serve(c)
      PROVE  /\ late' = {}
             /\ \A a \in Acct : Live(mem'[a]) => panel'[a] # "absent"
             /\ \A d \in Client : Reached(d)'
  <2>1. CASE Refuse(c) \/ BulkEnd(c)
    <3>1. /\ req' = [req EXCEPT ![c] = Idle] /\ UNCHANGED <<mem, panel, call, late>>
      BY <2>1 DEF Refuse, BulkEnd, Done, wire
    <3>2. \A d \in Client : req'[d] = req[d] \/ req'[d].pc # "bulk"
      BY <1>d, <1>i, <3>1
    <3> QED BY <1>1, <3>1, <3>2
  <2>2. CASE CreateFails(c) \/ AskFails(c)
    <3>1. /\ PanelRejects /\ UNCHANGED mem /\ Turn(c)
          /\ req' = [req EXCEPT ![c] = Idle]
      BY <1>s, <2>2 DEF CreateFails, AskFails, Done
    <3>2. req'[c].pc # "bulk" /\ \A d \in Client : d # c => req'[d] = req[d]
      BY <1>d, <1>i, <3>1
    <3> QED BY <1>0, <1>w, <3>1, <3>2, ReachedOthers DEF PanelRejects
  <2>3. CASE StartCreate(c) \/ StartEnable(c) \/ StartStatus(c) \/ StartDelete(c)
    <3>1. /\ UNCHANGED <<mem, panel, late>> /\ Turn(c)
          /\ \E pc \in {"create", "enable", "status", "delete"} :
               req' = [req EXCEPT ![c] = [pc |-> pc, q |-> req[c].q, at |-> now]]
      BY <2>3 DEF StartCreate, StartEnable, StartStatus, StartDelete, Accepts, Asks
    <3>2. req'[c].pc # "bulk" /\ \A d \in Client : d # c => req'[d] = req[d]
      BY <1>d, <3>1
    <3> QED BY <1>0, <3>1, <3>2, ReachedOthers
  <2>4. CASE Created(c)
    <3>0. PICK a : a = req[c].q.a
      OBVIOUS
    <3>1. /\ Turn(c) /\ req[c].pc = "create" /\ PanelDoes
          /\ mem' = [mem EXCEPT ![a] = NewRecord(req[c].q)]
          /\ req' = [req EXCEPT ![c] = [pc |-> "decorate", q |-> req[c].q, at |-> now]]
      BY <2>4, <3>0 DEF Created, CreateLands
    <3>2. req'[c].pc # "bulk" /\ \A d \in Client : d # c => req'[d] = req[d]
      BY <1>d, <3>1
    <3>3. call = Call(a, "create")
      BY <1>0, <3>0, <3>1 DEF Calling
    <3>4. call.a = a /\ call.eff = "create"
      BY <3>3 DEF Call
    <3>5. panel' = [panel EXCEPT ![a] = "active"]
      BY <3>1, <3>4 DEF PanelDoes, After
    <3>6. \A b \in Acct : b # a => mem'[b] = mem[b] /\ panel'[b] = panel[b]
      BY <3>1, <3>5 DEF Shapes
    <3>7. a \in Acct => panel'[a] = "active"
      BY <3>5 DEF Shapes
    <3> QED BY <1>0, <1>w, <3>1, <3>2, <3>6, <3>7, ReachedOthers
  <2>5. CASE Finish(c)
    <3>1. /\ Finishes(c) /\ Turn(c) /\ mem' = MemAfter(c) /\ req' = [req EXCEPT ![c] = Idle]
          /\ PanelDoes \/ PanelRejects \/ UNCHANGED wire
      BY <2>5 DEF Finish, Finishes, Done
    <3>2. req'[c].pc # "bulk" /\ \A d \in Client : d # c => req'[d] = req[d]
      BY <1>d, <1>i, <3>1
    <3>3. /\ req[c].q.a \in Acct
          /\ \A a \in Acct : mem'[a] = IF a = req[c].q.a THEN RecordAfter(c) ELSE mem[a]
          /\ \A a \in Acct : Live(mem'[a]) => Live(mem[a])
      BY <1>0, <3>1, FinishLives
    <3>4. CASE req[c].pc # "delete"
      <4>1. \A a \in Acct : panel[a] # "absent" => panel'[a] # "absent"
        BY <1>0, <3>1, <3>4, UsersStay
      <4> QED BY <1>0, <1>w, <3>1, <3>2, <3>3, <4>1, ReachedOthers
    <3>5. CASE req[c].pc = "delete"
      <4>1. ~Live(mem'[req[c].q.a])
        <5>1. req[c].q.op = "remove"
          BY <3>1, <3>5, FinishShape DEF Makes
        <5> QED BY <3>1, <3>3, <5>1, RecordShape
      <4>2. \A a \in Acct : a # req[c].q.a => panel'[a] = panel[a]
        <5>1. call = Call(req[c].q.a, "delete")
          BY <1>0, <3>5 DEF Calling
        <5>2. call.a = req[c].q.a
          BY <5>1 DEF Call
        <5> QED BY <3>1, <5>2 DEF PanelDoes, PanelRejects, wire, After, Shapes
      <4> QED BY <1>0, <1>w, <3>1, <3>2, <3>3, <4>1, <4>2, ReachedOthers
    <3> QED BY <3>4, <3>5
  <2>6. CASE FinishFails(c)
    BY <1>0, <2>6 DEF FinishFails
  <2>7. CASE BulkAsks(c)
    <3>1. PICK a, todo :
            /\ todo = IF req[c].pc = "bulk" THEN req[c].todo ELSE Acct
            /\ req' = [req EXCEPT ![c] = [pc |-> "bulk", q |-> req[c].q, at |-> now,
                                          todo |-> todo \ {a}]]
            /\ call' = Call(a, Target(req[c].q))
      BY <2>7 DEF BulkAsks
    <3>2. /\ Turn(c) /\ UNCHANGED <<mem, panel, late>>
          /\ req[c].pc = "bulk" => call = NoCall
      BY <2>7 DEF BulkAsks, Accepts
    <3>3. /\ req'[c].q = req[c].q /\ req'[c].todo = todo \ {a}
          /\ \A d \in Client : d # c => req'[d] = req[d] /\ req'[d].pc # "bulk"
      BY <1>d, <3>1, <3>2, OthersWait
    <3>4. call'.a = a /\ call' # NoCall
      <4>1. call'.a = a /\ call'.eff \in {"active", "disabled"}
        BY <3>1 DEF Call, Target
      <4> QED BY <4>1 DEF NoCall
    <3>5. Reached(c)'
      <4> SUFFICES ASSUME NEW b \in Acct, req[c].q.op = "disableAll", mem[b].owner = req[c].q.owner,
                          mem[b].status = "active", b # a
                   PROVE  b \in todo
        BY <3>2, <3>3, <3>4 DEF Reached
      <4> QED BY <1>0, <3>1, <3>2 DEF Reached
    <3> QED BY <1>0, <3>2, <3>3, <3>5 DEF Reached
  <2>8. CASE BulkAnswer(c)
    <3>1. /\ Turn(c) /\ req[c].pc = "bulk" /\ call # NoCall /\ UNCHANGED req
          /\ \/ PanelDoes /\ mem' = [mem EXCEPT ![call.a].status = Target(req[c].q)]
             \/ PanelRejects
      BY <1>s, <2>8 DEF BulkAnswer
    <3>2. call.a \in Acct /\ Live(mem[call.a]) /\ panel[call.a] # "absent"
      BY <1>0, <3>1 DEF Shapes, Calls, Calling
    <3>3. call.eff # "create"
      <4>1. \A d \in Client : req[d].pc # "create"
        BY <3>1, OthersWait
      <4> QED BY <1>0, <3>1, <4>1 DEF Calling
    <3>4. PanelDoes /\ mem' = [mem EXCEPT ![call.a].status = Target(req[c].q)]
      BY <3>1, <3>2, <3>3 DEF PanelRejects, Rejected
    <3>5. \A a \in Acct : panel[a] # "absent" => panel'[a] # "absent"
      BY <1>0, <3>1, <3>4, UsersStay
    <3>6. \A a \in Acct : Live(mem'[a]) => Live(mem[a])
      BY <1>f, <3>2, <3>4
    <3>7. Reached(c)'
      <4>1. \A b \in Acct : /\ mem'[b].owner = mem[b].owner
                            /\ b # call.a => mem'[b].status = mem[b].status
        BY <3>2, <3>4 DEF Shapes
      <4>2. req[c].q.op = "disableAll" => mem'[call.a].status = "disabled"
        BY <3>2, <3>4 DEF Shapes, Records, Target
      <4> QED BY <1>0, <3>1, <4>1, <4>2 DEF Reached
    <3>8. \A d \in Client : d # c => req[d].pc # "bulk"
      BY <3>1, OthersWait
    <3>9. \A d \in Client : d # c => Reached(d)'
      BY <3>1, <3>8 DEF Reached
    <3> QED BY <1>0, <1>w, <3>4, <3>5, <3>6, <3>7, <3>9
  <2> QED BY <1>3, <2>1, <2>2, <2>3, <2>4, <2>5, <2>6, <2>7, <2>8 DEF Serve
<1>4. ASSUME SweepStep
      PROVE  /\ late' = {}
             /\ \A a \in Acct : Live(mem'[a]) => panel'[a] # "absent"
             /\ \A d \in Client : Reached(d)'
  <2>1. CASE SweepAnswered
    <3>1. UNCHANGED req /\ (PanelDoes \/ PanelRejects)
      BY <1>s, <2>1 DEF SweepAnswered
    <3>2. /\ sweep.a \in Acct /\ sweep.pc = "call"
          /\ \/ mem' = mem
             \/ Live(mem[sweep.a]) /\ mem' = [mem EXCEPT ![sweep.a].status = "disabled"]
      BY <1>0, <1>s, <2>1, SweepSpares
    <3>3. Turn("sweep")
      BY <3>2 DEF MutexHeld, Engaged
    <3>4. \A a \in Acct : panel[a] # "absent" => panel'[a] # "absent"
      BY <1>0, <1>d, <3>1, <3>3, UsersStay
    <3>5. \A c \in Client : Reached(c)'
      BY <1>d, <3>1, <3>3, ReachedOthers
    <3> QED BY <1>0, <1>f, <1>w, <3>1, <3>2, <3>4, <3>5
  <2>2. CASE SweepAsks
    <3>1. Turn("sweep") /\ UNCHANGED <<req, mem, panel, late>>
      BY <2>2 DEF SweepAsks
    <3> QED BY <1>0, <1>d, <3>1, ReachedOthers
  <2>3. CASE SweepStart \/ SweepQueues \/ SweepSaves
    BY <1>1, <2>3 DEF SweepStart, SweepQueues, SweepSaves, wire
  <2> QED BY <1>4, <2>1, <2>2, <2>3 DEF SweepStep
<1>5. ASSUME ReconStep
      PROVE  /\ late' = {}
             /\ \A a \in Acct : Live(mem'[a]) => panel'[a] # "absent"
             /\ \A d \in Client : Reached(d)'
  <2>1. CASE ReconAnswered
    <3>1. recon.pc \in {"orphanCall", "repairCall"} /\ UNCHANGED <<req, mem>>
          /\ (PanelDoes \/ PanelRejects)
      BY <1>s, <2>1 DEF ReconAnswered
    <3>2. Turn("reconcile")
      BY <3>1 DEF MutexHeld, Engaged
    <3>3. \A a \in Acct : panel[a] # "absent" => panel'[a] # "absent"
      BY <1>0, <1>d, <3>1, <3>2, UsersStay
    <3> QED BY <1>0, <1>d, <1>w, <3>1, <3>2, <3>3, ReachedOthers
  <2>2. CASE ReconAsks
    <3>1. Turn("reconcile") /\ UNCHANGED <<req, mem, panel, late>>
      BY <2>2 DEF ReconAsks
    <3> QED BY <1>0, <1>d, <3>1, ReachedOthers
  <2>3. CASE ~ReconAnswered /\ ~ReconAsks
    <3>1. UNCHANGED <<req, mem, panel, call, late>>
      BY <1>5, <2>3 DEF ReconStep, ReconStart, ReconIntent, ReconChases, ReconIntentsDone, ReconLooks,
         ReconCompares, ReconEnds, ReconSaves, wire
    <3> QED BY <1>1, <3>1
  <2> QED BY <2>1, <2>2, <2>3
<1>6. CASE Tick \/ LateLands \/ LateLost \/ UNCHANGED vars
  <2>1. ~LateLands /\ ~LateLost
    BY <1>0 DEF LateLands, LateLost
  <2>2. UNCHANGED <<req, mem, panel, call, late>>
    BY <1>6, <2>1 DEF Tick, vars, wire
  <2> QED BY <1>1, <2>2
<1>7. CASE Crash \/ \E c \in Client : CrashInFinish(c)
  BY <1>0, <1>7 DEF Crash, CrashInFinish
<1> QED BY <1>2, <1>3, <1>4, <1>5, <1>6, <1>7 DEF Next

\* When an operator has suspended a principal with its accounts, and no fault was
\* met, none of the accounts is active, lapsed or not, whichever of them the
\* loop had found active when it began.
THEOREM SuspensionComplete == Spec => SuspendReachesAll
<1>1. Init => ReachInv
  BY DEF Init, ReachInv, Reached, Idle, NoRecord, Live
<1>2. Shapes /\ MutexHeld /\ LifeInv /\ ReachInv /\ [Next]_vars =>
        [\A c \in Client :
           req[c] # Idle /\ req[c].q.op = "disableAll" /\ req'[c] = Idle /\ faults' = 0
             => \A a \in Acct : mem'[a].owner = req[c].q.owner => mem'[a].status # "active"]_vars
  <2> SUFFICES ASSUME Shapes, MutexHeld, LifeInv, ReachInv, Next, NEW c \in Client, req[c] # Idle,
                      req[c].q.op = "disableAll", req'[c] = Idle, faults' = 0, NEW a \in Acct,
                      mem'[a].owner = req[c].q.owner
               PROVE  mem'[a].status # "active"
    OBVIOUS
  <2>0. /\ Reached(c) /\ \A f : ~Fault(f)
    BY NoFaultYet DEF ReachInv
  <2>d. DOMAIN req = Client /\ req[c] \in Reqs
    BY DEF Shapes
  <2>i. Idle.pc = "idle"
    BY DEF Idle
  <2>1. BulkEnd(c)
    <3>1. ASSUME NEW d \in Client, Arrive(d) PROVE FALSE
      <4>1. PICK q : req' = [req EXCEPT ![d] = [pc |-> "queued", q |-> q]]
        BY <3>1 DEF Arrive
      <4>2. req'[d].pc = "queued" /\ \A e \in Client : e # d => req'[e] = req[e]
        BY <2>d, <4>1
      <4> QED BY <2>i, <4>2
    <3>2. ASSUME NEW d \in Client, Serve(d) PROVE d = c
      <4>1. \A e \in Client : e # d => req'[e] = req[e]
        BY <2>d, <3>2 DEF Serve, Refuse, StartCreate, Created, CreateFails, StartEnable, StartStatus,
           StartDelete, AskFails, Finish, FinishFails, BulkAsks, BulkAnswer, BulkEnd, Done, Asks
      <4> QED BY <4>1
    <3>3. ASSUME Serve(c) PROVE BulkEnd(c)
      <4>1. req[c].pc \in {"queued", "bulk"}
        BY <2>d, ReqShape DEF Makes
      <4>2. ~Refuse(c)
        BY DEF Refuse, Accepted
      <4>3. ~CreateFails(c) /\ ~AskFails(c) /\ ~FinishFails(c) /\ ~Created(c)
        BY <2>0, <4>1 DEF CreateFails, AskFails, FinishFails, Created
      <4>4. ~StartCreate(c) /\ ~StartEnable(c) /\ ~StartStatus(c) /\ ~StartDelete(c)
        BY DEF StartCreate, StartEnable, StartStatus, StartDelete, Accepts
      <4>5. ~Finish(c)
        BY <4>1 DEF Finish, Finishes, Accepts
      <4>6. ~BulkAsks(c) /\ ~BulkAnswer(c)
        <5>1. ASSUME BulkAsks(c) PROVE req'[c].pc = "bulk"
          <6>1. \E t : req' = [req EXCEPT ![c] = [pc |-> "bulk", q |-> req[c].q, at |-> now, todo |-> t]]
            BY <5>1 DEF BulkAsks
          <6> QED BY <2>d, <6>1
        <5> QED BY <2>i, <5>1 DEF BulkAnswer
      <4> QED BY <3>3, <4>2, <4>3, <4>4, <4>5, <4>6 DEF Serve
    <3>4. ~(SweepStep \/ ReconStep \/ Tick \/ LateLands \/ LateLost)
      BY DEF SweepStep, SweepStart, SweepQueues, SweepAsks, SweepAnswered, SweepSaves, ReconStep,
         ReconStart, ReconIntent, ReconChases, ReconIntentsDone, ReconLooks, ReconCompares, ReconAsks,
         ReconAnswered, ReconEnds, ReconSaves, Tick, LateLands, LateLost
    <3>5. ~Crash /\ \A d \in Client : ~CrashInFinish(d)
      BY <2>0 DEF Crash, CrashInFinish
    <3> QED BY <3>1, <3>2, <3>3, <3>4, <3>5 DEF Next
  <2>2. /\ mem' = mem
        /\ \/ \A b \in Acct : ~Wanting(req[c].q, b)
           \/ req[c].pc = "bulk" /\ call = NoCall /\ \A b \in req[c].todo : ~Wanting(req[c].q, b)
    BY <2>1 DEF BulkEnd
  <2>3. ~Wanting(req[c].q, a) \/ mem[a].status # "active"
    BY <2>0, <2>2 DEF Reached
  <2>4. Target(req[c].q) = "disabled"
    BY DEF Target
  <2> QED BY <2>2, <2>3, <2>4 DEF Wanting, Live
<1> QED BY <1>1, <1>2, LifeInvariant, ReachStep, PTL DEF Spec, SuspendReachesAll

-----------------------------------------------------------------------------
(* The journal.                                                            *)

\* The reconcile sweep is among the intents, or on one of them.
Chasing == recon.pc \in {"intents", "chase", "orphan", "orphanCall"}

\* The journal has an intent for a name of S only while it is being made, and
\* the reconcile sweep has no business with those names.
Tidy(S) ==
  /\ \A a \in S : intent[a] # "none" =>
       /\ intent[a] = "fresh"
       /\ \E c \in Client : req[c].pc \in {"create", "decorate"} /\ req[c].q.a = a
  /\ Chasing => recon.todo \intersect S = {}
  /\ recon.pc \in {"chase", "orphan", "orphanCall"} => recon.a \notin S

\* What a creation that is not committed has in the journal.
Bracketed ==
  \A c \in Client : req[c].pc \in {"create", "decorate"} => intent[req[c].q.a] = "fresh"

\* A step that leaves the journal, the reconcile sweep and the creations alone.
LEMMA TidyFrame ==
  ASSUME NEW S, Tidy(S), UNCHANGED <<intent, recon>>,
         \A c \in Client : req'[c] = req[c] \/ req[c].pc \notin {"create", "decorate"}
  PROVE  Tidy(S)'
  BY DEF Tidy, Chasing

\* A creation ends, and its intent is closed or is for none of those names.
LEMMA TidyEnds ==
  ASSUME NEW S, S \subseteq Acct, Shapes, Tidy(S), NEW c \in Client, UNCHANGED recon,
         \A d \in Client : d # c => req'[d] = req[d],
         \/ req[c].q.a \notin S /\ intent' = intent
         \/ intent' = CloseIntent(req[c].q.a)
  PROVE  Tidy(S)'
<1>1. ASSUME NEW a \in S, intent'[a] # "none"
      PROVE  /\ intent'[a] = "fresh"
             /\ \E d \in Client : req'[d].pc \in {"create", "decorate"} /\ req'[d].q.a = a
  <2>1. a # req[c].q.a /\ intent'[a] = intent[a]
    BY <1>1 DEF CloseIntent, Shapes
  <2>2. PICK d \in Client : req[d].pc \in {"create", "decorate"} /\ req[d].q.a = a
    BY <1>1, <2>1 DEF Tidy
  <2>3. d # c
    BY <2>1, <2>2
  <2> QED BY <1>1, <2>1, <2>2, <2>3 DEF Tidy
<1> QED BY <1>1 DEF Tidy, Chasing

\* A reconcile step closes no intent of those names, nor takes one up.
LEMMA TidyRecon ==
  ASSUME NEW S, S \subseteq Acct, Shapes, Tidy(S), ReconStep
  PROVE  Tidy(S)'
<1>t. recon \in Recons /\ intent \in [Acct -> {"none", "fresh", "old"}]
  BY DEF Shapes
<1>1. ASSUME \A a \in S : intent'[a] = intent[a], UNCHANGED req,
             recon'.pc \in {"intents", "chase", "orphan", "orphanCall"}
               => recon'.todo \intersect S = {},
             recon'.pc \in {"chase", "orphan", "orphanCall"} => recon'.a \notin S
      PROVE  Tidy(S)'
  BY <1>1 DEF Tidy, Chasing
<1>2. \A a : a \notin S => \A b \in S : CloseIntent(a)[b] = intent[b]
  BY <1>t DEF CloseIntent
<1>3. CASE ReconStart
  <2>1. StaleIntents \intersect S = {}
    BY DEF StaleIntents, Tidy
  <2> QED BY <1>1, <1>3, <2>1 DEF ReconStart, Recon
<1>4. CASE ReconIntent
  <2>1. PICK a \in recon.todo :
          \/ intent' = CloseIntent(a) /\ recon' = Recon("intents", recon.todo \ {a})
          \/ intent' = intent /\ recon' = ReconOn("chase", recon.todo \ {a}, a, panel[a])
    BY <1>4 DEF ReconIntent
  <2>2. a \notin S /\ recon.todo \intersect S = {}
    BY <1>4, <2>1 DEF ReconIntent, Tidy, Chasing
  <2>3. UNCHANGED req
    BY <1>4 DEF ReconIntent
  <2> QED BY <1>1, <1>2, <2>1, <2>2, <2>3 DEF Recon, ReconOn
<1>5. CASE ReconChases
  <2>0. recon.pc = "chase" /\ UNCHANGED req
    BY <1>5 DEF ReconChases
  <2>1. recon.a \notin S /\ recon.todo \intersect S = {}
    BY <2>0 DEF Tidy, Chasing
  <2>2. [recon EXCEPT !.pc = "orphan"] = ReconOn("orphan", recon.todo, recon.a, recon.see)
    BY <1>t, <2>0, ReconMoves
  <2>3. \/ intent' = intent /\ recon' = ReconOn("orphan", recon.todo, recon.a, recon.see)
        \/ intent' \in {intent, CloseIntent(recon.a)} /\ recon' = Recon("intents", recon.todo)
    BY <1>5, <2>2 DEF ReconChases
  <2> QED BY <1>1, <1>2, <2>0, <2>1, <2>3 DEF Recon, ReconOn
<1>6. CASE ReconAsks
  <2>0. recon.pc \in {"orphan", "repair"} /\ UNCHANGED <<req, intent>>
    BY <1>6 DEF ReconAsks
  <2>2. recon' = ReconOn(IF recon.pc = "orphan" THEN "orphanCall" ELSE "repairCall",
                         recon.todo, recon.a, recon.see)
    BY <1>t, <1>6, <2>0, ReconMoves DEF ReconAsks
  <2> QED BY <1>1, <2>0, <2>2 DEF ReconOn, Tidy, Chasing
<1>7. CASE ReconAnswered
  <2>1. CASE recon.pc = "orphanCall"
    <3>1. recon.a \notin S /\ recon.todo \intersect S = {}
      BY <2>1 DEF Tidy, Chasing
    <3>2. intent' \in {intent, CloseIntent(recon.a)} /\ recon' = Recon("intents", recon.todo)
          /\ UNCHANGED req
      BY <1>7, <2>1 DEF ReconAnswered
    <3> QED BY <1>1, <1>2, <3>1, <3>2 DEF Recon
  <2>2. CASE recon.pc = "repairCall"
    <3>1. intent' = intent /\ recon' = Recon("records", recon.todo) /\ UNCHANGED req
      BY <1>7, <2>2 DEF ReconAnswered
    <3> QED BY <1>1, <3>1 DEF Recon
  <2> QED BY <1>7, <2>1, <2>2 DEF ReconAnswered
<1>8. CASE ReconIntentsDone \/ ReconLooks \/ ReconCompares \/ ReconEnds \/ ReconSaves
  <2>1. UNCHANGED <<req, intent>>
    BY <1>8 DEF ReconIntentsDone, ReconLooks, ReconCompares, ReconEnds, ReconSaves
  <2>2. recon'.pc \notin {"intents", "chase", "orphan", "orphanCall"}
    <3>1. CASE ReconIntentsDone \/ ReconEnds \/ ReconSaves
      BY <3>1 DEF ReconIntentsDone, ReconEnds, ReconSaves, Recon, NoRecon
    <3>2. CASE ReconLooks
      BY <3>2 DEF ReconLooks, Recon, ReconOn
    <3>3. CASE ReconCompares
      BY <3>3 DEF ReconCompares, Recon, ReconOn
    <3> QED BY <1>8, <3>1, <3>2, <3>3
  <2> QED BY <1>1, <2>1, <2>2
<1> QED BY <1>3, <1>4, <1>5, <1>6, <1>7, <1>8 DEF ReconStep

\* The clock ages no intent of those names.
LEMMA TidyTick ==
  ASSUME NEW S, S \subseteq Acct, Shapes, Lives, Tidy(S), Tick,
         Faults \subseteq {"silent"} \/ \A a \in S : ~Live(mem[a])
  PROVE  Tidy(S)'
<1>1. ASSUME NEW a \in S, intent[a] # "none" PROVE intent'[a] = intent[a]
  <2>1. PICK c \in Client : req[c].pc \in {"create", "decorate"} /\ req[c].q.a = a
    BY <1>1 DEF Tidy
  <2>2. req[c] \in Reqs
    BY DEF Shapes
  <2>3. req[c] # Idle /\ req[c].q.op \in {"activate", "trial"}
    BY <2>1, <2>2, ReqShape DEF Makes, Idle
  <2>4. req[c].pc = "decorate" => "slowDecorate" \notin Faults
    BY <2>1 DEF Lives
  <2>5. Creating(a)
    BY <2>1, <2>3, <2>4 DEF Creating
  <2> QED BY <1>1, <2>5 DEF Tick, Shapes
<1>2. ASSUME NEW a \in S, intent[a] = "none" PROVE intent'[a] = intent[a]
  BY <1>2 DEF Tick, Shapes
<1>3. \A a \in S : intent'[a] = intent[a]
  BY <1>1, <1>2
<1>4. UNCHANGED <<req, recon>>
  BY DEF Tick, sweeps
<1> QED BY <1>3, <1>4 DEF Tidy, Chasing

\* Without a crash the journal stays tidy: for every name if nothing worse
\* happens than a call without an answer, and in any case for those that no
\* record of the service ever lives under.
LEMMA TidyStep ==
  ASSUME NEW S, S \subseteq Acct, "crash" \notin Faults, Shapes, MutexHeld, Lives, Tidy(S), [Next]_vars,
         Faults \subseteq {"silent"} \/ \A a \in S : ~Live(mem[a])
  PROVE  Tidy(S)'
<1>d. DOMAIN req = Client
  BY DEF Shapes
<1>1. ASSUME NEW c \in Client, Arrive(c) PROVE Tidy(S)'
  <2>1. PICK q : req' = [req EXCEPT ![c] = [pc |-> "queued", q |-> q]]
    BY <1>1 DEF Arrive
  <2>2. \A d \in Client : req'[d] = req[d] \/ req[d].pc \notin {"create", "decorate"}
    BY <1>1, <1>d, <2>1 DEF Arrive, Idle
  <2> QED BY <1>1, <2>2, TidyFrame DEF Arrive, sweeps
<1>2. ASSUME NEW c \in Client, Serve(c) PROVE Tidy(S)'
  <2>1. CASE Refuse(c) \/ AskFails(c) \/ BulkEnd(c)
    <3>1. req[c].pc \notin {"create", "decorate"}
      BY <2>1 DEF Refuse, AskFails, BulkEnd, Accepts
    <3>2. \A d \in Client : d # c => req'[d] = req[d]
      BY <1>d, <2>1 DEF Refuse, AskFails, BulkEnd, Done
    <3>3. UNCHANGED <<intent, recon>>
      BY <2>1 DEF Refuse, AskFails, BulkEnd, sweeps
    <3> QED BY <3>1, <3>2, <3>3, TidyFrame
  <2>2. CASE StartEnable(c) \/ StartStatus(c) \/ StartDelete(c) \/ BulkAsks(c)
    <3>1. req[c].pc \in {"queued", "bulk"}
      BY <2>2 DEF StartEnable, StartStatus, StartDelete, BulkAsks, Accepts
    <3>2. \A d \in Client : d # c => req'[d] = req[d]
      BY <1>d, <2>2 DEF StartEnable, StartStatus, StartDelete, BulkAsks, Asks
    <3>3. UNCHANGED <<intent, recon>>
      BY <2>2 DEF StartEnable, StartStatus, StartDelete, BulkAsks, sweeps
    <3> QED BY <3>1, <3>2, <3>3, TidyFrame
  <2>3. CASE StartCreate(c)
    <3>1. /\ req[c].pc = "queued" /\ intent' = [intent EXCEPT ![req[c].q.a] = "fresh"]
          /\ UNCHANGED recon
      BY <2>3 DEF StartCreate, Accepts, sweeps
    <3>2. /\ req'[c].pc = "create" /\ req'[c].q = req[c].q
          /\ \A d \in Client : d # c => req'[d] = req[d]
      BY <1>d, <2>3 DEF StartCreate, Asks
    <3>3. ASSUME NEW a \in S, intent'[a] # "none"
          PROVE  /\ intent'[a] = "fresh"
                 /\ \E d \in Client : req'[d].pc \in {"create", "decorate"} /\ req'[d].q.a = a
      <4>1. CASE a = req[c].q.a
        BY <3>1, <3>2, <4>1 DEF Shapes
      <4>2. CASE a # req[c].q.a
        <5>1. intent'[a] = intent[a]
          BY <3>1, <4>2 DEF Shapes
        <5>2. PICK d \in Client : req[d].pc \in {"create", "decorate"} /\ req[d].q.a = a
          BY <3>3, <5>1 DEF Tidy
        <5>3. req'[d] = req[d]
          BY <3>1, <3>2, <5>2
        <5> QED BY <3>3, <5>1, <5>2, <5>3 DEF Tidy
      <4> QED BY <4>1, <4>2
    <3> QED BY <3>1, <3>3 DEF Tidy, Chasing
  <2>4. CASE Created(c)
    <3>1. /\ req[c].pc = "create" /\ UNCHANGED <<intent, recon>>
          /\ req'[c].pc = "decorate" /\ req'[c].q = req[c].q
          /\ \A d \in Client : d # c => req'[d] = req[d]
      BY <1>d, <2>4 DEF Created, sweeps
    <3>2. \A d \in Client : req[d].pc \in {"create", "decorate"} =>
            req'[d].pc \in {"create", "decorate"} /\ req'[d].q = req[d].q
      BY <3>1
    <3> QED BY <3>1, <3>2 DEF Tidy, Chasing
  <2>5. CASE CreateFails(c)
    <3>1. /\ intent' = CloseIntent(req[c].q.a) /\ UNCHANGED recon
          /\ \A d \in Client : d # c => req'[d] = req[d]
      BY <1>d, <2>5 DEF CreateFails, Done, sweeps
    <3> QED BY <3>1, TidyEnds
  <2>6. CASE Finish(c) \/ FinishFails(c)
    <3>1. UNCHANGED recon /\ (\A d \in Client : d # c => req'[d] = req[d]) /\ Finishes(c)
      BY <1>d, <2>6 DEF Finish, FinishFails, Done, sweeps
    <3>2. CASE req[c].pc # "decorate"
      <4>1. UNCHANGED intent /\ req[c].pc # "create"
        BY <2>6, <3>2 DEF Finish, FinishFails, Finishes, Accepts
      <4> QED BY <3>1, <3>2, <4>1, TidyFrame
    <3>3. CASE Finish(c) /\ req[c].pc = "decorate"
      BY <3>1, <3>3, TidyEnds DEF Finish
    <3>4. CASE FinishFails(c)
      <4>1. ~(Faults \subseteq {"silent"}) /\ UNCHANGED intent
        BY <3>4 DEF FinishFails, Fault
      <4>2. req[c].q.a \notin S
        BY <3>1, <4>1, FinishLives
      <4> QED BY <3>1, <4>1, <4>2, TidyEnds
    <3> QED BY <2>6, <3>2, <3>3, <3>4
  <2>7. CASE BulkAnswer(c)
    BY <2>7, TidyFrame DEF BulkAnswer, sweeps
  <2> QED BY <1>2, <2>1, <2>2, <2>3, <2>4, <2>5, <2>6, <2>7 DEF Serve
<1>3. CASE SweepStep
  <2>1. UNCHANGED <<req, intent, recon>>
    BY <1>3 DEF SweepStep, SweepStart, SweepQueues, SweepAsks, SweepAnswered, SweepSaves
  <2> QED BY <2>1, TidyFrame
<1>4. CASE ReconStep
  BY <1>4, TidyRecon
<1>5. CASE Tick
  BY <1>5, TidyTick
<1>6. CASE LateLands \/ LateLost \/ UNCHANGED vars
  <2>1. UNCHANGED <<req, intent, recon>>
    BY <1>6 DEF LateLands, LateLost, vars, sweeps
  <2> QED BY <2>1, TidyFrame
<1>7. ~Crash /\ \A c \in Client : ~CrashInFinish(c)
  BY DEF Crash, CrashInFinish, Fault
<1> QED BY <1>1, <1>2, <1>3, <1>4, <1>5, <1>6, <1>7 DEF Next

\* Nor does the service close or age the intent of a creation under way.
LEMMA BracketStep ==
  ASSUME Faults \subseteq {"silent"}, Shapes, MutexHeld, Lives, Tidy(Acct), Bracketed, [Next]_vars
  PROVE  Bracketed'
<1>t. /\ DOMAIN req = Client /\ req \in [Client -> Reqs]
      /\ recon \in Recons /\ intent \in [Acct -> {"none", "fresh", "old"}]
  BY DEF Shapes
<1>n. \A c \in Client : req[c].pc \in {"create", "decorate"} => req[c].q.a \in Acct
  <2> SUFFICES ASSUME NEW c \in Client, req[c].pc \in {"create", "decorate"}
               PROVE  req[c].q.a \in Acct
    OBVIOUS
  <2>1. req[c] \in Reqs
    BY <1>t
  <2>2. req[c].q \in Requests /\ req[c].q.op \notin Bulk
    BY <2>1, ReqShape DEF Makes, Bulk
  <2> QED BY <2>2, RequestShape
<1>1. ASSUME \A a \in Acct : intent[a] = "fresh" => intent'[a] = "fresh",
             \A c \in Client : \/ req'[c] = req[c]
                               \/ req'[c].pc \notin {"create", "decorate"}
      PROVE  Bracketed'
  BY <1>1, <1>n DEF Bracketed
<1>2. ASSUME NEW c \in Client, Turn(c), \A d \in Client : d # c => req'[d] = req[d],
             req'[c].pc \in {"create", "decorate"} => intent'[req'[c].q.a] = "fresh"
      PROVE  Bracketed'
  <2>1. \A d \in Client : d # c => req'[d].pc \in {"idle", "queued"}
    BY <1>2, OthersWait
  <2> QED BY <1>2, <2>1 DEF Bracketed
<1>3. ASSUME NEW c \in Client, Arrive(c) PROVE Bracketed'
  <2>1. PICK q : req' = [req EXCEPT ![c] = [pc |-> "queued", q |-> q]]
    BY <1>3 DEF Arrive
  <2>2. \A d \in Client : req'[d] = req[d] \/ req'[d].pc \notin {"create", "decorate"}
    BY <1>t, <2>1
  <2> QED BY <1>1, <1>3, <2>2 DEF Arrive
<1>4. ASSUME NEW c \in Client, Serve(c) PROVE Bracketed'
  <2>1. CASE Refuse(c) \/ CreateFails(c) \/ AskFails(c) \/ Finish(c) \/ FinishFails(c) \/ BulkEnd(c)
    <3>1. Turn(c) /\ Done(c)
      BY <2>1 DEF Refuse, CreateFails, AskFails, Finish, FinishFails, Finishes, BulkEnd, Accepts
    <3>2. req'[c].pc = "idle" /\ \A d \in Client : d # c => req'[d] = req[d]
      BY <1>t, <3>1 DEF Done, Idle
    <3> QED BY <1>2, <3>1, <3>2
  <2>2. CASE StartEnable(c) \/ StartStatus(c) \/ StartDelete(c) \/ BulkAsks(c)
    <3>1. /\ Turn(c) /\ req'[c].pc \in {"enable", "status", "delete", "bulk"}
          /\ \A d \in Client : d # c => req'[d] = req[d]
      BY <1>t, <2>2 DEF StartEnable, StartStatus, StartDelete, BulkAsks, Accepts, Asks
    <3> QED BY <1>2, <3>1
  <2>3. CASE StartCreate(c)
    <3>1. /\ Turn(c) /\ req[c].pc = "queued" /\ req[c].q.op \in Makes
          /\ intent' = [intent EXCEPT ![req[c].q.a] = "fresh"]
      BY <2>3 DEF StartCreate, Accepts, Makes
    <3>2. req'[c].q = req[c].q /\ \A d \in Client : d # c => req'[d] = req[d]
      BY <1>t, <2>3 DEF StartCreate, Asks
    <3>3. req[c].q.a \in Acct
      <4>1. req[c].q \in Requests /\ req[c].q.op \notin Bulk
        BY <1>t, <3>1, ReqShape DEF Makes, Bulk
      <4> QED BY <4>1, RequestShape
    <3>4. intent'[req[c].q.a] = "fresh"
      BY <1>t, <3>1, <3>3
    <3> QED BY <1>2, <3>1, <3>2, <3>4
  <2>4. CASE Created(c)
    <3>1. /\ Turn(c) /\ req[c].pc = "create" /\ UNCHANGED intent /\ req'[c].q = req[c].q
          /\ \A d \in Client : d # c => req'[d] = req[d]
      BY <1>t, <2>4 DEF Created
    <3> QED BY <1>2, <3>1 DEF Bracketed
  <2>5. CASE BulkAnswer(c)
    BY <1>1, <2>5 DEF BulkAnswer
  <2> QED BY <1>4, <2>1, <2>2, <2>3, <2>4, <2>5 DEF Serve
<1>5. CASE SweepStep
  <2>1. UNCHANGED <<req, intent>>
    BY <1>5 DEF SweepStep, SweepStart, SweepQueues, SweepAsks, SweepAnswered, SweepSaves
  <2> QED BY <1>1, <2>1
<1>6. CASE ReconStep
  <2>0. UNCHANGED req
    BY <1>6 DEF ReconStep, ReconStart, ReconIntent, ReconChases, ReconIntentsDone, ReconLooks,
       ReconCompares, ReconAsks, ReconAnswered, ReconEnds, ReconSaves
  <2>1. Chasing => recon.todo = {}
    BY <1>t, ReconShape DEF Tidy, Chasing
  <2>2. recon.pc \notin {"chase", "orphan", "orphanCall"}
    BY <1>t, ReconShape DEF Tidy
  <2>3. UNCHANGED intent
    BY <1>6, <2>1, <2>2 DEF ReconStep, ReconStart, ReconIntent, ReconChases, ReconIntentsDone,
       ReconLooks, ReconCompares, ReconAsks, ReconAnswered, ReconEnds, ReconSaves, Chasing
  <2> QED BY <1>1, <2>0, <2>3
<1>7. CASE Tick
  <2>1. ASSUME NEW c \in Client, req[c].pc \in {"create", "decorate"}
        PROVE  intent'[req[c].q.a] = "fresh"
    <3>1. req[c] # Idle /\ req[c].q.op \in {"activate", "trial"}
      BY <1>t, <2>1, ReqShape DEF Makes, Idle
    <3>2. Creating(req[c].q.a)
      BY <2>1, <3>1 DEF Creating
    <3>3. intent'[req[c].q.a] = intent[req[c].q.a]
      BY <1>7, <1>n, <2>1, <3>2 DEF Tick
    <3> QED BY <2>1, <3>3 DEF Bracketed
  <2>2. UNCHANGED req
    BY <1>7 DEF Tick
  <2> QED BY <2>1, <2>2 DEF Bracketed
<1>8. CASE LateLands \/ LateLost \/ UNCHANGED vars
  BY <1>1, <1>8 DEF LateLands, LateLost, vars
<1>9. ~Crash /\ \A c \in Client : ~CrashInFinish(c)
  BY DEF Crash, CrashInFinish, Fault
<1> QED BY <1>3, <1>4, <1>5, <1>6, <1>7, <1>8, <1>9 DEF Next

\* A creation that is not committed is in the journal, with two sweeps and any
\* number of requests beside it, as long as nothing worse happens than a call
\* that gets no answer (accounts.js:51-53).  An intent that a crash or a failed
\* append left behind, and that the reconcile sweep has in hand, takes the
\* intent of the next creation of that name with it.
THEOREM JournalSafety == Faults \subseteq {"silent"} => (Spec => []JournalBrackets)
<1> SUFFICES ASSUME Faults \subseteq {"silent"} PROVE Spec => []JournalBrackets
  OBVIOUS
<1>1. Init => Tidy(Acct) /\ Bracketed
  BY DEF Init, Tidy, Bracketed, Chasing, NoRecon, Idle
<1>2. Shapes /\ MutexHeld /\ LifeInv /\ Tidy(Acct) /\ Bracketed /\ [Next]_vars
        => Tidy(Acct)' /\ Bracketed'
  BY TidyStep, BracketStep DEF LifeInv
<1>3. Bracketed => JournalBrackets
  BY DEF Bracketed, JournalBrackets
<1> QED BY <1>1, <1>2, <1>3, LifeInvariant, PTL DEF Spec

-----------------------------------------------------------------------------
(* The users of others.                                                    *)

\* What the service does at the panel to a user that is not its own: it tries
\* to make it, which the panel rejects.
Spared(k) == k.a \in Foreign => k.eff = "create"

\* The service has no record of such a user, and neither sweep has it in hand.
SparesForeign ==
  /\ ForeignUntouched
  /\ \A a \in Foreign : ~Live(mem[a])
  /\ call # NoCall => Spared(call)
  /\ \A k \in late : Spared(k)
  /\ \A w \in SweepWork : w[1] \notin Foreign
  /\ recon.pc = "compare" => recon.a[1] \notin Foreign
  /\ recon.pc \in {"orphan", "orphanCall", "repair", "repairCall"} => recon.a \notin Foreign

ForeignInv ==
  /\ SparesForeign
  /\ "crash" \notin Faults => Tidy(Foreign)

\* Whatever a call of the service comes to, those users are left as they are.
LEMMA SparedWire ==
  ASSUME Shapes, SparesForeign, PanelDoes \/ PanelRejects \/ PanelSilent \/ UNCHANGED wire
  PROVE  /\ ForeignUntouched' /\ (call' # NoCall => Spared(call')) /\ (\A k \in late' : Spared(k))
         /\ PanelDoes => call.a \notin Foreign
<1>f. Foreign \subseteq Acct /\ panel \in [Acct -> States]
  BY SetAssumption DEF Shapes
<1>1. CASE PanelDoes
  <2>1. call # NoCall /\ panel' = After(call) /\ call' = NoCall /\ late' = late /\ ~Rejected(call)
    BY <1>1 DEF PanelDoes
  <2>2. call.a \notin Foreign
    <3>1. ASSUME call.a \in Foreign PROVE FALSE
      <4>1. call.eff = "create" /\ panel[call.a] = "active"
        BY <2>1, <3>1 DEF SparesForeign, Spared, ForeignUntouched
      <4> QED BY <2>1, <4>1 DEF Rejected
    <3> QED BY <3>1
  <2>3. \A a \in Foreign : panel'[a] = panel[a]
    BY <1>f, <2>1, <2>2 DEF After
  <2> QED BY <2>1, <2>2, <2>3 DEF SparesForeign, ForeignUntouched
<1>2. CASE PanelRejects
  BY <1>2 DEF PanelRejects, PanelDoes, Rejected, SparesForeign, ForeignUntouched
<1>3. CASE PanelSilent
  <2>1. call # NoCall /\ late' = late \union {call} /\ call' = NoCall /\ panel' = panel
    BY <1>3 DEF PanelSilent
  <2>2. PanelDoes => call.a \notin Foreign
    BY <1>1
  <2> QED BY <2>1, <2>2 DEF SparesForeign, ForeignUntouched
<1>4. CASE UNCHANGED wire
  <2>2. PanelDoes => call.a \notin Foreign
    BY <1>1
  <2> QED BY <1>4, <2>2 DEF wire, SparesForeign, ForeignUntouched
<1> QED BY <1>1, <1>2, <1>3, <1>4

\* Every step spares the users of others.
LEMMA SpareStep ==
  ASSUME Shapes, MutexHeld, Calling, Lives, ForeignInv, [Next]_vars,
         "crash" \notin Faults \/ ~Repair
  PROVE  SparesForeign'
<1>f. Foreign \subseteq Acct
  BY SetAssumption
<1>t. /\ DOMAIN req = Client /\ req \in [Client -> Reqs] /\ mem \in [Acct -> Records]
      /\ sweep \in Sweeps /\ recon \in Recons /\ panel \in [Acct -> States]
  BY DEF Shapes
<1>s. SparesForeign /\ ForeignUntouched /\ \A a \in Foreign : ~Live(mem[a]) /\ ~Live(disk[a])
  BY <1>f DEF ForeignInv, SparesForeign, Lives
<1>0. ASSUME PanelDoes \/ PanelRejects \/ PanelSilent \/ UNCHANGED wire,
             \A a \in Foreign : ~Live(mem'[a]), UNCHANGED sweeps
      PROVE  SparesForeign'
  <2>1. ForeignUntouched' /\ (call' # NoCall => Spared(call')) /\ (\A k \in late' : Spared(k))
    BY <1>0, <1>s, SparedWire
  <2> QED BY <1>0, <1>s, <2>1 DEF SparesForeign, SweepWork, sweeps
<1>1. ASSUME UNCHANGED <<mem, panel, late, sweeps>>, call' # NoCall => Spared(call')
      PROVE  SparesForeign'
  BY <1>1, <1>s DEF SparesForeign, ForeignUntouched, SweepWork, sweeps
<1>2. ASSUME NEW c \in Client, Arrive(c) PROVE SparesForeign'
  BY <1>0, <1>2, <1>s DEF Arrive
<1>3. ASSUME NEW c \in Client, Serve(c) PROVE SparesForeign'
  <2>1. CASE Refuse(c) \/ CreateFails(c) \/ AskFails(c) \/ BulkEnd(c)
    BY <1>0, <1>s, <2>1 DEF Refuse, CreateFails, AskFails, BulkEnd
  <2>2. CASE StartCreate(c)
    <3>1. call' = Call(req[c].q.a, "create") /\ UNCHANGED <<mem, panel, late, sweeps>>
      BY <2>2 DEF StartCreate, Asks
    <3> QED BY <1>1, <3>1 DEF Spared, Call
  <2>3. CASE StartEnable(c) \/ StartStatus(c) \/ StartDelete(c)
    <3>1. /\ Live(mem[req[c].q.a])
          /\ UNCHANGED <<mem, panel, late, sweeps>>
      BY <2>3 DEF StartEnable, StartStatus, StartDelete, Asks, Accepts, Accepted
    <3>2. \E e : call' = Call(req[c].q.a, e)
      BY <2>3 DEF StartEnable, StartStatus, StartDelete, Asks
    <3>3. req[c].q.a \notin Foreign
      BY <1>s, <3>1
    <3> QED BY <1>1, <3>1, <3>2, <3>3 DEF Spared, Call
  <2>4. CASE Created(c)
    <3>1. /\ req[c].pc = "create" /\ PanelDoes /\ UNCHANGED sweeps
          /\ mem' = [mem EXCEPT ![req[c].q.a] = NewRecord(req[c].q)]
      BY <2>4 DEF Created, CreateLands
    <3>2. call.a = req[c].q.a
      BY <3>1 DEF Calling, Call
    <3>3. req[c].q.a \notin Foreign
      BY <1>s, <3>1, <3>2, SparedWire
    <3>4. \A a \in Foreign : mem'[a] = mem[a]
      BY <1>f, <1>t, <3>1, <3>3
    <3> QED BY <1>0, <1>s, <3>1, <3>4
  <2>5. CASE Finish(c) \/ FinishFails(c)
    <3>1. /\ Finishes(c) /\ UNCHANGED sweeps /\ mem' \in {mem, MemAfter(c)}
      BY <2>5 DEF Finish, FinishFails
    <3>2. \A a \in Foreign : ~Live(mem'[a])
      BY <1>f, <1>s, <3>1, FinishLives
    <3>3. PanelDoes \/ PanelRejects \/ PanelSilent \/ UNCHANGED wire
      BY <3>1 DEF Finishes
    <3> QED BY <1>0, <3>1, <3>2, <3>3
  <2>6. CASE BulkAsks(c)
    <3>1. PICK b : Wanting(req[c].q, b) /\ call' = Call(b, Target(req[c].q))
      BY <2>6 DEF BulkAsks
    <3>2. UNCHANGED <<mem, panel, late, sweeps>>
      BY <2>6 DEF BulkAsks
    <3>3. b \notin Foreign
      BY <1>s, <3>1 DEF Wanting
    <3> QED BY <1>1, <3>1, <3>2, <3>3 DEF Spared, Call
  <2>7. CASE BulkAnswer(c)
    <3>1. CASE PanelDoes /\ mem' = [mem EXCEPT ![call.a].status = Target(req[c].q)]
      <4>1. call.a \notin Foreign
        BY <1>s, <3>1, SparedWire
      <4>2. \A a \in Foreign : mem'[a] = mem[a]
        BY <1>f, <1>t, <3>1, <4>1
      <4>3. UNCHANGED sweeps
        BY <2>7 DEF BulkAnswer
      <4> QED BY <1>0, <1>s, <3>1, <4>2, <4>3
    <3>2. CASE (PanelRejects \/ PanelSilent) /\ UNCHANGED mem
      BY <1>0, <1>s, <2>7, <3>2 DEF BulkAnswer
    <3> QED BY <2>7, <3>1, <3>2 DEF BulkAnswer
  <2> QED BY <1>3, <2>1, <2>2, <2>3, <2>4, <2>5, <2>6, <2>7 DEF Serve
<1>4. ASSUME PanelDoes \/ PanelRejects \/ PanelSilent \/ UNCHANGED wire,
             \A a \in Foreign : ~Live(mem'[a]), UNCHANGED recon,
             \A w \in SweepWork' : w \in SweepWork \/ w[1] \notin Foreign
      PROVE  SparesForeign'
  <2>1. ForeignUntouched' /\ (call' # NoCall => Spared(call')) /\ (\A k \in late' : Spared(k))
    BY <1>4, <1>s, SparedWire
  <2> QED BY <1>4, <1>s, <2>1 DEF SparesForeign
<1>5. CASE SweepStep
  <2>1. CASE SweepStart
    <3>1. SweepWork' = Due /\ UNCHANGED <<mem, wire, recon>>
      BY <2>1 DEF SweepStart, SweepWork, Sweep
    <3>2. \A w \in Due : w[1] \notin Foreign
      BY <1>s DEF Due, Live
    <3> QED BY <1>4, <1>s, <3>1, <3>2
  <2>2. CASE SweepQueues \/ SweepSaves
    <3>1. SweepWork' \subseteq SweepWork
      BY <2>2, SweepShrinks
    <3> QED BY <1>4, <1>s, <2>2, <3>1 DEF SweepQueues, SweepSaves
  <2>3. CASE SweepAsks
    <3>1. SweepWork' \subseteq SweepWork
      BY <2>3, SweepShrinks
    <3>2. <<sweep.a, sweep.id>> \in SweepWork
      BY <2>3 DEF SweepAsks, SweepWork
    <3>3. sweep.a \notin Foreign
      BY <1>s, <3>2 DEF SparesForeign
    <3>4. UNCHANGED <<mem, panel, late, recon>> /\ Spared(call')
      BY <2>3, <3>3 DEF SweepAsks, Spared, Call
    <3> QED BY <1>s, <3>1, <3>4 DEF SparesForeign, ForeignUntouched
  <2>4. CASE SweepAnswered
    <3>1. SweepWork' \subseteq SweepWork
      BY <2>4, SweepShrinks
    <3>2. <<sweep.a, sweep.id>> \in SweepWork
      BY <2>4 DEF SweepAnswered, SweepWork
    <3>3. sweep.a \notin Foreign
      BY <1>s, <3>2 DEF SparesForeign
    <3>4. mem' = mem \/ mem' = [mem EXCEPT ![sweep.a].status = "disabled"]
      BY <2>4 DEF SweepAnswered, Disabled, Kept
    <3>5. \A a \in Foreign : mem'[a] = mem[a]
      BY <1>f, <1>t, <3>3, <3>4
    <3>6. (PanelDoes \/ PanelRejects \/ PanelSilent) /\ UNCHANGED recon
      BY <2>4 DEF SweepAnswered
    <3> QED BY <1>4, <1>s, <3>1, <3>5, <3>6
  <2> QED BY <1>5, <2>1, <2>2, <2>3, <2>4 DEF SweepStep
<1>6. ASSUME PanelDoes \/ PanelRejects \/ PanelSilent \/ UNCHANGED wire, UNCHANGED <<mem, sweep>>,
             recon'.pc = "compare" => recon'.a[1] \notin Foreign,
             recon'.pc \in {"orphan", "orphanCall", "repair", "repairCall"} => recon'.a \notin Foreign
      PROVE  SparesForeign'
  <2>1. ForeignUntouched' /\ (call' # NoCall => Spared(call')) /\ (\A k \in late' : Spared(k))
    BY <1>6, <1>s, SparedWire
  <2> QED BY <1>6, <1>s, <2>1 DEF SparesForeign, SweepWork
<1>7. CASE ReconStep
  <2>0. UNCHANGED <<mem, sweep>>
    BY <1>7 DEF ReconStep, ReconStart, ReconIntent, ReconChases, ReconIntentsDone, ReconLooks,
       ReconCompares, ReconAsks, ReconAnswered, ReconEnds, ReconSaves
  <2>1. CASE ReconStart \/ ReconIntent \/ ReconIntentsDone \/ ReconEnds \/ ReconSaves
    <3>1. recon'.pc \in {"intents", "chase", "records", "save", "idle"} /\ UNCHANGED wire
      <4>1. CASE ReconIntent
        BY <4>1 DEF ReconIntent, Recon, ReconOn
      <4>2. CASE ReconStart \/ ReconIntentsDone \/ ReconEnds \/ ReconSaves
        BY <4>2 DEF ReconStart, ReconIntentsDone, ReconEnds, ReconSaves, Recon, NoRecon
      <4> QED BY <2>1, <4>1, <4>2
    <3> QED BY <1>6, <2>0, <3>1
  <2>2. CASE ReconChases
    <3>1. [recon EXCEPT !.pc = "orphan"] = ReconOn("orphan", recon.todo, recon.a, recon.see)
      BY <1>t, <2>2, ReconMoves DEF ReconChases
    <3>2. /\ recon.pc = "chase" /\ UNCHANGED wire
          /\ \/ Repair /\ recon' = ReconOn("orphan", recon.todo, recon.a, recon.see)
             \/ recon' = Recon("intents", recon.todo)
      BY <2>2, <3>1 DEF ReconChases
    <3>3. Repair => recon.a \notin Foreign
      BY <3>2 DEF ForeignInv, Tidy
    <3> QED BY <1>6, <2>0, <3>2, <3>3 DEF Recon, ReconOn
  <2>3. CASE ReconLooks
    <3>1. PICK w \in recon.todo :
            \/ Live(Held(w[1], w[2]))
               /\ recon' = ReconOn("compare", recon.todo \ {w}, w, panel[w[1]])
            \/ recon' = Recon("records", recon.todo \ {w})
      BY <2>3 DEF ReconLooks, Checked
    <3>2. Live(Held(w[1], w[2])) => w[1] \notin Foreign
      BY <1>s DEF Held, NoRecord, Live
    <3> QED BY <1>6, <2>0, <2>3, <3>1, <3>2 DEF ReconLooks, Recon, ReconOn
  <2>4. CASE ReconCompares
    <3>1. recon.a[1] \notin Foreign
      BY <1>s, <2>4 DEF ReconCompares, SparesForeign
    <3>2. \/ \E want : recon' = ReconOn("repair", recon.todo, recon.a[1], want)
          \/ recon' = Recon("records", recon.todo)
      BY <2>4 DEF ReconCompares
    <3> QED BY <1>6, <2>0, <2>4, <3>1, <3>2 DEF ReconCompares, Recon, ReconOn
  <2>5. CASE ReconAsks
    <3>1. recon.pc \in {"orphan", "repair"} /\ recon.a \notin Foreign
      BY <1>s, <2>5 DEF ReconAsks, SparesForeign
    <3>2. recon' = ReconOn(IF recon.pc = "orphan" THEN "orphanCall" ELSE "repairCall",
                           recon.todo, recon.a, recon.see)
      BY <1>t, <2>5, <3>1, ReconMoves DEF ReconAsks
    <3>3. UNCHANGED <<panel, late>> /\ Spared(call')
      BY <2>5, <3>1 DEF ReconAsks, Spared, Call
    <3>4. recon'.pc # "compare" /\ recon'.a \notin Foreign
      BY <3>1, <3>2 DEF ReconOn
    <3> QED BY <1>s, <2>0, <3>3, <3>4 DEF SparesForeign, ForeignUntouched, SweepWork
  <2>6. CASE ReconAnswered
    <3>1. recon'.pc \in {"intents", "records"} /\ (PanelDoes \/ PanelRejects \/ PanelSilent)
      BY <2>6 DEF ReconAnswered, Recon
    <3> QED BY <1>6, <2>0, <3>1
  <2> QED BY <1>7, <2>1, <2>2, <2>3, <2>4, <2>5, <2>6 DEF ReconStep
<1>8. CASE Tick \/ UNCHANGED vars
  BY <1>0, <1>8, <1>s DEF Tick, vars, wire, sweeps
<1>9. CASE LateLands
  <2>1. PICK k \in late : late' = late \ {k} /\ panel' = IF Rejected(k) THEN panel ELSE After(k)
    BY <1>9 DEF LateLands
  <2>2. Spared(k)
    BY <1>s, <2>1 DEF SparesForeign
  <2>3. \A a \in Foreign : panel'[a] = "active"
    <3>1. CASE k.a \in Foreign
      <4>1. Rejected(k)
        BY <1>s, <2>2, <3>1 DEF Spared, Rejected, ForeignUntouched
      <4> QED BY <1>s, <2>1, <4>1 DEF ForeignUntouched
    <3>2. CASE k.a \notin Foreign
      BY <1>f, <1>s, <1>t, <2>1, <3>2 DEF After, ForeignUntouched
    <3> QED BY <3>1, <3>2
  <2>4. UNCHANGED <<mem, call, sweeps>>
    BY <1>9 DEF LateLands
  <2> QED BY <1>s, <2>1, <2>3, <2>4 DEF SparesForeign, ForeignUntouched, SweepWork, sweeps
<1>10. CASE LateLost
  BY <1>10, <1>s DEF LateLost, SparesForeign, ForeignUntouched, SweepWork, sweeps
<1>11. ASSUME Restart, \A a \in Foreign : ~Live(disk'[a]), ForeignUntouched',
              call' # NoCall => Spared(call'), \A k \in late' : Spared(k)
       PROVE  SparesForeign'
  <2>1. SweepWork' = {} /\ recon'.pc = "idle" /\ mem' = disk'
    BY <1>11 DEF Restart, SweepWork, NoSweep, NoRecon
  <2> QED BY <1>11, <2>1 DEF SparesForeign
<1>12. CASE Crash
  <2>1. UNCHANGED <<panel, disk>> /\ call' = NoCall /\ late' \subseteq late \union ({call} \ {NoCall})
    BY <1>12 DEF Crash
  <2>2. \A k \in late' : Spared(k)
    BY <1>s, <2>1 DEF SparesForeign
  <2>3. ForeignUntouched' /\ \A a \in Foreign : ~Live(disk'[a])
    BY <1>s, <2>1 DEF ForeignUntouched
  <2> QED BY <1>11, <1>12, <2>1, <2>2, <2>3 DEF Crash
<1>13. ASSUME NEW c \in Client, CrashInFinish(c) PROVE SparesForeign'
  <2>1. Finishes(c) /\ (disk' = disk \/ disk' = MemAfter(c)) /\ Restart
    BY <1>13 DEF CrashInFinish, LedgerFirst
  <2>2. \A a \in Foreign : ~Live(disk'[a])
    BY <1>f, <1>s, <2>1, FinishLives
  <2>3. PanelDoes \/ PanelRejects \/ PanelSilent \/ UNCHANGED wire
    BY <2>1 DEF Finishes
  <2>4. ForeignUntouched' /\ (call' # NoCall => Spared(call')) /\ (\A k \in late' : Spared(k))
    BY <1>s, <2>3, SparedWire
  <2> QED BY <1>11, <2>1, <2>2, <2>4
<1> QED BY <1>2, <1>3, <1>5, <1>7, <1>8, <1>9, <1>10, <1>12, <1>13 DEF Next

\* Panel users that are not the service's are left alone, whatever is asked of
\* it and however slow, silent or late the panel, unless a crash leaves the
\* intent of a creation the panel would have rejected and RECONCILE_REPAIR is
\* on: then the user is taken for an orphan (sweeps.js:99, "a panel user with
\* an intent but no registry entry is OUR orphan").
THEOREM ForeignSafety ==
  "crash" \notin Faults \/ ~Repair => (Spec => []ForeignUntouched)
<1> SUFFICES ASSUME "crash" \notin Faults \/ ~Repair PROVE Spec => []ForeignUntouched
  OBVIOUS
<1>1. Init => ForeignInv
  <2> SUFFICES ASSUME Init PROVE ForeignInv
    OBVIOUS
  <2>1. SweepWork = {} /\ recon.pc = "idle" /\ call = NoCall /\ late = {}
    BY DEF Init, SweepWork, NoSweep, NoRecon
  <2>2. \A a \in Foreign : panel[a] = "active" /\ ~Live(mem[a]) /\ intent[a] = "none"
    BY SetAssumption DEF Init, NoRecord, Live
  <2> QED BY <2>1, <2>2 DEF ForeignInv, SparesForeign, ForeignUntouched, Tidy, Chasing
<1>2. Shapes /\ MutexHeld /\ LifeInv /\ ForeignInv /\ [Next]_vars => ForeignInv'
  <2> SUFFICES ASSUME Shapes, MutexHeld, LifeInv, ForeignInv, [Next]_vars PROVE ForeignInv'
    OBVIOUS
  <2>1. SparesForeign'
    BY SpareStep DEF LifeInv
  <2>2. ASSUME "crash" \notin Faults PROVE Tidy(Foreign)'
    BY <2>2, SetAssumption, TidyStep DEF LifeInv, ForeignInv, SparesForeign
  <2> QED BY <2>1, <2>2 DEF ForeignInv
<1>3. ForeignInv => ForeignUntouched
  BY DEF ForeignInv, SparesForeign
<1> QED BY <1>1, <1>2, <1>3, LifeInvariant, PTL DEF Spec
===============================================================================
