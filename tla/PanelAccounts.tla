---------------------------- MODULE PanelAccounts ----------------------------
(***************************************************************************)
(* One viewer account of the panel: the record `user/<name>` and the       *)
(* recency map `seen/<name>` of the signed bee, and everybody who rewrites *)
(* them.                                                                   *)
(*                                                                         *)
(*   - the `session` responder (panel/src/rpc.js): reads the record,       *)
(*     decides who holds the device slots, writes it back under a          *)
(*     compare-and-swap on the revision it read, undoes its own write when *)
(*     the record turns out to have been deleted, then stamps the device's *)
(*     day under a second compare-and-swap;                                *)
(*   - the account operations of the admin plane (panel/src/ops.js,        *)
(*     panel/src/packages.js): read the record, change it, put it back     *)
(*     with no comparison at all.                                          *)
(*                                                                         *)
(* Every `await` on the bee is a point where another request may run, so   *)
(* each request is a process whose steps are the stretches between two     *)
(* awaits.  Keys of different accounts never contend, so one account is    *)
(* enough.                                                                 *)
(***************************************************************************)
EXTENDS Integers, FiniteSets

CONSTANTS
  Device,       \* device ids a sign-in may carry
  Stream,       \* channels an account may be granted
  Session,      \* `session` requests that can be in flight at once
  Admin,        \* admin-plane requests that can be in flight at once
  AdminOps,     \* the account operations the admin plane uses
  Policy,       \* devicePolicy: "evict" or "reject"
  DefaultCap,   \* maxDevicesDefault of a new account
  Caps,         \* the values set-max-devices may be given
  MaxTries,     \* MAX_SESSION_CAS_RETRIES
  LegacyUsers,  \* records an older build may have left in the bee
  MaxLen,       \* bound: no request starts once the bee has this many blocks
  MaxDay        \* bound: days that pass

AllOps == {"create", "password", "disable", "enable", "cap", "logout",
           "revokeDevice", "regrant", "delete"}

ASSUME OpsAssumption    == AdminOps \subseteq AllOps
ASSUME PolicyAssumption == Policy \in {"evict", "reject"}
ASSUME CapAssumption    == DefaultCap \in Nat \ {0} /\ Caps \subseteq Nat \ {0}
ASSUME BoundAssumption  == MaxTries \in Nat \ {0} /\ MaxLen \in Nat /\ MaxDay \in Nat

-----------------------------------------------------------------------------
(* The data.  A bee node carries the revision that wrote it; `exp` is the  *)
(* expiry an older build stored with an enrolment, 0 when there is none;   *)
(* `auth` numbers the key pair and verifier enroll() mints, from one on.    *)

Entry == [tv : Nat, issued : Nat, exp : Nat]

IsDevices(f) ==
  DOMAIN f \subseteq Device /\ IsFiniteSet(DOMAIN f) /\ f \in [DOMAIN f -> Entry]

IsUser(u) ==
  /\ u = [auth |-> u.auth, status |-> u.status, tv |-> u.tv, max |-> u.max,
          devices |-> u.devices, grants |-> u.grants]
  /\ u.auth \in Nat /\ u.tv \in Nat /\ u.max \in Nat \ {0}
  /\ u.status \in {"active", "disabled"}
  /\ IsDevices(u.devices) /\ u.grants \subseteq Stream

ASSUME LegacyAssumption == \A u \in LegacyUsers : IsUser(u) /\ u.auth # 0

IsSeen(m) == DOMAIN m \subseteq Device /\ m \in [DOMAIN m -> Nat]

NoNode == [seq |-> 0]

IsNode(n)     == n = [val |-> n.val, seq |-> n.seq] /\ n.seq \in Nat \ {0}
IsUserNode(n) == n = NoNode \/ (IsNode(n) /\ IsUser(n.val))
IsSeenNode(n) == n = NoNode \/ (IsNode(n) /\ IsSeen(n.val))

NoDevices == [d \in {} |-> 0]

\* The map readSeen() answers for a node: a missing key reads as empty.
SeenOf(node) == IF node = NoNode THEN NoDevices ELSE node.val

VARIABLES
  user,      \* the node at `user/<name>`
  seen,      \* the node at `seen/<name>`
  len,       \* the revision the next append gets
  day,       \* Date.now() in days
  sess,      \* the `session` requests in flight
  adm,       \* the admin-plane requests in flight
  tokens,    \* session tokens handed out
  warned,    \* the key pairs a RESURRECTED warning was logged about
  lastGen,   \* the number of the key pair minted last
  deadGen,   \* the newest key pair whose account was deleted
  stamped    \* devices stamped since they were enrolled

vars == <<user, seen, len, day, sess, adm, tokens, warned, lastGen, deadGen, stamped>>

Idle    == [pc |-> "idle"]
AdmIdle == [op |-> "idle"]

Init ==
  /\ \E u \in LegacyUsers : user = [val |-> u, seq |-> 1]
  /\ seen = NoNode
  /\ len = 2 /\ day = 1
  /\ sess = [c \in Session |-> Idle]
  /\ adm = [a \in Admin |-> AdmIdle]
  /\ tokens = {} /\ warned = {}
  /\ lastGen = user.val.auth /\ deadGen = 0 /\ stamped = {}

\* A put of the account record: a new revision, appended.
PutUser(val) ==
  /\ user' = [val |-> val, seq |-> len]
  /\ len' = len + 1
  /\ stamped' = stamped \intersect DOMAIN val.devices

DelUser ==
  /\ user' = NoNode
  /\ len' = len + 1
  /\ stamped' = {}

-----------------------------------------------------------------------------
(* The device decision of the session responder, a function of the record, *)
(* the recency map, the day and the device that signs in.                  *)

\* Entries that have not lapsed, with the legacy expiry stripped.
Current(devs, now) ==
  [d \in {x \in DOMAIN devs : devs[x].exp = 0 \/ devs[x].exp > now}
     |-> [devs[d] EXCEPT !.exp = 0]]

\* The last day a device was seen; its enrolment day when it has no stamp.
LastSeenDay(devs, map, d) == IF d \in DOMAIN map THEN map[d] ELSE devs[d].issued

\* The sets dropStale may leave: n devices removed, least recently seen
\* first, never one of `keep`.  Which of two devices enrolled on one day and
\* never seen goes first is the millisecond order of their enrolment, which
\* days do not tell apart: either may.
Survivors(devs, map, n, keep) ==
  {S \in SUBSET DOMAIN devs :
     /\ keep \subseteq S
     /\ Cardinality(S) = Cardinality(DOMAIN devs) - n
     /\ \A out \in DOMAIN devs \ S, in \in S \ keep :
          LastSeenDay(devs, map, out) <= LastSeenDay(devs, map, in)}

Only(devs, S) == [d \in DOMAIN devs \intersect S |-> devs[d]]

Excess(n) == IF n > 0 THEN n ELSE 0

\* How many devices are over the limit, and how many make room for one more.
Overfull(devs, cap)      == Excess(Cardinality(DOMAIN devs) - cap)
NoRoomMade(devs, cap) == Excess(Cardinality(DOMAIN devs) - cap)
RoomNeeded(devs, cap) == Excess(Cardinality(DOMAIN devs) - cap + 1)

FreshEntry(tv, now) == [tv |-> tv, issued |-> now, exp |-> 0]

\* A sign-in on a record already trimmed to its cap: heal the device's own
\* entry, refuse it, or enrol it in a free or an evicted slot.
Admissions(val, devs, map, now, d) ==
  LET full  == Cardinality(DOMAIN devs) >= val.max
      fresh == FreshEntry(val.tv, now)
  IN IF d \in DOMAIN devs
     THEN {[devices |-> [devs EXCEPT ![d].tv = val.tv], refused |-> FALSE]}
     ELSE IF full /\ Policy = "reject"
     THEN {[devices |-> devs, refused |-> TRUE]}
     ELSE {[devices |-> [x \in S \union {d} |-> IF x = d THEN fresh ELSE devs[x]],
            refused |-> FALSE]
             : S \in Survivors(devs, map, RoomNeeded(devs, val.max), {})}

Decisions(val, map, now, d) ==
  LET live == Current(val.devices, now)
      keep == {d} \intersect DOMAIN live
      over == Overfull(live, val.max)
  IN UNION {Admissions(val, Only(live, S), map, now, d)
              : S \in Survivors(live, map, over, keep)}

-----------------------------------------------------------------------------
(* The session responder.  A request that is refused on what it read       *)
(* (unknown user, disabled, bad signature) changes nothing, so only the    *)
(* accepted ones appear below.                                             *)

SessionUnchanged == UNCHANGED <<day, adm, lastGen, deadGen>>

\* The first read: the account exists, is active, and the sign-in proves
\* the credentials of the record as read.
SessionRead(c, d) ==
  /\ sess[c] = Idle /\ len < MaxLen
  /\ user # NoNode
  /\ user.val.status = "active"
  /\ sess' = [sess EXCEPT ![c] = [pc |-> "decide", dev |-> d,
                                  now |-> day, base |-> user, tries |-> 0]]
  /\ UNCHANGED <<user, seen, len, tokens, warned, stamped>> /\ SessionUnchanged

\* The enrolment is settled: on to the day stamp.
Settled(s, devs, map) ==
  [pc |-> "stamp", dev |-> s.dev, now |-> s.now,
   tv |-> s.base.val.tv, enrolled |-> DOMAIN devs, map |-> map, tries |-> 0]

\* The record the responder puts: the one it read, with the slots it decided.
WithDevices(val, devs) == [val EXCEPT !.devices = devs]

\* readSeen() answers and the responder decides.  Nothing to change: no block
\* is appended.  A refusal that still repairs the record writes it first.
SessionDecide(c) ==
  /\ sess[c].pc = "decide"
  /\ LET s == sess[c] IN
     \E r \in Decisions(s.base.val, SeenOf(seen), s.now, s.dev) :
       sess' = [sess EXCEPT ![c] =
         IF r.devices # s.base.val.devices
         THEN [pc |-> "put", dev |-> s.dev, now |-> s.now,
               base |-> s.base, tries |-> s.tries, map |-> seen,
               next |-> WithDevices(s.base.val, r.devices),
               refused |-> r.refused]
         ELSE IF r.refused THEN Idle
         ELSE Settled(s, r.devices, seen)]
  /\ UNCHANGED <<user, seen, len, tokens, warned, stamped>> /\ SessionUnchanged

\* The comparison the bee makes under its write lock: the record is still
\* the revision the decision was made on.
PlainPut(c)  == TRUE
SameRevision(c) == user.seq = sess[c].base.seq

SessionPutWins(c) ==
  /\ sess[c].pc = "put"
  /\ user # NoNode /\ SameRevision(c)
  /\ PutUser(sess[c].next)
  /\ sess' = [sess EXCEPT ![c] =
       IF sess[c].refused THEN Idle
       ELSE Settled(sess[c], sess[c].next.devices, sess[c].map)]
  /\ UNCHANGED <<seen, tokens, warned>> /\ SessionUnchanged

\* Somebody wrote first: read again and redo the decision, or answer `busy`.
AfterLoss(s) ==
  IF s.tries + 1 >= MaxTries THEN Idle
  ELSE [pc |-> "reread", dev |-> s.dev, now |-> s.now, base |-> s.base,
        tries |-> s.tries + 1]

SessionPutLoses(c) ==
  /\ sess[c].pc = "put"
  /\ user # NoNode /\ ~SameRevision(c)
  /\ sess' = [sess EXCEPT ![c] = AfterLoss(sess[c])]
  /\ UNCHANGED <<user, seen, len, tokens, warned, stamped>> /\ SessionUnchanged

FreshBase(s) == user

\* The second and later reads.  Existence and status are looked at again;
\* the signature, verified against the first record, is not.
SessionReread(c) ==
  /\ sess[c].pc = "reread"
  /\ LET s == sess[c] IN
     sess' = [sess EXCEPT ![c] =
       IF user # NoNode /\ user.val.status = "active"
       THEN [pc |-> "decide", dev |-> s.dev, now |-> s.now,
             base |-> FreshBase(s), tries |-> s.tries]
       ELSE Idle]
  /\ UNCHANGED <<user, seen, len, tokens, warned, stamped>> /\ SessionUnchanged

\* The key is gone, so the bee never consulted the comparison and the put
\* inserted a deleted account again.
AfterInsert(s) == [pc |-> "undo", mine |-> s.next]

SessionPutInserts(c) ==
  /\ sess[c].pc = "put"
  /\ user = NoNode
  /\ PutUser(sess[c].next)
  /\ sess' = [sess EXCEPT ![c] = AfterInsert(sess[c])]
  /\ UNCHANGED <<seen, tokens, warned>> /\ SessionUnchanged

\* The undo deletes the record only while it is what this request wrote;
\* otherwise it stands down, with a warning when the key pair is the same.
PlainDel(c)  == TRUE
StillMine(c) == user.val = sess[c].mine

SessionUndo(c) ==
  /\ sess[c].pc = "undo"
  /\ IF user # NoNode /\ StillMine(c)
     THEN DelUser /\ UNCHANGED warned
     ELSE /\ warned' = IF user # NoNode /\ user.val.auth = sess[c].mine.auth
                       THEN warned \union {user.val.auth} ELSE warned
          /\ UNCHANGED <<user, len, stamped>>
  /\ sess' = [sess EXCEPT ![c] = Idle]
  /\ UNCHANGED <<seen, tokens>> /\ SessionUnchanged

Token(s) == [dev |-> s.dev, tv |-> s.tv]

\* Entries of the map that stay: when some entry names a device outside the
\* enrolment this request settled on, the record is read again to decide.
OwnSnapshot(s) == s.enrolled
StampedDevices(s) ==
  IF DOMAIN SeenOf(s.map) \subseteq s.enrolled THEN s.enrolled
  ELSE IF user = NoNode THEN {} ELSE DOMAIN user.val.devices

NextSeen(s) ==
  LET map == SeenOf(s.map) IN
  [d \in (DOMAIN map \intersect StampedDevices(s)) \union {s.dev} |->
     IF d = s.dev THEN s.now ELSE map[d]]

\* Build the new map; when it says nothing new the token goes out at once.
SessionStamp(c) ==
  /\ sess[c].pc = "stamp"
  /\ LET s == sess[c] IN
     IF NextSeen(s) = SeenOf(s.map)
     THEN /\ sess' = [sess EXCEPT ![c] = Idle]
          /\ tokens' = tokens \union {Token(s)}
     ELSE /\ sess' = [sess EXCEPT ![c] =
               [pc |-> "stampPut", dev |-> s.dev, now |-> s.now,
                tv |-> s.tv, enrolled |-> s.enrolled, map |-> s.map,
                tries |-> s.tries, next |-> NextSeen(s)]]
          /\ UNCHANGED tokens
  /\ UNCHANGED <<user, seen, len, warned, stamped>> /\ SessionUnchanged

\* The put of the map lands: on the revision it was read at, or on no key.
StampLands(s) == seen = NoNode \/ seen.seq = s.map.seq

\* Landing on a key that vanished since it was read does not end the loop.
StampDone(s) ==
  \/ seen # NoNode /\ seen.seq = s.map.seq
  \/ seen = NoNode /\ s.map = NoNode

SessionStampPut(c) ==
  /\ sess[c].pc = "stampPut"
  /\ LET s == sess[c] IN
     /\ IF StampLands(s)
        THEN /\ seen' = [val |-> s.next, seq |-> len]
             /\ len' = len + 1
             /\ stamped' = IF user = NoNode THEN {}
                           ELSE (stamped \union {s.dev}) \intersect DOMAIN user.val.devices
        ELSE UNCHANGED <<seen, len, stamped>>
     /\ IF StampDone(s) \/ s.tries + 1 >= MaxTries
        THEN /\ sess' = [sess EXCEPT ![c] = Idle]
             /\ tokens' = tokens \union {Token(s)}
        ELSE /\ sess' = [sess EXCEPT ![c] =
                  [pc |-> "reseen", dev |-> s.dev, now |-> s.now,
                   tv |-> s.tv, enrolled |-> s.enrolled, tries |-> s.tries + 1]]
             /\ UNCHANGED tokens
  /\ UNCHANGED <<user, warned>> /\ SessionUnchanged

SessionReseen(c) ==
  /\ sess[c].pc = "reseen"
  /\ LET s == sess[c] IN
     sess' = [sess EXCEPT ![c] =
       [pc |-> "stamp", dev |-> s.dev, now |-> s.now, tv |-> s.tv,
        enrolled |-> s.enrolled, map |-> seen, tries |-> s.tries]]
  /\ UNCHANGED <<user, seen, len, tokens, warned, stamped>> /\ SessionUnchanged

-----------------------------------------------------------------------------
(* The admin plane.  Every operation reads the record, and later puts back *)
(* the record it read with its own change applied: a plain put.            *)

AdminUnchanged == UNCHANGED <<day, sess, tokens, warned>>

\* What an operation may be asked to do to the record it reads.  `regrant`
\* stands for grant, revoke, set-packages and the bulk package reconcile:
\* each leaves another grant set, and the reconcile puts only then.
Requests ==
  [op : AdminOps \intersect {"create", "password", "disable", "enable", "logout", "delete"}]
  \union [op : AdminOps \intersect {"cap"}, max : Caps]
  \union [op : AdminOps \intersect {"revokeDevice"}, dev : Device]
  \union [op : AdminOps \intersect {"regrant"}, grants : SUBSET Stream]

\* exists / not-found: the checks made on the record as read.
Accepts(r) ==
  /\ (r.op = "create") <=> (user = NoNode)
  /\ r.op = "revokeDevice" => r.dev \in DOMAIN user.val.devices
  /\ r.op = "regrant" => r.grants # user.val.grants

AdminRead(a, r) ==
  /\ adm[a] = AdmIdle /\ len < MaxLen
  /\ Accepts(r)
  /\ adm' = [adm EXCEPT ![a] = [op |-> r.op, req |-> r, base |-> user]]
  /\ UNCHANGED <<user, seen, len, lastGen, deadGen, stamped>> /\ AdminUnchanged

NewAccount(gen) ==
  [auth |-> gen, status |-> "active", tv |-> 1, max |-> DefaultCap,
   devices |-> NoDevices, grants |-> {}]

\* Sign every session out: no enrolment left, and the next token version.
NextVersion(u) == [u EXCEPT !.tv = @ + 1]
SignOut(u)     == [NextVersion(u) EXCEPT !.devices = NoDevices]

SetCap(u, n)    == [u EXCEPT !.max = n]

\* The record an operation puts, from the record it read.
Outcome(r, u, gen) ==
  CASE r.op = "password"     -> [SignOut(u) EXCEPT !.auth = gen]
    [] r.op = "disable"      -> [SignOut(u) EXCEPT !.status = "disabled"]
    [] r.op = "enable"       -> [u EXCEPT !.status = "active"]
    [] r.op = "logout"       -> SignOut(u)
    [] r.op = "cap"          -> SetCap(u, r.max)
    [] r.op = "revokeDevice" -> [u EXCEPT !.devices = Only(@, DOMAIN @ \ {r.dev})]
    [] r.op = "regrant"      -> [u EXCEPT !.grants = r.grants]

Minting(op) == op \in {"create", "password"}

AdminWrite(a) ==
  /\ adm[a] # AdmIdle /\ adm[a].op \in AllOps \ {"delete"}
  /\ LET gen == lastGen + 1 IN
     /\ PutUser(IF adm[a].op = "create" THEN NewAccount(gen)
                ELSE Outcome(adm[a].req, adm[a].base.val, gen))
     /\ lastGen' = IF Minting(adm[a].op) THEN gen ELSE lastGen
  /\ adm' = [adm EXCEPT ![a] = AdmIdle]
  /\ UNCHANGED <<seen, deadGen>> /\ AdminUnchanged

\* delete-user removes the record first and the recency map after it.
AdminDelete(a) ==
  /\ adm[a] # AdmIdle /\ adm[a].op = "delete"
  /\ IF user = NoNode THEN UNCHANGED <<user, len, stamped, deadGen>>
     ELSE DelUser /\ deadGen' = lastGen
  /\ adm' = [adm EXCEPT ![a] = [op |-> "deleteSeen"]]
  /\ UNCHANGED <<seen, lastGen>> /\ AdminUnchanged

AdminDeleteSeen(a) ==
  /\ adm[a].op = "deleteSeen"
  /\ IF seen = NoNode THEN UNCHANGED <<seen, len>>
     ELSE seen' = NoNode /\ len' = len + 1
  /\ adm' = [adm EXCEPT ![a] = AdmIdle]
  /\ stamped' = {}
  /\ UNCHANGED <<user, lastGen, deadGen>> /\ AdminUnchanged

Tick ==
  /\ day < MaxDay
  /\ day' = day + 1
  /\ UNCHANGED <<user, seen, len, sess, adm, tokens, warned, lastGen, deadGen, stamped>>

SessionStep(c) ==
  \/ SessionDecide(c) \/ SessionPutWins(c) \/ SessionPutLoses(c) \/ SessionReread(c)
  \/ SessionPutInserts(c) \/ SessionUndo(c)
  \/ SessionStamp(c) \/ SessionStampPut(c) \/ SessionReseen(c)

AdminStep(a) == AdminWrite(a) \/ AdminDelete(a) \/ AdminDeleteSeen(a)

Next ==
  \/ \E c \in Session : (\E d \in Device : SessionRead(c, d)) \/ SessionStep(c)
  \/ \E a \in Admin : (\E r \in Requests : AdminRead(a, r)) \/ AdminStep(a)
  \/ Tick

Spec == Init /\ [][Next]_vars

-----------------------------------------------------------------------------
(* Types. *)

Pcs == {"decide", "put", "reread", "undo", "stamp", "stampPut", "reseen"}

SessionOK(s) ==
  /\ s.pc \in Pcs
  /\ s.pc = "undo" => IsUser(s.mine)
  /\ s.pc # "undo" => /\ s.dev \in Device
                      /\ s.now \in Nat /\ s.tries \in Nat
  /\ s.pc \in {"decide", "put"} => s.base # NoNode /\ IsUserNode(s.base)
  /\ s.pc = "put" => IsUser(s.next) /\ s.refused \in BOOLEAN
  /\ s.pc \in {"put", "stamp", "stampPut"} => IsSeenNode(s.map)
  /\ s.pc \in {"stamp", "stampPut", "reseen"} => s.tv \in Nat /\ s.enrolled \in SUBSET Device
  /\ s.pc = "stampPut" => IsSeen(s.next)

AdminOK(r) ==
  \/ r.op = "deleteSeen"
  \/ /\ r.req \in Requests /\ r.op = r.req.op
     /\ IsUserNode(r.base) /\ (r.base = NoNode <=> r.op = "create")

\* Everything has the shape the code gives it.
TypeOK ==
  /\ IsUserNode(user) /\ IsSeenNode(seen)
  /\ len \in Nat \ {0} /\ day \in Nat
  /\ sess = [c \in Session |-> sess[c]] /\ adm = [a \in Admin |-> adm[a]]
  /\ \A c \in Session : sess[c] # Idle => SessionOK(sess[c])
  /\ \A a \in Admin : adm[a] # AdmIdle => AdminOK(adm[a])
  /\ tokens \subseteq [dev : Device, tv : Nat]
  /\ warned \subseteq Nat /\ lastGen \in Nat /\ deadGen \in Nat
  /\ stamped \subseteq Device

-----------------------------------------------------------------------------
(* What the responder promises. *)

Held(n) == IF n = NoNode THEN {} ELSE DOMAIN n.val.devices

\* What the comparison on the revision rests on: a revision names one record
\* for good, so a sign-in that finds the revision it read still there holds a
\* true copy of the record, and what it is about to put is that record with
\* no device added but its own.
ReadHolds(s) ==
  /\ s.base.seq < len
  /\ user # NoNode /\ user.seq = s.base.seq => user = s.base

PutIsOwnSlot(s) ==
  /\ s.next = WithDevices(s.base.val, s.next.devices)
  /\ DOMAIN s.next.devices \subseteq DOMAIN s.base.val.devices \union {s.dev}

RevisionInv ==
  /\ user.seq < len
  /\ \A c \in Session : sess[c].pc \in {"decide", "put"} => ReadHolds(sess[c])
  /\ \A c \in Session : sess[c].pc = "put" => PutIsOwnSlot(sess[c])

\* A sign-in that writes the record changes only who holds the device slots,
\* and of those it only ever adds its own: whatever an operator did since the
\* record was read (disable, new password, logout-all, a cap, a grant, the
\* revocation of some device) is still in the record it leaves.
SessionPutOwnsOnlyItsSlot ==
  [][\A c \in Session :
       SessionPutWins(c) =>
         /\ user'.val = WithDevices(user.val, user'.val.devices)
         /\ Held(user') \subseteq Held(user) \union {sess[c].dev}]_vars

\* The record a sign-in leaves respects the device limit in force when it
\* lands, legacy records and lowered limits included.
DeviceLimitAtWrite ==
  [][\A c \in Session :
       SessionPutWins(c) => Cardinality(Held(user')) <= user'.val.max]_vars

\* The undo of a resurrected record never destroys an account created since:
\* what it deletes belongs to an account an operator had deleted.
UndoDeletesOnlyTheDead ==
  [][\A c \in Session :
       SessionUndo(c) /\ user' # user => user.val.auth <= deadGen]_vars

\* Two devices of one household signing in together: the write of one never
\* takes the day stamp of another that was stamped since it was enrolled.
SiblingStampKept ==
  [][\A c \in Session :
       SessionStampPut(c) =>
         \A d \in stamped \ {sess[c].dev} :
            d \in DOMAIN SeenOf(seen') /\ SeenOf(seen')[d] = SeenOf(seen)[d]]_vars

\* A disabled account becomes active only by an operator's hand: the step that
\* changes it is an enable, or the creation of a new account.
DisableSticks ==
  [][user # NoNode /\ user' # NoNode /\ user.val.status = "disabled"
       => \/ user'.val.status = "disabled"
          \/ \E a \in Admin : adm[a] # AdmIdle /\ adm[a].op \in {"enable", "create"}
                               /\ AdminWrite(a)]_vars

\* core/session.js: what makes a token count as live.
SessionLive(t) ==
  /\ user # NoNode /\ user.val.status = "active" /\ user.val.tv = t.tv
  /\ t.dev \in DOMAIN user.val.devices
  /\ LET e == user.val.devices[t.dev] IN e.tv = t.tv /\ (e.exp = 0 \/ e.exp > day)

\* A deleted account a racing sign-in put back is gone again, about to be
\* undone, or was warned about.
NeverSilentlyBack ==
  user # NoNode /\ user.val.auth <= deadGen =>
    user.val.auth \in warned \/ \E c \in Session : sess[c] # Idle /\ sess[c].pc = "undo"

\* Every sign-in is answered: the retries are bounded.
Fairness == \A c \in Session : WF_vars(SessionStep(c))

FairSpec == Spec /\ Fairness

SignInAnswered == \A c \in Session : sess[c] # Idle ~> sess[c] = Idle
=============================================================================
