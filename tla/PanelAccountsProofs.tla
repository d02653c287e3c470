------------------------- MODULE PanelAccountsProofs -------------------------
(***************************************************************************)
(* Theorems about PanelAccounts, for any number of devices, of sign-ins in *)
(* flight and of operators, and any bounds.                                *)
(***************************************************************************)
EXTENDS PanelAccounts, FiniteSetTheorems, TLAPS

\* Entries dropped leave a well-formed map of devices.
LEMMA OnlyType ==
  ASSUME NEW devs, IsDevices(devs), NEW S
  PROVE  /\ IsDevices(Only(devs, S))
         /\ DOMAIN Only(devs, S) = DOMAIN devs \intersect S
  <1>1. DOMAIN Only(devs, S) = DOMAIN devs \intersect S
    BY DEF Only
  <1>2. IsFiniteSet(DOMAIN devs \intersect S)
    BY FS_Subset DEF IsDevices
  <1>3. Only(devs, S) \in [DOMAIN devs \intersect S -> Entry]
    BY DEF Only, IsDevices
  <1> QED BY <1>1, <1>2, <1>3 DEF IsDevices

LEMMA CurrentType ==
  ASSUME NEW val, IsUser(val), NEW now \in Nat
  PROVE  /\ IsDevices(Current(val.devices, now))
         /\ DOMAIN Current(val.devices, now) \subseteq DOMAIN val.devices
  <1> DEFINE live == Current(val.devices, now)
             D    == {x \in DOMAIN val.devices : val.devices[x].exp = 0 \/ val.devices[x].exp > now}
  <1>1. DOMAIN live = D /\ D \subseteq DOMAIN val.devices
    BY DEF Current
  <1>2. IsFiniteSet(D) /\ D \subseteq Device
    BY <1>1, FS_Subset DEF IsUser, IsDevices
  <1>3. live \in [D -> Entry]
    BY DEF Current, IsDevices, IsUser, Entry
  <1> HIDE DEF live, D
  <1>4. IsDevices(live) /\ DOMAIN live \subseteq DOMAIN val.devices
    BY <1>1, <1>2, <1>3 DEF IsDevices
  <1> QED BY <1>4 DEF live

\* Whatever the responder decides, the devices it leaves are devices the
\* record had, or the one signing in, each with a well-formed entry.
LEMMA DecisionsType ==
  ASSUME NEW val, IsUser(val), NEW map, NEW now \in Nat, NEW d \in Device,
         NEW r \in Decisions(val, map, now, d)
  PROVE  /\ IsDevices(r.devices)
         /\ DOMAIN r.devices \subseteq DOMAIN val.devices \union {d}
         /\ r.refused \in BOOLEAN
  <1> DEFINE live == Current(val.devices, now)
  <1>1. IsDevices(live) /\ DOMAIN live \subseteq DOMAIN val.devices
    BY CurrentType
  <1>2. PICK S \in SUBSET DOMAIN live : r \in Admissions(val, Only(live, S), map, now, d)
    BY DEF Decisions, Survivors
  <1> DEFINE devs == Only(live, S)
  <1>3. IsDevices(devs) /\ DOMAIN devs \subseteq DOMAIN val.devices
    BY <1>1, OnlyType
  <1>4. val.tv \in Nat
    BY DEF IsUser
  <1> HIDE DEF devs
  <1>5. CASE d \in DOMAIN devs
    <2>1. r = [devices |-> [devs EXCEPT ![d].tv = val.tv], refused |-> FALSE]
      BY <1>2, <1>5 DEF Admissions, devs
    <2>2. IsDevices([devs EXCEPT ![d].tv = val.tv])
      BY <1>3, <1>4, <1>5 DEF IsDevices, Entry
    <2> QED BY <2>1, <2>2, <1>3
  <1>6. CASE d \notin DOMAIN devs
    <2> DEFINE fresh == FreshEntry(val.tv, now)
    <2>1. fresh \in Entry
      BY <1>4 DEF FreshEntry, Entry
    <2> HIDE DEF fresh
    <2>2. CASE r = [devices |-> devs, refused |-> TRUE]
      BY <2>2, <1>3
    <2>3. CASE r # [devices |-> devs, refused |-> TRUE]
      <3>1. PICK T \in SUBSET DOMAIN devs :
              r = [devices |-> [x \in T \union {d} |-> IF x = d THEN fresh ELSE devs[x]],
                   refused |-> FALSE]
        BY <1>2, <1>6, <2>3 DEF Admissions, Survivors, devs, fresh
      <3> DEFINE g == [x \in T \union {d} |-> IF x = d THEN fresh ELSE devs[x]]
      <3>2. IsDevices(g) /\ DOMAIN g \subseteq DOMAIN val.devices \union {d}
        <4>1. IsFiniteSet(T \union {d})
          BY <1>3, FS_Subset, FS_AddElement DEF IsDevices
        <4>2. g \in [T \union {d} -> Entry] /\ DOMAIN g = T \union {d}
          BY <2>1, <1>3 DEF IsDevices
        <4> QED BY <1>3, <4>1, <4>2 DEF IsDevices
      <3> HIDE DEF g
      <3> QED BY <3>1, <3>2 DEF g
    <2> QED BY <2>2, <2>3
  <1> QED BY <1>5, <1>6

-----------------------------------------------------------------------------
(* Type correctness. *)

\* One request moves on, the others stay: the table of requests keeps its type.
LEMMA SessionTableType ==
  ASSUME TypeOK, NEW c \in Session, NEW x, x # Idle => SessionOK(x),
         sess' = [sess EXCEPT ![c] = x]
  PROVE  /\ sess' = [k \in Session |-> sess'[k]]
         /\ \A k \in Session : sess'[k] # Idle => SessionOK(sess'[k])
  BY DEF TypeOK

LEMMA AdminTableType ==
  ASSUME TypeOK, NEW a \in Admin, NEW x, x # AdmIdle => AdminOK(x),
         adm' = [adm EXCEPT ![a] = x]
  PROVE  /\ adm' = [k \in Admin |-> adm'[k]]
         /\ \A k \in Admin : adm'[k] # AdmIdle => AdminOK(adm'[k])
  BY DEF TypeOK

\* A put of a well-formed record leaves a well-formed node.
LEMMA PutUserType ==
  ASSUME TypeOK, NEW val, IsUser(val), PutUser(val)
  PROVE  IsUserNode(user') /\ len' \in Nat \ {0} /\ stamped' \subseteq Device
  BY DEF TypeOK, PutUser, IsUserNode, IsNode

LEMMA DelUserType ==
  ASSUME TypeOK, DelUser
  PROVE  IsUserNode(user') /\ len' \in Nat \ {0} /\ stamped' \subseteq Device
  BY DEF TypeOK, DelUser, IsUserNode

LEMMA NoDevicesType == IsDevices(NoDevices)
  <1>1. DOMAIN NoDevices = {}
    BY DEF NoDevices
  <1>2. NoDevices \in [{} -> Entry]
    BY DEF NoDevices
  <1> QED BY <1>1, <1>2, FS_EmptySet DEF IsDevices

\* Every account operation leaves a well-formed record.
LEMMA OutcomeType ==
  ASSUME NEW r \in Requests, r.op \notin {"create", "delete"},
         NEW u, IsUser(u), NEW gen \in Nat
  PROVE  IsUser(Outcome(r, u, gen))
  <1>1. IsUser(SignOut(u))
    <2>1. IsUser(NextVersion(u))
      BY DEF IsUser, NextVersion
    <2> QED BY <2>1, NoDevicesType DEF IsUser, SignOut
  <1>2. CASE r.op = "password"
    BY <1>1, <1>2 DEF Outcome, IsUser, SignOut
  <1>3. CASE r.op = "disable"
    BY <1>1, <1>3 DEF Outcome, IsUser, SignOut
  <1>4. CASE r.op = "enable"
    BY <1>4 DEF Outcome, IsUser
  <1>5. CASE r.op = "logout"
    BY <1>1, <1>5 DEF Outcome
  <1>6. CASE r.op = "cap"
    <2>1. r.max \in Nat \ {0}
      BY <1>6, CapAssumption DEF Requests
    <2> QED BY <1>6, <2>1 DEF Outcome, SetCap, IsUser
  <1>7. CASE r.op = "revokeDevice"
    <2>1. IsDevices(Only(u.devices, DOMAIN u.devices \ {r.dev}))
      BY OnlyType DEF IsUser
    <2>2. Outcome(r, u, gen) = [u EXCEPT !.devices = Only(@, DOMAIN @ \ {r.dev})]
      BY <1>7 DEF Outcome
    <2> HIDE DEF Only
    <2> QED BY <2>1, <2>2 DEF IsUser
  <1>8. CASE r.op = "regrant"
    <2>1. r.grants \subseteq Stream
      BY <1>8 DEF Requests
    <2> QED BY <1>8, <2>1 DEF Outcome, IsUser
  <1>9. r.op \in {"password", "disable", "enable", "logout", "cap", "revokeDevice", "regrant"}
    <2>1. CASE r \in [op : AdminOps \intersect {"create", "password", "disable", "enable",
                                              "logout", "delete"}]
      BY <2>1
    <2>2. CASE r \in [op : AdminOps \intersect {"cap"}, max : Caps]
      BY <2>2
    <2>3. CASE r \in [op : AdminOps \intersect {"revokeDevice"}, dev : Device]
      BY <2>3
    <2>4. CASE r \in [op : AdminOps \intersect {"regrant"}, grants : SUBSET Stream]
      BY <2>4
    <2> QED BY <2>1, <2>2, <2>3, <2>4 DEF Requests
  <1> QED BY <1>2, <1>3, <1>4, <1>5, <1>6, <1>7, <1>8, <1>9

LEMMA NewAccountType ==
  ASSUME NEW gen \in Nat
  PROVE  IsUser(NewAccount(gen))
  BY CapAssumption, NoDevicesType DEF NewAccount, IsUser

\* The enrolled devices and the map the stamp phase starts from.
LEMMA SettledType ==
  ASSUME NEW s, NEW devs, NEW map, s.dev \in Device, s.now \in Nat,
         IsUser(s.base.val), IsDevices(devs), IsSeenNode(map)
  PROVE  SessionOK(Settled(s, devs, map))
  BY DEF SessionOK, Settled, Pcs, IsUser, IsDevices

LEMMA NextSeenType ==
  ASSUME TypeOK, NEW c \in Session, SessionOK(sess[c]), sess[c].pc = "stamp"
  PROVE  IsSeen(NextSeen(sess[c]))
  <1> DEFINE s   == sess[c]
             map == SeenOf(s.map)
             D   == (DOMAIN map \intersect StampedDevices(s)) \union {s.dev}
  <1>1. IsSeenNode(s.map) /\ s.dev \in Device /\ s.now \in Nat
    BY DEF SessionOK
  <1>2. DOMAIN map \subseteq Device /\ map \in [DOMAIN map -> Nat]
    <2>1. CASE s.map = NoNode
      <3>1. map = NoDevices
        BY <2>1 DEF SeenOf
      <3>2. DOMAIN NoDevices = {} /\ NoDevices \in [{} -> Nat]
        BY DEF NoDevices
      <3> HIDE DEF map
      <3> QED BY <3>1, <3>2
    <2>2. CASE s.map # NoNode
      BY <2>2, <1>1 DEF SeenOf, IsSeenNode, IsSeen
    <2> QED BY <2>1, <2>2
  <1>3. NextSeen(s) = [d \in D |-> IF d = s.dev THEN s.now ELSE map[d]]
    BY DEF NextSeen
  <1>4. D \subseteq Device
    BY <1>1, <1>2
  <1>5. \A d \in D : d # s.dev => map[d] \in Nat
    BY <1>2
  <1> HIDE DEF D, map
  <1>6. NextSeen(s) \in [D -> Nat]
    BY <1>1, <1>3, <1>5
  <1>7. DOMAIN NextSeen(s) = D
    BY <1>3
  <1> QED BY <1>4, <1>6, <1>7 DEF IsSeen

LEMMA TypeInit == Init => TypeOK
  <1> SUFFICES ASSUME Init PROVE TypeOK
    OBVIOUS
  <1>1. PICK u \in LegacyUsers : user = [val |-> u, seq |-> 1]
    BY DEF Init
  <1>2. IsUserNode(user) /\ user.val.auth \in Nat
    BY <1>1, LegacyAssumption DEF IsUserNode, IsNode, IsUser
  <1> QED BY <1>2 DEF Init, TypeOK, IsSeenNode

\* Every step of a sign-in keeps the types.
LEMMA SessionType ==
  ASSUME TypeOK, NEW c \in Session,
         (\E d \in Device : SessionRead(c, d)) \/ SessionStep(c)
  PROVE  TypeOK'
  <1> USE DEF SessionUnchanged
  <1>0. ASSUME sess[c] # Idle PROVE SessionOK(sess[c])
    BY <1>0 DEF TypeOK
  <1>n. "idle" \notin Pcs /\ Idle.pc = "idle"
    BY DEF Pcs, Idle
  <1>i. ASSUME sess[c].pc \in Pcs PROVE SessionOK(sess[c])
    BY <1>0, <1>i, <1>n
  <1>1. ASSUME NEW d \in Device, SessionRead(c, d) PROVE TypeOK'
    <2> DEFINE x == [pc |-> "decide", dev |-> d,
                     now |-> day, base |-> user, tries |-> 0]
    <2>1. SessionOK(x)
      BY <1>1 DEF SessionRead, TypeOK, SessionOK, Pcs, IsUserNode, IsUser
    <2>2. sess' = [sess EXCEPT ![c] = x]
      BY <1>1 DEF SessionRead
    <2> HIDE DEF x
    <2> QED BY <1>1, <2>1, <2>2, SessionTableType DEF SessionRead, TypeOK
  <1>2. CASE SessionDecide(c)
    <2>1. SessionOK(sess[c])
      BY <1>2, <1>i DEF SessionDecide, Pcs
    <2> DEFINE s == sess[c]
    <2>2. /\ s.base # NoNode /\ IsUser(s.base.val) /\ s.now \in Nat /\ s.dev \in Device
          /\ IsUserNode(s.base) /\ s.tries \in Nat
      BY <1>2, <2>1 DEF SessionDecide, SessionOK, IsUserNode
    <2>3. PICK r \in Decisions(s.base.val, SeenOf(seen), s.now, s.dev) :
            sess' = [sess EXCEPT ![c] =
              IF r.devices # s.base.val.devices
              THEN [pc |-> "put", dev |-> s.dev, now |-> s.now,
                    base |-> s.base, tries |-> s.tries, map |-> seen,
                    next |-> WithDevices(s.base.val, r.devices),
                    refused |-> r.refused]
              ELSE IF r.refused THEN Idle
              ELSE Settled(s, r.devices, seen)]
      BY <1>2 DEF SessionDecide
    <2> DEFINE val == s.base.val
               map == SeenOf(seen)
               now == s.now
               d   == s.dev
    <2>a. IsUser(val) /\ now \in Nat /\ d \in Device /\ r \in Decisions(val, map, now, d)
      BY <2>2, <2>3
    <2> HIDE DEF val, map, now, d
    <2>b. IsDevices(r.devices) /\ r.refused \in BOOLEAN
      BY <2>a, DecisionsType
    <2> USE DEF val, map, now, d
    <2>4. IsDevices(r.devices) /\ r.refused \in BOOLEAN
      BY <2>b
    <2>5. IsUser(WithDevices(s.base.val, r.devices))
      BY <2>2, <2>4 DEF IsUser, WithDevices
    <2>6. IsSeenNode(seen)
      BY DEF TypeOK
    <2> DEFINE w == [pc |-> "put", dev |-> s.dev, now |-> s.now,
                     base |-> s.base, tries |-> s.tries, map |-> seen,
                     next |-> WithDevices(s.base.val, r.devices),
                     refused |-> r.refused]
    <2>7. SessionOK(w)
      BY <2>2, <2>4, <2>5, <2>6 DEF SessionOK, Pcs
    <2>8. SessionOK(Settled(s, r.devices, seen))
      BY <2>2, <2>4, <2>6, SettledType
    <2> DEFINE x == IF r.devices # s.base.val.devices THEN w
                    ELSE IF r.refused THEN Idle ELSE Settled(s, r.devices, seen)
    <2>9. x # Idle => SessionOK(x)
      BY <2>7, <2>8
    <2>10. sess' = [sess EXCEPT ![c] = x]
      BY <2>3
    <2> HIDE DEF x
    <2> QED BY <1>2, <2>9, <2>10, SessionTableType DEF SessionDecide, TypeOK
  <1>3. CASE SessionPutWins(c)
    <2>1. SessionOK(sess[c])
      BY <1>3, <1>i DEF SessionPutWins, Pcs
    <2> DEFINE s == sess[c]
               x == IF s.refused THEN Idle ELSE Settled(s, s.next.devices, s.map)
    <2>2. IsUser(s.next) /\ IsUser(s.base.val) /\ IsSeenNode(s.map)
      BY <1>3, <2>1 DEF SessionPutWins, SessionOK, IsUserNode
    <2>3. SessionOK(Settled(s, s.next.devices, s.map))
      BY <1>3, <2>1, <2>2, SettledType DEF SessionPutWins, SessionOK, IsUser
    <2>4. sess' = [sess EXCEPT ![c] = x]
      BY <1>3 DEF SessionPutWins
    <2>5. IsUserNode(user') /\ len' \in Nat \ {0} /\ stamped' \subseteq Device
      BY <1>3, <2>2, PutUserType DEF SessionPutWins
    <2>6. x # Idle => SessionOK(x)
      BY <2>3
    <2> HIDE DEF x
    <2> QED BY <1>3, <2>4, <2>5, <2>6, SessionTableType DEF SessionPutWins, TypeOK
  <1>4. CASE SessionPutLoses(c)
    <2>1. SessionOK(sess[c])
      BY <1>4, <1>i DEF SessionPutLoses, Pcs
    <2>2. AfterLoss(sess[c]) # Idle => SessionOK(AfterLoss(sess[c]))
      BY <1>4, <2>1 DEF SessionPutLoses, AfterLoss, SessionOK, Pcs
    <2> QED BY <1>4, <2>2, SessionTableType DEF SessionPutLoses, TypeOK
  <1>5. CASE SessionReread(c)
    <2>1. SessionOK(sess[c])
      BY <1>5, <1>i DEF SessionReread, Pcs
    <2> DEFINE s == sess[c]
               x == IF user # NoNode /\ user.val.status = "active"
                    THEN [pc |-> "decide", dev |-> s.dev, now |-> s.now,
                          base |-> FreshBase(s), tries |-> s.tries]
                    ELSE Idle
    <2>2. x # Idle => SessionOK(x)
      BY <1>5, <2>1 DEF SessionReread, FreshBase, SessionOK, Pcs, TypeOK
    <2>3. sess' = [sess EXCEPT ![c] = x]
      BY <1>5 DEF SessionReread
    <2> HIDE DEF x
    <2> QED BY <1>5, <2>2, <2>3, SessionTableType DEF SessionReread, TypeOK
  <1>6. CASE SessionPutInserts(c)
    <2>1. SessionOK(sess[c])
      BY <1>6, <1>i DEF SessionPutInserts, Pcs
    <2>2. IsUser(sess[c].next) /\ SessionOK(AfterInsert(sess[c]))
      BY <1>6, <2>1 DEF SessionPutInserts, AfterInsert, SessionOK, Pcs
    <2>3. IsUserNode(user') /\ len' \in Nat \ {0} /\ stamped' \subseteq Device
      BY <1>6, <2>2, PutUserType DEF SessionPutInserts
    <2> QED BY <1>6, <2>2, <2>3, SessionTableType DEF SessionPutInserts, TypeOK
  <1>7. CASE SessionUndo(c)
    <2>1. IsUserNode(user') /\ len' \in Nat \ {0} /\ stamped' \subseteq Device
      BY <1>7, DelUserType DEF SessionUndo, TypeOK
    <2>2. warned' \subseteq Nat
      <3>1. user # NoNode => user.val.auth \in Nat
        BY DEF TypeOK, IsUserNode, IsUser
      <3> QED BY <1>7, <3>1 DEF SessionUndo, TypeOK
    <2>3. sess' = [sess EXCEPT ![c] = Idle]
      BY <1>7 DEF SessionUndo
    <2> QED BY <1>7, <2>1, <2>2, <2>3, SessionTableType DEF SessionUndo, TypeOK
  <1>8. CASE SessionStamp(c)
    <2>1. SessionOK(sess[c])
      BY <1>8, <1>i DEF SessionStamp, Pcs
    <2> DEFINE s == sess[c]
               w == [pc |-> "stampPut", dev |-> s.dev, now |-> s.now,
                     tv |-> s.tv, enrolled |-> s.enrolled, map |-> s.map,
                     tries |-> s.tries, next |-> NextSeen(s)]
               x == IF NextSeen(s) = SeenOf(s.map) THEN Idle ELSE w
    <2>2. IsSeen(NextSeen(s))
      BY <1>8, <2>1, NextSeenType DEF SessionStamp
    <2>3. SessionOK(w)
      BY <1>8, <2>1, <2>2 DEF SessionStamp, SessionOK, Pcs
    <2>4. Token(s) \in [dev : Device, tv : Nat]
      BY <1>8, <2>1 DEF SessionStamp, SessionOK, Token
    <2>5. tokens' \subseteq [dev : Device, tv : Nat]
      BY <1>8, <2>4 DEF SessionStamp, TypeOK
    <2>6. sess' = [sess EXCEPT ![c] = x]
      BY <1>8 DEF SessionStamp
    <2>7. x # Idle => SessionOK(x)
      BY <2>3
    <2> HIDE DEF x
    <2> QED BY <1>8, <2>5, <2>6, <2>7, SessionTableType DEF SessionStamp, TypeOK
  <1>9. CASE SessionStampPut(c)
    <2>1. SessionOK(sess[c])
      BY <1>9, <1>i DEF SessionStampPut, Pcs
    <2> DEFINE s == sess[c]
               w == [pc |-> "reseen", dev |-> s.dev, now |-> s.now,
                     tv |-> s.tv, enrolled |-> s.enrolled, tries |-> s.tries + 1]
               x == IF StampDone(s) \/ s.tries + 1 >= MaxTries THEN Idle ELSE w
    <2>2. SessionOK(w)
      BY <1>9, <2>1 DEF SessionStampPut, SessionOK, Pcs
    <2>3. Token(s) \in [dev : Device, tv : Nat]
      BY <1>9, <2>1 DEF SessionStampPut, SessionOK, Token
    <2>4. tokens' \subseteq [dev : Device, tv : Nat]
      BY <1>9, <2>3 DEF SessionStampPut, TypeOK
    <2>5. IsSeenNode(seen') /\ len' \in Nat \ {0}
      BY <1>9, <2>1 DEF SessionStampPut, SessionOK, TypeOK, IsSeenNode, IsNode
    <2>6. stamped' \subseteq Device
      BY <1>9, <2>1 DEF SessionStampPut, SessionOK, TypeOK
    <2>7. sess' = [sess EXCEPT ![c] = x]
      BY <1>9 DEF SessionStampPut
    <2>8. x # Idle => SessionOK(x)
      BY <2>2
    <2> HIDE DEF x
    <2> QED BY <1>9, <2>4, <2>5, <2>6, <2>7, <2>8, SessionTableType DEF SessionStampPut, TypeOK
  <1>10. CASE SessionReseen(c)
    <2>1. SessionOK(sess[c])
      BY <1>10, <1>i DEF SessionReseen, Pcs
    <2> DEFINE s == sess[c]
               x == [pc |-> "stamp", dev |-> s.dev, now |-> s.now,
                     tv |-> s.tv, enrolled |-> s.enrolled, map |-> seen, tries |-> s.tries]
    <2>2. SessionOK(x)
      BY <1>10, <2>1 DEF SessionReseen, SessionOK, Pcs, TypeOK
    <2>3. sess' = [sess EXCEPT ![c] = x]
      BY <1>10 DEF SessionReseen
    <2> HIDE DEF x
    <2> QED BY <1>10, <2>2, <2>3, SessionTableType DEF SessionReseen, TypeOK
  <1> QED BY <1>1, <1>2, <1>3, <1>4, <1>5, <1>6, <1>7, <1>8, <1>9, <1>10 DEF SessionStep

\* Every step of the admin plane keeps the types.
LEMMA AdminType ==
  ASSUME TypeOK, NEW a \in Admin, (\E r \in Requests : AdminRead(a, r)) \/ AdminStep(a)
  PROVE  TypeOK'
  <1> USE DEF AdminUnchanged
  <1>0. ASSUME adm[a] # AdmIdle PROVE AdminOK(adm[a])
    BY <1>0 DEF TypeOK
  <1>1. ASSUME NEW r \in Requests, AdminRead(a, r) PROVE TypeOK'
    <2> DEFINE x == [op |-> r.op, req |-> r, base |-> user]
    <2>1. AdminOK(x)
      BY <1>1 DEF AdminRead, Accepts, AdminOK, TypeOK
    <2>2. adm' = [adm EXCEPT ![a] = x]
      BY <1>1 DEF AdminRead
    <2> HIDE DEF x
    <2> QED BY <1>1, <2>1, <2>2, AdminTableType DEF AdminRead, TypeOK
  <1>2. CASE AdminWrite(a)
    <2> DEFINE gen == lastGen + 1
               r   == adm[a].req
               put == IF adm[a].op = "create" THEN NewAccount(gen)
                      ELSE Outcome(r, adm[a].base.val, gen)
    <2>1. /\ adm[a].op # "deleteSeen" /\ adm[a].op # "delete"
          /\ r \in Requests /\ r.op = adm[a].op
          /\ adm[a].op # "create" => IsUser(adm[a].base.val)
      BY <1>0, <1>2 DEF AdminWrite, AllOps, AdminOK, IsUserNode
    <2>2. gen \in Nat /\ lastGen' \in Nat
      BY <1>2 DEF AdminWrite, TypeOK
    <2>3. IsUser(put)
      BY <2>1, <2>2, NewAccountType, OutcomeType
    <2>4. PutUser(put)
      BY <1>2 DEF AdminWrite
    <2>5. IsUserNode(user') /\ len' \in Nat \ {0} /\ stamped' \subseteq Device
      BY <2>3, <2>4, PutUserType
    <2>6. adm' = [adm EXCEPT ![a] = AdmIdle]
      BY <1>2 DEF AdminWrite
    <2> QED BY <1>2, <2>2, <2>5, <2>6, AdminTableType DEF AdminWrite, TypeOK
  <1>3. CASE AdminDelete(a)
    <2> DEFINE x == [op |-> "deleteSeen"]
    <2>1. AdminOK(x)
      BY DEF AdminOK
    <2>2. adm' = [adm EXCEPT ![a] = x]
      BY <1>3 DEF AdminDelete
    <2>3. IsUserNode(user') /\ len' \in Nat \ {0} /\ stamped' \subseteq Device
      BY <1>3, DelUserType DEF AdminDelete, TypeOK
    <2>4. deadGen' \in Nat
      BY <1>3 DEF AdminDelete, TypeOK
    <2> QED BY <1>3, <2>1, <2>2, <2>3, <2>4, AdminTableType DEF AdminDelete, TypeOK
  <1>4. CASE AdminDeleteSeen(a)
    <2>1. IsSeenNode(seen') /\ len' \in Nat \ {0}
      BY <1>4 DEF AdminDeleteSeen, TypeOK, IsSeenNode
    <2>2. adm' = [adm EXCEPT ![a] = AdmIdle]
      BY <1>4 DEF AdminDeleteSeen
    <2> QED BY <1>4, <2>1, <2>2, AdminTableType DEF AdminDeleteSeen, TypeOK
  <1> QED BY <1>1, <1>2, <1>3, <1>4 DEF AdminStep

\* Everything keeps the shape the code gives it.
THEOREM TypeInvariant == Spec => []TypeOK
  <1>1. Init => TypeOK
    BY TypeInit
  <1>2. TypeOK /\ [Next]_vars => TypeOK'
    <2>1. ASSUME TypeOK, Next PROVE TypeOK'
      <3>1. CASE \E c \in Session : (\E d \in Device : SessionRead(c, d)) \/ SessionStep(c)
        BY <2>1, <3>1, SessionType
      <3>2. CASE \E a \in Admin : (\E r \in Requests : AdminRead(a, r)) \/ AdminStep(a)
        BY <2>1, <3>2, AdminType
      <3>3. CASE Tick
        BY <2>1, <3>3 DEF Tick, TypeOK
      <3> QED BY <2>1, <3>1, <3>2, <3>3 DEF Next
    <2>2. ASSUME TypeOK, UNCHANGED vars PROVE TypeOK'
      BY <2>2 DEF TypeOK, vars
    <2> QED BY <2>1, <2>2
  <1> QED BY <1>1, <1>2, PTL DEF Spec

-----------------------------------------------------------------------------
(* The compare-and-swap.  RevisionInv says why comparing a revision number *)
(* is enough: a revision is never used for two records.                    *)

\* What any step does to the record's node: nothing, a put under the next
\* revision, or a delete.
BeeStep ==
  \/ user' = user /\ len' \in {len, len + 1}
  \/ user' = NoNode /\ len' = len + 1
  \/ user'.seq = len /\ len' = len + 1

LEMMA EveryStepIsABeeStep ==
  ASSUME TypeOK, [Next]_vars
  PROVE  BeeStep
  <1>1. ASSUME NEW val, PutUser(val) PROVE BeeStep
    BY <1>1 DEF PutUser, BeeStep
  <1>2. CASE DelUser
    BY <1>2 DEF DelUser, BeeStep
  <1>3. ASSUME NEW c \in Session,
               (\E d \in Device : SessionRead(c, d)) \/ SessionStep(c)
        PROVE  BeeStep
    <2>1. CASE \E d \in Device : SessionRead(c, d)
      BY <2>1 DEF SessionRead, BeeStep
    <2>2. CASE SessionPutWins(c) \/ SessionPutInserts(c)
      BY <2>2, <1>1 DEF SessionPutWins, SessionPutInserts
    <2>3. CASE SessionUndo(c)
      BY <2>3, <1>2 DEF SessionUndo, BeeStep
    <2>4. CASE \/ SessionDecide(c) \/ SessionPutLoses(c) \/ SessionReread(c)
               \/ SessionStamp(c) \/ SessionStampPut(c) \/ SessionReseen(c)
      BY <2>4 DEF SessionDecide, SessionPutLoses, SessionReread, SessionStamp,
                  SessionStampPut, SessionReseen, BeeStep
    <2> QED BY <1>3, <2>1, <2>2, <2>3, <2>4 DEF SessionStep
  <1>4. ASSUME NEW a \in Admin,
               (\E r \in Requests : AdminRead(a, r)) \/ AdminStep(a)
        PROVE  BeeStep
    <2>1. CASE \E r \in Requests : AdminRead(a, r)
      BY <2>1 DEF AdminRead, BeeStep
    <2>2. CASE AdminWrite(a)
      BY <2>2, <1>1 DEF AdminWrite
    <2>3. CASE AdminDelete(a)
      BY <2>3, <1>2 DEF AdminDelete, BeeStep
    <2>4. CASE AdminDeleteSeen(a)
      BY <2>4 DEF AdminDeleteSeen, BeeStep
    <2> QED BY <1>4, <2>1, <2>2, <2>3, <2>4 DEF AdminStep
  <1>5. CASE Tick \/ UNCHANGED vars
    BY <1>5 DEF Tick, vars, BeeStep
  <1> QED BY <1>3, <1>4, <1>5 DEF Next

\* A copy that was a true copy of its revision still is after any step.
LEMMA CopyStaysTrue ==
  ASSUME TypeOK, BeeStep, RevisionInv, NEW base, base.seq \in Nat, base.seq < len,
         user # NoNode /\ user.seq = base.seq => user = base
  PROVE  /\ base.seq < len'
         /\ user' # NoNode /\ user'.seq = base.seq => user' = base
  BY DEF TypeOK, BeeStep

\* The new values of the requests in flight, step by step.
LEMMA RevisionStep ==
  ASSUME TypeOK, TypeOK', RevisionInv, [Next]_vars
  PROVE  RevisionInv'
  <1>1. BeeStep
    BY EveryStepIsABeeStep
  <1>2. user'.seq < len'
    <2>1. user.seq \in Nat /\ len \in Nat \ {0} /\ NoNode.seq = 0
      BY DEF TypeOK, IsUserNode, IsNode, NoNode
    <2> QED BY <1>1, <2>1 DEF BeeStep, RevisionInv
  <1>3. ASSUME NEW k \in Session, sess'[k] = sess[k]
        PROVE  /\ sess'[k].pc \in {"decide", "put"} => ReadHolds(sess[k])'
               /\ sess'[k].pc = "put" => PutIsOwnSlot(sess[k])'
    <2>1. CASE sess[k].pc \in {"decide", "put"}
      <3>1. SessionOK(sess[k])
        BY <2>1 DEF TypeOK, Idle
      <3>2. sess[k].base.seq \in Nat /\ ReadHolds(sess[k])
        BY <2>1, <3>1 DEF RevisionInv, SessionOK, IsUserNode, IsNode
      <3>3. ReadHolds(sess[k])'
        BY <1>1, <1>3, <3>2, CopyStaysTrue DEF ReadHolds
      <3> QED BY <1>3, <2>1, <3>3 DEF RevisionInv, PutIsOwnSlot
    <2>2. CASE sess[k].pc \notin {"decide", "put"}
      BY <1>3, <2>2
    <2> QED BY <2>1, <2>2
  <1>4. ASSUME NEW c \in Session,
               (\E d \in Device : SessionRead(c, d)) \/ SessionStep(c),
               NEW k \in Session
        PROVE  /\ sess'[k].pc \in {"decide", "put"} => ReadHolds(sess[k])'
               /\ sess'[k].pc = "put" => PutIsOwnSlot(sess[k])'
    <2>1. sess = [j \in Session |-> sess[j]]
      BY DEF TypeOK
    <2>2. Idle.pc = "idle"
      BY DEF Idle
    <2>3. CASE \E d \in Device : SessionRead(c, d)
      <3>1. PICK d \in Device : SessionRead(c, d)
        BY <2>3
      <3>2. CASE k # c
        BY <1>3, <2>1, <3>1, <3>2 DEF SessionRead
      <3>3. CASE k = c
        <4>1. sess'[k].base = user /\ sess'[k].pc = "decide" /\ user' = user /\ len' = len
          BY <2>1, <3>1, <3>3 DEF SessionRead
        <4> QED BY <4>1 DEF RevisionInv, ReadHolds
      <3> QED BY <3>2, <3>3
    <2>4. CASE SessionDecide(c)
      <3>1. CASE k # c
        BY <1>3, <2>1, <2>4, <3>1 DEF SessionDecide
      <3>2. CASE k = c
        <4> DEFINE s == sess[c]
        <4>1. SessionOK(s) /\ s.pc = "decide"
          BY <2>2, <2>4 DEF SessionDecide, TypeOK, Idle
        <4>2. /\ s.base # NoNode /\ IsUser(s.base.val) /\ s.now \in Nat /\ s.dev \in Device
              /\ ReadHolds(s)
          BY <4>1 DEF SessionOK, IsUserNode, RevisionInv
        <4>3. PICK r \in Decisions(s.base.val, SeenOf(seen), s.now, s.dev) :
                sess'[c] =
                  IF r.devices # s.base.val.devices
                  THEN [pc |-> "put", dev |-> s.dev, now |-> s.now,
                        base |-> s.base, tries |-> s.tries, map |-> seen,
                        next |-> WithDevices(s.base.val, r.devices),
                        refused |-> r.refused]
                  ELSE IF r.refused THEN Idle
                  ELSE Settled(s, r.devices, seen)
          BY <2>1, <2>4 DEF SessionDecide
        <4>4. DOMAIN r.devices \subseteq DOMAIN s.base.val.devices \union {s.dev}
          BY <4>2, DecisionsType
        <4>5. WithDevices(s.base.val, r.devices).devices = r.devices
          BY <4>2 DEF WithDevices, IsUser
        <4>6. CASE r.devices # s.base.val.devices
          <5>1. /\ sess'[c].pc = "put" /\ sess'[c].base = s.base /\ sess'[c].dev = s.dev
                /\ sess'[c].next = WithDevices(s.base.val, r.devices)
            BY <4>3, <4>6
          <5>2. user' = user /\ len' = len
            BY <2>4 DEF SessionDecide
          <5> QED BY <3>2, <4>2, <4>4, <4>5, <5>1, <5>2 DEF ReadHolds, PutIsOwnSlot
        <4>7. CASE r.devices = s.base.val.devices
          BY <2>2, <3>2, <4>3, <4>7 DEF Settled
        <4> QED BY <4>6, <4>7
      <3> QED BY <3>1, <3>2
    <2>5. CASE SessionReread(c)
      <3>1. CASE k # c
        BY <1>3, <2>1, <2>5, <3>1 DEF SessionReread
      <3>2. CASE k = c
        <4>1. /\ sess'[k] = Idle \/ (sess'[k].pc = "decide" /\ sess'[k].base = user)
              /\ user' = user /\ len' = len
          BY <2>1, <2>5, <3>2 DEF SessionReread, FreshBase
        <4> QED BY <2>2, <4>1 DEF RevisionInv, ReadHolds
      <3> QED BY <3>1, <3>2
    <2>6. CASE \/ SessionPutWins(c) \/ SessionPutLoses(c) \/ SessionPutInserts(c)
               \/ SessionUndo(c) \/ SessionStamp(c) \/ SessionStampPut(c) \/ SessionReseen(c)
      <3>1. /\ k # c => sess'[k] = sess[k]
            /\ sess'[c].pc \notin {"decide", "put"}
        BY <2>1, <2>2, <2>6 DEF SessionPutWins, SessionPutLoses, SessionPutInserts, SessionUndo,
             SessionStamp, SessionStampPut, SessionReseen, AfterLoss, AfterInsert, Settled
      <3> QED BY <1>3, <3>1
    <2> QED BY <1>4, <2>3, <2>4, <2>5, <2>6 DEF SessionStep
  <1>5. ASSUME UNCHANGED sess, NEW k \in Session
        PROVE  /\ sess'[k].pc \in {"decide", "put"} => ReadHolds(sess[k])'
               /\ sess'[k].pc = "put" => PutIsOwnSlot(sess[k])'
    BY <1>3, <1>5
  <1>6. \/ \E c \in Session : (\E d \in Device : SessionRead(c, d)) \/ SessionStep(c)
        \/ UNCHANGED sess
    BY DEF Next, AdminStep, AdminRead, AdminWrite, AdminDelete, AdminDeleteSeen,
           AdminUnchanged, Tick, vars
  <1>7. \A k \in Session : /\ sess'[k].pc \in {"decide", "put"} => ReadHolds(sess[k])'
                           /\ sess'[k].pc = "put" => PutIsOwnSlot(sess[k])'
    BY <1>4, <1>5, <1>6
  <1> QED BY <1>2, <1>7 DEF RevisionInv

\* A revision names one record, and a pending put is the record as read with
\* at most the signing device added.
THEOREM RevisionInvariant == Spec => []RevisionInv
  <1>1. Init => RevisionInv
    BY DEF Init, RevisionInv, Idle
  <1>2. TypeOK /\ TypeOK' /\ RevisionInv /\ [Next]_vars => RevisionInv'
    BY RevisionStep
  <1> QED BY <1>1, <1>2, TypeInvariant, PTL DEF Spec

\* No sign-in ever takes back what an operator did, for any number of
\* sign-ins and operators racing: the put that wins its comparison changes
\* only the device slots, and adds no device but its own.
THEOREM SessionPutSafety == Spec => SessionPutOwnsOnlyItsSlot
  <1>1. ASSUME TypeOK, RevisionInv, NEW c \in Session, SessionPutWins(c)
        PROVE  /\ user'.val = WithDevices(user.val, user'.val.devices)
               /\ Held(user') \subseteq Held(user) \union {sess[c].dev}
    <2>1. user = sess[c].base
      BY <1>1 DEF SessionPutWins, SameRevision, RevisionInv, ReadHolds
    <2>2. PutIsOwnSlot(sess[c])
      BY <1>1 DEF SessionPutWins, RevisionInv
    <2>3. user'.val = sess[c].next /\ user' # NoNode
      BY <1>1 DEF SessionPutWins, PutUser, NoNode
    <2>4. user # NoNode
      BY <1>1 DEF SessionPutWins
    <2> QED BY <2>1, <2>2, <2>3, <2>4 DEF PutIsOwnSlot, Held
  <1>2. TypeOK /\ RevisionInv /\ [Next]_vars =>
          [\A c \in Session :
             SessionPutWins(c) =>
               /\ user'.val = WithDevices(user.val, user'.val.devices)
               /\ Held(user') \subseteq Held(user) \union {sess[c].dev}]_vars
    BY <1>1
  <1> QED BY <1>2, TypeInvariant, RevisionInvariant, PTL DEF Spec, SessionPutOwnsOnlyItsSlot

-----------------------------------------------------------------------------
(* The device limit.                                                       *)

\* Every decision leaves no more devices than the record allows: a record
\* over its limit is trimmed first, and room is made before one is added.
LEMMA DecisionLimit ==
  ASSUME NEW val, IsUser(val), NEW map, NEW now \in Nat, NEW d \in Device,
         NEW r \in Decisions(val, map, now, d)
  PROVE  Cardinality(DOMAIN r.devices) <= val.max
  <1> DEFINE live == Current(val.devices, now)
             keep == {d} \intersect DOMAIN live
             over == Overfull(live, val.max)
  <1>1. IsDevices(live) /\ val.max \in Nat \ {0}
    BY CurrentType DEF IsUser
  <1>2. PICK S \in Survivors(live, map, over, keep) :
          r \in Admissions(val, Only(live, S), map, now, d)
    BY DEF Decisions
  <1>3. S \subseteq DOMAIN live /\ Cardinality(S) = Cardinality(DOMAIN live) - over
    BY DEF Survivors
  <1> DEFINE devs == Only(live, S)
             n    == Cardinality(DOMAIN devs)
  <1>4. IsDevices(devs) /\ DOMAIN devs = S
    BY <1>1, <1>3, OnlyType
  <1>5. n \in Nat /\ n <= val.max
    <2>1. Cardinality(DOMAIN live) \in Nat /\ Cardinality(S) \in Nat
      BY <1>1, <1>4, FS_CardinalityType DEF IsDevices
    <2> HIDE DEF live
    <2>2. over = IF Cardinality(DOMAIN live) - val.max > 0
                 THEN Cardinality(DOMAIN live) - val.max ELSE 0
      BY DEF Overfull, Excess
    <2> HIDE DEF over
    <2> QED BY <1>1, <1>3, <1>4, <2>1, <2>2
  <1> HIDE DEF devs, live, keep, over
  <1>6. CASE d \in DOMAIN devs
    <2>1. r = [devices |-> [devs EXCEPT ![d].tv = val.tv], refused |-> FALSE]
      BY <1>2, <1>6 DEF Admissions, devs
    <2>2. DOMAIN r.devices = DOMAIN devs
      BY <2>1
    <2> QED BY <1>5, <2>2
  <1>7. CASE d \notin DOMAIN devs
    <2>1. CASE r = [devices |-> devs, refused |-> TRUE]
      BY <1>5, <2>1
    <2>2. CASE r # [devices |-> devs, refused |-> TRUE]
      <3>1. PICK T \in Survivors(devs, map, RoomNeeded(devs, val.max), {}) :
              r.devices = [x \in T \union {d} |->
                             IF x = d THEN FreshEntry(val.tv, now) ELSE devs[x]]
        BY <1>2, <1>7, <2>2 DEF Admissions, devs
      <3>2. T \subseteq DOMAIN devs /\ Cardinality(T) = n - RoomNeeded(devs, val.max)
        BY DEF Survivors
      <3>3. IsFiniteSet(T) /\ d \notin T
        BY <1>4, <1>7, <3>2, FS_Subset DEF IsDevices
      <3>4. Cardinality(T) \in Nat /\ Cardinality(T \union {d}) = Cardinality(T) + 1
        BY <3>3, FS_CardinalityType, FS_AddElement
      <3>5. DOMAIN r.devices = T \union {d}
        BY <3>1
      <3>6. RoomNeeded(devs, val.max) = IF n - val.max + 1 > 0 THEN n - val.max + 1 ELSE 0
        BY DEF RoomNeeded, Excess
      <3> HIDE DEF n
      <3> QED BY <1>1, <1>5, <3>2, <3>4, <3>5, <3>6
    <2> QED BY <2>1, <2>2
  <1> QED BY <1>6, <1>7

\* What is about to be put respects the limit it was decided under, and comes
\* from the record of an active account.
PutFits(s) ==
  /\ Cardinality(DOMAIN s.next.devices) <= s.next.max
  /\ s.next.auth = s.base.val.auth /\ s.next.status = s.base.val.status

PutInv ==
  /\ \A c \in Session : sess[c].pc \in {"decide", "put"} => sess[c].base.val.status = "active"
  /\ \A c \in Session : sess[c].pc = "put" => PutFits(sess[c])

\* What the steps of the sign-ins do to one of them.
LEMMA SessionMoves ==
  ASSUME TypeOK, [Next]_vars, NEW k \in Session
  PROVE  \/ sess'[k] = sess[k]
         \/ /\ user # NoNode /\ user.val.status = "active"
            /\ sess'[k].pc = "decide" /\ sess'[k].base = user
            /\ UNCHANGED <<user, lastGen, deadGen>>
         \/ /\ sess[k].pc = "decide" /\ sess'[k].pc = "put" /\ sess'[k].base = sess[k].base
            /\ sess'[k].map = seen /\ sess'[k].dev = sess[k].dev
            /\ \E r \in Decisions(sess[k].base.val, SeenOf(seen), sess[k].now, sess[k].dev) :
                 sess'[k].next = WithDevices(sess[k].base.val, r.devices)
            /\ UNCHANGED <<user, seen, len, stamped, lastGen, deadGen>>
         \/ /\ sess[k].pc = "put" /\ sess'[k].pc = "undo" /\ sess'[k].mine = sess[k].next
            /\ user = NoNode /\ PutUser(sess[k].next)
            /\ UNCHANGED <<seen, lastGen, deadGen>>
         \/ /\ sess[k].pc \in {"decide", "put"} /\ sess'[k].pc = "stamp"
            /\ sess'[k].map = IF sess[k].pc = "decide" THEN seen ELSE sess[k].map
            /\ UNCHANGED <<seen, lastGen, deadGen>> /\ len' \in {len, len + 1}
         \/ /\ sess[k].pc = "reseen" /\ sess'[k].pc = "stamp" /\ sess'[k].map = seen
            /\ UNCHANGED <<user, seen, len, stamped>>
         \/ /\ sess[k].pc = "stamp" /\ sess'[k].pc = "stampPut"
            /\ sess'[k].map = sess[k].map /\ sess'[k].dev = sess[k].dev
            /\ sess'[k].next = NextSeen(sess[k])
            /\ UNCHANGED <<user, seen, len, stamped>>
         \/ sess'[k].pc \in {"idle", "reread", "reseen"}
  <1>0. sess = [j \in Session |-> sess[j]] /\ Idle.pc = "idle"
    BY DEF TypeOK, Idle
  <1> USE DEF SessionUnchanged
  <1>1. ASSUME NEW c \in Session, NEW r, sess' = [sess EXCEPT ![c] = r], k # c
        PROVE  sess'[k] = sess[k]
    BY <1>0, <1>1
  <1>2. CASE \E d \in Device : SessionRead(k, d)
    BY <1>0, <1>2 DEF SessionRead
  <1>3. CASE SessionDecide(k)
    <2>1. PICK r \in Decisions(sess[k].base.val, SeenOf(seen), sess[k].now, sess[k].dev) :
            sess'[k] =
              IF r.devices # sess[k].base.val.devices
              THEN [pc |-> "put", dev |-> sess[k].dev, now |-> sess[k].now,
                    base |-> sess[k].base, tries |-> sess[k].tries, map |-> seen,
                    next |-> WithDevices(sess[k].base.val, r.devices),
                    refused |-> r.refused]
              ELSE IF r.refused THEN Idle
              ELSE Settled(sess[k], r.devices, seen)
      BY <1>0, <1>3 DEF SessionDecide
    <2>2. sess[k].pc = "decide" /\ UNCHANGED <<user, seen, len, stamped, lastGen, deadGen>>
      BY <1>3 DEF SessionDecide
    <2>3. CASE r.devices # sess[k].base.val.devices
      BY <2>1, <2>2, <2>3
    <2>4. CASE r.devices = sess[k].base.val.devices
      BY <1>0, <2>1, <2>2, <2>4 DEF Settled
    <2> QED BY <2>3, <2>4
  <1>4. CASE SessionPutWins(k)
    BY <1>0, <1>4 DEF SessionPutWins, Settled, PutUser
  <1>5. CASE SessionPutInserts(k)
    BY <1>0, <1>5 DEF SessionPutInserts, AfterInsert
  <1>6. CASE SessionPutLoses(k) \/ SessionUndo(k) \/ SessionStampPut(k)
    BY <1>0, <1>6 DEF SessionPutLoses, SessionUndo, SessionStampPut, AfterLoss
  <1>7. CASE SessionReread(k)
    <2>1. /\ sess[k].pc = "reread" /\ UNCHANGED <<user, lastGen, deadGen>>
          /\ sess'[k] = IF user # NoNode /\ user.val.status = "active"
                        THEN [pc |-> "decide", dev |-> sess[k].dev, now |-> sess[k].now,
                              base |-> user, tries |-> sess[k].tries]
                        ELSE Idle
      BY <1>0, <1>7 DEF SessionReread, FreshBase
    <2> QED BY <1>0, <2>1
  <1>8. CASE SessionStamp(k)
    <2>1. /\ sess[k].pc = "stamp" /\ UNCHANGED <<user, seen, len, stamped>>
          /\ sess'[k] = IF NextSeen(sess[k]) = SeenOf(sess[k].map) THEN Idle
                        ELSE [pc |-> "stampPut", dev |-> sess[k].dev, now |-> sess[k].now,
                              tv |-> sess[k].tv, enrolled |-> sess[k].enrolled,
                              map |-> sess[k].map, tries |-> sess[k].tries,
                              next |-> NextSeen(sess[k])]
      BY <1>0, <1>8 DEF SessionStamp
    <2> QED BY <1>0, <2>1
  <1>9. CASE SessionReseen(k)
    BY <1>0, <1>9 DEF SessionReseen
  <1>10. ASSUME NEW c \in Session, k # c,
                (\E d \in Device : SessionRead(c, d)) \/ SessionStep(c)
         PROVE  sess'[k] = sess[k]
    BY <1>1, <1>10 DEF SessionStep, SessionRead, SessionDecide, SessionPutWins, SessionPutLoses,
       SessionReread, SessionPutInserts, SessionUndo, SessionStamp, SessionStampPut, SessionReseen
  <1>11. \/ \E c \in Session : (\E d \in Device : SessionRead(c, d)) \/ SessionStep(c)
         \/ UNCHANGED sess
    BY DEF Next, AdminStep, AdminRead, AdminWrite, AdminDelete, AdminDeleteSeen,
           AdminUnchanged, Tick, vars
  <1> QED BY <1>2, <1>3, <1>4, <1>5, <1>6, <1>7, <1>8, <1>9, <1>10, <1>11 DEF SessionStep

LEMMA PutInvStep ==
  ASSUME TypeOK, PutInv, [Next]_vars
  PROVE  PutInv'
  <1> SUFFICES ASSUME NEW k \in Session
               PROVE  /\ sess'[k].pc \in {"decide", "put"} => sess'[k].base.val.status = "active"
                      /\ sess'[k].pc = "put" => PutFits(sess'[k])
    BY DEF PutInv, PutFits
  <1>1. CASE sess'[k] = sess[k]
    BY <1>1 DEF PutInv
  <1>2. CASE /\ sess[k].pc = "decide" /\ sess'[k].pc = "put" /\ sess'[k].base = sess[k].base
             /\ \E r \in Decisions(sess[k].base.val, SeenOf(seen), sess[k].now, sess[k].dev) :
                  sess'[k].next = WithDevices(sess[k].base.val, r.devices)
    <2>1. SessionOK(sess[k])
      BY <1>2 DEF TypeOK, Idle
    <2>2. /\ IsUser(sess[k].base.val) /\ sess[k].now \in Nat /\ sess[k].dev \in Device
      BY <1>2, <2>1 DEF SessionOK, IsUserNode
    <2>3. PICK r \in Decisions(sess[k].base.val, SeenOf(seen), sess[k].now, sess[k].dev) :
            sess'[k].next = WithDevices(sess[k].base.val, r.devices)
      BY <1>2
    <2>4. Cardinality(DOMAIN r.devices) <= sess[k].base.val.max
      BY <2>2, DecisionLimit
    <2> DEFINE w == WithDevices(sess[k].base.val, r.devices)
    <2>5. /\ w.devices = r.devices /\ w.max = sess[k].base.val.max
          /\ w.auth = sess[k].base.val.auth /\ w.status = sess[k].base.val.status
      BY <2>2 DEF WithDevices, IsUser
    <2> HIDE DEF w
    <2>6. sess'[k].next = w
      BY <2>3 DEF w
    <2>7. PutFits(sess'[k])
      BY <1>2, <2>4, <2>5, <2>6 DEF PutFits
    <2> QED BY <1>2, <2>7 DEF PutInv
  <1>3. CASE sess'[k].pc = "decide" /\ sess'[k].base = user /\ user.val.status = "active"
    BY <1>3
  <1>4. CASE sess'[k].pc \notin {"decide", "put"}
    BY <1>4
  <1> QED BY <1>1, <1>2, <1>3, <1>4, SessionMoves

LEMMA PutInvariant == Spec => []PutInv
  <1>1. Init => PutInv
    BY DEF Init, PutInv, Idle
  <1>2. TypeOK /\ PutInv /\ [Next]_vars => PutInv'
    BY PutInvStep
  <1> QED BY <1>1, <1>2, TypeInvariant, PTL DEF Spec

\* The record a sign-in leaves is within its own device limit, whatever the
\* record was when the sign-in came (an older build's, a limit lowered since),
\* for any number of devices and of sign-ins.
THEOREM DeviceLimit == Spec => DeviceLimitAtWrite
  <1>1. TypeOK /\ PutInv /\ [Next]_vars =>
          [\A c \in Session :
             SessionPutWins(c) => Cardinality(Held(user')) <= user'.val.max]_vars
    <2> SUFFICES ASSUME PutInv, NEW c \in Session, SessionPutWins(c)
                 PROVE  Cardinality(Held(user')) <= user'.val.max
      OBVIOUS
    <2>1. user'.val = sess[c].next /\ user' # NoNode /\ sess[c].pc = "put"
      BY DEF SessionPutWins, PutUser, NoNode
    <2> QED BY <2>1 DEF PutInv, PutFits, Held
  <1> QED BY <1>1, TypeInvariant, PutInvariant, PTL DEF Spec, DeviceLimitAtWrite

-----------------------------------------------------------------------------
(* The day stamps.                                                         *)

\* A sign-in that holds the recency map holds a true copy as long as the map
\* has the revision it was read at.
MapHolds(s) ==
  /\ s.map.seq < len
  /\ seen.seq = s.map.seq => seen = s.map

\* And then the map it is about to put has every stamp but its own as it is.
MapKeeps(s) ==
  /\ s.dev \in DOMAIN s.next
  /\ seen.seq = s.map.seq =>
       \A d \in stamped \ {s.dev} : d \in DOMAIN s.next /\ s.next[d] = SeenOf(s.map)[d]

StampInv ==
  /\ stamped \subseteq DOMAIN SeenOf(seen) /\ stamped \subseteq Held(user)
  /\ seen.seq < len
  /\ \A c \in Session : sess[c].pc \in {"put", "stamp", "stampPut"} => MapHolds(sess[c])
  /\ \A c \in Session : sess[c].pc = "stampPut" => MapKeeps(sess[c])

\* What a step does to the map: nothing, while stamps go with their devices;
\* the put of a sign-in that lands; the deletion, and every stamp with it.
SeenStep ==
  \/ /\ seen' = seen /\ len' \in {len, len + 1}
     /\ stamped' \subseteq stamped /\ stamped' \subseteq Held(user')
  \/ \E c \in Session :
       /\ sess[c].pc = "stampPut" /\ StampLands(sess[c])
       /\ seen' = [val |-> sess[c].next, seq |-> len] /\ len' = len + 1 /\ user' = user
       /\ stamped' = IF user = NoNode THEN {}
                     ELSE (stamped \union {sess[c].dev}) \intersect DOMAIN user.val.devices
  \/ seen' = NoNode /\ len' = len + 1 /\ stamped' = {} /\ user' = user

LEMMA EveryStepIsASeenStep ==
  ASSUME StampInv, [Next]_vars
  PROVE  SeenStep
  <1> USE DEF SessionUnchanged, AdminUnchanged
  <1>1. ASSUME NEW val, PutUser(val), seen' = seen PROVE SeenStep
    <2>1. user' # NoNode /\ user'.val = val /\ stamped' = stamped \intersect DOMAIN val.devices
      BY <1>1 DEF PutUser, NoNode
    <2> QED BY <1>1, <2>1 DEF SeenStep, Held, PutUser
  <1>2. ASSUME DelUser, seen' = seen PROVE SeenStep
    BY <1>2 DEF DelUser, SeenStep
  <1>3. ASSUME UNCHANGED <<user, seen, len, stamped>> PROVE SeenStep
    BY <1>3 DEF SeenStep, StampInv
  <1>4. ASSUME NEW c \in Session, SessionStampPut(c) PROVE SeenStep
    <2>1. CASE StampLands(sess[c])
      BY <1>4, <2>1 DEF SessionStampPut, SeenStep
    <2>2. CASE ~StampLands(sess[c])
      BY <1>3, <1>4, <2>2 DEF SessionStampPut
    <2> QED BY <2>1, <2>2
  <1>5. ASSUME NEW c \in Session, (\E d \in Device : SessionRead(c, d)) \/ SessionStep(c)
        PROVE  SeenStep
    <2>1. CASE SessionPutWins(c) \/ SessionPutInserts(c)
      BY <1>1, <2>1 DEF SessionPutWins, SessionPutInserts
    <2>2. CASE SessionUndo(c)
      <3>1. CASE user # NoNode /\ StillMine(c)
        BY <1>2, <2>2, <3>1 DEF SessionUndo
      <3>2. CASE ~(user # NoNode /\ StillMine(c))
        <4>1. UNCHANGED <<user, len, stamped>> /\ seen' = seen
          BY <2>2, <3>2 DEF SessionUndo
        <4> QED BY <1>3, <4>1
      <3> QED BY <3>1, <3>2
    <2>3. CASE \/ \E d \in Device : SessionRead(c, d)
               \/ SessionDecide(c) \/ SessionPutLoses(c) \/ SessionReread(c)
               \/ SessionStamp(c) \/ SessionReseen(c)
      BY <1>3, <2>3 DEF SessionRead, SessionDecide, SessionPutLoses, SessionReread, SessionStamp,
         SessionReseen
    <2> QED BY <1>4, <1>5, <2>1, <2>2, <2>3 DEF SessionStep
  <1>6. ASSUME NEW a \in Admin, (\E r \in Requests : AdminRead(a, r)) \/ AdminStep(a)
        PROVE  SeenStep
    <2>1. CASE \E r \in Requests : AdminRead(a, r)
      BY <1>3, <2>1 DEF AdminRead
    <2>2. CASE AdminWrite(a)
      BY <1>1, <2>2 DEF AdminWrite
    <2>3. CASE AdminDelete(a)
      <3>1. CASE user = NoNode
        BY <1>3, <2>3, <3>1 DEF AdminDelete
      <3>2. CASE user # NoNode
        BY <1>2, <2>3, <3>2 DEF AdminDelete
      <3> QED BY <3>1, <3>2
    <2>4. CASE AdminDeleteSeen(a)
      BY <2>4 DEF AdminDeleteSeen, SeenStep
    <2> QED BY <1>6, <2>1, <2>2, <2>3, <2>4 DEF AdminStep
  <1>7. CASE Tick \/ UNCHANGED vars
    BY <1>3, <1>7 DEF Tick, vars
  <1> QED BY <1>5, <1>6, <1>7 DEF Next

\* The map a sign-in builds has its own device, and the stamp of every other
\* device it keeps.
LEMMA NextSeenKeeps ==
  ASSUME NEW s
  PROVE  /\ s.dev \in DOMAIN NextSeen(s)
         /\ \A d \in (DOMAIN SeenOf(s.map) \intersect StampedDevices(s)) \ {s.dev} :
              d \in DOMAIN NextSeen(s) /\ NextSeen(s)[d] = SeenOf(s.map)[d]
  BY DEF NextSeen

LEMMA MapHoldsStep ==
  ASSUME TypeOK, StampInv, SeenStep, NEW s, IsSeenNode(s.map), MapHolds(s)
  PROVE  s.map.seq < len' /\ (seen'.seq = s.map.seq => seen' = s.map)
  <1>1. s.map.seq \in Nat /\ (s.map.seq = 0 => s.map = NoNode) /\ len \in Nat
    BY DEF IsSeenNode, IsNode, NoNode, TypeOK
  <1>2. CASE seen' = seen /\ len' \in {len, len + 1}
    BY <1>1, <1>2 DEF MapHolds
  <1>3. CASE seen'.seq = len /\ len' = len + 1
    BY <1>1, <1>3 DEF MapHolds
  <1>4. CASE seen' = NoNode /\ len' = len + 1
    BY <1>1, <1>4 DEF MapHolds, NoNode
  <1> QED BY <1>2, <1>3, <1>4 DEF SeenStep

LEMMA StampInvStep ==
  ASSUME TypeOK, StampInv, [Next]_vars
  PROVE  StampInv'
  <1>1. SeenStep /\ len \in Nat /\ seen.seq \in Nat /\ NoNode.seq = 0
    BY EveryStepIsASeenStep DEF TypeOK, IsSeenNode, IsNode, NoNode
  <1>2. seen'.seq < len'
    BY <1>1 DEF SeenStep, StampInv
  <1>3. ASSUME seen = NoNode PROVE stamped = {}
    BY <1>3 DEF StampInv, SeenOf, NoDevices
  <1>4. stamped' \subseteq DOMAIN SeenOf(seen') /\ stamped' \subseteq Held(user')
    <2>1. CASE /\ seen' = seen /\ stamped' \subseteq stamped /\ stamped' \subseteq Held(user')
      BY <2>1 DEF StampInv
    <2>2. ASSUME NEW c \in Session, sess[c].pc = "stampPut", StampLands(sess[c]), user' = user,
                 seen' = [val |-> sess[c].next, seq |-> len],
                 stamped' = IF user = NoNode THEN {}
                            ELSE (stamped \union {sess[c].dev}) \intersect DOMAIN user.val.devices
          PROVE  stamped' \subseteq DOMAIN SeenOf(seen') /\ stamped' \subseteq Held(user')
      <3>1. seen' # NoNode /\ SeenOf(seen') = sess[c].next
        BY <2>2 DEF NoNode, SeenOf
      <3>2. sess[c].dev \in DOMAIN sess[c].next /\ stamped \ {sess[c].dev} \subseteq DOMAIN sess[c].next
        BY <1>3, <2>2 DEF StampInv, MapKeeps, StampLands
      <3> QED BY <2>2, <3>1, <3>2 DEF Held
    <2>3. CASE stamped' = {}
      BY <2>3
    <2> QED BY <1>1, <2>1, <2>2, <2>3 DEF SeenStep
  <1>5. ASSUME NEW k \in Session
        PROVE  /\ sess'[k].pc \in {"put", "stamp", "stampPut"} =>
                    sess'[k].map.seq < len' /\ (seen'.seq = sess'[k].map.seq => seen' = sess'[k].map)
               /\ sess'[k].pc = "stampPut" =>
                    /\ sess'[k].dev \in DOMAIN sess'[k].next
                    /\ seen'.seq = sess'[k].map.seq =>
                         \A d \in stamped' \ {sess'[k].dev} :
                           d \in DOMAIN sess'[k].next
                           /\ sess'[k].next[d] = SeenOf(sess'[k].map)[d]
    <2>0. ASSUME sess[k].pc \in {"put", "stamp", "stampPut"}
          PROVE  IsSeenNode(sess[k].map) /\ MapHolds(sess[k])
      <3>1. SessionOK(sess[k])
        BY <2>0 DEF TypeOK, Idle
      <3> QED BY <2>0, <3>1 DEF SessionOK, StampInv
    <2>1. CASE sess'[k] = sess[k]
      <3>1. CASE sess[k].pc = "stampPut"
        <4>1. MapHolds(sess[k]) /\ MapKeeps(sess[k]) /\ IsSeenNode(sess[k].map)
          BY <2>0, <3>1 DEF StampInv
        <4>2. sess[k].map.seq < len' /\ (seen'.seq = sess[k].map.seq => seen' = sess[k].map)
          BY <1>1, <4>1, MapHoldsStep
        <4>3. seen'.seq = sess[k].map.seq => \/ (stamped' \subseteq stamped /\ seen'.seq = seen.seq)
                                             \/ stamped' = {}
          BY <1>1, <4>1, <2>0, <3>1 DEF SeenStep, MapHolds, IsSeenNode, IsNode
        <4> QED BY <2>1, <3>1, <4>1, <4>2, <4>3 DEF MapKeeps
      <3>2. CASE sess[k].pc # "stampPut"
        BY <1>1, <2>0, <2>1, <3>2, MapHoldsStep
      <3> QED BY <3>1, <3>2
    <2>2. CASE /\ sess[k].pc = "decide" /\ sess'[k].pc = "put"
               /\ sess'[k].map = seen /\ UNCHANGED <<seen, len>>
      BY <2>2 DEF StampInv
    <2>3. CASE /\ sess[k].pc \in {"decide", "put"} /\ sess'[k].pc = "stamp"
               /\ sess'[k].map = IF sess[k].pc = "decide" THEN seen ELSE sess[k].map
               /\ seen' = seen /\ len' \in {len, len + 1}
      <3>1. CASE sess[k].pc = "decide"
        BY <1>1, <2>3, <3>1 DEF StampInv
      <3>2. CASE sess[k].pc = "put"
        BY <1>1, <2>0, <2>3, <3>2, MapHoldsStep
      <3> QED BY <2>3, <3>1, <3>2
    <2>4. CASE /\ sess[k].pc = "reseen" /\ sess'[k].pc = "stamp" /\ sess'[k].map = seen
               /\ UNCHANGED <<seen, len>>
      BY <2>4 DEF StampInv
    <2>5. CASE /\ sess[k].pc = "stamp" /\ sess'[k].pc = "stampPut"
               /\ sess'[k].map = sess[k].map /\ sess'[k].dev = sess[k].dev
               /\ sess'[k].next = NextSeen(sess[k])
               /\ UNCHANGED <<user, seen, len, stamped>>
      <3>1. MapHolds(sess[k])
        BY <2>0, <2>5
      <3>2. sess'[k].map.seq < len' /\ (seen'.seq = sess'[k].map.seq => seen' = sess'[k].map)
        BY <2>5, <3>1 DEF MapHolds
      <3>3. sess'[k].dev \in DOMAIN sess'[k].next
        BY <2>5, NextSeenKeeps
      <3>4. ASSUME seen.seq = sess[k].map.seq, NEW d \in stamped \ {sess[k].dev}
            PROVE  d \in DOMAIN NextSeen(sess[k]) /\ NextSeen(sess[k])[d] = SeenOf(sess[k].map)[d]
        <4>1. d \in DOMAIN SeenOf(sess[k].map)
          BY <3>1, <3>4 DEF MapHolds, StampInv
        <4>2. d \in StampedDevices(sess[k])
          BY <3>4, <4>1 DEF StampedDevices, StampInv, Held
        <4> QED BY <3>4, <4>1, <4>2, NextSeenKeeps
      <3> QED BY <2>5, <3>2, <3>3, <3>4
    <2>6. CASE sess'[k].pc \notin {"put", "stamp", "stampPut"}
      BY <2>6
    <2> QED BY <2>1, <2>2, <2>3, <2>4, <2>5, <2>6, SessionMoves
  <1> QED BY <1>2, <1>4, <1>5 DEF StampInv, MapHolds, MapKeeps

\* Two devices of one household that sign in together: the write of one takes
\* the stamp of no other that was stamped since it was enrolled, for any
\* number of sign-ins, deletions and re-creations in between.
THEOREM SiblingStamps == Spec => SiblingStampKept
  <1>1. Init => StampInv
    <2> SUFFICES ASSUME Init PROVE StampInv
      OBVIOUS
    <2>1. \A c \in Session : sess[c].pc = "idle"
      BY DEF Init, Idle
    <2> QED BY <2>1 DEF Init, StampInv, NoNode
  <1>2. TypeOK /\ StampInv /\ [Next]_vars => StampInv'
    BY StampInvStep
  <1>3. TypeOK /\ StampInv /\ [Next]_vars =>
          [\A c \in Session :
             SessionStampPut(c) =>
               \A d \in stamped \ {sess[c].dev} :
                  d \in DOMAIN SeenOf(seen') /\ SeenOf(seen')[d] = SeenOf(seen)[d]]_vars
    <2> SUFFICES ASSUME TypeOK, StampInv, NEW c \in Session, SessionStampPut(c),
                        NEW d \in stamped \ {sess[c].dev}
                 PROVE  d \in DOMAIN SeenOf(seen') /\ SeenOf(seen')[d] = SeenOf(seen)[d]
      OBVIOUS
    <2>1. d \in DOMAIN SeenOf(seen) /\ seen # NoNode
      BY DEF StampInv, SeenOf, NoDevices
    <2>2. CASE ~StampLands(sess[c])
      BY <2>1, <2>2 DEF SessionStampPut
    <2>3. CASE StampLands(sess[c])
      <3>1. seen' = [val |-> sess[c].next, seq |-> len] /\ sess[c].pc = "stampPut"
        BY <2>3 DEF SessionStampPut
      <3>2. seen' # NoNode /\ SeenOf(seen') = sess[c].next
        BY <3>1 DEF SeenOf, NoNode
      <3>3. seen.seq = sess[c].map.seq
        BY <2>1, <2>3 DEF StampLands
      <3>4. seen = sess[c].map /\ d \in DOMAIN sess[c].next
            /\ sess[c].next[d] = SeenOf(sess[c].map)[d]
        BY <3>1, <3>3 DEF StampInv, MapHolds, MapKeeps
      <3> QED BY <3>2, <3>4
    <2> QED BY <2>2, <2>3
  <1> QED BY <1>1, <1>2, <1>3, TypeInvariant, PTL DEF Spec, SiblingStampKept

-----------------------------------------------------------------------------
(* Deleted accounts and disabled ones, with one operator at work at a time: *)
(* a second one may put a record back that it read before the first one's  *)
(* delete or disable, the plain puts of the admin plane being no comparison. *)

OneOperator == \A a, b \in Admin : a = b

\* The operations that put back, changed, the record they read.
Rewrites(r) == r.op \notin {"idle", "create", "delete", "deleteSeen"}

\* What a rewrite leaves alone: the key pair, unless it is a new password's,
\* and a disabled status, unless it is an enable's.
LEMMA OutcomeKeeps ==
  ASSUME NEW r, r.op \in AllOps \ {"create", "delete"}, NEW u, IsUser(u), NEW gen
  PROVE  /\ Outcome(r, u, gen).auth = IF r.op = "password" THEN gen ELSE u.auth
         /\ u.status = "disabled" /\ r.op # "enable" => Outcome(r, u, gen).status = "disabled"
  <1>1. SignOut(u) = [u EXCEPT !.tv = @ + 1, !.devices = NoDevices]
    BY DEF SignOut, NextVersion, IsUser
  <1>2. CASE r.op = "password"
    BY <1>1, <1>2 DEF Outcome, IsUser
  <1>3. CASE r.op = "disable"
    BY <1>1, <1>3 DEF Outcome, IsUser
  <1>4. CASE r.op = "enable"
    BY <1>4 DEF Outcome, IsUser
  <1>5. CASE r.op = "logout"
    BY <1>1, <1>5 DEF Outcome, IsUser
  <1>6. CASE r.op = "cap"
    BY <1>6 DEF Outcome, SetCap, IsUser
  <1>7. CASE r.op = "revokeDevice"
    BY <1>7 DEF Outcome, IsUser
  <1>8. CASE r.op = "regrant"
    BY <1>8 DEF Outcome, IsUser
  <1> QED BY <1>2, <1>3, <1>4, <1>5, <1>6, <1>7, <1>8 DEF AllOps

\* What an operation puts, seen from the record it read.
LEMMA WriteKeeps ==
  ASSUME TypeOK, NEW a \in Admin, AdminWrite(a)
  PROVE  /\ user' # NoNode
         /\ \/ /\ adm[a].op \in {"create", "password"}
               /\ user'.val.auth = lastGen + 1 /\ lastGen' = lastGen + 1
            \/ /\ Rewrites(adm[a]) /\ lastGen' = lastGen
               /\ user'.val.auth = adm[a].base.val.auth
         /\ \/ adm[a].op \in {"create", "enable"}
            \/ /\ Rewrites(adm[a])
               /\ adm[a].base.val.status = "disabled" => user'.val.status = "disabled"
  <1> DEFINE r == adm[a]
             gen == lastGen + 1
  <1>1. /\ r # AdmIdle /\ r.op \in AllOps \ {"delete"}
        /\ user' = [val |-> IF r.op = "create" THEN NewAccount(gen)
                            ELSE Outcome(r.req, r.base.val, gen), seq |-> len]
        /\ lastGen' = IF r.op \in {"create", "password"} THEN gen ELSE lastGen
    BY DEF AdminWrite, PutUser, Minting
  <1>2. r.op = r.req.op /\ IsUserNode(r.base) /\ (r.base = NoNode <=> r.op = "create")
    <2>1. AdminOK(r)
      BY <1>1 DEF TypeOK
    <2> QED BY <1>1, <2>1 DEF AdminOK, AllOps
  <1>3. user' # NoNode
    BY <1>1 DEF NoNode
  <1>4. CASE r.op = "create"
    BY <1>1, <1>3, <1>4 DEF NewAccount
  <1>5. CASE r.op # "create"
    <2>1. IsUser(r.base.val) /\ Rewrites(r)
      BY <1>1, <1>2, <1>5 DEF IsUserNode, Rewrites, AllOps
    <2>2. /\ user'.val.auth = IF r.req.op = "password" THEN gen ELSE r.base.val.auth
          /\ r.base.val.status = "disabled" /\ r.req.op # "enable" => user'.val.status = "disabled"
      BY <1>1, <1>2, <1>5, <2>1, OutcomeKeeps
    <2>3. lastGen' = IF r.op = "password" THEN gen ELSE lastGen
      BY <1>1, <1>5
    <2> HIDE DEF r, gen
    <2>4. CASE r.op = "password"
      BY <1>2, <1>3, <2>1, <2>2, <2>3, <2>4 DEF r, gen
    <2>5. CASE r.op # "password"
      BY <1>2, <1>3, <2>1, <2>2, <2>3, <2>5 DEF r, gen
    <2> QED BY <2>4, <2>5
  <1> QED BY <1>4, <1>5

\* The deleted stay dead: once no account is left every key pair minted so far
\* is of a deleted account, and so is every copy that an operation or a sign-in
\* still holds; a record back from the dead means that none was minted since.
DeadInv ==
  /\ deadGen <= lastGen
  /\ user = NoNode => lastGen <= deadGen
  /\ user # NoNode => /\ user.val.auth <= lastGen
                      /\ user.val.auth <= deadGen => lastGen <= deadGen
  /\ \A c \in Session : sess[c].pc \in {"decide", "put"} => sess[c].base.val.auth <= lastGen
  /\ \A c \in Session : sess[c].pc = "undo" => sess[c].mine.auth <= deadGen
  /\ \A a \in Admin : Rewrites(adm[a]) =>
       /\ adm[a].base.val.auth <= lastGen
       /\ adm[a].base.val.auth <= deadGen => lastGen <= deadGen

\* What a step does to the account and to the generations.
AccountStep ==
  \/ UNCHANGED <<user, lastGen, deadGen>>
  \/ \E c \in Session : SessionPutWins(c)
  \/ \E c \in Session : SessionPutInserts(c)
  \/ /\ \E c \in Session : sess[c].pc = "undo" /\ user.val = sess[c].mine
     /\ user # NoNode /\ user' = NoNode /\ UNCHANGED <<lastGen, deadGen>>
  \/ \E a \in Admin : AdminWrite(a)
  \/ \E a \in Admin : adm[a].op = "delete" /\ user' = NoNode /\ deadGen' = lastGen /\ lastGen' = lastGen

LEMMA EveryStepIsAnAccountStep ==
  ASSUME [Next]_vars
  PROVE  AccountStep
  <1> USE DEF SessionUnchanged, AdminUnchanged
  <1>1. ASSUME NEW c \in Session, (\E d \in Device : SessionRead(c, d)) \/ SessionStep(c)
        PROVE  AccountStep
    <2>1. CASE SessionPutWins(c) \/ SessionPutInserts(c)
      BY <2>1 DEF AccountStep
    <2>2. CASE SessionUndo(c)
      BY <2>2 DEF SessionUndo, StillMine, DelUser, AccountStep
    <2>3. CASE \/ \E d \in Device : SessionRead(c, d)
               \/ SessionDecide(c) \/ SessionPutLoses(c) \/ SessionReread(c)
               \/ SessionStamp(c) \/ SessionStampPut(c) \/ SessionReseen(c)
      BY <2>3 DEF SessionRead, SessionDecide, SessionPutLoses, SessionReread, SessionStamp,
         SessionStampPut, SessionReseen, AccountStep
    <2> QED BY <1>1, <2>1, <2>2, <2>3 DEF SessionStep
  <1>2. ASSUME NEW a \in Admin, (\E r \in Requests : AdminRead(a, r)) \/ AdminStep(a)
        PROVE  AccountStep
    <2>1. CASE AdminWrite(a)
      BY <2>1 DEF AccountStep
    <2>2. CASE AdminDelete(a)
      BY <2>2 DEF AdminDelete, DelUser, AccountStep
    <2>3. CASE (\E r \in Requests : AdminRead(a, r)) \/ AdminDeleteSeen(a)
      BY <2>3 DEF AdminRead, AdminDeleteSeen, AccountStep
    <2> QED BY <1>2, <2>1, <2>2, <2>3 DEF AdminStep
  <1>3. CASE Tick \/ UNCHANGED vars
    BY <1>3 DEF Tick, vars, AccountStep
  <1> QED BY <1>1, <1>2, <1>3 DEF Next

\* What the one operator holds: the record as it is, just read, or what it
\* held before, while no operator wrote.
LEMMA OperatorMoves ==
  ASSUME TypeOK, OneOperator, [Next]_vars, NEW a \in Admin
  PROVE  \/ adm'[a] = adm[a] /\ \A b \in Admin : ~AdminStep(b)
         \/ ~Rewrites(adm'[a])
         \/ /\ adm'[a].base = user /\ UNCHANGED <<user, lastGen, deadGen>>
  <1>0. adm = [b \in Admin |-> adm[b]]
    BY DEF TypeOK
  <1>1. CASE \E b \in Admin : AdminStep(b)
    <2>1. AdminStep(a)
      BY <1>1 DEF OneOperator
    <2> QED BY <1>0, <2>1 DEF AdminStep, AdminWrite, AdminDelete, AdminDeleteSeen, AdmIdle, Rewrites
  <1>2. CASE \E b \in Admin, r \in Requests : AdminRead(b, r)
    <2>1. PICK r \in Requests : AdminRead(a, r)
      BY <1>2 DEF OneOperator
    <2> QED BY <1>0, <2>1 DEF AdminRead
  <1>3. CASE adm' = adm /\ ~\E b \in Admin : AdminStep(b)
    BY <1>3
  <1>4. \/ \E b \in Admin : AdminStep(b)
        \/ \E b \in Admin, r \in Requests : AdminRead(b, r)
        \/ adm' = adm
    BY DEF Next, SessionStep, SessionRead, SessionDecide, SessionPutWins, SessionPutLoses,
       SessionReread, SessionPutInserts, SessionUndo, SessionStamp, SessionStampPut,
       SessionReseen, SessionUnchanged, Tick, vars
  <1> QED BY <1>1, <1>2, <1>3, <1>4

\* A sign-in that wins its comparison puts the key pair and the status it
\* read, and they are the account's: it is active.
LEMMA WinKeeps ==
  ASSUME RevisionInv, PutInv, NEW c \in Session, SessionPutWins(c)
  PROVE  /\ user = sess[c].base /\ user # NoNode /\ user' # NoNode
         /\ user'.val.auth = user.val.auth /\ user.val.status = "active"
         /\ UNCHANGED <<lastGen, deadGen>>
  <1>1. sess[c].pc = "put" /\ user # NoNode /\ user.seq = sess[c].base.seq
    BY DEF SessionPutWins, SameRevision
  <1>2. user = sess[c].base
    BY <1>1 DEF RevisionInv, ReadHolds
  <1>3. user' # NoNode /\ user'.val = sess[c].next /\ UNCHANGED <<lastGen, deadGen>>
    BY DEF SessionPutWins, PutUser, NoNode, SessionUnchanged
  <1> QED BY <1>1, <1>2, <1>3 DEF PutInv, PutFits

LEMMA InsertKeeps ==
  ASSUME PutInv, NEW c \in Session, SessionPutInserts(c)
  PROVE  /\ user = NoNode /\ user' # NoNode /\ sess[c].pc = "put"
         /\ user'.val.auth = sess[c].base.val.auth
         /\ UNCHANGED <<lastGen, deadGen>>
  <1>1. sess[c].pc = "put" /\ user' = [val |-> sess[c].next, seq |-> len] /\ user = NoNode
        /\ UNCHANGED <<lastGen, deadGen>>
    BY DEF SessionPutInserts, PutUser, SessionUnchanged
  <1> QED BY <1>1 DEF PutInv, PutFits, NoNode

LEMMA DeadInvStep ==
  ASSUME TypeOK, TypeOK', RevisionInv, PutInv, OneOperator, DeadInv, [Next]_vars
  PROVE  DeadInv'
  <1>0. AccountStep
    BY EveryStepIsAnAccountStep
  <1>1. /\ lastGen \in Nat /\ deadGen \in Nat /\ lastGen' \in Nat /\ deadGen' \in Nat
        /\ (user # NoNode => user.val.auth \in Nat)
        /\ (user' # NoNode => user'.val.auth \in Nat)
    BY DEF TypeOK, IsUserNode, IsUser
  <1>2. ASSUME NEW a \in Admin, Rewrites(adm[a])
        PROVE  adm[a].base.val.auth \in Nat
    <2>1. AdminOK(adm[a]) /\ adm[a].op # "deleteSeen" /\ adm[a].op # "create"
      BY <1>2 DEF TypeOK, Rewrites, AdmIdle
    <2> QED BY <2>1 DEF AdminOK, IsUserNode, IsUser
  <1>3. ASSUME NEW c \in Session, sess[c].pc \in {"decide", "put"}
        PROVE  sess[c].base.val.auth \in Nat
    <2>1. SessionOK(sess[c])
      BY <1>3 DEF TypeOK, Idle
    <2> QED BY <1>3, <2>1 DEF SessionOK, IsUserNode, IsUser
  <1>4. ASSUME NEW c \in Session, sess[c].pc = "undo"
        PROVE  sess[c].mine.auth \in Nat
    <2>1. SessionOK(sess[c])
      BY <1>4 DEF TypeOK, Idle
    <2> QED BY <1>4, <2>1 DEF SessionOK, IsUser
  <1>5. /\ deadGen' <= lastGen' /\ lastGen <= lastGen' /\ deadGen <= deadGen'
        /\ user' = NoNode => lastGen' <= deadGen'
        /\ user' # NoNode => /\ user'.val.auth <= lastGen'
                             /\ user'.val.auth <= deadGen' => lastGen' <= deadGen'
    <2>1. CASE UNCHANGED <<user, lastGen, deadGen>>
      BY <1>1, <2>1 DEF DeadInv
    <2>2. ASSUME NEW c \in Session, SessionPutWins(c) PROVE <1>5!:
      BY <1>1, <2>2, WinKeeps DEF DeadInv
    <2>3. ASSUME NEW c \in Session, SessionPutInserts(c) PROVE <1>5!:
      <3>1. sess[c].base.val.auth <= lastGen /\ sess[c].base.val.auth \in Nat
        BY <1>3, <2>3, InsertKeeps DEF DeadInv
      <3> QED BY <1>1, <2>3, <3>1, InsertKeeps DEF DeadInv
    <2>4. ASSUME NEW c \in Session, sess[c].pc = "undo", user.val = sess[c].mine,
                 user # NoNode, user' = NoNode, UNCHANGED <<lastGen, deadGen>>
          PROVE <1>5!:
      BY <1>1, <2>4 DEF DeadInv
    <2>5. ASSUME NEW a \in Admin, AdminWrite(a) PROVE <1>5!:
      <3>1. deadGen' = deadGen
        BY <2>5 DEF AdminWrite
      <3>2. CASE Rewrites(adm[a]) /\ lastGen' = lastGen /\ user'.val.auth = adm[a].base.val.auth
        BY <1>1, <1>2, <2>5, <3>1, <3>2, WriteKeeps DEF DeadInv
      <3>3. CASE user'.val.auth = lastGen + 1 /\ lastGen' = lastGen + 1
        BY <1>1, <2>5, <3>1, <3>3, WriteKeeps DEF DeadInv
      <3> QED BY <2>5, <3>2, <3>3, WriteKeeps
    <2>6. ASSUME user' = NoNode, deadGen' = lastGen, lastGen' = lastGen PROVE <1>5!:
      BY <1>1, <2>6 DEF DeadInv
    <2> QED BY <1>0, <2>1, <2>2, <2>3, <2>4, <2>5, <2>6 DEF AccountStep
  <1>6. ASSUME NEW k \in Session
        PROVE  /\ sess'[k].pc \in {"decide", "put"} => sess'[k].base.val.auth <= lastGen'
               /\ sess'[k].pc = "undo" => sess'[k].mine.auth <= deadGen'
    <2>1. CASE sess'[k] = sess[k]
      BY <1>1, <1>3, <1>4, <1>5, <2>1 DEF DeadInv
    <2>2. CASE sess'[k].pc = "decide" /\ sess'[k].base = user /\ user # NoNode
      BY <1>1, <1>5, <2>2 DEF DeadInv
    <2>3. CASE sess[k].pc = "decide" /\ sess'[k].pc = "put" /\ sess'[k].base = sess[k].base
      BY <1>1, <1>3, <1>5, <2>3 DEF DeadInv
    <2>4. CASE /\ sess[k].pc = "put" /\ sess'[k].pc = "undo" /\ sess'[k].mine = sess[k].next
               /\ user = NoNode
      <3>1. sess[k].next.auth = sess[k].base.val.auth /\ sess[k].base.val.auth \in Nat
        BY <1>3, <2>4 DEF PutInv, PutFits
      <3>2. sess[k].base.val.auth <= lastGen /\ lastGen <= deadGen
        BY <2>4 DEF DeadInv
      <3> QED BY <1>1, <1>5, <2>4, <3>1, <3>2
    <2>5. CASE sess'[k].pc \notin {"decide", "put", "undo"}
      BY <2>5
    <2> QED BY <2>1, <2>2, <2>3, <2>4, <2>5, SessionMoves
  <1>7. ASSUME NEW a \in Admin, Rewrites(adm'[a])
        PROVE  /\ adm'[a].base.val.auth <= lastGen'
               /\ adm'[a].base.val.auth <= deadGen' => lastGen' <= deadGen'
    <2>1. CASE adm'[a] = adm[a] /\ \A b \in Admin : ~AdminStep(b)
      <3>1. lastGen' = lastGen /\ deadGen' = deadGen
        BY <2>1 DEF Next, AdminStep, AdminRead, SessionStep, SessionRead, SessionDecide,
           SessionPutWins, SessionPutLoses, SessionReread, SessionPutInserts, SessionUndo,
           SessionStamp, SessionStampPut, SessionReseen, SessionUnchanged, Tick, vars
      <3> QED BY <1>7, <2>1, <3>1 DEF DeadInv
    <2>2. CASE adm'[a].base = user /\ UNCHANGED <<user, lastGen, deadGen>>
      <3>1. user # NoNode
        <4>1. AdminOK(adm'[a]) /\ adm'[a].op # "deleteSeen" /\ adm'[a].op # "create"
          BY <1>7 DEF TypeOK, Rewrites, AdmIdle
        <4> QED BY <2>2, <4>1 DEF AdminOK
      <3> QED BY <2>2, <3>1 DEF DeadInv
    <2> QED BY <1>7, <2>1, <2>2, OperatorMoves
  <1> QED BY <1>5, <1>6, <1>7 DEF DeadInv

\* The undo of a sign-in that put a deleted account back destroys no account
\* that lives, however many were deleted and created by the name meanwhile.
THEOREM UndoSafety == OneOperator => (Spec => UndoDeletesOnlyTheDead)
  <1> SUFFICES ASSUME OneOperator PROVE Spec => UndoDeletesOnlyTheDead
    OBVIOUS
  <1>1. Init => DeadInv
    <2> SUFFICES ASSUME Init PROVE DeadInv
      OBVIOUS
    <2>1. PICK u \in LegacyUsers : user = [val |-> u, seq |-> 1]
      BY DEF Init
    <2>2. user # NoNode /\ user.val.auth \in Nat /\ lastGen = user.val.auth /\ deadGen = 0
      BY <2>1, LegacyAssumption DEF Init, NoNode, IsUser
    <2>3. /\ \A c \in Session : sess[c].pc = "idle"
          /\ \A a \in Admin : ~Rewrites(adm[a])
      BY DEF Init, Idle, AdmIdle, Rewrites
    <2> QED BY <2>2, <2>3 DEF DeadInv
  <1>2. TypeOK /\ TypeOK' /\ RevisionInv /\ PutInv /\ DeadInv /\ [Next]_vars => DeadInv'
    BY DeadInvStep
  <1>3. DeadInv /\ [Next]_vars =>
          [\A c \in Session :
             SessionUndo(c) /\ user' # user => user.val.auth <= deadGen]_vars
    BY DEF DeadInv, SessionUndo, StillMine
  <1> QED BY <1>1, <1>2, <1>3, TypeInvariant, RevisionInvariant, PutInvariant, PTL
          DEF Spec, UndoDeletesOnlyTheDead

\* What an operation is about to put back is disabled when the account is.
DisabledInv ==
  \A a \in Admin :
    Rewrites(adm[a]) /\ user # NoNode /\ user.val.status = "disabled"
      => adm[a].base.val.status = "disabled"

LEMMA DisabledInvStep ==
  ASSUME TypeOK, RevisionInv, PutInv, OneOperator, DisabledInv, [Next]_vars
  PROVE  DisabledInv'
  <1> SUFFICES ASSUME NEW a \in Admin, Rewrites(adm'[a]), user' # NoNode,
                      user'.val.status = "disabled"
               PROVE  adm'[a].base.val.status = "disabled"
    BY DEF DisabledInv
  <1>1. CASE adm'[a].base = user /\ user' = user
    BY <1>1
  <1>2. CASE adm'[a] = adm[a] /\ \A b \in Admin : ~AdminStep(b)
    <2>1. CASE user' = user
      BY <1>2, <2>1 DEF DisabledInv
    <2>2. ASSUME NEW c \in Session, SessionPutWins(c) \/ SessionPutInserts(c) PROVE FALSE
      <3>1. sess[c].pc = "put" /\ user'.val = sess[c].next
        BY <2>2 DEF SessionPutWins, SessionPutInserts, PutUser
      <3> QED BY <3>1 DEF PutInv, PutFits
    <2>3. CASE user' # user /\ ~\E c \in Session : SessionPutWins(c) \/ SessionPutInserts(c)
      <3>1. AccountStep
        BY EveryStepIsAnAccountStep
      <3>2. \A b \in Admin : ~AdminWrite(b)
        BY <1>2 DEF AdminStep
      <3> QED BY <2>3, <3>1, <3>2 DEF AccountStep
    <2> QED BY <2>1, <2>2, <2>3
  <1> QED BY <1>1, <1>2, OperatorMoves

\* A disabled account stays disabled until an operator enables it, or creates
\* it anew, whatever sign-ins were under way when it was disabled.
THEOREM DisableSafety == OneOperator => (Spec => DisableSticks)
  <1> SUFFICES ASSUME OneOperator PROVE Spec => DisableSticks
    OBVIOUS
  <1>1. Init => DisabledInv
    BY DEF Init, AdmIdle, Rewrites, DisabledInv
  <1>2. TypeOK /\ RevisionInv /\ PutInv /\ DisabledInv /\ [Next]_vars => DisabledInv'
    BY DisabledInvStep
  <1>3. TypeOK /\ RevisionInv /\ PutInv /\ DisabledInv /\ [Next]_vars =>
          [user # NoNode /\ user' # NoNode /\ user.val.status = "disabled"
             => \/ user'.val.status = "disabled"
                \/ \E a \in Admin : adm[a] # AdmIdle /\ adm[a].op \in {"enable", "create"}
                                     /\ AdminWrite(a)]_vars
    <2> SUFFICES ASSUME TypeOK, RevisionInv, PutInv, DisabledInv, Next, user # NoNode, user' # NoNode,
                        user.val.status = "disabled", user'.val.status # "disabled"
                 PROVE  \E a \in Admin : adm[a] # AdmIdle /\ adm[a].op \in {"enable", "create"}
                                         /\ AdminWrite(a)
      OBVIOUS
    <2>1. AccountStep
      BY EveryStepIsAnAccountStep
    <2>2. ASSUME NEW c \in Session, SessionPutWins(c) \/ SessionPutInserts(c) PROVE FALSE
      BY <2>2, WinKeeps, InsertKeeps
    <2>3. PICK a \in Admin : AdminWrite(a)
      BY <2>1, <2>2 DEF AccountStep
    <2>4. adm[a] # AdmIdle /\ adm[a].op \in {"enable", "create"}
      BY <2>3, WriteKeeps DEF AdminWrite, DisabledInv
    <2> QED BY <2>3, <2>4
  <1> QED BY <1>1, <1>2, <1>3, TypeInvariant, RevisionInvariant, PutInvariant, PTL
          DEF Spec, DisableSticks
-----------------------------------------------------------------------------
(* A deleted account does not come back in silence, where the operators do *)
(* nothing but delete and create: an operation that read the record while  *)
(* it was back may put it again after the undo, which nobody notices.      *)

OnlyRemakes == AdminOps \subseteq {"create", "delete"}

\* A record back from the dead was warned about, or the sign-in that put it
\* back, with these very keys, is about to undo it.
BackInv ==
  /\ deadGen <= lastGen
  /\ user # NoNode /\ user.val.auth <= deadGen =>
       \/ user.val.auth \in warned
       \/ \E c \in Session : sess[c].pc = "undo" /\ sess[c].mine.auth = user.val.auth

\* What a step does to the warnings and to a sign-in that is about to undo.
LEMMA UndoMoves ==
  ASSUME TypeOK, [Next]_vars
  PROVE  \/ \E c \in Session : SessionUndo(c)
         \/ /\ warned' = warned
            /\ \A d \in Session : sess[d].pc = "undo" => sess'[d] = sess[d]
  <1>0. sess = [d \in Session |-> sess[d]]
    BY DEF TypeOK
  <1>1. ASSUME NEW c \in Session, (\E d \in Device : SessionRead(c, d)) \/ SessionStep(c),
               ~SessionUndo(c)
        PROVE  /\ warned' = warned
               /\ \A d \in Session : sess[d].pc = "undo" => sess'[d] = sess[d]
    <2>1. /\ warned' = warned /\ sess[c].pc # "undo"
          /\ \A d \in Session : d # c => sess'[d] = sess[d]
      BY <1>0, <1>1 DEF SessionStep, SessionRead, SessionDecide, SessionPutWins, SessionPutLoses,
         SessionReread, SessionPutInserts, SessionStamp, SessionStampPut, SessionReseen, Idle
    <2> QED BY <2>1
  <1>2. CASE (\E a \in Admin : (\E r \in Requests : AdminRead(a, r)) \/ AdminStep(a)) \/ Tick \/ UNCHANGED vars
    BY <1>2 DEF AdminRead, AdminStep, AdminWrite, AdminDelete, AdminDeleteSeen, AdminUnchanged, Tick, vars
  <1> QED BY <1>1, <1>2 DEF Next, SessionStep

LEMMA BackInvStep ==
  ASSUME TypeOK, TypeOK', RevisionInv, PutInv, OnlyRemakes, BackInv, [Next]_vars
  PROVE  BackInv'
  <1>0. AccountStep
    BY EveryStepIsAnAccountStep
  <1>1. /\ lastGen \in Nat /\ deadGen \in Nat /\ lastGen' \in Nat /\ deadGen' \in Nat
        /\ sess = [d \in Session |-> sess[d]]
    BY DEF TypeOK
  <1>2. ASSUME NEW a \in Admin, AdminWrite(a) PROVE BackInv'
    <2>1. ~Rewrites(adm[a])
      <3>1. adm[a] # AdmIdle /\ adm[a].op \in AllOps \ {"delete"} /\ AdminOK(adm[a])
        BY <1>2 DEF AdminWrite, TypeOK
      <3>2. adm[a].op \in AdminOps
        BY <3>1 DEF AdminOK, Requests, AllOps
      <3> QED BY <3>2 DEF OnlyRemakes, Rewrites
    <2>2. user'.val.auth = lastGen + 1 /\ lastGen' = lastGen + 1 /\ deadGen' = deadGen
      BY <1>2, <2>1, WriteKeeps DEF AdminWrite
    <2> QED BY <1>1, <2>2 DEF BackInv
  <1>3. ASSUME user' = NoNode, lastGen' = lastGen, deadGen' \in {deadGen, lastGen} PROVE BackInv'
    BY <1>1, <1>3 DEF BackInv
  <1>4. ASSUME NEW c \in Session, SessionUndo(c) PROVE BackInv'
    <2>1. sess[c].pc = "undo" /\ UNCHANGED <<lastGen, deadGen>>
          /\ \A d \in Session : d # c => sess'[d] = sess[d]
      BY <1>1, <1>4 DEF SessionUndo, SessionUnchanged
    <2>2. CASE user # NoNode /\ StillMine(c)
      BY <1>3, <1>4, <2>1, <2>2 DEF SessionUndo, DelUser
    <2>3. CASE ~(user # NoNode /\ StillMine(c))
      <3>1. /\ user' = user
            /\ warned' = IF user # NoNode /\ user.val.auth = sess[c].mine.auth
                         THEN warned \union {user.val.auth} ELSE warned
        BY <1>4, <2>3 DEF SessionUndo
      <3> QED BY <2>1, <3>1 DEF BackInv
    <2> QED BY <2>2, <2>3
  <1>5. ASSUME NEW c \in Session, SessionPutInserts(c) PROVE BackInv'
    <2>1. sess[c].pc = "put" /\ user'.val = sess[c].next /\ UNCHANGED <<lastGen, deadGen>>
          /\ sess'[c].pc = "undo" /\ sess'[c].mine = sess[c].next
      BY <1>1, <1>5 DEF SessionPutInserts, PutUser, AfterInsert, SessionUnchanged
    <2> QED BY <2>1 DEF BackInv
  <1>6. CASE /\ warned' = warned
             /\ \A d \in Session : sess[d].pc = "undo" => sess'[d] = sess[d]
    <2>1. CASE UNCHANGED <<user, lastGen, deadGen>>
      BY <1>6, <2>1 DEF BackInv
    <2>2. ASSUME NEW c \in Session, SessionPutWins(c) PROVE BackInv'
      BY <1>6, <2>2, WinKeeps DEF BackInv
    <2> QED BY <1>0, <1>2, <1>3, <1>5, <2>1, <2>2 DEF AccountStep
  <1> QED BY <1>4, <1>6, UndoMoves

\* A deleted account that a racing sign-in put back is about to be undone, or
\* was warned about (rpc.js:348, "the account is back ... so it is logged"), for
\* any number of sign-ins, and of operators who delete and create.
THEOREM NothingSilentlyBack == OnlyRemakes => (Spec => []NeverSilentlyBack)
  <1> SUFFICES ASSUME OnlyRemakes PROVE Spec => []NeverSilentlyBack
    OBVIOUS
  <1>1. Init => BackInv
    <2> SUFFICES ASSUME Init PROVE BackInv
      OBVIOUS
    <2>1. PICK u \in LegacyUsers : user = [val |-> u, seq |-> 1]
      BY DEF Init
    <2>2. user.val.auth \in Nat \ {0} /\ lastGen = user.val.auth /\ deadGen = 0
      BY <2>1, LegacyAssumption DEF Init, IsUser
    <2> QED BY <2>2 DEF BackInv
  <1>2. TypeOK /\ TypeOK' /\ RevisionInv /\ PutInv /\ BackInv /\ [Next]_vars => BackInv'
    BY BackInvStep
  <1>3. BackInv => NeverSilentlyBack
    BY DEF BackInv, NeverSilentlyBack, Idle
  <1> QED BY <1>1, <1>2, <1>3, TypeInvariant, RevisionInvariant, PutInvariant, PTL DEF Spec
=============================================================================
