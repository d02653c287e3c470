----------------------------- MODULE SourceSync ------------------------------
(***************************************************************************)
(* An imported source of the panel (panel/src/sources.js): the periodic    *)
(* sync that makes the catalog follow a provider's feed, the operator's    *)
(* edits of the source, its removal by purge or by detaching, and the      *)
(* batch purge of streams both rest on (ops.js deleteStreams).  The panel  *)
(* is one process: an operation runs until it awaits, and in between any   *)
(* other may run or the panel may crash.  sources.json and the secrets are *)
(* files; catalog records and the grants of the users live in the bee.     *)
(*                                                                         *)
(* One source and one user stand for all; a key is the number of its       *)
(* minting; a feed is the set of channels in it and its number, and its    *)
(* ETag is the feed itself.                                                *)
(***************************************************************************)
EXTENDS Integers, FiniteSets

CONSTANTS
  Ids,          \* the channels a provider may list
  BusyEdits,    \* does the operator edit the source while it is syncing
  BusyDeletes,  \* does a deletion of single channels overlap the source's work
  ContentTags,  \* has a feed listed a second time its old ETag again
  MaxChanges,   \* bound: feeds, edits, removals, registrations, deletions
  MaxCrashes    \* bound

ASSUME FlagAssumption  == {BusyEdits, BusyDeletes, ContentTags} \subseteq BOOLEAN
ASSUME BoundAssumption == {MaxChanges, MaxCrashes} \subseteq Nat

VARIABLES
  feed,         \* what the provider lists
  source,       \* the record of sources.json
  catalog,      \* per channel: "none", "owned" by the source, "manual"
  secret,       \* per channel, the key in the secrets file; 0: none
  held,         \* per channel, the key sealed to the user; 0: none
  sync,         \* the sync in flight
  removal,      \* the removal in flight
  purge,        \* per caller, the deleteStreams in flight
  up,
  minted,       \* how many keys were minted
  dead,         \* history: per channel, the last key a purge revoked
  taken,        \* history: what the operator deleted since a feed was applied
  changes, crashes

bee   == <<catalog, held>>
files == <<source, secret, minted>>
run   == <<sync, removal, purge>>
past  == <<dead, taken>>
vars  == <<feed, bee, files, run, up, past, changes, crashes>>

NoTag   == [ids |-> {}, number |-> -1]
Callers == {"sync", "remove", "delete"}
Off     == [step |-> "off"]

Owned == {i \in Ids : catalog[i] = "owned"}

\* The schedules of the operator's deletions that a run looks at.
Apart(idle) == BusyDeletes \/ idle

Changing == changes < MaxChanges /\ changes' = changes + 1

-----------------------------------------------------------------------------
(* The provider and the registry. *)

FeedChanges ==
  /\ Changing
  /\ \E ids \in SUBSET Ids \ {feed.ids} :
       feed' = [ids |-> ids, number |-> IF ContentTags THEN 0 ELSE changes']
  /\ UNCHANGED <<bee, files, run, up, past, crashes>>

TagKept(tag)  == tag
\* setSource: what the same bytes map to changes, so the ETag goes.
TagReset(tag) == NoTag

Exclude ==
  /\ up /\ source.there /\ Changing
  /\ sync.step = "off" \/ BusyEdits
  /\ \E skip \in SUBSET Ids \ {source.skip} :
       source' = [source EXCEPT !.skip = skip, !.etag = TagReset(@)]
  /\ UNCHANGED <<feed, bee, secret, minted, run, up, past, crashes>>

Fresh == [there |-> TRUE, enabled |-> TRUE, etag |-> NoTag, skip |-> {}]

AddSource ==
  /\ up /\ ~source.there /\ Changing
  /\ source' = Fresh
  /\ UNCHANGED <<feed, bee, secret, minted, run, up, past, crashes>>

-----------------------------------------------------------------------------
(* deleteStreams: a look for the records, then grants, records, secrets. *)

Purging(c, step) == up /\ purge[c].step = step

Begun(ids) == [step |-> "asked", ids |-> ids]

\* A channel that is gone by now ends the purge with an error, and the sync that
\* asked for it; only the removal of a source goes on with the others.
PurgeChecks(c) ==
  /\ Purging(c, "asked")
  /\ LET found  == {i \in purge[c].ids : catalog[i] # "none"}
         throws == c # "remove" /\ found # purge[c].ids
     IN  /\ purge' = [purge EXCEPT ![c] = IF throws \/ found = {} THEN Off
                                          ELSE [step |-> "open", ids |-> found]]
         /\ sync' = IF c = "sync" /\ throws THEN Off ELSE sync
  /\ UNCHANGED <<feed, bee, files, removal, up, past, changes, crashes>>

\* The pass over the users reads a snapshot and puts whole records.
PurgeOpens(c) ==
  /\ Purging(c, "open")
  /\ purge' = [purge EXCEPT ![c] = [step |-> "strip", ids |-> @.ids, seen |-> held]]
  /\ UNCHANGED <<feed, bee, files, sync, removal, up, past, changes, crashes>>

PurgeStrips(c) ==
  /\ Purging(c, "strip")
  /\ LET ids  == purge[c].ids
         seen == purge[c].seen
     IN  /\ held' = IF \E i \in ids : seen[i] # 0
                    THEN [i \in Ids |-> IF i \in ids THEN 0 ELSE seen[i]]
                    ELSE held
         /\ purge' = [purge EXCEPT ![c] = [step |-> "erase", ids |-> ids, left |-> ids]]
  /\ UNCHANGED <<feed, catalog, files, sync, removal, up, past, changes, crashes>>

PurgeErases(c) ==
  /\ Purging(c, "erase")
  /\ \E i \in purge[c].left :
       /\ catalog' = [catalog EXCEPT ![i] = "none"]
       /\ purge' = [purge EXCEPT ![c].left = @ \ {i}]
       /\ dead' = [dead EXCEPT ![i] = secret[i]]
  /\ UNCHANGED <<feed, held, files, sync, removal, up, taken, changes, crashes>>

Without(keys, ids) == [i \in Ids |-> IF i \in ids THEN 0 ELSE keys[i]]

PurgeForgets(c) ==
  /\ Purging(c, "erase") /\ purge[c].left = {}
  /\ secret' = Without(secret, purge[c].ids)
  /\ purge' = [purge EXCEPT ![c] = Off]
  /\ UNCHANGED <<feed, bee, source, minted, sync, removal, up, past, changes, crashes>>

Delete(i) ==
  /\ up /\ purge["delete"] = Off /\ Apart(sync = Off /\ removal = Off) /\ catalog[i] # "none" /\ Changing
  /\ purge' = [purge EXCEPT !["delete"] = Begun({i})]
  /\ taken' = taken \union {i}
  /\ UNCHANGED <<feed, bee, files, sync, removal, up, dead, crashes>>

-----------------------------------------------------------------------------
(* The sync. *)

Syncing(step) == up /\ sync.step = step

Ungated   == TRUE
\* A removal holds the name: no sync starts.
MayStart  == removal = Off

SyncStarts ==
  /\ up /\ sync = Off /\ source.there /\ Apart(purge["delete"] = Off)
  /\ MayStart
  /\ sync' = [step |-> "fetch", skip |-> source.skip, etag |-> source.etag]
  /\ UNCHANGED <<feed, bee, files, removal, purge, up, past, changes, crashes>>

\* The provider answers with the feed, or that it has not changed.
Answered ==
  /\ Syncing("fetch")
  /\ sync' = [step |-> IF feed = sync.etag THEN "owned" ELSE "scan", got |-> feed, skip |-> sync.skip]
  /\ UNCHANGED <<feed, bee, files, removal, purge, up, past, changes, crashes>>

Unanswered ==
  /\ Syncing("fetch")
  /\ sync' = Off
  /\ UNCHANGED <<feed, bee, files, removal, purge, up, past, changes, crashes>>

\* applyFeed reads the whole catalog, and purges what the feed has not any more.
Scan ==
  /\ Syncing("scan")
  /\ LET want == sync.got.ids \ sync.skip
     IN  /\ sync' = [step |-> "purge", got |-> sync.got, want |-> want, current |-> catalog]
         /\ purge' = IF Owned \subseteq want THEN purge
                     ELSE [purge EXCEPT !["sync"] = Begun(Owned \ want)]
  /\ UNCHANGED <<feed, bee, files, removal, up, past, changes, crashes>>

Remints(i) == sync.current[i] # "manual"
Reuses(i) == sync.current[i] # "manual" /\ secret[i] = 0
\* What a channel of the feed gets a new key for: it had no record, or no key.
Mints(i)  == sync.current[i] = "none" \/ (sync.current[i] = "owned" /\ secret[i] = 0)

\* From the secrets to the last look at the registry nothing is awaited.
Mint ==
  /\ Syncing("purge") /\ purge["sync"] = Off
  /\ IF ~source.there THEN sync' = Off /\ UNCHANGED <<secret, minted, taken>>
     ELSE /\ taken' = {}
          /\ secret' = [i \in Ids |-> IF i \in sync.want /\ Mints(i) THEN minted + 1 ELSE secret[i]]
          /\ minted' = IF \E i \in sync.want : Mints(i) THEN minted + 1 ELSE minted
          /\ \E changed \in SUBSET {i \in sync.want : sync.current[i] = "owned"} :
               sync' = [step |-> "put", got |-> sync.got,
                        puts |-> changed \union {i \in sync.want : sync.current[i] = "none"}]
  /\ UNCHANGED <<feed, bee, source, removal, purge, up, dead, changes, crashes>>

Put ==
  /\ Syncing("put")
  /\ \E i \in sync.puts :
       /\ catalog' = [catalog EXCEPT ![i] = "owned"]
       /\ sync' = [sync EXCEPT !.puts = @ \ {i}]
  /\ UNCHANGED <<feed, held, files, removal, purge, up, past, changes, crashes>>

PutsDone ==
  /\ Syncing("put") /\ sync.puts = {}
  /\ sync' = [step |-> "owned", got |-> sync.got]
  /\ UNCHANGED <<feed, bee, files, removal, purge, up, past, changes, crashes>>

\* reconcileGrants: the owned channels, then the secrets and a pass over the users.
GrantsOpen ==
  /\ Syncing("owned")
  /\ sync' = [step |-> "grant", got |-> sync.got, ids |-> Owned, keys |-> secret, seen |-> held]
  /\ UNCHANGED <<feed, bee, files, removal, purge, up, past, changes, crashes>>

GrantsSealed ==
  /\ Syncing("grant")
  /\ LET lacks == {i \in sync.ids : sync.seen[i] = 0 /\ sync.keys[i] # 0}
     IN  held' = IF lacks = {} THEN held
                 ELSE [i \in Ids |-> IF i \in lacks THEN sync.keys[i] ELSE sync.seen[i]]
  /\ sync' = [step |-> "save", got |-> sync.got]
  /\ UNCHANGED <<feed, catalog, files, removal, purge, up, past, changes, crashes>>

\* The registry is read again before the ETag is stored.
SyncSaves ==
  /\ Syncing("save")
  /\ source' = IF source.there THEN [source EXCEPT !.etag = sync.got] ELSE source
  /\ sync' = Off
  /\ UNCHANGED <<feed, bee, secret, minted, removal, purge, up, past, changes, crashes>>

-----------------------------------------------------------------------------
(* The removal. *)

Removing(step) == up /\ removal.step = step

Remove ==
  /\ up /\ removal = Off /\ source.there /\ Apart(purge["delete"] = Off) /\ Changing
  /\ source' = [source EXCEPT !.enabled = FALSE]
  /\ \E keep \in BOOLEAN : removal' = [step |-> "join", keep |-> keep]
  /\ UNCHANGED <<feed, bee, secret, minted, sync, purge, up, past, crashes>>

\* It waits for the sync that was running.
Joined == sync = Off

RemoveLists ==
  /\ Removing("join") /\ Joined
  /\ removal' = [step |-> "clear", keep |-> removal.keep, got |-> {},
                 left |-> IF removal.keep THEN Owned ELSE {}]
  /\ purge' = IF removal.keep \/ Owned = {} THEN purge ELSE [purge EXCEPT !["remove"] = Begun(Owned)]
  /\ UNCHANGED <<feed, bee, files, sync, up, past, changes, crashes>>

\* Detached, a channel is an ordinary one: its record is read, and put back
\* without the source.
DetachReads ==
  /\ Removing("clear") /\ removal.got = {}
  /\ \E i \in removal.left :
       removal' = [removal EXCEPT !.left = @ \ {i}, !.got = IF catalog[i] = "none" THEN {} ELSE {i}]
  /\ UNCHANGED <<feed, bee, files, sync, purge, up, past, changes, crashes>>

DetachPuts ==
  /\ Removing("clear") /\ removal.got # {}
  /\ catalog' = [i \in Ids |-> IF i \in removal.got THEN "manual" ELSE catalog[i]]
  /\ removal' = [removal EXCEPT !.got = {}]
  /\ UNCHANGED <<feed, held, files, sync, purge, up, past, changes, crashes>>

RemoveEnds ==
  /\ Removing("clear") /\ removal.left \union removal.got = {} /\ purge["remove"] = Off
  /\ source' = [source EXCEPT !.there = FALSE]
  /\ removal' = Off
  /\ UNCHANGED <<feed, bee, secret, minted, sync, purge, up, past, changes, crashes>>

-----------------------------------------------------------------------------
Crash ==
  /\ up /\ crashes < MaxCrashes /\ crashes' = crashes + 1
  /\ up' = FALSE /\ sync' = Off /\ removal' = Off /\ purge' = [c \in Callers |-> Off]
  /\ UNCHANGED <<feed, bee, files, past, changes>>

Boot ==
  /\ ~up /\ up' = TRUE
  /\ UNCHANGED <<feed, bee, files, run, past, changes, crashes>>

Init ==
  /\ feed = [ids |-> Ids, number |-> 0] /\ source = Fresh
  /\ catalog = [i \in Ids |-> "none"] /\ secret = [i \in Ids |-> 0] /\ held = [i \in Ids |-> 0]
  /\ sync = Off /\ removal = Off /\ purge = [c \in Callers |-> Off]
  /\ up = TRUE /\ minted = 0 /\ dead = [i \in Ids |-> 0] /\ taken = {}
  /\ changes = 0 /\ crashes = 0

PurgeSteps(c) == PurgeChecks(c) \/ PurgeOpens(c) \/ PurgeStrips(c) \/ PurgeErases(c) \/ PurgeForgets(c)
SyncSteps     == Scan \/ Mint \/ Put \/ PutsDone \/ GrantsOpen \/ GrantsSealed \/ SyncSaves
RemoveSteps   == RemoveLists \/ DetachReads \/ DetachPuts \/ RemoveEnds

Next ==
  \/ FeedChanges \/ Exclude \/ AddSource \/ Remove
  \/ \E i \in Ids : Delete(i)
  \/ SyncStarts \/ Answered \/ Unanswered \/ SyncSteps \/ RemoveSteps
  \/ \E c \in Callers : PurgeSteps(c)
  \/ Crash \/ Boot

\* The scheduler starts a sync of an enabled source again and again, and the
\* provider answers now and then; what runs goes on; a dead panel is restarted.
Spec ==
  /\ Init /\ [][Next]_vars
  /\ WF_vars(source.enabled /\ SyncStarts) /\ SF_vars(Answered) /\ WF_vars(SyncSteps)
  /\ WF_vars(RemoveSteps) /\ \A c \in Callers : WF_vars(PurgeSteps(c))
  /\ WF_vars(Boot)

-----------------------------------------------------------------------------
(* Properties. *)

Feeds == [ids : SUBSET Ids, number : Int]
Keys  == [Ids -> Nat]
Kinds == {"none", "owned", "manual"}

Syncs ==
  {Off}
  \union [step : {"fetch"}, skip : SUBSET Ids, etag : Feeds]
  \union [step : {"owned", "scan"}, got : Feeds, skip : SUBSET Ids]
  \union [step : {"purge"}, got : Feeds, want : SUBSET Ids, current : [Ids -> Kinds]]
  \union [step : {"put"}, got : Feeds, puts : SUBSET Ids]
  \union [step : {"owned", "save"}, got : Feeds]
  \union [step : {"grant"}, got : Feeds, ids : SUBSET Ids, keys : Keys, seen : Keys]
Removals ==
  {Off}
  \union [step : {"join"}, keep : BOOLEAN]
  \union [step : {"clear"}, keep : BOOLEAN, got : SUBSET Ids, left : SUBSET Ids]
Purges ==
  {Off}
  \union [step : {"asked", "open"}, ids : SUBSET Ids]
  \union [step : {"strip"}, ids : SUBSET Ids, seen : Keys]
  \union [step : {"erase"}, ids : SUBSET Ids, left : SUBSET Ids]

\* The type invariant.
TypeOK ==
  /\ feed \in Feeds
  /\ source \in [there : BOOLEAN, enabled : BOOLEAN, etag : Feeds, skip : SUBSET Ids]
  /\ catalog \in [Ids -> Kinds]
  /\ secret \in Keys /\ held \in Keys /\ dead \in Keys
  /\ sync \in Syncs /\ removal \in Removals /\ purge \in [Callers -> Purges]
  /\ up \in BOOLEAN /\ taken \subseteq Ids
  /\ minted \in Nat /\ changes \in Nat /\ crashes \in Nat

Quiet == up /\ sync = Off /\ removal = Off /\ \A c \in Callers : purge[c] = Off

\* No channel is left owned by a source that is gone, where no sync would ever
\* repair it: a sync that fetched before a removal writes nothing after it.
NoZombie == Quiet /\ ~source.there => Owned = {}

\* A purge revokes: a key that was sealed to somebody before a channel was
\* purged is sealed to nobody after, also when a crash left the secret behind
\* and the feed lists the channel again.
PurgeRevokes ==
  [][\A i \in Ids : held'[i] # held[i] /\ held'[i] # 0 => held'[i] > dead[i]]_vars

\* A grant opens its channel: at rest the sealed key is the channel's.
GrantsFit == Quiet => \A i \in Ids : held[i] # 0 => held[i] = secret[i]

Follows ==
  LET want == {i \in feed.ids \ source.skip : catalog[i] # "manual"}
  IN  want \ taken \subseteq Owned /\ Owned \subseteq want /\ \A i \in Owned : secret[i] # 0 /\ held[i] = secret[i]

\* Once the provider and the operator rest, the catalog of an enabled source is
\* its feed less what was excluded and what the operator deleted since, each
\* channel with a key the user holds.
Converges == <>[](source.there /\ source.enabled => Follows)
=============================================================================
