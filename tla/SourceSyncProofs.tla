--------------------------- MODULE SourceSyncProofs ---------------------------
(***************************************************************************)
(* What the sync of a source, its removal and its purges keep, for any     *)
(* number of channels, changes and crashes.                                *)
(*                                                                         *)
(* The first invariant says who still has to clear away what a source that *)
(* is being removed owns; it needs nothing.  The second says that the      *)
(* purges, the sync and the removal exclude one another where they write   *)
(* from what they read before, and what their snapshots are then worth; it *)
(* needs that no single channel is deleted while they run.                 *)
(***************************************************************************)
EXTENDS SourceSync, TLAPS

\* What a purge in flight has still to erase.
Doomed(p) == IF p.step \in {"asked", "open", "strip"} THEN p.ids ELSE IF p.step = "erase" THEN p.left ELSE {}

\* A source that is gone left nothing, and one that goes has somebody to clear
\* away each channel it owns.
Cleared ==
  /\ ~source.there => sync = Off /\ removal = Off /\ Owned = {}
  /\ removal.step = "clear" => sync = Off /\ Owned \subseteq removal.left \union removal.got \union Doomed(purge["remove"])
  /\ purge["remove"] # Off => removal.step = "clear"

ZInv == TypeOK /\ Cleared

\* One purge at a time, and only beside what waits for it.
Exclusive ==
  /\ purge["delete"] # Off => sync = Off /\ removal = Off
  /\ purge["sync"] # Off => sync.step = "purge"

\* A key is sealed to the user only where it is the channel's, and a channel
\* that is there has none, or one that no purge has revoked.
Sealed ==
  /\ \A i \in Ids : held[i] # 0 => held[i] = secret[i] /\ catalog[i] # "none"
  /\ \A i \in Ids : dead[i] <= minted /\ secret[i] <= minted
  /\ \A i \in Ids : catalog[i] # "none" => secret[i] = 0 \/ secret[i] > dead[i]

\* What a purge has read, and what it has revoked already.
PurgesFit ==
  /\ \A c \in Callers : purge[c].step = "strip" => purge[c].seen = held
  /\ \A c \in Callers : purge[c].step = "erase" =>
       purge[c].left \subseteq purge[c].ids /\ \A i \in purge[c].ids : held[i] = 0

\* What the sync has read.
SyncFits ==
  /\ sync.step = "purge" =>
       /\ \A i \in Ids : sync.current[i] = "none" => catalog[i] = "none"
       /\ \A i \in sync.want : catalog[i] = sync.current[i]
       /\ purge["sync"] # Off => purge["sync"].ids \intersect sync.want = {}
  /\ sync.step = "put" => \A i \in sync.puts : secret[i] > dead[i]
  /\ sync.step = "grant" => sync.keys = secret /\ sync.seen = held /\ sync.ids = Owned

GInv == Exclusive /\ Sealed /\ PurgesFit /\ SyncFits

\* A removal that detaches purges nothing, and the record it has read is there
\* until it puts it back.
Detaching ==
  removal.step = "clear" =>
    /\ removal.left \union removal.got # {} => purge["remove"] = Off
    /\ \A i \in removal.got : catalog[i] # "none"

IInv == ZInv /\ (BusyDeletes \/ (GInv /\ Detaching))

-----------------------------------------------------------------------------
(* Shapes. *)

\* What a purge in flight is made of, by its step.
LEMMA PurgeShape ==
  ASSUME NEW p \in Purges
  PROVE  /\ p.step \in {"off", "asked", "open", "strip", "erase"}
         /\ p.step = "off" <=> p = Off
         /\ p.step # "off" => p.ids \in SUBSET Ids
         /\ p.step = "strip" => p.seen \in Keys
         /\ p.step = "erase" => p.left \in SUBSET Ids
  BY DEF Purges, Off

\* The purges there can be.
LEMMA PurgeIn ==
  ASSUME NEW ids \in SUBSET Ids, NEW left \in SUBSET Ids, NEW seen \in Keys
  PROVE  /\ Off \in Purges
         /\ [step |-> "asked", ids |-> ids] \in Purges
         /\ [step |-> "open", ids |-> ids] \in Purges
         /\ [step |-> "strip", ids |-> ids, seen |-> seen] \in Purges
         /\ [step |-> "erase", ids |-> ids, left |-> left] \in Purges
  BY DEF Purges

\* One channel less to erase.
LEMMA PurgeLess ==
  ASSUME NEW p \in Purges, p.step = "erase", NEW left \in SUBSET Ids
  PROVE  /\ [p EXCEPT !.left = left] \in Purges
         /\ [p EXCEPT !.left = left].step = "erase"
         /\ [p EXCEPT !.left = left].left = left
         /\ [p EXCEPT !.left = left].ids = p.ids
<1>1. p \in [step : {"erase"}, ids : SUBSET Ids, left : SUBSET Ids]
  BY DEF Purges, Off
<1>2. [p EXCEPT !.left = left] \in [step : {"erase"}, ids : SUBSET Ids, left : SUBSET Ids]
  BY <1>1
<1> QED BY <1>1, <1>2 DEF Purges

\* What a sync in flight is made of, by its step.
LEMMA SyncShape ==
  ASSUME NEW s \in Syncs
  PROVE  /\ s.step \in {"off", "fetch", "scan", "owned", "purge", "put", "grant", "save"}
         /\ s.step = "off" <=> s = Off
         /\ s.step = "fetch" => s.skip \in SUBSET Ids /\ s.etag \in Feeds
         /\ s.step \notin {"off", "fetch", "grant"} => s.got \in Feeds
         /\ s.step = "scan" => s.skip \in SUBSET Ids
         /\ s.step = "purge" => s.want \in SUBSET Ids /\ s.current \in [Ids -> Kinds]
         /\ s.step = "put" => s.puts \in SUBSET Ids
         /\ s.step = "grant" => s.ids \in SUBSET Ids /\ s.keys \in Keys /\ s.seen \in Keys
         /\ s.step = "grant" => s.got \in Feeds
  BY DEF Syncs, Off

\* The syncs there can be.
LEMMA SyncIn ==
  ASSUME NEW got \in Feeds, NEW ids \in SUBSET Ids, NEW current \in [Ids -> Kinds],
         NEW keys \in Keys, NEW seen \in Keys
  PROVE  /\ Off \in Syncs
         /\ [step |-> "fetch", skip |-> ids, etag |-> got] \in Syncs
         /\ [step |-> "owned", got |-> got, skip |-> ids] \in Syncs
         /\ [step |-> "scan", got |-> got, skip |-> ids] \in Syncs
         /\ [step |-> "purge", got |-> got, want |-> ids, current |-> current] \in Syncs
         /\ [step |-> "put", got |-> got, puts |-> ids] \in Syncs
         /\ [step |-> "owned", got |-> got] \in Syncs
         /\ [step |-> "grant", got |-> got, ids |-> ids, keys |-> keys, seen |-> seen] \in Syncs
         /\ [step |-> "save", got |-> got] \in Syncs
  BY DEF Syncs

\* One record less to put.
LEMMA SyncLess ==
  ASSUME NEW s \in Syncs, s.step = "put", NEW puts \in SUBSET Ids
  PROVE  /\ [s EXCEPT !.puts = puts] \in Syncs
         /\ [s EXCEPT !.puts = puts].step = "put"
         /\ [s EXCEPT !.puts = puts].puts = puts
<1>1. s \in [step : {"put"}, got : Feeds, puts : SUBSET Ids]
  BY DEF Syncs, Off
<1>2. [s EXCEPT !.puts = puts] \in [step : {"put"}, got : Feeds, puts : SUBSET Ids]
  BY <1>1
<1> QED BY <1>1, <1>2 DEF Syncs

\* What a removal in flight is made of, by its step.
LEMMA RemovalShape ==
  ASSUME NEW r \in Removals
  PROVE  /\ r.step \in {"off", "join", "clear"}
         /\ r.step = "off" <=> r = Off
         /\ r.step # "off" => r.keep \in BOOLEAN
         /\ r.step = "clear" => r.left \in SUBSET Ids /\ r.got \in SUBSET Ids
  BY DEF Removals, Off

\* The removals there can be.
LEMMA RemovalIn ==
  ASSUME NEW left \in SUBSET Ids, NEW keep \in BOOLEAN
  PROVE  /\ Off \in Removals
         /\ [step |-> "join", keep |-> keep] \in Removals
         /\ [step |-> "clear", keep |-> keep, got |-> {}, left |-> left] \in Removals
  BY DEF Removals

\* One channel less to detach: its record is read, or was gone.
LEMMA ReadParts ==
  ASSUME TypeOK, DetachReads
  PROVE  \E i \in removal.left :
           /\ removal'.step = "clear" /\ removal'.left = removal.left \ {i}
           /\ catalog[i] = "none" => removal'.got = {}
           /\ catalog[i] # "none" => removal'.got = {i}
           /\ removal.got = {} /\ removal.step = "clear" /\ removal.left \subseteq Ids
           /\ removal' \in Removals
<1>1. removal \in [step : {"clear"}, keep : BOOLEAN, got : SUBSET Ids, left : SUBSET Ids]
  BY DEF DetachReads, Removing, TypeOK, Removals, Off
<1>2. PICK i \in removal.left :
        removal' = [removal EXCEPT !.left = @ \ {i}, !.got = IF catalog[i] = "none" THEN {} ELSE {i}]
  BY DEF DetachReads
<1> DEFINE g == IF catalog[i] = "none" THEN {} ELSE {i}
<1>3. g \in SUBSET Ids
  BY <1>1
<1>4. removal' = [removal EXCEPT !.left = removal.left \ {i}, !.got = g]
  BY <1>2
<1>5. (catalog[i] = "none" => g = {}) /\ (catalog[i] # "none" => g = {i})
  OBVIOUS
<1> HIDE DEF g
<1>6. /\ removal' \in [step : {"clear"}, keep : BOOLEAN, got : SUBSET Ids, left : SUBSET Ids]
      /\ removal'.step = "clear" /\ removal'.left = removal.left \ {i} /\ removal'.got = g
  BY <1>1, <1>3, <1>4
<1>7. removal' \in Removals
  BY <1>6 DEF Removals
<1>8. removal.got = {} /\ removal.step = "clear" /\ removal.left \subseteq Ids
  BY <1>1 DEF DetachReads
<1>9. /\ catalog[i] = "none" => removal'.got = {}
      /\ catalog[i] # "none" => removal'.got = {i}
  BY <1>5, <1>6
<1> QED BY <1>6, <1>7, <1>8, <1>9

\* And put back without the source.
LEMMA PutParts ==
  ASSUME TypeOK, DetachPuts
  PROVE  /\ removal'.step = "clear" /\ removal'.left = removal.left /\ removal'.got = {}
         /\ removal' \in Removals
<1>1. removal \in [step : {"clear"}, keep : BOOLEAN, got : SUBSET Ids, left : SUBSET Ids]
  BY DEF DetachPuts, Removing, TypeOK, Removals, Off
<1>2. removal' = [removal EXCEPT !.got = {}]
  BY DEF DetachPuts
<1>3. {} \in SUBSET Ids
  OBVIOUS
<1>4. /\ removal' \in [step : {"clear"}, keep : BOOLEAN, got : SUBSET Ids, left : SUBSET Ids]
      /\ removal'.step = "clear" /\ removal'.left = removal.left /\ removal'.got = {}
  BY <1>1, <1>2, <1>3
<1> QED BY <1>4 DEF Removals

\* What one who deletes finds, and what becomes of the purge and of the sync.
LEMMA CheckParts ==
  ASSUME TypeOK, NEW c \in Callers, PurgeChecks(c)
  PROVE  /\ UNCHANGED <<catalog, secret, held, source, removal, dead, minted>>
         /\ purge[c].step = "asked" /\ purge[c] # Off
         /\ purge' \in [Callers -> Purges] /\ sync' \in Syncs
         /\ \A d \in Callers : d # c => purge'[d] = purge[d]
         /\ \/ purge'[c] = Off
            \/ purge'[c].step = "open" /\ purge'[c].ids \subseteq purge[c].ids /\ sync' = sync
         /\ sync' = sync \/ (sync' = Off /\ c = "sync")
         /\ c = "remove" => \A i \in purge[c].ids : catalog[i] = "none" \/ i \in Doomed(purge'[c])
<1> DEFINE found  == {i \in purge[c].ids : catalog[i] # "none"}
           throws == c # "remove" /\ found # purge[c].ids
           next   == IF throws \/ found = {} THEN Off ELSE [step |-> "open", ids |-> found]
<1>1. /\ UNCHANGED <<catalog, secret, held, source, removal, dead, minted>>
      /\ purge[c].step = "asked" /\ purge' = [purge EXCEPT ![c] = next]
      /\ sync' = IF c = "sync" /\ throws THEN Off ELSE sync
  BY DEF PurgeChecks, Purging, bee, files, past
<1>2. purge \in [Callers -> Purges] /\ sync \in Syncs
  BY DEF TypeOK
<1>3. purge[c].ids \in SUBSET Ids /\ purge[c] # Off
  BY <1>1, <1>2, PurgeShape
<1>4. found \in SUBSET Ids /\ found \subseteq purge[c].ids
  BY <1>3
<1>5. Off \in Purges /\ Off \in Syncs
  BY DEF Purges, Syncs
<1>6. [step |-> "open", ids |-> found] \in Purges
  BY <1>4 DEF Purges
<1>7. purge' \in [Callers -> Purges] /\ sync' \in Syncs
  BY <1>1, <1>2, <1>5, <1>6
<1>8. purge'[c] = next /\ \A d \in Callers : d # c => purge'[d] = purge[d]
  BY <1>1, <1>2
<1>9. \/ purge'[c] = Off
      \/ purge'[c].step = "open" /\ purge'[c].ids = found /\ ~throws
  BY <1>8
<1>10. c = "remove" => \A i \in purge[c].ids : catalog[i] = "none" \/ i \in Doomed(purge'[c])
  BY <1>8 DEF Doomed
<1> QED BY <1>1, <1>3, <1>4, <1>7, <1>8, <1>9, <1>10

-----------------------------------------------------------------------------
(* Types. *)

\* Every step keeps the types.
LEMMA TypeStep == TypeOK /\ [Next]_vars => TypeOK'
<1> SUFFICES ASSUME TypeOK, [Next]_vars PROVE TypeOK'
  OBVIOUS
<1>t. NoTag \in Feeds /\ Owned \in SUBSET Ids /\ held \in Keys /\ catalog \in [Ids -> Kinds]
  BY DEF NoTag, Feeds, Owned, TypeOK
<1>p. \A c \in Callers : purge[c] \in Purges
  BY DEF TypeOK
<1>b. \A ids \in SUBSET Ids : Begun(ids) \in Purges
  BY PurgeIn, <1>t DEF Begun
<1>1. CASE FeedChanges
  BY <1>1 DEF FeedChanges, Changing, TypeOK, Feeds, bee, files, run, past
<1>2. CASE Exclude
  <2>1. source' \in [there : BOOLEAN, enabled : BOOLEAN, etag : Feeds, skip : SUBSET Ids]
    BY <1>2, <1>t DEF Exclude, TagReset, TypeOK
  <2> QED BY <1>2, <2>1 DEF Exclude, Changing, TypeOK, bee, run, past
<1>3. CASE AddSource
  BY <1>3, <1>t DEF AddSource, Fresh, Changing, TypeOK, bee, run, past
<1>4. CASE Remove
  <2>1. source' \in [there : BOOLEAN, enabled : BOOLEAN, etag : Feeds, skip : SUBSET Ids]
    BY <1>4 DEF Remove, TypeOK
  <2>2. removal' \in Removals
    BY <1>4, RemovalIn DEF Remove
  <2> QED BY <1>4, <2>1, <2>2 DEF Remove, Changing, TypeOK, bee, past
<1>5. ASSUME NEW i \in Ids, Delete(i) PROVE TypeOK'
  <2>1. Begun({i}) \in Purges
    BY <1>b
  <2>2. purge' \in [Callers -> Purges] /\ taken' \subseteq Ids
    BY <1>5, <2>1 DEF Delete, TypeOK
  <2> QED BY <1>5, <2>2 DEF Delete, Changing, TypeOK, bee, files
<1>6. CASE SyncStarts
  <2>1. sync' \in Syncs
    BY <1>6, <1>t, SyncIn DEF SyncStarts, TypeOK
  <2> QED BY <1>6, <2>1 DEF SyncStarts, TypeOK, bee, files, past
<1>7. CASE Answered
  <2>1. sync.skip \in SUBSET Ids /\ feed \in Feeds
    BY <1>7, SyncShape DEF Answered, Syncing, TypeOK
  <2>2. sync' \in Syncs
    BY <1>7, <1>t, <2>1, SyncIn DEF Answered
  <2> QED BY <1>7, <2>2 DEF Answered, TypeOK, bee, files, past
<1>8. CASE Unanswered
  BY <1>8, <1>t, SyncIn DEF Unanswered, TypeOK, bee, files, past
<1>9. CASE Scan
  <2>1. sync.got \in Feeds /\ sync.got.ids \ sync.skip \in SUBSET Ids
    BY <1>9, SyncShape DEF Scan, Syncing, TypeOK, Feeds
  <2>2. sync' \in Syncs
    BY <1>9, <1>t, <2>1, SyncIn DEF Scan
  <2>3. Begun(Owned \ (sync.got.ids \ sync.skip)) \in Purges
    BY <1>b, <1>t
  <2>4. purge' \in [Callers -> Purges]
    BY <1>9, <2>3 DEF Scan, TypeOK
  <2> QED BY <1>9, <2>2, <2>4 DEF Scan, TypeOK, bee, files, past
<1>10. CASE Mint
  <2>1. sync.got \in Feeds /\ sync.want \in SUBSET Ids
    BY <1>10, SyncShape DEF Mint, Syncing, TypeOK
  <2>2. CASE ~source.there
    BY <1>10, <2>2, <1>t, SyncIn DEF Mint, TypeOK, bee
  <2>3. CASE source.there
    <3>1. secret' \in Keys /\ minted' \in Nat /\ taken' \subseteq Ids
      BY <1>10, <2>3 DEF Mint, TypeOK, Keys
    <3>2. PICK changed \in SUBSET {i \in sync.want : sync.current[i] = "owned"} :
            sync' = [step |-> "put", got |-> sync.got,
                     puts |-> changed \union {i \in sync.want : sync.current[i] = "none"}]
      BY <1>10, <2>3 DEF Mint
    <3>3. changed \union {i \in sync.want : sync.current[i] = "none"} \in SUBSET Ids
      BY <2>1
    <3>4. sync' \in Syncs
      BY <1>t, <2>1, <3>2, <3>3, SyncIn
    <3> QED BY <1>10, <3>1, <3>4 DEF Mint, TypeOK, bee
  <2> QED BY <2>2, <2>3
<1>11. CASE Put
  <2>1. PICK i \in sync.puts : /\ catalog' = [catalog EXCEPT ![i] = "owned"]
                               /\ sync' = [sync EXCEPT !.puts = @ \ {i}]
    BY <1>11 DEF Put
  <2>2. sync' \in Syncs
    BY <1>11, <2>1, SyncShape, SyncLess DEF Put, Syncing, TypeOK
  <2>3. catalog' \in [Ids -> Kinds]
    BY <2>1 DEF TypeOK, Kinds
  <2> QED BY <1>11, <2>2, <2>3 DEF Put, TypeOK, files, past
<1>12. CASE PutsDone
  BY <1>12, <1>t, SyncShape, SyncIn DEF PutsDone, Syncing, TypeOK, bee, files, past
<1>13. CASE GrantsOpen
  <2>1. sync.got \in Feeds /\ secret \in Keys
    BY <1>13, SyncShape DEF GrantsOpen, Syncing, TypeOK
  <2>2. sync' \in Syncs
    BY <1>13, <1>t, <2>1, SyncIn DEF GrantsOpen
  <2> QED BY <1>13, <2>2 DEF GrantsOpen, TypeOK, bee, files, past
<1>14. CASE GrantsSealed
  <2>1. sync.got \in Feeds /\ sync.keys \in Keys /\ sync.seen \in Keys
    BY <1>14, SyncShape DEF GrantsSealed, Syncing, TypeOK
  <2>2. sync' \in Syncs
    BY <1>14, <1>t, <2>1, SyncIn DEF GrantsSealed
  <2>3. held' \in Keys
    BY <1>14, <2>1 DEF GrantsSealed, TypeOK, Keys
  <2> QED BY <1>14, <2>2, <2>3 DEF GrantsSealed, TypeOK, files, past
<1>15. CASE SyncSaves
  <2>1. sync.got \in Feeds
    BY <1>15, SyncShape DEF SyncSaves, Syncing, TypeOK
  <2>2. source' \in [there : BOOLEAN, enabled : BOOLEAN, etag : Feeds, skip : SUBSET Ids]
    BY <1>15, <2>1 DEF SyncSaves, TypeOK
  <2>3. sync' \in Syncs
    BY <1>15, <1>t, SyncIn DEF SyncSaves
  <2> QED BY <1>15, <2>2, <2>3 DEF SyncSaves, TypeOK, bee, past
<1>16. CASE RemoveLists
  <2>1. removal' \in Removals
    BY <1>16, <1>t, RemovalShape, RemovalIn DEF RemoveLists, Removing, TypeOK
  <2>2. purge' \in [Callers -> Purges]
    BY <1>16, <1>b, <1>t DEF RemoveLists, TypeOK
  <2> QED BY <1>16, <2>1, <2>2 DEF RemoveLists, TypeOK, bee, files, past
<1>17. CASE DetachReads
  <2>1. removal' \in Removals
    BY <1>17, ReadParts
  <2> QED BY <1>17, <2>1 DEF DetachReads, TypeOK, bee, files, past
<1>18. CASE DetachPuts
  <2>1. removal' \in Removals
    BY <1>18, PutParts
  <2>2. catalog' \in [Ids -> Kinds]
    BY <1>18 DEF DetachPuts, TypeOK, Kinds
  <2> QED BY <1>18, <2>1, <2>2 DEF DetachPuts, TypeOK, files, past
<1>19. ASSUME NEW c \in Callers, PurgeChecks(c) PROVE TypeOK'
  <2>1. purge' \in [Callers -> Purges] /\ sync' \in Syncs
    BY <1>19, CheckParts
  <2> QED BY <1>19, <2>1 DEF PurgeChecks, TypeOK, bee, files, past
<1>20. CASE RemoveEnds
  BY <1>20, RemovalIn DEF RemoveEnds, TypeOK, bee, past
<1>21. ASSUME NEW c \in Callers, PurgeOpens(c) PROVE TypeOK'
  <2>1. [step |-> "strip", ids |-> purge[c].ids, seen |-> held] \in Purges
    BY <1>21, <1>t, <1>p, PurgeShape, PurgeIn DEF PurgeOpens, Purging
  <2>2. purge' = [purge EXCEPT ![c] = [step |-> "strip", ids |-> purge[c].ids, seen |-> held]]
    BY <1>21 DEF PurgeOpens, TypeOK
  <2> QED BY <1>21, <2>1, <2>2 DEF PurgeOpens, TypeOK, bee, files, past
<1>22. ASSUME NEW c \in Callers, PurgeStrips(c) PROVE TypeOK'
  <2>1. purge[c].ids \in SUBSET Ids /\ purge[c].seen \in Keys
    BY <1>22, <1>p, PurgeShape DEF PurgeStrips, Purging
  <2>2. [step |-> "erase", ids |-> purge[c].ids, left |-> purge[c].ids] \in Purges
    BY <1>t, <2>1, PurgeIn
  <2>3. held' \in Keys
    BY <1>22, <2>1 DEF PurgeStrips, TypeOK, Keys
  <2> QED BY <1>22, <2>2, <2>3 DEF PurgeStrips, TypeOK, files, past
<1>23. ASSUME NEW c \in Callers, PurgeErases(c) PROVE TypeOK'
  <2>1. PICK i \in purge[c].left : /\ catalog' = [catalog EXCEPT ![i] = "none"]
                                   /\ purge' = [purge EXCEPT ![c].left = @ \ {i}]
                                   /\ dead' = [dead EXCEPT ![i] = secret[i]]
    BY <1>23 DEF PurgeErases
  <2>2. purge[c] \in Purges /\ purge[c].step = "erase" /\ purge[c].left \in SUBSET Ids
    BY <1>23, <1>p, PurgeShape DEF PurgeErases, Purging
  <2>3. [purge[c] EXCEPT !.left = @ \ {i}] \in Purges
    BY <2>2, PurgeLess
  <2>4. purge' = [purge EXCEPT ![c] = [purge[c] EXCEPT !.left = @ \ {i}]]
    BY <2>1 DEF TypeOK
  <2>5. purge' \in [Callers -> Purges]
    BY <2>3, <2>4 DEF TypeOK
  <2>6. catalog' \in [Ids -> Kinds] /\ dead' \in Keys
    BY <2>1, <2>2 DEF TypeOK, Kinds, Keys
  <2> QED BY <1>23, <2>5, <2>6 DEF PurgeErases, TypeOK, files
<1>24. ASSUME NEW c \in Callers, PurgeForgets(c) PROVE TypeOK'
  <2>1. secret' \in Keys
    BY <1>24 DEF PurgeForgets, Without, TypeOK, Keys
  <2>2. purge' \in [Callers -> Purges]
    BY <1>24, <1>t, PurgeIn DEF PurgeForgets, TypeOK
  <2> QED BY <1>24, <2>1, <2>2 DEF PurgeForgets, TypeOK, bee, past
<1>25. CASE Crash
  <2>1. sync' \in Syncs /\ removal' \in Removals /\ Off \in Purges
    BY <1>25, <1>t, SyncIn, RemovalIn, PurgeIn DEF Crash
  <2>2. purge' \in [Callers -> Purges]
    BY <1>25, <2>1 DEF Crash
  <2>3. up' \in BOOLEAN
    BY <1>25 DEF Crash
  <2>4. crashes' \in Nat
    BY <1>25 DEF Crash, TypeOK
  <2>5. UNCHANGED <<feed, source, catalog, secret, held, dead, taken, minted, changes>>
    BY <1>25 DEF Crash, bee, files, past
  <2> QED BY <2>1, <2>2, <2>3, <2>4, <2>5 DEF TypeOK
<1>26. CASE Boot
  BY <1>26 DEF Boot, TypeOK, bee, files, run, past
<1>27. CASE UNCHANGED vars
  BY <1>27 DEF vars, TypeOK, bee, files, run, past
<1> QED
  BY <1>1, <1>2, <1>3, <1>4, <1>5, <1>6, <1>7, <1>8, <1>9, <1>10, <1>11, <1>12, <1>13, <1>14,
     <1>15, <1>16, <1>17, <1>18, <1>19, <1>20, <1>21, <1>22, <1>23, <1>24, <1>25, <1>26, <1>27
  DEF Next, SyncSteps, RemoveSteps, PurgeSteps

-----------------------------------------------------------------------------
(* No zombie. *)

\* Every step keeps it that what is removed is cleared away by somebody.
LEMMA ClearedStep == ZInv /\ TypeOK' /\ [Next]_vars => Cleared'
<1> SUFFICES ASSUME ZInv, TypeOK', [Next]_vars PROVE Cleared'
  OBVIOUS
<1>t. /\ purge["remove"] \in Purges /\ sync \in Syncs /\ removal \in Removals
      /\ purge'["remove"] \in Purges /\ sync' \in Syncs /\ removal' \in Removals
      /\ purge \in [Callers -> Purges]
  BY DEF ZInv, TypeOK, Callers
<1>c. Cleared
  BY DEF ZInv
<1>o. Off.step = "off" /\ Doomed(Off) = {}
  BY DEF Off, Doomed
<1>s. /\ sync = Off <=> sync.step = "off"
      /\ removal = Off <=> removal.step = "off"
      /\ removal.step = "clear" => sync = Off
      /\ ~source.there => sync = Off /\ removal = Off /\ Owned = {}
  BY <1>t, <1>c, SyncShape, RemovalShape DEF Cleared
<1>1. ASSUME UNCHANGED <<sync, removal, purge, catalog>>, source'.there = source.there
      PROVE  Cleared'
  <2>1. Owned' = Owned
    BY <1>1 DEF Owned
  <2> QED BY <1>1, <2>1, <1>c DEF Cleared
<1>2. CASE FeedChanges \/ Exclude \/ Boot
  BY <1>1, <1>2 DEF FeedChanges, Exclude, Boot, bee, files, run, ZInv, TypeOK
<1>3. CASE AddSource
  <2>1. Owned' = Owned /\ source'.there /\ UNCHANGED <<sync, removal, purge>>
    BY <1>3 DEF AddSource, Fresh, Owned, bee, run
  <2> QED BY <2>1, <1>c DEF Cleared
<1>4. CASE Remove
  <2>1. Owned' = Owned /\ source'.there /\ removal'.step = "join" /\ purge' = purge
    BY <1>4 DEF Remove, Owned, bee, ZInv, TypeOK
  <2>2. purge["remove"] = Off
    BY <1>4, <1>c, <1>s, <1>o DEF Remove, Cleared
  <2> QED BY <2>1, <2>2 DEF Cleared
<1>5. ASSUME NEW i \in Ids, Delete(i) PROVE Cleared'
  <2>1. Owned' = Owned /\ UNCHANGED <<sync, removal, source>>
    BY <1>5 DEF Delete, Owned, bee, files
  <2>2. purge'["remove"] = purge["remove"]
    BY <1>5, <1>t DEF Delete, Callers
  <2> QED BY <2>1, <2>2, <1>c DEF Cleared
<1>6. ASSUME UNCHANGED <<source, removal>>, purge'["remove"] = purge["remove"], Owned' = Owned,
             source.there, removal.step # "clear"
      PROVE  Cleared'
  BY <1>6, <1>c DEF Cleared
<1>7. CASE SyncStarts
  <2>1. removal.step # "clear"
    BY <1>7, <1>o DEF SyncStarts, MayStart
  <2> QED BY <1>6, <1>7, <2>1 DEF SyncStarts, Owned, bee, files
<1>8. ASSUME sync # Off PROVE source.there /\ removal.step # "clear"
  BY <1>8, <1>s
<1>9. CASE Answered \/ Unanswered \/ PutsDone \/ GrantsOpen \/ GrantsSealed \/ Scan
  <2>1. sync # Off
    BY <1>9, <1>o DEF Answered, Unanswered, PutsDone, GrantsOpen, GrantsSealed, Scan, Syncing
  <2>2. UNCHANGED <<source, removal, catalog>>
    BY <1>9 DEF Answered, Unanswered, PutsDone, GrantsOpen, GrantsSealed, Scan, bee, files
  <2>3. purge'["remove"] = purge["remove"]
    BY <1>9, <1>t DEF Answered, Unanswered, PutsDone, GrantsOpen, GrantsSealed, Scan, Callers
  <2>4. Owned' = Owned
    BY <2>2 DEF Owned
  <2> QED BY <1>6, <1>8, <2>1, <2>2, <2>3, <2>4
<1>10. CASE Mint
  <2>1. sync # Off
    BY <1>10, <1>o DEF Mint, Syncing
  <2> QED BY <1>6, <1>8, <1>10, <2>1 DEF Mint, Owned, bee
<1>11. CASE Put
  <2>1. sync # Off
    BY <1>11, <1>o DEF Put, Syncing
  <2> QED BY <1>8, <1>11, <2>1, <1>c DEF Put, Cleared, files
<1>12. CASE SyncSaves
  <2>1. sync # Off
    BY <1>12, <1>o DEF SyncSaves, Syncing
  <2>2. source'.there /\ Owned' = Owned /\ UNCHANGED <<removal, purge>>
    BY <1>8, <1>12, <2>1 DEF SyncSaves, Owned, bee, ZInv, TypeOK
  <2> QED BY <1>8, <2>1, <2>2, <1>c DEF Cleared
<1>13. CASE RemoveLists
  <2>1. /\ sync' = Off /\ Owned' = Owned /\ UNCHANGED source
        /\ removal'.step = "clear" /\ removal'.left = (IF removal.keep THEN Owned ELSE {})
        /\ removal'.got = {}
    BY <1>13 DEF RemoveLists, Joined, Owned, bee, files
  <2>2. source.there
    BY <1>13, <1>s DEF RemoveLists, Removing
  <2>3. CASE removal.keep \/ Owned = {}
    BY <1>13, <2>1, <2>2, <2>3 DEF RemoveLists, Cleared
  <2>4. CASE ~removal.keep /\ Owned # {}
    <3>1. purge'["remove"] = Begun(Owned)
      BY <1>13, <2>4, <1>t DEF RemoveLists, Callers
    <3>2. Doomed(purge'["remove"]) = Owned
      BY <3>1 DEF Begun, Doomed, Owned
    <3> QED BY <2>1, <2>2, <3>2 DEF Cleared
  <2> QED BY <2>3, <2>4
<1>14. CASE DetachReads
  <2>1. PICK i \in removal.left :
          /\ removal'.step = "clear" /\ removal'.left = removal.left \ {i}
          /\ catalog[i] = "none" => removal'.got = {}
          /\ catalog[i] # "none" => removal'.got = {i}
          /\ removal.got = {} /\ removal.step = "clear" /\ removal.left \subseteq Ids
    BY <1>14, ReadParts DEF ZInv
  <2>2. Owned' = Owned /\ (catalog[i] = "none" => i \notin Owned)
    BY <1>14 DEF DetachReads, Owned, bee
  <2>3. UNCHANGED <<sync, purge, source>>
    BY <1>14 DEF DetachReads, files
  <2>4. source.there
    BY <1>s, <2>1
  <2> QED BY <1>c, <2>1, <2>2, <2>3, <2>4 DEF Cleared
<1>15. CASE DetachPuts
  <2>1. removal.step = "clear" /\ source.there
    BY <1>15, <1>s DEF DetachPuts, Removing
  <2>2. removal'.step = "clear" /\ removal'.left = removal.left /\ removal'.got = {}
    BY <1>15, PutParts DEF ZInv
  <2>3. Owned' = Owned \ removal.got
    BY <1>15 DEF DetachPuts, Owned
  <2>4. UNCHANGED <<sync, purge, source>>
    BY <1>15 DEF DetachPuts, files
  <2> QED BY <1>c, <2>1, <2>2, <2>3, <2>4 DEF Cleared
<1>16. ASSUME NEW c \in Callers, PurgeChecks(c) PROVE Cleared'
  <2>1. /\ UNCHANGED <<source, removal>> /\ Owned' = Owned
        /\ sync' = sync \/ sync' = Off
        /\ purge[c].step = "asked" /\ purge[c] # Off
        /\ c # "remove" => purge'["remove"] = purge["remove"]
        /\ c = "remove" => \A i \in purge[c].ids : catalog[i] = "none" \/ i \in Doomed(purge'[c])
    BY <1>16, CheckParts DEF ZInv, Owned, Callers
  <2>2. CASE c # "remove"
    BY <2>1, <2>2, <1>c DEF Cleared
  <2>3. CASE c = "remove"
    <3>1. Doomed(purge["remove"]) = purge["remove"].ids
      BY <2>1, <2>3 DEF Doomed
    <3>2. Doomed(purge["remove"]) \intersect Owned \subseteq Doomed(purge'["remove"])
      BY <2>1, <2>3, <3>1 DEF Owned
    <3> QED BY <2>1, <2>3, <3>2, <1>c DEF Cleared
  <2> QED BY <2>2, <2>3
<1>17. CASE RemoveEnds
  <2>1. removal.step = "clear" /\ removal.left \union removal.got = {} /\ purge["remove"] = Off
    BY <1>17 DEF RemoveEnds, Removing
  <2>2. Owned = {}
    BY <2>1, <1>c, <1>o DEF Cleared
  <2>3. removal' = Off /\ UNCHANGED <<sync, purge>> /\ Owned' = Owned
    BY <1>17 DEF RemoveEnds, Owned, bee
  <2> QED BY <1>c, <1>o, <2>1, <2>2, <2>3 DEF Cleared
<1>18. ASSUME NEW c \in Callers, PurgeSteps(c), ~PurgeErases(c), ~PurgeChecks(c) PROVE Cleared'
  <2>1. UNCHANGED <<sync, removal, source>> /\ Owned' = Owned
    BY <1>18 DEF PurgeSteps, PurgeOpens, PurgeStrips, PurgeForgets, Owned, bee, files
  <2>2. CASE c # "remove"
    <3>1. purge'["remove"] = purge["remove"]
      BY <1>18, <2>2, <1>t DEF PurgeSteps, PurgeOpens, PurgeStrips, PurgeForgets, Callers
    <3> QED BY <2>1, <3>1, <1>c DEF Cleared
  <2>3. CASE c = "remove"
    <3>1. purge["remove"] # Off
      BY <1>18, <2>3, <1>o DEF PurgeSteps, PurgeOpens, PurgeStrips, PurgeForgets, Purging
    <3>2. CASE PurgeOpens(c)
      <4>1. /\ purge["remove"].step = "open" /\ purge'["remove"].step = "strip"
            /\ purge'["remove"].ids = purge["remove"].ids
        BY <3>2, <2>3, <1>t DEF PurgeOpens, Purging, Callers
      <4>2. Doomed(purge'["remove"]) = Doomed(purge["remove"])
        BY <4>1 DEF Doomed
      <4> QED BY <2>1, <3>1, <4>2, <1>c DEF Cleared
    <3>3. CASE PurgeStrips(c)
      <4>1. /\ purge["remove"].step = "strip" /\ purge'["remove"].step = "erase"
            /\ purge'["remove"].left = purge["remove"].ids
        BY <3>3, <2>3, <1>t DEF PurgeStrips, Purging, Callers
      <4>2. Doomed(purge'["remove"]) = Doomed(purge["remove"])
        BY <4>1 DEF Doomed
      <4> QED BY <2>1, <3>1, <4>2, <1>c DEF Cleared
    <3>4. CASE PurgeForgets(c)
      <4>1. purge["remove"].step = "erase" /\ purge["remove"].left = {} /\ purge'["remove"] = Off
        BY <3>4, <2>3, <1>t DEF PurgeForgets, Purging, Callers
      <4>2. Doomed(purge'["remove"]) = Doomed(purge["remove"])
        BY <4>1, <1>o DEF Doomed
      <4> QED BY <2>1, <3>1, <4>2, <1>c DEF Cleared
    <3> QED BY <1>18, <3>2, <3>3, <3>4 DEF PurgeSteps
  <2> QED BY <2>2, <2>3
<1>19. ASSUME NEW c \in Callers, PurgeErases(c) PROVE Cleared'
  <2>1. PICK i \in purge[c].left : /\ catalog' = [catalog EXCEPT ![i] = "none"]
                                   /\ purge' = [purge EXCEPT ![c].left = @ \ {i}]
    BY <1>19 DEF PurgeErases
  <2>2. purge[c] \in Purges /\ purge[c].step = "erase" /\ purge[c].left \in SUBSET Ids
    BY <1>19, <1>t, PurgeShape DEF PurgeErases, Purging
  <2>3. Owned' = Owned \ {i} /\ UNCHANGED <<sync, removal, source>>
    BY <1>19, <2>1, <2>2 DEF Owned, ZInv, TypeOK, PurgeErases, files
  <2>4. CASE c # "remove"
    <3>1. purge'["remove"] = purge["remove"]
      BY <2>1, <2>4, <1>t DEF Callers
    <3> QED BY <2>3, <3>1, <1>c DEF Cleared
  <2>5. CASE c = "remove"
    <3>1. purge'["remove"] = [purge["remove"] EXCEPT !.left = purge["remove"].left \ {i}]
      BY <2>1, <2>5, <1>t DEF Callers
    <3>2. purge'["remove"].step = "erase" /\ purge'["remove"].left = purge["remove"].left \ {i}
      BY <2>2, <2>5, <3>1, PurgeLess
    <3>3. Doomed(purge'["remove"]) = Doomed(purge["remove"]) \ {i} /\ purge["remove"] # Off
      BY <2>2, <2>5, <3>2, <1>o DEF Doomed
    <3> QED BY <2>3, <3>3, <1>c DEF Cleared
  <2> QED BY <2>4, <2>5
<1>20. CASE Crash
  <2>1. sync' = Off /\ removal' = Off /\ purge'["remove"] = Off /\ source' = source /\ Owned' = Owned
    BY <1>20 DEF Crash, Callers, Owned, bee, files
  <2> QED BY <2>1, <1>c, <1>o DEF Cleared
<1>21. CASE UNCHANGED vars
  BY <1>1, <1>21 DEF vars, bee, files, run
<1> QED
  BY <1>2, <1>3, <1>4, <1>5, <1>7, <1>9, <1>10, <1>11, <1>12, <1>13, <1>14, <1>17, <1>18, <1>19,
     <1>15, <1>16, <1>20, <1>21
  DEF Next, SyncSteps, RemoveSteps

\* Both hold at the start.
LEMMA ZInit == Init => ZInv
<1> SUFFICES ASSUME Init PROVE ZInv
  OBVIOUS
<1>1. sync \in Syncs /\ removal \in Removals /\ Off \in Purges
  BY DEF Init, Syncs, Removals, Purges
<1>2. TypeOK
  BY <1>1 DEF Init, TypeOK, Feeds, Keys, Kinds, Fresh, NoTag
<1>3. Cleared
  BY DEF Init, Cleared, Fresh, Off, Callers
<1> QED BY <1>2, <1>3 DEF ZInv

\* The types, and that what is removed is cleared away, in every behaviour.
THEOREM Clearing == Spec => []ZInv
<1>1. Init => ZInv
  BY ZInit
<1>2. ZInv /\ [Next]_vars => ZInv'
  BY TypeStep, ClearedStep DEF ZInv
<1> QED BY <1>1, <1>2, PTL DEF Spec

\* The type invariant.
THEOREM TypeInvariant == Spec => []TypeOK
<1>1. ZInv => TypeOK
  BY DEF ZInv
<1> QED BY <1>1, Clearing, PTL

\* No channel is left owned by a source that is gone: whatever runs beside the
\* removal, and wherever the panel stops.
THEOREM ZombieFree == Spec => []NoZombie
<1>1. ZInv => NoZombie
  BY DEF ZInv, Cleared, NoZombie
<1> QED BY <1>1, Clearing, PTL

-----------------------------------------------------------------------------
(* The grants. *)

\* A step that keeps all that it speaks of keeps the second invariant.
LEMMA GrantsFrame ==
  ASSUME GInv, catalog' = catalog, secret' = secret, held' = held, sync' = sync,
         removal' = removal, purge' = purge, dead' = dead, minted' = minted
  PROVE  GInv'
<1>1. Owned' = Owned
  BY DEF Owned
<1> QED BY <1>1 DEF GInv, Exclusive, Sealed, PurgesFit, SyncFits

\* One purge at a time: beside it none of the others, no put and no grant.
LEMMA OneActive ==
  ASSUME ZInv, GInv, NEW c \in Callers, purge[c] # Off
  PROVE  /\ \A d \in Callers : d # c => purge[d] = Off
         /\ sync = Off \/ sync.step = "purge"
         /\ c # "sync" => sync = Off
<1>1. removal.step = "clear" => sync = Off
  BY DEF ZInv, Cleared
<1>2. purge["remove"] # Off => removal.step = "clear" /\ removal # Off
  BY DEF ZInv, Cleared, Off
<1>3. purge["sync"] # Off => sync.step = "purge" /\ sync # Off
  BY DEF GInv, Exclusive, Off
<1>4. purge["delete"] # Off => sync = Off /\ removal = Off
  BY DEF GInv, Exclusive
<1> QED BY <1>1, <1>2, <1>3, <1>4 DEF Callers

\* Beside a sync that fetches, puts or grants there is no purge.
LEMMA NoneActive ==
  ASSUME ZInv, GInv, sync # Off, purge["sync"] = Off \/ sync.step # "purge"
  PROVE  \A c \in Callers : purge[c] = Off
<1>1. purge["sync"] = Off
  BY DEF GInv, Exclusive
<1> QED BY <1>1, OneActive DEF Callers

\* A step of the sync that writes nothing keeps it if what it has read fits.
LEMMA SyncFrame ==
  ASSUME GInv, \A c \in Callers : purge[c] = Off,
         catalog' = catalog, secret' = secret, held' = held,
         removal' = removal, purge' = purge, dead' = dead, minted' = minted, SyncFits'
  PROVE  GInv'
<1>1. "sync" \in Callers /\ "delete" \in Callers
  BY DEF Callers
<1>2. Exclusive'
  BY <1>1 DEF Exclusive
<1>3. Sealed' /\ PurgesFit'
  BY DEF GInv, Sealed, PurgesFit
<1> QED BY <1>2, <1>3 DEF GInv

\* Every step keeps the grants, where no single channel is deleted beside it.
LEMMA GrantsStep ==
  ASSUME BusyDeletes = FALSE, ZInv, GInv, Detaching, TypeOK', Cleared', [Next]_vars
  PROVE  GInv'
<1>t. /\ purge \in [Callers -> Purges] /\ sync \in Syncs /\ removal \in Removals
      /\ purge' \in [Callers -> Purges] /\ sync' \in Syncs /\ removal' \in Removals
      /\ catalog \in [Ids -> Kinds] /\ minted \in Nat
      /\ secret \in [Ids -> Nat] /\ held \in [Ids -> Nat] /\ dead \in [Ids -> Nat]
  BY DEF ZInv, TypeOK, Keys
<1>g. Exclusive /\ Sealed /\ PurgesFit /\ SyncFits
  BY DEF GInv
<1>o. Off.step = "off"
  BY DEF Off
<1>s. sync = Off <=> sync.step = "off"
  BY <1>t, SyncShape
<1>c. "sync" \in Callers /\ "delete" \in Callers /\ "remove" \in Callers
  BY DEF Callers
<1>1. CASE FeedChanges \/ Exclude \/ AddSource \/ Boot
  <2>1. UNCHANGED <<catalog, secret, held, sync, removal, purge, dead, minted>>
    BY <1>1 DEF FeedChanges, Exclude, AddSource, Boot, bee, files, run, past
  <2> QED BY <2>1, GrantsFrame
<1>2. CASE Remove
  <2>1. /\ UNCHANGED <<catalog, secret, held, sync, purge, dead, minted>>
        /\ purge["delete"] = Off
    BY <1>2 DEF Remove, Apart, bee, past
  <2>2. Owned' = Owned
    BY <2>1 DEF Owned
  <2>3. Exclusive'
    BY <2>1, <1>g DEF Exclusive
  <2>4. Sealed' /\ PurgesFit' /\ SyncFits'
    BY <2>1, <2>2, <1>g DEF Sealed, PurgesFit, SyncFits
  <2> QED BY <2>3, <2>4 DEF GInv
<1>3. ASSUME NEW i \in Ids, Delete(i) PROVE GInv'
  <2>1. /\ UNCHANGED <<catalog, secret, held, sync, removal, dead, minted>>
        /\ sync = Off /\ removal = Off
        /\ purge' = [purge EXCEPT !["delete"] = Begun({i})]
    BY <1>3 DEF Delete, Apart, bee, files
  <2>2. /\ Begun({i}).step = "asked"
        /\ \A c \in Callers : c # "delete" => purge'[c] = purge[c]
        /\ purge'["delete"] = Begun({i})
    BY <2>1, <1>t, <1>c DEF Begun
  <2>3. Exclusive'
    BY <2>1, <2>2, <1>c, <1>g DEF Exclusive
  <2>4. Sealed'
    BY <2>1, <1>g DEF Sealed
  <2>5. PurgesFit'
    BY <2>1, <2>2, <1>g DEF PurgesFit
  <2>6. SyncFits'
    BY <2>1, <1>o DEF SyncFits
  <2> QED BY <2>3, <2>4, <2>5, <2>6 DEF GInv
<1>4. CASE SyncStarts
  <2>1. /\ UNCHANGED <<catalog, secret, held, removal, purge, dead, minted>>
        /\ sync = Off /\ sync'.step = "fetch" /\ purge["delete"] = Off /\ removal = Off
    BY <1>4 DEF SyncStarts, MayStart, Apart, bee, files, past
  <2>2. \A c \in Callers : purge[c] = Off
    BY <2>1, <1>o, <1>g DEF Exclusive, Callers, ZInv, Cleared
  <2>3. SyncFits'
    BY <2>1 DEF SyncFits
  <2> QED BY <2>1, <2>2, <2>3, SyncFrame
<1>5. CASE Answered \/ Unanswered \/ PutsDone \/ SyncSaves
  <2>1. /\ sync # Off /\ sync.step # "purge"
        /\ sync'.step \in {"off", "owned", "scan"}
        /\ UNCHANGED <<catalog, secret, held, removal, purge, dead, minted>>
    BY <1>5, <1>o DEF Answered, Unanswered, PutsDone, SyncSaves, Syncing, bee, files, past
  <2>2. \A c \in Callers : purge[c] = Off
    BY <2>1, NoneActive
  <2>3. SyncFits'
    BY <2>1 DEF SyncFits
  <2> QED BY <2>1, <2>2, <2>3, SyncFrame
<1>6. CASE GrantsOpen
  <2>1. /\ sync # Off /\ sync.step # "purge"
        /\ sync' = [step |-> "grant", got |-> sync.got, ids |-> Owned, keys |-> secret, seen |-> held]
        /\ UNCHANGED <<catalog, secret, held, removal, purge, dead, minted>>
    BY <1>6, <1>o DEF GrantsOpen, Syncing, bee, files, past
  <2>2. \A c \in Callers : purge[c] = Off
    BY <2>1, NoneActive
  <2>3. SyncFits'
    BY <2>1 DEF SyncFits, Owned
  <2> QED BY <2>1, <2>2, <2>3, SyncFrame
<1>7. CASE GrantsSealed
  <2> DEFINE lacks == {i \in sync.ids : sync.seen[i] = 0 /\ sync.keys[i] # 0}
  <2>1. /\ sync # Off /\ sync.step = "grant" /\ sync'.step = "save"
        /\ UNCHANGED <<catalog, secret, removal, purge, dead, minted>>
        /\ held' = IF lacks = {} THEN held
                   ELSE [i \in Ids |-> IF i \in lacks THEN sync.keys[i] ELSE sync.seen[i]]
    BY <1>7, <1>o DEF GrantsSealed, Syncing, files, past
  <2>2. \A c \in Callers : purge[c] = Off
    BY <2>1, NoneActive
  <2>3. sync.keys = secret /\ sync.seen = held /\ sync.ids = Owned
    BY <2>1, <1>g DEF SyncFits
  <2>4. \A i \in Ids : held'[i] = held[i] \/ (held'[i] = secret[i] /\ catalog[i] = "owned")
    BY <2>1, <2>3 DEF Owned
  <2>5. Sealed'
    BY <2>1, <2>4, <1>g DEF Sealed
  <2>6. Exclusive' /\ PurgesFit' /\ SyncFits'
    BY <2>1, <2>2, <1>c, <1>o DEF Exclusive, PurgesFit, SyncFits
  <2> QED BY <2>5, <2>6 DEF GInv
<1>8. CASE Scan
  <2> DEFINE want == sync.got.ids \ sync.skip
  <2>1. /\ sync # Off /\ sync.step # "purge"
        /\ UNCHANGED <<catalog, secret, held, removal, dead, minted>>
        /\ sync' = [step |-> "purge", got |-> sync.got, want |-> want, current |-> catalog]
        /\ purge' = IF Owned \subseteq want THEN purge
                    ELSE [purge EXCEPT !["sync"] = Begun(Owned \ want)]
    BY <1>8, <1>o DEF Scan, Syncing, bee, files, past
  <2>2. \A c \in Callers : purge[c] = Off
    BY <2>1, NoneActive
  <2>3. want \in SUBSET Ids
    BY <1>8, <1>t, SyncShape DEF Scan, Syncing, Feeds
  <2>4. /\ purge'["sync"] # Off => /\ purge'["sync"].step = "asked"
                                   /\ purge'["sync"].ids \intersect want = {}
        /\ purge'["delete"] = Off /\ purge'["remove"] = Off
    BY <2>1, <2>2, <1>t, <1>c DEF Begun
  <2>5. sync'.step = "purge" /\ sync'.want = want /\ sync'.current = catalog
    BY <2>1
  <2> HIDE DEF want
  <2>6. Exclusive'
    BY <2>4, <2>5 DEF Exclusive
  <2>7. Sealed'
    BY <2>1, <1>g DEF Sealed
  <2>8. PurgesFit'
    BY <2>4, <1>o DEF PurgesFit, Callers
  <2>9. SyncFits'
    BY <2>1, <2>3, <2>4, <2>5 DEF SyncFits
  <2> QED BY <2>6, <2>7, <2>8, <2>9 DEF GInv
<1>9. CASE Mint
  <2>1. /\ sync # Off /\ sync.step = "purge" /\ purge["sync"] = Off
        /\ UNCHANGED <<catalog, held, removal, purge, dead>>
    BY <1>9, <1>o DEF Mint, Syncing, bee
  <2>2. \A c \in Callers : purge[c] = Off
    BY <2>1, NoneActive
  <2>3. CASE ~source.there
    <3>1. sync'.step = "off" /\ UNCHANGED <<secret, minted>>
      BY <1>9, <2>3, <1>o DEF Mint
    <3>2. SyncFits'
      BY <3>1 DEF SyncFits
    <3> QED BY <2>1, <2>2, <3>1, <3>2, SyncFrame
  <2>4. CASE source.there
    <3>1. /\ secret' = [i \in Ids |-> IF i \in sync.want /\ Mints(i) THEN minted + 1 ELSE secret[i]]
          /\ minted' = IF \E i \in sync.want : Mints(i) THEN minted + 1 ELSE minted
      BY <1>9, <2>4 DEF Mint
    <3>2. PICK changed \in SUBSET {i \in sync.want : sync.current[i] = "owned"} :
            sync' = [step |-> "put", got |-> sync.got,
                     puts |-> changed \union {i \in sync.want : sync.current[i] = "none"}]
      BY <1>9, <2>4 DEF Mint
    <3>3. sync.want \in SUBSET Ids
      BY <2>1, <1>t, SyncShape
    <3>4. \A i \in sync.want : catalog[i] = sync.current[i]
      BY <2>1, <1>g DEF SyncFits
    <3>5. \A i \in sync.want : Mints(i) => held[i] = 0
      BY <3>3, <3>4, <1>g, <1>t DEF Sealed, Mints
    <3>6. minted' \in Nat /\ minted <= minted'
      BY <3>1, <1>t
    <3>7. \A i \in sync.want : Mints(i) => secret'[i] = minted + 1 /\ minted' = minted + 1
      BY <3>1, <3>3
    <3>8. \A i \in Ids : secret'[i] = secret[i] \/ (i \in sync.want /\ Mints(i))
      BY <3>1
    <3>9. \A i \in Ids : held[i] # 0 => held[i] = secret'[i] /\ catalog[i] # "none"
      BY <3>5, <3>8, <1>g DEF Sealed
    <3>10. \A i \in Ids : dead[i] <= minted' /\ secret'[i] <= minted'
      <4> SUFFICES ASSUME NEW i \in Ids PROVE dead[i] <= minted' /\ secret'[i] <= minted'
        OBVIOUS
      <4>1. dead[i] <= minted /\ secret[i] <= minted /\ dead[i] \in Nat /\ secret[i] \in Nat
        BY <1>g, <1>t DEF Sealed
      <4> QED BY <4>1, <3>6, <3>7, <3>8, <1>t
    <3>11. \A i \in sync.want : Mints(i) => secret'[i] > dead[i]
      <4> SUFFICES ASSUME NEW i \in sync.want, Mints(i) PROVE secret'[i] > dead[i]
        OBVIOUS
      <4>1. dead[i] <= minted /\ dead[i] \in Nat
        BY <3>3, <1>g, <1>t DEF Sealed
      <4> QED BY <4>1, <3>7, <1>t
    <3>12. \A i \in Ids : catalog[i] # "none" => secret'[i] = 0 \/ secret'[i] > dead[i]
      BY <3>8, <3>11, <1>g DEF Sealed
    <3>13. sync'.step = "put" /\ sync'.puts \subseteq {i \in sync.want : sync.current[i] \in {"owned", "none"}}
      BY <3>2
    <3>14. \A i \in sync'.puts : secret'[i] > dead[i]
      <4> SUFFICES ASSUME NEW i \in sync'.puts PROVE secret'[i] > dead[i]
        OBVIOUS
      <4>1. i \in sync.want /\ i \in Ids /\ sync.current[i] \in {"owned", "none"}
        BY <3>3, <3>13
      <4>2. CASE Mints(i)
        BY <3>11, <4>1, <4>2
      <4>3. CASE ~Mints(i)
        <5>1. sync.current[i] = "owned" /\ secret[i] # 0 /\ secret'[i] = secret[i]
          BY <4>1, <4>3, <3>8 DEF Mints
        <5> QED BY <4>1, <5>1, <3>4, <1>g DEF Sealed
      <4> QED BY <4>2, <4>3
    <3>15. Sealed'
      BY <2>1, <3>9, <3>10, <3>12 DEF Sealed
    <3>16. SyncFits'
      BY <2>1, <3>13, <3>14 DEF SyncFits
    <3>17. Exclusive' /\ PurgesFit'
      BY <2>1, <2>2, <1>c, <1>o DEF Exclusive, PurgesFit
    <3> QED BY <3>15, <3>16, <3>17 DEF GInv
  <2> QED BY <2>3, <2>4
<1>10. CASE Put
  <2>1. PICK i \in sync.puts : /\ catalog' = [catalog EXCEPT ![i] = "owned"]
                               /\ sync' = [sync EXCEPT !.puts = @ \ {i}]
    BY <1>10 DEF Put
  <2>2. /\ sync # Off /\ sync.step = "put" /\ sync.puts \in SUBSET Ids
        /\ UNCHANGED <<secret, held, removal, purge, dead, minted>>
    BY <1>10, <1>o, <1>t, SyncShape DEF Put, Syncing, files, past
  <2>3. \A c \in Callers : purge[c] = Off
    BY <2>2, NoneActive
  <2>4. sync'.step = "put" /\ sync'.puts = sync.puts \ {i}
    BY <1>t, <2>1, <2>2, SyncLess
  <2>5. \A j \in sync.puts : secret[j] > dead[j]
    BY <2>2, <1>g DEF SyncFits
  <2>6. \A j \in Ids : catalog'[j] = catalog[j] \/ (catalog'[j] = "owned" /\ secret[j] > dead[j])
    BY <2>1, <2>5, <1>t
  <2>7. Sealed'
    BY <2>2, <2>6, <1>g DEF Sealed
  <2>8. SyncFits'
    BY <2>2, <2>4, <2>5 DEF SyncFits
  <2>9. Exclusive' /\ PurgesFit'
    BY <2>2, <2>3, <1>c, <1>o DEF Exclusive, PurgesFit
  <2> QED BY <2>7, <2>8, <2>9 DEF GInv
<1>11. CASE RemoveLists
  <2>1. /\ removal.step = "join" /\ removal # Off /\ sync = Off
        /\ UNCHANGED <<catalog, secret, held, sync, dead, minted>>
        /\ purge' = IF removal.keep \/ Owned = {} THEN purge
                    ELSE [purge EXCEPT !["remove"] = Begun(Owned)]
    BY <1>11, <1>o DEF RemoveLists, Removing, Joined, bee, files, past
  <2>2. \A c \in Callers : purge[c] = Off
    BY <2>1, <1>o, <1>g DEF Exclusive, Callers, ZInv, Cleared
  <2>3. /\ purge'["sync"] = Off /\ purge'["delete"] = Off
        /\ purge'["remove"].step \in {"off", "asked"}
    BY <2>1, <2>2, <1>t, <1>c, <1>o DEF Begun
  <2>4. Exclusive'
    BY <2>3 DEF Exclusive
  <2>5. Sealed'
    BY <2>1, <1>g DEF Sealed
  <2>6. PurgesFit'
    BY <2>3, <1>o DEF PurgesFit, Callers
  <2>7. SyncFits'
    BY <2>1, <1>o DEF SyncFits
  <2> QED BY <2>4, <2>5, <2>6, <2>7 DEF GInv
<1>12. CASE DetachReads \/ DetachPuts
  <2>1. /\ removal.step = "clear" /\ removal # Off /\ sync = Off
        /\ UNCHANGED <<secret, held, sync, purge, dead, minted>>
        /\ \A j \in Ids : catalog'[j] = "none" <=> catalog[j] = "none"
    BY <1>12, <1>o, <1>t DEF Detaching, DetachReads, DetachPuts, Removing, ZInv, Cleared, bee, files, past
  <2>2. purge["delete"] = Off
    BY <2>1, <1>g DEF Exclusive
  <2>3. Exclusive' /\ PurgesFit' /\ SyncFits'
    BY <2>1, <2>2, <1>g, <1>o DEF Exclusive, PurgesFit, SyncFits
  <2>4. Sealed'
    BY <2>1, <1>g DEF Sealed
  <2> QED BY <2>3, <2>4 DEF GInv
<1>13. CASE RemoveEnds
  <2>1. /\ removal' = Off /\ UNCHANGED <<catalog, secret, held, sync, purge, dead, minted>>
        /\ removal.step = "clear"
    BY <1>13 DEF RemoveEnds, Removing, bee, past
  <2>2. sync = Off
    BY <2>1 DEF ZInv, Cleared
  <2>3. Exclusive' /\ Sealed' /\ PurgesFit' /\ SyncFits'
    BY <2>1, <2>2, <1>g, <1>o DEF Exclusive, Sealed, PurgesFit, SyncFits
  <2> QED BY <2>3 DEF GInv
<1>14. ASSUME NEW c \in Callers, PurgeOpens(c) PROVE GInv'
  <2>1. /\ UNCHANGED <<catalog, secret, held, sync, removal, dead, minted>>
        /\ purge[c].step = "open" /\ purge[c] # Off
        /\ purge' = [purge EXCEPT ![c] = [step |-> "strip", ids |-> purge[c].ids, seen |-> held]]
    BY <1>14, <1>o, <1>t DEF PurgeOpens, Purging, bee, files, past
  <2>2. /\ purge'[c].step = "strip" /\ purge'[c].seen = held /\ purge'[c].ids = purge[c].ids
        /\ \A d \in Callers : d # c => purge'[d] = purge[d]
    BY <2>1, <1>t
  <2>3. Exclusive'
    BY <2>1, <2>2, <1>g, <1>c DEF Exclusive
  <2>4. Sealed'
    BY <2>1, <1>g DEF Sealed
  <2>5. PurgesFit'
    BY <2>1, <2>2, <1>g DEF PurgesFit
  <2>6. sync = Off \/ sync.step = "purge"
    BY <2>1, OneActive
  <2>7. purge'["sync"] # Off => purge["sync"] # Off /\ purge'["sync"].ids = purge["sync"].ids
    BY <2>1, <2>2, <1>c
  <2>8. SyncFits'
    BY <2>1, <2>6, <2>7, <1>g, <1>o DEF SyncFits
  <2> QED BY <2>3, <2>4, <2>5, <2>8 DEF GInv
<1>15. ASSUME NEW c \in Callers, PurgeStrips(c) PROVE GInv'
  <2>1. /\ UNCHANGED <<catalog, secret, sync, removal, dead, minted>>
        /\ purge[c].step = "strip" /\ purge[c] # Off
        /\ held' = IF \E i \in purge[c].ids : purge[c].seen[i] # 0
                   THEN [i \in Ids |-> IF i \in purge[c].ids THEN 0 ELSE purge[c].seen[i]]
                   ELSE held
        /\ purge' = [purge EXCEPT ![c] = [step |-> "erase", ids |-> purge[c].ids, left |-> purge[c].ids]]
    BY <1>15, <1>o DEF PurgeStrips, Purging, files, past
  <2>2. purge[c].ids \in SUBSET Ids /\ purge[c].seen = held
    BY <2>1, <1>t, <1>g, PurgeShape DEF PurgesFit
  <2>3. /\ \A i \in purge[c].ids : held'[i] = 0
        /\ \A i \in Ids : held'[i] = held[i] \/ held'[i] = 0
    BY <2>1, <2>2
  <2>4. /\ purge'[c].step = "erase" /\ purge'[c].ids = purge[c].ids /\ purge'[c].left = purge[c].ids
        /\ \A d \in Callers : d # c => purge'[d] = purge[d] /\ purge[d] = Off
    BY <2>1, <1>t, OneActive
  <2>5. Exclusive'
    BY <2>1, <2>4, <1>g, <1>c DEF Exclusive
  <2>6. Sealed'
    BY <2>1, <2>3, <1>g DEF Sealed
  <2>7. PurgesFit'
    BY <2>3, <2>4, <1>o DEF PurgesFit
  <2>8. sync = Off \/ sync.step = "purge"
    BY <2>1, OneActive
  <2>9. purge'["sync"] # Off => purge["sync"] # Off /\ purge'["sync"].ids = purge["sync"].ids
    BY <2>1, <2>4, <1>c
  <2>10. SyncFits'
    BY <2>1, <2>8, <2>9, <1>g, <1>o DEF SyncFits
  <2> QED BY <2>5, <2>6, <2>7, <2>10 DEF GInv
<1>16. ASSUME NEW c \in Callers, PurgeErases(c) PROVE GInv'
  <2>1. PICK i \in purge[c].left : /\ catalog' = [catalog EXCEPT ![i] = "none"]
                                   /\ purge' = [purge EXCEPT ![c].left = @ \ {i}]
                                   /\ dead' = [dead EXCEPT ![i] = secret[i]]
    BY <1>16 DEF PurgeErases
  <2>2. /\ UNCHANGED <<secret, held, sync, removal, minted>>
        /\ purge[c].step = "erase" /\ purge[c] # Off
    BY <1>16, <1>o DEF PurgeErases, Purging, files
  <2>3. /\ purge[c].left \subseteq purge[c].ids /\ purge[c].ids \in SUBSET Ids
        /\ \A j \in purge[c].ids : held[j] = 0
    BY <2>2, <1>t, <1>g, PurgeShape DEF PurgesFit
  <2>4. purge'[c] = [purge[c] EXCEPT !.left = purge[c].left \ {i}]
    BY <2>1, <1>t
  <2>5. /\ purge'[c].step = "erase" /\ purge'[c].ids = purge[c].ids
        /\ purge'[c].left = purge[c].left \ {i}
    BY <2>2, <2>3, <2>4, <1>t, PurgeLess
  <2>6. \A d \in Callers : d # c => purge'[d] = purge[d] /\ purge[d] = Off
    BY <2>1, <2>2, <1>t, OneActive
  <2>7. \A j \in Ids : IF j = i THEN catalog'[j] = "none" /\ dead'[j] = secret[j] /\ held[j] = 0
                       ELSE catalog'[j] = catalog[j] /\ dead'[j] = dead[j]
    BY <2>1, <2>3, <1>t
  <2>8. Exclusive'
    BY <2>2, <2>5, <2>6, <1>g, <1>c DEF Exclusive
  <2>9. Sealed'
    BY <2>2, <2>7, <1>g DEF Sealed
  <2>10. PurgesFit'
    BY <2>2, <2>3, <2>5, <2>6, <1>o DEF PurgesFit
  <2>11. sync = Off \/ sync.step = "purge"
    BY <2>2, OneActive
  <2>12. SyncFits'
    <3>1. CASE sync = Off
      BY <3>1, <2>2, <1>o DEF SyncFits
    <3>2. CASE sync.step = "purge"
      <4>1. c = "sync"
        BY <2>2, <3>2, <1>o, OneActive
      <4>2. /\ \A j \in Ids : sync.current[j] = "none" => catalog[j] = "none"
            /\ \A j \in sync.want : catalog[j] = sync.current[j]
            /\ purge[c].ids \intersect sync.want = {}
        BY <2>2, <3>2, <4>1, <1>g DEF SyncFits
      <4>3. i \notin sync.want /\ sync.want \in SUBSET Ids
        BY <2>3, <4>2, <3>2, <1>t, SyncShape
      <4> QED BY <2>2, <2>5, <2>7, <3>2, <4>1, <4>2, <4>3 DEF SyncFits
    <3> QED BY <2>11, <3>1, <3>2
  <2> QED BY <2>8, <2>9, <2>10, <2>12 DEF GInv
<1>17. ASSUME NEW c \in Callers, PurgeForgets(c) PROVE GInv'
  <2>1. /\ UNCHANGED <<catalog, held, sync, removal, dead, minted>>
        /\ purge[c].step = "erase" /\ purge[c] # Off
        /\ secret' = [i \in Ids |-> IF i \in purge[c].ids THEN 0 ELSE secret[i]]
        /\ purge' = [purge EXCEPT ![c] = Off]
    BY <1>17, <1>o DEF PurgeForgets, Purging, Without, bee, past
  <2>2. \A j \in purge[c].ids : held[j] = 0
    BY <2>1, <1>g DEF PurgesFit
  <2>3. \A d \in Callers : purge'[d] = Off
    BY <2>1, <1>t, OneActive
  <2>4. \A i \in Ids : secret'[i] = secret[i] \/ (secret'[i] = 0 /\ held[i] = 0)
    BY <2>1, <2>2
  <2>5. Sealed'
    BY <2>1, <2>4, <1>g, <1>t DEF Sealed
  <2>6. Exclusive' /\ PurgesFit'
    BY <2>3, <1>c, <1>o DEF Exclusive, PurgesFit
  <2>7. sync = Off \/ sync.step = "purge"
    BY <2>1, OneActive
  <2>8. SyncFits'
    BY <2>1, <2>3, <2>7, <1>g, <1>o, <1>c DEF SyncFits
  <2> QED BY <2>5, <2>6, <2>8 DEF GInv
<1>18. CASE Crash
  <2>1. /\ sync' = Off /\ removal' = Off /\ \A c \in Callers : purge'[c] = Off
        /\ UNCHANGED <<catalog, secret, held, dead, minted>>
    BY <1>18 DEF Crash, bee, files, past
  <2>2. Exclusive' /\ PurgesFit' /\ SyncFits'
    BY <2>1, <1>c, <1>o DEF Exclusive, PurgesFit, SyncFits
  <2>3. Sealed'
    BY <2>1, <1>g DEF Sealed
  <2> QED BY <2>2, <2>3 DEF GInv
<1>19. CASE UNCHANGED vars
  BY <1>19, GrantsFrame DEF vars, bee, files, run, past
<1>20. ASSUME NEW c \in Callers, PurgeChecks(c) PROVE GInv'
  <2>1. /\ UNCHANGED <<catalog, secret, held, removal, dead, minted>>
        /\ purge[c] # Off
        /\ \A d \in Callers : d # c => purge'[d] = purge[d]
        /\ \/ purge'[c] = Off
           \/ purge'[c].step = "open" /\ purge'[c].ids \subseteq purge[c].ids /\ sync' = sync
        /\ sync' = sync \/ (sync' = Off /\ c = "sync")
    BY <1>20, CheckParts DEF ZInv
  <2>2. \A d \in Callers : d # c => purge[d] = Off /\ purge'[d] = Off
    BY <2>1, OneActive
  <2>3. Exclusive'
    BY <2>1, <2>2, <1>g, <1>c DEF Exclusive
  <2>4. Sealed'
    BY <2>1, <1>g DEF Sealed
  <2>5. PurgesFit'
    BY <2>1, <2>2, <1>o DEF PurgesFit
  <2>6. sync = Off \/ sync.step = "purge"
    BY <2>1, OneActive
  <2>7. (sync' = sync /\ purge'["sync"] # Off) => (purge["sync"] # Off /\ purge'["sync"].ids \subseteq purge["sync"].ids)
    BY <2>1, <2>2, <1>c
  <2>8. SyncFits'
    BY <2>1, <2>6, <2>7, <1>g, <1>o DEF SyncFits
  <2> QED BY <2>3, <2>4, <2>5, <2>8 DEF GInv
<1> QED
  BY <1>1, <1>2, <1>3, <1>4, <1>5, <1>6, <1>7, <1>8, <1>9, <1>10, <1>11, <1>12, <1>13, <1>14,
     <1>15, <1>16, <1>17, <1>18, <1>19, <1>20
  DEF Next, SyncSteps, RemoveSteps, PurgeSteps

\* Every step keeps what a removal that detaches has read, where no single channel
\* is deleted beside it.
LEMMA DetachingStep ==
  ASSUME BusyDeletes = FALSE, ZInv, GInv, Detaching, TypeOK', [Next]_vars
  PROVE  Detaching'
<1>t. /\ purge \in [Callers -> Purges] /\ sync \in Syncs /\ removal \in Removals
      /\ catalog \in [Ids -> Kinds] /\ "remove" \in Callers
  BY DEF ZInv, TypeOK, Callers
<1>o. Off.step = "off"
  BY DEF Off
<1>s. removal.step = "clear" => sync = Off /\ removal # Off
  BY <1>o DEF ZInv, Cleared
<1>1. ASSUME removal' = removal, purge'["remove"] = purge["remove"], catalog' = catalog PROVE Detaching'
  BY <1>1 DEF Detaching
<1>2. ASSUME removal'.step # "clear" PROVE Detaching'
  BY <1>2 DEF Detaching
<1>3. CASE FeedChanges \/ Exclude \/ AddSource \/ Boot \/ UNCHANGED vars
  BY <1>1, <1>3 DEF FeedChanges, Exclude, AddSource, Boot, vars, bee, run
<1>4. CASE Remove \/ RemoveEnds \/ Crash
  BY <1>2, <1>4, <1>o DEF Remove, RemoveEnds, Crash
<1>5. ASSUME NEW i \in Ids, Delete(i) PROVE Detaching'
  <2>1. removal' = removal /\ removal = Off
    BY <1>5 DEF Delete, Apart
  <2> QED BY <1>2, <1>o, <2>1
<1>6. CASE SyncStarts
  BY <1>2, <1>6, <1>o DEF SyncStarts, MayStart
<1>7. CASE Answered \/ Unanswered \/ SyncSteps
  <2>1. sync # Off /\ removal' = removal
    BY <1>7, <1>o DEF Answered, Unanswered, SyncSteps, Scan, Mint, Put, PutsDone, GrantsOpen,
                      GrantsSealed, SyncSaves, Syncing
  <2> QED BY <1>2, <1>s, <2>1
<1>8. CASE RemoveLists
  <2>1. /\ removal.step = "join" /\ removal # Off /\ catalog' = catalog
        /\ removal'.got = {} /\ removal'.left = (IF removal.keep THEN Owned ELSE {})
        /\ removal.keep => purge' = purge
    BY <1>8, <1>o DEF RemoveLists, Removing, bee
  <2>2. purge["remove"] = Off
    BY <2>1 DEF ZInv, Cleared
  <2> QED BY <2>1, <2>2 DEF Detaching
<1>9. CASE DetachReads
  <2>1. PICK i \in removal.left :
          /\ removal'.left = removal.left \ {i}
          /\ catalog[i] = "none" => removal'.got = {}
          /\ catalog[i] # "none" => removal'.got = {i}
          /\ removal.step = "clear"
    BY <1>9, ReadParts DEF ZInv
  <2>2. catalog' = catalog /\ purge' = purge
    BY <1>9 DEF DetachReads, bee
  <2>3. purge["remove"] = Off
    BY <2>1 DEF Detaching
  <2> QED BY <2>1, <2>2, <2>3 DEF Detaching
<1>10. CASE DetachPuts
  <2>1. removal.step = "clear" /\ removal.got # {} /\ purge' = purge
    BY <1>10 DEF DetachPuts, Removing
  <2>2. purge["remove"] = Off
    BY <2>1 DEF Detaching
  <2>3. removal'.got = {}
    BY <1>10, PutParts DEF ZInv
  <2> QED BY <2>1, <2>2, <2>3 DEF Detaching
<1>11. ASSUME NEW c \in Callers, PurgeSteps(c) PROVE Detaching'
  <2>1. purge[c] # Off /\ removal' = removal
    BY <1>11, <1>o DEF PurgeSteps, PurgeChecks, PurgeOpens, PurgeStrips, PurgeErases, PurgeForgets, Purging
  <2>2. CASE removal.step = "clear"
    <3>1. c = "remove" /\ purge["remove"] # Off
      BY <1>s, <2>1, <2>2, <1>o DEF Callers, GInv, Exclusive
    <3>2. removal.left \union removal.got = {}
      BY <2>2, <3>1 DEF Detaching
    <3> QED BY <2>1, <3>2 DEF Detaching
  <2>3. CASE removal.step # "clear"
    BY <1>2, <2>1, <2>3
  <2> QED BY <2>2, <2>3
<1> QED
  BY <1>3, <1>4, <1>5, <1>6, <1>7, <1>8, <1>9, <1>10, <1>11 DEF Next, RemoveSteps

\* It holds at the start.
LEMMA GrantsInit == Init => GInv /\ Detaching
<1> SUFFICES ASSUME Init PROVE GInv /\ Detaching
  OBVIOUS
<1>1. Exclusive
  BY DEF Init, Exclusive, Callers
<1>2. Sealed
  BY DEF Init, Sealed
<1>3. PurgesFit /\ SyncFits /\ Detaching
  BY DEF Init, PurgesFit, SyncFits, Detaching, Off
<1> QED BY <1>1, <1>2, <1>3 DEF GInv

\* Both invariants, where no single channel is deleted while the source works.
THEOREM Granting == BusyDeletes = FALSE => (Spec => [](ZInv /\ GInv /\ Detaching))
<1> SUFFICES ASSUME BusyDeletes = FALSE PROVE Spec => [](ZInv /\ GInv /\ Detaching)
  OBVIOUS
<1>1. Init => ZInv /\ GInv /\ Detaching
  BY ZInit, GrantsInit
<1>2. ZInv /\ GInv /\ Detaching /\ [Next]_vars => (ZInv /\ GInv /\ Detaching)'
  BY TypeStep, ClearedStep, GrantsStep, DetachingStep DEF ZInv
<1> QED BY <1>1, <1>2, PTL DEF Spec

\* A sealed key opens its channel, in fact whenever it is sealed and not only
\* where all is at rest.
THEOREM GrantsOpenTheirChannel == BusyDeletes = FALSE => (Spec => []GrantsFit)
<1> SUFFICES ASSUME BusyDeletes = FALSE PROVE Spec => []GrantsFit
  OBVIOUS
<1>1. ZInv /\ GInv => GrantsFit
  BY DEF GInv, Sealed, GrantsFit
<1>2. Spec => [](ZInv /\ GInv /\ Detaching)
  BY Granting
<1> QED BY <1>1, <1>2, PTL

\* What a purge revoked is not sealed to anybody again.
LEMMA RevokedStep ==
  ASSUME ZInv, GInv, [Next]_vars, NEW i \in Ids, held'[i] # held[i], held'[i] # 0
  PROVE  held'[i] > dead[i]
<1>t. held \in [Ids -> Nat] /\ sync \in Syncs
  BY DEF ZInv, TypeOK, Keys
<1>1. ASSUME NEW c \in Callers, PurgeStrips(c) PROVE FALSE
  <2>1. purge[c].step = "strip"
    BY <1>1 DEF PurgeStrips, Purging
  <2>2. purge[c].seen = held
    BY <2>1 DEF GInv, PurgesFit
  <2> QED BY <1>1, <2>2 DEF PurgeStrips
<1>2. ASSUME ~GrantsSealed, \A c \in Callers : ~PurgeStrips(c) PROVE FALSE
  BY <1>2 DEF Next, SyncSteps, RemoveSteps, PurgeSteps, vars, bee, FeedChanges, Exclude, AddSource,
     Remove, Delete, SyncStarts, Answered, Unanswered, Scan, Mint, Put, PutsDone, GrantsOpen,
     SyncSaves, RemoveLists, DetachReads, DetachPuts, RemoveEnds, PurgeChecks, PurgeOpens, PurgeErases, PurgeForgets, Crash, Boot
<1>3. GrantsSealed
  BY <1>1, <1>2
<1>4. sync.keys = secret /\ sync.seen = held /\ sync.ids = Owned
  BY <1>3 DEF GrantsSealed, Syncing, GInv, SyncFits
<1>5. held'[i] = secret[i] /\ catalog[i] = "owned" /\ secret[i] # 0
  BY <1>3, <1>4 DEF GrantsSealed, Owned
<1> QED BY <1>5 DEF GInv, Sealed

\* A purge revokes, in every behaviour.
THEOREM Revocation == BusyDeletes = FALSE => (Spec => PurgeRevokes)
<1> SUFFICES ASSUME BusyDeletes = FALSE PROVE Spec => PurgeRevokes
  OBVIOUS
<1>1. ZInv /\ GInv /\ [Next]_vars
        => [\A i \in Ids : held'[i] # held[i] /\ held'[i] # 0 => held'[i] > dead[i]]_vars
  BY RevokedStep
<1>2. Spec => [](ZInv /\ GInv /\ Detaching)
  BY Granting
<1> QED BY <1>1, <1>2, PTL DEF Spec, PurgeRevokes
=============================================================================
