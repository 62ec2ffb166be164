---------------------------- MODULE LatestProps ----------------------------
(***************************************************************************)
(* LatestPropertiesStore (hist_srv/LatestPropertiesStore.go): the          *)
(* in-memory cache of each Thing's most recent value per name, loaded      *)
(* lazily from the "properties" bucket and written back by SaveChanges.   *)
(*                                                                         *)
(* Every action below is one critical section of cacheMux or one store    *)
(* call.  LoadProps and the update of HandleAddValue are one action: the   *)
(* cache never drops an entry, so nothing another goroutine does between   *)
(* the two lock sections can change the outcome.  SaveChanges is three     *)
(* kinds of step: collect the changed addresses (read lock), marshal one   *)
(* address and clear its flag (write lock), write that blob (no lock).     *)
(***************************************************************************)
EXTENDS HistoryTypes

CONSTANTS
  NotLoaded,          \* no entry for the address in srv.cache
  NoBlob,             \* no record for the address in the properties bucket
  CorruptBlob,        \* a record json.Unmarshal rejects
  NoWrite,            \* SaveChanges has no blob in hand
  PropsStoreCanFail   \* whether store.Set of the properties bucket may fail

VARIABLES
  cache,        \* srv.cache: address -> ThingValueMap, or NotLoaded
  changed,      \* srv.changedThings: address -> BOOLEAN
  propsStore,   \* the properties bucket: address -> marshalled record
  saveList,     \* SaveChanges: changed addresses not yet marshalled
  pending       \* SaveChanges: the blob marshalled and not yet written

propsVars == <<cache, changed, propsStore, saveList, pending>>

\* json.Marshal of a ThingValueMap: a record that decodes to the same map.
Marshal(m) == [props |-> m]

\* LoadProps, lines 42-55: the stored record, or a clean start when the
\* record is absent or cannot be unmarshalled.
Unmarshal(blob) == IF blob \in {NoBlob, CorruptBlob} THEN EmptyMap ELSE blob.props

\* The map LoadProps leaves in the cache: the cached one if present.
LoadedMap(a) == IF cache[a] # NotLoaded THEN cache[a] ELSE Unmarshal(propsStore[a])

\* Mutant: the out-of-order check is dropped; every value overwrites.
IsNewerAlways(m, tv) == TRUE

\* The out-of-order check: a value replaces the cached one for its name only
\* when none is cached or it is strictly newer.
IsNewer(m, tv) == tv.name \notin DOMAIN m \/ tv.ts > m[tv.name].ts

\* thingCache.Set of every value of vals that passes the check.
MergeNewer(m, vals) ==
  LET upd == {tv \in vals : IsNewer(m, tv)}
      dom == DOMAIN m \cup {tv.name : tv \in upd}
  IN [n \in dom |-> IF \E tv \in upd : tv.name = n
                    THEN CHOOSE tv \in upd : tv.name = n ELSE m[n]]

\* Mutant: the expanded events keep the parent's name.
ExpandKeepName(tv) ==
  {[agent |-> tv.agent, thing |-> tv.thing, name |-> tv.name, ts |-> tv.ts,
    data |-> tv.data[n]] : n \in DOMAIN tv.data}

\* The ThingValues a bulk-properties event expands to: one event per entry
\* of its payload, with the parent's address, sender and CreatedMSec.
Expand(tv) ==
  {[agent |-> tv.agent, thing |-> tv.thing, name |-> n, ts |-> tv.ts,
    data |-> tv.data[n]] : n \in DOMAIN tv.data}

\* Mutant: the bulk-properties branch returns before marking the address.
HandleAddValueBulkUnmarked(tv) ==
  LET a == Addr(tv)
      m == LoadedMap(a)
  IN \/ /\ tv.name = PropsName
        /\ cache' = [cache EXCEPT ![a] = IF tv.data = Garbage THEN m
                                         ELSE MergeNewer(m, Expand(tv))]
        /\ UNCHANGED changed
     \/ /\ tv.name # PropsName
        /\ cache' = [cache EXCEPT ![a] = MergeNewer(m, {tv})]
        /\ changed' = [changed EXCEPT ![a] = TRUE]

\* HandleAddValue(addtv): LoadProps, then under the write lock merge the
\* value (or the expanded bulk payload) and mark the address changed.  A
\* bulk payload that does not unmarshal returns before marking.
HandleAddValue(tv) ==
  LET a == Addr(tv)
      m == LoadedMap(a)
  IN \/ /\ tv.name = PropsName
        /\ tv.data = Garbage
        /\ cache' = [cache EXCEPT ![a] = m]
        /\ UNCHANGED changed
     \/ /\ tv.name = PropsName
        /\ tv.data # Garbage
        /\ cache' = [cache EXCEPT ![a] = MergeNewer(m, Expand(tv))]
        /\ changed' = [changed EXCEPT ![a] = TRUE]
     \/ /\ tv.name # PropsName
        /\ cache' = [cache EXCEPT ![a] = MergeNewer(m, {tv})]
        /\ changed' = [changed EXCEPT ![a] = TRUE]

\* GetProperties, first half: LoadProps for the address.  The map it
\* returns is read by the caller (ReadHistoryService.GetLatest).
LoadProps(a) == cache' = [cache EXCEPT ![a] = LoadedMap(a)]

\* SaveChanges, lines 145-152: under the read lock, collect the addresses
\* whose changed flag is set.
SaveCollect ==
  /\ saveList' = {a \in Addrs : changed[a]}
  /\ UNCHANGED <<cache, changed, propsStore, pending>>

\* SaveChanges, lines 155-168: under the write lock, marshal the address's
\* map (nothing when it is not cached) and clear its flag.
SaveMarshal(a) ==
  /\ a \in saveList
  /\ pending = NoWrite
  /\ pending' = IF cache[a] = NotLoaded THEN NoWrite
                ELSE [addr |-> a, blob |-> Marshal(cache[a])]
  /\ changed' = [changed EXCEPT ![a] = FALSE]
  /\ saveList' = saveList \ {a}
  /\ UNCHANGED <<cache, propsStore>>

\* SaveChanges, lines 171-176: store.Set outside the lock.  A failed Set is
\* remembered as the returned error only; the flag stays cleared.
SaveWrite ==
  /\ pending # NoWrite
  /\ \/ propsStore' = [propsStore EXCEPT ![pending.addr] = pending.blob]
     \/ PropsStoreCanFail /\ UNCHANGED propsStore
  /\ pending' = NoWrite
  /\ UNCHANGED <<cache, changed, saveList>>

\* SaveChanges has returned.
SaveDone == saveList = {} /\ pending = NoWrite

\* NewPropertiesStore: empty cache and change map, over the stored records.
PropsInit(stored) ==
  /\ cache = [a \in Addrs |-> NotLoaded]
  /\ changed = [a \in Addrs |-> FALSE]
  /\ propsStore = stored
  /\ saveList = {}
  /\ pending = NoWrite
=============================================================================
