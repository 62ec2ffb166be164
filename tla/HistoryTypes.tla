---------------------------- MODULE HistoryTypes ----------------------------
(***************************************************************************)
(* Data model shared by the modules of the History service                *)
(* (src/done_mod/mod_hist/hist_srv): the ThingValue that flows from the    *)
(* message bus into the history buckets and the latest-properties cache.  *)
(*                                                                         *)
(* Identifiers are model values; the empty string "" of the Go code, used  *)
(* both as "missing" (validateValue) and as a wildcard (retention rules),  *)
(* is the single model value Empty.  The value kind is always "event"      *)
(* (HistoryService subscribes to events only) and the sender is one model  *)
(* value, so an encoded key timestamp/name/e/sender is the pair            *)
(* <<ts, name>>.                                                           *)
(***************************************************************************)
EXTENDS Integers, FiniteSets

CONSTANTS
  Agents,        \* AgentIDs of publishers
  ThingIDs,      \* ThingIDs of devices
  Names,         \* event / property names
  Empty,         \* the empty string ""
  PropsName,     \* transport.EventNameProps, the bulk-properties event
  Times,         \* CreatedMSec values publishers put on values (all > 0)
  Datas,         \* opaque payloads of single values
  BulkPayloads,  \* decoded payloads of bulk-properties events: Names -> Datas
  Garbage        \* a bulk-properties payload that is not a JSON object

ASSUME Empty \notin Agents \cup ThingIDs \cup Names
ASSUME PropsName \notin Names \cup {Empty}
ASSUME Times \subseteq Nat \ {0}

\* The bucket address agentID + "/" + thingID of a Thing (AddHistory.go:111).
Addrs == Agents \X ThingIDs
Addr(tv) == <<tv.agent, tv.thing>>

\* Every ThingValue a publisher can put on the bus, valid or not.
ThingValue ==
  [agent: Agents \cup {Empty}, thing: ThingIDs \cup {Empty},
   name: Names \cup {PropsName, Empty}, ts: Times,
   data: Datas \cup BulkPayloads \cup {Garbage}]

\* A cached value: the ThingValue kept per name in a ThingValueMap.  Bulk
\* events are expanded before caching, so its name is a single value name.
CachedValue == [agent: Agents, thing: ThingIDs, name: Names, ts: Times, data: Datas]

\* things.ThingValueMap: name -> most recent ThingValue, for some names.
IsThingValueMap(m) ==
  /\ DOMAIN m \subseteq Names
  /\ \A n \in DOMAIN m : m[n] \in CachedValue /\ m[n].name = n

\* The empty ThingValueMap (things.NewThingValueMap()).
EmptyMap == [n \in {} |-> Empty]

\* The key under which encodeValue stores a value in its Thing's bucket.
Key(tv) == <<tv.ts, tv.name>>
=============================================================================
