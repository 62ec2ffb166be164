--------------------------- MODULE HistoryService ---------------------------
(***************************************************************************)
(* HistoryService (hist_srv/HistoryService.go) composes the ingest writer, *)
(* the retention manager and the latest-properties cache over one bucket   *)
(* store, and runs them in a process that can be stopped and restarted:   *)
(*                                                                         *)
(*  - the event subscription feeds AddMessage (workers, AddHistory);       *)
(*  - RPC goroutines call GetLatest (readers) and SetRetentionRules;       *)
(*  - on a signal, StartPlugin calls Stop, which runs SaveChanges while    *)
(*    the subscription is still active, and then the process exits;        *)
(*  - a restart builds a new service over the same bucket store.           *)
(***************************************************************************)
EXTENDS AddHistory

CONSTANTS
  Readers,          \* RPC goroutines serving GetLatest
  Inputs,           \* the ThingValues publishers put on the bus
  Batches,          \* tvLists passed to AddMessages
  StoredProps,      \* properties-bucket records a process can start over
  Idle,             \* a reader not inside GetLatest
  MaxMsgs,          \* bound: values and batches delivered in a behaviour
  MaxRestarts,      \* bound: process restarts
  MaxRuleChanges    \* bound: SetRetentionRules calls

VARIABLES
  svc,          \* "running", "saving" (Stop is in SaveChanges), "exited"
  rd,           \* reader: Idle, or the map GetLatest returned, unserialised
  msgs,         \* values and batches delivered so far
  restarts,     \* restarts so far
  ruleChanges   \* SetRetentionRules calls so far

vars == <<rules, propsVars, ingestVars, svc, rd, msgs, restarts, ruleChanges>>

Alive == svc \in {"running", "saving"}

-----------------------------------------------------------------------------
(* Steps of the running process.                                           *)

\* The event handler installed by Start (lines 88-95) calls AddMessage.
Receive(w, tv) ==
  /\ Alive /\ msgs < MaxMsgs
  /\ AddMessageStore(w, tv)
  /\ msgs' = msgs + 1
  /\ UNCHANGED <<rules, svc, rd, restarts, ruleChanges>>

Handle(w) ==
  /\ Alive
  /\ AddMessageHandle(w)
  /\ UNCHANGED <<rules, svc, rd, msgs, restarts, ruleChanges>>

\* A caller of the ingest capability's bulk path.
ReceiveBatch(w, list) ==
  /\ Alive /\ msgs < MaxMsgs
  /\ AddMessagesBegin(w, list)
  /\ msgs' = msgs + 1
  /\ UNCHANGED <<rules, svc, rd, restarts, ruleChanges>>

BatchStep(w) ==
  /\ Alive
  /\ \/ AddMessagesValidate(w)
     \/ \E a \in Addrs : AddMessagesWrite(w, a)
     \/ AddMessagesDone(w)
  /\ UNCHANGED <<rules, svc, rd, msgs, restarts, ruleChanges>>

\* ReadHistoryService.GetLatest -> GetProperties: LoadProps, then under the
\* read lock either copy the requested names or, for an empty name list,
\* take thingCache itself (line 85).  The RPC layer serialises the
\* response after the lock is released.
GetLatest(r, a, live) ==
  /\ Alive /\ rd[r] = Idle
  /\ LoadProps(a)
  /\ rd' = [rd EXCEPT ![r] = [addr |-> a, live |-> live]]
  /\ UNCHANGED <<rules, changed, propsStore, saveList, pending, ingestVars,
                 svc, msgs, restarts, ruleChanges>>

GetLatestReply(r) ==
  /\ Alive /\ rd[r] # Idle
  /\ rd' = [rd EXCEPT ![r] = Idle]
  /\ UNCHANGED <<rules, propsVars, ingestVars, svc, msgs, restarts, ruleChanges>>

\* ManageHistory.SetRetentionRules over RPC.
SetRules(rs) ==
  /\ Alive /\ ruleChanges < MaxRuleChanges
  /\ SetRetentionRules(rs)
  /\ ruleChanges' = ruleChanges + 1
  /\ UNCHANGED <<propsVars, ingestVars, svc, rd, msgs, restarts>>

-----------------------------------------------------------------------------
(* Stop, exit and restart.                                                 *)

\* Stop (lines 119-133) starts with SaveChanges; the subscription stays.
Stop ==
  /\ svc = "running"
  /\ SaveCollect
  /\ svc' = "saving"
  /\ UNCHANGED <<rules, ingestVars, rd, msgs, restarts, ruleChanges>>

Save ==
  /\ svc = "saving"
  /\ \/ \E a \in Addrs : SaveMarshal(a)
     \/ SaveWrite
  /\ UNCHANGED <<rules, ingestVars, svc, rd, msgs, restarts, ruleChanges>>

\* SaveChanges returned; Stop stops the read and manage capabilities and
\* StartPlugin calls os.Exit: in-flight handlers and requests are gone.
Exit ==
  /\ svc = "saving" /\ SaveDone
  /\ svc' = "exited"
  /\ UNCHANGED <<rules, propsVars, ingestVars, rd, msgs, restarts, ruleChanges>>

\* A new process: NewHistoryService + Start over the same bucket store.
Restart ==
  /\ svc = "exited" /\ restarts < MaxRestarts
  /\ svc' = "running"
  /\ restarts' = restarts + 1
  /\ rules' = [k \in {} |-> <<>>]
  /\ cache' = [a \in Addrs |-> NotLoaded]
  /\ changed' = [a \in Addrs |-> FALSE]
  /\ saveList' = {} /\ pending' = NoWrite
  /\ wpc' = [w \in Workers |-> "idle"]
  /\ wbatch' = [w \in Workers |-> <<>>]
  /\ wkv' = [w \in Workers |-> [a \in {} |-> <<>>]]
  /\ rd' = [r \in Readers |-> Idle]
  /\ UNCHANGED <<propsStore, history, wval, msgs, ruleChanges>>

\* The process has exited for good.
Terminated ==
  /\ svc = "exited" /\ restarts = MaxRestarts
  /\ UNCHANGED vars

-----------------------------------------------------------------------------
Init ==
  /\ RetentionInit
  /\ \E s \in StoredProps : PropsInit(s)
  /\ history = [a \in Addrs |-> [k \in {} |-> Empty]]
  /\ IngestInit
  /\ svc = "running"
  /\ rd = [r \in Readers |-> Idle]
  /\ msgs = 0 /\ restarts = 0 /\ ruleChanges = 0

Next ==
  \/ \E w \in Workers :
       \/ \E tv \in Inputs : Receive(w, tv)
       \/ \E list \in Batches : ReceiveBatch(w, list)
       \/ Handle(w)
       \/ BatchStep(w)
  \/ \E r \in Readers :
       \/ \E a \in Addrs, live \in BOOLEAN : GetLatest(r, a, live)
       \/ GetLatestReply(r)
  \/ \E rs \in RuleSets : SetRules(rs)
  \/ Stop \/ Save \/ Exit \/ Restart \/ Terminated

\* The goroutines the process runs finish what they started; signals,
\* publishers and RPC callers are not obliged to do anything.
Fairness ==
  /\ \A w \in Workers : WF_vars(Handle(w)) /\ WF_vars(BatchStep(w))
  /\ \A r \in Readers : WF_vars(GetLatestReply(r))
  /\ WF_vars(Save) /\ WF_vars(Exit)

Spec == Init /\ [][Next]_vars /\ Fairness

-----------------------------------------------------------------------------
(* Properties.                                                             *)

TypeOK ==
  /\ IsRuleSet(rules)
  /\ \A a \in Addrs :
       /\ cache[a] = NotLoaded \/ IsThingValueMap(cache[a])
       /\ propsStore[a] \in {NoBlob, CorruptBlob} \/ IsThingValueMap(propsStore[a].props)
       /\ DOMAIN history[a] \subseteq Times \X (Names \cup {PropsName})
  /\ changed \in [Addrs -> BOOLEAN]
  /\ saveList \subseteq Addrs
  /\ pending = NoWrite \/ pending.addr \in Addrs
  /\ wpc \in [Workers -> {"idle", "handle", "batch"}]
  /\ svc \in {"running", "saving", "exited"}
  /\ msgs \in 0 .. MaxMsgs /\ restarts \in 0 .. MaxRestarts

\* The names, with their payloads, a stored history entry brings into the
\* latest values: its own name, or each entry of a bulk-properties payload.
EntryValues(a, k) ==
  IF k[2] # PropsName THEN {[name |-> k[2], data |-> history[a][k]]}
  ELSE IF history[a][k] = Garbage THEN {}
  ELSE {[name |-> n, data |-> history[a][k][n]] : n \in DOMAIN history[a][k]}

\* A value written by AddMessage whose onAddedValue has not run yet.
AwaitingCallback(a, k) ==
  \E w \in Workers : wpc[w] = "handle" /\ Addr(wval[w]) = a /\ Key(wval[w]) = k

\* GetLatest never answers older than the history: for every value in a
\* Thing's bucket whose onAddedValue has run, the latest values the service
\* would return (the cached map, or the stored record a new process loads)
\* hold that name with a CreatedMSec at least as recent.  Breaks if the
\* out-of-order check, LoadProps or the flush lose an update, or if a
\* process exits with changes SaveChanges did not see.
LatestCoversHistory ==
  \A a \in Addrs : \A k \in DOMAIN history[a] :
    ~AwaitingCallback(a, k) =>
      \A e \in EntryValues(a, k) :
        e.name \in DOMAIN LoadedMap(a) /\ LoadedMap(a)[e.name].ts >= k[1]

\* SaveChanges' contract: an address whose changed flag is clear, and whose
\* blob is not in SaveChanges' hands, has its cached map in the properties
\* bucket.  Breaks if the flag is cleared at the wrong moment or a failed
\* write leaves the flag cleared.
FlushedMeansPersisted ==
  \A a \in Addrs :
    /\ cache[a] # NotLoaded
    /\ ~changed[a]
    /\ pending = NoWrite \/ pending.addr # a
    => Unmarshal(propsStore[a]) = cache[a]

\* A value that is in the bucket of a pending AddMessages call.
AwaitingWrite(a, k) == \E w \in Workers : a \in DOMAIN wkv[w] /\ k \in DOMAIN wkv[w][a]

\* Every latest value GetLatest returns was persisted: it is in its Thing's
\* bucket with the same payload, directly or inside a bulk-properties event
\* of the same CreatedMSec (the spec: AddMessages validates the whole batch
\* before any write; GetLatest reflects stored history).
LatestBackedByHistory ==
  \A a \in Addrs : \A n \in DOMAIN LoadedMap(a) :
    LET v == LoadedMap(a)[n] IN
      \/ AwaitingWrite(a, Key(v)) \/ AwaitingWrite(a, <<v.ts, PropsName>>)
      \/ \E k \in DOMAIN history[a] :
           k[1] = v.ts /\ [name |-> n, data |-> v.data] \in EntryValues(a, k)

\* GetLatest's response map is not written while the RPC layer serialises
\* it outside cacheMux: no step changes a Thing's cached map while a reader
\* holds that map itself (Go: concurrent map read and map write).
NoUnlockedMapRead ==
  [][\A r \in Readers :
       rd[r] # Idle /\ rd[r].live => cache'[rd[r].addr] = cache[rd[r].addr]]_vars

\* Every change to the latest values of a running service eventually
\* reaches the properties bucket, or the process ends (the spec: SaveChanges
\* runs periodically as well as on shutdown).
ChangesEventuallySaved ==
  \A a \in Addrs : changed[a] ~> (~changed[a] \/ svc = "exited")
=============================================================================
