----------------------------- MODULE AddHistory -----------------------------
(***************************************************************************)
(* AddHistory (hist_srv/AddHistory.go): the ingest writer.  It validates a *)
(* value, asks the retention manager whether to keep it, writes it to its  *)
(* Thing's bucket and then calls onAddedValue, which HistoryService wires  *)
(* to LatestPropertiesStore.HandleAddValue.                                *)
(*                                                                         *)
(* A worker is a goroutine running AddMessage or AddMessages.  Each bucket *)
(* call and each cache critical section is a step of its own.             *)
(***************************************************************************)
EXTENDS Retention, LatestProps, TLC

CONSTANTS
  Workers,            \* goroutines calling AddMessage / AddMessages
  HistStoreCanFail    \* whether bucket.Set / SetMultiple may fail

VARIABLES
  history,  \* the Thing buckets: address -> (key -> payload)
  wpc,      \* worker program counter: "idle", "handle" or "batch"
  wval,     \* AddMessage: the value stored, waiting for onAddedValue
  wbatch,   \* AddMessages: the values of tvList not yet validated
  wkv       \* AddMessages: kvpairsByThingAddr, address -> (key -> payload)

ingestVars == <<history, wpc, wval, wbatch, wkv>>

\* validateValue, lines 171-176: agent, thing and name must be non-empty.
IsValid(tv) == tv.agent # Empty /\ tv.thing # Empty /\ tv.name # Empty

\* bucket.Set / SetMultiple: the pairs overwrite existing keys.
StoreSet(a, kv) ==
  \/ history' = [history EXCEPT ![a] = kv @@ @]
  \/ HistStoreCanFail /\ UNCHANGED history

\* AddMessage up to the callback: an invalid value returns its error, a
\* value the rules do not retain returns nil; otherwise encodeValue and
\* bucket.Set (an error is logged and returned, the callback still runs).
AddMessageStore(w, tv) ==
  /\ wpc[w] = "idle"
  /\ \/ /\ ~IsValid(tv) \/ ~IsRetained(rules, tv)
        /\ UNCHANGED <<history, wpc, wval>>
     \/ /\ IsValid(tv) /\ IsRetained(rules, tv)
        /\ StoreSet(Addr(tv), Key(tv) :> tv.data)
        /\ wpc' = [wpc EXCEPT ![w] = "handle"]
        /\ wval' = [wval EXCEPT ![w] = tv]
  /\ UNCHANGED <<wbatch, wkv, propsVars>>

\* AddMessage, lines 119-121: svc.onAddedValue(newtv).
AddMessageHandle(w) ==
  /\ wpc[w] = "handle"
  /\ HandleAddValue(wval[w])
  /\ wpc' = [wpc EXCEPT ![w] = "idle"]
  /\ UNCHANGED <<history, wval, wbatch, wkv, propsStore, saveList, pending>>

\* AddMessages with two or more values (an empty list returns nil and a
\* single value is passed to AddMessage).
AddMessagesBegin(w, list) ==
  /\ wpc[w] = "idle"
  /\ Len(list) >= 2
  /\ wpc' = [wpc EXCEPT ![w] = "batch"]
  /\ wbatch' = [wbatch EXCEPT ![w] = list]
  /\ wkv' = [wkv EXCEPT ![w] = [a \in {} |-> <<>>]]
  /\ UNCHANGED <<history, wval, propsVars>>

\* One iteration of the first loop of AddMessages (lines 136-157): make
\* the address's kvpairs map, validate, and for a retained value add its
\* pair and call onAddedValue at once.  An invalid value returns the error
\* and the collected pairs are never written.
AddMessagesValidate(w) ==
  LET tv == Head(wbatch[w])
      a  == Addr(tv)
      kv == IF a \in DOMAIN wkv[w] THEN wkv[w][a] ELSE [k \in {} |-> Empty]
  IN /\ wpc[w] = "batch"
     /\ wbatch[w] # <<>>
     /\ \/ /\ ~IsValid(tv)
           /\ wpc' = [wpc EXCEPT ![w] = "idle"]
           /\ wbatch' = [wbatch EXCEPT ![w] = <<>>]
           /\ wkv' = [wkv EXCEPT ![w] = [b \in {} |-> <<>>]]
           /\ UNCHANGED <<cache, changed>>
        \/ /\ IsValid(tv) /\ IsRetained(rules, tv)
           /\ wkv' = [wkv EXCEPT ![w] = (a :> ((Key(tv) :> tv.data) @@ kv)) @@ @]
           /\ HandleAddValue(tv)
           /\ wbatch' = [wbatch EXCEPT ![w] = Tail(@)]
           /\ UNCHANGED wpc
        \/ /\ IsValid(tv) /\ ~IsRetained(rules, tv)
           /\ wkv' = [wkv EXCEPT ![w] = (a :> kv) @@ @]
           /\ wbatch' = [wbatch EXCEPT ![w] = Tail(@)]
           /\ UNCHANGED <<wpc, cache, changed>>
     /\ UNCHANGED <<history, wval, propsStore, saveList, pending>>

\* The second loop of AddMessages (lines 159-163): one SetMultiple per
\* address, its error ignored; AddMessages then returns nil.
AddMessagesWrite(w, a) ==
  /\ wpc[w] = "batch"
  /\ wbatch[w] = <<>>
  /\ a \in DOMAIN wkv[w]
  /\ StoreSet(a, wkv[w][a])
  /\ wkv' = [wkv EXCEPT ![w] = [b \in DOMAIN @ \ {a} |-> @[b]]]
  /\ UNCHANGED <<wpc, wval, wbatch, propsVars>>

AddMessagesDone(w) ==
  /\ wpc[w] = "batch"
  /\ wbatch[w] = <<>>
  /\ DOMAIN wkv[w] = {}
  /\ wpc' = [wpc EXCEPT ![w] = "idle"]
  /\ UNCHANGED <<history, wval, wbatch, wkv, propsVars>>

IngestInit ==
  /\ wpc = [w \in Workers |-> "idle"]
  /\ wval = [w \in Workers |-> CHOOSE tv \in ThingValue : TRUE]
  /\ wbatch = [w \in Workers |-> <<>>]
  /\ wkv = [w \in Workers |-> [a \in {} |-> <<>>]]
=============================================================================
