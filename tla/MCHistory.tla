----------------------------- MODULE MCHistory -----------------------------
(***************************************************************************)
(* Model-checking instance of HistoryService: one Thing, two names, two    *)
(* timestamps.  The .cfg files pick the worker and reader sets, the store  *)
(* failure switches and the bounds.                                        *)
(***************************************************************************)
EXTENDS HistoryService

CONSTANTS a1, t1, n1, n2, d1, d2

MCAgents == {a1}
MCThingIDs == {t1}
MCNames == {n1, n2}
MCTimes == {1, 2}
\* One payload: a later value for a name always differs by CreatedMSec.
MCDatas1 == {d1}
\* Two payloads: two values may share a key and differ in payload.
MCDatas2 == {d1, d2}

\* A bulk-properties event carrying both names.
MCBulkPayloads == {[n \in MCNames |-> d1]}

TV(n, t, d) == [agent |-> a1, thing |-> t1, name |-> n, ts |-> t, data |-> d]

\* Single values, bulk events (well-formed or not) and one value without a
\* name, which validateValue rejects.
MCInputs(ds) ==
  {TV(n, t, d) : n \in MCNames, t \in MCTimes, d \in ds}
  \cup {TV(PropsName, t, p) : t \in MCTimes, p \in MCBulkPayloads \cup {Garbage}}
  \cup {TV(Empty, 1, d1)}
MCInputs1 == MCInputs(MCDatas1)
MCInputs2 == MCInputs(MCDatas2)

\* tvLists for AddMessages: out of CreatedMSec order, and one whose second
\* value is invalid.
MCBatchesValid == {<<TV(n1, 2, d1), TV(n1, 1, d1)>>}
MCBatchesAll == MCBatchesValid \cup {<<TV(n2, 2, d1), TV(Empty, 1, d1)>>}

Rule(n, ag, th, keep) == [name |-> n, agent |-> ag, thing |-> th, retain |-> keep]

\* Drop n1 for every Thing, keep everything else; the caller's rule carries
\* a wrong name that SetRetentionRules re-stamps.
MCRuleSets ==
  {(n1 :> <<Rule(n2, Empty, Empty, FALSE)>>) @@ (Empty :> <<Rule(Empty, a1, Empty, TRUE)>>)}

\* A process starts over a store without records or with a damaged one.
MCStoredProps == {[a \in MCAgents \X MCThingIDs |-> NoBlob],
                  [a \in MCAgents \X MCThingIDs |-> CorruptBlob]}
=============================================================================
