----------------------------- MODULE DirService -----------------------------
(***************************************************************************)
(* The Thing directory (mod_dir/dir_srv) with its cursor client            *)
(* (mod_dir/dir_cli/DirectoryCursorClient.go).  DirectoryService.Start     *)
(* subscribes to TD events, sets the capabilities' permissions and         *)
(* publishes the directory's own two TDs; handleTDEvent stores every TD    *)
(* event through UpdateTD.  UpdateDirectoryService sets and deletes TDs    *)
(* by thing address; ReadDirectoryService hands out leased cursors over    *)
(* the TD bucket and answers GetTD and GetTDs.                             *)
(*                                                                         *)
(* A TD is reduced to its thing address: its content is not compared.     *)
(* The bucket cursor (external, spec §6) steps in the key order of the     *)
(* bucket at the time of each step (spec §5: no snapshot isolation).      *)
(* Every RPC is one step; a client makes one call at a time.               *)
(***************************************************************************)
EXTENDS Integers, Sequences, FiniteSets

CONSTANTS
  AddrOrder,    \* every thing address, in bucket key order
  OwnTDs,       \* the addresses of the directory's read and update capabilities
  DirClients,   \* clients of the read capability
  CursorKeys,   \* cursor keys the cursor cache hands out
  Limits,       \* limits clients pass to NextN
  MaxLeaks,     \* bound on GetTDs calls
  CanFail,      \* whether SubEvents, SetServicePermissions and PubEvent may fail
  Free, Gone,   \* a cursor key not handed out yet; released or expired
  NoCursor,     \* the empty cursor key of a zero response
  Unpos, AtEnd  \* a bucket cursor before its first step; past its last key

Addrs == {AddrOrder[i] : i \in DOMAIN AddrOrder}

VARIABLES
  dsvc,        \* "new", "running", "exited" (Start failed) or "stopped"
  subscribed,  \* the TD event subscription is in place
  tds,         \* the TD bucket's keys
  inbox,       \* TD events delivered to the subscription, not yet handled
  lease,       \* cursor key -> Free, Gone or its owner
  cpos,        \* cursor key -> the bucket cursor's position
  ckey,        \* client -> its DirectoryCursorClient's cursorKey
  walk,        \* client -> "none", "walking" (after a valid First) or "ended"
  got,         \* client -> the addresses returned since its First
  stable,      \* client -> the addresses in the bucket throughout since its First
  leaked       \* bucket cursors GetTDs opened and never closed

dirVars == <<dsvc, subscribed, tds, inbox, lease, cpos, ckey, walk, got, stable, leaked>>
walkVars == <<walk, got, stable>>

Idx(a) == CHOOSE i \in DOMAIN AddrOrder : AddrOrder[i] = a

\* The bucket's keys after position p, in key order.
KeysAfter(p) ==
  SelectSeq(AddrOrder, LAMBDA a : a \in tds /\ (p = Unpos \/ Idx(a) > Idx(p)))

DirInit ==
  /\ dsvc = "new"
  /\ subscribed = FALSE
  /\ tds = {}
  /\ inbox = {}
  /\ lease = [k \in CursorKeys |-> Free]
  /\ cpos = [k \in CursorKeys |-> Unpos]
  /\ ckey = [c \in DirClients |-> NoCursor]
  /\ walk = [c \in DirClients |-> "none"]
  /\ got = [c \in DirClients |-> {}]
  /\ stable = [c \in DirClients |-> {}]
  /\ leaked = 0

\* Start: the event handler is set and TD events are subscribed to; the
\* error of SubEvents is overwritten by that of SetServicePermissions.  Then
\* the two capability TDs are published as TD events, which the service's
\* own subscription delivers back to it.  StartPlugin exits the process
\* when Start returns an error.
DirStart ==
  /\ dsvc = "new"
  /\ \E subOK, permOK, pubOK \in IF CanFail THEN BOOLEAN ELSE {TRUE} :
       /\ subscribed' = subOK
       /\ dsvc' = IF permOK /\ pubOK THEN "running" ELSE "exited"
       /\ inbox' = IF subOK /\ permOK /\ pubOK THEN OwnTDs ELSE {}
  /\ UNCHANGED <<tds, lease, cpos, ckey, walkVars, leaked>>

\* Stop: the capabilities and the cursor cache's sweep stop and the bucket
\* is closed; StartPlugin then exits.
DirStop ==
  /\ dsvc = "running"
  /\ dsvc' = "stopped"
  /\ UNCHANGED <<subscribed, tds, inbox, lease, cpos, ckey, walkVars, leaked>>

\* A Thing publishes its TD; the bus delivers it only to a subscription.
PublishTD(a) ==
  /\ dsvc = "running" /\ subscribed
  /\ inbox' = inbox \cup {a}
  /\ UNCHANGED <<dsvc, subscribed, tds, lease, cpos, ckey, walkVars, leaked>>

\* handleTDEvent: the event's TD is stored with UpdateTD.
HandleTDEvent(a) ==
  /\ dsvc = "running" /\ a \in inbox
  /\ inbox' = inbox \ {a}
  /\ tds' = tds \cup {a}
  /\ UNCHANGED <<dsvc, subscribed, lease, cpos, ckey, walkVars, leaked>>

\* UpdateTD and RemoveTD called over RPC by an administrator.
UpdateTD(a) ==
  /\ dsvc = "running"
  /\ tds' = tds \cup {a}
  /\ UNCHANGED <<dsvc, subscribed, inbox, lease, cpos, ckey, walkVars, leaked>>

RemoveTD(a) ==
  /\ dsvc = "running"
  /\ tds' = tds \ {a}
  /\ stable' = [c \in DirClients |-> stable[c] \ {a}]
  /\ UNCHANGED <<dsvc, subscribed, inbox, lease, cpos, ckey, walk, got, leaked>>

\* GetCursor: a bucket cursor is added to the cache under a new key owned
\* by the caller, which NewDirectoryCursorClient keeps.
GetCursor(c, k) ==
  /\ dsvc = "running" /\ lease[k] = Free
  /\ lease' = [lease EXCEPT ![k] = c]
  /\ ckey' = [ckey EXCEPT ![c] = k]
  /\ walk' = [walk EXCEPT ![c] = "none"]
  /\ UNCHANGED <<dsvc, subscribed, tds, inbox, cpos, got, stable, leaked>>

\* cursorCache.Get: the key must be known, leased and owned by the caller.
Owns(c) == ckey[c] # NoCursor /\ lease[ckey[c]] = c

\* A call whose cursorCache.Get fails returns an error and no response; the
\* client copies the zero response's empty cursor key.
CallFails(c) ==
  /\ ~Owns(c)
  /\ ckey' = [ckey EXCEPT ![c] = NoCursor]

\* First: on an empty bucket the server returns no response and no error,
\* and the client copies the empty cursor key from the zero response.
First(c) ==
  LET k == ckey[c]
      ks == KeysAfter(Unpos)
  IN /\ dsvc = "running"
     /\ \/ /\ CallFails(c)
           /\ UNCHANGED <<cpos, walkVars>>
        \/ /\ Owns(c) /\ ks = <<>>
           /\ ckey' = [ckey EXCEPT ![c] = NoCursor]
           /\ UNCHANGED <<cpos, walkVars>>
        \/ /\ Owns(c) /\ ks # <<>>
           /\ cpos' = [cpos EXCEPT ![k] = ks[1]]
           /\ walk' = [walk EXCEPT ![c] = "walking"]
           /\ got' = [got EXCEPT ![c] = {ks[1]}]
           /\ stable' = [stable EXCEPT ![c] = tds]
           /\ UNCHANGED ckey
     /\ UNCHANGED <<dsvc, subscribed, tds, inbox, lease, leaked>>

\* The end of a walk: the cursor reported no further key.
EndWalk(c) == walk' = [walk EXCEPT ![c] = IF @ = "walking" THEN "ended" ELSE @]

\* Next: one step of the bucket cursor.  A cursor not yet positioned is a
\* caller error ("First() or Seek must have been called first"); its step
\* may land on the first key or report none.
Next(c) ==
  LET k == ckey[c]
      ks == IF cpos[k] = AtEnd THEN <<>> ELSE KeysAfter(cpos[k])
  IN /\ dsvc = "running"
     /\ \/ /\ CallFails(c)
           /\ UNCHANGED <<cpos, walkVars>>
        \/ /\ Owns(c) /\ ks # <<>>
           /\ cpos' = [cpos EXCEPT ![k] = ks[1]]
           /\ got' = [got EXCEPT ![c] = @ \cup {ks[1]}]
           /\ UNCHANGED <<ckey, walk, stable>>
        \/ /\ Owns(c) /\ (ks = <<>> \/ cpos[k] = Unpos)
           /\ cpos' = [cpos EXCEPT ![k] = AtEnd]
           /\ EndWalk(c)
           /\ UNCHANGED <<ckey, got, stable>>
     /\ UNCHANGED <<dsvc, subscribed, tds, inbox, lease, leaked>>

\* Mutant: each value replaces the previous one instead of being appended.
BatchLastOnly(b) == IF b = {} THEN {} ELSE {CHOOSE v \in b : TRUE}

\* The values of a NextN batch: the server ranges over the bucket cursor's
\* map and appends each.
BatchValues(b) == b

\* NextN: up to n steps of the bucket cursor, returned as a map with
\* itemsRemaining false when the cursor ran out before n.  On a cursor not
\* yet positioned the steps start at the first key or report none, as Next.
NextN(c, n) ==
  LET k == ckey[c]
      ks == IF cpos[k] = AtEnd THEN <<>> ELSE KeysAfter(cpos[k])
      m == IF Len(ks) < n THEN Len(ks) ELSE n
      batch == {ks[i] : i \in 1..m}
  IN /\ dsvc = "running"
     /\ \/ /\ CallFails(c)
           /\ UNCHANGED <<cpos, walkVars>>
        \/ /\ Owns(c)
           /\ cpos' = [cpos EXCEPT ![k] = IF m < n THEN AtEnd ELSE ks[m]]
           /\ got' = [got EXCEPT ![c] = @ \cup BatchValues(batch)]
           /\ IF m < n THEN EndWalk(c) ELSE UNCHANGED walk
           /\ UNCHANGED <<ckey, stable>>
        \/ /\ Owns(c) /\ cpos[k] = Unpos
           /\ cpos' = [cpos EXCEPT ![k] = AtEnd]
           /\ UNCHANGED <<ckey, walkVars>>
     /\ UNCHANGED <<dsvc, subscribed, tds, inbox, lease, leaked>>

\* Release: the cache closes the cursor the client's key names, if the
\* client owns it.  The client keeps its key.
Release(c) ==
  /\ dsvc = "running"
  /\ lease' = IF Owns(c) THEN [lease EXCEPT ![ckey[c]] = Gone] ELSE lease
  /\ walk' = [walk EXCEPT ![c] = "none"]
  /\ UNCHANGED <<dsvc, subscribed, tds, inbox, cpos, ckey, got, stable, leaked>>

\* The cache's sweep closes a cursor its lifetime ran out on.
Expire(k) ==
  /\ dsvc = "running"
  /\ lease[k] \notin {Free, Gone}
  /\ lease' = [lease EXCEPT ![k] = Gone]
  /\ UNCHANGED <<dsvc, subscribed, tds, inbox, cpos, ckey, walkVars, leaked>>

\* GetTDs and GetTDsRaw: a bucket cursor is opened, skipped over the offset
\* and read for a page; it is neither added to the cache nor closed.
GetTDs ==
  /\ dsvc = "running"
  /\ leaked < MaxLeaks
  /\ leaked' = leaked + 1
  /\ UNCHANGED <<dsvc, subscribed, tds, inbox, lease, cpos, ckey, walkVars>>

DirNext ==
  \/ DirStart \/ DirStop \/ GetTDs
  \/ \E a \in Addrs : PublishTD(a) \/ HandleTDEvent(a) \/ UpdateTD(a) \/ RemoveTD(a)
  \/ \E c \in DirClients :
       \/ \E k \in CursorKeys : GetCursor(c, k)
       \/ First(c) \/ Next(c) \/ Release(c)
       \/ \E n \in Limits : NextN(c, n)
  \/ \E k \in CursorKeys : Expire(k)

(* The cursor API (First, then Next or NextN until the cursor reports no   *)
(* more): a client that walks the directory to its end has been given      *)
(* every TD that was in the directory from its First to the end, while    *)
(* administrators and TD events added and removed others, and whatever     *)
(* mix of Next and NextN batch sizes it used.                              *)
IterationComplete ==
  \A c \in DirClients : walk[c] = "ended" => stable[c] \subseteq got[c]

(* DirectoryService.Start's comments: Start subscribes to TD events,      *)
(* updates the directory from them and publishes a TD for each of its      *)
(* capabilities.  Once Start has returned without an error, each           *)
(* capability TD is stored at some point, unless the service is stopped    *)
(* first.  An administrator may remove it again afterwards.               *)
OwnTDsListed ==
  \A a \in OwnTDs : [](dsvc # "running") \/ <>(a \in tds \/ dsvc = "stopped")
=============================================================================
