----------------------------- MODULE WebSession -----------------------------
(***************************************************************************)
(* A browser session of the web service (mod_web/web_session): the        *)
(* SessionManager's map from the cookie's session ID to a ClientSession,   *)
(* and one ClientSession S0 with its SSE channels.                         *)
(*                                                                         *)
(* Goroutines that meet at S0's sync.RWMutex:                              *)
(*  - the SSE handler of each browser tab: AddSSEClient, receive events    *)
(*    until the channel is closed or the browser goes away, then           *)
(*    RemoveSSEClient (the handler itself is not in the repository; this   *)
(*    is the least any handler of these two methods does);                 *)
(*  - the goroutine AddSSEClient starts for each tab, which calls SendSSE; *)
(*  - the hub client's event callback onEvent, which holds a read lock     *)
(*    and calls SendSSE, which takes the read lock again;                  *)
(*  - ActivateNewSession calls for the same cookie (a login), which close  *)
(*    the old session with Close and store a new one.                      *)
(* The SSE channels are unbuffered: a send completes only when the tab's   *)
(* handler receives it.  A channel is named by its tab.                    *)
(*                                                                         *)
(* Go's RWMutex: RLock waits while a writer is pending or holds the lock;  *)
(* Lock marks a writer pending at once and then waits for the readers to   *)
(* leave.  This is the documented writer preference that makes recursive   *)
(* read locking unsafe.                                                    *)
(***************************************************************************)
EXTENDS Integers, Sequences, SequencesExt

CONSTANTS
  Tabs,           \* SSE connections of the browser session
  Acts,           \* ActivateNewSession calls with this session's cookie
  S0,             \* the session the cookie names at first
  MaxEvents,      \* hub events delivered to onEvent
  SendsPerEvent,  \* SendSSE calls one onEvent makes (two for a property value)
  CanDisconnect,  \* whether a browser may drop an SSE connection
  None

Senders == {<<"notify", t>> : t \in Tabs} \cup {<<"event", S0>>}
Goroutines == Tabs \cup Senders
Objects == {S0} \cup Acts   \* the ClientSession each call creates is named by it

VARIABLES
  sessions,   \* sm.sessions[cookie ID]: a ClientSession, or None
  smLock,     \* the ActivateNewSession holding sm.mux for writing, or None
  connected,  \* ClientSession -> its hub client is connected
  sse,        \* S0.sseClients: a sequence of channels
  closedCh,   \* channels S0.Close has closed
  rd,         \* goroutine -> read locks it holds on S0.mux
  wr,         \* S0.mux writer: "none", or "pending" from Lock until Unlock
  tab,        \* tab -> its SSE handler: [pc, local]
  snd,        \* sender -> [pc, list, i, left]: its SendSSE loop
  evs,        \* events delivered so far
  act         \* ActivateNewSession call -> [pc, cs]

vars == <<sessions, smLock, connected, sse, closedCh, rd, wr, tab, snd, evs, act>>

RLock(g) == wr = "none" /\ rd' = [rd EXCEPT ![g] = @ + 1]
RUnlock(g) == rd' = [rd EXCEPT ![g] = @ - 1]

SetTab(t, pc, local) == tab' = [tab EXCEPT ![t] = [pc |-> pc, local |-> local]]
SetSnd(s, f) == snd' = [snd EXCEPT ![s] = f]
SetAct(a, pc, cs) == act' = [act EXCEPT ![a] = [pc |-> pc, cs |-> cs]]

-----------------------------------------------------------------------------
(* ClientSession                                                           *)

\* AddSSEClient, first step: the read lock (which is all it takes to
\* append to the shared slice).
AddSSEClient(t) ==
  /\ tab[t].pc = "new"
  /\ RLock(t)
  /\ SetTab(t, "addRead", <<>>)
  /\ UNCHANGED <<sessions, smLock, connected, sse, closedCh, wr, snd, evs, act>>

\* append reads the slice ...
AddRead(t) ==
  /\ tab[t].pc = "addRead"
  /\ SetTab(t, "addWrite", sse)
  /\ UNCHANGED <<sessions, smLock, connected, sse, closedCh, rd, wr, snd, evs, act>>

\* ... and stores the longer one; then the notify goroutine starts and the
\* deferred RUnlock runs.
AddWrite(t) ==
  /\ tab[t].pc = "addWrite"
  /\ sse' = Append(tab[t].local, t)
  /\ SetSnd(<<"notify", t>>, [snd[<<"notify", t>>] EXCEPT !.pc = "lock"])
  /\ RUnlock(t)
  /\ SetTab(t, "reading", <<>>)
  /\ UNCHANGED <<sessions, smLock, connected, closedCh, wr, evs, act>>

\* The handler's receive loop ends when the channel is closed or the
\* browser goes away; then it calls RemoveSSEClient.
StopReading(t) ==
  /\ tab[t].pc = "reading"
  /\ t \in closedCh \/ CanDisconnect
  /\ SetTab(t, "rmLock", <<>>)
  /\ UNCHANGED <<sessions, smLock, connected, sse, closedCh, rd, wr, snd, evs, act>>

RemoveSSEClient(t) ==
  /\ tab[t].pc = "rmLock"
  /\ RLock(t)
  /\ SetTab(t, "rmRead", <<>>)
  /\ UNCHANGED <<sessions, smLock, connected, sse, closedCh, wr, snd, evs, act>>

RemoveRead(t) ==
  /\ tab[t].pc = "rmRead"
  /\ SetTab(t, "rmWrite", sse)
  /\ UNCHANGED <<sessions, smLock, connected, sse, closedCh, rd, wr, snd, evs, act>>

\* The first occurrence of the channel is cut out of the slice read before.
RemoveWrite(t) ==
  LET l == tab[t].local IN
  /\ tab[t].pc = "rmWrite"
  /\ sse' = IF t \in ToSet(l)
            THEN RemoveAt(l, CHOOSE i \in 1..Len(l) : l[i] = t /\ t \notin ToSet(SubSeq(l, 1, i - 1)))
            ELSE l
  /\ RUnlock(t)
  /\ SetTab(t, "gone", <<>>)
  /\ UNCHANGED <<sessions, smLock, connected, closedCh, wr, snd, evs, act>>

\* onEvent: a hub event arrives while the hub client is connected; the
\* callback takes the read lock and holds it across its SendSSE calls.
OnEvent ==
  LET s == <<"event", S0>> IN
  /\ snd[s].pc = "idle" /\ connected[S0] /\ evs < MaxEvents
  /\ RLock(s)
  /\ SetSnd(s, [snd[s] EXCEPT !.pc = "lock", !.left = SendsPerEvent])
  /\ evs' = evs + 1
  /\ UNCHANGED <<sessions, smLock, connected, sse, closedCh, wr, tab, act>>

\* SendSSE: take the read lock and range over the slice as it is now.
SendLock(s) ==
  /\ snd[s].pc = "lock"
  /\ RLock(s)
  /\ SetSnd(s, [snd[s] EXCEPT !.pc = "send", !.list = sse, !.i = 1])
  /\ UNCHANGED <<sessions, smLock, connected, sse, closedCh, wr, tab, evs, act>>

\* c <- event: completes when the tab's handler receives.
Send(s) ==
  LET c == snd[s].list[snd[s].i] IN
  /\ snd[s].pc = "send" /\ snd[s].i <= Len(snd[s].list)
  /\ c \notin closedCh /\ tab[c].pc = "reading"
  /\ SetSnd(s, [snd[s] EXCEPT !.i = @ + 1])
  /\ UNCHANGED <<sessions, smLock, connected, sse, closedCh, rd, wr, tab, evs, act>>

\* Mutant: onEvent returns without its deferred RUnlock.
SendDoneKeepOuter(s) ==
  /\ snd[s].pc = "send" /\ snd[s].i > Len(snd[s].list)
  /\ RUnlock(s)
  /\ SetSnd(s, [snd[s] EXCEPT !.pc = IF s[1] = "notify" THEN "done"
                                    ELSE IF snd[s].left > 1 THEN "lock" ELSE "idle",
                               !.left = IF s[1] = "notify" THEN @ ELSE @ - 1])
  /\ UNCHANGED <<sessions, smLock, connected, sse, closedCh, wr, tab, evs, act>>

\* SendSSE returns and releases its read lock; onEvent makes its next call
\* or returns and releases its own.
SendDone(s) ==
  /\ snd[s].pc = "send" /\ snd[s].i > Len(snd[s].list)
  /\ IF s[1] = "notify"
     THEN RUnlock(s) /\ SetSnd(s, [snd[s] EXCEPT !.pc = "done"])
     ELSE IF snd[s].left > 1
     THEN RUnlock(s) /\ SetSnd(s, [snd[s] EXCEPT !.pc = "lock", !.left = @ - 1])
     ELSE rd' = [rd EXCEPT ![s] = @ - 2] /\ SetSnd(s, [snd[s] EXCEPT !.pc = "idle", !.left = 0])
  /\ UNCHANGED <<sessions, smLock, connected, sse, closedCh, wr, tab, evs, act>>

-----------------------------------------------------------------------------
(* SessionManager and ActivateNewSession                                   *)

\* ActivateNewSession, step 1: GetSession under sm.mux's read lock.
GetSession(a) ==
  /\ act[a].pc = "start" /\ smLock = None
  /\ SetAct(a, IF sessions # None THEN "close" ELSE "create", sessions)
  /\ UNCHANGED <<sessions, smLock, connected, sse, closedCh, rd, wr, tab, snd, evs>>

\* SessionManager.Close: take sm.mux and look the ID up again.  A session
\* that is gone already is an error ActivateNewSession logs and ignores.
SmClose(a) ==
  /\ act[a].pc = "close" /\ smLock = None
  /\ \/ sessions = None /\ SetAct(a, "create", act[a].cs) /\ UNCHANGED smLock
     \/ sessions # None /\ smLock' = a /\ SetAct(a, "csLock", sessions)
  /\ UNCHANGED <<sessions, connected, sse, closedCh, rd, wr, tab, snd, evs>>

\* ClientSession.Close: Lock.  A session created by a login has no SSE
\* clients here, so its Close is one step.
CsLock(a) ==
  LET o == act[a].cs IN
  /\ act[a].pc = "csLock"
  /\ \/ o = S0 /\ wr = "none" /\ wr' = "pending" /\ SetAct(a, "csWait", o)
        /\ UNCHANGED <<sessions, smLock, connected>>
     \/ o # S0 /\ connected' = [connected EXCEPT ![o] = FALSE]
        /\ sessions' = None /\ smLock' = None /\ SetAct(a, "create", o)
        /\ UNCHANGED wr
  /\ UNCHANGED <<sse, closedCh, rd, tab, snd, evs>>

\* Mutant: Close closes the channels but does not clear the slice.
CsCloseKeepList(a) ==
  /\ act[a].pc = "csWait"
  /\ \A g \in Goroutines : rd[g] = 0
  /\ closedCh' = closedCh \cup ToSet(sse)
  /\ connected' = [connected EXCEPT ![S0] = FALSE]
  /\ wr' = "none"
  /\ sessions' = None /\ smLock' = None
  /\ SetAct(a, "create", S0)
  /\ UNCHANGED <<sse, rd, tab, snd, evs>>

\* Once the readers have left: close every channel, disconnect the hub
\* client, clear the slice, Unlock; then the manager deletes the entry and
\* releases sm.mux.
CsClose(a) ==
  /\ act[a].pc = "csWait"
  /\ \A g \in Goroutines : rd[g] = 0
  /\ closedCh' = closedCh \cup ToSet(sse)
  /\ connected' = [connected EXCEPT ![S0] = FALSE]
  /\ sse' = <<>>
  /\ wr' = "none"
  /\ sessions' = None /\ smLock' = None
  /\ SetAct(a, "create", S0)
  /\ UNCHANGED <<rd, tab, snd, evs>>

\* Step 2: NewClientSession for the caller's hub client, stored under the
\* cookie's ID with sm.mux held.
StoreSession(a) ==
  /\ act[a].pc = "create" /\ smLock = None
  /\ sessions' = a
  /\ SetAct(a, "done", a)
  /\ UNCHANGED <<smLock, connected, sse, closedCh, rd, wr, tab, snd, evs>>

-----------------------------------------------------------------------------
Init ==
  /\ sessions = S0 /\ smLock = None
  /\ connected = [o \in Objects |-> TRUE]
  /\ sse = <<>> /\ closedCh = {}
  /\ rd = [g \in Goroutines |-> 0] /\ wr = "none"
  /\ tab = [t \in Tabs |-> [pc |-> "new", local |-> <<>>]]
  /\ snd = [s \in Senders |->
              [pc |-> IF s[1] = "notify" THEN "off" ELSE "idle", list |-> <<>>, i |-> 1,
               left |-> IF s[1] = "notify" THEN 1 ELSE 0]]
  /\ evs = 0
  /\ act = [a \in Acts |-> [pc |-> "start", cs |-> None]]

TabStep(t) ==
  AddSSEClient(t) \/ AddRead(t) \/ AddWrite(t) \/ StopReading(t)
  \/ RemoveSSEClient(t) \/ RemoveRead(t) \/ RemoveWrite(t)

SendStep(s) == SendLock(s) \/ Send(s) \/ SendDone(s)

ActStep(a) == GetSession(a) \/ SmClose(a) \/ CsLock(a) \/ CsClose(a) \/ StoreSession(a)

Next ==
  \/ OnEvent
  \/ \E t \in Tabs : TabStep(t)
  \/ \E s \in Senders : SendStep(s)
  \/ \E a \in Acts : ActStep(a)

\* Every goroutine that can go on eventually does; a browser need not
\* connect or leave, and the hub need not send events.
Spec == Init /\ [][Next]_vars
          /\ \A s \in Senders : WF_vars(SendStep(s))
          /\ \A a \in Acts : WF_vars(ActStep(a))
          /\ \A t \in Tabs : WF_vars(AddRead(t) \/ AddWrite(t) \/ RemoveSSEClient(t)
                                     \/ RemoveRead(t) \/ RemoveWrite(t)
                                     \/ (t \in closedCh /\ StopReading(t)))

-----------------------------------------------------------------------------
TypeOK ==
  /\ sessions \in Objects \cup {None} /\ smLock \in Acts \cup {None}
  /\ connected \in [Objects -> BOOLEAN]
  /\ sse \in Seq(Tabs) /\ closedCh \subseteq Tabs
  /\ rd \in [Goroutines -> 0..2] /\ wr \in {"none", "pending"}
  /\ \A t \in Tabs : tab[t].pc \in {"new", "addRead", "addWrite", "reading",
                                     "rmLock", "rmRead", "rmWrite", "gone"}
  /\ \A s \in Senders : snd[s].pc \in {"off", "idle", "lock", "send", "done"}
  /\ evs \in 0..MaxEvents
  /\ \A a \in Acts : act[a].pc \in {"start", "close", "csLock", "csWait", "create", "done"}

\* Close takes the write lock before it closes the channels and clears the
\* slice, and SendSSE ranges over the slice under the read lock: no SendSSE
\* of any goroutine ever comes to send on a channel Close has closed (a
\* send that would panic).
NoSendOnClosedChannel ==
  \A s \in Senders :
    snd[s].pc = "send" /\ snd[s].i <= Len(snd[s].list) => snd[s].list[snd[s].i] \notin closedCh

InSendSSE(s) == snd[s].pc \in {"lock", "send"}

\* Every SendSSE call, from onEvent or from AddSSEClient's goroutine,
\* eventually returns and releases its read lock.
SendSSEReturns == \A s \in Senders : InSendSSE(s) ~> ~InSendSSE(s)
=============================================================================
