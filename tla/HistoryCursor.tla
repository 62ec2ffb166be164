---------------------------- MODULE HistoryCursor ----------------------------
(***************************************************************************)
(* The history query engine (hist_srv/HistoryCursor.go and GetCursor in    *)
(* ReadHistoryService.go) over one Thing's bucket.                         *)
(*                                                                         *)
(* Each RPC handler runs in its own goroutine.  A single-value call        *)
(* (First, Last, Next, Prev, Seek, Release, GetCursor) is one step: the    *)
(* bucket cursor reads a bbolt read-transaction snapshot, so no other      *)
(* goroutine can change what it sees, and the only shared state is the     *)
(* lease table.  NextN and PrevN are one step per inner Next/Prev call,    *)
(* because the lease is looked up again by every inner call.               *)
(*                                                                         *)
(* The bucket cursor and the lease manager are outside src/ and follow the *)
(* spec (§6) and bbolt: a new cursor is unpositioned (0); Next at the last *)
(* key and Prev at the first report invalid and stay there; a Seek beyond  *)
(* every key leaves the cursor past the end (N+1), from where Prev         *)
(* returns the last key.                                                   *)
(***************************************************************************)
EXTENDS HistoryKeys, FiniteSets

CONSTANTS
  Goroutines,   \* RPC handler goroutines
  CursorKeys,   \* cursor keys the lease manager hands out
  GClient,      \* the client on whose behalf a goroutine calls
  Free,         \* a cursor key not handed out yet
  Gone,         \* a cursor key released or expired (keys are never reused)
  Now,          \* time.Now() of the requests, in msec
  SeekTimes,    \* TimeStampMSec arguments of Seek
  Buckets,      \* the key sets the Thing's bucket may hold
  Limits,       \* Limit arguments of NextN and PrevN
  MaxCalls      \* goroutine -> bound on the RPC calls it makes

VARIABLES
  keys,      \* the bucket's keys in bucket order (the cursor's snapshot)
  lease,     \* cursor key -> Free, Gone or the owning client
  cfilter,   \* cursor key -> the name filter in the cursor's context
  pos,       \* cursor key -> bucket cursor position, 0..Len(keys)+1
  batch,     \* goroutine -> the NextN/PrevN loop it is in, if any
  out,       \* goroutine -> the values returned to it, in order
  res,       \* goroutine -> its last call, the cursor used and the outcome
  calls,     \* goroutine -> number of calls made
  sweeping   \* the cursor cache's expiry sweep runs

vars == <<keys, lease, cfilter, pos, batch, out, res, calls, sweeping>>

N == Len(keys)

NoBatch == [op |-> "none", ck |-> Free, left |-> 0]

Outcomes == {"none", "value", "invalid", "error", "panic", "done", "exhausted"}

\* The RPC methods that take a cursor key, by the name of their single call.
CallNames == {"get", "first", "last", "next", "prev", "seek", "release"}

\* The name check of findNextName / the filter check at the call sites.
Wanted(ck, i) == cfilter[ck] = Empty \/ keys[i][2] = cfilter[ck]

Result(p, found) == [pos |-> p, found |-> found]

(* findNextName(cursor, name, until = Now): step forward; on a key dated *)
(* after until step back once and report not-found; on a matching name   *)
(* report it; at the end of the bucket report not-found where it stands.  *)
\* Mutant: the scan stops on a key past the bound without stepping back.
RECURSIVE findNextNameNoUndo(_, _)
findNextNameNoUndo(ck, p) ==
  IF p \notin 1..N-1 THEN Result(p, FALSE)
  ELSE IF keys[p + 1][1] > Now THEN Result(p + 1, FALSE)
  ELSE IF keys[p + 1][2] = cfilter[ck] THEN Result(p + 1, TRUE)
  ELSE findNextNameNoUndo(ck, p + 1)

RECURSIVE findNextName(_, _)
findNextName(ck, p) ==
  IF p \notin 1..N-1 THEN Result(p, FALSE)
  ELSE IF keys[p + 1][1] > Now THEN Result(p, FALSE)
  ELSE IF keys[p + 1][2] = cfilter[ck] THEN Result(p + 1, TRUE)
  ELSE findNextName(ck, p + 1)

(* findPrevName(cursor, name, until = time.Time{}): step backward until a *)
(* matching name or the first key.  Its bound, timestamp < UnixMilli of   *)
(* the zero time, holds for no timestamp the service writes.              *)
RECURSIVE findPrevName(_, _)
findPrevName(ck, p) ==
  IF p \notin 2..N THEN Result(p, FALSE)
  ELSE IF keys[p - 1][2] = cfilter[ck] THEN Result(p - 1, TRUE)
  ELSE findPrevName(ck, p - 1)

\* The entry a call lands on, then the scan when the filter rejects it.
ScanFrom(ck, p) == IF Wanted(ck, p) THEN Result(p, TRUE) ELSE findNextName(ck, p)
ScanBackFrom(ck, p) == IF Wanted(ck, p) THEN Result(p, TRUE) ELSE findPrevName(ck, p)

FirstResult(ck) == IF N = 0 THEN Result(pos[ck], FALSE) ELSE ScanFrom(ck, 1)
LastResult(ck) == IF N = 0 THEN Result(pos[ck], FALSE) ELSE ScanBackFrom(ck, N)
NextResult(ck) ==
  IF pos[ck] \in 1..N-1 THEN ScanFrom(ck, pos[ck] + 1) ELSE Result(pos[ck], FALSE)
PrevResult(ck) ==
  IF pos[ck] \in 2..N+1 THEN ScanBackFrom(ck, pos[ck] - 1) ELSE Result(pos[ck], FALSE)

\* Mutant: a seek beyond every key leaves the cursor one place too far.
SeekResultPastEnd(ck, t) ==
  LET at == {i \in 1..N : ~StrLess(KeyString(keys[i]), SearchKey(t))}
  IN  IF at = {} THEN Result(IF N = 0 THEN pos[ck] ELSE N + 2, FALSE)
      ELSE ScanFrom(ck, CHOOSE i \in at : \A j \in at : i <= j)

\* cursor.Seek(FormatInt(t)): the first key not below the search key.
SeekResult(ck, t) ==
  LET at == {i \in 1..N : ~StrLess(KeyString(keys[i]), SearchKey(t))}
  IN  IF at = {} THEN Result(IF N = 0 THEN pos[ck] ELSE N + 1, FALSE)
      ELSE ScanFrom(ck, CHOOSE i \in at : \A j \in at : i <= j)

\* cursorCache.Get(key, senderID, true) fails: unknown, expired or not ours.
LeaseError(g, ck) == lease[ck] # GClient[g]

\* Move the cursor to r.pos and hand g the value found there, if any.
Move(g, ck, r) ==
  /\ pos' = [pos EXCEPT ![ck] = r.pos]
  /\ out' = IF r.found THEN [out EXCEPT ![g] = Append(@, keys[r.pos])] ELSE out

\* Record g's call op on ck and its outcome.
Answer(g, ck, op, outcome) ==
  res' = [res EXCEPT ![g] = [op |-> op, ck |-> ck, outcome |-> outcome]]

\* A single-value call's answer: the value, or valid = false.
Reply(g, ck, op, r) ==
  /\ Move(g, ck, r)
  /\ Answer(g, ck, op, IF r.found THEN "value" ELSE "invalid")

\* A single-value call: the lease check, then the cursor operation.
Serve(g, ck, op, r) ==
  /\ batch[g] = NoBatch
  /\ calls[g] < MaxCalls[g]
  /\ calls' = [calls EXCEPT ![g] = @ + 1]
  /\ \/ LeaseError(g, ck) /\ Answer(g, ck, op, "error") /\ UNCHANGED <<pos, out>>
     \/ ~LeaseError(g, ck) /\ Reply(g, ck, op, r)
  /\ UNCHANGED <<keys, lease, cfilter, batch, sweeping>>

GetCursor(g, ck, f) ==
  /\ batch[g] = NoBatch
  /\ calls[g] < MaxCalls[g]
  /\ lease[ck] = Free
  /\ lease' = [lease EXCEPT ![ck] = GClient[g]]
  /\ cfilter' = [cfilter EXCEPT ![ck] = f]
  /\ pos' = [pos EXCEPT ![ck] = 0]
  /\ calls' = [calls EXCEPT ![g] = @ + 1]
  /\ Answer(g, ck, "get", "done")
  /\ UNCHANGED <<keys, batch, out, sweeping>>

First(g, ck) == Serve(g, ck, "first", FirstResult(ck))
Last(g, ck) == Serve(g, ck, "last", LastResult(ck))
Next(g, ck) == Serve(g, ck, "next", NextResult(ck))
Prev(g, ck) == Serve(g, ck, "prev", PrevResult(ck))
Seek(g, ck, t) == Serve(g, ck, "seek", SeekResult(ck, t))

\* Release: cursorCache.Release(senderID, key) fails unless g's client
\* holds the lease.
Release(g, ck) ==
  /\ batch[g] = NoBatch
  /\ calls[g] < MaxCalls[g]
  /\ calls' = [calls EXCEPT ![g] = @ + 1]
  /\ \/ LeaseError(g, ck) /\ Answer(g, ck, "release", "error") /\ UNCHANGED lease
     \/ ~LeaseError(g, ck)
        /\ lease' = [lease EXCEPT ![ck] = Gone]
        /\ Answer(g, ck, "release", "done")
  /\ UNCHANGED <<keys, cfilter, pos, batch, out, sweeping>>

\* The lease manager's sweep closes a cursor idle past its lifetime.
Expire(ck) ==
  /\ sweeping
  /\ lease[ck] \notin {Free, Gone}
  /\ lease' = [lease EXCEPT ![ck] = Gone]
  /\ UNCHANGED <<keys, cfilter, pos, batch, out, res, calls, sweeping>>

\* ReadHistoryService.Stop: isRunning = false and the cursor cache stops its
\* sweep.  The RPC handlers stay registered and keep serving.
Stop ==
  /\ sweeping
  /\ sweeping' = FALSE
  /\ UNCHANGED <<keys, lease, cfilter, pos, batch, out, res, calls>>

\* NextN / PrevN enter their loop of Limit inner calls.
StartBatch(g, ck, op, n) ==
  /\ batch[g] = NoBatch
  /\ calls[g] < MaxCalls[g]
  /\ batch' = [batch EXCEPT ![g] = [op |-> op, ck |-> ck, left |-> n]]
  /\ calls' = [calls EXCEPT ![g] = @ + 1]
  /\ UNCHANGED <<keys, lease, cfilter, pos, out, res, sweeping>>

NextN(g, ck, n) == StartBatch(g, ck, "next", n)
PrevN(g, ck, n) == StartBatch(g, ck, "prev", n)

(* One iteration of the loop of NextN / PrevN.  The inner call answers    *)
(* nil and an error when the lease check fails, and the loop then reads   *)
(* nextResp.Valid through the nil pointer.  An invalid answer ends the    *)
(* loop with itemsRemaining false; Limit answers end it with true.        *)
BatchStep(g) ==
  LET b == batch[g]
      r == IF b.op = "next" THEN NextResult(b.ck) ELSE PrevResult(b.ck)
  IN
  /\ b # NoBatch
  /\ \/ b.left = 0
        /\ batch' = [batch EXCEPT ![g] = NoBatch]
        /\ res' = [res EXCEPT ![g].outcome = "done"]
        /\ UNCHANGED <<pos, out>>
     \/ b.left > 0 /\ LeaseError(g, b.ck)
        /\ batch' = [batch EXCEPT ![g] = NoBatch]
        /\ Answer(g, b.ck, b.op, "panic")
        /\ UNCHANGED <<pos, out>>
     \/ b.left > 0 /\ ~LeaseError(g, b.ck) /\ r.found
        /\ Reply(g, b.ck, b.op, r)
        /\ batch' = [batch EXCEPT ![g].left = @ - 1]
     \/ b.left > 0 /\ ~LeaseError(g, b.ck) /\ ~r.found
        /\ Move(g, b.ck, r)
        /\ batch' = [batch EXCEPT ![g] = NoBatch]
        /\ Answer(g, b.ck, b.op, "exhausted")
  /\ UNCHANGED <<keys, lease, cfilter, calls, sweeping>>

Init ==
  /\ \E b \in Buckets : keys = BucketOrder(b)
  /\ lease = [ck \in CursorKeys |-> Free]
  /\ cfilter = [ck \in CursorKeys |-> Empty]
  /\ pos = [ck \in CursorKeys |-> 0]
  /\ batch = [g \in Goroutines |-> NoBatch]
  /\ out = [g \in Goroutines |-> <<>>]
  /\ res = [g \in Goroutines |-> [op |-> "none", ck |-> Free, outcome |-> "none"]]
  /\ calls = [g \in Goroutines |-> 0]
  /\ sweeping = TRUE

Calls(g, ck) ==
  \/ \E f \in Names \cup {Empty} : GetCursor(g, ck, f)
  \/ First(g, ck) \/ Last(g, ck) \/ Next(g, ck) \/ Prev(g, ck)
  \/ \E t \in SeekTimes : Seek(g, ck, t)
  \/ \E n \in Limits : NextN(g, ck, n) \/ PrevN(g, ck, n)
  \/ Release(g, ck)

NextState ==
  \/ \E g \in Goroutines, ck \in CursorKeys : Calls(g, ck)
  \/ \E g \in Goroutines : BatchStep(g)
  \/ \E ck \in CursorKeys : Expire(ck)
  \/ Stop

\* A goroutine runs the loop it has entered to its end.
Spec == Init /\ [][NextState]_vars /\ \A g \in Goroutines : WF_vars(BatchStep(g))

-----------------------------------------------------------------------------
TypeOK ==
  /\ keys \in Seq(Times \X Names)
  /\ lease \in [CursorKeys -> {Free, Gone} \cup {GClient[g] : g \in Goroutines}]
  /\ cfilter \in [CursorKeys -> Names \cup {Empty}]
  /\ pos \in [CursorKeys -> 0..N+1]
  /\ \A g \in Goroutines : batch[g] = NoBatch \/ batch[g].op \in {"next", "prev"}
  /\ res \in [Goroutines -> [op : CallNames \cup {"none"}, ck : CursorKeys \cup {Free},
                              outcome : Outcomes]]
  /\ \A g \in Goroutines : calls[g] \in 0..MaxCalls[g]
  /\ sweeping \in BOOLEAN

(* The position over the filtered sequence that a bucket position stands *)
(* for: on the c-th match, or in the gap after it.                        *)
APos(ck) ==
  LET p == pos[ck]
      c == Cardinality({i \in 1..p : i <= N /\ Wanted(ck, i)})
  IN  IF p = 0 THEN 0
      ELSE IF p \in 1..N /\ Wanted(ck, p) THEN 2 * c
      ELSE 2 * c + 1

Iter == INSTANCE CursorIterator
          WITH apos <- [ck \in CursorKeys |-> APos(ck)],
               aop <- [g \in Goroutines |-> res[g].op]

(* Refinement: every call on a leased cursor is one step of the filtered *)
(* iterator of spec §4.2 -- First/Last/Next/Prev/Seek with the name       *)
(* filter, the bounded forward scan with its undo step, the edges of the  *)
(* bucket -- and NextN/PrevN are sequences of such steps.                 *)
IterSpec == Iter!ASpec

(* Spec §7/§112: a call on an unknown or expired cursor fails with an    *)
(* error; the handler goroutine never panics (NextN/PrevN, lines 265/319). *)
RequestsNeverPanic == \A g \in Goroutines : res[g].outcome # "panic"

(* Spec §51-52/§121: a cursor filtered by name never answers a value    *)
(* dated after now() from a forward call (First, Next, Seek, the inner    *)
(* calls of NextN); the code returns the entry such a call lands on       *)
(* before its scan applies the bound.                                     *)
FilteredReadsHonourNow ==
  [][\A g \in Goroutines, ck \in CursorKeys :
       res'[g].op \in {"first", "next", "seek"} /\ res'[g].ck = ck
       /\ cfilter[ck] # Empty /\ Len(out'[g]) > Len(out[g])
       => out'[g][Len(out'[g])][1] <= Now]_vars
====
