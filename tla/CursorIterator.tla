---------------------------- MODULE CursorIterator ----------------------------
(***************************************************************************)
(* What the history query engine promises a client (spec §4.2): a leased   *)
(* cursor over one Thing's bucket that visits the values whose name        *)
(* matches the cursor's filter, in bucket order, one call at a time.       *)
(*                                                                         *)
(* The position apos is over the filtered sequence F: 0 means not yet     *)
(* positioned, 2*i means "on the i-th match", 2*i+1 means "between the    *)
(* i-th and the (i+1)-th match".  Running off either end of the bucket     *)
(* leaves the cursor at that end.  Every call is one atomic step.  A       *)
(* forward call on a filtered cursor may instead report not-found without  *)
(* consuming anything when a value dated after Now lies before the next    *)
(* match (the bounded scan); it then leaves the cursor in the gap after    *)
(* its current match.                                                      *)
(***************************************************************************)
EXTENDS HistoryKeys

CONSTANTS
  Goroutines,   \* RPC handler goroutines
  CursorKeys,   \* cursor keys the lease manager hands out
  GClient,      \* the client on whose behalf a goroutine calls
  Free,         \* a cursor key not in use
  Gone,         \* a cursor key released or expired
  Now,          \* time.Now() of the requests, in msec
  SeekTimes,    \* timestamps clients seek to
  Buckets       \* the key sets a Thing's bucket may hold

VARIABLES
  keys,      \* the bucket's keys in bucket order
  lease,     \* cursor key -> Free, Gone or the owning client
  cfilter,   \* cursor key -> its name filter (Empty: none)
  apos,      \* cursor key -> position over the filtered sequence
  out,       \* goroutine -> the values returned to it, in order
  aop        \* goroutine -> the call it made last

avars == <<keys, lease, cfilter, apos, out, aop>>

\* The calls a client can make on a cursor key.
Ops == {"get", "first", "last", "next", "prev", "seek", "release"}

\* g's call is op.
Did(g, op) == aop' = [aop EXCEPT ![g] = op]

Match(f, k) == f = Empty \/ k[2] = f

F(ck) == SelectSeq(keys, LAMBDA k : Match(cfilter[ck], k))

Owns(g, ck) == lease[ck] = GClient[g]

\* The bucket keys after the i-th match up to the (i+1)-th one.
Window(ck, i) ==
  {k \in {keys[j] : j \in DOMAIN keys} :
     /\ i = 0 \/ KeyLess(F(ck)[i], k)
     /\ i + 1 > Len(F(ck)) \/ ~KeyLess(F(ck)[i + 1], k)}

FutureIn(ck, i) ==
  /\ cfilter[ck] # Empty
  /\ \E k \in Window(ck, i) : k[1] > Now

\* The position at the first and at the last key of the bucket.
AtFirst(ck) ==
  IF keys = <<>> THEN 0 ELSE IF Match(cfilter[ck], keys[1]) THEN 2 ELSE 1
AtLast(ck) ==
  IF keys = <<>> THEN 0
  ELSE IF Match(cfilter[ck], keys[Len(keys)]) THEN 2 * Len(F(ck))
  ELSE 2 * Len(F(ck)) + 1

\* The positions a forward call may leave at the end: on the last key, or
\* past it when a seek found no key at all.
AtEnd(ck) == {AtLast(ck), 2 * Len(F(ck)) + 1}

Return(g, ck, j) ==
  /\ out' = [out EXCEPT ![g] = Append(@, F(ck)[j])]
  /\ apos' = [apos EXCEPT ![ck] = 2 * j]

Stay(g, ck, p) ==
  /\ apos' = [apos EXCEPT ![ck] = p]
  /\ UNCHANGED out

AGetCursor(g, ck, f) ==
  /\ Did(g, "get")
  /\ lease[ck] = Free
  /\ lease' = [lease EXCEPT ![ck] = GClient[g]]
  /\ cfilter' = [cfilter EXCEPT ![ck] = f]
  /\ apos' = [apos EXCEPT ![ck] = 0]
  /\ UNCHANGED <<keys, out>>

ARelease(g, ck) ==
  /\ Owns(g, ck)
  /\ Did(g, "release")
  /\ lease' = [lease EXCEPT ![ck] = Gone]
  /\ UNCHANGED <<keys, cfilter, apos, out>>

\* The lease of an idle cursor runs out.
AExpire(ck) ==
  /\ lease[ck] \notin {Free, Gone}
  /\ lease' = [lease EXCEPT ![ck] = Gone]
  /\ UNCHANGED <<keys, cfilter, apos, out, aop>>

\* A call on a cursor key the client does not hold fails and changes
\* nothing (spec §7).
AError(g, ck, op) ==
  /\ ~Owns(g, ck)
  /\ Did(g, op)
  /\ UNCHANGED <<keys, lease, cfilter, apos, out>>

\* A forward step from the current match or gap: the next match, the end,
\* or a bounded stop in the gap.
ANext(g, ck) ==
  LET i == apos[ck] \div 2 IN
  /\ Owns(g, ck)
  /\ Did(g, "next")
  /\ \/ apos[ck] = 0 /\ Stay(g, ck, 0)
     \/ apos[ck] > 0 /\ i + 1 <= Len(F(ck)) /\ Return(g, ck, i + 1)
     \/ apos[ck] > 0 /\ i + 1 > Len(F(ck)) /\ \E e \in AtEnd(ck) : Stay(g, ck, e)
     \/ apos[ck] > 0 /\ FutureIn(ck, i) /\ Stay(g, ck, 2 * i + 1)
  /\ UNCHANGED <<keys, lease, cfilter>>

APrev(g, ck) ==
  LET j == IF apos[ck] % 2 = 0 THEN apos[ck] \div 2 - 1 ELSE apos[ck] \div 2 IN
  /\ Owns(g, ck)
  /\ Did(g, "prev")
  /\ \/ apos[ck] = 0 /\ Stay(g, ck, 0)
     \/ apos[ck] > 0 /\ j >= 1 /\ Return(g, ck, j)
     \/ apos[ck] > 0 /\ j < 1 /\ Stay(g, ck, AtFirst(ck))
  /\ UNCHANGED <<keys, lease, cfilter>>

AFirst(g, ck) ==
  /\ Owns(g, ck)
  /\ Did(g, "first")
  /\ \/ Len(F(ck)) >= 1 /\ Return(g, ck, 1)
     \/ Len(F(ck)) = 0 /\ Stay(g, ck, AtLast(ck))
     \/ FutureIn(ck, 0) /\ Stay(g, ck, 1)
  /\ UNCHANGED <<keys, lease, cfilter>>

ALast(g, ck) ==
  /\ Owns(g, ck)
  /\ Did(g, "last")
  /\ \/ Len(F(ck)) >= 1 /\ Return(g, ck, Len(F(ck)))
     \/ Len(F(ck)) = 0 /\ Stay(g, ck, AtFirst(ck))
  /\ UNCHANGED <<keys, lease, cfilter>>

\* Seek: the first match whose key string is not below the decimal string
\* of t.
ASeek(g, ck, t) ==
  LET at == {j \in DOMAIN F(ck) : ~StrLess(KeyString(F(ck)[j]), SearchKey(t))}
      m  == IF at = {} THEN Len(F(ck)) + 1 ELSE CHOOSE j \in at : \A j2 \in at : j <= j2
  IN /\ Owns(g, ck)
     /\ Did(g, "seek")
     /\ \/ m <= Len(F(ck)) /\ Return(g, ck, m)
        \/ m > Len(F(ck)) /\ \E e \in AtEnd(ck) : Stay(g, ck, e)
        \/ FutureIn(ck, m - 1) /\ Stay(g, ck, 2 * (m - 1) + 1)
     /\ UNCHANGED <<keys, lease, cfilter>>

AInit ==
  /\ \E b \in Buckets : keys = BucketOrder(b)
  /\ lease = [ck \in CursorKeys |-> Free]
  /\ cfilter = [ck \in CursorKeys |-> Empty]
  /\ apos = [ck \in CursorKeys |-> 0]
  /\ out = [g \in Goroutines |-> <<>>]
  /\ aop = [g \in Goroutines |-> "none"]

ANextState ==
  \/ \E g \in Goroutines, ck \in CursorKeys :
       \/ \E f \in Names \cup {Empty} : AGetCursor(g, ck, f)
       \/ ANext(g, ck) \/ APrev(g, ck) \/ AFirst(g, ck) \/ ALast(g, ck)
       \/ \E t \in SeekTimes : ASeek(g, ck, t)
       \/ ARelease(g, ck)
       \/ \E op \in Ops : AError(g, ck, op)
  \/ \E ck \in CursorKeys : AExpire(ck)

ASpec == AInit /\ [][ANextState]_avars
=============================================================================
