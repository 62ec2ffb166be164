---------------------------- MODULE MCHistoryKeys ----------------------------
(***************************************************************************)
(* The search key of Seek, checked against the key encoding of           *)
(* encodeValue and the numeric order of timestamps.  The state is a pair   *)
(* of keys drawn from timestamps of one, two and three digits; it never    *)
(* changes, so every pair is one initial state.                           *)
(***************************************************************************)
EXTENDS HistoryKeys, TLC

CONSTANTS n1, n2

VARIABLES k1, k2

MCNames == {n1, n2}
MCNameOrder == <<n1, n2>>
MCTimes == {3, 9, 10, 12, 21, 99, 100, 120}

SameWidth == Len(Digits(k1[1])) = Len(Digits(k2[1]))

Init == k1 \in MCTimes \X MCNames /\ k2 \in MCTimes \X MCNames
Spec == Init /\ [][UNCHANGED <<k1, k2>>]_<<k1, k2>>

(* Spec §54: Seek(t) with the search key FormatInt(t) lands on keys dated *)
(* t or later -- and only on those -- when t has the key's digit count.   *)
SeekWithinWidth ==
  SameWidth => (~StrLess(KeyString(k1), SearchKey(k2[1])) <=> k1[1] >= k2[1])
=============================================================================
