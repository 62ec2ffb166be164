----------------------------- MODULE HistoryKeys -----------------------------
(***************************************************************************)
(* The bucket key of a history value and the order the bucket store keeps  *)
(* keys in.  encodeValue (AddHistory.go:28-52) writes                      *)
(*     strconv.FormatInt(CreatedMSec, 10) + "/" + name + "/e/" + sender    *)
(* and the bucket store orders keys as byte strings.  A key string is      *)
(* modelled as a sequence of character codes: the decimal digits of the    *)
(* timestamp, the '/' separator and one code per name (names sort after    *)
(* digits and '/', as letters do).  The "/e/sender" suffix is the same for *)
(* every key of the model and is left out.                                 *)
(***************************************************************************)
EXTENDS HistoryTypes, Sequences

CONSTANT NameOrder   \* the names in the byte order of their strings

LOCAL SeqX == INSTANCE SequencesExt

ASSUME NameOrder \in Seq(Names) /\ {NameOrder[i] : i \in DOMAIN NameOrder} = Names

\* Character codes of '/' and '0'.
Slash == 47
Zero == 48

\* The decimal digits of a non-negative integer, most significant first:
\* strconv.FormatInt(n, 10).
RECURSIVE Digits(_)
Digits(n) == IF n < 10 THEN <<n>> ELSE Digits(n \div 10) \o <<n % 10>>

\* FormatInt as character codes.
DecimalString(n) == [i \in DOMAIN Digits(n) |-> Zero + Digits(n)[i]]

NameCode(n) == 96 + CHOOSE i \in DOMAIN NameOrder : NameOrder[i] = n

\* The key string of the value stored under <<ts, name>>.
KeyString(k) == DecimalString(k[1]) \o <<Slash, NameCode(k[2])>>

\* Byte-wise string comparison: a proper prefix sorts first.
RECURSIVE StrLess(_, _)
StrLess(s, t) ==
  /\ t # <<>>
  /\ \/ s = <<>>
     \/ Head(s) < Head(t)
     \/ Head(s) = Head(t) /\ StrLess(Tail(s), Tail(t))

\* Mutant: the search key is built from seconds instead of milliseconds.
SearchKeySeconds(t) == DecimalString(t \div 1000)

\* Seek's search key strconv.FormatInt(TimeStampMSec, 10).
SearchKey(t) == DecimalString(t)

\* The bucket order of two keys.
KeyLess(k1, k2) == StrLess(KeyString(k1), KeyString(k2))

\* The keys of a bucket in the order a bucket cursor visits them.
BucketOrder(ks) == SeqX!SetToSortSeq(ks, KeyLess)
=============================================================================
