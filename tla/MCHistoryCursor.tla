-------------------------- MODULE MCHistoryCursor --------------------------
(***************************************************************************)
(* Model-checking instance of HistoryCursor: one Thing, two names, two     *)
(* clients with one goroutine each, two cursor keys, Now = 5.  The         *)
(* timestamps 1, 2 and 10 give keys of two digit counts ("10/.." sorts     *)
(* between "1/.." and "2/..") and a value dated after Now.                 *)
(***************************************************************************)
EXTENDS HistoryCursor, TLC

CONSTANTS n1, n2, g1, g2, c1, c2

MCNames == {n1, n2}
MCNameOrder == <<n1, n2>>
MCTimes == {1, 2, 10}
MCGClient == (g1 :> c1) @@ (g2 :> c2)
\* g1 walks a cursor (get, a positioning call, two steps); g2 makes two
\* calls that race with it.
MCMaxCalls == (g1 :> 4) @@ (g2 :> 2)

(* Bucket orders (names a, b):                                            *)
(*   Behind:  1/a 1/b 10/a      -- a future match behind a non-match      *)
(*   Stall:   1/a 1/b 10/b 2/a  -- a future non-match between two matches *)
(*   Empty:   no keys                                                     *)
Behind == {<<1, n1>>, <<1, n2>>, <<10, n1>>}
Stall == {<<1, n1>>, <<1, n2>>, <<10, n2>>, <<2, n1>>}
MCBuckets == {Behind, Stall, {}}

=============================================================================
