------------------------------ MODULE Estimates ------------------------------
(***************************************************************************)
(* The clients of a finished period (series.finished of stats.go).  The    *)
(* requests are counted exactly, by family and by whether the answer came  *)
(* from the cache.  The clients are estimated by three sketches, one of    *)
(* each family and one of the clients with a fresh answer, which know      *)
(* nothing of each other: any three numbers.                               *)
(***************************************************************************)
EXTENDS Integers

\* A period's counts: requests with a fresh and with a cached answer, and the
\* estimates of the clients over IPv4, over IPv6, and with a fresh answer.
Counts == [fresh : Nat, cached : Nat, v4 : Nat, v6 : Nat, freshClients : Nat]

Least(a, b) == IF a < b THEN a ELSE b
Most(a, b) == IF a < b THEN b ELSE a

Total(c) == c.v4 + c.v6

\* fresh.Clients: no more than the clients and the fresh requests ...
AtMost(c) == Least(Least(c.freshClients, Total(c)), c.fresh)

\* ... but as many as leave the others no more clients than they have requests.
FreshClients(c) ==
  IF c.cached < Total(c) THEN Most(AtMost(c), Total(c) - c.cached) ELSE AtMost(c)

CachedClients(c) == Total(c) - FreshClients(c)
=============================================================================
