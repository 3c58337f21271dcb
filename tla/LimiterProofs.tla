---------------------------- MODULE LimiterProofs ----------------------------
(***************************************************************************)
(* Proofs about Limiter, for any clients and systems, any limits and any   *)
(* order of the clock readings that LimiterAssumption allows.              *)
(***************************************************************************)
EXTENDS Limiter, NumberFacts

LEMMA Constants ==
  /\ Second \in Nat \ {0} /\ ClientsMax \in Nat \ {0}
  /\ RlBurst \in Nat \ {0} /\ RlBatch \in Nat \ {0} /\ RlBatchEvery \in Nat \ {0}
  /\ SystemsMax \in Nat \ {0} /\ SystemsWindow \in Nat \ {0}
  /\ HealthMax \in Nat \ {0} /\ HealthInterval \in Nat \ {0}
  /\ Cooldown \in Nat \ {0} /\ MaxSkew \in Nat
BY LimiterAssumption

USE Constants

LEMMA Distinct == NoCause \notin {"rate", "systems", "health"}
BY DEF NoCause

LEMMA Clock ==
  ASSUME now \in Nat, NEW at \in ClockReads
  PROVE  at \in Nat /\ at <= now /\ now <= at + MaxSkew
<1>1. Max({0, now - MaxSkew}) = IF 0 >= now - MaxSkew THEN 0 ELSE now - MaxSkew
  BY LargerOfTwo
<1>2. QED BY <1>1 DEF ClockReads

LEMMA SecondsAreNatural ==
  ASSUME NEW t \in Int, NEW at \in Int
  PROVE  SecondsUntil(t, at) \in Nat
<1>1. (t - at) \div Second + 1 \in Int
  OBVIOUS
<1>2. QED BY <1>1, LargerOfTwo DEF SecondsUntil

LEMMA Refilled ==
  ASSUME NEW c \in ClientRecord, NEW t \in Nat, NEW r \in Nat,
         NEW d, d = [c EXCEPT !.tokens = t, !.refill = r]
  PROVE  /\ d \in ClientRecord /\ d.tokens = t /\ d.refill = r
         /\ d.last = c.last /\ d.systems = c.systems /\ d.health = c.health
         /\ d.blocked = c.blocked /\ d.cause = c.cause
BY DEF ClientRecord

\* A credit pays no faster than batches fall due, and moves the next due batch
\* on, past the request by one batch at most.
LEMMA CreditPays ==
  ASSUME NEW c \in ClientRecord, NEW at \in Nat
  PROVE  \E t, r \in Nat :
           /\ Credit(c, at) = [c EXCEPT !.tokens = t, !.refill = r]
           /\ r >= c.refill
           /\ r <= c.refill \/ r <= at + RlBatchEvery
           /\ RlBatchEvery * (t - c.tokens) <= RlBatch * (r - c.refill)
<1>. DEFINE n == Batches(c, at)
            t == c.tokens
            r == c.refill
            Pays(x, y) ==
              /\ Credit(c, at) = [c EXCEPT !.tokens = x, !.refill = y]
              /\ y >= r
              /\ y <= r \/ y <= at + RlBatchEvery
              /\ RlBatchEvery * (x - t) <= RlBatch * (y - r)
<1>. SUFFICES \E x, y \in Nat : Pays(x, y)
  OBVIOUS
<1>1. t \in Nat /\ r \in Nat
  BY DEF ClientRecord
<1>2. CASE at < r
  <2>1. Credit(c, at) = [c EXCEPT !.tokens = t, !.refill = r]
    BY <1>2 DEF Credit, ClientRecord
  <2>. HIDE DEF t, r
  <2>2. RlBatchEvery * (t - t) <= RlBatch * (r - r) /\ r <= r /\ r >= r
    BY <1>1
  <2>3. Pays(t, r)
    BY <2>1, <2>2
  <2>. HIDE DEF Pays
  <2>4. QED BY <1>1, <2>3
<1>3. CASE at >= r
  <2>1. n \in Nat /\ RlBatchEvery * n > at - r /\ RlBatchEvery * n <= at - r + RlBatchEvery
    <3>. DEFINE q == (at - r) \div RlBatchEvery
    <3>1. at - r \in Nat
      BY <1>1, <1>3
    <3>2. q \in Nat /\ RlBatchEvery * q <= at - r /\ at - r < RlBatchEvery * (q + 1)
      BY <3>1, Quotient
    <3>3. n = q + 1
      BY DEF Batches
    <3>. HIDE DEF n, q, r
    <3>4. RlBatchEvery * (q + 1) = RlBatchEvery * q + RlBatchEvery
      BY <3>2
    <3>5. QED BY <1>1, <3>2, <3>3, <3>4
  <2>2. Credit(c, at) = IF t + n * RlBatch >= RlBurst
                        THEN [c EXCEPT !.tokens = RlBurst, !.refill = at + RlBatchEvery]
                        ELSE [c EXCEPT !.tokens = t + n * RlBatch, !.refill = r + n * RlBatchEvery]
    BY <1>1, <1>3 DEF Credit
  <2>. HIDE DEF n, t, r
  <2>3. n * RlBatch \in Nat /\ n * RlBatchEvery \in Nat
    BY <2>1
  <2>4. RlBatchEvery * (n * RlBatch) = RlBatch * (n * RlBatchEvery) /\ n * RlBatchEvery = RlBatchEvery * n
    BY <2>1
  <2>5. CASE t + n * RlBatch >= RlBurst
    <3>1. RlBatchEvery * (RlBurst - t) <= RlBatchEvery * (n * RlBatch)
      BY <1>1, <2>3, <2>5
    <3>2. RlBatch * (n * RlBatchEvery) <= RlBatch * (at + RlBatchEvery - r)
      BY <1>1, <2>1, <2>3, <2>4
    <3>3. /\ RlBatchEvery * (RlBurst - t) \in Int
          /\ RlBatch * (at + RlBatchEvery - r) \in Int
          /\ RlBatch * (n * RlBatchEvery) \in Int
      BY <1>1, <2>3
    <3>4. RlBatchEvery * (RlBurst - t) <= RlBatch * (at + RlBatchEvery - r)
      BY <2>4, <3>1, <3>2, <3>3
    <3>5. at + RlBatchEvery >= r /\ at + RlBatchEvery \in Nat /\ RlBurst \in Nat
      BY <1>1, <1>3
    <3>6. Credit(c, at) = [c EXCEPT !.tokens = RlBurst, !.refill = at + RlBatchEvery]
      BY Zenon, <2>2, <2>5
    <3>7. at + RlBatchEvery <= at + RlBatchEvery
      BY <3>5
    <3>8. Pays(RlBurst, at + RlBatchEvery)
      BY <1>1, <3>4, <3>5, <3>6, <3>7 DEF Pays
    <3>. HIDE DEF Pays
    <3>9. QED BY Zenon, <3>5, <3>8
  <2>6. CASE ~(t + n * RlBatch >= RlBurst)
    <3>1. t + n * RlBatch \in Nat /\ r + n * RlBatchEvery \in Nat
      BY <1>1, <2>3
    <3>2. r + n * RlBatchEvery >= r /\ r + n * RlBatchEvery <= at + RlBatchEvery
      BY <1>1, <2>1, <2>3, <2>4
    <3>3. t + n * RlBatch - t = n * RlBatch /\ r + n * RlBatchEvery - r = n * RlBatchEvery
      BY <1>1, <2>3
    <3>4. RlBatchEvery * (t + n * RlBatch - t) <= RlBatch * (r + n * RlBatchEvery - r)
      BY <2>3, <2>4, <3>3
    <3>5. Credit(c, at) = [c EXCEPT !.tokens = t + n * RlBatch, !.refill = r + n * RlBatchEvery]
      BY Zenon, <2>2, <2>6
    <3>6. Pays(t + n * RlBatch, r + n * RlBatchEvery)
      BY <1>1, <2>3, <3>2, <3>4, <3>5 DEF Pays
    <3>. HIDE DEF Pays
    <3>7. QED BY Zenon, <3>1, <3>6
  <2>7. QED BY <2>5, <2>6
<1>. HIDE DEF Pays
<1>4. QED BY <1>1, <1>2, <1>3
-----------------------------------------------------------------------------
\* The window of systems is within its limit, and finite as every map is.
WindowKept(systems) ==
  /\ IsFiniteSet(Seen(systems))
  /\ Cardinality(Seen(systems)) <= SystemsMax

\* The health list is within its limit, or one request above and then all of it
\* will be too old when the block that this request began is over.
ListKept(health, blocked) ==
  /\ IsFiniteSet(health)
  /\ \A h \in health : h[1] <= now
  /\ \/ Cardinality(health) <= HealthMax
     \/ /\ Cardinality(health) <= HealthMax + 1
        /\ \A h \in health : h[1] + HealthInterval <= blocked

\* What a check leaves of a record: it only notes the request.
Noting(c, d) ==
  /\ d \in ClientRecord
  /\ d.tokens = c.tokens /\ d.refill = c.refill /\ d.blocked = c.blocked
  /\ WindowKept(d.systems)

LEMMA NotedSystems ==
  ASSUME NEW c \in ClientRecord, NEW x \in [Systems -> Nat \cup {None}], WindowKept(x)
  PROVE  /\ Noting(c, [c EXCEPT !.systems = x])
         /\ [c EXCEPT !.systems = x].health = c.health
BY DEF ClientRecord, Noting

LEMMA NotedHealth ==
  ASSUME NEW c \in ClientRecord, WindowKept(c.systems), NEW x \in SUBSET (Nat \X Nat)
  PROVE  /\ Noting(c, [c EXCEPT !.health = x])
         /\ [c EXCEPT !.health = x].health = x
BY DEF ClientRecord, Noting

LEMMA ProbeChecked ==
  ASSUME NEW c \in ClientRecord, NEW at \in Nat, NEW s \in Systems, WindowKept(c.systems)
  PROVE  LET k == CheckProbe(c, at, s)
         IN /\ Noting(c, k.client)
            /\ k.client.health = c.health
            /\ k.cause \in {NoCause, "systems"}
            /\ k.block \in Nat
            /\ k.cause # NoCause => k.block >= RlBatchEvery
<1>. DEFINE kept == PrunedSystems(c, at)
            next == [kept EXCEPT ![s] = at]
            times == {kept[x] : x \in Seen(kept)} \cup {at}
            block == Max({Min(times) + SystemsWindow - at, RlBatchEvery})
<1>1. kept \in [Systems -> Nat \cup {None}] /\ Seen(kept) \subseteq Seen(c.systems)
  BY DEF ClientRecord, PrunedSystems, Seen
<1>2. WindowKept(kept)
  BY <1>1, FS_Subset, FS_CardinalityType DEF WindowKept
<1>3. block \in Nat /\ block >= RlBatchEvery
  <2>1. times \in SUBSET Nat /\ times # {}
    BY <1>1 DEF Seen
  <2>. HIDE DEF times
  <2>2. Min(times) \in Nat
    BY <2>1, LeastElement
  <2>3. QED BY <2>2, LargerOfTwo
<1>4. next \in [Systems -> Nat \cup {None}]
  BY <1>1
<1>. HIDE DEF times, kept
<1>5. CASE kept[s] = None /\ Cardinality(Seen(kept)) >= SystemsMax
  <2>. DEFINE d == [c EXCEPT !.systems = kept]
  <2>1. CheckProbe(c, at, s) = [client |-> d, cause |-> "systems", block |-> block]
    BY <1>5 DEF CheckProbe, kept, times
  <2>2. Noting(c, d) /\ d.health = c.health
    BY <1>1, <1>2, NotedSystems
  <2>. HIDE DEF block, d
  <2>3. QED BY <1>3, <2>1, <2>2
<1>6. CASE ~(kept[s] = None /\ Cardinality(Seen(kept)) >= SystemsMax)
  <2>1. CheckProbe(c, at, s) = [client |-> [c EXCEPT !.systems = next], cause |-> NoCause, block |-> 0]
    BY <1>6 DEF CheckProbe, kept
  <2>2. Seen(next) \subseteq Seen(kept) \cup {s}
    BY <1>1 DEF Seen
  <2>3. IsFiniteSet(Seen(kept) \cup {s}) /\ Cardinality(Seen(kept) \cup {s}) <= SystemsMax
    <3>1. CASE s \in Seen(kept)
      <4>1. Seen(kept) \cup {s} = Seen(kept)
        BY <3>1
      <4>2. QED BY <1>2, <4>1 DEF WindowKept
    <3>2. CASE s \notin Seen(kept)
      <4>1. Cardinality(Seen(kept)) < SystemsMax /\ Cardinality(Seen(kept)) \in Nat
        BY <1>2, <1>6, <3>2, FS_CardinalityType DEF WindowKept, Seen
      <4>2. IsFiniteSet(Seen(kept) \cup {s}) /\ Cardinality(Seen(kept) \cup {s}) = Cardinality(Seen(kept)) + 1
        BY <1>2, <3>2, FS_AddElement DEF WindowKept
      <4>3. QED BY <4>1, <4>2
    <3>3. QED BY <3>1, <3>2
  <2>4. WindowKept(next)
    <3>. DEFINE more == Seen(kept) \cup {s}
    <3>. HIDE DEF more, next
    <3>1. Seen(next) \in SUBSET more /\ IsFiniteSet(more) /\ Cardinality(more) <= SystemsMax
      BY <2>2, <2>3 DEF more
    <3>2. /\ IsFiniteSet(Seen(next)) /\ Cardinality(Seen(next)) <= Cardinality(more)
          /\ Cardinality(Seen(next)) \in Nat /\ Cardinality(more) \in Nat
      BY <3>1, FS_Subset, FS_CardinalityType
    <3>3. QED BY <3>1, <3>2 DEF WindowKept
  <2>. DEFINE d == [c EXCEPT !.systems = next]
  <2>5. Noting(c, d) /\ d.health = c.health
    BY <1>4, <2>4, NotedSystems
  <2>6. CheckProbe(c, at, s) = [client |-> d, cause |-> NoCause, block |-> 0]
    BY <2>1
  <2>. HIDE DEF d, block, next
  <2>7. /\ CheckProbe(c, at, s).client = d
        /\ CheckProbe(c, at, s).cause = NoCause /\ CheckProbe(c, at, s).block = 0
    BY <2>6
  <2>8. QED BY <2>5, <2>7
<1>7. QED BY <1>5, <1>6

LEMMA HealthChecked ==
  ASSUME now \in Nat, NEW at \in ClockReads, NEW c \in ClientRecord,
         WindowKept(c.systems), ListKept(c.health, c.blocked), at >= c.blocked
  PROVE  LET k == CheckHealth(c, at)
         IN /\ Noting(c, k.client)
            /\ k.cause \in {NoCause, "health"}
            /\ k.block = Cooldown
            /\ k.cause = NoCause => ListKept(k.client.health, c.blocked)
            /\ ListKept(k.client.health, at + Cooldown)
<1>. DEFINE recent == RecentHealth(c, at)
            new == <<at, Cardinality({h \in recent : h[1] = at})>>
            health == recent \cup {new}
<1>1. at \in Nat /\ at <= now /\ now <= at + MaxSkew
  BY Clock
<1>2. c.health \in SUBSET (Nat \X Nat) /\ c.blocked \in Nat
  BY DEF ClientRecord
<1>3. recent \in SUBSET (Nat \X Nat) /\ recent \subseteq c.health
  BY <1>2 DEF RecentHealth
<1>4. IsFiniteSet(recent) /\ Cardinality(recent) <= HealthMax /\ Cardinality(recent) \in Nat
  <2>1. IsFiniteSet(c.health)
    BY DEF ListKept
  <2>2. IsFiniteSet(recent) /\ Cardinality(recent) <= Cardinality(c.health) /\ Cardinality(recent) \in Nat
    /\ Cardinality(c.health) \in Nat
    BY <1>3, <2>1, FS_Subset, FS_CardinalityType
  <2>3. CASE Cardinality(c.health) <= HealthMax
    BY <2>2, <2>3
  <2>4. CASE \A h \in c.health : h[1] + HealthInterval <= c.blocked
    <3>1. recent = {}
      BY <1>1, <1>2, <2>4 DEF RecentHealth
    <3>2. QED BY <2>2, <3>1, FS_EmptySet
  <2>5. QED BY <2>3, <2>4 DEF ListKept
<1>5. new \in Nat \X Nat
  <2>1. {h \in recent : h[1] = at} \subseteq recent
    OBVIOUS
  <2>2. Cardinality({h \in recent : h[1] = at}) \in Nat
    BY <1>4, <2>1, FS_Subset, FS_CardinalityType
  <2>3. QED BY <1>1, <2>2
<1>6. IsFiniteSet(health) /\ Cardinality(health) \in Nat /\ Cardinality(health) <= HealthMax + 1
  <2>. HIDE DEF recent, new
  <2>1. IsFiniteSet(health) /\ Cardinality(health) \in {Cardinality(recent), Cardinality(recent) + 1}
    BY <1>4, FS_AddElement
  <2>2. QED BY <1>4, <2>1
<1>7. \A h \in health : h[1] <= now
  BY <1>1, <1>3 DEF ListKept
<1>8. \A h \in health : h[1] + HealthInterval <= at + Cooldown
  <2>1. Cooldown >= HealthInterval + MaxSkew
    BY LimiterAssumption
  <2>2. \A h \in health : h[1] \in Nat
    BY <1>1, <1>3
  <2>3. QED BY <1>1, <1>7, <2>1, <2>2
<1>9. CheckHealth(c, at) = [client |-> [c EXCEPT !.health = health],
                            cause |-> IF Cardinality(health) > HealthMax THEN "health" ELSE NoCause,
                            block |-> Cooldown]
  BY DEF CheckHealth
<1>10. health \in SUBSET (Nat \X Nat)
  BY <1>3, <1>5
<1>. HIDE DEF health
<1>11. Noting(c, [c EXCEPT !.health = health]) /\ [c EXCEPT !.health = health].health = health
  BY <1>10, NotedHealth
<1>12. ListKept(health, at + Cooldown) /\ (Cardinality(health) <= HealthMax => ListKept(health, c.blocked))
  BY <1>6, <1>7, <1>8 DEF ListKept
<1>13. Cardinality(health) > HealthMax \/ Cardinality(health) <= HealthMax
  BY <1>6
<1>. DEFINE d == [c EXCEPT !.health = health]
<1>14. /\ CheckHealth(c, at).client = d /\ CheckHealth(c, at).block = Cooldown
       /\ CheckHealth(c, at).cause = IF Cardinality(health) > HealthMax THEN "health" ELSE NoCause
  BY <1>9
<1>15. Noting(c, d) /\ d.health = health
  BY <1>11
<1>. HIDE DEF d
<1>16. QED BY <1>12, <1>13, <1>14, <1>15, Distinct
\* Both limits, for a request that no block stops.
LEMMA CheckedNotes ==
  ASSUME now \in Nat, NEW at \in ClockReads, NEW c \in ClientRecord, NEW target \in Targets,
         WindowKept(c.systems), ListKept(c.health, c.blocked), at >= c.blocked
  PROVE  LET k == Check(c, at, target)
         IN /\ Noting(c, k.client)
            /\ k.cause \in Causes
            /\ k.block \in Nat
            /\ k.cause = NoCause => ListKept(k.client.health, c.blocked)
            /\ k.cause # NoCause => k.block >= RlBatchEvery /\ ListKept(k.client.health, at + k.block)
<1>1. at \in Nat /\ c.blocked \in Nat
  BY Clock DEF ClientRecord
<1>2. CASE target = Health
  <2>1. Cooldown >= RlBatchEvery /\ Cooldown \in Nat
    BY LimiterAssumption
  <2>2. QED
    BY <1>2, <2>1, HealthChecked DEF Check, Causes
<1>3. CASE target # Health
  <2>. DEFINE k == CheckProbe(c, at, target)
  <2>1. target \in Systems /\ Check(c, at, target) = k
    BY <1>3 DEF Targets, Check
  <2>2. /\ Noting(c, k.client) /\ k.client.health = c.health
        /\ k.cause \in {NoCause, "systems"} /\ k.block \in Nat
        /\ k.cause # NoCause => k.block >= RlBatchEvery
    BY <1>1, <2>1, ProbeChecked
  <2>. HIDE DEF k
  <2>3. at + k.block >= c.blocked
    BY <1>1, <2>2
  <2>4. ListKept(c.health, at + k.block)
    <3>1. c.health \in SUBSET (Nat \X Nat)
      BY DEF ClientRecord
    <3>2. \A h \in c.health : h[1] \in Nat
      BY <3>1
    <3>3. ASSUME NEW h \in c.health, h[1] + HealthInterval <= c.blocked
          PROVE  h[1] + HealthInterval <= at + k.block
      BY <1>1, <2>2, <2>3, <3>2, <3>3
    <3>4. QED BY <3>3 DEF ListKept
  <2>5. QED BY <2>1, <2>2, <2>4 DEF Causes
<1>4. QED BY <1>2, <1>3

\* What admit makes of a record: it only moves forward, it pays for what it
\* takes from the bucket, and keeps its window and its list.
Follows(c, d, charge, at) ==
  /\ d \in ClientRecord
  /\ d.refill >= c.refill
  /\ d.refill <= c.refill \/ d.refill <= at + RlBatchEvery
  /\ d.blocked >= c.blocked
  /\ RlBatchEvery * (charge + (d.tokens - c.tokens)) <= RlBatch * (d.refill - c.refill)
  /\ WindowKept(d.systems)
  /\ ListKept(d.health, d.blocked)

\* The record whose batches are credited, and the one that paid for a request.
LEMMA CreditFollows ==
  ASSUME NEW c \in ClientRecord, NEW at \in Nat,
         WindowKept(c.systems), ListKept(c.health, c.blocked)
  PROVE  LET d == Credit(c, at)
             p == [d EXCEPT !.tokens = @ - 1]
         IN /\ Follows(c, d, 0, at)
            /\ d.blocked = c.blocked
            /\ d.tokens >= 1 =>
                 /\ Follows(c, p, 1, at)
                 /\ p.blocked = c.blocked
<1>. DEFINE d == Credit(c, at)
            p == [d EXCEPT !.tokens = @ - 1]
<1>1. PICK t \in Nat, r \in Nat :
        /\ d = [c EXCEPT !.tokens = t, !.refill = r]
        /\ r >= c.refill
        /\ r <= c.refill \/ r <= at + RlBatchEvery
        /\ RlBatchEvery * (t - c.tokens) <= RlBatch * (r - c.refill)
  BY CreditPays
<1>2. /\ d \in ClientRecord /\ d.tokens = t /\ d.refill = r
      /\ d.systems = c.systems /\ d.health = c.health /\ d.blocked = c.blocked
  <2>. HIDE DEF d
  <2>1. d = [c EXCEPT !.tokens = t, !.refill = r]
    BY <1>1
  <2>2. QED BY <2>1 DEF ClientRecord
<1>3. c.tokens \in Nat /\ c.refill \in Nat
  BY DEF ClientRecord
<1>4. Follows(c, d, 0, at)
  <2>1. 0 + (t - c.tokens) = t - c.tokens
    BY <1>3
  <2>2. c.blocked >= c.blocked
    BY DEF ClientRecord
  <2>3. RlBatchEvery * (0 + (d.tokens - c.tokens)) <= RlBatch * (d.refill - c.refill)
    BY <1>1, <1>2, <2>1
  <2>. HIDE DEF d
  <2>4. QED BY <1>1, <1>2, <2>2, <2>3 DEF Follows
<1>5. ASSUME d.tokens >= 1 PROVE Follows(c, p, 1, at) /\ p.blocked = c.blocked
  <2>1. t - 1 \in Nat /\ p = [d EXCEPT !.tokens = t - 1]
    BY <1>2, <1>5
  <2>. HIDE DEF d, p
  <2>2. /\ p \in ClientRecord /\ p.tokens = t - 1 /\ p.refill = r
        /\ p.systems = c.systems /\ p.health = c.health /\ p.blocked = c.blocked
    BY <1>2, <2>1 DEF ClientRecord
  <2>3. 1 + (p.tokens - c.tokens) = t - c.tokens
    BY <1>3, <2>2
  <2>4. c.blocked >= c.blocked
    BY DEF ClientRecord
  <2>5. RlBatchEvery * (1 + (p.tokens - c.tokens)) <= RlBatch * (p.refill - c.refill)
    BY <1>1, <2>2, <2>3
  <2>6. QED BY <1>1, <2>2, <2>4, <2>5 DEF Follows
<1>6. QED BY <1>2, <1>4, <1>5

-----------------------------------------------------------------------------
\* What an entry has been charged for, and what is left in its bucket, never
\* exceeds the burst and the batches that fell due before the next one.
Paid(ip) ==
  /\ RlBatchEvery * (charged[ip] + clients[ip].tokens - RlBurst)
       <= RlBatch * (clients[ip].refill - RlBatchEvery - born[ip])
  /\ clients[ip].refill <= now + RlBatchEvery

IInv ==
  /\ TypeOK
  /\ IsFiniteSet(Kept)
  /\ TableBounded
  /\ \A ip \in Kept :
       /\ WindowKept(clients[ip].systems)
       /\ ListKept(clients[ip].health, clients[ip].blocked)
       /\ Paid(ip)
  /\ \A ip \in Ips \ Kept : charged[ip] = 0

LEMMA NewIsKept ==
  ASSUME NEW at \in Nat
  PROVE  /\ NewClient(at) \in ClientRecord
         /\ NewClient(at).tokens = RlBurst /\ NewClient(at).refill = at + RlBatchEvery
         /\ WindowKept(NewClient(at).systems)
         /\ ListKept(NewClient(at).health, NewClient(at).blocked)
<1>. DEFINE none == [s \in Systems |-> None]
<1>1. none \in [Systems -> Nat \cup {None}] /\ {} \in SUBSET (Nat \X Nat)
  OBVIOUS
<1>2. Seen(none) = {}
  BY DEF Seen
<1>. HIDE DEF none
<1>3. WindowKept(none) /\ ListKept({}, NeverBlocked)
  BY <1>2, FS_EmptySet DEF WindowKept, ListKept
<1>4. NewClient(at) = [tokens |-> RlBurst, refill |-> at + RlBatchEvery, last |-> at,
                       systems |-> none, health |-> {},
                       blocked |-> NeverBlocked, cause |-> NoCause]
  BY DEF NewClient, none
<1>5. at + RlBatchEvery \in Nat /\ RlBurst \in Nat /\ NeverBlocked \in Nat /\ NoCause \in Causes
  BY DEF NeverBlocked, Causes
<1>6. QED
  BY <1>1, <1>3, <1>4, <1>5 DEF ClientRecord

\* The record a request is noted in.
LEMMA NotedIsKept ==
  ASSUME IInv, NEW ip \in Ips, NEW at \in ClockReads
  PROVE  /\ Noted(ip, at) \in ClientRecord
         /\ WindowKept(Noted(ip, at).systems)
         /\ ListKept(Noted(ip, at).health, Noted(ip, at).blocked)
         /\ IF clients[ip] = None
              THEN Noted(ip, at).tokens = RlBurst /\ Noted(ip, at).refill = at + RlBatchEvery
              ELSE /\ Noted(ip, at).tokens = clients[ip].tokens
                   /\ Noted(ip, at).refill = clients[ip].refill
                   /\ Noted(ip, at).blocked = clients[ip].blocked
<1>1. at \in Nat
  BY Clock DEF IInv, TypeOK
<1>2. CASE clients[ip] = None
  BY <1>1, <1>2, NewIsKept DEF Noted
<1>3. CASE clients[ip] # None
  <2>. DEFINE c == clients[ip]
              d == [c EXCEPT !.last = at]
  <2>1. c \in ClientRecord /\ WindowKept(c.systems) /\ ListKept(c.health, c.blocked)
    BY <1>3 DEF IInv, TypeOK, Kept
  <2>2. Noted(ip, at) = d
    BY <1>3 DEF Noted
  <2>. HIDE DEF c
  <2>3. /\ d \in ClientRecord /\ d.tokens = c.tokens /\ d.refill = c.refill
        /\ d.systems = c.systems /\ d.health = c.health /\ d.blocked = c.blocked
    BY <1>1, <2>1 DEF ClientRecord
  <2>. HIDE DEF d
  <2>. USE DEF c
  <2>4. QED BY <1>3, <2>1, <2>2, <2>3
<1>4. QED BY <1>2, <1>3

LEMMA EntryIsIp ==
  ASSUME NEW ip \in Clients
  PROVE  EntryOf(ip) \in Ips
BY DEF EntryOf, Ips

\* Whatever admit decides, it follows the record it noted the request in.
LEMMA AdmitFollows ==
  ASSUME IInv, NEW at \in ClockReads, NEW ip \in Clients, NEW target \in Targets,
         Admit(ip, at, target)
  PROVE  /\ \E d \in ClientRecord, charge \in {0, 1} :
              /\ Follows(Noted(EntryOf(ip), at), d, charge, at)
              /\ Keep(EntryOf(ip), d, at, charge)
         /\ now' = now
         /\ told' \in [Clients -> Told]
<1>. DEFINE c == Noted(EntryOf(ip), at)
            d == Credited(ip, at)
            p == [d EXCEPT !.tokens = @ - 1]
            k == Checked(ip, at, target)
<1>1. now \in Nat /\ at \in Nat /\ told \in [Clients -> Told]
  BY Clock DEF IInv, TypeOK
<1>2. c \in ClientRecord /\ WindowKept(c.systems) /\ ListKept(c.health, c.blocked)
  BY NotedIsKept, EntryIsIp
<1>3. /\ Follows(c, d, 0, at) /\ d.blocked = c.blocked
      /\ d.tokens >= 1 => Follows(c, p, 1, at) /\ p.blocked = c.blocked
  BY <1>1, <1>2, CreditFollows DEF Credited
<1>4. c.blocked \in Nat /\ c.refill \in Nat /\ c.tokens \in Nat /\ c.cause \in Causes
  BY <1>2 DEF ClientRecord
<1>5. NotTold \in Told /\ \A t \in Int, cause \in Causes :
        [target |-> target, at |-> at, wait |-> SecondsUntil(t, at), cause |-> cause] \in Told
  <2>1. NotTold \in Told
    BY DEF NotTold, Told, Targets, Causes
  <2>2. \A t \in Int : SecondsUntil(t, at) \in Nat
    <3>1. at \in Int
      BY <1>1
    <3>2. QED BY Zenon, <3>1, SecondsAreNatural
  <2>3. QED BY <1>1, <2>1, <2>2 DEF Told
<1>6. CASE AdmitBlocked(ip, at, target)
  <2>1. Keep(EntryOf(ip), c, at, 0) /\ told' \in [Clients -> Told] /\ now' = now
    BY <1>1, <1>4, <1>5, <1>6 DEF AdmitBlocked, Tell
  <2>. HIDE DEF c
  <2>2. RlBatchEvery * (0 + (c.tokens - c.tokens)) <= RlBatch * (c.refill - c.refill)
    BY <1>4
  <2>3. Follows(c, c, 0, at)
    BY <1>2, <1>4, <2>2 DEF Follows
  <2>4. QED BY <1>2, <2>1, <2>3 DEF c
<1>7. CASE AdmitNoToken(ip, at, target)
  <2>1. d \in ClientRecord /\ d.refill \in Nat
    BY <1>3 DEF Follows, ClientRecord
  <2>2. "rate" \in Causes
    BY DEF Causes
  <2>3. Keep(EntryOf(ip), d, at, 0) /\ told' \in [Clients -> Told] /\ now' = now
    BY <1>1, <1>5, <1>7, <2>1, <2>2 DEF AdmitNoToken, Tell
  <2>. HIDE DEF d
  <2>4. QED BY <1>3, <2>1, <2>3
<1>8. ASSUME d.tokens >= 1, at >= d.blocked
      PROVE  /\ Noting(p, k.client) /\ k.cause \in Causes /\ k.block \in Nat
             /\ k.cause = NoCause => ListKept(k.client.health, p.blocked)
             /\ k.cause # NoCause => k.block >= RlBatchEvery /\ ListKept(k.client.health, at + k.block)
  <2>1. Follows(c, p, 1, at) /\ p.blocked = d.blocked
    BY <1>3, <1>8
  <2>2. k = Check(p, at, target)
    BY DEF Checked
  <2>. HIDE DEF k, p, d
  <2>3. QED BY <1>1, <1>8, <2>1, <2>2, CheckedNotes DEF Follows
<1>9. CASE AdmitOverLimit(ip, at, target)
  <2>. DEFINE e == [k.client EXCEPT !.blocked = at + k.block, !.cause = k.cause]
  <2>1. /\ at >= d.blocked /\ d.tokens >= 1 /\ k.cause # NoCause
        /\ Keep(EntryOf(ip), e, at, 1) /\ now' = now
        /\ Tell(ip, target, at, SecondsUntil(at + k.block, at), k.cause)
    BY <1>9 DEF AdmitOverLimit
  <2>2. Follows(c, p, 1, at) /\ p.blocked = d.blocked
    BY <1>3, <2>1
  <2>3. /\ Noting(p, k.client) /\ k.cause \in Causes /\ k.block \in Nat
        /\ k.block >= RlBatchEvery /\ ListKept(k.client.health, at + k.block)
    BY <1>8, <2>1
  <2>4. told' \in [Clients -> Told]
    <3>. HIDE DEF k
    <3>1. QED BY <1>1, <1>5, <2>1, <2>3 DEF Tell
  <2>. HIDE DEF k, p, d, c
  <2>5. /\ e \in ClientRecord /\ e.tokens = p.tokens /\ e.refill = p.refill
        /\ e.blocked = at + k.block /\ e.systems = k.client.systems /\ e.health = k.client.health
    <3>1. k.client \in ClientRecord /\ k.client.tokens = p.tokens /\ k.client.refill = p.refill
      BY <2>3 DEF Noting
    <3>2. at + k.block \in Nat
      BY <1>1, <2>3
    <3>3. e = [k.client EXCEPT !.blocked = at + k.block, !.cause = k.cause]
      OBVIOUS
    <3>. HIDE DEF e
    <3>4. /\ e \in ClientRecord /\ e.blocked = at + k.block
          /\ e.tokens = k.client.tokens /\ e.refill = k.client.refill
          /\ e.systems = k.client.systems /\ e.health = k.client.health
      <4>1. PICK f, until, cause : f = k.client /\ until = at + k.block /\ cause = k.cause
        OBVIOUS
      <4>2. e = [f EXCEPT !.blocked = until, !.cause = cause]
        BY Zenon, <3>3, <4>1
      <4>3. f \in ClientRecord /\ until \in Nat /\ cause \in Causes
        BY <2>3, <3>1, <3>2, <4>1
      <4>4. /\ e \in ClientRecord /\ e.blocked = until
            /\ e.tokens = f.tokens /\ e.refill = f.refill
            /\ e.systems = f.systems /\ e.health = f.health
        BY <4>2, <4>3 DEF ClientRecord
      <4>5. QED BY <4>1, <4>4
    <3>5. QED BY <3>1, <3>4
  <2>. HIDE DEF e
  <2>6. Follows(c, e, 1, at)
    <3>1. e.blocked >= c.blocked
      BY <1>1, <1>3, <1>4, <2>1, <2>3, <2>5
    <3>2. QED BY <2>2, <2>3, <2>5, <3>1 DEF Follows, Noting
  <2>7. QED BY <2>1, <2>4, <2>5, <2>6 DEF c
<1>10. CASE AdmitGranted(ip, at, target)
  <2>. DEFINE e == k.client
  <2>1. /\ at >= d.blocked /\ d.tokens >= 1 /\ k.cause = NoCause
        /\ Keep(EntryOf(ip), e, at, 1) /\ now' = now
        /\ told' = [told EXCEPT ![ip] = NotTold]
    BY <1>10 DEF AdmitGranted
  <2>2. Follows(c, p, 1, at)
    BY <1>3, <2>1
  <2>3. Noting(p, e) /\ ListKept(e.health, p.blocked)
    BY <1>8, <2>1
  <2>4. told' \in [Clients -> Told]
    BY <1>1, <1>5, <2>1
  <2>. HIDE DEF k, p, d, c, e
  <2>5. Follows(c, e, 1, at)
    BY <2>2, <2>3 DEF Follows, Noting
  <2>6. QED BY <2>1, <2>4, <2>5 DEF c, Follows
<1>11. QED
  BY <1>6, <1>7, <1>9, <1>10 DEF Admit

-----------------------------------------------------------------------------
LEMMA InitIInv == Init => IInv
<1>. SUFFICES ASSUME Init PROVE IInv
  OBVIOUS
<1>1. Kept = {}
  BY DEF Init, Kept
<1>2. TypeOK
  BY DEF Init, TypeOK, Told, NotTold, Targets, Causes
<1>3. IsFiniteSet(Kept) /\ TableBounded
  <2>1. Kept \ {Overflow} = {}
    BY <1>1
  <2>2. QED BY <1>1, <2>1, FS_EmptySet DEF TableBounded
<1>4. \A ip \in Ips \ Kept : charged[ip] = 0
  BY DEF Init
<1>5. QED
  BY <1>1, <1>2, <1>3, <1>4 DEF IInv

\* A request that is admitted or refused.
LEMMA AdmitStep ==
  ASSUME IInv, NEW at \in ClockReads, NEW ip \in Clients, NEW target \in Targets,
         Admit(ip, at, target)
  PROVE  IInv'
<1>0. PICK e \in Ips : e = EntryOf(ip)
  BY EntryIsIp
<1>. DEFINE c == Noted(e, at)
<1>1. PICK d \in ClientRecord, charge \in {0, 1} :
        Follows(c, d, charge, at) /\ Keep(e, d, at, charge)
  BY <1>0, AdmitFollows
<1>2. now' = now /\ told' \in [Clients -> Told]
  BY AdmitFollows
<1>3. e \in Ips /\ at \in Nat /\ at <= now /\ now \in Nat
  BY Clock DEF IInv, TypeOK
<1>4. /\ clients' = [clients EXCEPT ![e] = d]
      /\ born' = IF clients[e] = None THEN [born EXCEPT ![e] = at] ELSE born
      /\ charged' = [charged EXCEPT ![e] = @ + charge]
      /\ overtaken' \in SUBSET (overtaken \cup {e})
  BY <1>1 DEF Keep
<1>5. DOMAIN clients = Ips /\ born \in [Ips -> Nat] /\ charged \in [Ips -> Nat]
      /\ overtaken \in SUBSET Ips
      /\ \A i \in Ips : clients[i] = None \/ clients[i] \in ClientRecord
  BY DEF IInv, TypeOK
<1>6. /\ DOMAIN clients' = Ips /\ clients'[e] = d
      /\ \A i \in Ips : i # e => clients'[i] = clients[i]
  BY <1>3, <1>4, <1>5
<1>7. TypeOK'
  <2>1. charged' \in [Ips -> Nat] /\ born' \in [Ips -> Nat]
    BY <1>3, <1>4, <1>5
  <2>2. QED BY <1>2, <1>3, <1>4, <1>5, <1>6, <2>1 DEF TypeOK
<1>8. Kept' \subseteq Kept \cup {e} /\ \A i \in Ips : i # e => (i \in Kept' <=> i \in Kept)
  BY <1>6 DEF Kept
<1>9. IsFiniteSet(Kept)'
  <2>1. IsFiniteSet(Kept \cup {e})
    BY FS_AddElement DEF IInv
  <2>2. QED BY <1>8, <2>1, FS_Subset
<1>10. TableBounded'
  <2>. DEFINE own == Kept \ {Overflow}
  <2>1. IsFiniteSet(Kept) /\ IsFiniteSet(own) /\ Cardinality(own) <= ClientsMax
        /\ Cardinality(own) <= Cardinality(Kept) /\ Cardinality(own) \in Nat
        /\ Cardinality(Kept) \in Nat
    <3>1. own \in SUBSET Kept /\ IsFiniteSet(Kept)
      BY DEF IInv
    <3>2. QED BY <3>1, FS_Subset, FS_CardinalityType DEF IInv, TableBounded
  <2>2. CASE e = Overflow \/ e \in Kept
    <3>1. Kept' \ {Overflow} \in SUBSET own
      BY <1>8, <2>2
    <3>. HIDE DEF own
    <3>2. Cardinality(Kept' \ {Overflow}) <= Cardinality(own)
          /\ Cardinality(Kept' \ {Overflow}) \in Nat
      BY <2>1, <3>1, FS_Subset, FS_CardinalityType
    <3>3. QED BY <2>1, <3>2 DEF TableBounded
  <2>3. CASE e # Overflow /\ e \notin Kept
    <3>1. Cardinality(Kept) < ClientsMax
      BY <1>0, <1>3, <2>1, <2>3 DEF EntryOf, TableFull, Kept
    <3>2. Kept' \ {Overflow} \in SUBSET (own \cup {e})
      BY <1>8
    <3>. HIDE DEF own
    <3>3. IsFiniteSet(own \cup {e}) /\ Cardinality(own \cup {e}) \in {Cardinality(own), Cardinality(own) + 1}
      BY <2>1, FS_AddElement
    <3>4. Cardinality(Kept' \ {Overflow}) <= Cardinality(own \cup {e})
          /\ Cardinality(Kept' \ {Overflow}) \in Nat
      BY <3>2, <3>3, FS_Subset, FS_CardinalityType
    <3>5. QED BY <2>1, <3>1, <3>3, <3>4 DEF TableBounded
  <2>4. QED BY <2>2, <2>3
<1>11. ASSUME NEW i \in Kept', i # e
       PROVE  /\ WindowKept(clients[i].systems)'
              /\ ListKept(clients[i].health, clients[i].blocked)'
              /\ Paid(i)'
  <2>1. i \in Ips /\ i \in Kept /\ clients'[i] = clients[i]
    BY <1>6, <1>8, <1>11 DEF Kept
  <2>2. born'[i] = born[i] /\ charged'[i] = charged[i]
    BY <1>4, <1>5, <1>11, <2>1
  <2>3. WindowKept(clients[i].systems) /\ ListKept(clients[i].health, clients[i].blocked) /\ Paid(i)
    BY <2>1 DEF IInv
  <2>4. QED BY <1>2, <2>1, <2>2, <2>3 DEF WindowKept, ListKept, Paid, Seen
<1>12. WindowKept(clients[e].systems)' /\ ListKept(clients[e].health, clients[e].blocked)'
  BY <1>1, <1>2, <1>6 DEF Follows, WindowKept, ListKept, Seen
<1>13. Paid(e)'
  <2>1. /\ c \in ClientRecord
        /\ IF clients[e] = None
             THEN c.tokens = RlBurst /\ c.refill = at + RlBatchEvery
             ELSE c.tokens = clients[e].tokens /\ c.refill = clients[e].refill
    BY <1>3, NotedIsKept
  <2>2. c.tokens \in Nat /\ c.refill \in Nat /\ d.tokens \in Nat /\ d.refill \in Nat
    BY <2>1 DEF ClientRecord
  <2>3. /\ RlBatchEvery * (charge + (d.tokens - c.tokens)) <= RlBatch * (d.refill - c.refill)
        /\ d.refill <= c.refill \/ d.refill <= at + RlBatchEvery
    BY <1>1 DEF Follows
  <2>. HIDE DEF c
  <2>4. PICK paid \in Nat, made \in Nat :
          /\ charged'[e] = paid + charge /\ born'[e] = made
          /\ RlBatchEvery * (paid + c.tokens - RlBurst) <= RlBatch * (c.refill - RlBatchEvery - made)
          /\ c.refill <= now + RlBatchEvery
    <3>1. CASE clients[e] = None
      <4>1. charged'[e] = 0 + charge /\ born'[e] = at
        BY <1>3, <1>4, <1>5, <3>1 DEF IInv, Kept
      <4>2. c.tokens = RlBurst /\ c.refill = at + RlBatchEvery
        BY <2>1, <3>1
      <4>3. 0 + c.tokens - RlBurst = 0 /\ c.refill - RlBatchEvery - at = 0
        BY <1>3, <4>2
      <4>4. RlBatchEvery * (0 + c.tokens - RlBurst) <= RlBatch * (c.refill - RlBatchEvery - at)
        BY <4>3
      <4>5. c.refill <= now + RlBatchEvery
        BY <1>3, <4>2
      <4>6. QED BY <1>3, <4>1, <4>4, <4>5
    <3>2. CASE clients[e] # None
      <4>1. e \in Kept /\ Paid(e)
        BY <1>3, <3>2 DEF IInv, Kept
      <4>2. QED BY <1>3, <1>4, <1>5, <2>1, <3>2, <4>1 DEF Paid
    <3>3. QED BY <3>1, <3>2
  <2>5. d.refill <= now + RlBatchEvery
    BY <1>3, <2>2, <2>3, <2>4
  <2>6. RlBatchEvery * (paid + charge + d.tokens - RlBurst) <= RlBatch * (d.refill - RlBatchEvery - made)
    <3>. DEFINE spent == paid + c.tokens - RlBurst
                more == charge + (d.tokens - c.tokens)
                due == c.refill - RlBatchEvery - made
                later == d.refill - c.refill
    <3>1. /\ paid + charge + d.tokens - RlBurst = spent + more
          /\ d.refill - RlBatchEvery - made = due + later
          /\ spent \in Int /\ more \in Int /\ due \in Int /\ later \in Int
      BY <2>2
    <3>2. RlBatchEvery * spent <= RlBatch * due /\ RlBatchEvery * more <= RlBatch * later
      BY <2>3, <2>4
    <3>. HIDE DEF spent, more, due, later
    <3>3. RlBatchEvery * (spent + more) <= RlBatch * (due + later)
      BY <3>1, <3>2
    <3>4. QED BY <3>1, <3>3
  <2>7. QED BY <1>2, <1>6, <2>4, <2>5, <2>6 DEF Paid
<1>14. \A i \in Ips \ Kept' : charged'[i] = 0
  <2>1. e \in Kept'
    BY <1>3, <1>6, NoneAssumption DEF Kept
  <2>2. \A i \in Ips : i # e => charged'[i] = charged[i]
    BY <1>4, <1>5
  <2>3. QED BY <1>8, <2>1, <2>2 DEF IInv
<1>15. \A i \in Kept' : WindowKept(clients[i].systems)' /\ ListKept(clients[i].health, clients[i].blocked)' /\ Paid(i)'
  BY <1>11, <1>12, <1>13
<1>16. QED
  BY <1>7, <1>9, <1>10, <1>14, <1>15 DEF IInv

\* The sweep takes entries away and leaves the others as they are.
LEMMA SweepStep ==
  ASSUME IInv, NEW at \in ClockReads, Sweep(at)
  PROVE  IInv'
<1>1. PICK dropped \in SUBSET Kept :
        /\ clients' = [ip \in Ips |-> IF ip \in dropped THEN None ELSE clients[ip]]
        /\ born' = [ip \in Ips |-> IF ip \in dropped THEN 0 ELSE born[ip]]
        /\ charged' = [ip \in Ips |-> IF ip \in dropped THEN 0 ELSE charged[ip]]
        /\ overtaken' = overtaken \ dropped
        /\ now' = now /\ told' = told
  BY DEF Sweep
<1>2. Kept' = Kept \ dropped
  BY <1>1 DEF Kept
<1>3. TypeOK'
  BY <1>1 DEF IInv, TypeOK
<1>4. IsFiniteSet(Kept) /\ IsFiniteSet(Kept)'
  BY <1>2, FS_Subset DEF IInv
<1>5. TableBounded'
  <2>. DEFINE own == Kept \ {Overflow}
  <2>1. own \in SUBSET Kept /\ Kept' \ {Overflow} \in SUBSET own
    BY <1>2
  <2>2. IsFiniteSet(own) /\ Cardinality(own) <= ClientsMax
    BY <1>4, <2>1, FS_Subset DEF IInv, TableBounded
  <2>. HIDE DEF own
  <2>3. Cardinality(Kept' \ {Overflow}) <= Cardinality(own)
        /\ Cardinality(Kept' \ {Overflow}) \in Nat /\ Cardinality(own) \in Nat
    BY <2>1, <2>2, FS_Subset, FS_CardinalityType
  <2>4. QED BY <2>2, <2>3 DEF TableBounded
<1>6. ASSUME NEW i \in Kept'
      PROVE  /\ WindowKept(clients[i].systems)'
             /\ ListKept(clients[i].health, clients[i].blocked)'
             /\ Paid(i)'
  <2>1. i \in Ips /\ i \in Kept /\ i \notin dropped
    BY <1>2, <1>6 DEF Kept
  <2>2. clients'[i] = clients[i] /\ born'[i] = born[i] /\ charged'[i] = charged[i]
    BY <1>1, <2>1
  <2>3. WindowKept(clients[i].systems) /\ ListKept(clients[i].health, clients[i].blocked) /\ Paid(i)
    BY <2>1 DEF IInv
  <2>4. QED BY <1>1, <2>2, <2>3 DEF WindowKept, ListKept, Paid, Seen
<1>7. \A i \in Ips \ Kept' : charged'[i] = 0
  BY <1>1, <1>2 DEF IInv
<1>8. QED BY <1>3, <1>4, <1>5, <1>6, <1>7 DEF IInv

LEMMA TickStep ==
  ASSUME IInv, Tick
  PROVE  IInv'
<1>1. /\ now' = now + 1 /\ now \in Nat
      /\ clients' = clients /\ told' = told /\ born' = born
      /\ charged' = charged /\ overtaken' = overtaken
  BY DEF Tick, IInv, TypeOK
<1>2. TypeOK' /\ Kept' = Kept /\ TableBounded'
  BY <1>1 DEF IInv, TypeOK, TableBounded, Kept
<1>3. ASSUME NEW i \in Kept
      PROVE  /\ WindowKept(clients[i].systems)'
             /\ ListKept(clients[i].health, clients[i].blocked)'
             /\ Paid(i)'
  <2>1. /\ WindowKept(clients[i].systems) /\ ListKept(clients[i].health, clients[i].blocked)
        /\ Paid(i) /\ clients[i] \in ClientRecord
    BY DEF IInv, TypeOK, Kept
  <2>2. clients[i].refill \in Nat /\ clients[i].health \in SUBSET (Nat \X Nat)
    BY <2>1 DEF ClientRecord
  <2>3. \A h \in clients[i].health : h[1] <= now + 1
    BY <1>1, <2>1, <2>2 DEF ListKept
  <2>4. clients[i].refill <= now + 1 + RlBatchEvery
    BY <1>1, <2>1, <2>2 DEF Paid
  <2>5. QED BY <1>1, <2>1, <2>3, <2>4 DEF WindowKept, ListKept, Paid, Seen
<1>4. QED BY <1>1, <1>2, <1>3 DEF IInv

LEMMA NextStep == IInv /\ [Next]_vars => IInv'
<1>. SUFFICES ASSUME IInv, [Next]_vars PROVE IInv'
  OBVIOUS
<1>1. CASE Next
  BY <1>1, AdmitStep, SweepStep, TickStep DEF Next
<1>2. CASE UNCHANGED vars
  BY ZenonT(60), <1>2 DEF vars, IInv, TypeOK, TableBounded, Kept, WindowKept, ListKept, Paid, Seen
<1>3. QED BY <1>1, <1>2

LEMMA AlwaysIInv == Spec => []IInv
BY InitIInv, NextStep, PTL DEF Spec

-----------------------------------------------------------------------------
\* The table, the records in it and what the clients were told keep their types.
THEOREM TypeCorrect == Spec => []TypeOK
<1>1. IInv => TypeOK
  BY DEF IInv
<1>2. QED BY <1>1, AlwaysIInv, PTL

\* The request budget: whatever the order in which the requests of a client read
\* the clock and got the mutex, its entry has paid for no more than the burst and
\* one batch for each RlBatchEvery since it was made.
THEOREM BudgetKept == Spec => []BudgetHeld
<1>1. IInv => BudgetHeld
  <2>. SUFFICES ASSUME IInv, NEW ip \in Kept
       PROVE RlBatchEvery * (charged[ip] - RlBurst) <= RlBatch * (now - born[ip])
    BY DEF BudgetHeld
  <2>. DEFINE paid == charged[ip]
              made == born[ip]
              tokens == clients[ip].tokens
              refill == clients[ip].refill
  <2>1. paid \in Nat /\ made \in Nat /\ now \in Nat /\ clients[ip] \in ClientRecord
    BY DEF IInv, TypeOK, Kept
  <2>2. tokens \in Nat /\ refill \in Nat
    BY <2>1 DEF ClientRecord
  <2>3. /\ RlBatchEvery * (paid + tokens - RlBurst) <= RlBatch * (refill - RlBatchEvery - made)
        /\ refill <= now + RlBatchEvery
    BY DEF IInv, Paid
  <2>. HIDE DEF paid, made, tokens, refill
  <2>4. RlBatchEvery * (paid - RlBurst) <= RlBatchEvery * (paid + tokens - RlBurst)
    BY <2>1, <2>2
  <2>5. RlBatch * (refill - RlBatchEvery - made) <= RlBatch * (now - made)
    BY <2>1, <2>2, <2>3
  <2>6. /\ RlBatchEvery * (paid - RlBurst) \in Int /\ RlBatch * (now - made) \in Int
        /\ RlBatchEvery * (paid + tokens - RlBurst) \in Int
        /\ RlBatch * (refill - RlBatchEvery - made) \in Int
    BY <2>1, <2>2
  <2>7. RlBatchEvery * (paid - RlBurst) <= RlBatch * (now - made)
    BY <2>3, <2>4, <2>5, <2>6
  <2>8. QED BY <2>7 DEF paid, made
<1>2. QED BY <1>1, AlwaysIInv, PTL

\* The window of systems never exceeds its limit, and the health list by the one
\* request at most that the block after it is for.
THEOREM WindowsKept == Spec => []WindowsBounded
<1>1. IInv => WindowsBounded
  <2>. SUFFICES ASSUME IInv, NEW ip \in Kept
       PROVE /\ Cardinality(Seen(clients[ip].systems)) <= SystemsMax
             /\ Cardinality(clients[ip].health) <= HealthMax + 1
    BY DEF WindowsBounded
  <2>1. WindowKept(clients[ip].systems) /\ ListKept(clients[ip].health, clients[ip].blocked)
    BY DEF IInv
  <2>2. Cardinality(clients[ip].health) \in Nat
    BY <2>1, FS_CardinalityType DEF ListKept
  <2>3. QED BY <2>1, <2>2 DEF WindowKept, ListKept
<1>2. QED BY <1>1, AlwaysIInv, PTL

\* However many clients ask, the table has an entry for ClientsMax of them at
\* most, besides the entry that the others share.
THEOREM TableKept == Spec => []TableBounded
<1>1. IInv => TableBounded
  BY DEF IInv
<1>2. QED BY <1>1, AlwaysIInv, PTL

\* A request with the older clock reading never takes a block or a due batch
\* back that a later one has set.
THEOREM ForwardOnly == Spec => NothingMovesBack
<1>. DEFINE Forward == \A ip \in Ips : (clients[ip] # None /\ clients'[ip] # None) =>
                         /\ clients'[ip].refill >= clients[ip].refill
                         /\ clients'[ip].blocked >= clients[ip].blocked
<1>1. IInv /\ [Next]_vars => [Forward]_vars
  <2>. SUFFICES ASSUME IInv, Next PROVE Forward
    OBVIOUS
  <2>1. \A ip \in Ips : clients[ip] # None => clients[ip].refill \in Nat /\ clients[ip].blocked \in Nat
    BY DEF IInv, TypeOK, ClientRecord
  <2>2. ASSUME NEW at \in ClockReads, NEW ip \in Clients, NEW target \in Targets,
               Admit(ip, at, target)
        PROVE  Forward
    <3>1. PICK e \in Ips : e = EntryOf(ip)
      BY EntryIsIp
    <3>2. PICK d \in ClientRecord, charge \in {0, 1} :
            Follows(Noted(e, at), d, charge, at) /\ Keep(e, d, at, charge)
      BY <2>2, <3>1, AdmitFollows
    <3>3. clients' = [clients EXCEPT ![e] = d] /\ DOMAIN clients = Ips
      BY <3>2 DEF Keep, IInv, TypeOK
    <3>4. clients[e] # None => d.refill >= clients[e].refill /\ d.blocked >= clients[e].blocked
      BY <3>2, NotedIsKept DEF Follows
    <3>5. QED BY <2>1, <3>3, <3>4
  <2>3. ASSUME NEW at \in ClockReads, Sweep(at) PROVE Forward
    <3>1. \A ip \in Ips : clients'[ip] = None \/ clients'[ip] = clients[ip]
      BY <2>3 DEF Sweep
    <3>2. QED BY <2>1, <3>1
  <2>4. CASE Tick
    BY <2>1, <2>4 DEF Tick
  <2>5. QED BY <2>2, <2>3, <2>4 DEF Next
<1>. HIDE DEF Forward
<1>2. Spec => [][Forward]_vars
  BY <1>1, AlwaysIInv, PTL DEF Spec
<1>3. QED BY <1>2 DEF NothingMovesBack, Forward

-----------------------------------------------------------------------------
(***************************************************************************)
(* The sweep.  Everything a record remembers lies within fixed times of    *)
(* the clock, and the clock within MaxSkew of the record's last request;   *)
(* a client that is idle for ClientIdle has nothing left to remember.      *)
(***************************************************************************)
Within(c, t) ==
  /\ c.refill <= t + RlBatchEvery
  /\ \A s \in Systems : c.systems[s] # None => c.systems[s] <= t
  /\ \A h \in c.health : h[1] <= t
  /\ c.blocked + 2 * MaxSkew <= t + ClientIdle

Remembered == \A ip \in Kept : Within(clients[ip], now) /\ Within(clients[ip], clients[ip].last + MaxSkew)

LEMMA IdleIsNatural == ClientIdle \in Nat \ {0} /\ ClientIdle >= RlBatchEvery + 2 * MaxSkew /\ ClientIdle >= 2 * MaxSkew
BY LimiterAssumption

LEMMA RecordTypes ==
  ASSUME NEW c \in ClientRecord
  PROVE  /\ c.tokens \in Nat /\ c.refill \in Nat /\ c.last \in Nat /\ c.blocked \in Nat
         /\ c.systems \in [Systems -> Nat \cup {None}] /\ c.health \in SUBSET (Nat \X Nat)
BY DEF ClientRecord

LEMMA WithinLater ==
  ASSUME NEW c \in ClientRecord, NEW t \in Nat, NEW u \in Nat, t <= u, Within(c, t)
  PROVE  Within(c, u)
<1>1. c.refill \in Nat /\ c.blocked \in Nat /\ ClientIdle \in Nat
  BY RecordTypes, IdleIsNatural
<1>2. c.systems \in [Systems -> Nat \cup {None}] /\ c.health \in SUBSET (Nat \X Nat)
  BY RecordTypes
<1>3. \A s \in Systems : c.systems[s] # None => c.systems[s] \in Nat
  BY <1>2
<1>4. \A h \in c.health : h[1] \in Nat
  BY <1>2
<1>5. QED BY <1>1, <1>3, <1>4 DEF Within

LEMMA CreditWithin ==
  ASSUME NEW c \in ClientRecord, NEW at \in Nat, NEW t \in Nat, at <= t, Within(c, t)
  PROVE  Within(Credit(c, at), t) /\ Credit(c, at).last = c.last
<1>. DEFINE d == Credit(c, at)
<1>1. PICK x \in Nat, r \in Nat :
        /\ d = [c EXCEPT !.tokens = x, !.refill = r]
        /\ r >= c.refill
        /\ r <= c.refill \/ r <= at + RlBatchEvery
        /\ RlBatchEvery * (x - c.tokens) <= RlBatch * (r - c.refill)
  BY Zenon, CreditPays
<1>. HIDE DEF d
<1>2. /\ d.refill = r /\ d.last = c.last
      /\ d.systems = c.systems /\ d.health = c.health /\ d.blocked = c.blocked
  BY <1>1 DEF ClientRecord
<1>3. c.refill \in Nat
  BY RecordTypes
<1>4. d.refill <= t + RlBatchEvery
  BY <1>1, <1>2, <1>3 DEF Within
<1>5. Within(d, t) /\ d.last = c.last
  BY <1>2, <1>4 DEF Within
<1>6. QED BY <1>5 DEF d

\* A check notes the time of the request and blocks the client for less than
\* the time until the sweep may take it.
LEMMA ProbeWithin ==
  ASSUME NEW c \in ClientRecord, NEW at \in Nat, NEW t \in Nat, at <= t, Within(c, t),
         NEW s \in Systems
  PROVE  LET k == CheckProbe(c, at, s)
         IN /\ Within(k.client, t) /\ k.client.last = c.last
            /\ k.cause # NoCause => k.block \in Nat /\ k.block + 2 * MaxSkew <= ClientIdle
<1>. DEFINE kept == PrunedSystems(c, at)
            next == [kept EXCEPT ![s] = at]
            times == {kept[x] : x \in Seen(kept)} \cup {at}
            block == Max({Min(times) + SystemsWindow - at, RlBatchEvery})
<1>1. c.systems \in [Systems -> Nat \cup {None}]
  BY RecordTypes
<1>2. /\ kept \in [Systems -> Nat \cup {None}]
      /\ \A x \in Systems : kept[x] # None => kept[x] = c.systems[x]
  BY <1>1 DEF PrunedSystems
<1>3. \A x \in Systems : kept[x] # None => kept[x] <= t
  BY <1>2 DEF Within
<1>4. \A x \in Systems : next[x] # None => next[x] <= t
  BY <1>2, <1>3
<1>5. block \in Nat /\ block + 2 * MaxSkew <= ClientIdle
  <2>1. times \in SUBSET Nat /\ times # {} /\ at \in times
    BY <1>2 DEF Seen
  <2>. HIDE DEF times
  <2>2. Min(times) \in Nat /\ Min(times) <= at
    BY <2>1, LeastElement
  <2>3. SystemsWindow + 2 * MaxSkew <= ClientIdle
    BY LimiterAssumption
  <2>4. QED BY <2>2, <2>3, IdleIsNatural, LargerOfTwo
<1>6. ASSUME NEW x \in [Systems -> Nat \cup {None}],
             \A y \in Systems : x[y] # None => x[y] <= t
      PROVE  Within([c EXCEPT !.systems = x], t) /\ [c EXCEPT !.systems = x].last = c.last
  <2>1. PICK d : d = [c EXCEPT !.systems = x]
    OBVIOUS
  <2>2. /\ d.refill = c.refill /\ d.last = c.last /\ d.systems = x
        /\ d.health = c.health /\ d.blocked = c.blocked
    BY <2>1 DEF ClientRecord
  <2>3. Within(d, t) /\ d.last = c.last
    BY <1>6, <2>2 DEF Within
  <2>4. QED BY <2>1, <2>3
<1>7. next \in [Systems -> Nat \cup {None}]
  BY <1>2
<1>. DEFINE over == [client |-> [c EXCEPT !.systems = kept], cause |-> "systems", block |-> block]
            within == [client |-> [c EXCEPT !.systems = next], cause |-> NoCause, block |-> 0]
<1>8. CheckProbe(c, at, s) = over \/ CheckProbe(c, at, s) = within
  BY DEF CheckProbe
<1>. HIDE DEF kept, next, block
<1>9. Within(over.client, t) /\ over.client.last = c.last /\ over.block = block
  BY <1>2, <1>3, <1>6
<1>10. Within(within.client, t) /\ within.client.last = c.last /\ within.cause = NoCause
  BY <1>4, <1>6, <1>7
<1>. HIDE DEF over, within
<1>11. QED BY <1>5, <1>8, <1>9, <1>10

LEMMA HealthWithin ==
  ASSUME NEW c \in ClientRecord, NEW at \in Nat, NEW t \in Nat, at <= t, Within(c, t)
  PROVE  LET k == CheckHealth(c, at)
         IN /\ Within(k.client, t) /\ k.client.last = c.last
            /\ k.block \in Nat /\ k.block + 2 * MaxSkew <= ClientIdle
<1>. DEFINE recent == RecentHealth(c, at)
            health == recent \cup {<<at, Cardinality({h \in recent : h[1] = at})>>}
            d == [c EXCEPT !.health = health]
<1>1. \A h \in health : h[1] <= t
  BY DEF RecentHealth, Within
<1>2. CheckHealth(c, at).client = d /\ CheckHealth(c, at).block = Cooldown
  BY DEF CheckHealth
<1>. HIDE DEF health
<1>3. /\ d.refill = c.refill /\ d.last = c.last /\ d.systems = c.systems
      /\ d.health = health /\ d.blocked = c.blocked
  BY DEF ClientRecord
<1>. HIDE DEF d
<1>4. Within(d, t)
  BY <1>1, <1>3 DEF Within
<1>5. Cooldown \in Nat /\ Cooldown + 2 * MaxSkew <= ClientIdle
  BY LimiterAssumption
<1>6. QED BY <1>2, <1>3, <1>4, <1>5

LEMMA NotedWithin ==
  ASSUME IInv, Remembered, NEW ip \in Ips, NEW at \in ClockReads
  PROVE  Within(Noted(ip, at), now) /\ Noted(ip, at).last = at
<1>1. at \in Nat /\ at <= now /\ now \in Nat
  BY Clock DEF IInv, TypeOK
<1>2. CASE clients[ip] = None
  <2>. DEFINE none == [s \in Systems |-> None]
              c == NewClient(at)
  <2>1. /\ c.refill = at + RlBatchEvery /\ c.last = at /\ c.systems = none
        /\ c.health = {} /\ c.blocked = NeverBlocked
    BY DEF NewClient
  <2>2. \A s \in Systems : none[s] = None
    OBVIOUS
  <2>. HIDE DEF c, none
  <2>3. NeverBlocked + 2 * MaxSkew <= now + ClientIdle
    BY <1>1, IdleIsNatural DEF NeverBlocked
  <2>4. Within(c, now) /\ c.last = at
    BY <1>1, <2>1, <2>2, <2>3 DEF Within
  <2>5. QED BY <1>2, <2>4 DEF Noted, c
<1>3. CASE clients[ip] # None
  <2>1. PICK c \in ClientRecord : c = clients[ip] /\ Within(c, now)
    BY <1>3 DEF IInv, TypeOK, Kept, Remembered
  <2>2. PICK d : d = [c EXCEPT !.last = at]
    OBVIOUS
  <2>3. /\ d.refill = c.refill /\ d.last = at /\ d.systems = c.systems
        /\ d.health = c.health /\ d.blocked = c.blocked
    BY <2>2 DEF ClientRecord
  <2>4. Noted(ip, at) = d
    BY <1>3, <2>1, <2>2 DEF Noted
  <2>5. QED BY <2>1, <2>3, <2>4 DEF Within
<1>4. QED BY <1>2, <1>3

\* Whatever admit decides, the entry's new record remembers nothing later than
\* the clock.
LEMMA AdmitWithin ==
  ASSUME IInv, Remembered, NEW at \in ClockReads, NEW ip \in Clients, NEW target \in Targets,
         Admit(ip, at, target)
  PROVE  Within(clients'[EntryOf(ip)], now) /\ clients'[EntryOf(ip)].last = at
<1>1. at \in Nat /\ at <= now /\ now \in Nat
  BY Clock DEF IInv, TypeOK
<1>2. PICK e \in Ips : e = EntryOf(ip)
  BY EntryIsIp
<1>3. PICK c \in ClientRecord : c = Noted(e, at) /\ WindowKept(c.systems) /\ ListKept(c.health, c.blocked)
  BY NotedIsKept
<1>4. Within(c, now) /\ c.last = at
  BY <1>3, NotedWithin
<1>. DEFINE d == Credit(c, at)
            p == [d EXCEPT !.tokens = @ - 1]
            k == Check(p, at, target)
<1>5. Credited(ip, at) = d /\ Checked(ip, at, target) = k
  BY <1>2, <1>3 DEF Credited, Checked
<1>6. Within(d, now) /\ d.last = at
  BY <1>1, <1>4, CreditWithin
<1>7. /\ Follows(c, d, 0, at)
      /\ d.tokens >= 1 => Follows(c, p, 1, at) /\ p.blocked = d.blocked
  BY <1>1, <1>3, CreditFollows
<1>8. ASSUME NEW x, NEW charge \in {0, 1}, Keep(e, x, at, charge)
      PROVE  clients'[EntryOf(ip)] = x
  BY <1>2, <1>8 DEF Keep, IInv, TypeOK
<1>9. ASSUME d.tokens >= 1, at >= d.blocked
      PROVE  /\ Within(k.client, now) /\ k.client.last = at /\ k.client \in ClientRecord
             /\ k.cause # NoCause => k.block \in Nat /\ k.block + 2 * MaxSkew <= ClientIdle
  <2>1. d \in ClientRecord
    BY <1>7 DEF Follows
  <2>2. Within(p, now) /\ p.last = at
    <3>. HIDE DEF d
    <3>1. PICK q : q = p
      OBVIOUS
    <3>2. /\ q.refill = d.refill /\ q.last = d.last /\ q.systems = d.systems
          /\ q.health = d.health /\ q.blocked = d.blocked
      BY <2>1, <3>1 DEF ClientRecord
    <3>3. Within(q, now) /\ q.last = at
      BY <1>6, <3>2 DEF Within
    <3>4. QED BY <3>1, <3>3
  <2>3. PICK q \in ClientRecord : q = p /\ WindowKept(q.systems) /\ ListKept(q.health, q.blocked) /\ at >= q.blocked
    BY <1>7, <1>9 DEF Follows
  <2>. HIDE DEF p, d
  <2>4. Noting(q, Check(q, at, target).client)
    BY <1>1, <2>3, CheckedNotes
  <2>5. Within(q, now) /\ q.last = at
    BY <2>2, <2>3
  <2>6. CASE target = Health
    BY <1>1, <2>3, <2>4, <2>5, <2>6, HealthWithin DEF Check, Noting
  <2>7. CASE target # Health
    <3>1. target \in Systems
      BY <2>7 DEF Targets
    <3>2. QED BY <1>1, <2>3, <2>4, <2>5, <2>7, <3>1, ProbeWithin DEF Check, Noting
  <2>8. QED BY <2>6, <2>7
<1>10. CASE AdmitBlocked(ip, at, target)
  BY <1>2, <1>3, <1>4, <1>8, <1>10 DEF AdmitBlocked
<1>11. CASE AdmitNoToken(ip, at, target)
  <2>1. Keep(e, d, at, 0)
    BY <1>2, <1>5, <1>11 DEF AdmitNoToken
  <2>2. QED BY <1>6, <1>8, <2>1
<1>12. CASE AdmitOverLimit(ip, at, target)
  <2>1. d.tokens >= 1 /\ at >= d.blocked /\ k.cause # NoCause
    BY <1>5, <1>12 DEF AdmitOverLimit
  <2>2. PICK b, until, cause : b = k.client /\ until = at + k.block /\ cause = k.cause
    OBVIOUS
  <2>3. PICK x : x = [b EXCEPT !.blocked = until, !.cause = cause] /\ Keep(e, x, at, 1)
    BY <1>2, <1>5, <1>12, <2>2 DEF AdmitOverLimit
  <2>. HIDE DEF k, p, d
  <2>4. Within(b, now) /\ b.last = at /\ b \in ClientRecord /\ until + 2 * MaxSkew <= now + ClientIdle
    BY <1>1, <1>9, <2>1, <2>2, IdleIsNatural
  <2>5. /\ x.refill = b.refill /\ x.last = b.last /\ x.systems = b.systems
        /\ x.health = b.health /\ x.blocked = until
    BY <2>3, <2>4 DEF ClientRecord
  <2>6. Within(x, now) /\ x.last = at
    BY <2>4, <2>5 DEF Within
  <2>7. QED BY <1>8, <2>3, <2>6
<1>13. CASE AdmitGranted(ip, at, target)
  <2>1. d.tokens >= 1 /\ at >= d.blocked /\ Keep(e, k.client, at, 1)
    BY <1>2, <1>5, <1>13 DEF AdmitGranted
  <2>. HIDE DEF k, p, d
  <2>2. QED BY <1>8, <1>9, <2>1
<1>14. QED
  BY <1>10, <1>11, <1>12, <1>13 DEF Admit

LEMMA InitRemembered == Init => Remembered
BY DEF Init, Remembered, Kept

LEMMA RememberedStep == IInv /\ Remembered /\ [Next]_vars => Remembered'
<1>. SUFFICES ASSUME IInv, Remembered, [Next]_vars
     PROVE Remembered'
  OBVIOUS
<1>1. ASSUME NEW at \in ClockReads, NEW ip \in Clients, NEW target \in Targets,
             Admit(ip, at, target), NEW i \in Kept'
      PROVE  Within(clients'[i], now) /\ Within(clients'[i], clients'[i].last + MaxSkew) /\ now' = now
  <2>1. at \in Nat /\ now <= at + MaxSkew /\ now \in Nat
    BY Clock DEF IInv, TypeOK
  <2>2. PICK e \in Ips : e = EntryOf(ip)
    BY EntryIsIp
  <2>3. PICK d \in ClientRecord, charge \in {0, 1} : Keep(e, d, at, charge)
    BY <1>1, <2>2, AdmitFollows
  <2>4. clients' = [clients EXCEPT ![e] = d] /\ DOMAIN clients = Ips
    BY <2>3 DEF Keep, IInv, TypeOK
  <2>5. CASE i = e
    <3>1. clients'[i] = d
      BY <2>4, <2>5
    <3>2. Within(d, now) /\ d.last = at
      BY <1>1, <2>2, <2>5, <3>1, AdmitWithin
    <3>3. Within(d, at + MaxSkew)
      BY <2>1, <3>2, WithinLater
    <3>4. now' = now
      BY <1>1, AdmitFollows
    <3>5. QED BY <3>1, <3>2, <3>3, <3>4
  <2>6. CASE i # e
    <3>1. i \in Kept /\ clients'[i] = clients[i]
      BY <2>4, <2>6 DEF Kept
    <3>2. now' = now
      BY <1>1, AdmitFollows
    <3>3. QED BY <3>1, <3>2 DEF Remembered
  <2>7. QED BY <2>5, <2>6
<1>2. CASE \E at \in ClockReads, ip \in Clients, target \in Targets : Admit(ip, at, target)
  BY <1>1, <1>2 DEF Remembered, Within
<1>3. ASSUME NEW at \in ClockReads, Sweep(at) PROVE Remembered'
  <2>1. \A i \in Kept' : i \in Kept /\ clients'[i] = clients[i] /\ now' = now
    BY <1>3 DEF Sweep, Kept
  <2>2. QED BY <2>1 DEF Remembered, Within
<1>4. CASE Tick
  <2>1. now \in Nat /\ now' = now + 1 /\ clients' = clients
    BY <1>4 DEF Tick, IInv, TypeOK
  <2>2. ASSUME NEW i \in Kept
        PROVE  Within(clients[i], now + 1)
    <3>1. clients[i] \in ClientRecord /\ Within(clients[i], now)
      BY DEF IInv, TypeOK, Kept, Remembered
    <3>2. QED BY <2>1, <3>1, WithinLater
  <2>3. Kept' = Kept
    BY <2>1 DEF Kept
  <2>4. QED BY <2>1, <2>2, <2>3 DEF Remembered, Within
<1>5. CASE UNCHANGED vars
  BY <1>5 DEF vars, Remembered, Kept, Within
<1>6. QED BY <1>2, <1>3, <1>4, <1>5 DEF Next

LEMMA AlwaysRemembered == Spec => [](IInv /\ Remembered)
BY InitIInv, InitRemembered, NextStep, RememberedStep, PTL DEF Spec

\* A record that is idle at a time has a full bucket at any later one, and at
\* any that a request may have read before.
LEMMA IdleIsNew ==
  ASSUME NEW c \in ClientRecord, Within(c, c.last + MaxSkew),
         NEW at \in Int, Idle(c, at), NEW x \in Int, x >= at - MaxSkew
  PROVE  LikeNew(c, x)
<1>. PICK last \in Nat : last = c.last
  BY RecordTypes
<1>1. x > last + ClientIdle - MaxSkew /\ ClientIdle \in Nat
  BY IdleIsNatural DEF Idle
<1>2. /\ c.refill \in Nat /\ c.blocked \in Nat /\ c.tokens \in Nat
      /\ c.systems \in [Systems -> Nat \cup {None}] /\ c.health \in SUBSET (Nat \X Nat)
  BY RecordTypes
<1>3. /\ c.refill <= last + MaxSkew + RlBatchEvery
      /\ \A s \in Systems : c.systems[s] # None => c.systems[s] <= last + MaxSkew
      /\ \A h \in c.health : h[1] <= last + MaxSkew
      /\ c.blocked + 2 * MaxSkew <= last + MaxSkew + ClientIdle
  BY DEF Within
<1>4. x >= c.blocked
  BY <1>1, <1>2, <1>3
<1>5. RecentHealth(c, x) = {}
  <2>1. ClientIdle >= HealthInterval + 2 * MaxSkew
    BY LimiterAssumption
  <2>2. \A h \in c.health : h[1] \in Nat
    BY <1>2
  <2>3. \A h \in c.health : ~(x - h[1] < HealthInterval)
    BY <1>1, <1>3, <2>1, <2>2
  <2>4. QED BY <2>3 DEF RecentHealth
<1>6. Seen(PrunedSystems(c, x)) = {}
  <2>1. ClientIdle >= SystemsWindow + 2 * MaxSkew
    BY LimiterAssumption
  <2>2. \A s \in Systems : c.systems[s] # None => c.systems[s] \in Nat
    BY <1>2
  <2>3. \A s \in Systems : c.systems[s] # None => x - c.systems[s] > SystemsWindow
    BY <1>1, <1>3, <2>1, <2>2
  <2>4. QED BY <2>3 DEF Seen, PrunedSystems
<1>7. Credit(c, x).tokens = RlBurst /\ Credit(c, x).refill = x + RlBatchEvery
  <2>. DEFINE spare == ClientIdle - 2 * MaxSkew
              n == spare \div RlBatchEvery
              b == Batches(c, x)
  <2>1. spare \in Nat /\ spare >= RlBatchEvery /\ n * RlBatch >= RlBurst
    BY LimiterAssumption, IdleIsNatural
  <2>2. x - c.refill \in Nat /\ x - c.refill + RlBatchEvery > spare
    BY <1>1, <1>2, <1>3, <2>1
  <2>3. /\ n \in Nat /\ RlBatchEvery * n <= spare
        /\ (x - c.refill) \div RlBatchEvery \in Nat
        /\ x - c.refill < RlBatchEvery * (((x - c.refill) \div RlBatchEvery) + 1)
    BY <2>1, <2>2, Quotient
  <2>4. b \in Nat /\ x - c.refill < RlBatchEvery * b
    BY <2>3 DEF Batches
  <2>5. n <= b
    <3>. HIDE DEF n, b, spare
    <3>1. PICK r \in Nat : r + RlBatchEvery > spare /\ r < RlBatchEvery * b
      BY <2>2, <2>4
    <3>2. RlBatchEvery * n < RlBatchEvery * b + RlBatchEvery
      <4>1. RlBatchEvery * n \in Nat /\ RlBatchEvery * b \in Nat /\ RlBatchEvery * n <= spare
        BY <2>3, <2>4
      <4>2. QED BY <2>1, <3>1, <4>1
    <3>3. n >= b + 1 => RlBatchEvery * n >= RlBatchEvery * (b + 1)
      BY <2>3, <2>4
    <3>4. RlBatchEvery * (b + 1) = RlBatchEvery * b + RlBatchEvery
      BY <2>4
    <3>5. QED BY <2>3, <2>4, <3>2, <3>3, <3>4
  <2>6. c.tokens + b * RlBatch >= RlBurst
    <3>. HIDE DEF n, b
    <3>1. n * RlBatch <= b * RlBatch /\ n * RlBatch \in Nat /\ b * RlBatch \in Nat
      BY <2>3, <2>4, <2>5
    <3>2. QED BY <1>2, <2>1, <3>1
  <2>7. ~(x < c.refill)
    BY <1>2, <2>2
  <2>8. Credit(c, x) = [c EXCEPT !.tokens = RlBurst, !.refill = x + RlBatchEvery]
    BY <2>6, <2>7 DEF Credit
  <2>9. QED BY <2>8 DEF ClientRecord
<1>8. QED BY <1>4, <1>5, <1>6, <1>7 DEF LikeNew

\* The sweep is invisible: whenever a client that it dropped comes back, the
\* record it dropped would have been treated as that of a new client.
THEOREM SweepForgetsNothing == Spec => SweepIsNeutral
<1>. DEFINE Neutral == \A ip \in Kept : clients'[ip] = None =>
               \A at \in now - MaxSkew .. now + RlBatchEvery : LikeNew(clients[ip], at)
<1>1. IInv /\ Remembered /\ [Next]_vars => [Neutral]_vars
  <2>. SUFFICES ASSUME IInv, Remembered, Next, NEW ip \in Kept, clients'[ip] = None,
                       NEW x \in now - MaxSkew .. now + RlBatchEvery
       PROVE  LikeNew(clients[ip], x)
    OBVIOUS
  <2>1. /\ clients[ip] \in ClientRecord /\ clients[ip] # None
        /\ Within(clients[ip], clients[ip].last + MaxSkew) /\ now \in Nat /\ ip \in Ips
    BY DEF IInv, TypeOK, Kept, Remembered
  <2>2. ASSUME NEW at \in ClockReads, NEW i \in Clients, NEW target \in Targets,
               Admit(i, at, target)
        PROVE  FALSE
    <3>1. PICK e \in Ips : e = EntryOf(i)
      BY EntryIsIp
    <3>2. PICK d \in ClientRecord, charge \in {0, 1} : Keep(e, d, at, charge)
      BY <2>2, <3>1, AdmitFollows
    <3>3. clients' = [clients EXCEPT ![e] = d] /\ DOMAIN clients = Ips /\ d # None
      BY <3>2, NoneAssumption DEF Keep, IInv, TypeOK
    <3>4. QED BY <2>1, <3>3
  <2>3. ASSUME NEW at \in ClockReads, Sweep(at)
        PROVE  LikeNew(clients[ip], x)
    <3>1. at \in Int /\ at <= now /\ now \in Int
      BY <2>1, Clock
    <3>2. Idle(clients[ip], at)
      BY <2>1, <2>3 DEF Sweep
    <3>3. x \in Int /\ x >= at - MaxSkew
      BY <2>1, <3>1
    <3>4. PICK c \in ClientRecord :
            c = clients[ip] /\ Within(c, c.last + MaxSkew) /\ Idle(c, at)
      BY <2>1, <3>2
    <3>5. LikeNew(c, x)
      BY Zenon, <3>1, <3>3, <3>4, IdleIsNew
    <3>6. QED BY <3>4, <3>5
  <2>4. CASE Tick
    BY <2>1, <2>4 DEF Tick
  <2>5. QED BY <2>2, <2>3, <2>4 DEF Next
<1>. HIDE DEF Neutral
<1>2. Spec => [][Neutral]_vars
  BY <1>1, AlwaysRemembered, PTL DEF Spec
<1>3. QED BY <1>2 DEF SweepIsNeutral, Neutral

-----------------------------------------------------------------------------
(***************************************************************************)
(* Retry-After.  What a client is told follows from the times in its       *)
(* record, as long as these are ordered: nothing in it is later than its   *)
(* last request, and while it is blocked, the limit that blocked it is no  *)
(* longer in the way when the block is over.  An entry that was overtaken  *)
(* loses that order.                                                       *)
(***************************************************************************)

\* At t, neither the budget nor the limit cause stops the client r any more.
Over(r, cause, t) ==
  /\ r.refill <= t
  /\ cause = "systems" => \E s \in Seen(r.systems) : r.systems[s] + SystemsWindow <= t
  /\ cause = "health" => \A h \in r.health : h[1] + HealthInterval <= t

Timely(r) ==
  /\ \A s \in Seen(r.systems) : r.systems[s] <= r.last
  /\ \A h \in r.health : h[1] <= r.last
  /\ r.refill <= r.last + RlBatchEvery

Orderly(r) ==
  /\ Timely(r)
  /\ r.last < r.blocked => Over(r, r.cause, r.blocked)

\* A client that was refused for cause and told to wait until due may ask then.
Honours(r, cause, due) == r.blocked < due /\ Over(r, cause, due - 1)

Promised(r, t) ==
  /\ Orderly(r)
  /\ t.wait > 0 => Honours(r, t.cause, t.at + t.wait * Second)

Promises ==
  \A c \in Clients : (clients[c] # None /\ c \notin overtaken) => Promised(clients[c], told[c])

\* Retry-After is rounded up: it ends behind the time it is meant for.
LEMMA WaitedFor ==
  ASSUME NEW t \in Int, NEW at \in Int
  PROVE  /\ SecondsUntil(t, at) \in Nat /\ SecondsUntil(t, at) >= 1
         /\ at + SecondsUntil(t, at) * Second >= at + 1
         /\ t <= at + SecondsUntil(t, at) * Second - 1
<1>1. PICK n \in Int : n = (t - at) \div Second + 1
  OBVIOUS
<1>2. PICK w \in Nat : w = SecondsUntil(t, at) /\ w >= 1 /\ w >= n
  <2>1. SecondsUntil(t, at) = IF 1 >= n THEN 1 ELSE n
    BY <1>1, LargerOfTwo DEF SecondsUntil
  <2>2. QED BY <2>1
<1>3. w * Second \in Nat /\ w * Second >= 1
  <2>1. w * Second >= 1 * Second
    BY <1>2
  <2>2. QED BY <2>1
<1>4. t - at < w * Second
  <2>1. CASE t >= at
    <3>1. t - at \in Nat
      BY <2>1
    <3>2. t - at < Second * n /\ n \in Nat
      BY <1>1, <3>1, Quotient
    <3>3. Second * n <= w * Second
      BY <1>2, <3>2
    <3>4. Second * n \in Nat
      BY <3>2
    <3>5. QED BY <1>3, <3>1, <3>2, <3>3, <3>4
  <2>2. CASE t < at
    BY <1>3, <2>2
  <2>3. QED BY <2>1, <2>2
<1>5. QED
  <2>1. at + w * Second >= at + 1 /\ t <= at + w * Second - 1
    BY <1>3, <1>4
  <2>2. QED BY Zenon, <1>2, <2>1

LEMMA OverLater ==
  ASSUME NEW r \in ClientRecord, NEW cause, NEW t \in Nat, NEW u \in Nat, t <= u,
         Over(r, cause, t)
  PROVE  Over(r, cause, u)
<1>1. r.refill \in Nat /\ r.systems \in [Systems -> Nat \cup {None}] /\ r.health \in SUBSET (Nat \X Nat)
  BY RecordTypes
<1>2. \A s \in Seen(r.systems) : r.systems[s] \in Nat
  BY <1>1 DEF Seen
<1>3. \A h \in r.health : h[1] \in Nat
  BY <1>1
<1>4. QED BY <1>1, <1>2, <1>3 DEF Over

LEMMA NewIsOrderly ==
  ASSUME NEW at \in Nat
  PROVE  Orderly(NewClient(at)) /\ NewClient(at).last = at /\ NewClient(at).blocked <= at
<1>. DEFINE none == [s \in Systems |-> None]
            c == NewClient(at)
<1>1. /\ c.refill = at + RlBatchEvery /\ c.last = at /\ c.systems = none
      /\ c.health = {} /\ c.blocked = NeverBlocked
  BY DEF NewClient
<1>2. Seen(none) = {}
  BY DEF Seen
<1>. HIDE DEF c, none
<1>3. Orderly(c) /\ c.last = at /\ c.blocked <= at
  BY <1>1, <1>2 DEF Orderly, Timely, NeverBlocked
<1>4. QED BY <1>3 DEF c

\* A request that does not overtake keeps the order of the record it is noted in.
LEMMA NotedIsOrderly ==
  ASSUME IInv, Promises, NEW ip \in Clients, NEW at \in ClockReads, ip \notin overtaken,
         clients[ip] # None => at >= clients[ip].last
  PROVE  Orderly(Noted(ip, at)) /\ Noted(ip, at).last = at
<1>1. at \in Nat /\ ip \in Ips
  BY Clock DEF IInv, TypeOK, Ips
<1>2. CASE clients[ip] = None
  BY <1>1, <1>2, NewIsOrderly DEF Noted
<1>3. CASE clients[ip] # None
  <2>1. PICK c \in ClientRecord : c = clients[ip] /\ Orderly(c) /\ at >= c.last
    BY <1>1, <1>3 DEF IInv, TypeOK, Promises, Promised
  <2>2. PICK d : d = [c EXCEPT !.last = at]
    OBVIOUS
  <2>3. /\ d.refill = c.refill /\ d.last = at /\ d.systems = c.systems
        /\ d.health = c.health /\ d.blocked = c.blocked /\ d.cause = c.cause
    BY <2>2 DEF ClientRecord
  <2>4. /\ c.refill \in Nat /\ c.last \in Nat /\ c.blocked \in Nat
        /\ c.systems \in [Systems -> Nat \cup {None}] /\ c.health \in SUBSET (Nat \X Nat)
    BY RecordTypes
  <2>5. /\ \A s \in Seen(c.systems) : c.systems[s] \in Nat
        /\ \A h \in c.health : h[1] \in Nat
    BY <2>4 DEF Seen
  <2>6. Timely(d)
    BY <1>1, <2>1, <2>3, <2>4, <2>5 DEF Orderly, Timely
  <2>7. ASSUME d.last < d.blocked PROVE Over(d, d.cause, d.blocked)
    <3>1. c.last < c.blocked
      BY <1>1, <2>1, <2>3, <2>4, <2>7
    <3>2. Over(c, c.cause, c.blocked)
      BY <2>1, <3>1 DEF Orderly
    <3>3. QED BY <2>3, <3>2 DEF Over
  <2>8. Noted(ip, at) = d
    BY <1>3, <2>1, <2>2 DEF Noted
  <2>9. QED BY <2>3, <2>6, <2>7, <2>8 DEF Orderly
<1>4. QED BY <1>2, <1>3

\* A record that the check may go on with: its batches are credited, and no block runs.
Ready(r, at) == r \in ClientRecord /\ Timely(r) /\ r.last = at /\ at >= r.blocked

LEMMA CreditIsReady ==
  ASSUME NEW c \in ClientRecord, NEW at \in Nat, Ready(c, at)
  PROVE  LET d == Credit(c, at)
         IN /\ Ready(d, at) /\ d.blocked = c.blocked
            /\ d.tokens >= 1 => Ready([d EXCEPT !.tokens = @ - 1], at)
<1>. DEFINE d == Credit(c, at)
            p == [d EXCEPT !.tokens = @ - 1]
<1>1. PICK x \in Nat, r \in Nat :
        /\ d = [c EXCEPT !.tokens = x, !.refill = r]
        /\ r >= c.refill
        /\ r <= c.refill \/ r <= at + RlBatchEvery
        /\ RlBatchEvery * (x - c.tokens) <= RlBatch * (r - c.refill)
  BY Zenon, CreditPays
<1>. HIDE DEF d
<1>2. /\ d \in ClientRecord /\ d.tokens = x /\ d.refill = r
      /\ d.last = c.last /\ d.systems = c.systems /\ d.health = c.health
      /\ d.blocked = c.blocked
  BY <1>1 DEF ClientRecord
<1>3. c.refill \in Nat
  BY RecordTypes
<1>4. d.refill <= at + RlBatchEvery
  BY <1>1, <1>2, <1>3 DEF Ready, Timely
<1>5. Ready(d, at)
  BY <1>2, <1>4 DEF Ready, Timely
<1>6. ASSUME d.tokens >= 1 PROVE Ready(p, at)
  <2>1. x - 1 \in Nat
    BY <1>2, <1>6
  <2>2. PICK q : q = p /\ q = [d EXCEPT !.tokens = x - 1]
    BY <1>2
  <2>3. /\ q \in ClientRecord /\ q.refill = d.refill
        /\ q.last = d.last /\ q.systems = d.systems /\ q.health = d.health
        /\ q.blocked = d.blocked
    BY <1>2, <2>1, <2>2 DEF ClientRecord
  <2>4. Ready(q, at)
    BY <1>5, <2>3 DEF Ready, Timely
  <2>5. QED BY <2>2, <2>4
<1>7. QED BY <1>2, <1>5, <1>6 DEF d

\* What a check makes of such a record: when it breaks a limit, the limit is no
\* longer in the way once the block is over.
Settles(k, at) ==
  /\ Ready(k.client, at)
  /\ k.cause \in Causes
  /\ k.cause # NoCause => k.block \in Nat /\ k.block > 0 /\ Over(k.client, k.cause, at + k.block)

LEMMA ProbeSettles ==
  ASSUME NEW c \in ClientRecord, NEW at \in Nat, Ready(c, at), NEW s \in Systems
  PROVE  Settles(CheckProbe(c, at, s), at)
<1>. DEFINE kept == PrunedSystems(c, at)
            next == [kept EXCEPT ![s] = at]
            times == {kept[x] : x \in Seen(kept)} \cup {at}
            block == Max({Min(times) + SystemsWindow - at, RlBatchEvery})
<1>1. c.systems \in [Systems -> Nat \cup {None}] /\ c.refill \in Nat
  BY RecordTypes
<1>2. /\ kept \in [Systems -> Nat \cup {None}]
      /\ \A x \in Seen(kept) : kept[x] \in Nat /\ kept[x] <= at
  BY <1>1 DEF PrunedSystems, Seen, Ready, Timely
<1>3. next \in [Systems -> Nat \cup {None}] /\ \A x \in Seen(next) : next[x] <= at
  BY <1>2 DEF Seen
<1>4. ASSUME NEW x \in [Systems -> Nat \cup {None}], \A y \in Seen(x) : x[y] <= at
      PROVE  \E d : /\ d = [c EXCEPT !.systems = x]
                    /\ Ready(d, at) /\ d.systems = x /\ d.refill = c.refill
  <2>1. PICK d : d = [c EXCEPT !.systems = x]
    OBVIOUS
  <2>2. /\ d \in ClientRecord /\ d.refill = c.refill /\ d.last = c.last /\ d.systems = x
        /\ d.health = c.health /\ d.blocked = c.blocked
    BY <1>4, <2>1 DEF ClientRecord
  <2>3. Ready(d, at)
    BY <1>4, <2>2 DEF Ready, Timely
  <2>4. QED BY <2>1, <2>2, <2>3
<1>5. block \in Nat /\ block >= RlBatchEvery /\ block >= Min(times) + SystemsWindow - at
      /\ Min(times) \in times /\ \A y \in times : Min(times) <= y
  <2>1. times \in SUBSET Nat /\ times # {}
    BY <1>2
  <2>. HIDE DEF times
  <2>2. Min(times) \in times /\ Min(times) \in Nat /\ \A y \in times : Min(times) <= y
    BY <2>1, LeastElement
  <2>3. QED BY <2>2, LargerOfTwo
<1>6. CASE kept[s] = None /\ Cardinality(Seen(kept)) >= SystemsMax
  <2>1. PICK x \in Seen(kept) : TRUE
    <3>1. Seen(kept) # {}
      BY <1>6, FS_EmptySet
    <3>2. QED BY <3>1
  <2>2. PICK y \in Seen(kept) : kept[y] = Min(times)
    <3>1. kept[x] \in times /\ kept[x] \in Nat /\ kept[x] <= at
      BY <1>2
    <3>2. Min(times) = at \/ \E y \in Seen(kept) : kept[y] = Min(times)
      BY <1>5
    <3>3. Min(times) <= kept[x]
      BY <1>5, <3>1
    <3>4. CASE Min(times) = at
      <4>1. kept[x] = at
        BY <3>1, <3>3, <3>4
      <4>2. QED BY <3>4, <4>1
    <3>5. QED BY <3>2, <3>4
  <2>3. PICK oldest \in Nat : kept[y] = oldest /\ oldest = Min(times)
    BY <1>2, <2>2
  <2>. HIDE DEF times, kept
  <2>4. PICK b \in Nat : b = block /\ b >= RlBatchEvery /\ b >= oldest + SystemsWindow - at
    BY <1>5, <2>3
  <2>. HIDE DEF block
  <2>5. PICK d : /\ d = [c EXCEPT !.systems = kept] /\ Ready(d, at)
                 /\ d.systems = kept /\ d.refill = c.refill
    BY <1>2, <1>4
  <2>6. CheckProbe(c, at, s) = [client |-> d, cause |-> "systems", block |-> b]
    BY <1>6, <2>4, <2>5 DEF CheckProbe, kept, times, block
  <2>7. Over(d, "systems", at + b)
    <3>1. d.systems[y] + SystemsWindow <= at + b
      BY <2>3, <2>4, <2>5
    <3>2. d.refill <= at + b
      BY <1>1, <2>4, <2>5 DEF Ready, Timely
    <3>3. y \in Seen(d.systems)
      BY <2>2, <2>5
    <3>4. QED BY <3>1, <3>2, <3>3 DEF Over
  <2>8. PICK k : k = CheckProbe(c, at, s) /\ k.client = d /\ k.cause = "systems" /\ k.block = b
    BY <2>6
  <2>9. QED BY <2>4, <2>5, <2>7, <2>8 DEF Settles, Causes
<1>7. CASE ~(kept[s] = None /\ Cardinality(Seen(kept)) >= SystemsMax)
  <2>1. CheckProbe(c, at, s) = [client |-> [c EXCEPT !.systems = next], cause |-> NoCause, block |-> 0]
    BY <1>7 DEF CheckProbe, kept
  <2>. HIDE DEF next, kept
  <2>2. PICK d : d = [c EXCEPT !.systems = next] /\ Ready(d, at)
    BY <1>3, <1>4
  <2>3. PICK k : k = CheckProbe(c, at, s) /\ k.client = d /\ k.cause = NoCause
    BY <2>1, <2>2
  <2>4. QED BY <2>2, <2>3 DEF Settles, Causes
<1>8. QED BY <1>6, <1>7

LEMMA HealthSettles ==
  ASSUME now \in Nat, NEW at \in ClockReads, NEW c \in ClientRecord, Ready(c, at),
         WindowKept(c.systems), ListKept(c.health, c.blocked)
  PROVE  Settles(CheckHealth(c, at), at)
<1>. DEFINE recent == RecentHealth(c, at)
            new == <<at, Cardinality({h \in recent : h[1] = at})>>
            health == recent \cup {new}
<1>1. at \in Nat /\ c.refill \in Nat /\ c.health \in SUBSET (Nat \X Nat)
  BY Clock, RecordTypes
<1>2. \A h \in health : h[1] \in Nat /\ h[1] <= at
  BY <1>1 DEF RecentHealth, Ready, Timely
<1>3. PICK k : /\ k = CheckHealth(c, at) /\ k.client = [c EXCEPT !.health = health]
               /\ k.block = Cooldown
  <2>. DEFINE e == [c EXCEPT !.health = health]
              cause == IF Cardinality(health) > HealthMax THEN "health" ELSE NoCause
  <2>1. CheckHealth(c, at) = [client |-> e, cause |-> cause, block |-> Cooldown]
    BY DEF CheckHealth
  <2>. HIDE DEF e, cause
  <2>2. PICK k : k = CheckHealth(c, at) /\ k.client = e /\ k.block = Cooldown
    BY <2>1
  <2>3. QED BY Zenon, <2>2 DEF e
<1>4. Noting(c, k.client) /\ k.cause \in {NoCause, "health"}
  BY <1>3, HealthChecked DEF Ready
<1>. HIDE DEF health
<1>5. PICK d \in ClientRecord : d = k.client
  BY <1>4 DEF Noting
<1>6. /\ d.refill = c.refill /\ d.last = c.last /\ d.systems = c.systems
      /\ d.health = health /\ d.blocked = c.blocked
  BY <1>3, <1>5 DEF ClientRecord
<1>7. Ready(d, at)
  BY <1>2, <1>6 DEF Ready, Timely
<1>8. Cooldown \in Nat /\ Cooldown > 0 /\ Cooldown >= RlBatchEvery /\ Cooldown >= HealthInterval
  BY LimiterAssumption
<1>9. Over(d, "health", at + Cooldown)
  <2>1. \A h \in d.health : h[1] + HealthInterval <= at + Cooldown
    BY <1>1, <1>2, <1>6, <1>8
  <2>2. d.refill <= at + Cooldown
    BY <1>1, <1>6, <1>8 DEF Ready, Timely
  <2>3. QED BY <2>1, <2>2 DEF Over
<1>10. QED BY <1>3, <1>4, <1>5, <1>7, <1>8, <1>9 DEF Settles, Causes

LEMMA CheckSettles ==
  ASSUME now \in Nat, NEW at \in ClockReads, NEW c \in ClientRecord, Ready(c, at),
         WindowKept(c.systems), ListKept(c.health, c.blocked), NEW target \in Targets
  PROVE  Settles(Check(c, at, target), at)
<1>1. at \in Nat
  BY Clock
<1>2. CASE target = Health
  BY <1>2, HealthSettles DEF Check
<1>3. CASE target # Health
  <2>1. target \in Systems
    BY <1>3 DEF Targets
  <2>2. QED BY <1>1, <1>3, <2>1, ProbeSettles DEF Check
<1>4. QED BY <1>2, <1>3

\* A client that is told to wait for the end of its record's block, or of its
\* empty bucket, is told right.
LEMMA WaitHonours ==
  ASSUME NEW c \in ClientRecord, NEW at \in Nat, NEW t \in Nat, NEW cause,
         c.blocked <= t \/ c.blocked <= at, Over(c, cause, t)
  PROVE  Honours(c, cause, at + SecondsUntil(t, at) * Second)
<1>1. PICK due \in Int : /\ due = at + SecondsUntil(t, at) * Second
                         /\ due >= at + 1 /\ t <= due - 1
  <2>1. t \in Int /\ at \in Int
    OBVIOUS
  <2>2. /\ SecondsUntil(t, at) \in Nat
        /\ at + SecondsUntil(t, at) * Second >= at + 1
        /\ t <= at + SecondsUntil(t, at) * Second - 1
    BY Zenon, <2>1, WaitedFor
  <2>3. PICK w \in Nat : /\ w = SecondsUntil(t, at)
                         /\ at + w * Second >= at + 1 /\ t <= at + w * Second - 1
    BY Zenon, <2>2
  <2>4. PICK x \in Int : x = at + w * Second /\ x >= at + 1 /\ t <= x - 1
    BY <2>3
  <2>5. x = at + SecondsUntil(t, at) * Second
    BY Zenon, <2>3, <2>4
  <2>6. QED BY Zenon, <2>4, <2>5
<1>2. c.blocked \in Nat
  BY RecordTypes
<1>3. c.blocked < due /\ due - 1 \in Nat
  BY <1>1, <1>2
<1>4. Over(c, cause, due - 1)
  BY <1>1, <1>3, OverLater
<1>5. QED BY <1>1, <1>3, <1>4 DEF Honours

\* A request that is charged to the client's own entry, and does not overtake,
\* leaves a record that honours what the client is told.
LEMMA AdmitPromises ==
  ASSUME IInv, Promises, NEW at \in ClockReads, NEW ip \in Clients, NEW target \in Targets,
         Admit(ip, at, target), EntryOf(ip) = ip, ip \notin overtaken'
  PROVE  Promised(clients'[ip], told'[ip])
<1>1. at \in Nat /\ now \in Nat /\ ip \in Ips /\ told \in [Clients -> Told] /\ DOMAIN clients = Ips
  BY Clock DEF IInv, TypeOK, Ips
<1>2. ASSUME NEW x, NEW charge, Keep(ip, x, at, charge)
      PROVE  clients'[ip] = x
  BY <1>1, <1>2 DEF Keep
<1>3. ip \notin overtaken /\ (clients[ip] # None => at >= clients[ip].last)
  <2>1. PICK x \in ClientRecord, charge \in {0, 1} : Keep(ip, x, at, charge)
    BY AdmitFollows
  <2>2. overtaken' = IF clients[ip] # None /\ at < clients[ip].last
                       THEN overtaken \cup {ip} ELSE overtaken
    BY <2>1 DEF Keep
  <2>3. clients[ip] # None => clients[ip].last \in Nat
    BY <1>1, RecordTypes DEF IInv, TypeOK
  <2>4. QED BY <1>1, <2>2, <2>3
<1>4. PICK c \in ClientRecord : /\ c = Noted(ip, at) /\ WindowKept(c.systems)
                                /\ ListKept(c.health, c.blocked)
                                /\ Orderly(c) /\ c.last = at
  BY <1>1, <1>3, NotedIsKept, NotedIsOrderly
<1>5. c.blocked \in Nat /\ c.refill \in Nat
  BY RecordTypes
<1>6. ASSUME NEW t \in Nat, NEW cause, Tell(ip, target, at, SecondsUntil(t, at), cause),
             NEW r, clients'[ip] = r, Orderly(r),
             Honours(r, cause, at + SecondsUntil(t, at) * Second)
      PROVE  Promised(clients'[ip], told'[ip])
  <2>1. PICK w : w = [target |-> target, at |-> at, wait |-> SecondsUntil(t, at), cause |-> cause]
    OBVIOUS
  <2>2. told'[ip] = w
    BY <1>1, <1>6, <2>1 DEF Tell
  <2>3. w.at = at /\ w.wait = SecondsUntil(t, at) /\ w.cause = cause
    BY <2>1
  <2>4. QED BY <1>6, <2>2, <2>3 DEF Promised
<1>7. CASE AdmitBlocked(ip, at, target)
  <2>1. /\ at < c.blocked /\ Keep(ip, c, at, 0)
        /\ Tell(ip, target, at, SecondsUntil(c.blocked, at), c.cause)
    BY <1>4, <1>7 DEF AdmitBlocked
  <2>2. Over(c, c.cause, c.blocked)
    BY <1>4, <2>1 DEF Orderly
  <2>3. Honours(c, c.cause, at + SecondsUntil(c.blocked, at) * Second)
    BY <1>1, <1>5, <2>2, WaitHonours
  <2>4. QED BY <1>2, <1>4, <1>5, <1>6, <2>1, <2>3
<1>. DEFINE d == Credit(c, at)
            p == [d EXCEPT !.tokens = @ - 1]
            k == Check(p, at, target)
<1>8. Credited(ip, at) = d /\ Checked(ip, at, target) = k
  BY <1>4 DEF Credited, Checked
<1>9. ASSUME at >= d.blocked
      PROVE  /\ Ready(d, at)
             /\ d.tokens >= 1 => Ready(p, at)
  <2>1. d.blocked = c.blocked
    BY <1>1, <1>4, CreditFollows
  <2>2. Ready(c, at)
    BY <1>4, <1>9, <2>1 DEF Ready, Orderly
  <2>3. QED BY <1>1, <2>2, CreditIsReady
<1>10. ASSUME at >= d.blocked, d.tokens >= 1 PROVE Settles(k, at)
  <2>1. PICK q : q = p /\ Ready(q, at) /\ q \in ClientRecord /\ WindowKept(q.systems) /\ ListKept(q.health, q.blocked)
    <3>1. Follows(c, p, 1, at) /\ Ready(p, at)
      BY <1>1, <1>4, <1>9, <1>10, CreditFollows
    <3>. HIDE DEF p
    <3>2. QED BY <3>1 DEF Follows
  <2>. HIDE DEF p
  <2>2. QED BY <1>1, <2>1, CheckSettles
<1>. HIDE DEF d, p, k
<1>11. ASSUME NEW r, Ready(r, at) PROVE Orderly(r)
  <2>1. r.last \in Nat /\ r.blocked \in Nat /\ r.last = at /\ at >= r.blocked
    BY <1>11, RecordTypes DEF Ready
  <2>2. QED BY <1>11, <2>1 DEF Ready, Orderly
<1>12. CASE AdmitNoToken(ip, at, target)
  <2>1. /\ at >= d.blocked /\ Keep(ip, d, at, 0)
        /\ Tell(ip, target, at, SecondsUntil(d.refill, at), "rate")
    BY <1>8, <1>12 DEF AdmitNoToken
  <2>2. Ready(d, at) /\ Orderly(d)
    BY <1>9, <1>11, <2>1
  <2>3. d \in ClientRecord /\ d.refill \in Nat /\ d.blocked <= at
    BY <2>1, <2>2, RecordTypes DEF Ready
  <2>4. Over(d, "rate", d.refill)
    BY <2>3 DEF Over
  <2>5. Honours(d, "rate", at + SecondsUntil(d.refill, at) * Second)
    BY <1>1, <2>3, <2>4, WaitHonours
  <2>6. QED BY <1>2, <1>6, <2>1, <2>2, <2>3, <2>5
<1>13. CASE AdmitOverLimit(ip, at, target)
  <2>1. at >= d.blocked /\ d.tokens >= 1 /\ k.cause # NoCause
    BY <1>8, <1>13 DEF AdmitOverLimit
  <2>2. PICK b \in ClientRecord, until \in Nat, cause \in Causes :
          /\ b = k.client /\ until = at + k.block /\ cause = k.cause
          /\ Ready(b, at) /\ until > at /\ Over(b, cause, until)
    BY <1>1, <1>10, <2>1 DEF Settles, Ready
  <2>3. PICK x : x = [b EXCEPT !.blocked = until, !.cause = cause] /\ Keep(ip, x, at, 1)
    BY <1>8, <1>13, <2>2 DEF AdmitOverLimit
  <2>4. Tell(ip, target, at, SecondsUntil(until, at), cause)
    BY <1>8, <1>13, <2>2 DEF AdmitOverLimit
  <2>5. /\ x \in ClientRecord /\ x.refill = b.refill /\ x.last = b.last
        /\ x.systems = b.systems /\ x.health = b.health
        /\ x.blocked = until /\ x.cause = cause
    BY <2>2, <2>3 DEF ClientRecord
  <2>6. Over(x, cause, until)
    BY <2>2, <2>5 DEF Over
  <2>7. Orderly(x)
    BY <2>2, <2>5, <2>6 DEF Orderly, Ready, Timely
  <2>8. Honours(x, cause, at + SecondsUntil(until, at) * Second)
    BY <1>1, <2>2, <2>5, <2>6, WaitHonours
  <2>9. clients'[ip] = x
    BY <1>2, <2>3
  <2>10. QED BY <1>6, <2>2, <2>4, <2>7, <2>8, <2>9
<1>14. CASE AdmitGranted(ip, at, target)
  <2>1. /\ at >= d.blocked /\ d.tokens >= 1 /\ Keep(ip, k.client, at, 1)
        /\ told' = [told EXCEPT ![ip] = NotTold]
    BY <1>8, <1>14 DEF AdmitGranted
  <2>2. Orderly(k.client)
    BY <1>10, <1>11, <2>1 DEF Settles
  <2>3. told'[ip] = NotTold /\ ~(NotTold.wait > 0)
    BY <1>1, <2>1 DEF NotTold
  <2>4. QED BY <1>2, <2>1, <2>2, <2>3 DEF Promised
<1>15. QED
  BY <1>7, <1>12, <1>13, <1>14 DEF Admit

LEMMA InitPromises == Init => Promises
BY DEF Init, Promises, Ips

LEMMA PromisesStep == IInv /\ Promises /\ [Next]_vars => Promises'
<1>. SUFFICES ASSUME IInv, Promises, [Next]_vars,
                     NEW c \in Clients, clients'[c] # None, c \notin overtaken'
     PROVE  Promised(clients'[c], told'[c])
  BY DEF Promises
<1>1. ASSUME clients'[c] = clients[c], told'[c] = told[c], c \notin overtaken
      PROVE  Promised(clients'[c], told'[c])
  BY <1>1 DEF Promises
<1>2. c \in Ips /\ c # Overflow
  BY LimiterAssumption DEF Ips
<1>3. ASSUME NEW at \in ClockReads, NEW ip \in Clients, NEW target \in Targets,
             Admit(ip, at, target)
      PROVE  Promised(clients'[c], told'[c])
  <2>1. PICK e \in Ips : e = EntryOf(ip) /\ (e = ip \/ (e = Overflow /\ clients[ip] = None))
    BY EntryIsIp DEF EntryOf
  <2>2. PICK d \in ClientRecord, charge \in {0, 1} : Keep(e, d, at, charge)
    BY <1>3, <2>1, AdmitFollows
  <2>3. /\ \A i \in Ips : i # e => clients'[i] = clients[i]
        /\ overtaken \subseteq overtaken'
    BY <2>2 DEF Keep, IInv, TypeOK
  <2>4. \A i \in Clients : i # ip => told'[i] = told[i]
    <3>1. \E x : told' = [told EXCEPT ![ip] = x]
      BY <1>3 DEF Admit, AdmitBlocked, AdmitNoToken, AdmitOverLimit, AdmitGranted, Tell
    <3>2. QED BY <3>1 DEF IInv, TypeOK
  <2>5. CASE c = ip
    <3>1. e = ip
      BY <1>2, <2>1, <2>3, <2>5
    <3>2. QED BY <1>3, <2>1, <2>5, <3>1, AdmitPromises
  <2>6. CASE c # ip
    <3>1. c # e
      BY <1>2, <2>1, <2>6
    <3>2. QED BY <1>1, <1>2, <2>3, <2>4, <2>6, <3>1
  <2>7. QED BY <2>5, <2>6
<1>4. ASSUME NEW at \in ClockReads, Sweep(at)
      PROVE  Promised(clients'[c], told'[c])
  BY <1>1, <1>2, <1>4 DEF Sweep
<1>5. CASE Tick
  BY <1>1, <1>5 DEF Tick
<1>6. CASE UNCHANGED vars
  BY <1>1, <1>6 DEF vars
<1>7. QED BY <1>3, <1>4, <1>5, <1>6 DEF Next

LEMMA AlwaysPromises == Spec => [](IInv /\ Promises)
BY InitIInv, InitPromises, NextStep, PromisesStep, PTL DEF Spec

\* What an orderly record decides at a time its client was told to wait for.
LEMMA HonouredLater ==
  ASSUME NEW c \in ClientRecord, NEW cause, NEW at \in Nat, NEW due \in Int, due <= at,
         Honours(c, cause, due)
  PROVE  /\ at >= c.blocked /\ at >= c.refill
         /\ cause = "systems" => \E s \in Seen(c.systems) : at - c.systems[s] > SystemsWindow
         /\ cause = "health" => RecentHealth(c, at) = {}
<1>1. c.blocked \in Nat /\ c.refill \in Nat
      /\ c.systems \in [Systems -> Nat \cup {None}] /\ c.health \in SUBSET (Nat \X Nat)
  BY RecordTypes
<1>2. \A s \in Seen(c.systems) : c.systems[s] \in Nat
  BY <1>1 DEF Seen
<1>3. \A h \in c.health : h[1] \in Nat
  BY <1>1
<1>4. ASSUME cause = "health" PROVE RecentHealth(c, at) = {}
  <2>1. \A h \in c.health : h[1] + HealthInterval <= due - 1
    BY <1>4 DEF Honours, Over
  <2>2. \A h \in c.health : ~(at - h[1] < HealthInterval)
    BY <1>3, <2>1
  <2>3. QED BY <2>2 DEF RecentHealth
<1>5. QED BY <1>1, <1>2, <1>4 DEF Honours, Over

\* A bucket whose next batch is due has a token.
LEMMA CreditGives ==
  ASSUME NEW c \in ClientRecord, NEW at \in Nat, at >= c.refill
  PROVE  Credit(c, at).tokens >= 1
<1>1. c.refill \in Nat /\ c.tokens \in Nat
  BY RecordTypes
<1>2. PICK n \in Nat : n = Batches(c, at) /\ n >= 1
  <2>1. at - c.refill \in Nat
    BY <1>1
  <2>2. (at - c.refill) \div RlBatchEvery \in Nat
    BY <2>1, Quotient
  <2>3. QED BY <2>2 DEF Batches
<1>3. n * RlBatch \in Nat /\ n * RlBatch >= 1
  <2>1. n * RlBatch >= 1 * RlBatch
    BY <1>2
  <2>2. QED BY <2>1, <1>2
<1>4. PICK t \in Nat, r \in Nat : t >= 1 /\ Credit(c, at) = [c EXCEPT !.tokens = t, !.refill = r]
  <2>1. PICK m \in Nat : m = n * RlBatch /\ m >= 1
    BY <1>3
  <2>2. Credit(c, at) = IF c.tokens + m >= RlBurst
                        THEN [c EXCEPT !.tokens = RlBurst, !.refill = at + RlBatchEvery]
                        ELSE [c EXCEPT !.tokens = c.tokens + m, !.refill = c.refill + n * RlBatchEvery]
    BY <1>1, <1>2, <2>1 DEF Credit
  <2>3. CASE c.tokens + m >= RlBurst
    <3>1. Credit(c, at) = [c EXCEPT !.tokens = RlBurst, !.refill = at + RlBatchEvery]
      BY Zenon, <2>2, <2>3
    <3>2. RlBurst \in Nat /\ RlBurst >= 1 /\ at + RlBatchEvery \in Nat
      OBVIOUS
    <3>3. QED BY Zenon, <3>1, <3>2
  <2>4. CASE ~(c.tokens + m >= RlBurst)
    <3>1. Credit(c, at) = [c EXCEPT !.tokens = c.tokens + m, !.refill = c.refill + n * RlBatchEvery]
      BY Zenon, <2>2, <2>4
    <3>2. c.tokens + m \in Nat /\ c.tokens + m >= 1 /\ c.refill + n * RlBatchEvery \in Nat
      BY <1>1, <1>2, <2>1
    <3>3. QED BY Zenon, <3>1, <3>2
  <2>5. QED BY <2>3, <2>4
<1>5. QED BY <1>4 DEF ClientRecord

\* A window that has lost one of its systems has room for another.
LEMMA ProbeGranted ==
  ASSUME NEW c \in ClientRecord, NEW at \in Nat, NEW s \in Systems, WindowKept(c.systems),
         NEW x \in Seen(c.systems), at - c.systems[x] > SystemsWindow
  PROVE  CheckProbe(c, at, s).cause = NoCause
<1>. DEFINE kept == PrunedSystems(c, at)
<1>1. c.systems \in [Systems -> Nat \cup {None}]
  BY RecordTypes
<1>2. Seen(kept) \subseteq Seen(c.systems) \ {x}
  BY <1>1 DEF Seen, PrunedSystems
<1>3. Cardinality(Seen(kept)) < SystemsMax
  <2>. DEFINE all == Seen(c.systems)
              some == Seen(kept)
  <2>1. IsFiniteSet(all) /\ x \in all /\ some \in SUBSET (all \ {x}) /\ Cardinality(all) <= SystemsMax
    BY <1>2 DEF WindowKept
  <2>. HIDE DEF all, some, kept
  <2>2. IsFiniteSet(all \ {x}) /\ Cardinality(all \ {x}) = Cardinality(all) - 1 /\ Cardinality(all) \in Nat
    BY <2>1, FS_RemoveElement, FS_CardinalityType
  <2>3. Cardinality(some) <= Cardinality(all \ {x}) /\ Cardinality(some) \in Nat
    BY <2>1, <2>2, FS_Subset, FS_CardinalityType
  <2>4. Cardinality(some) < SystemsMax
    BY <2>1, <2>2, <2>3
  <2>5. QED BY <2>4 DEF some
<1>4. ~(Cardinality(Seen(kept)) >= SystemsMax)
  <2>1. Cardinality(Seen(kept)) \in Nat
    BY <1>2, FS_Subset, FS_CardinalityType DEF WindowKept
  <2>2. QED BY <1>3, <2>1
<1>. DEFINE d == [c EXCEPT !.systems = [kept EXCEPT ![s] = at]]
<1>5. CheckProbe(c, at, s) = [client |-> d, cause |-> NoCause, block |-> 0]
  BY <1>4 DEF CheckProbe
<1>. HIDE DEF d
<1>6. QED BY <1>5

\* And an empty list room for a health request.
LEMMA HealthGranted ==
  ASSUME NEW c \in ClientRecord, NEW at \in Nat, RecentHealth(c, at) = {}
  PROVE  CheckHealth(c, at).cause = NoCause
<1>. DEFINE recent == RecentHealth(c, at)
            new == <<at, Cardinality({h \in recent : h[1] = at})>>
            health == recent \cup {new}
            d == [c EXCEPT !.health = health]
<1>1. CheckHealth(c, at) = [client |-> d,
                            cause |-> IF Cardinality(health) > HealthMax THEN "health" ELSE NoCause,
                            block |-> Cooldown]
  BY DEF CheckHealth
<1>2. health = {new}
  OBVIOUS
<1>. HIDE DEF d, new, health
<1>3. Cardinality(health) = 1
  BY <1>2, FS_Singleton
<1>4. ~(Cardinality(health) > HealthMax)
  BY <1>3
<1>5. CheckHealth(c, at).cause = IF Cardinality(health) > HealthMax THEN "health" ELSE NoCause
  BY <1>1
<1>6. QED BY <1>4, <1>5

\* The promise of Retry-After: whoever comes back when told, or later, meets no
\* block and an empty bucket no more, nor the limit that had refused it.
THEOREM RetryAfterIsKept == Spec => []RetryHonoured
<1>1. IInv /\ Promises => RetryHonoured
  <2>. SUFFICES ASSUME IInv, Promises, NEW c \in Clients, clients[c] # None,
                       told[c].wait > 0, c \notin overtaken,
                       NEW at \in (told[c].at + told[c].wait * Second)
                                    .. (told[c].at + told[c].wait * Second + RlBatchEvery)
       PROVE  /\ at >= clients[c].blocked
              /\ Credited(c, at).tokens >= 1
              /\ told[c].cause = LimitOf(told[c].target) =>
                   Checked(c, at, told[c].target).cause = NoCause
    BY DEF RetryHonoured
  <2>1. c \in Ips /\ told[c] \in Told
    BY DEF Ips, IInv, TypeOK
  <2>2. PICK t \in Told : t = told[c]
    BY <2>1
  <2>3. PICK due \in Int : due = t.at + t.wait * Second /\ at \in Nat /\ due <= at
    BY <2>2 DEF Told
  <2>4. PICK r \in ClientRecord : /\ r = clients[c] /\ Honours(r, t.cause, due)
                                  /\ WindowKept(r.systems)
    BY <2>1, <2>2, <2>3 DEF IInv, TypeOK, Kept, Promises, Promised
  <2>. HIDE DEF IInv
  <2>5. PICK n \in ClientRecord :
          /\ n = Noted(c, at) /\ n.refill = r.refill /\ n.blocked = r.blocked
          /\ n.systems = r.systems /\ n.health = r.health
    <3>1. PICK n : n = [r EXCEPT !.last = at]
      OBVIOUS
    <3>2. /\ n \in ClientRecord /\ n.refill = r.refill /\ n.blocked = r.blocked
          /\ n.systems = r.systems /\ n.health = r.health
      BY <2>3, <3>1 DEF ClientRecord
    <3>3. n = Noted(c, at)
      BY <2>4, <3>1 DEF Noted
    <3>4. QED BY <3>2, <3>3
  <2>6. /\ at >= r.blocked /\ at >= r.refill
        /\ t.cause = "systems" => \E s \in Seen(r.systems) : at - r.systems[s] > SystemsWindow
        /\ t.cause = "health" => RecentHealth(r, at) = {}
    BY <2>3, <2>4, HonouredLater
  <2>7. PICK d \in ClientRecord : /\ d = Credit(n, at) /\ d.tokens >= 1
                                  /\ d.systems = r.systems /\ d.health = r.health
    <3>1. PICK x \in Nat, y \in Nat :
            /\ Credit(n, at) = [n EXCEPT !.tokens = x, !.refill = y]
            /\ y >= n.refill
            /\ y <= n.refill \/ y <= at + RlBatchEvery
            /\ RlBatchEvery * (x - n.tokens) <= RlBatch * (y - n.refill)
      BY Zenon, <2>3, CreditPays
    <3>2. Credit(n, at).tokens >= 1
      BY <2>3, <2>5, <2>6, CreditGives
    <3>3. PICK d : d = Credit(n, at)
      OBVIOUS
    <3>4. d \in ClientRecord /\ d.systems = n.systems /\ d.health = n.health
      BY <3>1, <3>3 DEF ClientRecord
    <3>5. QED BY <2>5, <3>2, <3>3, <3>4
  <2>8. EntryOf(c) = c
    BY <2>4 DEF EntryOf
  <2>9. Credited(c, at) = d
    BY <2>5, <2>7, <2>8 DEF Credited
  <2>10. PICK p \in ClientRecord : /\ \A target : Checked(c, at, target) = Check(p, at, target)
                                   /\ p.systems = r.systems /\ p.health = r.health
    <3>1. PICK p : p = [d EXCEPT !.tokens = @ - 1]
      OBVIOUS
    <3>2. d.tokens - 1 \in Nat
      BY <2>7, RecordTypes
    <3>3. p \in ClientRecord /\ p.systems = d.systems /\ p.health = d.health
      BY <3>1, <3>2 DEF ClientRecord
    <3>4. \A target : Checked(c, at, target) = Check(p, at, target)
      BY <2>9, <3>1 DEF Checked
    <3>5. QED BY <2>7, <3>3, <3>4
  <2>11. ASSUME t.cause = LimitOf(t.target) PROVE Check(p, at, t.target).cause = NoCause
    <3>1. CASE t.target = Health
      <4>1. RecentHealth(p, at) = {}
        BY <2>6, <2>10, <2>11, <3>1 DEF LimitOf, RecentHealth
      <4>2. QED BY <2>3, <2>10, <3>1, <4>1, HealthGranted DEF Check
    <3>2. CASE t.target # Health
      <4>1. t.target \in Systems
        BY <3>2 DEF Told, Targets
      <4>2. PICK s \in Seen(p.systems) : at - p.systems[s] > SystemsWindow
        BY <2>6, <2>10, <2>11, <3>2 DEF LimitOf
      <4>3. QED BY <2>3, <2>4, <2>10, <3>2, <4>1, <4>2, ProbeGranted DEF Check
    <3>3. QED BY <3>1, <3>2
  <2>12. QED BY <2>2, <2>4, <2>6, <2>7, <2>9, <2>10, <2>11
<1>2. QED BY <1>1, AlwaysPromises, PTL

-----------------------------------------------------------------------------
(***************************************************************************)
(* Nobody is refused who has not asked for it.  Of an entry that paid for  *)
(* n requests: a token that is gone paid for one of them, and one of them  *)
(* noted each system and each health request that is remembered.           *)
(***************************************************************************)
Earned(c, n) ==
  /\ c.tokens + n >= RlBurst
  /\ Cardinality(Seen(c.systems)) + Cardinality(c.health) <= n
  /\ c.cause \in {NoCause, "systems", "health"}
  /\ c.cause = "systems" => n > SystemsMax
  /\ c.cause = "health" => n > HealthMax
  /\ c.blocked > 0 => c.cause # NoCause

AllEarned == \A ip \in Kept : Earned(clients[ip], charged[ip])

\* The requests that it takes to break a limit.
Limit(cause) ==
  IF cause = "rate" THEN RlBurst ELSE IF cause = "systems" THEN SystemsMax + 1 ELSE HealthMax + 1

LEMMA NewEarned ==
  ASSUME NEW at \in Nat
  PROVE  Earned(NewClient(at), 0)
<1>1. Seen(NewClient(at).systems) = {} /\ NewClient(at).health = {}
  BY DEF NewClient, Seen
<1>2. NewClient(at).tokens = RlBurst /\ NewClient(at).cause = NoCause /\ NewClient(at).blocked = 0
  BY DEF NewClient, NeverBlocked
<1>3. QED BY <1>1, <1>2, FS_EmptySet, Distinct DEF Earned

LEMMA NotedEarned ==
  ASSUME IInv, AllEarned, NEW ip \in Ips, NEW at \in ClockReads
  PROVE  Earned(Noted(ip, at), charged[ip]) /\ charged[ip] \in Nat
<1>1. at \in Nat /\ charged[ip] \in Nat
  BY Clock DEF IInv, TypeOK
<1>2. CASE clients[ip] = None
  <2>1. charged[ip] = 0
    BY <1>2 DEF IInv, Kept
  <2>2. QED BY <1>1, <1>2, <2>1, NewEarned DEF Noted
<1>3. CASE clients[ip] # None
  <2>1. PICK c \in ClientRecord : c = clients[ip]
    BY <1>3 DEF IInv, TypeOK
  <2>2. PICK d : d = [c EXCEPT !.last = at]
    OBVIOUS
  <2>3. Noted(ip, at) = d
    BY <1>3, <2>1, <2>2 DEF Noted
  <2>4. /\ d.tokens = c.tokens /\ d.systems = c.systems /\ d.health = c.health
        /\ d.blocked = c.blocked /\ d.cause = c.cause
    BY <2>2 DEF ClientRecord
  <2>5. Earned(c, charged[ip])
    BY <1>3, <2>1 DEF AllEarned, Kept
  <2>6. Earned(d, charged[ip])
    BY <2>4, <2>5 DEF Earned
  <2>7. QED BY <1>1, <2>3, <2>6
<1>4. QED BY <1>2, <1>3

\* A credit adds tokens, or fills the bucket.
LEMMA CreditEarns ==
  ASSUME NEW c \in ClientRecord, NEW at \in Nat, NEW n \in Nat, Earned(c, n)
  PROVE  /\ Credit(c, at) \in ClientRecord
         /\ Credit(c, at).systems = c.systems /\ Credit(c, at).health = c.health
         /\ Credit(c, at).blocked = c.blocked
         /\ Earned(Credit(c, at), n)
<1>1. c.tokens \in Nat /\ c.refill \in Nat
  BY DEF ClientRecord
<1>2. CASE at < c.refill
  BY <1>2 DEF Credit
<1>3. CASE ~(at < c.refill)
  <2>1. at - c.refill \in Nat
    BY <1>1, <1>3
  <2>2. PICK b \in Nat : b = Batches(c, at)
    BY <2>1, Quotient DEF Batches
  <2>3. b * RlBatch \in Nat /\ b * RlBatchEvery \in Nat
    OBVIOUS
  <2>4. PICK t \in Nat, r \in Nat :
          /\ Credit(c, at) = [c EXCEPT !.tokens = t, !.refill = r]
          /\ t = RlBurst \/ t >= c.tokens
    <3>1. CASE c.tokens + b * RlBatch >= RlBurst
      <4>1. Credit(c, at) = [c EXCEPT !.tokens = RlBurst, !.refill = at + RlBatchEvery]
        BY <1>3, <2>2, <3>1 DEF Credit
      <4>2. PICK t \in Nat, r \in Nat : t = RlBurst /\ r = at + RlBatchEvery
        OBVIOUS
      <4>3. Credit(c, at) = [c EXCEPT !.tokens = t, !.refill = r]
        BY <4>1, <4>2
      <4>4. QED BY <4>2, <4>3
    <3>2. CASE ~(c.tokens + b * RlBatch >= RlBurst)
      <4>1. PICK t, r : t = c.tokens + b * RlBatch /\ r = c.refill + b * RlBatchEvery
        OBVIOUS
      <4>2. Credit(c, at) = [c EXCEPT !.tokens = t, !.refill = r]
        BY <1>3, <2>2, <3>2, <4>1 DEF Credit
      <4>3. t \in Nat /\ r \in Nat /\ t >= c.tokens
        BY <1>1, <2>3, <4>1
      <4>4. QED BY <4>2, <4>3
    <3>3. QED BY <3>1, <3>2
  <2>5. PICK d : d = Credit(c, at)
    OBVIOUS
  <2>6. /\ d \in ClientRecord /\ d.tokens = t
        /\ d.systems = c.systems /\ d.health = c.health
        /\ d.blocked = c.blocked /\ d.cause = c.cause
    <3>1. d = [c EXCEPT !.tokens = t, !.refill = r]
      BY Zenon, <2>4, <2>5
    <3>2. QED BY <3>1 DEF ClientRecord
  <2>7. t + n >= RlBurst
    BY <1>1, <2>4 DEF Earned
  <2>8. Earned(d, n)
    BY <2>6, <2>7 DEF Earned
  <2>9. QED BY <2>5, <2>6, <2>8
<1>4. QED BY <1>2, <1>3

\* What a check may do to a record that has paid for n requests before it.
Spends(c, k, n) ==
  /\ k.client \in ClientRecord
  /\ k.client.tokens = c.tokens /\ k.client.blocked = c.blocked /\ k.client.cause = c.cause
  /\ Cardinality(Seen(k.client.systems)) + Cardinality(k.client.health) <= n + 1
  /\ k.cause \in {NoCause, "systems", "health"}
  /\ k.cause = "systems" => n + 1 > SystemsMax
  /\ k.cause = "health" => n + 1 > HealthMax
  /\ k.block \in Nat

LEMMA ProbeSpends ==
  ASSUME NEW c \in ClientRecord, NEW at \in Nat, NEW s \in Systems, NEW n \in Nat,
         WindowKept(c.systems), IsFiniteSet(c.health),
         Cardinality(Seen(c.systems)) + Cardinality(c.health) <= n
  PROVE  Spends(c, CheckProbe(c, at, s), n)
<1>. DEFINE k == CheckProbe(c, at, s)
<1>1. PICK kept : kept = PrunedSystems(c, at)
  OBVIOUS
<1>2. kept \in [Systems -> Nat \cup {None}] /\ Seen(kept) \subseteq Seen(c.systems)
  BY <1>1 DEF ClientRecord, PrunedSystems, Seen
<1>3. PICK had \in Nat, have \in Nat, calls \in Nat :
        /\ had = Cardinality(Seen(c.systems)) /\ have = Cardinality(Seen(kept))
        /\ calls = Cardinality(c.health) /\ have <= had /\ IsFiniteSet(Seen(kept))
  BY <1>2, FS_Subset, FS_CardinalityType DEF WindowKept
<1>4. k.block \in Nat /\ k.cause \in {NoCause, "systems"}
  BY ProbeChecked
<1>5. PICK x \in [Systems -> Nat \cup {None}] :
        /\ k.client = [c EXCEPT !.systems = x]
        /\ Seen(x) \subseteq Seen(kept) \cup {s}
        /\ k.cause = "systems" => have >= SystemsMax
  <2>1. CASE kept[s] = None /\ Cardinality(Seen(kept)) >= SystemsMax
    <3>1. k.client = [c EXCEPT !.systems = kept]
      BY <1>1, <2>1 DEF CheckProbe
    <3>2. QED BY <1>2, <1>3, <2>1, <3>1
  <2>2. CASE ~(kept[s] = None /\ Cardinality(Seen(kept)) >= SystemsMax)
    <3>1. k.client = [c EXCEPT !.systems = [kept EXCEPT ![s] = at]] /\ k.cause = NoCause
      BY <1>1, <2>2 DEF CheckProbe
    <3>2. [kept EXCEPT ![s] = at] \in [Systems -> Nat \cup {None}]
      BY <1>2
    <3>3. Seen([kept EXCEPT ![s] = at]) \subseteq Seen(kept) \cup {s}
      BY <1>2 DEF Seen
    <3>4. QED BY <3>1, <3>2, <3>3, Distinct
  <2>3. QED BY <2>1, <2>2
<1>6. PICK d : d = k.client
  OBVIOUS
<1>7. /\ d \in ClientRecord /\ d.tokens = c.tokens /\ d.blocked = c.blocked
      /\ d.cause = c.cause /\ d.health = c.health /\ d.systems = x
  BY <1>5, <1>6 DEF ClientRecord
<1>8. Cardinality(Seen(x)) \in Nat /\ Cardinality(Seen(x)) <= have + 1
  <2>1. /\ IsFiniteSet(Seen(kept) \cup {s})
        /\ Cardinality(Seen(kept) \cup {s}) \in {have, have + 1}
    BY <1>3, FS_AddElement
  <2>2. /\ Cardinality(Seen(x)) \in Nat
        /\ Cardinality(Seen(x)) <= Cardinality(Seen(kept) \cup {s})
    BY <1>5, <2>1, Part
  <2>3. QED BY <1>3, <2>1, <2>2
<1>9. Cardinality(Seen(x)) + calls <= n + 1 /\ have <= n
  BY <1>3, <1>8
<1>10. k.cause = "systems" => n + 1 > SystemsMax
  BY <1>3, <1>5, <1>9
<1>11. k.cause # "health"
  BY <1>4, Distinct
<1>. HIDE DEF k
<1>12. /\ k.client \in ClientRecord /\ k.client.tokens = c.tokens
       /\ k.client.blocked = c.blocked /\ k.client.cause = c.cause
  BY <1>6, <1>7
<1>13. Cardinality(Seen(k.client.systems)) + Cardinality(k.client.health) <= n + 1
  BY <1>3, <1>6, <1>7, <1>9
<1>14. Spends(c, k, n)
  BY <1>4, <1>10, <1>11, <1>12, <1>13 DEF Spends
<1>15. QED BY <1>14 DEF k

LEMMA HealthSpends ==
  ASSUME NEW c \in ClientRecord, NEW at \in Nat, NEW n \in Nat,
         WindowKept(c.systems), IsFiniteSet(c.health),
         Cardinality(Seen(c.systems)) + Cardinality(c.health) <= n
  PROVE  Spends(c, CheckHealth(c, at), n)
<1>. DEFINE k == CheckHealth(c, at)
<1>1. PICK recent : recent = RecentHealth(c, at)
  OBVIOUS
<1>2. recent \in SUBSET c.health /\ c.health \in SUBSET (Nat \X Nat)
  BY <1>1 DEF RecentHealth, ClientRecord
<1>3. PICK had \in Nat, have \in Nat, seen \in Nat :
        /\ had = Cardinality(c.health) /\ have = Cardinality(recent)
        /\ seen = Cardinality(Seen(c.systems)) /\ have <= had /\ IsFiniteSet(recent)
  BY <1>2, FS_Subset, FS_CardinalityType DEF WindowKept
<1>4. Cardinality({h \in recent : h[1] = at}) \in Nat
  <2>1. {h \in recent : h[1] = at} \in SUBSET recent
    OBVIOUS
  <2>2. QED BY <1>3, <2>1, Part
<1>5. PICK health : health = recent \cup {<<at, Cardinality({h \in recent : h[1] = at})>>}
  OBVIOUS
<1>6. health \in SUBSET (Nat \X Nat)
  BY <1>2, <1>4, <1>5
<1>7. Cardinality(health) \in Nat /\ Cardinality(health) <= have + 1
  <2>1. PICK new : new = <<at, Cardinality({h \in recent : h[1] = at})>>
    OBVIOUS
  <2>2. health = recent \cup {new}
    BY <1>5, <2>1
  <2>3. Cardinality(health) \in {have, have + 1}
    BY <1>3, <2>2, FS_AddElement
  <2>4. QED BY <1>3, <2>3
<1>8. k = [client |-> [c EXCEPT !.health = health],
           cause |-> IF Cardinality(health) > HealthMax THEN "health" ELSE NoCause,
           block |-> Cooldown]
  BY <1>1, <1>5 DEF CheckHealth
<1>9. PICK d : d = [c EXCEPT !.health = health]
  OBVIOUS
<1>10. /\ d \in ClientRecord /\ d.tokens = c.tokens /\ d.blocked = c.blocked
       /\ d.cause = c.cause /\ d.health = health /\ d.systems = c.systems
  BY <1>6, <1>9 DEF ClientRecord
<1>11. k.client = d /\ k.block = Cooldown
       /\ k.cause = IF Cardinality(health) > HealthMax THEN "health" ELSE NoCause
  BY <1>8, <1>9
<1>12. seen + Cardinality(health) <= n + 1 /\ Cardinality(health) <= n + 1
  BY <1>3, <1>7
<1>. HIDE DEF k
<1>13. k.cause = "health" => n + 1 > HealthMax
  BY <1>7, <1>11, <1>12, Distinct
<1>14. k.cause # "systems"
  BY <1>11, Distinct
<1>15. k.cause \in {NoCause, "systems", "health"} /\ k.block \in Nat
  BY <1>11
<1>16. /\ k.client \in ClientRecord /\ k.client.tokens = c.tokens
       /\ k.client.blocked = c.blocked /\ k.client.cause = c.cause
  BY <1>10, <1>11
<1>17. Cardinality(Seen(k.client.systems)) + Cardinality(k.client.health) <= n + 1
  BY <1>3, <1>10, <1>11, <1>12
<1>18. Spends(c, k, n)
  BY <1>13, <1>14, <1>15, <1>16, <1>17 DEF Spends
<1>19. QED BY <1>18 DEF k

\* A request that is admitted has paid for what it leaves, and one that is
\* refused was preceded by those that used the limit up.
LEMMA AdmitEarns ==
  ASSUME IInv, AllEarned, NEW at \in ClockReads, NEW ip \in Clients, NEW target \in Targets,
         Admit(ip, at, target), NEW e \in Ips, e = EntryOf(ip)
  PROVE  /\ e \in Kept' /\ Earned(clients'[e], charged'[e])
         /\ \A i \in Ips : i # e => clients'[i] = clients[i] /\ charged'[i] = charged[i]
         /\ told'[ip].wait > 0 =>
              told'[ip].cause # NoCause /\ charged'[e] >= Limit(told'[ip].cause)
<1>1. PICK c, n : c = Noted(e, at) /\ n = charged[e]
  OBVIOUS
<1>2. c \in ClientRecord /\ WindowKept(c.systems) /\ IsFiniteSet(c.health)
  BY <1>1, NotedIsKept DEF ListKept
<1>3. Earned(c, n) /\ n \in Nat
  BY <1>1, NotedEarned
<1>4. PICK d : d = Credited(ip, at)
  OBVIOUS
<1>5. at \in Nat /\ told \in [Clients -> Told] /\ charged \in [Ips -> Nat] /\ DOMAIN clients = Ips
  BY Clock DEF IInv, TypeOK
<1>6. /\ d \in ClientRecord /\ d.systems = c.systems /\ d.health = c.health
      /\ d.blocked = c.blocked /\ Earned(d, n)
  BY <1>1, <1>2, <1>3, <1>4, <1>5, CreditEarns DEF Credited
\* What is kept, whatever it is.
<1>7. ASSUME NEW r \in ClientRecord, NEW charge \in Nat, Keep(e, r, at, charge)
      PROVE  /\ e \in Kept' /\ clients'[e] = r /\ charged'[e] = n + charge
             /\ \A i \in Ips : i # e => clients'[i] = clients[i] /\ charged'[i] = charged[i]
  BY <1>1, <1>5, <1>7, NoneAssumption DEF Keep, Kept
<1>8. CASE AdmitBlocked(ip, at, target)
  <2>1. /\ Keep(e, c, at, 0) /\ at < c.blocked
        /\ told'[ip].cause = c.cause
    BY <1>1, <1>5, <1>8 DEF AdmitBlocked, Tell
  <2>2. c.blocked > 0 /\ c.blocked \in Nat
    BY <1>2, <1>5, <2>1 DEF ClientRecord
  <2>3. c.cause # NoCause /\ n >= Limit(c.cause)
    BY <1>3, <2>2 DEF Earned, Limit
  <2>4. n + 0 = n
    BY <1>3
  <2>5. QED BY <1>2, <1>3, <1>7, <2>1, <2>3, <2>4
<1>9. CASE AdmitNoToken(ip, at, target)
  <2>1. Keep(e, d, at, 0) /\ d.tokens < 1 /\ told'[ip].cause = "rate"
    BY <1>4, <1>5, <1>9 DEF AdmitNoToken, Tell
  <2>2. n >= RlBurst /\ n + 0 = n
    BY <1>3, <1>6, <2>1 DEF Earned, ClientRecord
  <2>3. "rate" # NoCause /\ Limit("rate") = RlBurst
    BY Distinct DEF Limit
  <2>4. QED BY <1>6, <1>7, <2>1, <2>2, <2>3
<1>10. PICK p, k : p = [d EXCEPT !.tokens = @ - 1] /\ k = Checked(ip, at, target)
  OBVIOUS
<1>11. ASSUME d.tokens >= 1
       PROVE  Spends(p, k, n) /\ p.tokens + (n + 1) >= RlBurst /\ p.blocked = d.blocked /\ p.cause = d.cause
  <2>1. PICK t \in Nat : d.tokens = t + 1
    <3>1. d.tokens - 1 \in Nat /\ d.tokens = (d.tokens - 1) + 1
      BY <1>6, <1>11 DEF ClientRecord
    <3>2. QED BY <3>1
  <2>2. p = [d EXCEPT !.tokens = t]
    BY <1>10, <2>1
  <2>3. /\ p \in ClientRecord /\ p.tokens = t /\ p.systems = d.systems /\ p.health = d.health
        /\ p.blocked = d.blocked /\ p.cause = d.cause
    BY <1>6, <2>2 DEF ClientRecord
  <2>4. /\ WindowKept(p.systems) /\ IsFiniteSet(p.health)
        /\ Cardinality(Seen(p.systems)) + Cardinality(p.health) <= n
    <3>1. Cardinality(Seen(d.systems)) + Cardinality(d.health) <= n
      BY <1>6 DEF Earned
    <3>2. QED BY <1>2, <1>6, <2>3, <3>1
  <2>5. k = IF target = Health THEN CheckHealth(p, at) ELSE CheckProbe(p, at, target)
    BY <1>4, <1>10 DEF Checked, Check
  <2>6. Spends(p, k, n)
    <3>1. CASE target = Health
      BY <1>3, <1>5, <2>3, <2>4, <2>5, <3>1, HealthSpends
    <3>2. CASE target # Health
      <4>1. target \in Systems
        BY <3>2 DEF Targets
      <4>2. QED BY <1>3, <1>5, <2>3, <2>4, <2>5, <3>2, <4>1, ProbeSpends
    <3>3. QED BY <3>1, <3>2
  <2>7. p.tokens + (n + 1) >= RlBurst
    BY <1>3, <1>6, <2>1, <2>3 DEF Earned
  <2>8. QED BY <2>3, <2>6, <2>7
<1>12. CASE AdmitOverLimit(ip, at, target)
  <2>1. PICK f, until, cause : f = k.client /\ until = at + k.block /\ cause = k.cause
    OBVIOUS
  <2>2. PICK r : r = [f EXCEPT !.blocked = until, !.cause = cause]
    OBVIOUS
  <2>3. /\ d.tokens >= 1 /\ cause # NoCause /\ Keep(e, r, at, 1)
        /\ told'[ip].cause = cause
    BY <1>4, <1>5, <1>10, <1>12, <2>1, <2>2 DEF AdmitOverLimit, Tell
  <2>4. Spends(p, k, n) /\ p.tokens + (n + 1) >= RlBurst
    BY <1>11, <2>3
  <2>5. /\ f \in ClientRecord /\ until \in Nat /\ f.tokens = p.tokens
        /\ cause \in {"systems", "health"} /\ cause \in Causes
        /\ Cardinality(Seen(f.systems)) + Cardinality(f.health) <= n + 1
        /\ cause = "systems" => n + 1 > SystemsMax
        /\ cause = "health" => n + 1 > HealthMax
    BY <1>5, <2>1, <2>3, <2>4 DEF Spends, Causes
  <2>6. /\ r \in ClientRecord /\ r.blocked = until /\ r.cause = cause
        /\ r.tokens = f.tokens /\ r.systems = f.systems /\ r.health = f.health
    BY <2>2, <2>5 DEF ClientRecord
  <2>7. Earned(r, n + 1)
    BY <2>3, <2>4, <2>5, <2>6 DEF Earned
  <2>8. n + 1 >= Limit(cause)
    BY <1>3, <2>5 DEF Limit
  <2>9. QED BY <1>7, <2>3, <2>6, <2>7, <2>8
<1>13. CASE AdmitGranted(ip, at, target)
  <2>1. PICK r : r = k.client
    OBVIOUS
  <2>2. /\ d.tokens >= 1 /\ Keep(e, r, at, 1) /\ told'[ip] = NotTold
    BY <1>4, <1>5, <1>10, <1>13, <2>1 DEF AdmitGranted
  <2>3. /\ Spends(p, k, n) /\ p.tokens + (n + 1) >= RlBurst
        /\ p.blocked = d.blocked /\ p.cause = d.cause
    BY <1>11, <2>2
  <2>4. /\ r \in ClientRecord /\ r.tokens = p.tokens /\ r.blocked = d.blocked /\ r.cause = d.cause
        /\ Cardinality(Seen(r.systems)) + Cardinality(r.health) <= n + 1
    BY <2>1, <2>3 DEF Spends
  <2>5. Earned(r, n + 1)
    BY <1>3, <1>6, <2>3, <2>4 DEF Earned
  <2>6. ~(told'[ip].wait > 0)
    BY <2>2 DEF NotTold
  <2>7. QED BY <1>7, <2>2, <2>4, <2>5, <2>6
<1>14. QED BY <1>8, <1>9, <1>12, <1>13 DEF Admit

LEMMA EarnedStep == IInv /\ AllEarned /\ [Next]_vars => AllEarned'
<1>. SUFFICES ASSUME IInv, AllEarned, [Next]_vars PROVE AllEarned'
  OBVIOUS
<1>1. ASSUME NEW at \in ClockReads, NEW ip \in Clients, NEW target \in Targets,
             Admit(ip, at, target)
      PROVE  AllEarned'
  <2>1. PICK e \in Ips : e = EntryOf(ip)
    BY EntryIsIp
  <2>2. /\ Earned(clients'[e], charged'[e])
        /\ \A i \in Ips : i # e => clients'[i] = clients[i] /\ charged'[i] = charged[i]
    BY <1>1, <2>1, AdmitEarns
  <2>3. ASSUME NEW i \in Kept' PROVE Earned(clients'[i], charged'[i])
    <3>1. CASE i = e
      BY <2>2, <3>1
    <3>2. CASE i # e
      <4>1. i \in Kept /\ clients'[i] = clients[i] /\ charged'[i] = charged[i]
        BY <2>2, <3>2 DEF Kept
      <4>2. QED BY <4>1 DEF AllEarned
    <3>3. QED BY <3>1, <3>2
  <2>4. QED BY <2>3 DEF AllEarned, Earned, Seen
<1>2. ASSUME NEW at \in ClockReads, Sweep(at) PROVE AllEarned'
  <2>1. PICK dropped :
          /\ clients' = [ip \in Ips |-> IF ip \in dropped THEN None ELSE clients[ip]]
          /\ charged' = [ip \in Ips |-> IF ip \in dropped THEN 0 ELSE charged[ip]]
    BY <1>2 DEF Sweep
  <2>2. ASSUME NEW i \in Kept' PROVE Earned(clients'[i], charged'[i])
    <3>1. i \in Kept /\ clients'[i] = clients[i] /\ charged'[i] = charged[i]
      BY <2>1 DEF Kept
    <3>2. QED BY <3>1 DEF AllEarned
  <2>3. QED BY <2>2 DEF AllEarned, Earned, Seen
<1>3. CASE Tick \/ UNCHANGED vars
  <2>1. clients' = clients /\ charged' = charged
    BY <1>3 DEF Tick, vars
  <2>2. QED BY <2>1 DEF AllEarned, Earned, Seen, Kept
<1>4. QED BY <1>1, <1>2, <1>3 DEF Next

\* Nobody is refused early, whatever the order of the clock readings, and
\* whatever the entry has been through: who is told of the budget has an entry
\* that paid for RlBurst requests at least since it was made, who is told of the
\* systems or the health limit for one more than that limit, and nobody is told
\* without a reason.
THEOREM RefusedForCause ==
  Spec => [][\A at \in ClockReads, ip \in Clients, target \in Targets :
               Admit(ip, at, target) /\ told'[ip].wait > 0 =>
                 /\ told'[ip].cause # NoCause
                 /\ charged'[EntryOf(ip)] >= Limit(told'[ip].cause)]_vars
<1>. DEFINE ForCause ==
       \A at \in ClockReads, ip \in Clients, target \in Targets :
         Admit(ip, at, target) /\ told'[ip].wait > 0 =>
           /\ told'[ip].cause # NoCause
           /\ charged'[EntryOf(ip)] >= Limit(told'[ip].cause)
<1>1. Init => AllEarned
  BY DEF Init, AllEarned, Kept
<1>2. IInv /\ AllEarned => ForCause
  <2>. SUFFICES ASSUME IInv, AllEarned, NEW at \in ClockReads, NEW ip \in Clients,
                       NEW target \in Targets, Admit(ip, at, target), told'[ip].wait > 0
                PROVE  /\ told'[ip].cause # NoCause
                       /\ charged'[EntryOf(ip)] >= Limit(told'[ip].cause)
    OBVIOUS
  <2>1. EntryOf(ip) \in Ips
    BY EntryIsIp
  <2>2. QED BY <2>1, AdmitEarns
<1>3. IInv /\ AllEarned /\ [Next]_vars => AllEarned'
  BY EarnedStep
<1>. HIDE DEF ForCause
<1>4. IInv /\ AllEarned => [ForCause]_vars
  BY <1>2
<1>5. Spec => [][ForCause]_vars
  BY <1>1, <1>3, <1>4, AlwaysIInv, PTL DEF Spec
<1>6. QED BY <1>5 DEF ForCause
=============================================================================
