------------------------------ MODULE Limiter ------------------------------
(***************************************************************************)
(* The per-client limits of the backend (limiter): the running block, the  *)
(* request budget, the sliding window of systems, the health limit, the    *)
(* overflow entry of a full client table, and the sweep.                   *)
(*                                                                         *)
(* admit reads the clock before it takes the mutex, so a request can be    *)
(* charged with a time that lies before that of a request charged earlier. *)
(* The actions take a time at of up to MaxSkew before now; everything      *)
(* between mu.Lock and mu.Unlock is one step.                              *)
(***************************************************************************)
EXTENDS Integers, FiniteSets, FiniteSetsExt

CONSTANTS
  Clients,        \* client keys: an IPv4 address or an IPv6 /64
  Overflow,       \* overflowClient, the key new clients share in a full table
  Systems,        \* the systems clients ask about
  Health,         \* stands for a /health request where a system is expected
  None,           \* nil
  Second,         \* clock ticks in a second
  ClientsMax,     \* clientsMax, 10000
  RlBurst,        \* rlBurst, 16
  RlBatch,        \* rlBatch, 4
  RlBatchEvery,   \* rlBatchEvery, 7 s, in ticks like all that follow
  SystemsMax,     \* systemsMax, 8
  SystemsWindow,  \* systemsWindow, 60 s
  HealthMax,      \* healthMax, 4
  HealthInterval, \* healthInterval, 7 s
  Cooldown,       \* cooldown, 60 s
  ClientIdle,     \* clientIdle, 120 s
  MaxSkew,        \* the longest wait between reading the clock and the mutex
  MaxTime         \* bound of the model: the clock stops here

\* The code's values with a skew of up to 30 seconds satisfy all of it.
ASSUME LimiterAssumption ==
  /\ Overflow \notin Clients
  /\ None \notin Clients \cup {Overflow}
  /\ Health \notin Systems
  /\ {Second, ClientsMax, RlBurst, RlBatch, RlBatchEvery, SystemsMax, HealthMax,
      HealthInterval, SystemsWindow, Cooldown, ClientIdle} \subseteq Nat \ {0}
  /\ {MaxSkew, MaxTime} \subseteq Nat
  \* Every block outlasts a batch, and a health block the health interval.
  /\ Cooldown >= RlBatchEvery + MaxSkew
  /\ Cooldown >= HealthInterval + MaxSkew
  \* An idle client has a full bucket, an empty window and no block.
  /\ ClientIdle >= SystemsWindow + 2 * MaxSkew
  /\ ClientIdle >= Cooldown + 2 * MaxSkew
  /\ ClientIdle >= HealthInterval + 2 * MaxSkew
  /\ ((ClientIdle - 2 * MaxSkew) \div RlBatchEvery) * RlBatch >= RlBurst

VARIABLES
  now,      \* the monotonic clock
  clients,  \* limiter.clients
  told,     \* history: the last request of each client, if it was refused
  born,     \* history: when each entry was made
  charged,  \* history: the requests each entry paid for since
  overtaken \* history: the entries charged with an older time after a later one

vars == <<now, clients, told, born, charged, overtaken>>

Ips == Clients \cup {Overflow}
Targets == Systems \cup {Health}

\* The zero Time of the code: nothing is blocked before the first block; and
\* the cause of a request within its limits.
NeverBlocked == 0
NoCause == ""

NewClient(at) ==
  [tokens |-> RlBurst, refill |-> at + RlBatchEvery, last |-> at,
   systems |-> [s \in Systems |-> None], health |-> {},
   blocked |-> NeverBlocked, cause |-> NoCause]

Causes == {NoCause, "rate", "systems", "health"}

\* systems has the time of the latest check of each system in the map; health
\* is the list of the times of recent health requests, as pairs of a time and
\* the number of equal times before it in the list.
ClientRecord ==
  [tokens : Nat, refill : Nat, last : Nat,
   systems : [Systems -> Nat \cup {None}],
   health : SUBSET (Nat \X Nat),
   blocked : Nat, cause : Causes]

\* nil is no record.
ASSUME NoneAssumption == None \notin ClientRecord

Told == [target : Targets, at : Nat, wait : Nat, cause : Causes]
NotTold == [target |-> Health, at |-> 0, wait |-> 0, cause |-> NoCause]

TypeOK ==
  /\ now \in Nat
  /\ \A ip \in Ips : clients[ip] = None \/ clients[ip] \in ClientRecord
  /\ DOMAIN clients = Ips
  /\ told \in [Clients -> Told]
  /\ born \in [Ips -> Nat]
  /\ charged \in [Ips -> Nat]
  /\ overtaken \in SUBSET Ips

Init ==
  /\ now = 0
  /\ clients = [ip \in Ips |-> None]
  /\ told = [c \in Clients |-> NotTold]
  /\ born = [ip \in Ips |-> 0]
  /\ charged = [ip \in Ips |-> 0]
  /\ overtaken = {}

-----------------------------------------------------------------------------
Kept == {ip \in Ips : clients[ip] # None}
TableFullOneLater == Cardinality(Kept) > ClientsMax  \* seeded fault
TableFull == Cardinality(Kept) >= ClientsMax

\* The entry a request of c is charged to.
EntryOf(c) == IF clients[c] = None /\ TableFull THEN Overflow ELSE c

\* The client's record once the request is noted.
Noted(ip, at) ==
  IF clients[ip] = None THEN NewClient(at) ELSE [clients[ip] EXCEPT !.last = at]

\* Every batch due since the last one is credited.  A full bucket restarts
\* the clock.
Batches(c, at) == ((at - c.refill) \div RlBatchEvery) + 1

\* Seeded fault: the clock advances by one batch only.
CreditOneStep(c, at) ==
  IF at < c.refill THEN c
  ELSE [c EXCEPT !.tokens = Min({RlBurst, @ + Batches(c, at) * RlBatch}),
                 !.refill = @ + RlBatchEvery]

Credit(c, at) ==
  IF at < c.refill THEN c
  ELSE IF c.tokens + Batches(c, at) * RlBatch >= RlBurst
         THEN [c EXCEPT !.tokens = RlBurst, !.refill = at + RlBatchEvery]
         ELSE [c EXCEPT !.tokens = @ + Batches(c, at) * RlBatch,
                        !.refill = @ + Batches(c, at) * RlBatchEvery]

\* The limits of the two endpoints: the record after the check, and how long
\* the request blocks the client, 0 when it breaks no limit.
PrunedSystems(c, at) ==
  [s \in Systems |-> IF c.systems[s] # None /\ at - c.systems[s] > SystemsWindow
                       THEN None ELSE c.systems[s]]

Seen(systems) == {s \in Systems : systems[s] # None}

\* Seeded fault: one system more than the limit.
CheckProbeOneMore(c, at, s) ==
  LET kept == PrunedSystems(c, at)
  IN IF kept[s] = None /\ Cardinality(Seen(kept)) > SystemsMax
       THEN [client |-> [c EXCEPT !.systems = kept], cause |-> "systems",
             block |-> RlBatchEvery]
       ELSE [client |-> [c EXCEPT !.systems = [kept EXCEPT ![s] = at]],
             cause |-> NoCause, block |-> 0]

CheckProbe(c, at, s) ==
  LET kept == PrunedSystems(c, at)
      oldest == Min({kept[x] : x \in Seen(kept)} \cup {at})
  IN IF kept[s] = None /\ Cardinality(Seen(kept)) >= SystemsMax
       THEN [client |-> [c EXCEPT !.systems = kept], cause |-> "systems",
             block |-> Max({oldest + SystemsWindow - at, RlBatchEvery})]
       ELSE [client |-> [c EXCEPT !.systems = [kept EXCEPT ![s] = at]],
             cause |-> NoCause, block |-> 0]

RecentHealth(c, at) == {h \in c.health : at - h[1] < HealthInterval}

CheckHealth(c, at) ==
  LET recent == RecentHealth(c, at)
      health == recent \cup {<<at, Cardinality({h \in recent : h[1] = at})>>}
  IN [client |-> [c EXCEPT !.health = health],
      cause  |-> IF Cardinality(health) > HealthMax THEN "health" ELSE NoCause,
      block  |-> Cooldown]

Check(c, at, target) ==
  IF target = Health THEN CheckHealth(c, at) ELSE CheckProbe(c, at, target)

SecondsUntilRounded(t, at) == Max({1, (t - at) \div Second})  \* seeded fault

\* Retry-After, in seconds.
SecondsUntil(t, at) == Max({1, (t - at) \div Second + 1})

Tell(c, target, at, wait, cause) ==
  told' = [told EXCEPT ![c] = [target |-> target, at |-> at, wait |-> wait, cause |-> cause]]

\* The entry's new record; charge is what the request takes from its bucket.
Keep(ip, c, at, charge) ==
  /\ clients' = [clients EXCEPT ![ip] = c]
  /\ born' = IF clients[ip] = None THEN [born EXCEPT ![ip] = at] ELSE born
  /\ charged' = [charged EXCEPT ![ip] = @ + charge]
  /\ overtaken' = IF clients[ip] # None /\ at < clients[ip].last
                    THEN overtaken \cup {ip} ELSE overtaken

-----------------------------------------------------------------------------
\* The four ways through admit, for a request of client ip about a target.
AdmitBlocked(ip, at, target) ==
  LET c == Noted(EntryOf(ip), at) IN
  /\ at < c.blocked
  /\ Keep(EntryOf(ip), c, at, 0)
  /\ Tell(ip, target, at, SecondsUntil(c.blocked, at), c.cause)
  /\ UNCHANGED now

\* The record of a client that no block stops, its batches credited.
Credited(ip, at) == Credit(Noted(EntryOf(ip), at), at)

AdmitNoToken(ip, at, target) ==
  LET c == Credited(ip, at) IN
  /\ at >= c.blocked
  /\ c.tokens < 1
  /\ Keep(EntryOf(ip), c, at, 0)
  /\ Tell(ip, target, at, SecondsUntil(c.refill, at), "rate")
  /\ UNCHANGED now

\* The check after the token is taken.
Checked(ip, at, target) ==
  LET c == Credited(ip, at) IN Check([c EXCEPT !.tokens = @ - 1], at, target)

\* Seeded fault: a running block is not looked at.
AdmitOverLimitBlockedOrNot(ip, at, target) ==
  LET check == Checked(ip, at, target) IN
  /\ Credited(ip, at).tokens >= 1
  /\ check.cause # NoCause
  /\ Keep(EntryOf(ip),
          [check.client EXCEPT !.blocked = at + check.block, !.cause = check.cause], at, 1)
  /\ Tell(ip, target, at, SecondsUntil(at + check.block, at), check.cause)
  /\ UNCHANGED now

AdmitOverLimit(ip, at, target) ==
  LET check == Checked(ip, at, target) IN
  /\ at >= Credited(ip, at).blocked
  /\ Credited(ip, at).tokens >= 1
  /\ check.cause # NoCause
  /\ Keep(EntryOf(ip),
          [check.client EXCEPT !.blocked = at + check.block, !.cause = check.cause], at, 1)
  /\ Tell(ip, target, at, SecondsUntil(at + check.block, at), check.cause)
  /\ UNCHANGED now

\* Seeded fault: a token is taken that is not there.
AdmitGrantedNoToken(ip, at, target) ==
  LET check == Checked(ip, at, target) IN
  /\ at >= Credited(ip, at).blocked
  /\ check.cause = NoCause
  /\ Keep(EntryOf(ip), check.client, at, 1)
  /\ told' = [told EXCEPT ![ip] = NotTold]
  /\ UNCHANGED now

AdmitGranted(ip, at, target) ==
  LET check == Checked(ip, at, target) IN
  /\ at >= Credited(ip, at).blocked
  /\ Credited(ip, at).tokens >= 1
  /\ check.cause = NoCause
  /\ Keep(EntryOf(ip), check.client, at, 1)
  /\ told' = [told EXCEPT ![ip] = NotTold]
  /\ UNCHANGED now

\* What a request may have read before it got the mutex.
ClockReads == Max({0, now - MaxSkew}) .. now

Admit(ip, at, target) ==
  \/ AdmitBlocked(ip, at, target)
  \/ AdmitNoToken(ip, at, target)
  \/ AdmitOverLimit(ip, at, target)
  \/ AdmitGranted(ip, at, target)

\* sweep, with a clock read before the mutex too.
IdleUnblocked(c, at) == at > c.blocked  \* seeded fault
Idle(c, at) == at - c.last > ClientIdle /\ at > c.blocked

Sweep(at) ==
  LET dropped == {ip \in Kept : Idle(clients[ip], at)} IN
  /\ dropped # {}
  /\ clients' = [ip \in Ips |-> IF ip \in dropped THEN None ELSE clients[ip]]
  /\ born' = [ip \in Ips |-> IF ip \in dropped THEN 0 ELSE born[ip]]
  /\ charged' = [ip \in Ips |-> IF ip \in dropped THEN 0 ELSE charged[ip]]
  /\ overtaken' = overtaken \ dropped
  /\ UNCHANGED <<now, told>>

Tick ==
  /\ now < MaxTime
  /\ now' = now + 1
  /\ UNCHANGED <<clients, told, born, charged, overtaken>>

Next ==
  \/ \E at \in ClockReads :
       \/ \E ip \in Clients, target \in Targets : Admit(ip, at, target)
       \/ Sweep(at)
  \/ Tick

Spec == Init /\ [][Next]_vars

-----------------------------------------------------------------------------
(***************************************************************************)
(* Properties.                                                             *)
(***************************************************************************)

\* The request budget of docs/api.md: an entry is charged for RlBurst requests
\* and RlBatch more for every RlBatchEvery since it was made, whatever the
\* order of the clock readings, and however often the bucket is full, empty
\* or credited for several batches at once.
BudgetHeld ==
  \A ip \in Kept :
    RlBatchEvery * (charged[ip] - RlBurst) <= RlBatch * (now - born[ip])

\* The sliding window and the health list of an entry stay within their
\* limits, one health request above at most.
WindowsBounded ==
  \A ip \in Kept :
    /\ Cardinality(Seen(clients[ip].systems)) <= SystemsMax
    /\ Cardinality(clients[ip].health) <= HealthMax + 1

\* The table holds ClientsMax clients at most, and the shared entry.
TableBounded == Cardinality(Kept \ {Overflow}) <= ClientsMax

\* A later request never takes a block or a due batch further back, though its
\* clock reading may be the older one.
NothingMovesBack ==
  [][\A ip \in Ips : (clients[ip] # None /\ clients'[ip] # None) =>
       /\ clients'[ip].refill >= clients[ip].refill
       /\ clients'[ip].blocked >= clients[ip].blocked]_vars

\* Retry-After is a promise: a client with an entry of its own that was refused
\* and asks again no earlier than it was told is not refused for its budget or
\* a running block, and a probe refused for its systems, or a health request
\* refused for the health limit, is granted.  Requests of one client that
\* overtook each other between clock and mutex are excepted.
LimitOf(target) == IF target = Health THEN "health" ELSE "systems"

RetryHonoured ==
  \A c \in Clients : (clients[c] # None /\ told[c].wait > 0 /\ c \notin overtaken) =>
    LET due == told[c].at + told[c].wait * Second IN
    \A at \in due .. due + RlBatchEvery :
      /\ at >= clients[c].blocked
      /\ Credited(c, at).tokens >= 1
      /\ told[c].cause = LimitOf(told[c].target) => Checked(c, at, told[c].target).cause = NoCause

\* What sweep says of the clients it drops: "They would be treated exactly
\* like new ones."  Whenever such a client came back, its bucket would be
\* full, its window and health list empty, its block over.
LikeNew(c, at) ==
  /\ Credit(c, at).tokens = RlBurst
  /\ Credit(c, at).refill = at + RlBatchEvery
  /\ Seen(PrunedSystems(c, at)) = {}
  /\ RecentHealth(c, at) = {}
  /\ at >= c.blocked

SweepIsNeutral ==
  [][\A ip \in Kept : clients'[ip] = None =>
       \A at \in now - MaxSkew .. now + RlBatchEvery : LikeNew(clients[ip], at)]_vars
=============================================================================
