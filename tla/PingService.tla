---------------------------- MODULE PingService ----------------------------
(***************************************************************************)
(* The part of a /ping request that follows admission: the name lookup     *)
(* under an in-flight slot, the result cache that coalesces identical      *)
(* probes (probeCache.get), the probe under a slot, the store, and the     *)
(* sweep of the ticker goroutine.                                          *)
(*                                                                         *)
(* A request is one HTTP handler goroutine.  A cacheEntry has no name in   *)
(* the code but its address; every entry is made by exactly one request,   *)
(* so the entry is named by the request that inserted it, its owner.       *)
(*                                                                         *)
(* Atomicity.  Whatever probeCache.get does between mu.Lock and mu.Unlock  *)
(* is one step, the probe closure runs between steps, and a waiter's       *)
(* select is a step of its own.  A select with two ready cases picks       *)
(* either: both actions are enabled.                                       *)
(***************************************************************************)
EXTENDS Integers, FiniteSets

CONSTANTS
  Requests,     \* the handler goroutines; each serves one request
  Keys,         \* edition|ip|port|label|id
  None,         \* nil
  MaxInFlight,  \* maxInFlight, 128
  CacheMax,     \* cacheMax, 10000
  CacheTTL,     \* cacheTTL, 60 s
  PingTimeout,  \* pingTimeout, 6 s
  MaxStray,     \* bound of the model: SRV lookups left behind at a time
  MaxTime       \* bound of the model: the clock stops here

ASSUME ConstantsAssumption ==
  /\ IsFiniteSet(Requests)
  /\ IsFiniteSet(Keys)
  /\ None \notin Requests \cup Keys
  /\ None \notin [res : {"busy", "probed"}, at : Nat]
  /\ MaxInFlight \in Nat \ {0}
  /\ CacheMax \in Nat \ {0}
  /\ CacheTTL \in Nat \ {0}
  /\ PingTimeout \in Nat \ {0}
  /\ MaxStray \in Nat
  /\ MaxTime \in Nat

VARIABLES
  now,       \* the monotonic clock
  pc,        \* where each handler is
  key,       \* the cache key it computed
  deadline,  \* when the context of its probe ends
  m,         \* probeCache.m: key -> entry, named by its owner
  entry,     \* the entry each request inserted, also once out of m
  owners,    \* the requests that inserted an entry
  waitsOn,   \* the entry whose ready channel a coalesced request waits for
  result,    \* what the probe closure returned to the request
  inFlight,  \* how many tokens the inFlight channel holds
  stray,     \* SRV lookups left to finish on their own
  answer     \* what was written to the client

vars == <<now, pc, key, deadline, m, entry, owners, waitsOn, result,
          inFlight, stray, answer>>

(***************************************************************************)
(* "new"    before the handler                                             *)
(* "lookup" name lookup, a slot held                                       *)
(* "get"    key known, about to lock the cache                             *)
(* "wait"   coalesced, waits for another request's entry                   *)
(* "slot"   in the probe closure, before acquireSlot                       *)
(* "probe"  ping runs, a slot held                                         *)
(* "store"  the closure returned to get, which is about to lock again      *)
(* "done"   answered                                                       *)
(***************************************************************************)
PCs == {"new", "lookup", "get", "wait", "slot", "probe", "store", "done"}

Results == {"busy", "probed"}
Entry == [ready : BOOLEAN, res : Results \cup {None}, at : Nat]
NoEntry == [ready |-> FALSE, res |-> None, at |-> 0]

\* An answer names the request whose probe it tells of.  "offline" is the
\* timeout a waiter reports when its own context ends first.
AnswerKinds == {"none", "busy", "dns", "fresh", "cached", "offline"}
Answer == [kind : AnswerKinds, of : Requests \cup {None}]
NoAnswer == [kind |-> "none", of |-> None]

TypeOK ==
  /\ now \in Nat
  /\ pc \in [Requests -> PCs]
  /\ key \in [Requests -> Keys \cup {None}]
  /\ deadline \in [Requests -> Nat]
  /\ m \in [Keys -> Requests \cup {None}]
  /\ entry \in [Requests -> Entry]
  /\ owners \in SUBSET Requests
  /\ waitsOn \in [Requests -> Requests \cup {None}]
  /\ result \in [Requests -> Results \cup {None}]
  /\ inFlight \in Nat
  /\ stray \in SUBSET Requests
  /\ answer \in [Requests -> Answer]

Init ==
  /\ now = 0
  /\ pc = [r \in Requests |-> "new"]
  /\ key = [r \in Requests |-> None]
  /\ deadline = [r \in Requests |-> 0]
  /\ m = [k \in Keys |-> None]
  /\ entry = [r \in Requests |-> NoEntry]
  /\ owners = {}
  /\ waitsOn = [r \in Requests |-> None]
  /\ result = [r \in Requests |-> None]
  /\ inFlight = 0
  /\ stray = {}
  /\ answer = [r \in Requests |-> NoAnswer]

-----------------------------------------------------------------------------
Goto(r, from, to) == pc[r] = from /\ pc' = [pc EXCEPT ![r] = to]

Reply(r, kind, of) ==
  answer' = [answer EXCEPT ![r] = [kind |-> kind, of |-> of]]

\* acquireSlot sends on the buffered channel or gives up at once.
SlotFree == inFlight < MaxInFlight
AcquireSlot == SlotFree /\ inFlight' = inFlight + 1
ReleaseSlotTwice == inFlight' = inFlight - 2   \* seeded fault
ReleaseSlot == inFlight' = inFlight - 1

\* The handler has an address: it makes the probe's context and the key.
MakeKey(r) ==
  /\ deadline' = [deadline EXCEPT ![r] = now + PingTimeout]
  /\ \E k \in Keys : key' = [key EXCEPT ![r] = k]

cacheVars == <<m, entry, owners, waitsOn, result>>

\* A request with a literal address needs no lookup.
HandleLiteral(r) ==
  /\ Goto(r, "new", "get")
  /\ MakeKey(r)
  /\ UNCHANGED <<now, cacheVars, inFlight, stray, answer>>

\* A request with a host takes a slot for the lookup ...
HandleHost(r) ==
  /\ Goto(r, "new", "lookup")
  /\ AcquireSlot
  /\ UNCHANGED <<now, key, deadline, cacheVars, stray, answer>>

\* ... or is turned away.
HandleHostBusy(r) ==
  /\ Goto(r, "new", "done")
  /\ ~SlotFree
  /\ Reply(r, "busy", r)
  /\ UNCHANGED <<now, key, deadline, cacheVars, inFlight, stray>>

\* The resolver did not stop at srvTimeout: after srvWait lookupSRV leaves
\* its goroutine behind and the handler goes on to the address lookup.
LeaveSRV(r) ==
  /\ pc[r] = "lookup"
  /\ r \notin stray
  /\ Cardinality(stray) < MaxStray
  /\ stray' = stray \cup {r}
  /\ UNCHANGED <<now, pc, key, deadline, cacheVars, inFlight, answer>>

\* The abandoned goroutine ends, its channel is buffered.
StrayEnds(r) ==
  /\ r \in stray
  /\ stray' = stray \ {r}
  /\ UNCHANGED <<now, pc, key, deadline, cacheVars, inFlight, answer>>

LookupFound(r) ==
  /\ Goto(r, "lookup", "get")
  /\ ReleaseSlot
  /\ MakeKey(r)
  /\ UNCHANGED <<now, cacheVars, stray, answer>>

\* Seeded fault: the early return of a failed lookup keeps the slot.
LookupFailedKeepsSlot(r) ==
  /\ Goto(r, "lookup", "done")
  /\ Reply(r, "dns", r)
  /\ UNCHANGED <<now, key, deadline, cacheVars, inFlight, stray>>

\* dns_error and no_dns.
LookupFailed(r) ==
  /\ Goto(r, "lookup", "done")
  /\ ReleaseSlot
  /\ Reply(r, "dns", r)
  /\ UNCHANGED <<now, key, deadline, cacheVars, stray>>

-----------------------------------------------------------------------------
\* probeCache.get: what it finds under the lock.
Found(r) == m[key[r]]
FreshOneLonger(o) == entry[o].ready /\ now - entry[o].at <= CacheTTL  \* seeded fault
Fresh(o) == entry[o].ready /\ now - entry[o].at < CacheTTL
Cached == {k \in Keys : m[k] # None}
CacheFullOneLater == Cardinality(Cached) > CacheMax  \* seeded fault
CacheFull == Cardinality(Cached) >= CacheMax

\* Seeded fault: only a finished entry is usable.
MissPendingToo(r) == ~(Found(r) # None /\ Fresh(Found(r)))

\* No usable entry: none, or one that is ready and too old.
Miss(r) == ~(Found(r) # None /\ (entry[Found(r)].ready => Fresh(Found(r))))

GetHit(r) ==
  /\ Goto(r, "get", "done")
  /\ Found(r) # None
  /\ Fresh(Found(r))
  /\ Reply(r, "cached", Found(r))
  /\ UNCHANGED <<now, key, deadline, cacheVars, inFlight, stray>>

GetWait(r) ==
  /\ Goto(r, "get", "wait")
  /\ Found(r) # None
  /\ ~entry[Found(r)].ready
  /\ waitsOn' = [waitsOn EXCEPT ![r] = Found(r)]
  /\ UNCHANGED <<now, key, deadline, m, entry, owners, result, inFlight,
                 stray, answer>>

\* With a full cache the probe runs without an entry, even when the key has
\* an expired one that it could replace.
GetUncached(r) ==
  /\ Goto(r, "get", "slot")
  /\ Miss(r)
  /\ CacheFull
  /\ UNCHANGED <<now, key, deadline, cacheVars, inFlight, stray, answer>>

GetInsert(r) ==
  /\ Goto(r, "get", "slot")
  /\ Miss(r)
  /\ ~CacheFull
  /\ owners' = owners \cup {r}
  /\ entry' = [entry EXCEPT ![r] = NoEntry]
  /\ m' = [m EXCEPT ![key[r]] = r]
  /\ UNCHANGED <<now, key, deadline, waitsOn, result, inFlight, stray, answer>>

-----------------------------------------------------------------------------
\* The probe closure.  An uncached probe's result is answered as it is, an
\* owner's goes back to get.
Return(r, from, res) ==
  /\ pc[r] = from
  /\ result' = [result EXCEPT ![r] = res]
  /\ IF r \in owners
       THEN pc' = [pc EXCEPT ![r] = "store"] /\ UNCHANGED answer
       ELSE /\ pc' = [pc EXCEPT ![r] = "done"]
            /\ Reply(r, IF res = "busy" THEN "busy" ELSE "fresh", r)

ProbeBusy(r) ==
  /\ ~SlotFree
  /\ Return(r, "slot", "busy")
  /\ UNCHANGED <<now, key, deadline, m, entry, owners, waitsOn, inFlight, stray>>

ProbeStart(r) ==
  /\ Goto(r, "slot", "probe")
  /\ AcquireSlot
  /\ UNCHANGED <<now, key, deadline, cacheVars, stray, answer>>

\* ping returns whatever it found, by the end of its context at the latest;
\* the deferred releaseSlot runs however it returns.
ProbeEnd(r) ==
  /\ Return(r, "probe", "probed")
  /\ ReleaseSlot
  /\ UNCHANGED <<now, key, deadline, m, entry, owners, waitsOn, stray>>

\* Seeded faults: a busy entry is dropped without waking its waiters ...
StoreBusyUnclosed(r) ==
  /\ Goto(r, "store", "done")
  /\ entry' = IF result[r] = "busy" THEN entry
              ELSE [entry EXCEPT ![r] = [ready |-> TRUE, res |-> "probed", at |-> now]]
  /\ m' = IF result[r] = "busy" THEN [m EXCEPT ![key[r]] = None] ELSE m
  /\ Reply(r, IF result[r] = "busy" THEN "busy" ELSE "fresh", r)
  /\ UNCHANGED <<now, key, deadline, owners, waitsOn, result, inFlight, stray>>

\* ... or is kept like any other.
StoreBusyKept(r) ==
  /\ Goto(r, "store", "done")
  /\ entry' = [entry EXCEPT ![r] = [ready |-> TRUE, res |-> result[r], at |-> now]]
  /\ Reply(r, IF result[r] = "busy" THEN "busy" ELSE "fresh", r)
  /\ UNCHANGED <<now, key, deadline, m, owners, waitsOn, result, inFlight, stray>>

\* get locks again: the entry is filled, a busy one is dropped, and the
\* waiters are woken.
Store(r) ==
  /\ Goto(r, "store", "done")
  /\ entry' = [entry EXCEPT ![r] = [ready |-> TRUE, res |-> result[r], at |-> now]]
  /\ m' = IF result[r] = "busy" THEN [m EXCEPT ![key[r]] = None] ELSE m
  /\ Reply(r, IF result[r] = "busy" THEN "busy" ELSE "fresh", r)
  /\ UNCHANGED <<now, key, deadline, owners, waitsOn, result, inFlight, stray>>

WaitReady(r) ==
  /\ Goto(r, "wait", "done")
  /\ entry[waitsOn[r]].ready
  /\ Reply(r, IF entry[waitsOn[r]].res = "busy" THEN "busy" ELSE "fresh", waitsOn[r])
  /\ UNCHANGED <<now, key, deadline, cacheVars, inFlight, stray>>

WaitTimeout(r) ==
  /\ Goto(r, "wait", "done")
  /\ now >= deadline[r]
  /\ Reply(r, "offline", r)
  /\ UNCHANGED <<now, key, deadline, cacheVars, inFlight, stray>>

-----------------------------------------------------------------------------
\* probeCache.sweep, from the ticker goroutine.
ExpiredReadyOrNot(k) == m[k] # None /\ now - entry[m[k]].at >= CacheTTL  \* seeded fault
Expired(k) == m[k] # None /\ entry[m[k]].ready /\ now - entry[m[k]].at >= CacheTTL

\* Seeded fault: an entry has to be older than its lifetime, not as old.
SweepOneLater ==
  LET Older(k) == m[k] # None /\ entry[m[k]].ready /\ now - entry[m[k]].at > CacheTTL IN
  /\ \E k \in Keys : Older(k)
  /\ m' = [k \in Keys |-> IF Older(k) THEN None ELSE m[k]]
  /\ UNCHANGED <<now, pc, key, deadline, entry, owners, waitsOn, result,
                 inFlight, stray, answer>>

Sweep ==
  /\ \E k \in Keys : Expired(k)
  /\ m' = [k \in Keys |-> IF Expired(k) THEN None ELSE m[k]]
  /\ UNCHANGED <<now, pc, key, deadline, entry, owners, waitsOn, result,
                 inFlight, stray, answer>>

\* Every transport of ping ends with the context, and no step of a handler
\* takes the scheduler seconds: the probe of a request is over, and stored,
\* before the clock passes its deadline.
Overdue(r) == pc[r] \in {"get", "slot", "probe", "store"} /\ now >= deadline[r]

Tick ==
  /\ now < MaxTime
  /\ ~ \E r \in Requests : Overdue(r)
  /\ now' = now + 1
  /\ UNCHANGED <<pc, key, deadline, cacheVars, inFlight, stray, answer>>

\* What the handler goroutine itself does once the request is in.
Handler(r) ==
  \/ LookupFound(r) \/ LookupFailed(r)
  \/ GetHit(r) \/ GetWait(r) \/ GetUncached(r) \/ GetInsert(r)
  \/ ProbeBusy(r) \/ ProbeStart(r) \/ ProbeEnd(r) \/ Store(r)
  \/ WaitReady(r) \/ WaitTimeout(r)

Arrive(r) == HandleLiteral(r) \/ HandleHost(r) \/ HandleHostBusy(r)

Next ==
  \/ \E r \in Requests : Arrive(r) \/ Handler(r) \/ LeaveSRV(r) \/ StrayEnds(r)
  \/ Sweep
  \/ Tick

Spec == Init /\ [][Next]_vars

\* Go runs every runnable goroutine, lookups and probes end with their
\* contexts, and the ticker keeps sweeping.  Nothing makes requests arrive.
Fairness == WF_vars(Sweep) /\ \A r \in Requests : WF_vars(Handler(r))
FairSpec == Spec /\ Fairness

-----------------------------------------------------------------------------
(***************************************************************************)
(* Properties.                                                             *)
(***************************************************************************)

HoldsSlot == {r \in Requests : pc[r] \in {"lookup", "probe"}}

\* The inFlight channel holds one token per handler between acquireSlot and
\* releaseSlot, on every path out of handlePing, and never more than its
\* capacity: a leaked token would lower the cap for good, a double release
\* would block the handler.
SlotsAccounted ==
  /\ inFlight = Cardinality(HoldsSlot)
  /\ inFlight <= MaxInFlight

\* The request is between inserting its entry and filling it.
Filling(r) == r \in owners /\ pc[r] \in {"slot", "probe", "store"}

\* An entry that is not ready stays in the map under its key until its owner
\* has filled it, whatever other requests and the sweep do meanwhile.  So
\* two owners never probe one key together, and the delete(c.m, key) of a
\* busy owner removes its own entry and no other.
PendingStays ==
  /\ \A r \in Requests : Filling(r) => m[key[r]] = r /\ ~entry[r].ready
  /\ \A k \in Keys : m[k] # None => m[k] \in owners /\ key[m[k]] = k

\* The entry a coalesced request waits for is of its own key, and it is ready
\* or its owner is still at work on it: nobody waits for a channel that no
\* one will close, or gets another target's answer.
WaiterIsServed ==
  \A r \in Requests : pc[r] = "wait" =>
    /\ waitsOn[r] \in owners
    /\ key[waitsOn[r]] = key[r]
    /\ entry[waitsOn[r]].ready \/ Filling(waitsOn[r])

\* Both: identical probes are coalesced, and every one of them is answered.
Coalesced == PendingStays /\ WaiterIsServed

\* A full in-flight pool is never remembered: no ready entry in the map holds
\* a busy result, so no later request is told busy, or shown a busy result as
\* a probe's, from the cache.  And the map never outgrows cacheMax.
BusyNotCached ==
  \A k \in Keys : (m[k] # None /\ entry[m[k]].ready) => entry[m[k]].res = "probed"
CacheBounded == Cardinality(Cached) <= CacheMax
CacheSound == BusyNotCached /\ CacheBounded

\* An answer marked cached tells of a probe of the same key that really ran
\* and that began less than CacheTTL + PingTimeout ago (its context was made
\* PingTimeout before its deadline), however sweeps, expiry and
\* replacement interleave.
CachedIsFresh ==
  [][\A r \in Requests :
       (answer[r].kind = "none" /\ answer'[r].kind = "cached") =>
         LET o == answer'[r].of IN
         /\ key[o] = key[r]
         /\ result[o] = "probed"
         /\ now < deadline[o] + CacheTTL]_vars

\* Every request that came in is answered: no handler waits for ever for a
\* slot, an entry or another request.
EveryRequestAnswered ==
  \A r \in Requests : (pc[r] # "new") ~> (pc[r] = "done")

\* An expired entry leaves the map: the sweep or a new probe takes it out, so
\* a full cache gets room again.
ExpiredLeaves ==
  \A k \in Keys : Expired(k) ~> ~Expired(k)

\* The cache as its clients see it.  A key is asked for once it is known; an
\* entry that is not ready is a shared probe in flight, a ready one in the map
\* is remembered, and a ready one anywhere has ended.
Waiting(k) == m[k] # None /\ ~entry[m[k]].ready
Remembered(k) == m[k] # None /\ entry[m[k]].ready

AskedAt == [r \in Requests |-> IF key[r] = None THEN 0 ELSE deadline[r] - PingTimeout]
Flight == [k \in Keys |-> IF Waiting(k) THEN m[k] ELSE None]
Memo == [k \in Keys |-> IF Remembered(k) THEN m[k] ELSE None]
Ended == [r \in Requests |-> IF entry[r].ready
                               THEN [res |-> entry[r].res, at |-> entry[r].at]
                               ELSE None]

Shared == INSTANCE SharedProbe WITH
  want <- key, asked <- AskedAt, flight <- Flight, memo <- Memo, ended <- Ended

\* However the handlers interleave, clients see shared probes and remembered
\* answers as SharedProbe describes them: one shared probe of a key at a time,
\* answers only of the same key and of the time they belong to, and a timeout
\* only from a request that has waited all of its own time.
SharesProbes == Shared!Spec
=============================================================================
