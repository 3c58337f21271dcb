# Verification of the Minecraft server dualstack checker

This directory holds TLA+ specifications of the checker's backend (Go), its web
host (PHP) and its page (JavaScript), the TLC configurations that check them on
small instances, and proofs for the TLA+ proof system.  Every definition is
translated from the source; `PROJECT.json` maps each one to its lines.

Parse a module with SANY, run TLC with `-config X.cfg` on the module that
`PROJECT.json` names for the run, and check the proofs with `tlapm M.tla` for
each module `M` of section 5.

## 1. The system

| Component | State it keeps | Operations | Modelled by |
|---|---|---|---|
| Ping handler (`main.go`) | none, one goroutine per request | `handlePing` | `PingService` (after validation) |
| Probe cache (`limits.go`) | map of entries, each with a channel `ready` | `get`, `sweep` | `PingService` |
| In-flight slots (`limits.go`) | buffered channel of 128 tokens | `acquireSlot`, `releaseSlot` | `PingService` |
| Name lookup (`resolve.go`) | an SRV goroutine that may outlive the request | `lookupSRV`, `resolveFamily` | `PingService`, as steps of the request |
| Limiter (`limits.go`) | one record per client | `admitProbe`, `admitHealth`, `sweep` | `Limiter` |
| Transport race (`ping.go`) | one outcome slot per transport, two timers | `ping`, `settle`, `online` | `Race` |
| Usage worker (`stats.go`) | running and finished periods, the state file, the published files | `countPing`, `add`, `roll`, `publish`, `loadUsage`, `runStats` | `Usage` |
| Web host (`api.php`) | a copy of `/health`, a lock file | answer, `refresh_health` | `HealthCopy` |
| Page (`mc_dualstack_check.js`) | busy flag, countdown, results, browser history | `runCheck`, `checkFamily`, `startRetryCountdown`, `popstate` | `Page` |
| Transports (`java.go`, `bedrock.go`, `nethernet.go`) | one connection each | `pingJava`, `pingBedrock`, `pingNetherNet` | `Transports`, `Varint` |
| Description of a Java server (`chat.go`, `tainted.go`, `mcText` of the page) | none | `parseChat`, `legacy`, `coded`, `mcText` | `Chat` |
| Client estimates (`finished` in `stats.go`) | none | `finished` | `Estimates` |
| Error classes (`errors.go`) | none | `failure`, `localNoRoute`, `rejection` | `Race` |
| Target filter, site, statistics page, scripts | none | pure functions, output | not modelled |

How they interact: the page calls `/ping` on the backend, once per family and
port.  The handler validates, asks the limiter, looks the name up under a slot,
and calls the cache; the cache calls back for the probe, which takes a slot and
runs the race, which starts a transport per protocol.  A deferred call queues a sample for the usage worker.  The
ticker goroutine sweeps cache and limiter every 7 s.  The web host asks the
backend only for `/health`, on behalf of all visitors.

What is hard: handlers interleave between two critical sections of the cache,
wait for each other's probes and time out; slots have to survive every early
return; the limiter is given clock readings out of order; the race selects
among a channel and two timers; a transport meets lost, late, spoiled and doubled
replies while its context runs out; the usage worker can be stopped or die between
two files; PHP workers share one file; the page's back button starts a check in
the middle of another.  `PROJECT.json` lists these hazards at their lines with
the properties that cover them.

What makes each component correct: cache - no lost wake-up, no second probe for
a key in flight, nothing stale and nothing busy from the cache; slots - every
one is given back; limiter - the documented budget whatever the order of the
clock readings, and a `Retry-After` that holds; race - the preferred status
wins, but nobody waits longer than the grace; transports - a server that answers
is found, and a status that was read is kept and shown as it was styled; usage - what was published
survives every restart; web host - the backend's health limit is never hit by
the copy; page - one check at a time, and ready again in the end.

## 2. Modules

**PingService** - the life of a `/ping` request after admission.  `pc[r]` is
where the handler of request `r` is; an entry of the cache is named by the
request that made it, so `m[k]` is that request and `entry[r]` its result.
Whatever the code does between `Lock` and `Unlock` is one step: `GetHit`,
`GetWait`, `GetUncached`, `GetInsert` are the four ways through the first
critical section, `Store` is the second.  A waiter's `select` is `WaitReady` or
`WaitTimeout`, both enabled when both are ready.  `inFlight` counts tokens,
`stray` holds the SRV lookups that `lookupSRV` has left behind: they run without
a slot, so the cap on lookups in flight (`docs/api.md:166`) does not count them.
The comment above `lookupSRV` accepts this for resolvers that cannot be stopped.
`Tick` does not pass the deadline of a request that is probing: every transport
ends with its context, and no handler is held up for seconds between two
statements.  Validation is the choice among `HandleLiteral`, `HandleHost` and
`HandleHostBusy`.

**SharedProbe** - what the cache promises, without entries, slots or handler
steps: a key has one shared probe in flight at most, and one that is remembered;
a request is answered by its own probe, by a shared one that ended after it
asked, by the remembered one while it is young, or by a refusal.  `PingService`
implements it (`SharesProbes`): an entry that is not ready is the probe in
flight, a ready entry in the map the remembered one.

**Limiter** - `clients` is the table.  The four ways through `admit` are
`AdmitBlocked`, `AdmitNoToken`, `AdmitOverLimit` and `AdmitGranted`; each takes
a time of up to `MaxSkew` before now, because the code reads the clock before it
takes the mutex.  `told`, `born`, `charged` and `overtaken` are history
variables that only the properties read.

**Race** - one iteration of `ping`'s loop is a `Decide` action on what is known,
then a `Select` action on the channel, the head start or the grace.  A transport
is a goroutine that ends in a status, a weak answer or an error.  Errors fall
into the four classes that `failure` tells apart, and the local routing table,
asked when the result is made, is a choice of its own.  The loop runs before the
clock goes on.

**Transports** - one probe of one server by one transport.  The server is chosen
at the start, as what it replies to each question; the network may lose, delay,
spoil or (UDP) double a bounded number of replies, and this host may be unable
to send.  `RakNetLoop` is the loop of `pingBedrock` with both attempts on one
socket, so that a late pong of the first answers the second; `JavaReads` and
`JavaFails` are the status and then the Pong, whose failures no longer matter;
`NetherNetFails` decides on the second request over TLS by what
`httptrace` saw.  `CloseConn` is `context.AfterFunc`, a step of its own after
the context is over.  `out` has the four classes of errors that `Race` takes.

**Chat** - the description of a Java server as a tree, on its way through
`parseChat`, `legacy` and `coded` to the characters and styles of the page's
`mcText`, and the reference they are compared with.  These are recursive
operators; `StatusShown`, in `MCTransports`, evaluates them on the description of
a status that was read.

**Usage** - the worker's `pc` is in the select (`run`), or in `publish` before
the state (`state`) or before the files (`files`).  `Start` loads the state and
rolls; `Load` takes each kind from the state or, where `loadUsage` cannot read or
parse the file or a kind is missing in it, starts it empty (`unread`: all kinds or
some).  `Publish` is the timer, or the worker that finds `stop` closed, which
publishes for the last time; `WriteState` and `WriteFile` replace a file in one
step, their `Fails` counterparts return from `publish`.  `Return` goes back to the
select or, after the last publish, ends the process.  `Signal` is SIGTERM, `Crash` a
killed process and `main` that waited 3 s for `done`; both and every incomplete
load count as an event.  Two history variables say what an incomplete load costs:
`lost`, the kinds of which the published file is older than what the process has,
until the file is written again, and `together`, the time from which on all kinds
have seen the same requests.  `PublishedIsDurable` and `PublishedStable` speak of the
kinds that are not `lost`, `KindsAgree` of the periods since `together`: so they
also say that nothing more is lost than that, and nothing that is published later.

**Estimates** - how `finished` keeps the client estimates within the requests.
**Varint** - the numbers of Java's protocol, in 32 bits.  Both are pure
definitions; their theorems, for every value, are in `UsageProofs` and
`TransportsProofs`.

**HealthCopy** - `pc[w]` follows a PHP worker from the answer through
`refresh_health`.  `copy` is the time in the file.
A lock file that cannot be opened is a lock that is not obtained.  Calls to the backend are
recorded, each with its time, to compare them with the backend's own limit.

**Page** - every action is one event of the page with all promise reactions
it triggers.  A check has two families, each at a port; `secs[c]` is the interval
that check `c` started, `retryTimer` the one the page remembers.

**MCPingService, MCLimiter, MCUsage, MCTransports** - values and symmetry for
TLC; `MCTransports` also makes the descriptions.  The other modules are run as
they are.

**PingServiceProofs, RaceProofs, LimiterProofs, TransportsProofs, UsageProofs,
HealthCopyProofs, PageProofs** - proofs about the module they are named after
(section 5); **NumberFacts** has the facts they share on least and greatest
elements, quotients and multiples.

Operators marked *seeded fault* are plausible mistakes: in the place of the
definition that follows them they must make TLC find a property violated, which
shows that the property is sensitive to that code.

## 3. Runs

| Run | Instance | Shows |
|---|---|---|
| `ping_safety` | 3 requests, 3 keys, 2 slots, 2 entries, lifetime 2, probe 1, 1 lookup left behind, 4 ticks | `SlotsAccounted`, `Coalesced`, `CacheSound`, `CachedIsFresh`, `SharesProbes` |
| `ping_liveness` | 3 requests, 1 key, 1 slot, 1 entry | `EveryRequestAnswered`, `ExpiredLeaves` |
| `limiter_client` | 1 client, 2 systems, readings up to a tick old | `BudgetHeld`, `WindowsBounded`, `RetryHonoured`, `NothingMovesBack`, `SweepIsNeutral` |
| `limiter_table` | 2 clients, room for 1 | `TableBounded` with the shared entry in use |
| `race` | 3 transports, head start 1, grace 2, end at 6 | `PreferredWins`, `LoopSound`, `TimesKept`, `StartsStaggered`, `RaceEnds` |
| `transports` | every server of each protocol, contexts of 5 and 6 s, 2 faults, descriptions of up to 4 components | `ServerFound`, `StatusKept`, `EndsWithContext`, `StatusShown` |
| `text_leak` | a text that ends in a lone section sign | finding: the style leaks into the sibling |
| `usage` | minutes (2 kept), hours of 2 minutes (1 kept), a queue of 1, 2 requests, 2 events (stops, deaths, incomplete loads, settings of the clock), 3 minutes | `PublishedIsDurable`, `PublishedStable`, `NoGaps`, `KindsAgree`, `DueIsPublished` |
| `usage_clock_back` | 1 event, which is to set the clock back, 4 minutes | finding: newest first does not hold then |
| `health_copy` | 2 workers, 1 lost renewal, 6 seconds in halves | `BackendSpared`, `CopyNeverOlder`, `CopyRenewed` |
| `page` | 2 checks, 2 families, 2 ports, 2 s to wait | `OneAtATime`, `UnreachableWins`, `BusyEnds` |
| `page_back` | 3 checks, 1 port | finding: the button does not come back |

**Bounds.**  Three requests are an owner, a waiter and one that finds the entry
ready, expired or gone; three keys and two entries let a full cache meet a new
key while another is in flight.  `MaxTime` exceeds lifetime plus probe.  The
limiter's burst, batch and windows are scaled so that a bucket empties, refills
partly, by several batches and fully, and a client goes idle, within the clock's
bound.  Three transports are one more than any edition has, so that there is a
middle one.  A context of 5 or 6 s ends before and after both attempts of RakNet
and the 3 s of a dial.  `ServerFound` allows RakNet one fault less than its
attempts and the others none, because only RakNet tries again; two faults are
more than that, so the run also has probes that fail.  The descriptions are
every leaf, every pair under a parent, and some nested ones, of which one is cut
by the depth and one by the length; a text that ends in a lone section sign is
left to `text_leak`.  Two kept minutes in an hour of two keep the real relation
(60 kept, 60 in an hour) between the kinds; a queue of one is soon full.  Two
events are a crash and then a state that cannot be read, two crashes, or one with
the clock set back; three minutes end an hour and finish one minute of the next.
HealthCopy's ticks are half seconds because `time()` cuts seconds off.  Every
bound is a constant named `Max...`, or `Lateness`.

Deadlock is not checked: in every instance the clock ends and the requests are
used up, and the system then rightly rests.

**Fairness.**  PingService: Go schedules every runnable goroutine, lookups and
probes end with their contexts, and the ticker sweeps.  Nothing is assumed about
arrivals, nor about which branch of a select is taken.  Race: the loop, the clock,
and that a transport ends once its context has.  Usage: the worker
runs, systemd restarts it, and a write tried for ever succeeds (weak fairness of
`Start`, `Publish`, `FilesWritten` and `Tick`, strong fairness of the two writes;
a disk that stays full for ever is excluded).  HealthCopy:
visitors keep coming and a worker finishes what it began, with the bounded number
of losses.  Page: every request ends, by its abort timer at the latest,
and intervals fire; nothing makes the visitor act.

## 4. Findings

1. `text_leak`: `writeLegacy` (`chat.go:140`) writes a component's text as it
   came.  When that ends in a lone section sign, the sign and that of the next
   component's reset are read as one code, and the next component keeps the style
   ("styles never leak into its siblings", `chat.go:121`).
2. `usage_clock_back`: `roll` (`stats.go:205`) finishes a period also when the
   clock was set back over its start.  The file then lists a later period
   behind an earlier one (`docs/api.md:136`: newest first).
3. `page_back`: `runCheck` stops a countdown and then returns early from a query
   with a misplaced connection ID (`mc_dualstack_check.js:391`).  The countdown
   was what would have made the page ready again; now only a reload or another
   popstate, to a query that is checked, does.

## 5. Proofs

**PingServiceProofs** proves for any finite sets of requests and keys, any
numbers of slots and entries and any lifetimes (`ConstantsAssumption`):

- `TypeCorrect`: `[]TypeOK`;
- `SlotSafety`: `[]SlotsAccounted`;
- `Coalescing`: `[]Coalesced`;
- `CacheContents`: `[]CacheSound`;
- `Freshness`: the action property `CachedIsFresh`.

The inductive invariant `IInv` adds two conjuncts to the checked invariants.
`Control` ties what a request has to where it is: a key from `get` on, an entry
only behind an insert, a ready entry only behind a finished probe.  Without it
`Store` could write for a request that has no entry.  `OnTime` says that nobody
probes or stores after the end of its own context, so that an entry is no
younger than its probe; `Freshness` rests on it.  `OnTime` follows from `Tick`'s
guard, the one assumption about scheduling.

Each conjunct has a lemma for one step (`SlotsStep`, `TypeStep`, `ControlStep`,
`OnTimeStep`, `PendingStep`, `WaiterStep`, `BusyStep`, `BoundStep`) with a case
per action; `Inductive` puts them together and `AlwaysIInv` is the induction.
`SlotsStep` counts with the library's facts on cardinalities
(`OneMoreSlot`, `OneSlotLess`).

Its last part proves `Implements`: `Spec => SharesProbes`.  The
invariant `RInv` adds `Telling` to `IInv`: a handler has answered exactly when it
is done, its key comes with its deadline, and an entry was filled after everyone
who waits for it had asked.  Every action is then a step of `SharedProbe` or a
stutter (`AskStep`, `RefuseStep`, `BeginStep`, `EndStep`, ...), which `Simulates`
puts together.

Four more theorems rest on these invariants:

- `TimelyAnswers` (`AnswersTimely`) tells of each kind of answer how old it may be:
  a remembered one is less than `CacheTTL` older than the question, a shared one is
  of a probe that ended after it, and a timeout is told when the request's own time
  is over.  It is inductive with `EntryPast` (no entry was filled in the future);
- `NoDeadlock` (`NobodyIsStuck`): every request has a step, or waits for one that
  has.  A handler that gives back a slot finds its token, because of
  `SlotsAccounted`; one that waits is served, because of `WaiterIsServed`;
- `SevenStepsAtMost`: a request has seven steps at most before it, its own and
  those of the probe it shares;
- `SweepFindsExpired`: an expired entry stays so until a sweep takes it.

**RaceProofs** proves for any number of transports and any head start, grace and
timeout (`RaceAssumption`):

- `TypeCorrect`: `[]TypeOK`;
- `LoopIsSound`: `[]LoopSound`;
- `PreferenceWins`: `[]PreferredWins`, with the failure that each error of the
  classic transport stands for, whatever the preferred ones met;
- `TimesAreKept`: `[]TimesKept`;
- `Staggered`: the action property `StartsStaggered`.

None of the last four is inductive.  `Channel` says where an outcome is between
the goroutine that sent it and `ended`, and that the channel holds no more than
was sent: with it, a loop that waits on an empty channel has received every
answer.  `GraceKnown` dates the grace from the instant the first answer was sent,
because the loop decides before the clock goes on; `TimerKnown` says that the
timer runs while another transport may be needed.  `TickWaits` draws the two
together: when the clock moves, neither time is over.  `LeastElement` (`NumberFacts`),
that a set of natural numbers has a least one, gives the loop's searches their
result.

`StopsOnlyFinished` says that the loop never waits for nobody, and that nothing of a
race stops before its end, the goroutines that still have to send included:
the channel has room for them.  `RaceIsBounded` says that it has an end: each step
leaves the race fewer steps, `Timeout + 7 * N` at the start.

**LimiterProofs** proves for any clients, systems and limits, and clock readings
up to `MaxSkew` late (`LimiterAssumption`, which the code's values satisfy for a
skew of up to 30 s; `NoneAssumption`):

- `TypeCorrect`: `[]TypeOK`;
- `BudgetKept`: `[]BudgetHeld`;
- `WindowsKept`: `[]WindowsBounded`;
- `TableKept`: `[]TableBounded`;
- `ForwardOnly`: the action property `NothingMovesBack`;
- `SweepForgetsNothing`: the action property `SweepIsNeutral`;
- `RetryAfterIsKept`: `[]RetryHonoured`.

The budget rests on a potential, `Paid`: what an entry was charged for plus what
is left in its bucket grows no faster than the batches before the next due one,
and that is one interval ahead of the clock at most.  `CreditPays` shows it of one
credit, for several batches at once and for the full bucket that restarts the
clock.  `ListKept` is why the health list stops at one above its limit: the block
after that request outlasts the interval.  `AdmitFollows` says of all four ways
through `admit` that the new record follows the old one.  For the sweep,
`Remembered` bounds everything in a record by the clock (`Within`), and by the
record's last request plus the skew; `IdleIsNew` concludes that an idle record has
nothing left.

`Retry-After` depends on what the record will decide at a later time.  `Promises`
ties what a client was told to its record: `Orderly` says that nothing in the
record is later than its last request, and that a running block outlasts the next
batch and the limit that started it (`Over`); `Honours` says the same of the time
the client was told.  `AdmitPromises` shows it of the four ways through `admit`:
for the systems because the block lasts until the oldest leaves the window, which
then has room for another; for the health limit because the block outlasts the
interval; and the bucket because no block is shorter than a batch.  An entry that
was overtaken is excepted, as in the property: a request with an older clock
reading can note a time that a later one has already answered for.

`RefusedForCause` is the other direction, that nobody is refused who has not asked
for it: a refusal for the budget takes an entry that was charged for `RlBurst`
requests, one for the systems or the health limit more requests than that limit.
Its invariant `AllEarned` counts (`Earned`): of the requests an entry was charged
for, each took one token at most, and noted one system or one health request at
most.

**TransportsProofs** proves for any contexts, timeouts and numbers of attempts
and faults (`TransportsAssumption`):

- `TypeCorrect`: `[]TypeOK`;
- `StatusIsKept`: `[]StatusKept`;
- `EndsInTime`: `[]EndsWithContext`;
- `AnsweringServerIsFound`: `[]ServerFound`.

`Running` bounds a wait by the deadline of its read, and `StatusRead` says where a
probe can be that has its status.  For `ServerFound` each protocol has a statement
of what there is still to read and until when: `JavaKeeps`, `NetherNetKeeps` and
`RakNetKeeps`.  RakNet's counts: every attempt that is over has cost a fault, so
one is left that costs none, and a late pong of an earlier attempt does no harm.
All three need every context to outlast one dial and all attempts but the last,
which the assumption states: `pingTimeout` is 6 s, the dial 3 s, an attempt 2 s,
and a transport starts two head starts late at most.

`NoneEndsWithNothing` says that a probe that gives up knows its error (`ErrorKnown`):
Go's `lastErr` is nil only before the first attempt.  `ProbeIsBounded` rests on it:
every step leaves a probe fewer steps (`StepsLeft`), at most the ticks of its
context, two for each attempt or ten for the questions of two connections, the
cancellation and the close.

The module also proves of **Varint** `ReadsWhatIsWritten` (every number of 32
bits, negative ones included, comes back from its bytes and no byte is left) and
`WritesShortest` (a number that is read from any bytes is written in no more of
them, and from fewer than five it is not negative and below 2^28).

**UsageProofs** proves for any kinds of periods, with any lengths and numbers
kept (`UsageAssumption`, `NoneAssumption`):

- `TypeCorrect`: `[]TypeOK`;
- `PublishedIsInTheState`: `[]PublishedIsDurable`;
- `FilesHaveNoGaps`: `[]NoGaps`;
- `KindsCountTheSame`: `[]KindsAgree`;
- `RestartsAreNeutral`: the action property `PublishedStable`.

The invariant `IInv` is `Types`, and `Durable` while the clock was never set back.
`Lines` says that the periods of a kind follow each other without a gap, in memory
and on disk.  `Remembered` (the process still has what was published, or it is too
old to keep) and `Stored` (so has the state on disk) hand each other over: `Start`
gets the first from the second, `WriteState` the second from the first, and
`Clean` says that `WriteFile` only runs when both hold of the same series.  A kind
that `Start` could not read has neither, and is `lost` until `WriteFile` makes both
true again: `Start` is the only step that adds to `lost`.  That a
period is not lost in `roll` is `RollKeeps`, from `Rolled`, which says where each
period is in the new list: missed ones, the one that ran, the old ones, cut at
`Keep`.  For `PublishedStable`, `FinishedCount` and `NewerOnes` count the periods
that would have to be newer than one that is said to be too old.

Two theorems hold with the clock set back, too.  `NothingCountedTwice`
(`CountedOnce`): what waits in the queue and what a kind has counted, in memory, on
disk or in its file, is never more than the requests there were.  `RollCountsOnce`
shows it of `roll`: a request moves from the running period to a finished one or
is dropped with the oldest.  `FilesAreCurrent`: the file of a kind has the worker's
finished periods unless the kind is due, and the timer is never set further ahead
than the next minute.

`KindsAgree` compares kinds only where one `Covers` the other: minutes and hours,
hours and days, but not minutes and days, of which 60 minutes say too little.  It
is inductive as `InStep`: the series in memory, and those on disk, were all rolled
last at one and the same time (`Agree`), so that a period of the longer kind never
ends before one of the shorter kind does; after a load of some kinds only, this is
so of the periods that begin since `together`.  `RollAgree` is the step that matters:
either both periods still run, or the shorter one ended within the longer
(`RolledSince`: the missed ones add nothing, the ended one what was running), or
both ended (`MissedSince`: all that is within the new one was missed).  The sums
are over sets of places in a list; the library defines them by a choice of the
place that is added first, and `AnyFirst` shows that it does not matter.  The
induction this takes is `NumberFacts`' `Induction`, over a set of good numbers, as
no theorem with an operator for a parameter can be used.

The module also proves of **Estimates** `PartsAddUp`, `CachedWithinRequests` and
`FreshWithinRequests`.  The theorems on `Varint` and `Estimates` are not run, 2^32
being beyond TLC's integers.

**HealthCopyProofs** proves for any workers, lifetime of the copy, interval and
limit of the backend (`HealthCopyAssumption`):

- `TypeCorrect`: `[]TypeOK`;
- `Spared`: `[]BackendSpared`;
- `NeverOlder`: the action property `CopyNeverOlder`.

`LockHeld` is the mutual exclusion: one worker at most is behind the lock, which
the theorem `OneRenewal` states by itself.  `CopyOld`: the copy has been too old since
the worker looked under the lock, and still is when it renews it.  `CallsKnown`
counts: since the copy was renewed, the backend has been called for lost renewals
and for the current one only; renewals that were not lost are `HealthTTL` apart,
so the calls of one before the last have left the backend's interval.  This is
where `HealthInterval < (2 * HealthTTL - 1) * Second` is used (both are 7 s; the
second less is `time()` cutting off fractions).

`LockIsNotLost` is the other half of `LockHeld`: a lock that is taken is in the hands
of a worker at work under it.  `EveryTurnRenews`: when it is given back, there is a
young copy, or the first, or one at least `HealthTTL` newer, or the renewal was
lost.  `EightStepsAtMost`: a worker never goes back in the course of one visitor.

**PageProofs** proves for any families, ports, checks and waiting times
(`PageAssumption`):

- `TypeCorrect`: `[]TypeOK`;
- `OneThing`: `[]OneAtATime`;
- `RejectionWins`: `[]UnreachableWins`.

`OneAtATime` is inductive together with the types.  `UnreachableWins` needs
`FamiliesRemember`: a family that is still asking knows from its answers whether
one of them was a rejection, whatever their order.

`BusyPageIsAtWork` (`BusyHasWork`): a busy page has a newest check that still asks a
family or counts down, unless popstate came in the middle.  `BusyIsBounded`: a
check has boundedly many answers and ticks before it, and each of them leaves it
fewer.  Both are inductive with `ChecksKnown`: a check that runs has a family that
asks, and no countdown.

Of what the liveness properties say, the part that is safety is proved in this way:
that nobody is stuck (`NoDeadlock`, `StopsOnlyFinished`, `LockIsNotLost`,
`BusyPageIsAtWork`) and that the steps come to an end (`SevenStepsAtMost`,
`RaceIsBounded`, `ProbeIsBounded`, `EightStepsAtMost`, `BusyIsBounded`).  That the
steps which can be taken are taken is fairness.

Only model-checked: the liveness properties themselves, since fairness and ENABLED
are beyond the proof system's reach; `StatusShown`, as `Chat`'s operators recur over
trees, about which nothing can be proved by induction; and the findings.

## 6. Not modelled

- The months of the statistics: a kind's periods have one length in `Usage`, so what
  is checked and proved is about minutes, hours and days.
- The HyperLogLog sketches: their estimates are any numbers in `Estimates`.
- The fields of a status or a pong other than the description (players, version,
  icon), the cleaning of control characters (`tainted.clean`), Bedrock's codes,
  and the wording of errors.
- How a name is parsed, filtered (`internalTarget`) and completed with search
  domains: pure, and covered by the repository's table tests.
- A client that goes away: the probe's context is detached from the request, so
  the cache sees no difference.
- A usage worker without a state directory: it publishes nothing.
- The page's reuse of answers and its rendering; the site and the statistics
  page, which only put out what they are given.
- Go's memory model: all shared state is behind the two mutexes and channels.
- The whole backend at once: each module takes its neighbours as choices
  (admission, validation, how a transport ends), which is what they are to it.

## 7. Plan

Done: `PingService` with `SharedProbe`, `Limiter`, `Race`, `Transports`, `Usage`,
`HealthCopy` and `Page`, with proofs of all their safety properties; `Chat`;
`Varint` and `Estimates` with proofs.

Next, in this order:

1. Names: `resolveFamily` with search domains, and which error a failed lookup
   leaves.
2. `AnswerReuse`: the page's copies of answers against the cache's lifetime, with
   the two clocks.
3. `Backend`: `Limiter` and `PingService` composed, with the sample that each
   admitted request leaves for `Usage`.
