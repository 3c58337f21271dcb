------------------------------- MODULE Usage -------------------------------
(***************************************************************************)
(* The usage statistics (stats.go): handlers queue samples, one worker     *)
(* counts them into the running period of every kind, rolls periods that   *)
(* ended, and publishes, first its state and then one file per kind.       *)
(* Writes can fail, the process can be stopped or die at any point, and a  *)
(* new one starts from the state on disk, or from nothing if it cannot     *)
(* read that state.                                                        *)
(*                                                                         *)
(* The wall clock counts minutes.  A period keeps its start and its number *)
(* of requests; the splits by family and cache and the client estimates    *)
(* travel with the count and are left out.                                 *)
(***************************************************************************)
EXTENDS Integers, Sequences, FiniteSets, FiniteSetsExt

CONSTANTS
  Kinds,       \* periodKinds: minutes, hours, days (months differ in length)
  Length,      \* Length[k]: how long a period of kind k is
  Keep,        \* Keep[k]: how many finished periods are kept and published
  None,        \* nil, and a file that does not exist
  QueueMax,    \* capacity of the samples channel, 1024
  MaxRequests, \* bound of the model: samples
  MaxEvents,   \* bound of the model: processes that are stopped, that die or that
               \* cannot read all of the state, and settings of the clock, together
  MaxTime      \* bound of the model: minutes that go by

ASSUME UsageAssumption ==
  /\ Length \in [Kinds -> Nat \ {0}]
  /\ Keep \in [Kinds -> Nat \ {0}]
  /\ {QueueMax, MaxRequests, MaxEvents, MaxTime} \subseteq Nat

VARIABLES
  wall,     \* the wall clock
  pc,       \* the worker: "down", "run", or in publish at "state" or "files"
  stopping, \* "no", "asked" once stop is closed by SIGTERM, "last" from when the
            \* worker has received it and publishes for the last time
  queue,    \* samples in the channel
  series,   \* usage.Series: of each kind the running period and the finished
            \* ones, newest first
  rolled,   \* usage.rolled
  dirty,    \* usage.dirty
  nextAt,   \* when the worker's timer fires
  disk,     \* the state file
  public,   \* the published file of each kind
  lost,     \* history: kinds a process started without, whose file is older
  together, \* history: periods that began from this time on saw the same of
            \* every kind; before it only some kinds were read
  requests, \* counters of the bounds
  events,
  back

vars == <<wall, pc, stopping, queue, series, rolled, dirty, nextAt, disk, public,
          lost, together, requests, events, back>>

history == <<lost, together>>
bounds == <<requests, events, back>>

Period == [start : Nat, n : Nat]
Series == [start : Nat, n : Nat, done : Seq(Period)]
NoSeries == [k \in Kinds |-> None]

\* nil is nothing else.
ASSUME NoneAssumption == None \notin Seq(Period) \cup Series \cup [Kinds -> Series]

KeptPeriods(k, periods) == periods \in Seq(Period) /\ Len(periods) <= Keep[k]
WellFormed(k, s) == s \in Series /\ KeptPeriods(k, s.done)

TypeOK ==
  /\ wall \in 0 .. MaxTime
  /\ pc \in {"down", "run", "state", "files"}
  /\ stopping \in {"no", "asked", "last"}
  /\ queue \in 0 .. QueueMax
  /\ \A k \in Kinds : series[k] = None \/ WellFormed(k, series[k])
  /\ rolled \subseteq Kinds
  /\ dirty \in BOOLEAN
  /\ nextAt \in Nat
  /\ disk = None \/ \A k \in Kinds : WellFormed(k, disk[k])
  /\ \A k \in Kinds : public[k] = None \/ KeptPeriods(k, public[k])
  /\ lost \subseteq Kinds
  /\ together \in Nat

Init ==
  /\ wall = 0
  /\ pc = "down"
  /\ stopping = "no"
  /\ queue = 0
  /\ series = NoSeries
  /\ rolled = {}
  /\ dirty = FALSE
  /\ nextAt = 0
  /\ disk = None
  /\ public = [k \in Kinds |-> None]
  /\ lost = {}
  /\ together = 0
  /\ requests = 0
  /\ events = 0
  /\ back = 0

-----------------------------------------------------------------------------
\* roll, for one kind.
StartOf(k, t) == t - (t % Length[k])

MissedNone(k, from, to) == << >>  \* seeded fault

\* The periods nobody asked in, between the one that ended and the new one.
Missed(k, from, to) ==
  [i \in 1 .. (to - from) \div Length[k] - 1 |-> [start |-> to - i * Length[k], n |-> 0]]

NewestKeptOneMore(k, periods) ==  \* seeded fault
  SubSeq(periods, 1, Min({Len(periods), Keep[k] + 1}))
NewestKept(k, periods) == SubSeq(periods, 1, Min({Len(periods), Keep[k]}))

Due(s, k, t) == s[k] = None \/ s[k].start # StartOf(k, t)

Done(s, k, t) ==
  IF s[k] = None THEN << >>
  ELSE NewestKept(k, Missed(k, s[k].start, StartOf(k, t))
                       \o <<[start |-> s[k].start, n |-> s[k].n]>> \o s[k].done)

\* Seeded fault: the new period starts with the old one's count.
RollKindKeepsCount(s, k, t) ==
  IF ~Due(s, k, t) THEN s[k]
  ELSE [start |-> StartOf(k, t), n |-> IF s[k] = None THEN 0 ELSE s[k].n, done |-> Done(s, k, t)]

RollKind(s, k, t) ==
  IF ~Due(s, k, t) THEN s[k]
  ELSE [start |-> StartOf(k, t), n |-> 0, done |-> Done(s, k, t)]

RollSeries(s, t) == [k \in Kinds |-> RollKind(s, k, t)]
RollsAt(s, t) == {k \in Kinds : Due(s, k, t)}

\* loadUsage.  A state that cannot be read or is not valid is as good as none,
\* and of a valid one the kinds it does not have start empty.
LoadNothing(unread) == NoSeries  \* seeded fault
Load(unread) == [k \in Kinds |-> IF disk = None \/ k \in unread THEN None ELSE disk[k]]

\* loadUsage, then the start of runStats: every file is due.
Start ==
  /\ pc = "down"
  /\ pc' = "state"
  /\ stopping' = "no"
  /\ queue' = 0
  /\ rolled' = Kinds
  /\ dirty' = FALSE
  /\ \E unread \in SUBSET Kinds :
       /\ unread # {} => disk # None /\ events + back < MaxEvents
       /\ events' = IF unread = {} THEN events ELSE events + 1
       /\ series' = RollSeries(Load(unread), wall)
       /\ lost' = lost \cup unread
       /\ together' = IF unread \in {{}, Kinds} THEN together ELSE wall + 1
  /\ UNCHANGED <<wall, nextAt, disk, public, requests, back>>

\* countPing, from a handler: it never waits, a full queue drops the sample.
CountPing ==
  /\ pc # "down"
  /\ requests < MaxRequests
  /\ requests' = requests + 1
  /\ queue' = IF queue < QueueMax THEN queue + 1 ELSE queue
  /\ UNCHANGED <<wall, pc, stopping, series, rolled, dirty, nextAt, disk, public, history, events, back>>

\* add: one request more in the running period of every kind.
Add ==
  /\ pc = "run"
  /\ queue > 0
  /\ queue' = queue - 1
  /\ series' = [k \in Kinds |-> [RollSeries(series, wall)[k] EXCEPT !.n = @ + 1]]
  /\ rolled' = rolled \cup RollsAt(series, wall)
  /\ dirty' = TRUE
  /\ UNCHANGED <<wall, pc, stopping, nextAt, disk, public, history, bounds>>

\* The worker goes to publish when its timer fires, or when it finds stop closed.
Publish ==
  /\ pc = "run"
  /\ \/ wall >= nextAt /\ UNCHANGED stopping
     \/ stopping = "asked" /\ stopping' = "last"
  /\ pc' = "state"
  /\ series' = RollSeries(series, wall)
  /\ rolled' = rolled \cup RollsAt(series, wall)
  /\ UNCHANGED <<wall, queue, dirty, nextAt, disk, public, history, bounds>>

\* The process ends, and what it had in memory is gone.
ProcessEnds ==
  /\ pc' = "down"
  /\ stopping' = "no"
  /\ queue' = 0
  /\ series' = NoSeries
  /\ dirty' = FALSE
  /\ nextAt' = 0

\* Seeded fault: the timer is not set anew.
ReturnTimerSpent ==
  IF stopping = "last" THEN ProcessEnds
  ELSE /\ pc' = "run"
       /\ nextAt' = MaxTime + 1
       /\ UNCHANGED <<stopping, queue, series, dirty>>

\* publish returns: to the select, with the timer set anew, or after the last
\* time to the end of the process.  The last minute of the model stands for all
\* later ones.
Return ==
  IF stopping = "last" THEN ProcessEnds
  ELSE /\ pc' = "run"
       /\ nextAt' = Min({wall + 1, MaxTime - back})
       /\ UNCHANGED <<stopping, queue, series, dirty>>

WriteState ==
  /\ pc = "state"
  /\ disk' = IF dirty THEN series ELSE disk
  /\ dirty' = FALSE
  /\ pc' = "files"
  /\ UNCHANGED <<wall, stopping, queue, series, rolled, nextAt, public, history, bounds>>

\* Seeded fault: the files are written although the state was not.
WriteStateFailsGoesOn ==
  /\ pc = "state"
  /\ dirty
  /\ pc' = "files"
  /\ UNCHANGED <<wall, stopping, queue, series, rolled, dirty, nextAt, disk, public, history, bounds>>

WriteStateFails ==
  /\ pc = "state"
  /\ dirty
  /\ Return
  /\ UNCHANGED <<wall, rolled, disk, public, history, bounds>>

WriteFile(k) ==
  /\ pc = "files"
  /\ k \in rolled
  /\ public' = [public EXCEPT ![k] = series[k].done]
  /\ rolled' = rolled \ {k}
  /\ lost' = lost \ {k}
  /\ UNCHANGED <<wall, pc, stopping, queue, series, dirty, nextAt, disk, together, bounds>>

WriteFileFails ==
  /\ pc = "files"
  /\ rolled # {}
  /\ Return
  /\ UNCHANGED <<wall, rolled, disk, public, history, bounds>>

FilesWritten ==
  /\ pc = "files"
  /\ rolled = {}
  /\ Return
  /\ UNCHANGED <<wall, rolled, disk, public, history, bounds>>

-----------------------------------------------------------------------------
\* SIGTERM.
Signal ==
  /\ pc # "down"
  /\ stopping = "no"
  /\ events + back < MaxEvents
  /\ events' = events + 1
  /\ stopping' = "asked"
  /\ UNCHANGED <<wall, pc, queue, series, rolled, dirty, nextAt, disk, public, history, requests, back>>

\* The process dies, or main gives up waiting for done.
Crash ==
  /\ pc # "down"
  /\ events + back < MaxEvents
  /\ events' = events + 1
  /\ ProcessEnds
  /\ UNCHANGED <<wall, rolled, disk, public, history, requests, back>>

Tick ==
  /\ wall + back < MaxTime
  /\ wall' = wall + 1
  /\ UNCHANGED <<pc, stopping, queue, series, rolled, dirty, nextAt, disk, public, history, bounds>>

\* The wall clock is set back.  The timer is not: it runs on the monotonic one.
SetBack ==
  /\ events + back < MaxEvents
  /\ wall > 0
  /\ back' = back + 1
  /\ wall' = wall - 1
  /\ nextAt' = IF nextAt > 0 THEN nextAt - 1 ELSE 0
  /\ UNCHANGED <<pc, stopping, queue, series, rolled, dirty, disk, public, history, requests, events>>

Worker ==
  \/ Start \/ Add \/ Publish
  \/ WriteState \/ WriteStateFails
  \/ (\E k \in Kinds : WriteFile(k)) \/ WriteFileFails \/ FilesWritten

Next == Worker \/ CountPing \/ Signal \/ Crash \/ Tick \/ SetBack

Spec == Init /\ [][Next]_vars

\* The worker runs, systemd starts a process that ended, the clock goes on, and
\* a write that is tried again and again succeeds in the end.
Fairness ==
  /\ WF_vars(Start \/ Publish \/ FilesWritten)
  /\ WF_vars(Tick)
  /\ SF_vars(WriteState)
  /\ \A k \in Kinds : SF_vars(WriteFile(k))

FairSpec == Spec /\ Fairness

-----------------------------------------------------------------------------
(***************************************************************************)
(* Properties.  A period is published when its file shows it.              *)
(***************************************************************************)
Shown(k) == IF public[k] = None THEN {} ELSE {public[k][i] : i \in DOMAIN public[k]}
ShownNext(k) == IF public'[k] = None THEN {} ELSE {public'[k][i] : i \in DOMAIN public'[k]}

\* What the state on disk knows of a kind, the running period included.
OnDisk(k) ==
  IF disk = None THEN {}
  ELSE {disk[k].done[i] : i \in DOMAIN disk[k].done} \cup {[start |-> disk[k].start, n |-> disk[k].n]}

\* The state is written before what is derived from it: every request a
\* published file counts is in the state on disk, so no crash can make the
\* next process publish less.  Periods too old for the state are excepted, and
\* what a process could not read when it started, which nothing holds any more;
\* that ends with the next file of the kind.
PublishedIsDurable ==
  back = 0 => \A k \in Kinds \ lost : \A p \in Shown(k) :
    \/ p.n = 0
    \/ p \in OnDisk(k)
    \/ disk # None /\ p.start < disk[k].start - Keep[k] * Length[k]

\* Restarts are neutral: whatever fails and whenever the process dies, a
\* published period with requests stays published with the same count until
\* Keep newer ones have replaced it.  A state that cannot be read costs the
\* periods that were published before, once, and none that is published later.
PublishedStable ==
  [][back' = 0 => \A k \in Kinds \ lost : \A p \in Shown(k) :
       p.n > 0 => \/ p \in ShownNext(k)
                  \/ Cardinality({q \in ShownNext(k) : q.start > p.start}) = Keep[k]]_vars

\* A published file has every period between its oldest and its newest, also
\* those without requests and those during which no process ran.
NoGaps ==
  back = 0 => \A k \in Kinds : public[k] # None =>
    \A i \in DOMAIN public[k] :
      i > 1 => public[k][i].start = public[k][i - 1].start - Length[k]

\* The kinds count the same requests: a running hour has as many as the running
\* minute and the finished minutes within the hour, after restarts too.  That can
\* be told of kinds that keep enough periods: 48 hours cover a day, 60 minutes do not.
\* Where a process could read only some of the kinds it is said of the periods that
\* begin after its start.
Covers(k, l) == \E c \in 1 .. Keep[k] + 1 : Length[l] = c * Length[k]

RequestsIn(periods, places) == MapThenSumSet(LAMBDA i : periods[i].n, places)
Since(periods, from) == {i \in DOMAIN periods : periods[i].start >= from}

KindsAgree ==
  (back = 0 /\ pc # "down") =>
    \A k, l \in Kinds : Covers(k, l) /\ series[l].start >= together =>
      series[l].n = series[k].n
                      + RequestsIn(series[k].done, Since(series[k].done, series[l].start))

\* A file that is due is written in the end, after failed writes and restarts.
DueIsPublished == \A k \in Kinds : []<>(k \notin rolled)

\* What docs/api.md says of a published file: "finished periods, newest first".
NewestFirst ==
  \A k \in Kinds : public[k] # None =>
    \A i \in DOMAIN public[k] : i > 1 => public[k][i].start < public[k][i - 1].start
=============================================================================
