-------------------------------- MODULE Race --------------------------------
(***************************************************************************)
(* The race of an edition's transports (ping): transports are started in   *)
(* order of preference, a status from a later one waits for the earlier    *)
(* ones that still run, and a weak answer waits for any status.            *)
(*                                                                         *)
(* Every transport is a goroutine that sends one outcome on a channel; the *)
(* loop of ping is the only receiver.  A loop iteration first decides on   *)
(* what it knows ("decide") and then selects among the channel, the head   *)
(* start timer and the grace timer ("select"); a select with several ready *)
(* cases takes any of them.                                                *)
(***************************************************************************)
EXTENDS Integers, Sequences, FiniteSets, FiniteSetsExt

CONSTANTS
  N,          \* the edition's transports, in order of preference
  HeadStart,  \* headStart, 250 ms
  Grace,      \* grace, 500 ms
  Timeout,    \* pingTimeout, 6 s: when the context of the race ends
  NoRoute, Unreachable, Offline,  \* the states of a result that failed
  None        \* nil

ASSUME RaceAssumption ==
  /\ N \in Nat \ {0}
  /\ HeadStart \in Nat \ {0}
  /\ Grace \in Nat \ {0}
  /\ Timeout \in Nat
  /\ {NoRoute, Unreachable, Offline, None} \cap Int = {}
  /\ None \notin {NoRoute, Unreachable, Offline}
  /\ NoRoute # Unreachable /\ Unreachable # Offline /\ Offline # NoRoute

Transports == 0 .. N - 1

\* The states of a result without a transport.
Failures == {NoRoute, Unreachable, Offline}

\* The errors that failure tells apart: this host has no address of the family
\* (EADDRNOTAVAIL, EAFNOSUPPORT), the network is unreachable, which this host
\* or a router says, something else on the way refused, or anything else: no
\* answer in time, a refusal by the host, an unreadable answer.
Errors == {"no_address", "no_network", "rejected", "other"}

\* How a probe ends: with a status, with an answer that tells only that the
\* server is there, or with an error, a panic that was recovered included.
Kinds == {"status", "weak"} \cup Errors

ASSUME NoneAssumption == None \notin Kinds

\* The network of the family is unreachable from here: the local routing table
\* is asked when the result is made, not when the error occurred.
LocalNoRoute(error, routed) ==
  error = "no_address" \/ (error = "no_network" /\ ~routed)

\* The state of a result with that error.
Failure(error, routed) ==
  IF LocalNoRoute(error, routed) THEN NoRoute
  ELSE IF error \in {"rejected", "no_network"} THEN Unreachable ELSE Offline

VARIABLES
  now,
  pc,        \* where ping is: "decide", "select" or "done"
  started,   \* how many transports were started
  sent,      \* what each transport's goroutine sent, None while it runs
  outcomes,  \* the channel: transports whose outcome is not yet received
  ended,     \* ended[i] of the loop: the outcome received of transport i
  nextAt,    \* when the timer next fires, None once it was received
  graceAt,   \* when graceUp fires, None before it is made
  result,    \* what ping returned: a transport, one of Failures, or None
  lastStart, \* history: when the last transport was started
  answerAt   \* history: when the first answer was sent, None before

vars == <<now, pc, started, sent, outcomes, ended, nextAt, graceAt, result,
          lastStart, answerAt>>

TypeOK ==
  /\ now \in Nat
  /\ pc \in {"decide", "select", "done"}
  /\ started \in 1 .. N
  /\ sent \in [Transports -> Kinds \cup {None}]
  /\ outcomes \in Seq(Transports)
  /\ ended \in [Transports -> Kinds \cup {None}]
  /\ nextAt \in Nat \cup {None}
  /\ graceAt \in Nat \cup {None}
  /\ result \in Transports \cup Failures \cup {None}
  /\ lastStart \in Nat
  /\ answerAt \in Nat \cup {None}

\* ping starts the first transport and the timer before its loop.
Init ==
  /\ now = 0
  /\ pc = "decide"
  /\ started = 1
  /\ sent = [i \in Transports |-> None]
  /\ outcomes = << >>
  /\ ended = [i \in Transports |-> None]
  /\ nextAt = HeadStart
  /\ graceAt = None
  /\ result = None
  /\ lastStart = 0
  /\ answerAt = None

-----------------------------------------------------------------------------
\* The goroutine of transport i ends.  The channel has room for all of them.
ChanCapOne == 1  \* seeded fault
ChanCap == N

Running(i) == i < started /\ sent[i] = None

TransportEnds(i) ==
  /\ Running(i)
  /\ Len(outcomes) < ChanCap
  /\ \E kind \in Kinds :
       /\ sent' = [sent EXCEPT ![i] = kind]
       /\ answerAt' = IF kind \notin Errors /\ answerAt = None THEN now ELSE answerAt
  /\ outcomes' = Append(outcomes, i)
  /\ UNCHANGED <<now, pc, started, ended, nextAt, graceAt, result, lastStart>>

\* Seeded fault: the timer is not reset, and a timer fires only once.
StartNextNoReset ==
  /\ started' = started + 1
  /\ lastStart' = now
  /\ nextAt' = IF nextAt # None /\ now >= nextAt THEN None ELSE nextAt

\* start, and next.Reset: a timer that fired meanwhile is cleared.
StartNext ==
  /\ started' = started + 1
  /\ nextAt' = now + HeadStart
  /\ lastStart' = now

Return(r) == pc' = "done" /\ result' = r

Statuses == {i \in Transports : ended[i] = "status"}
Answers == {i \in Transports : ended[i] \in {"status", "weak"}}

\* Of the transports that run or brought a status, the most preferred decides.
Open == {i \in Transports : i < started /\ ended[i] \in {None, "status"}}

\* Seeded fault: any status wins at once.
DecideStatusAny ==
  /\ pc = "decide"
  /\ Statuses # {}
  /\ Return(Min(Statuses))
  /\ UNCHANGED <<now, started, sent, outcomes, ended, nextAt, graceAt, lastStart, answerAt>>

DecideStatus ==
  /\ pc = "decide"
  /\ Open # {}
  /\ Min(Open) \in Statuses
  /\ Return(Min(Open))
  /\ UNCHANGED <<now, started, sent, outcomes, ended, nextAt, graceAt, lastStart, answerAt>>

\* Seeded faults: the grace begins without an answer, or anew with every pass.
DecideWaitAlways ==
  /\ pc = "decide"
  /\ Open # {}
  /\ Min(Open) \notin Statuses
  /\ pc' = "select"
  /\ graceAt' = IF graceAt = None THEN now + Grace ELSE graceAt
  /\ UNCHANGED <<now, started, sent, outcomes, ended, nextAt, result, lastStart, answerAt>>

DecideWaitRenewed ==
  /\ pc = "decide"
  /\ Open # {}
  /\ Min(Open) \notin Statuses
  /\ pc' = "select"
  /\ graceAt' = IF Answers # {} THEN now + Grace ELSE graceAt
  /\ UNCHANGED <<now, started, sent, outcomes, ended, nextAt, result, lastStart, answerAt>>

\* It still runs: the others wait for it, once there is an answer for grace.
DecideWait ==
  /\ pc = "decide"
  /\ Open # {}
  /\ Min(Open) \notin Statuses
  /\ pc' = "select"
  /\ graceAt' = IF graceAt = None /\ Answers # {}
                  THEN now + Grace ELSE graceAt
  /\ UNCHANGED <<now, started, sent, outcomes, ended, nextAt, result, lastStart, answerAt>>

\* Seeded fault: the number of transports is not checked.
DecideStartBeyond ==
  /\ pc = "decide"
  /\ Open = {}
  /\ StartNext
  /\ UNCHANGED <<now, pc, sent, outcomes, ended, graceAt, result, answerAt>>

DecideStart ==
  /\ pc = "decide"
  /\ Open = {}
  /\ started < N
  /\ StartNext
  /\ UNCHANGED <<now, pc, sent, outcomes, ended, graceAt, result, answerAt>>

\* Seeded fault: any transport that was rejected makes the failure a rejection.
DecideSettleAnyRejection ==
  /\ pc = "decide"
  /\ Open = {}
  /\ started = N
  /\ IF Answers # {}
       THEN Return(Min(Answers))
       ELSE \E routed \in BOOLEAN :
              Return(IF \E i \in Transports : ended[i] = "rejected" THEN Unreachable
                     ELSE Failure(ended[N - 1], routed))
  /\ UNCHANGED <<now, started, sent, outcomes, ended, nextAt, graceAt, lastStart, answerAt>>

\* settle: every transport ended without a status.  The state of a failure is
\* that of the last transport, the classic one.
DecideSettle ==
  /\ pc = "decide"
  /\ Open = {}
  /\ started = N
  /\ IF Answers # {}
       THEN Return(Min(Answers))
       ELSE \E routed \in BOOLEAN : Return(Failure(ended[N - 1], routed))
  /\ UNCHANGED <<now, started, sent, outcomes, ended, nextAt, graceAt, lastStart, answerAt>>

SelectOutcome ==
  /\ pc = "select"
  /\ outcomes # << >>
  /\ ended' = [ended EXCEPT ![Head(outcomes)] = sent[Head(outcomes)]]
  /\ outcomes' = Tail(outcomes)
  /\ pc' = "decide"
  /\ UNCHANGED <<now, started, sent, nextAt, graceAt, result, lastStart, answerAt>>

NextFires == nextAt # None /\ now >= nextAt
GraceFires == graceAt # None /\ now >= graceAt

\* Seeded fault: a transport is started although there is a status.
SelectNextDespiteStatus ==
  /\ pc = "select"
  /\ NextFires
  /\ pc' = "decide"
  /\ IF started < N THEN StartNext
                   ELSE nextAt' = None /\ UNCHANGED <<started, lastStart>>
  /\ UNCHANGED <<now, sent, outcomes, ended, graceAt, result, answerAt>>

SelectNext ==
  /\ pc = "select"
  /\ NextFires
  /\ pc' = "decide"
  /\ IF started < N /\ Statuses = {}
       THEN StartNext
       ELSE nextAt' = None /\ UNCHANGED <<started, lastStart>>
  /\ UNCHANGED <<now, sent, outcomes, ended, graceAt, result, answerAt>>

\* The most preferred status, else the most preferred weak answer.
SelectGraceUp ==
  /\ pc = "select"
  /\ GraceFires
  /\ Return(Min(IF Statuses # {} THEN Statuses ELSE Answers))
  /\ UNCHANGED <<now, started, sent, outcomes, ended, nextAt, graceAt, lastStart, answerAt>>

Loop ==
  \/ DecideStatus \/ DecideWait \/ DecideStart \/ DecideSettle
  \/ SelectOutcome \/ SelectNext \/ SelectGraceUp

\* The loop runs as soon as it can, and a transport ends with the context.
LoopReady == pc = "decide" \/ (pc = "select" /\ (outcomes # << >> \/ NextFires \/ GraceFires))

Tick ==
  /\ pc # "done"
  /\ ~LoopReady
  /\ now < Timeout
  /\ now' = now + 1
  /\ UNCHANGED <<pc, started, sent, outcomes, ended, nextAt, graceAt, result, lastStart, answerAt>>

Next == Loop \/ Tick \/ \E i \in Transports : TransportEnds(i)

Spec == Init /\ [][Next]_vars

\* The loop and the clock go on; every transport ends soon after the context
\* does, which ping cancels when it returns.
Fairness ==
  /\ WF_vars(Loop)
  /\ WF_vars(Tick)
  /\ \A i \in Transports : WF_vars((now = Timeout \/ pc = "done") /\ TransportEnds(i))

FairSpec == Spec /\ Fairness

-----------------------------------------------------------------------------
(***************************************************************************)
(* Properties.                                                             *)
(***************************************************************************)

\* "The most preferred status wins": when ping returns a status, every more
\* preferred transport has ended without one, or its time of grace is over;
\* a weak answer is returned only when no status was received, and all
\* transports have ended or the grace is over; a failure only when all ended
\* in an error.  Which failure it is tells the classic transport's error alone:
\* each of the three has its own, so a firewall or a missing address that only a
\* preferred transport met never hides what the classic one found.
PreferredWins ==
  result # None =>
    IF result \in Failures
    THEN /\ \A i \in Transports : ended[i] \in Errors
         /\ result = NoRoute => ended[N - 1] \in {"no_address", "no_network"}
         /\ result = Unreachable => ended[N - 1] \in {"rejected", "no_network"}
         /\ result = Offline => ended[N - 1] = "other"
    ELSE /\ result \in Answers
         /\ \A i \in Transports : (i < result \/ result \notin Statuses) =>
              i \notin Statuses /\ (ended[i] # None \/ GraceFires)

\* The loop never fails where the code does not look: the grace branch of the
\* select always has an answer to return, so that its last line never indexes
\* ended with -1, and no goroutine blocks on the channel, not even one that ends
\* after ping has returned and nobody receives any more.
GraceHasAnswer == graceAt # None => Answers # {}
ChannelHasRoom == \A i \in Transports : Running(i) => Len(outcomes) < ChanCap
LoopSound == GraceHasAnswer /\ ChannelHasRoom

\* The times of ping: an answer, a status or a weak one, is returned within Grace
\* of its arrival, however many transports are still silent; and while there is
\* no status the next transport starts within HeadStart of the last.  With two
\* transports, a server that only answers the second is reported within
\* HeadStart + Grace (750 ms) of its answer's own time.
AnswerWaitsAtMostGrace ==
  (pc # "done" /\ answerAt # None) => now <= answerAt + Grace
NextStartsInTime ==
  (pc # "done" /\ started < N /\ Statuses = {}) =>
    now <= lastStart + HeadStart
TimesKept == AnswerWaitsAtMostGrace /\ NextStartsInTime

\* A transport is started early only when every started one has ended without
\* a status, and none is once a status was received.
StartsStaggered ==
  [][started' # started =>
       /\ Statuses = {}
       /\ now >= lastStart + HeadStart \/ \A i \in Transports : i < started => ended[i] # None]_vars

\* Every race ends, and every goroutine it started does.
RaceEnds == <>[](pc = "done" /\ \A i \in Transports : ~Running(i))
=============================================================================
