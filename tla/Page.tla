-------------------------------- MODULE Page --------------------------------
(***************************************************************************)
(* The checks of the web page (mc_dualstack_check.js): a check asks both   *)
(* families about their ports in order, shows both results together, or    *)
(* turns an error into a notice, a 429 into a countdown.                   *)
(*                                                                         *)
(* The page runs one event at a time, and the promise reactions of an      *)
(* event run before the next: every action is an event with all of them.   *)
(* The button is disabled during a check, but popstate, the browser's back *)
(* and forward, runs a check at any time.                                  *)
(*                                                                         *)
(* The page is loaded with a backend configured.  A family that still runs *)
(* when its check is over goes on unseen, and is left out.                 *)
(***************************************************************************)
EXTENDS Integers, FiniteSets

CONSTANTS
  MaxChecks, \* bound of the model: calls of runCheck
  MaxPorts,  \* ports tried: the requested one and the edition's defaults
  MaxRetry,  \* bound of the model: the longest Retry-After, in seconds
  None       \* null

Checks == 1 .. MaxChecks
Families == {4, 6}

(***************************************************************************)
(* A query is good, or bad: it has a connection ID that the edition does   *)
(* not know, or no host behind it.  A family of a running check is at a    *)
(* port, has met a rejection on the way or not, and is asked until it has  *)
(* a state; "other" stands for no_dns, dns_error, no_route and omitted.    *)
(***************************************************************************)
Queries == {"good", "bad"}
States == {"asked", "online", "offline", "unreachable", "other"}
Answers == {"online", "offline", "unreachable", "other"}
Family == [port : 1 .. MaxPorts, rejected : BOOLEAN, state : States,
           got : SUBSET Answers]
Asked == [port |-> 1, rejected |-> FALSE, state |-> "asked", got |-> {}]
Omitted == [port |-> 1, rejected |-> FALSE, state |-> "other", got |-> {}]

ASSUME PageAssumption ==
  /\ {MaxChecks, MaxPorts, MaxRetry} \subseteq Nat \ {0}
  /\ None \notin Int /\ None \notin [Families -> Family]

Notices == {"none", "error", "wait", "ready"}

VARIABLES
  newest,     \* the latest call of runCheck, 0 before the first
  checking,   \* the button is disabled and the indicator shown
  notice,     \* what the notice box shows
  shown,      \* the check whose cards are shown, None while hidden
  cards,      \* its families
  running,    \* the families of each check that is not over, else None
  retryTimer, \* the countdown interval the page remembers, named by its check
  secs,       \* of each interval the page's timer still fires the seconds left
  health,     \* checks that wait for the web host's view of the API
  visited,    \* the queries in the browser's history
  overlapped  \* history: popstate came while the page was checking

vars == <<newest, checking, notice, shown, cards, running, retryTimer, secs,
          health, visited, overlapped>>

TypeOK ==
  /\ newest \in 0 .. MaxChecks
  /\ checking \in BOOLEAN
  /\ notice \in Notices
  /\ shown \in Checks \cup {None}
  /\ IF shown = None THEN cards = None ELSE cards \in [Families -> Family]
  /\ running \in [Checks -> [Families -> Family] \cup {None}]
  /\ retryTimer \in Checks \cup {None}
  /\ secs \in [Checks -> (0 .. MaxRetry - 1) \cup {None}]
  /\ health \in SUBSET Checks
  /\ visited \in SUBSET Queries
  /\ overlapped \in BOOLEAN

Init ==
  /\ newest = 0
  /\ checking = FALSE
  /\ notice = "none"
  /\ shown = None
  /\ cards = None
  /\ running = [c \in Checks |-> None]
  /\ retryTimer = None
  /\ secs = [c \in Checks |-> None]
  /\ health = {}
  /\ visited = {}
  /\ overlapped = FALSE

-----------------------------------------------------------------------------
StopCountdown ==
  /\ secs' = IF retryTimer = None THEN secs ELSE [secs EXCEPT ![retryTimer] = None]
  /\ retryTimer' = None

HideResults == shown' = None /\ cards' = None

\* runCheck, up to the first requests.  A bad query ends in a notice before
\* the page is made busy; a literal address omits the other family.
RunCheck(query) ==
  /\ newest < MaxChecks
  /\ newest' = newest + 1
  /\ StopCountdown
  /\ HideResults
  /\ IF query = "bad"
       THEN /\ notice' = "error"
            /\ UNCHANGED <<checking, running>>
       ELSE /\ notice' = "none"
            /\ checking' = TRUE
            /\ \E omitted \in {{}, {4}, {6}} :
                 running' = [running EXCEPT ![newest + 1] =
                   [f \in Families |-> IF f \in omitted THEN Omitted ELSE Asked]]
  /\ UNCHANGED health

\* Seeded fault: the button stays enabled during a check.
SubmitWhileChecking ==
  \E query \in Queries :
    /\ RunCheck(query)
    /\ visited' = visited \cup {query}
    /\ UNCHANGED overlapped

Submit ==
  /\ ~checking
  /\ \E query \in Queries :
       /\ RunCheck(query)
       /\ visited' = visited \cup {query}
  /\ UNCHANGED overlapped

PopState ==
  /\ \E query \in visited : RunCheck(query)
  /\ overlapped' = (overlapped \/ checking)
  /\ UNCHANGED visited

\* checkFamily, when an answer arrives.  No answer of a server on the last
\* port, or behind an SRV record, and the family has failed.
FailedOffline(rejected) == "offline"  \* seeded fault
Failed(rejected) == IF rejected THEN "unreachable" ELSE "offline"

Heard(fam, answer) == [fam EXCEPT !.got = @ \cup {answer}]
Rejected(fam, answer) == fam.rejected \/ answer = "unreachable"

Settled(fam, answer) == [Heard(fam, answer) EXCEPT !.state = answer]

NextPort(fam, answer) ==
  [Heard(fam, answer) EXCEPT !.rejected = Rejected(fam, answer), !.port = @ + 1]

LastPort(fam, answer) ==
  [Heard(fam, answer) EXCEPT !.rejected = Rejected(fam, answer),
                             !.state = Failed(Rejected(fam, answer))]

AfterAnswer(fam) ==
  {Settled(fam, a) : a \in {"online", "other"}}
  \cup {LastPort(fam, a) : a \in {"offline", "unreachable"}}
  \cup IF fam.port < MaxPorts THEN {NextPort(fam, a) : a \in {"offline", "unreachable"}} ELSE {}

\* The other family ended before: both are shown.
Render(c, families) ==
  /\ checking' = FALSE
  /\ shown' = c
  /\ cards' = families
  /\ running' = [running EXCEPT ![c] = None]

Answer(c, f) ==
  /\ running[c] # None
  /\ running[c][f].state = "asked"
  /\ \E fam \in AfterAnswer(running[c][f]) :
       LET families == [running[c] EXCEPT ![f] = fam] IN
       IF \A g \in Families : families[g].state # "asked"
         THEN Render(c, families)
         ELSE /\ running' = [running EXCEPT ![c] = families]
              /\ UNCHANGED <<checking, shown, cards>>
  /\ UNCHANGED <<newest, notice, retryTimer, secs, health, visited, overlapped>>

\* The first error of either family ends the check.
Throw(c, f) ==
  /\ running[c] # None
  /\ running[c][f].state = "asked"
  /\ running' = [running EXCEPT ![c] = None]
  /\ UNCHANGED <<newest, shown, cards, visited, overlapped>>

\* A 400, a 503, or a page that cannot read the answer.
AnswerError(c, f) ==
  /\ Throw(c, f)
  /\ checking' = FALSE
  /\ notice' = "error"
  /\ UNCHANGED <<retryTimer, secs, health>>

\* No answer within PROBE_TIMEOUT_MS: the web host is asked first.
AnswerUnreachable(c, f) ==
  /\ Throw(c, f)
  /\ checking' = FALSE
  /\ health' = health \cup {c}
  /\ UNCHANGED <<notice, retryTimer, secs>>

HealthKnown(c) ==
  /\ c \in health
  /\ health' = health \ {c}
  /\ notice' = "error"
  /\ UNCHANGED <<newest, checking, shown, cards, running, retryTimer, secs,
                 visited, overlapped>>

\* Seeded faults: no interval is started, or the first tick is missed.
AnswerLimitedNoTimer(c, f) ==
  /\ Throw(c, f)
  /\ notice' = "wait"
  /\ UNCHANGED <<checking, retryTimer, secs, health>>

AnswerLimitedTickLater(c, f) ==
  /\ Throw(c, f)
  /\ notice' = "wait"
  /\ \E retry \in 1 .. MaxRetry : secs' = [secs EXCEPT ![c] = retry]
  /\ retryTimer' = c
  /\ UNCHANGED <<checking, health>>

\* startRetryCountdown: the page stays busy, the first tick comes at once.
AnswerLimited(c, f) ==
  /\ Throw(c, f)
  /\ notice' = "wait"
  /\ \E retry \in 1 .. MaxRetry : secs' = [secs EXCEPT ![c] = retry - 1]
  /\ retryTimer' = c
  /\ UNCHANGED <<checking, health>>

\* A tick of the interval that check c started.  At the end it clears the
\* interval the page remembers, whose ever that is.
CountDown(c) ==
  /\ secs[c] # None
  /\ IF secs[c] > 0
       THEN /\ secs' = [secs EXCEPT ![c] = @ - 1]
            /\ notice' = "wait"
            /\ UNCHANGED <<checking, retryTimer>>
       ELSE /\ StopCountdown
            /\ checking' = FALSE
            /\ notice' = "ready"
  /\ UNCHANGED <<newest, shown, cards, running, health, visited, overlapped>>

Probes(c) ==
  \E f \in Families :
    Answer(c, f) \/ AnswerError(c, f) \/ AnswerUnreachable(c, f) \/ AnswerLimited(c, f)

Next ==
  \/ Submit
  \/ PopState
  \/ \E c \in Checks : Probes(c) \/ HealthKnown(c) \/ CountDown(c)

Spec == Init /\ [][Next]_vars

\* Every request ends, by its abort timer at the latest, and intervals fire.
Fairness ==
  \A c \in Checks : WF_vars(Probes(c)) /\ WF_vars(HealthKnown(c)) /\ WF_vars(CountDown(c))

FairSpec == Spec /\ Fairness

-----------------------------------------------------------------------------
(***************************************************************************)
(* Properties.                                                             *)
(***************************************************************************)
InFlight == {c \in Checks : running[c] # None}
CountingDown == {c \in Checks : secs[c] # None}

\* Without popstate in the middle of a check the page does one thing at a
\* time: a check in flight or a countdown is the newest, it keeps the button
\* disabled and the old results hidden, the page remembers the countdown's
\* interval, and results that are shown are those of the newest query.
OneAtATime ==
  ~overlapped =>
    /\ InFlight \cup CountingDown \subseteq {newest}
    /\ InFlight \cap CountingDown = {}
    /\ checking = (InFlight \cup CountingDown # {})
    /\ CountingDown = {retryTimer} \ {None}
    /\ shown # None => shown = newest /\ ~checking

\* README: "Unreachable wins over Offline when no port answers and at least
\* one was rejected", on whichever port the rejection came.
FailedAsSeen(fam) ==
  /\ fam.state = "online" <=> "online" \in fam.got
  /\ fam.state = "unreachable" => "unreachable" \in fam.got
  /\ fam.state = "offline" => fam.got = {"offline"}

UnreachableWins ==
  /\ \A c \in InFlight, f \in Families : FailedAsSeen(running[c][f])
  /\ shown # None => \A f \in Families : FailedAsSeen(cards[f])

\* A busy page becomes ready again, unless popstate came in between.
BusyEnds == (checking /\ ~overlapped) ~> (~checking \/ overlapped)

\* The same with popstate: the countdown's last step makes the page ready
\* again, "OK - ready to try again."
ButtonComesBack == checking ~> ~checking
=============================================================================
