----------------------------- MODULE PageProofs -----------------------------
(***************************************************************************)
(* Proofs about Page, for any number of checks and ports and any           *)
(* Retry-After.                                                            *)
(***************************************************************************)
EXTENDS Page, TLAPS

LEMMA Constants ==
  /\ MaxChecks \in Nat \ {0} /\ MaxPorts \in Nat \ {0} /\ MaxRetry \in Nat \ {0}
  /\ None \notin Int /\ None \notin [Families -> Family]
  /\ None \notin Checks
BY PageAssumption DEF Checks

USE Constants

-----------------------------------------------------------------------------
\* While a family is asked it remembers whether a port rejected it; once it has
\* a state, that agrees with what its ports answered.
Remembers(fam) ==
  /\ fam.state = "asked" =>
       fam.got \subseteq {"offline", "unreachable"} /\ (fam.rejected <=> "unreachable" \in fam.got)
  /\ FailedAsSeen(fam)

AllRemember(families) == \A f \in Families : Remembers(families[f])

FamiliesRemember ==
  /\ \A c \in InFlight : AllRemember(running[c])
  /\ shown # None => AllRemember(cards)

IInv == TypeOK /\ OneAtATime /\ FamiliesRemember

-----------------------------------------------------------------------------
\* What an answer makes of a family that is asked.
LEMMA AnswerKeeps ==
  ASSUME NEW fam \in Family, fam.state = "asked", Remembers(fam), NEW next \in AfterAnswer(fam)
  PROVE  next \in Family /\ Remembers(next)
<1>1. \/ \E a \in {"online", "other"} : next = Settled(fam, a)
      \/ \E a \in {"offline", "unreachable"} : next = LastPort(fam, a)
      \/ fam.port < MaxPorts /\ \E a \in {"offline", "unreachable"} : next = NextPort(fam, a)
  BY DEF AfterAnswer
<1>2. /\ fam.port \in 1 .. MaxPorts /\ fam.rejected \in BOOLEAN /\ fam.got \in SUBSET Answers
      /\ fam.got \subseteq {"offline", "unreachable"} /\ (fam.rejected <=> "unreachable" \in fam.got)
  BY DEF Family, Remembers
\* Each of the three, written out.
<1>3. ASSUME NEW p \in 1 .. MaxPorts, NEW r \in BOOLEAN, NEW s \in States, NEW a \in Answers,
             next = [port |-> p, rejected |-> r, state |-> s, got |-> fam.got \cup {a}]
      PROVE  next \in Family
  BY <1>2, <1>3 DEF Family
<1>4. ASSUME NEW a \in {"online", "other"}, next = Settled(fam, a)
      PROVE  next \in Family /\ Remembers(next)
  <2>1. next = [port |-> fam.port, rejected |-> fam.rejected, state |-> a, got |-> fam.got \cup {a}]
    BY <1>4 DEF Settled, Heard, Family
  <2>2. a \in States /\ a \in Answers
    BY DEF States, Answers
  <2>3. next \in Family
    BY <1>2, <1>3, <2>1, <2>2
  <2>4. Remembers(next)
    BY <1>2, <2>1 DEF Remembers, FailedAsSeen
  <2>5. QED BY <2>3, <2>4
<1>5. ASSUME NEW a \in {"offline", "unreachable"}, next = LastPort(fam, a)
      PROVE  next \in Family /\ Remembers(next)
  <2>. DEFINE r == Rejected(fam, a)
  <2>1. next = [port |-> fam.port, rejected |-> r, state |-> Failed(r), got |-> fam.got \cup {a}]
    BY <1>5 DEF LastPort, Heard, Family
  <2>2. r \in BOOLEAN /\ (r <=> "unreachable" \in fam.got \cup {a})
    BY <1>2 DEF Rejected
  <2>3. Failed(r) \in States /\ a \in Answers
    BY DEF Failed, States, Answers
  <2>4. next \in Family
    BY <1>2, <1>3, <2>1, <2>2, <2>3
  <2>. HIDE DEF r
  <2>5. Remembers(next)
    BY <1>2, <2>1, <2>2 DEF Failed, Remembers, FailedAsSeen
  <2>6. QED BY <2>4, <2>5
<1>6. ASSUME NEW a \in {"offline", "unreachable"}, next = NextPort(fam, a), fam.port < MaxPorts
      PROVE  next \in Family /\ Remembers(next)
  <2>. DEFINE r == Rejected(fam, a)
  <2>1. next = [port |-> fam.port + 1, rejected |-> r, state |-> "asked", got |-> fam.got \cup {a}]
    BY <1>6 DEF NextPort, Heard, Family
  <2>2. r \in BOOLEAN /\ (r <=> "unreachable" \in fam.got \cup {a})
    BY <1>2 DEF Rejected
  <2>3. fam.port + 1 \in 1 .. MaxPorts /\ "asked" \in States /\ a \in Answers
    BY <1>2, <1>6 DEF States, Answers
  <2>4. next \in Family
    BY <1>2, <1>3, <2>1, <2>2, <2>3
  <2>. HIDE DEF r
  <2>5. Remembers(next)
    BY <1>2, <2>1, <2>2 DEF Remembers, FailedAsSeen
  <2>6. QED BY <2>4, <2>5
<1>7. QED BY <1>1, <1>4, <1>5, <1>6

\* What a call of runCheck starts.
LEMMA StartKeeps ==
  ASSUME NEW omitted \in {{}, {4}, {6}}, NEW families,
         families = [f \in Families |-> IF f \in omitted THEN Omitted ELSE Asked]
  PROVE  families \in [Families -> Family] /\ families # None /\ AllRemember(families)
<1>1. Omitted \in Family /\ Asked \in Family
  BY DEF Omitted, Asked, Family, States, Answers
<1>2. Remembers(Omitted) /\ Remembers(Asked)
  BY DEF Omitted, Asked, Remembers, FailedAsSeen
<1>3. QED BY <1>1, <1>2 DEF AllRemember

\* An answer of a running check, for all that it does to the families.
LEMMA AnswerStarts ==
  ASSUME TypeOK, FamiliesRemember, NEW c \in Checks, NEW f \in Families, running[c] # None,
         running[c][f].state = "asked", NEW fam \in AfterAnswer(running[c][f]),
         NEW families, families = [running[c] EXCEPT ![f] = fam]
  PROVE  families \in [Families -> Family] /\ families # None /\ AllRemember(families)
<1>1. running[c] \in [Families -> Family] /\ AllRemember(running[c])
  BY DEF TypeOK, FamiliesRemember, InFlight
<1>2. fam \in Family /\ Remembers(fam)
  BY <1>1, AnswerKeeps DEF AllRemember
<1>3. QED BY <1>1, <1>2 DEF AllRemember

LEMMA InitIInv == Init => IInv
<1>. SUFFICES ASSUME Init PROVE IInv
  OBVIOUS
<1>1. TypeOK
  <2>1. running \in [Checks -> [Families -> Family] \cup {None}]
    BY DEF Init
  <2>2. secs \in [Checks -> (0 .. MaxRetry - 1) \cup {None}]
    BY DEF Init
  <2>3. newest = 0 /\ checking = FALSE /\ overlapped = FALSE
    BY DEF Init
  <2>6. newest \in 0 .. MaxChecks
    BY <2>3
  <2>4. health \in SUBSET Checks /\ visited \in SUBSET Queries
    BY DEF Init
  <2>5. QED BY <2>1, <2>2, <2>3, <2>4, <2>6 DEF Init, TypeOK, Notices
<1>2. InFlight = {} /\ CountingDown = {}
  BY DEF Init, InFlight, CountingDown
<1>3. OneAtATime /\ FamiliesRemember
  BY <1>2 DEF Init, OneAtATime, FamiliesRemember
<1>4. QED BY <1>1, <1>3 DEF IInv

-----------------------------------------------------------------------------
(***************************************************************************)
(* What the actions do, from one place: the three parts of the invariant   *)
(* are proved from these facts.                                            *)
(***************************************************************************)

\* A new check, or a bad query.
LEMMA Started ==
  ASSUME IInv, NEW query \in Queries, RunCheck(query)
  PROVE  /\ newest + 1 \in Checks /\ newest' = newest + 1
         /\ shown' = None /\ cards' = None /\ health' = health
         /\ retryTimer' = None
         /\ secs' = [c \in Checks |-> IF c = retryTimer THEN None ELSE secs[c]]
         /\ \/ notice' = "error" /\ checking' = checking /\ running' = running
            \/ /\ notice' = "none" /\ checking' = TRUE
               /\ \E families \in [Families -> Family] :
                    /\ families # None /\ AllRemember(families)
                    /\ running' = [running EXCEPT ![newest + 1] = families]
<1>1. newest + 1 \in Checks
  BY DEF IInv, TypeOK, RunCheck, Checks
<1>2. secs' = [c \in Checks |-> IF c = retryTimer THEN None ELSE secs[c]]
  <2>1. secs = [c \in Checks |-> secs[c]]
    BY DEF IInv, TypeOK
  <2>2. CASE retryTimer = None
    BY <2>1, <2>2 DEF RunCheck, StopCountdown
  <2>3. CASE retryTimer # None
    BY <2>1, <2>3 DEF RunCheck, StopCountdown
  <2>4. QED BY <2>2, <2>3
<1>3. \/ notice' = "error" /\ checking' = checking /\ running' = running
      \/ /\ notice' = "none" /\ checking' = TRUE
         /\ \E omitted \in {{}, {4}, {6}} :
              running' = [running EXCEPT ![newest + 1] =
                            [f \in Families |-> IF f \in omitted THEN Omitted ELSE Asked]]
  BY DEF RunCheck
<1>4. ASSUME NEW omitted \in {{}, {4}, {6}},
             running' = [running EXCEPT ![newest + 1] =
                           [f \in Families |-> IF f \in omitted THEN Omitted ELSE Asked]]
      PROVE  \E families \in [Families -> Family] :
               /\ families # None /\ AllRemember(families)
               /\ running' = [running EXCEPT ![newest + 1] = families]
  <2>1. PICK families : families = [f \in Families |-> IF f \in omitted THEN Omitted ELSE Asked]
    OBVIOUS
  <2>2. families \in [Families -> Family] /\ families # None /\ AllRemember(families)
    BY <2>1, StartKeeps
  <2>3. running' = [running EXCEPT ![newest + 1] = families]
    BY <1>4, <2>1
  <2>4. QED BY <2>2, <2>3
<1>5. QED BY <1>1, <1>2, <1>3, <1>4 DEF RunCheck, StopCountdown, HideResults

\* An answer to a check that runs: the check ends with it, or goes on.
LEMMA Answered ==
  ASSUME IInv, NEW c \in Checks, NEW f \in Families, Answer(c, f)
  PROVE  /\ running[c] # None
         /\ UNCHANGED <<newest, notice, retryTimer, secs, health, visited, overlapped>>
         /\ \E families \in [Families -> Family] :
              /\ families # None /\ AllRemember(families)
              /\ \/ Render(c, families)
                 \/ /\ running' = [running EXCEPT ![c] = families]
                    /\ UNCHANGED <<checking, shown, cards>>
<1>1. PICK fam \in AfterAnswer(running[c][f]) :
        LET families == [running[c] EXCEPT ![f] = fam] IN
        IF \A g \in Families : families[g].state # "asked"
          THEN Render(c, families)
          ELSE /\ running' = [running EXCEPT ![c] = families]
               /\ UNCHANGED <<checking, shown, cards>>
  BY DEF Answer
<1>2. PICK families : families = [running[c] EXCEPT ![f] = fam]
  OBVIOUS
<1>3. running[c] # None /\ running[c][f].state = "asked"
  BY DEF Answer
<1>4. families \in [Families -> Family] /\ families # None /\ AllRemember(families)
  BY <1>2, <1>3, AnswerStarts DEF IInv
<1>5. \/ Render(c, families)
      \/ running' = [running EXCEPT ![c] = families] /\ UNCHANGED <<checking, shown, cards>>
  BY <1>1, <1>2
<1>6. QED BY <1>3, <1>4, <1>5 DEF Answer

LEMMA TypeStep == IInv /\ [Next]_vars => TypeOK'
<1>. SUFFICES ASSUME IInv, [Next]_vars PROVE TypeOK'
  OBVIOUS
<1>1. TypeOK
  BY DEF IInv
<1>2. ASSUME NEW query \in Queries, RunCheck(query), visited' \in SUBSET Queries,
             overlapped' \in BOOLEAN
      PROVE  TypeOK'
  <2>1. /\ newest + 1 \in Checks /\ newest' = newest + 1 /\ shown' = None /\ cards' = None
        /\ retryTimer' = None /\ health' = health
    BY <1>2, Started
  <2>6. newest' \in 0 .. MaxChecks
    BY <2>1 DEF Checks
  <2>2. secs' \in [Checks -> (0 .. MaxRetry - 1) \cup {None}]
    BY <1>1, <1>2, Started DEF TypeOK
  <2>3. running' \in [Checks -> [Families -> Family] \cup {None}]
    <3>1. PICK families \in [Families -> Family] :
            running' = running \/ running' = [running EXCEPT ![newest + 1] = families]
      BY <1>2, Started, StartKeeps
    <3>2. QED BY <1>1, <3>1 DEF TypeOK
  <2>4. notice' \in Notices /\ checking' \in BOOLEAN
    BY <1>1, <1>2, Started DEF TypeOK, Notices
  <2>5. QED BY <1>1, <1>2, <2>1, <2>2, <2>3, <2>4, <2>6 DEF TypeOK
<1>3. CASE Submit
  BY <1>1, <1>2, <1>3 DEF Submit, TypeOK
<1>4. CASE PopState
  <2>1. PICK query \in visited : RunCheck(query)
    BY <1>4 DEF PopState
  <2>2. overlapped' \in BOOLEAN /\ visited' \in SUBSET Queries /\ query \in Queries
    BY <1>1, <1>4 DEF PopState, TypeOK
  <2>3. QED BY <1>2, <2>1, <2>2
<1>5. ASSUME NEW c \in Checks, NEW f \in Families, Answer(c, f) PROVE TypeOK'
  <2>1. PICK families \in [Families -> Family] :
          \/ Render(c, families)
          \/ running' = [running EXCEPT ![c] = families] /\ UNCHANGED <<checking, shown, cards>>
    BY <1>5, Answered
  <2>2. running' \in [Checks -> [Families -> Family] \cup {None}] /\ checking' \in BOOLEAN
    BY <1>1, <2>1 DEF Render, TypeOK
  <2>3. IF shown' = None THEN cards' = None ELSE cards' \in [Families -> Family]
    BY <1>1, <2>1 DEF Render, TypeOK
  <2>4. shown' \in Checks \cup {None}
    BY <1>1, <2>1 DEF Render, TypeOK
  <2>5. QED BY <1>1, <1>5, <2>2, <2>3, <2>4, Answered DEF TypeOK
<1>6. ASSUME NEW c \in Checks, NEW f \in Families,
             AnswerError(c, f) \/ AnswerUnreachable(c, f) \/ AnswerLimited(c, f)
      PROVE  TypeOK'
  <2>1. running' \in [Checks -> [Families -> Family] \cup {None}]
    BY <1>1, <1>6 DEF AnswerError, AnswerUnreachable, AnswerLimited, Throw, TypeOK
  <2>2. secs' \in [Checks -> (0 .. MaxRetry - 1) \cup {None}]
    <3>1. CASE AnswerLimited(c, f)
      <4>1. PICK retry \in 1 .. MaxRetry : secs' = [secs EXCEPT ![c] = retry - 1]
        BY <3>1 DEF AnswerLimited
      <4>2. retry - 1 \in 0 .. MaxRetry - 1
        OBVIOUS
      <4>3. QED BY <1>1, <4>1, <4>2 DEF TypeOK
    <3>2. QED BY <1>1, <1>6, <3>1 DEF AnswerError, AnswerUnreachable, TypeOK
  <2>3. QED
    BY <1>1, <1>6, <2>1, <2>2 DEF AnswerError, AnswerUnreachable, AnswerLimited, Throw, TypeOK, Notices
<1>7. ASSUME NEW c \in Checks, HealthKnown(c) PROVE TypeOK'
  BY <1>1, <1>7 DEF HealthKnown, TypeOK, Notices
<1>8. ASSUME NEW c \in Checks, CountDown(c) PROVE TypeOK'
  <2>1. secs' \in [Checks -> (0 .. MaxRetry - 1) \cup {None}]
    <3>1. CASE secs[c] > 0
      <4>1. secs[c] - 1 \in 0 .. MaxRetry - 1 /\ secs' = [secs EXCEPT ![c] = secs[c] - 1]
        BY <1>1, <1>8, <3>1 DEF CountDown, TypeOK
      <4>2. QED BY <1>1, <4>1 DEF TypeOK
    <3>2. QED BY <1>1, <1>8, <3>1 DEF CountDown, StopCountdown, TypeOK
  <2>2. QED BY <1>1, <1>8, <2>1 DEF CountDown, StopCountdown, TypeOK, Notices
<1>9. CASE UNCHANGED vars
  BY <1>1, <1>9 DEF vars, TypeOK
<1>10. QED
  BY <1>3, <1>4, <1>5, <1>6, <1>7, <1>8, <1>9 DEF Next, Probes

\* The page does one thing at a time.
LEMMA OneStep == IInv /\ [Next]_vars => OneAtATime'
<1>. SUFFICES ASSUME IInv, [Next]_vars, ~overlapped' PROVE OneAtATime'
  BY DEF OneAtATime
<1>1. TypeOK /\ OneAtATime
  BY DEF IInv
<1>2. overlapped \in BOOLEAN /\ secs \in [Checks -> (0 .. MaxRetry - 1) \cup {None}]
      /\ running \in [Checks -> [Families -> Family] \cup {None}]
      /\ newest \notin {None} /\ retryTimer \in Checks \cup {None}
  BY <1>1 DEF TypeOK
\* Outside of a check everything rests; a check in flight is all there is.
<1>3. ASSUME ~overlapped
      PROVE  /\ ~checking => InFlight = {} /\ CountingDown = {} /\ retryTimer = None
             /\ \A c \in InFlight : /\ c = newest /\ InFlight = {c} /\ CountingDown = {}
                                    /\ retryTimer = None /\ checking = TRUE /\ shown = None
             /\ \A c \in CountingDown : /\ c = newest /\ CountingDown = {c} /\ InFlight = {}
                                        /\ retryTimer = c /\ checking = TRUE /\ shown = None
  BY <1>1, <1>3 DEF OneAtATime
\* The page rests, counts down, or has one check in flight.
<1>4. ASSUME InFlight' = {}, CountingDown' = {}, checking' = FALSE, retryTimer' = None,
             shown' \in {None, newest'}
      PROVE  OneAtATime'
  BY <1>4 DEF OneAtATime
<1>5. ASSUME NEW c, c # None, InFlight' = {c}, CountingDown' = {}, newest' = c, checking' = TRUE,
             retryTimer' = None, shown' = None
      PROVE  OneAtATime'
  BY <1>5 DEF OneAtATime
<1>6. ASSUME NEW c, c # None, CountingDown' = {c}, InFlight' = {}, newest' = c, checking' = TRUE,
             retryTimer' = c, shown' = None
      PROVE  OneAtATime'
  BY <1>6 DEF OneAtATime
<1>7. ASSUME ~overlapped, ~checking, NEW query \in Queries, RunCheck(query) PROVE OneAtATime'
  <2>1. InFlight = {} /\ CountingDown = {} /\ retryTimer = None
    BY <1>3, <1>7
  <2>2. /\ newest + 1 \in Checks /\ newest' = newest + 1 /\ shown' = None /\ retryTimer' = None
        /\ secs' = [c \in Checks |-> IF c = retryTimer THEN None ELSE secs[c]]
    BY <1>7, Started
  <2>3. CountingDown' = {}
    BY <2>1, <2>2 DEF CountingDown
  <2>4. CASE checking' = checking /\ running' = running
    <3>1. InFlight' = {} /\ checking' = FALSE
      BY <1>1, <1>7, <2>1, <2>4 DEF InFlight, TypeOK
    <3>2. QED BY <1>4, <2>2, <2>3, <3>1
  <2>5. ASSUME checking' = TRUE, NEW families \in [Families -> Family], families # None,
               running' = [running EXCEPT ![newest + 1] = families]
        PROVE  OneAtATime'
    <3>1. InFlight' = {newest + 1}
      BY <1>2, <2>1, <2>2, <2>5 DEF InFlight
    <3>2. newest + 1 # None
      BY <2>2
    <3>3. QED BY <1>5, <2>2, <2>3, <2>5, <3>1, <3>2
  <2>6. QED BY <1>7, <2>4, <2>5, Started
<1>8. CASE Submit
  BY <1>7, <1>8 DEF Submit
<1>9. CASE PopState
  <2>1. PICK query \in visited : RunCheck(query)
    BY <1>9 DEF PopState
  <2>2. ~overlapped /\ ~checking /\ query \in Queries
    BY <1>1, <1>9 DEF PopState, TypeOK
  <2>3. QED BY <1>7, <2>1, <2>2
<1>10. ASSUME NEW c \in Checks, NEW f \in Families, Answer(c, f) PROVE OneAtATime'
  <2>1. PICK families \in [Families -> Family] :
          /\ families # None
          /\ \/ Render(c, families)
             \/ running' = [running EXCEPT ![c] = families] /\ UNCHANGED <<checking, shown, cards>>
    BY <1>10, Answered
  <2>2. /\ running[c] # None
        /\ UNCHANGED <<newest, retryTimer, secs, overlapped>>
    BY <1>10, Answered
  <2>3. /\ c \in InFlight /\ c = newest /\ InFlight = {c} /\ CountingDown = {}
        /\ retryTimer = None /\ checking = TRUE /\ shown = None /\ CountingDown' = {}
    BY <1>3, <2>2 DEF InFlight, CountingDown
  <2>4. CASE Render(c, families)
    <3>1. InFlight' = {}
      BY <1>2, <2>3, <2>4 DEF Render, InFlight
    <3>2. QED BY <1>4, <2>2, <2>3, <2>4, <3>1 DEF Render
  <2>5. CASE running' = [running EXCEPT ![c] = families] /\ UNCHANGED <<checking, shown, cards>>
    <3>1. InFlight' = {c}
      BY <1>2, <2>1, <2>3, <2>5 DEF InFlight
    <3>2. QED BY <1>5, <2>2, <2>3, <2>5, <3>1
  <2>6. QED BY <2>1, <2>4, <2>5
<1>11. ASSUME NEW c \in Checks, NEW f \in Families, Throw(c, f)
       PROVE  /\ c = newest /\ CountingDown = {} /\ retryTimer = None /\ checking = TRUE
              /\ shown = None /\ shown' = None /\ newest' = newest /\ InFlight' = {}
  <2>1. /\ running[c] # None /\ running' = [running EXCEPT ![c] = None]
        /\ UNCHANGED <<newest, shown, overlapped>>
    BY <1>11 DEF Throw
  <2>2. /\ c = newest /\ InFlight = {c} /\ CountingDown = {} /\ retryTimer = None
        /\ checking = TRUE /\ shown = None
    BY <1>3, <2>1 DEF InFlight
  <2>3. InFlight' = {}
    BY <1>2, <2>1, <2>2 DEF InFlight
  <2>4. QED BY <2>1, <2>2, <2>3
<1>12. ASSUME NEW c \in Checks, NEW f \in Families, AnswerError(c, f) \/ AnswerUnreachable(c, f)
       PROVE  OneAtATime'
  <2>1. /\ Throw(c, f) /\ checking' = FALSE /\ UNCHANGED <<retryTimer, secs>>
    BY <1>12 DEF AnswerError, AnswerUnreachable
  <2>2. CountingDown' = {}
    BY <1>11, <2>1 DEF CountingDown
  <2>3. QED BY <1>4, <1>11, <2>1, <2>2
<1>13. ASSUME NEW c \in Checks, NEW f \in Families, AnswerLimited(c, f) PROVE OneAtATime'
  <2>1. PICK retry \in 1 .. MaxRetry : secs' = [secs EXCEPT ![c] = retry - 1]
    BY <1>13 DEF AnswerLimited
  <2>2. Throw(c, f) /\ retryTimer' = c /\ checking' = checking /\ c # None
    BY <1>13 DEF AnswerLimited
  <2>3. retry - 1 # None
    OBVIOUS
  <2>4. CountingDown' = {c}
    BY <1>2, <1>11, <2>1, <2>2, <2>3 DEF CountingDown
  <2>5. QED BY <1>6, <1>11, <2>2, <2>4
<1>14. ASSUME NEW c \in Checks, HealthKnown(c) PROVE OneAtATime'
  <2>1. UNCHANGED <<newest, checking, shown, running, retryTimer, secs, overlapped>>
    BY <1>14 DEF HealthKnown
  <2>2. QED BY <1>1, <2>1 DEF OneAtATime, InFlight, CountingDown
<1>15. ASSUME NEW c \in Checks, CountDown(c) PROVE OneAtATime'
  <2>1. /\ secs[c] # None /\ UNCHANGED <<newest, shown, running, overlapped>>
    BY <1>15 DEF CountDown
  <2>2. /\ c = newest /\ CountingDown = {c} /\ InFlight = {} /\ InFlight' = {}
        /\ retryTimer = c /\ checking = TRUE /\ shown = None /\ c # None
    BY <1>3, <2>1 DEF CountingDown, InFlight
  <2>3. CASE secs[c] > 0
    <3>1. secs' = [secs EXCEPT ![c] = secs[c] - 1] /\ secs[c] - 1 # None
          /\ checking' = checking /\ retryTimer' = retryTimer
      BY <1>2, <1>15, <2>1, <2>3 DEF CountDown
    <3>2. CountingDown' = {c}
      BY <1>2, <2>2, <3>1 DEF CountingDown
    <3>3. QED BY <1>6, <2>1, <2>2, <3>1, <3>2
  <2>4. CASE ~(secs[c] > 0)
    <3>1. secs' = [secs EXCEPT ![c] = None] /\ checking' = FALSE /\ retryTimer' = None
      BY <1>15, <2>2, <2>4 DEF CountDown, StopCountdown
    <3>2. CountingDown' = {}
      BY <1>2, <2>2, <3>1 DEF CountingDown
    <3>3. QED BY <1>4, <2>1, <2>2, <3>1, <3>2
  <2>5. QED BY <2>3, <2>4
<1>16. CASE UNCHANGED vars
  BY <1>1, <1>16 DEF vars, OneAtATime, InFlight, CountingDown
<1>17. QED
  BY <1>8, <1>9, <1>10, <1>12, <1>13, <1>14, <1>15, <1>16 DEF Next, Probes

\* What a family remembers stays true of the families that ran before.
LEMMA RememberStep == IInv /\ [Next]_vars => FamiliesRemember'
<1>. SUFFICES ASSUME IInv, [Next]_vars PROVE FamiliesRemember'
  OBVIOUS
<1>1. /\ running \in [Checks -> [Families -> Family] \cup {None}]
      /\ \A c \in Checks : running[c] # None => AllRemember(running[c])
      /\ shown # None => AllRemember(cards)
  BY DEF IInv, TypeOK, FamiliesRemember, InFlight
\* One check starts, goes on or ends; the cards are those of a check.
<1>2. ASSUME NEW c \in Checks, NEW families, families = None \/ AllRemember(families),
             running' = [running EXCEPT ![c] = families],
             shown' = None \/ AllRemember(cards')
      PROVE  FamiliesRemember'
  BY <1>1, <1>2 DEF FamiliesRemember, InFlight
<1>3. ASSUME running' = running, shown' = None \/ (shown' = shown /\ cards' = cards)
      PROVE  FamiliesRemember'
  BY <1>1, <1>3 DEF FamiliesRemember, InFlight
<1>4. ASSUME NEW query \in Queries, RunCheck(query) PROVE FamiliesRemember'
  BY <1>2, <1>3, <1>4, Started
<1>5. CASE Submit
  BY <1>4, <1>5 DEF Submit
<1>6. CASE PopState
  BY <1>4, <1>6 DEF PopState, IInv, TypeOK
<1>7. ASSUME NEW c \in Checks, NEW f \in Families, Answer(c, f) PROVE FamiliesRemember'
  <2>1. PICK families \in [Families -> Family] :
          /\ families # None /\ AllRemember(families)
          /\ \/ Render(c, families)
             \/ running' = [running EXCEPT ![c] = families] /\ UNCHANGED <<checking, shown, cards>>
    BY <1>7, Answered
  <2>2. CASE Render(c, families)
    BY <1>2, <2>1, <2>2 DEF Render
  <2>3. CASE running' = [running EXCEPT ![c] = families] /\ UNCHANGED <<checking, shown, cards>>
    BY <1>1, <1>2, <2>1, <2>3
  <2>4. QED BY <2>1, <2>2, <2>3
<1>8. ASSUME NEW c \in Checks, NEW f \in Families,
             AnswerError(c, f) \/ AnswerUnreachable(c, f) \/ AnswerLimited(c, f)
      PROVE  FamiliesRemember'
  <2>1. Throw(c, f)
    BY <1>8 DEF AnswerError, AnswerUnreachable, AnswerLimited
  <2>2. QED BY <1>1, <1>2, <2>1 DEF Throw
<1>9. ASSUME NEW c \in Checks, HealthKnown(c) \/ CountDown(c) PROVE FamiliesRemember'
  BY <1>3, <1>9 DEF HealthKnown, CountDown
<1>10. CASE UNCHANGED vars
  BY <1>3, <1>10 DEF vars
<1>11. QED
  BY <1>5, <1>6, <1>7, <1>8, <1>9, <1>10 DEF Next, Probes

-----------------------------------------------------------------------------
LEMMA AlwaysIInv == Spec => []IInv
<1>1. Init => IInv
  BY InitIInv
<1>2. IInv /\ [Next]_vars => IInv'
  BY TypeStep, OneStep, RememberStep DEF IInv
<1>3. QED BY <1>1, <1>2, PTL DEF Spec

\* The cards that are shown are whole, and a countdown stays below the longest
\* Retry-After.
THEOREM TypeCorrect == Spec => []TypeOK
<1>1. IInv => TypeOK
  BY DEF IInv
<1>2. QED BY <1>1, AlwaysIInv, PTL

\* As long as popstate does not come in the middle of a check the page does one
\* thing at a time, however many checks there are and however they end.
THEOREM OneThing == Spec => []OneAtATime
<1>1. IInv => OneAtATime
  BY DEF IInv
<1>2. QED BY <1>1, AlwaysIInv, PTL

\* A rejection on any port is remembered to the last one.
THEOREM RejectionWins == Spec => []UnreachableWins
<1>1. IInv => UnreachableWins
  BY DEF IInv, FamiliesRemember, AllRemember, Remembers, UnreachableWins
<1>2. QED BY <1>1, AlwaysIInv, PTL

-----------------------------------------------------------------------------
\* How many answers and ticks of a check can still come: one for each port that
\* a family has left, or one for each second of the countdown and its end.
PortsLeft(fam) == IF fam.state = "asked" THEN MaxPorts + 1 - fam.port ELSE 0

StepsLeft(c) ==
  IF running[c] # None
    THEN MaxRetry + PortsLeft(running[c][4]) + PortsLeft(running[c][6])
  ELSE IF secs[c] # None THEN secs[c] + 1 ELSE 0

\* A check that runs still asks a family, and counts down only when it is over.
AsksSomebody(families) == \E f \in Families : families[f].state = "asked"

ChecksKnown ==
  \A c \in Checks :
    /\ running[c] # None => secs[c] = None /\ c <= newest /\ AsksSomebody(running[c])
    /\ secs[c] # None => c <= newest

BusyHasWork ==
  checking /\ ~overlapped =>
    /\ newest \in Checks
    /\ secs[newest] = None => running[newest] # None /\ AsksSomebody(running[newest])

JustStarted(c) == c = newest' /\ newest' # newest
MovesOn(c) ==
  StepsLeft(c)' < StepsLeft(c) \/ UNCHANGED <<running[c], secs[c]>> \/ JustStarted(c)
BusyOn ==
  checking /\ ~overlapped' =>
    \/ UNCHANGED <<newest, checking, running, secs>>
    \/ newest' = newest /\ newest \in Checks /\ StepsLeft(newest)' < StepsLeft(newest)

WInv == IInv /\ ChecksKnown

LEMMA PortsLeftType ==
  ASSUME NEW fam \in Family
  PROVE  /\ PortsLeft(fam) \in 0 .. MaxPorts
         /\ fam.state = "asked" => PortsLeft(fam) >= 1
BY DEF PortsLeft, Family

\* Every answer brings a family on.
LEMMA AnswerMoves ==
  ASSUME NEW fam \in Family, fam.state = "asked", NEW next \in AfterAnswer(fam), next \in Family
  PROVE  PortsLeft(next) < PortsLeft(fam)
<1>1. \/ \E a \in {"online", "other"} : next = Settled(fam, a)
      \/ \E a \in {"offline", "unreachable"} : next = LastPort(fam, a)
      \/ fam.port < MaxPorts /\ \E a \in {"offline", "unreachable"} : next = NextPort(fam, a)
  BY DEF AfterAnswer
<1>2. fam.port \in 1 .. MaxPorts
  BY DEF Family
<1>3. ASSUME NEW a \in {"online", "other"}, next = Settled(fam, a) PROVE next.state # "asked"
  BY <1>3 DEF Settled, Heard, Family
<1>4. ASSUME NEW a \in {"offline", "unreachable"}, next = LastPort(fam, a) PROVE next.state # "asked"
  BY <1>4 DEF LastPort, Heard, Failed, Family
<1>5. ASSUME NEW a \in {"offline", "unreachable"}, next = NextPort(fam, a) PROVE next.port = fam.port + 1
  BY <1>5 DEF NextPort, Heard, Family
<1>6. next.state # "asked" \/ next.port = fam.port + 1
  BY <1>1, <1>3, <1>4, <1>5
<1>7. QED BY <1>2, <1>6 DEF PortsLeft

\* What the answer leaves of the check.
LEMMA AnswerBrings ==
  ASSUME WInv, NEW c \in Checks, NEW f \in Families, Answer(c, f)
  PROVE  \/ running' = [running EXCEPT ![c] = None]
         \/ /\ checking' = checking
            /\ \E families \in [Families -> Family] :
                 /\ running' = [running EXCEPT ![c] = families]
                 /\ families # None /\ AsksSomebody(families)
                 /\ PortsLeft(families[4]) + PortsLeft(families[6])
                      < PortsLeft(running[c][4]) + PortsLeft(running[c][6])
<1>1. /\ running[c] # None /\ running[c][f].state = "asked" /\ running[c] \in [Families -> Family]
      /\ AllRemember(running[c])
  BY DEF Answer, WInv, IInv, TypeOK, FamiliesRemember, InFlight
<1>2. PICK fam \in AfterAnswer(running[c][f]) :
        LET families == [running[c] EXCEPT ![f] = fam] IN
        IF \A g \in Families : families[g].state # "asked"
          THEN Render(c, families)
          ELSE /\ running' = [running EXCEPT ![c] = families]
               /\ UNCHANGED <<checking, shown, cards>>
  BY DEF Answer
<1>3. PICK families : families = [running[c] EXCEPT ![f] = fam]
  OBVIOUS
<1>4. \/ running' = [running EXCEPT ![c] = None]
      \/ /\ running' = [running EXCEPT ![c] = families] /\ checking' = checking
         /\ AsksSomebody(families)
  BY <1>2, <1>3 DEF Render, AsksSomebody
<1>5. families \in [Families -> Family] /\ families # None
  BY <1>1, <1>3, AnswerStarts DEF WInv, IInv
<1>6. fam \in Family /\ PortsLeft(fam) < PortsLeft(running[c][f])
  BY <1>1, AnswerKeeps, AnswerMoves DEF AllRemember
<1>7. /\ PortsLeft(running[c][4]) \in Nat /\ PortsLeft(running[c][6]) \in Nat
      /\ PortsLeft(fam) \in Nat
  BY <1>1, <1>6, PortsLeftType DEF Families
<1>8. \/ f = 4 /\ families[4] = fam /\ families[6] = running[c][6]
      \/ f = 6 /\ families[6] = fam /\ families[4] = running[c][4]
  BY <1>1, <1>3 DEF Families
<1>9. PortsLeft(families[4]) + PortsLeft(families[6])
        < PortsLeft(running[c][4]) + PortsLeft(running[c][6])
  BY <1>6, <1>7, <1>8
<1>10. QED BY <1>4, <1>5, <1>9

LEMMA StepsLeftType ==
  ASSUME WInv, NEW c \in Checks
  PROVE  /\ StepsLeft(c) \in 0 .. MaxRetry + 2 * MaxPorts
         /\ running[c] # None => StepsLeft(c) > MaxRetry
         /\ running[c] = None /\ secs[c] # None =>
              secs[c] \in Nat /\ StepsLeft(c) = secs[c] + 1 /\ secs[c] < MaxRetry
         /\ running[c] = None /\ secs[c] = None => StepsLeft(c) = 0
<1>1. CASE running[c] # None
  <2>1. running[c] \in [Families -> Family] /\ AsksSomebody(running[c])
    BY <1>1 DEF WInv, IInv, TypeOK, ChecksKnown
  <2>2. /\ PortsLeft(running[c][4]) \in 0 .. MaxPorts /\ PortsLeft(running[c][6]) \in 0 .. MaxPorts
        /\ PortsLeft(running[c][4]) >= 1 \/ PortsLeft(running[c][6]) >= 1
    BY <2>1, PortsLeftType DEF AsksSomebody, Families
  <2>3. QED BY <1>1, <2>2 DEF StepsLeft
<1>2. CASE running[c] = None
  BY <1>2 DEF StepsLeft, WInv, IInv, TypeOK
<1>3. QED BY <1>1, <1>2

\* What a step does to a check.
GoesOn(d) ==
  \/ UNCHANGED <<running[d], secs[d]>>
  \/ /\ JustStarted(d) /\ running[d] = None /\ secs[d] = None
     /\ running'[d] # None /\ AsksSomebody(running'[d]) /\ secs'[d] = None
  \/ /\ running[d] # None /\ running'[d] # None /\ secs'[d] = secs[d] /\ AsksSomebody(running'[d])
     /\ PortsLeft(running'[d][4]) + PortsLeft(running'[d][6])
          < PortsLeft(running[d][4]) + PortsLeft(running[d][6])
  \/ /\ running[d] # None \/ secs[d] # None
     /\ running'[d] = None /\ secs'[d] = None
  \/ running[d] # None /\ running'[d] = None /\ secs'[d] \in 0 .. MaxRetry - 1
  \/ /\ running'[d] = running[d] /\ secs[d] # None /\ secs'[d] # None
     /\ secs[d] \in Nat /\ secs'[d] = secs[d] - 1

LEMMA AllGoOn ==
  ASSUME WInv, Next
  PROVE  newest' >= newest /\ \A d \in Checks : GoesOn(d)
<1>1. /\ newest \in Nat /\ newest # None
      /\ running \in [Checks -> [Families -> Family] \cup {None}]
      /\ secs \in [Checks -> (0 .. MaxRetry - 1) \cup {None}]
      /\ retryTimer \in Checks \cup {None} /\ visited \subseteq Queries
  BY DEF WInv, IInv, TypeOK
<1>2. \A d \in Checks : /\ running[d] # None => secs[d] = None /\ d <= newest
                        /\ secs[d] # None => d <= newest
  BY DEF WInv, ChecksKnown
<1>3. ASSUME NEW query \in Queries, RunCheck(query)
      PROVE  newest' >= newest /\ \A d \in Checks : GoesOn(d)
  <2>1. /\ newest + 1 \in Checks /\ newest' = newest + 1
        /\ secs' = [c \in Checks |-> IF c = retryTimer THEN None ELSE secs[c]]
    BY <1>3, Started DEF WInv
  <2>2. running[newest + 1] = None /\ secs[newest + 1] = None /\ secs'[newest + 1] = None
    BY <1>1, <1>2, <2>1
  <2>3. \A d \in Checks : secs'[d] = None \/ secs'[d] = secs[d]
    BY <2>1
  <2>4. CASE running' = running
    BY <1>1, <1>2, <2>1, <2>3, <2>4 DEF GoesOn
  <2>5. ASSUME NEW omitted \in {{}, {4}, {6}},
               running' = [running EXCEPT ![newest + 1] =
                             [f \in Families |-> IF f \in omitted THEN Omitted ELSE Asked]]
        PROVE  \A d \in Checks : GoesOn(d)
    <3>1. PICK families : families = [f \in Families |-> IF f \in omitted THEN Omitted ELSE Asked]
      OBVIOUS
    <3>2. families # None
      BY <3>1, StartKeeps
    <3>3. AsksSomebody(families)
      BY <3>1 DEF AsksSomebody, Families, Asked
    <3>4. running' = [running EXCEPT ![newest + 1] = families]
      BY <2>5, <3>1
    <3>5. GoesOn(newest + 1)
      BY <1>1, <2>1, <2>2, <3>2, <3>3, <3>4 DEF GoesOn, JustStarted
    <3>6. ASSUME NEW d \in Checks, d # newest + 1 PROVE GoesOn(d)
      BY <1>1, <1>2, <2>3, <3>4, <3>6 DEF GoesOn
    <3>7. QED BY <3>5, <3>6
  <2>6. running' = running \/ \E omitted \in {{}, {4}, {6}} :
               running' = [running EXCEPT ![newest + 1] =
                             [f \in Families |-> IF f \in omitted THEN Omitted ELSE Asked]]
    BY <1>3 DEF RunCheck
  <2>7. QED BY <1>1, <2>1, <2>4, <2>5, <2>6
<1>4. CASE Submit \/ PopState
  BY <1>1, <1>3, <1>4 DEF Submit, PopState
\* An event of a check that runs, and of its countdown.
<1>5. ASSUME NEW c \in Checks, GoesOn(c), newest' = newest,
             \A d \in Checks \ {c} : UNCHANGED <<running[d], secs[d]>>
      PROVE  newest' >= newest /\ \A d \in Checks : GoesOn(d)
  BY <1>1, <1>5 DEF GoesOn
<1>6. ASSUME NEW c \in Checks, NEW f \in Families, Answer(c, f)
      PROVE  newest' >= newest /\ \A d \in Checks : GoesOn(d)
  <2>1. running[c] # None /\ secs' = secs /\ newest' = newest
    BY <1>6 DEF Answer
  <2>2. \A d \in Checks \ {c} : UNCHANGED <<running[d], secs[d]>>
    BY <1>1, <1>6, <2>1, AnswerBrings
  <2>3. GoesOn(c)
    <3>1. CASE running' = [running EXCEPT ![c] = None]
      BY <1>1, <1>2, <2>1, <3>1 DEF GoesOn
    <3>2. ASSUME NEW families \in [Families -> Family],
                 running' = [running EXCEPT ![c] = families],
                 families # None, AsksSomebody(families),
                 PortsLeft(families[4]) + PortsLeft(families[6])
                   < PortsLeft(running[c][4]) + PortsLeft(running[c][6])
          PROVE  GoesOn(c)
      <4>1. running'[c] = families /\ secs'[c] = secs[c]
        BY <1>1, <2>1, <3>2
      <4>2. QED BY <2>1, <3>2, <4>1 DEF GoesOn
    <3>3. QED BY <1>6, <3>1, <3>2, AnswerBrings
  <2>4. QED BY <1>5, <2>1, <2>2, <2>3
<1>7. ASSUME NEW c \in Checks, NEW f \in Families,
             AnswerError(c, f) \/ AnswerUnreachable(c, f) \/ AnswerLimited(c, f)
      PROVE  newest' >= newest /\ \A d \in Checks : GoesOn(d)
  <2>1. /\ running[c] # None /\ running' = [running EXCEPT ![c] = None] /\ newest' = newest
        /\ secs' = secs \/ \E retry \in 1 .. MaxRetry : secs' = [secs EXCEPT ![c] = retry - 1]
    BY <1>7 DEF AnswerError, AnswerUnreachable, AnswerLimited, Throw
  <2>2. running'[c] = None /\ secs[c] = None
    BY <1>1, <1>2, <2>1
  <2>3. secs'[c] = None \/ secs'[c] \in 0 .. MaxRetry - 1
    BY <1>1, <2>1, <2>2
  <2>4. \A d \in Checks \ {c} : UNCHANGED <<running[d], secs[d]>>
    BY <1>1, <2>1
  <2>5. GoesOn(c)
    BY <2>1, <2>2, <2>3 DEF GoesOn
  <2>6. QED BY <1>5, <2>1, <2>4, <2>5
<1>8. ASSUME NEW c \in Checks, HealthKnown(c)
      PROVE  newest' >= newest /\ \A d \in Checks : GoesOn(d)
  BY <1>1, <1>8 DEF HealthKnown, GoesOn
<1>9. ASSUME NEW c \in Checks, CountDown(c)
      PROVE  newest' >= newest /\ \A d \in Checks : GoesOn(d)
  <2>1. secs[c] # None /\ running' = running /\ newest' = newest
    BY <1>9 DEF CountDown
  <2>2. CASE secs[c] > 0
    <3>1. secs' = [secs EXCEPT ![c] = secs[c] - 1]
      BY <1>9, <2>2 DEF CountDown
    <3>2. secs[c] \in Nat /\ secs'[c] = secs[c] - 1 /\ secs'[c] # None
      BY <1>1, <2>1, <3>1
    <3>3. QED BY <1>1, <1>5, <2>1, <3>1, <3>2 DEF GoesOn
  <2>3. CASE ~(secs[c] > 0)
    <3>1. secs' = secs \/ (retryTimer \in Checks /\ secs' = [secs EXCEPT ![retryTimer] = None])
      BY <1>1, <1>9, <2>3 DEF CountDown, StopCountdown
    <3>2. \A d \in Checks : secs'[d] = None \/ secs'[d] = secs[d]
      BY <1>1, <3>1
    <3>3. QED BY <1>1, <1>2, <2>1, <3>2 DEF GoesOn
  <2>4. QED BY <2>2, <2>3
<1>10. QED BY <1>4, <1>6, <1>7, <1>8, <1>9 DEF Next, Probes

LEMMA ChecksStep ==
  ASSUME WInv, [Next]_vars
  PROVE  ChecksKnown'
<1>1. CASE Next
  <2>1. newest' >= newest /\ newest' \in Int /\ newest \in Int
    BY <1>1, AllGoOn, TypeStep DEF WInv, IInv, TypeOK
  <2>2. ASSUME NEW d \in Checks
        PROVE /\ running'[d] # None => secs'[d] = None /\ d <= newest' /\ AsksSomebody(running'[d])
              /\ secs'[d] # None => d <= newest'
    <3>1. GoesOn(d) /\ d \in Int
      BY <1>1, AllGoOn DEF Checks
    <3>2. /\ running[d] # None => secs[d] = None /\ d <= newest /\ AsksSomebody(running[d])
          /\ secs[d] # None => d <= newest
      BY DEF WInv, ChecksKnown
    <3>3. QED BY <2>1, <3>1, <3>2 DEF GoesOn, JustStarted
  <2>3. QED BY <2>2 DEF ChecksKnown, AsksSomebody
<1>2. CASE UNCHANGED vars
  BY <1>2 DEF vars, WInv, ChecksKnown, AsksSomebody
<1>3. QED BY <1>1, <1>2

LEMMA AllMoveOn ==
  ASSUME WInv, Next, WInv', NEW d \in Checks
  PROVE  MovesOn(d)
<1>1. GoesOn(d)
  BY AllGoOn
<1>2. /\ StepsLeft(d) \in Nat
      /\ running[d] # None => StepsLeft(d) > MaxRetry
      /\ running[d] = None /\ secs[d] # None =>
           secs[d] \in Nat /\ StepsLeft(d) = secs[d] + 1
  BY StepsLeftType
<1>3. CASE /\ running[d] # None /\ running'[d] # None
           /\ PortsLeft(running'[d][4]) + PortsLeft(running'[d][6])
                < PortsLeft(running[d][4]) + PortsLeft(running[d][6])
  <2>1. running[d] \in [Families -> Family] /\ running'[d] \in [Families -> Family]
    BY <1>3 DEF WInv, IInv, TypeOK
  <2>2. PICK a, b, x, y : /\ a = PortsLeft(running[d][4]) /\ b = PortsLeft(running[d][6])
                          /\ x = PortsLeft(running'[d][4]) /\ y = PortsLeft(running'[d][6])
    OBVIOUS
  <2>3. /\ a \in Nat /\ b \in Nat /\ x \in Nat /\ y \in Nat
    BY <2>1, <2>2, PortsLeftType DEF Families
  <2>4. StepsLeft(d) = MaxRetry + a + b /\ StepsLeft(d)' = MaxRetry + x + y
    BY <1>3, <2>2 DEF StepsLeft, PortsLeft
  <2>5. QED BY <1>3, <2>2, <2>3, <2>4 DEF MovesOn
<1>4. CASE (running[d] # None \/ secs[d] # None) /\ running'[d] = None /\ secs'[d] = None
  <2>1. StepsLeft(d)' = 0 /\ StepsLeft(d) > 0
    BY <1>2, <1>4 DEF StepsLeft
  <2>2. QED BY <2>1 DEF MovesOn
<1>5. CASE running[d] # None /\ running'[d] = None /\ secs'[d] \in 0 .. MaxRetry - 1
  <2>1. StepsLeft(d)' = secs'[d] + 1 /\ StepsLeft(d) > MaxRetry
    BY <1>2, <1>5 DEF StepsLeft
  <2>2. QED BY <1>5, <2>1, <1>2 DEF MovesOn
<1>6. CASE /\ running'[d] = running[d] /\ secs[d] # None /\ secs'[d] # None
           /\ secs[d] \in Nat /\ secs'[d] = secs[d] - 1
  <2>1. running[d] = None
    BY <1>6 DEF WInv, ChecksKnown
  <2>2. StepsLeft(d)' = secs'[d] + 1 /\ StepsLeft(d) = secs[d] + 1
    BY <1>6, <2>1 DEF StepsLeft
  <2>3. QED BY <1>6, <2>2 DEF MovesOn
<1>7. QED BY <1>1, <1>3, <1>4, <1>5, <1>6 DEF GoesOn, MovesOn

LEMMA BusyMoves ==
  ASSUME WInv, Next, WInv', checking, ~overlapped'
  PROVE  BusyOn
<1>1. ~Submit /\ ~PopState /\ overlapped = overlapped'
  <2>1. ~Submit /\ ~PopState
    BY DEF Submit, PopState
  <2>2. QED BY <2>1 DEF Next, Probes, Answer, AnswerError, AnswerUnreachable, AnswerLimited,
                        Throw, HealthKnown, CountDown
<1>2. PICK c \in Checks : Probes(c) \/ HealthKnown(c) \/ CountDown(c)
  BY <1>1 DEF Next
<1>3. CASE HealthKnown(c)
  BY <1>3 DEF HealthKnown, BusyOn
<1>4. CASE Probes(c) \/ CountDown(c)
  <2>1. c = newest /\ newest' = newest
    <3>1. (running[c] # None \/ secs[c] # None) /\ newest' = newest
      BY <1>4 DEF Probes, Answer, AnswerError, AnswerUnreachable, AnswerLimited, Throw, CountDown
    <3>2. QED BY <1>1, <3>1 DEF WInv, IInv, OneAtATime, InFlight, CountingDown
  <2>2. CASE \E f \in Families : Answer(c, f)
    <3>1. PICK f \in Families : Answer(c, f)
      BY <2>2
    <3>2. running'[c] # running[c]
      <4>1. running[c] # None /\ c \in DOMAIN running
        BY <3>1 DEF Answer, WInv, IInv, TypeOK
      <4>2. CASE running' = [running EXCEPT ![c] = None]
        BY <4>1, <4>2
      <4>3. ASSUME NEW families \in [Families -> Family],
                   running' = [running EXCEPT ![c] = families],
                   PortsLeft(families[4]) + PortsLeft(families[6])
                     < PortsLeft(running[c][4]) + PortsLeft(running[c][6])
            PROVE  running'[c] # running[c]
        <5>1. running[c] \in [Families -> Family]
          BY <4>1 DEF WInv, IInv, TypeOK
        <5>2. PICK a \in Nat, b \in Nat :
                a = PortsLeft(running[c][4]) /\ b = PortsLeft(running[c][6])
          BY <5>1, PortsLeftType DEF Families
        <5>3. running'[c] = families
          BY <4>1, <4>3
        <5>4. ~(a + b < a + b)
          BY <5>2
        <5>5. QED BY <4>3, <5>2, <5>3, <5>4
      <4>4. QED BY <3>1, <4>2, <4>3, AnswerBrings
    <3>3. QED BY <1>2, <2>1, <3>2, AllMoveOn DEF BusyOn, MovesOn, JustStarted
  <2>3. CASE \E f \in Families : Throw(c, f)
    <3>1. running'[c] # running[c]
      BY <2>3 DEF Throw, WInv, IInv, TypeOK
    <3>2. QED BY <1>2, <2>1, <3>1, AllMoveOn DEF BusyOn, MovesOn, JustStarted
  <2>4. CASE CountDown(c)
    <3>1. secs[c] # None /\ retryTimer = c /\ secs \in [Checks -> (0 .. MaxRetry - 1) \cup {None}]
      BY <1>1, <2>4 DEF CountDown, WInv, IInv, OneAtATime, CountingDown, TypeOK
    <3>2. CASE secs[c] > 0
      <4>1. secs'[c] = secs[c] - 1 /\ secs[c] \in Nat
        BY <2>4, <3>1, <3>2 DEF CountDown
      <4>2. secs'[c] # secs[c]
        BY <4>1
      <4>3. QED BY <1>2, <2>1, <4>2, AllMoveOn DEF BusyOn, MovesOn, JustStarted
    <3>3. CASE ~(secs[c] > 0)
      <4>1. secs'[c] = None
        BY <2>4, <3>1, <3>3 DEF CountDown, StopCountdown
      <4>2. QED BY <1>2, <2>1, <3>1, <4>1, AllMoveOn DEF BusyOn, MovesOn, JustStarted
    <3>4. QED BY <3>2, <3>3
  <2>5. QED BY <1>4, <2>2, <2>3, <2>4 DEF Probes, AnswerError, AnswerUnreachable, AnswerLimited
<1>5. QED BY <1>2, <1>3, <1>4

LEMMA AlwaysWInv == Spec => []WInv
<1>1. Init => WInv
  <2>1. Init => ChecksKnown
    BY DEF Init, ChecksKnown
  <2>2. QED BY <2>1, InitIInv DEF WInv
<1>2. WInv /\ [Next]_vars => WInv'
  BY ChecksStep, TypeStep, OneStep, RememberStep DEF WInv, IInv
<1>3. QED BY <1>1, <1>2, PTL DEF Spec

\* A busy page, as long as popstate did not come in between, has something that
\* brings it on: its newest check still asks a family, or counts down.
THEOREM BusyPageIsAtWork == Spec => []BusyHasWork
<1>1. WInv => BusyHasWork
  <2>. SUFFICES ASSUME WInv, checking, ~overlapped PROVE BusyHasWork
    BY DEF BusyHasWork
  <2>1. InFlight \cup CountingDown # {} /\ InFlight \cup CountingDown \subseteq {newest}
    BY DEF WInv, IInv, OneAtATime
  <2>2. newest \in Checks /\ (running[newest] # None \/ secs[newest] # None)
    BY <2>1 DEF InFlight, CountingDown
  <2>3. QED BY <2>2 DEF BusyHasWork, WInv, ChecksKnown
<1>2. QED BY <1>1, AlwaysWInv, PTL

\* And it comes to an end: every event that changes a check leaves it fewer
\* events than before, MaxRetry and two for each port at most, unless it has
\* just begun; while the page is busy each event but the web host's answer to an
\* earlier check is one of the newest.
THEOREM BusyIsBounded ==
  Spec => /\ [](\A c \in Checks : StepsLeft(c) \in 0 .. MaxRetry + 2 * MaxPorts)
          /\ [][\A c \in Checks : MovesOn(c)]_vars
          /\ [][BusyOn]_vars
<1>1. WInv => \A c \in Checks : StepsLeft(c) \in 0 .. MaxRetry + 2 * MaxPorts
  BY StepsLeftType
<1>2. WInv /\ WInv' /\ [Next]_vars => [\A c \in Checks : MovesOn(c)]_vars
  BY AllMoveOn
<1>3. WInv /\ WInv' /\ [Next]_vars => [BusyOn]_vars
  <2>1. ~(checking /\ ~overlapped') => BusyOn
    BY DEF BusyOn
  <2>2. QED BY <2>1, BusyMoves
<1>4. QED BY <1>1, <1>2, <1>3, AlwaysWInv, PTL DEF Spec
=============================================================================
