----------------------------- MODULE RaceProofs -----------------------------
(***************************************************************************)
(* Proofs about Race, for every number of transports and every value of    *)
(* the head start, the grace and the timeout.                              *)
(***************************************************************************)
EXTENDS Race, NumberFacts, TLAPS, FiniteSetTheorems

SentOnes == {i \in Transports : sent[i] # None}

\* What went through the channel: an outcome was sent by a started transport,
\* and is in the channel or was received as it was sent; the channel holds no
\* more than what was sent.
Channel ==
  /\ \A i \in Transports :
       /\ sent[i] # None => i < started
       /\ sent[i] # None => ended[i] = sent[i] \/ \E k \in DOMAIN outcomes : outcomes[k] = i
       /\ ended[i] # None => ended[i] = sent[i]
  /\ \A k \in DOMAIN outcomes : sent[outcomes[k]] # None
  /\ Len(outcomes) <= Cardinality(SentOnes)

\* The grace begins in the instant the first answer is sent: the loop takes it
\* from the channel and decides before the clock goes on.
GraceKnown ==
  /\ answerAt # None <=> \E i \in Transports : sent[i] \in {"status", "weak"}
  /\ graceAt # None => Answers # {} /\ graceAt = answerAt + Grace
  /\ pc = "select" /\ Answers # {} => graceAt # None
  /\ pc # "done" /\ answerAt # None /\ graceAt = None => answerAt = now

\* The timer runs while another transport may be needed.
TimerKnown ==
  /\ nextAt # None => nextAt = lastStart + HeadStart
  /\ nextAt = None => started = N \/ Statuses # {}

DoneKnown == pc = "done" <=> result # None

IInv ==
  /\ TypeOK
  /\ Channel
  /\ GraceKnown
  /\ TimerKnown
  /\ DoneKnown
  /\ PreferredWins
  /\ TimesKept

USE RaceAssumption, NoneAssumption DEF Transports, Failures, Errors, Kinds

LEMMA NoneIsNoTime == None \notin Int
OBVIOUS

LEMMA InitIInv == Init => IInv
<1>. SUFFICES ASSUME Init PROVE IInv
  OBVIOUS
<1>1. TypeOK
  BY DEF Init, TypeOK
<1>2. Channel
  <2>1. SentOnes = {}
    BY DEF Init, SentOnes
  <2>2. Len(outcomes) = 0 /\ Cardinality(SentOnes) = 0
    BY <2>1, FS_EmptySet DEF Init
  <2>3. QED BY <2>2 DEF Init, Channel
<1>3. GraceKnown /\ TimerKnown /\ DoneKnown
  BY DEF Init, GraceKnown, TimerKnown, DoneKnown, Answers
<1>4. PreferredWins /\ TimesKept
  BY DEF Init, PreferredWins, TimesKept, AnswerWaitsAtMostGrace, NextStartsInTime
<1>5. QED
  BY <1>1, <1>2, <1>3, <1>4 DEF IInv

\* The answers and the statuses the loop can return: positions of transports.
LEMMA LeastOnes ==
  ASSUME TypeOK
  PROVE  /\ Open # {} => Min(Open) \in Open /\ \A i \in Open : Min(Open) <= i
         /\ Answers # {} => Min(Answers) \in Answers /\ \A i \in Answers : Min(Answers) <= i
         /\ Statuses # {} => Min(Statuses) \in Statuses /\ \A i \in Statuses : Min(Statuses) <= i
<1>1. Open \in SUBSET Nat /\ Answers \in SUBSET Nat /\ Statuses \in SUBSET Nat
  BY DEF Open, Answers, Statuses
<1>2. QED
  BY <1>1, LeastElement

LEMMA TypeStep == IInv /\ [Next]_vars => TypeOK'
<1>. SUFFICES ASSUME IInv, [Next]_vars PROVE TypeOK'
  OBVIOUS
<1>. USE DEF IInv
<1>1. ASSUME NEW i \in Transports, TransportEnds(i) PROVE TypeOK'
  BY <1>1 DEF TransportEnds, Running, TypeOK
<1>2. CASE DecideStatus
  BY <1>2, LeastOnes DEF DecideStatus, Return, TypeOK, Statuses
<1>3. CASE DecideWait
  BY <1>3 DEF DecideWait, TypeOK
<1>4. CASE DecideStart
  BY <1>4 DEF DecideStart, StartNext, TypeOK
<1>5. CASE DecideSettle
  <2>1. result' \in Transports \cup Failures
    BY <1>5, LeastOnes DEF DecideSettle, Return, Failure, Answers
  <2>2. QED
    BY <1>5, <2>1 DEF DecideSettle, Return, TypeOK
<1>6. CASE SelectOutcome
  <2>1. Head(outcomes) \in Transports /\ Tail(outcomes) \in Seq(Transports)
    BY <1>6 DEF SelectOutcome, TypeOK
  <2>2. QED
    BY <1>6, <2>1 DEF SelectOutcome, TypeOK
<1>7. CASE SelectNext
  BY <1>7 DEF SelectNext, StartNext, TypeOK
<1>8. CASE SelectGraceUp
  <2>1. Answers # {}
    BY <1>8 DEF SelectGraceUp, GraceFires, GraceKnown
  <2>2. result' \in Transports
    BY <1>8, <2>1, LeastOnes DEF SelectGraceUp, Return, Answers, Statuses
  <2>3. QED
    BY <1>8, <2>2 DEF SelectGraceUp, Return, TypeOK
<1>9. CASE Tick
  BY <1>9 DEF Tick, TypeOK
<1>10. CASE UNCHANGED vars
  BY <1>10 DEF vars, TypeOK
<1>11. QED
  BY <1>1, <1>2, <1>3, <1>4, <1>5, <1>6, <1>7, <1>8, <1>9, <1>10 DEF Next, Loop

\* Only the end of a transport and its receipt touch the channel.
Quiet == UNCHANGED <<sent, outcomes, ended, answerAt>> /\ started' >= started

LEMMA QuietSteps ==
  ASSUME TypeOK, [Next]_vars
  PROVE  Quiet \/ SelectOutcome \/ \E i \in Transports : TransportEnds(i)
<1>1. DecideStatus \/ DecideWait \/ DecideSettle \/ SelectGraceUp \/ Tick \/ UNCHANGED vars => Quiet
  BY DEF Quiet, DecideStatus, DecideWait, DecideSettle, SelectGraceUp, Tick, vars, TypeOK
<1>2. DecideStart \/ SelectNext => Quiet
  BY DEF Quiet, DecideStart, SelectNext, StartNext, TypeOK
<1>3. QED
  BY <1>1, <1>2 DEF Next, Loop

LEMMA SentFinite == IsFiniteSet(SentOnes) /\ Cardinality(SentOnes) \in Nat
<1>1. IsFiniteSet(Transports)
  BY FS_Interval
<1>2. QED
  BY <1>1, FS_Subset, FS_CardinalityType DEF SentOnes

LEMMA ChannelStep == IInv /\ [Next]_vars => Channel'
<1>. SUFFICES ASSUME IInv, [Next]_vars PROVE Channel'
  OBVIOUS
<1>. USE DEF IInv
<1>1. CASE Quiet
  <2>1. SentOnes' = SentOnes
    BY <1>1 DEF Quiet, SentOnes
  <2>2. sent' = sent /\ outcomes' = outcomes /\ ended' = ended /\ started' >= started
    BY <1>1 DEF Quiet
  <2>3. started \in Int /\ started' \in Int
    BY TypeStep DEF TypeOK
  <2>4. \A i \in Transports : i < started => i < started'
    BY <2>2, <2>3
  <2>5. QED
    BY Zenon, <2>1, <2>2, <2>4 DEF Channel
<1>2. CASE SelectOutcome
  <2>. DEFINE h == Head(outcomes)
  <2>1. /\ h \in Transports /\ h = outcomes[1] /\ 1 \in DOMAIN outcomes
        /\ Len(outcomes') = Len(outcomes) - 1
        /\ \A k \in DOMAIN outcomes' : k + 1 \in DOMAIN outcomes /\ outcomes'[k] = outcomes[k + 1]
        /\ \A k \in DOMAIN outcomes : k # 1 => k - 1 \in DOMAIN outcomes' /\ outcomes'[k - 1] = outcomes[k]
    <3>1. outcomes \in Seq(Transports) /\ outcomes # << >> /\ outcomes' = Tail(outcomes)
      BY <1>2 DEF SelectOutcome, TypeOK
    <3>2. /\ Len(outcomes) \in Nat /\ Len(outcomes) >= 1
          /\ DOMAIN outcomes = 1 .. Len(outcomes)
          /\ DOMAIN outcomes' = 1 .. Len(outcomes')
          /\ Len(outcomes') = Len(outcomes) - 1
      BY <3>1
    <3>3. \A k \in 1 .. Len(outcomes) - 1 : outcomes'[k] = outcomes[k + 1]
      BY <3>1, <3>2
    <3>4. h = outcomes[1] /\ h \in Transports
      BY <3>1, <3>2
    <3>5. QED BY <3>2, <3>3, <3>4
  <2>2. ended' = [ended EXCEPT ![h] = sent[h]] /\ UNCHANGED <<sent, started>>
    BY <1>2 DEF SelectOutcome
  <2>. HIDE DEF h
  <2>3. SentOnes' = SentOnes
    BY <2>2 DEF SentOnes
  <2>4. Len(outcomes') <= Cardinality(SentOnes')
    BY <2>1, <2>3, SentFinite DEF Channel, TypeOK
  <2>5. \A k \in DOMAIN outcomes' : sent'[outcomes'[k]] # None
    BY <2>1, <2>2 DEF Channel
  <2>6. ASSUME NEW i \in Transports
        PROVE  /\ sent'[i] # None => i < started'
               /\ ended'[i] # None => ended'[i] = sent'[i]
    BY <2>1, <2>2 DEF Channel, TypeOK
  <2>7. ASSUME NEW i \in Transports, sent'[i] # None
        PROVE  ended'[i] = sent'[i] \/ \E k \in DOMAIN outcomes' : outcomes'[k] = i
    <3>1. CASE i = h
      BY <2>2, <3>1 DEF TypeOK
    <3>2. CASE i # h
      <4>1. ended[i] = sent[i] \/ \E k \in DOMAIN outcomes : outcomes[k] = i
        BY <2>2, <2>7 DEF Channel
      <4>2. ASSUME NEW k \in DOMAIN outcomes, outcomes[k] = i
            PROVE  k - 1 \in DOMAIN outcomes' /\ outcomes'[k - 1] = i
        BY <2>1, <3>2, <4>2
      <4>3. ended'[i] = ended[i]
        BY <2>2, <3>2 DEF TypeOK
      <4>4. QED
        BY <2>2, <4>1, <4>2, <4>3
    <3>3. QED
      BY <3>1, <3>2
  <2>8. QED
    BY <2>4, <2>5, <2>6, <2>7 DEF Channel
<1>3. ASSUME NEW i \in Transports, TransportEnds(i) PROVE Channel'
  <2>1. PICK kind \in Kinds : sent' = [sent EXCEPT ![i] = kind]
    BY <1>3 DEF TransportEnds
  <2>2. /\ outcomes' = Append(outcomes, i) /\ UNCHANGED <<ended, started>>
        /\ i < started /\ sent[i] = None
    BY <1>3 DEF TransportEnds, Running
  <2>3. /\ Len(outcomes') = Len(outcomes) + 1
        /\ \A k \in DOMAIN outcomes : k \in DOMAIN outcomes' /\ outcomes'[k] = outcomes[k]
        /\ Len(outcomes') \in DOMAIN outcomes' /\ outcomes'[Len(outcomes')] = i
        /\ \A k \in DOMAIN outcomes' : k \in DOMAIN outcomes \/ outcomes'[k] = i
    BY <2>2 DEF TypeOK
  <2>4. SentOnes' = SentOnes \cup {i} /\ i \notin SentOnes
    BY <2>1, <2>2 DEF SentOnes, TypeOK
  <2>5. Cardinality(SentOnes') = Cardinality(SentOnes) + 1
    BY <2>4, SentFinite, FS_AddElement
  <2>6. Len(outcomes') <= Cardinality(SentOnes')
    BY <2>3, <2>5, SentFinite DEF Channel, TypeOK
  <2>7. \A k \in DOMAIN outcomes' : sent'[outcomes'[k]] # None
    BY <2>1, <2>3 DEF Channel, TypeOK
  <2>8. \A j \in Transports : j # i => sent'[j] = sent[j]
    BY <2>1 DEF TypeOK
  <2>9. ended[i] = None /\ sent'[i] \in Kinds
    BY <2>1, <2>2 DEF Channel, TypeOK
  <2>10. ASSUME NEW j \in Transports
         PROVE  /\ sent'[j] # None => j < started'
                /\ ended'[j] # None => ended'[j] = sent'[j]
    BY <2>2, <2>8, <2>9 DEF Channel
  <2>11. ASSUME NEW j \in Transports, sent'[j] # None
         PROVE  ended'[j] = sent'[j] \/ \E k \in DOMAIN outcomes' : outcomes'[k] = j
    BY <2>2, <2>3, <2>8, <2>11 DEF Channel
  <2>12. QED
    BY <2>6, <2>7, <2>10, <2>11 DEF Channel
<1>4. QED
  BY <1>1, <1>2, <1>3, QuietSteps

\* What was received stays received, and is what was sent.
LEMMA ReceivedStays ==
  ASSUME IInv, [Next]_vars
  PROVE  /\ \A i \in Transports : ended[i] # None => ended'[i] = ended[i]
         /\ Answers \subseteq Answers' /\ Statuses \subseteq Statuses'
<1>. USE DEF IInv
<1>1. \A i \in Transports : ended[i] # None => ended'[i] = ended[i]
  <2>1. CASE SelectOutcome
    BY <2>1 DEF SelectOutcome, Channel, TypeOK
  <2>2. CASE Quiet
    BY <2>2 DEF Quiet
  <2>3. CASE \E i \in Transports : TransportEnds(i)
    BY <2>3 DEF TransportEnds
  <2>4. QED
    BY <2>1, <2>2, <2>3, QuietSteps
<1>2. QED
  BY <1>1 DEF Answers, Statuses

LEMMA GraceStep == IInv /\ [Next]_vars => GraceKnown'
<1>. SUFFICES ASSUME IInv, [Next]_vars PROVE GraceKnown'
  OBVIOUS
<1>. USE DEF IInv
<1>1. Answers \subseteq Answers'
  BY ReceivedStays
<1>2. Answers # {} => answerAt # None
  BY DEF Answers, Channel, GraceKnown
<1>3. ASSUME NEW i \in Transports, TransportEnds(i) PROVE GraceKnown'
  <2>1. PICK kind \in Kinds :
          /\ sent' = [sent EXCEPT ![i] = kind]
          /\ answerAt' = IF kind \notin Errors /\ answerAt = None THEN now ELSE answerAt
    BY <1>3 DEF TransportEnds
  <2>2. UNCHANGED <<now, pc, ended, graceAt>> /\ Answers' = Answers
    BY <1>3 DEF TransportEnds, Answers
  <2>3. answerAt' # None <=> \E j \in Transports : sent'[j] \in {"status", "weak"}
    <3>1. sent[i] = None /\ sent'[i] = kind /\ \A j \in Transports : j # i => sent'[j] = sent[j]
      BY <1>3, <2>1 DEF TransportEnds, Running, TypeOK
    <3>2. CASE kind \in Errors
      BY <2>1, <3>1, <3>2 DEF GraceKnown
    <3>3. CASE kind \notin Errors
      <4>1. sent'[i] \in {"status", "weak"}
        BY <3>1, <3>3
      <4>2. answerAt' # None
        <5>1. now \in Int
          BY DEF TypeOK
        <5>2. QED BY <2>1, <3>3, <5>1, NoneIsNoTime
      <4>3. QED BY Zenon, <4>1, <4>2
    <3>4. QED BY <3>2, <3>3
  <2>4. graceAt # None => answerAt' = answerAt
    BY <1>2, <2>1 DEF GraceKnown
  <2>5. answerAt' = answerAt \/ answerAt' = now
    BY <2>1
  <2>6. QED
    BY <2>2, <2>3, <2>4, <2>5 DEF GraceKnown
<1>4. CASE DecideStatus \/ DecideSettle \/ SelectGraceUp
  BY <1>4 DEF DecideStatus, DecideSettle, SelectGraceUp, Return, GraceKnown, Answers
<1>5. CASE DecideWait
  <2>1. Answers' = Answers
    BY <1>5 DEF DecideWait, Answers
  <2>2. UNCHANGED <<now, sent, ended, answerAt>> /\ pc = "decide" /\ pc' = "select"
    BY <1>5 DEF DecideWait
  <2>3. CASE graceAt = None /\ Answers # {}
    <3>1. answerAt # None /\ answerAt = now /\ graceAt' = now + Grace
      BY <1>2, <1>5, <2>2, <2>3 DEF DecideWait, GraceKnown
    <3>2. graceAt' # None
      <4>1. now + Grace \in Int
        BY DEF TypeOK
      <4>2. QED BY <3>1, <4>1, NoneIsNoTime
    <3>3. QED
      BY <2>1, <2>2, <2>3, <3>1, <3>2 DEF GraceKnown
  <2>4. CASE ~(graceAt = None /\ Answers # {})
    <3>1. graceAt' = graceAt
      BY <1>5, <2>4 DEF DecideWait
    <3>2. QED
      BY <2>1, <2>2, <2>4, <3>1 DEF GraceKnown
  <2>5. QED
    BY <2>3, <2>4
<1>6. CASE DecideStart
  BY <1>6 DEF DecideStart, StartNext, GraceKnown, Answers
<1>7. CASE SelectOutcome
  BY <1>1, <1>7 DEF SelectOutcome, GraceKnown
<1>8. CASE SelectNext
  BY <1>8 DEF SelectNext, StartNext, GraceKnown, Answers
<1>9. CASE Tick
  <2>1. pc = "select" /\ outcomes = << >> /\ UNCHANGED <<pc, sent, ended, graceAt, answerAt>>
    BY <1>9 DEF Tick, LoopReady, TypeOK
  <2>2. \A i \in Transports : sent[i] # None => ended[i] = sent[i]
    BY <2>1 DEF Channel
  <2>3. answerAt # None => graceAt # None
    BY <2>1, <2>2 DEF GraceKnown, Answers
  <2>4. Answers' = Answers
    BY <2>1 DEF Answers
  <2>5. QED
    BY <2>1, <2>3, <2>4 DEF GraceKnown
<1>10. CASE UNCHANGED vars
  BY <1>10 DEF vars, GraceKnown, Answers
<1>11. QED
  BY <1>3, <1>4, <1>5, <1>6, <1>7, <1>8, <1>9, <1>10 DEF Next, Loop

LEMMA TimerStep == IInv /\ [Next]_vars => TimerKnown'
<1>. SUFFICES ASSUME IInv, [Next]_vars PROVE TimerKnown'
  OBVIOUS
<1>. USE DEF IInv
<1>1. Statuses \subseteq Statuses'
  BY ReceivedStays
<1>2. CASE StartNext
  <2>1. nextAt' = lastStart' + HeadStart /\ now + HeadStart \in Int
    BY <1>2 DEF StartNext, TypeOK
  <2>2. nextAt' # None
    BY <1>2, <2>1, NoneIsNoTime DEF StartNext
  <2>3. QED
    BY <2>1, <2>2 DEF TimerKnown
<1>3. CASE UNCHANGED <<nextAt, lastStart, started>>
  BY <1>1, <1>3 DEF TimerKnown
<1>4. CASE nextAt' = None /\ (started = N \/ Statuses # {}) /\ UNCHANGED started
  BY <1>1, <1>4 DEF TimerKnown
<1>5. ASSUME NEW i \in Transports, TransportEnds(i) PROVE TimerKnown'
  BY <1>3, <1>5 DEF TransportEnds
<1>6. CASE DecideStatus \/ DecideWait \/ DecideSettle \/ SelectOutcome \/ SelectGraceUp \/ Tick
  BY <1>3, <1>6 DEF DecideStatus, DecideWait, DecideSettle, SelectOutcome, SelectGraceUp, Tick
<1>7. CASE DecideStart
  BY <1>2, <1>7 DEF DecideStart
<1>8. CASE SelectNext
  BY <1>2, <1>4, <1>8 DEF SelectNext, TypeOK
<1>9. CASE UNCHANGED vars
  BY <1>3, <1>9 DEF vars
<1>10. QED
  BY <1>5, <1>6, <1>7, <1>8, <1>9 DEF Next, Loop

LEMMA DoneStep == IInv /\ [Next]_vars => DoneKnown'
<1>. SUFFICES ASSUME IInv, [Next]_vars PROVE DoneKnown'
  OBVIOUS
<1>. USE DEF IInv
<1>1. ASSUME NEW i \in Transports, TransportEnds(i) PROVE DoneKnown'
  BY <1>1 DEF TransportEnds, DoneKnown
<1>2. CASE DecideWait \/ DecideStart \/ SelectOutcome \/ SelectNext \/ Tick
  BY <1>2 DEF DecideWait, DecideStart, SelectOutcome, SelectNext, Tick, DoneKnown
<1>3. CASE DecideStatus \/ DecideSettle \/ SelectGraceUp
  <2>1. pc' = "done"
    BY <1>3 DEF DecideStatus, DecideSettle, SelectGraceUp, Return
  <2>2. result' # None
    <3>1. CASE DecideStatus
      BY <3>1, LeastOnes DEF DecideStatus, Return, Open
    <3>2. CASE DecideSettle
      BY <3>2, LeastOnes DEF DecideSettle, Return, Failure, Answers
    <3>3. CASE SelectGraceUp
      <4>1. Answers # {}
        BY <3>3 DEF SelectGraceUp, GraceFires, GraceKnown
      <4>2. QED
        BY <3>3, <4>1, LeastOnes DEF SelectGraceUp, Return, Answers, Statuses
    <3>4. QED BY <1>3, <3>1, <3>2, <3>3
  <2>3. QED BY <2>1, <2>2 DEF DoneKnown
<1>4. CASE UNCHANGED vars
  BY <1>4 DEF vars, DoneKnown
<1>5. QED
  BY <1>1, <1>2, <1>3, <1>4 DEF Next, Loop

LEMMA WinsStep == IInv /\ [Next]_vars => PreferredWins'
<1>. SUFFICES ASSUME IInv, [Next]_vars PROVE PreferredWins'
  OBVIOUS
<1>. USE DEF IInv
<1>1. CASE UNCHANGED <<ended, graceAt, result, now>>
  <2>1. Answers' = Answers /\ Statuses' = Statuses /\ GraceFires' = GraceFires
    BY <1>1 DEF Answers, Statuses, GraceFires
  <2>2. QED
    BY <1>1, <2>1 DEF PreferredWins
<1>2. CASE result' = None
  BY <1>2 DEF PreferredWins
<1>3. Failures \cap Transports = {}
  OBVIOUS
<1>4. CASE DecideStatus
  <2>1. /\ result' = Min(Open) /\ Min(Open) \in Statuses /\ Min(Open) \in Open
        /\ \A i \in Open : Min(Open) <= i
        /\ UNCHANGED ended
    BY <1>4, LeastOnes DEF DecideStatus, Return
  <2>2. Answers' = Answers /\ Statuses' = Statuses /\ Statuses \subseteq Answers
    BY <2>1 DEF Answers, Statuses
  <2>3. ASSUME NEW i \in Transports, i < Min(Open)
        PROVE  i \notin Statuses /\ ended[i] # None
    <3>1. i \notin Open /\ i < started
      BY <2>1, <2>3 DEF Open, TypeOK
    <3>2. QED
      BY <3>1 DEF Open, Statuses
  <2>4. result' \in Answers' /\ result' \in Statuses' /\ result' \notin Failures
    BY <1>3, <2>1, <2>2 DEF Answers
  <2>5. QED
    BY <2>1, <2>2, <2>3, <2>4 DEF PreferredWins
<1>5. CASE DecideSettle
  <2>1. \A i \in Transports : ended[i] \notin {None, "status"}
    BY <1>5 DEF DecideSettle, Open
  <2>2. ended' = ended /\ Answers' = Answers /\ Statuses' = {}
    BY <1>5, <2>1 DEF DecideSettle, Answers, Statuses
  <2>3. CASE Answers # {}
    <3>1. result' \in Answers' /\ result' \notin Failures
      BY <1>3, <1>5, <2>2, <2>3, LeastOnes DEF DecideSettle, Return, Answers
    <3>2. QED
      BY <2>1, <2>2, <3>1 DEF PreferredWins
  <2>4. CASE Answers = {}
    <3>1. \A i \in Transports : ended[i] \in Errors
      BY <2>1, <2>4 DEF Answers, TypeOK
    <3>2. PICK routed \in BOOLEAN : result' = Failure(ended[N - 1], routed)
      BY <1>5, <2>4 DEF DecideSettle, Return
    <3>3. /\ result' \in Failures
          /\ result' = NoRoute => ended[N - 1] \in {"no_address", "no_network"}
          /\ result' = Unreachable => ended[N - 1] \in {"rejected", "no_network"}
          /\ result' = Offline => ended[N - 1] = "other"
      BY <3>1, <3>2 DEF Failure, LocalNoRoute
    <3>4. QED
      BY <2>2, <3>1, <3>3 DEF PreferredWins
  <2>5. QED BY <2>3, <2>4
<1>6. CASE SelectGraceUp
  <2>1. UNCHANGED <<ended, graceAt, now>> /\ GraceFires
    BY <1>6 DEF SelectGraceUp
  <2>2. Answers' = Answers /\ Statuses' = Statuses /\ GraceFires'
    BY <2>1 DEF Answers, Statuses, GraceFires
  <2>3. Answers # {}
    BY <2>1 DEF GraceFires, GraceKnown
  <2>4. result' = Min(IF Statuses # {} THEN Statuses ELSE Answers)
    BY <1>6 DEF SelectGraceUp, Return
  <2>5. CASE Statuses # {}
    <3>1. result' \in Statuses /\ \A i \in Statuses : result' <= i
      BY <2>4, <2>5, LeastOnes
    <3>2. result' \in Answers /\ result' \notin Failures /\ result' \in Int
      BY <1>3, <3>1 DEF Answers, Statuses
    <3>3. \A i \in Transports : i < result' => i \notin Statuses
      BY <3>1, <3>2
    <3>4. QED
      BY <2>2, <3>1, <3>2, <3>3 DEF PreferredWins
  <2>6. CASE Statuses = {}
    <3>1. result' \in Answers /\ result' \notin Failures
      BY <1>3, <2>3, <2>4, <2>6, LeastOnes DEF Answers
    <3>2. QED
      BY <2>2, <2>6, <3>1 DEF PreferredWins
  <2>7. QED BY <2>5, <2>6
<1>7. ASSUME NEW i \in Transports, TransportEnds(i) PROVE PreferredWins'
  BY <1>1, <1>7 DEF TransportEnds
<1>8. CASE DecideWait \/ DecideStart \/ SelectOutcome \/ SelectNext \/ Tick
  BY <1>2, <1>8 DEF DecideWait, DecideStart, SelectOutcome, SelectNext, Tick, DoneKnown
<1>9. CASE UNCHANGED vars
  BY <1>1, <1>9 DEF vars
<1>10. QED
  BY <1>4, <1>5, <1>6, <1>7, <1>8, <1>9 DEF Next, Loop

\* The clock goes on only while the loop waits, and then every answer that was
\* sent has been received.
LEMMA TickWaits ==
  ASSUME IInv, Tick
  PROVE  /\ answerAt # None => now + 1 <= answerAt + Grace
         /\ nextAt # None => now + 1 <= lastStart + HeadStart
<1>. USE DEF IInv
<1>1. /\ pc = "select" /\ outcomes = << >>
      /\ nextAt # None => now < nextAt
      /\ graceAt # None => now < graceAt
  BY DEF Tick, LoopReady, NextFires, GraceFires, TypeOK
<1>2. \A i \in Transports : sent[i] # None => ended[i] = sent[i]
  BY <1>1 DEF Channel
<1>3. answerAt # None => graceAt # None
  BY <1>1, <1>2 DEF GraceKnown, Answers
<1>4. answerAt # None => now < answerAt + Grace
  BY <1>1, <1>3 DEF GraceKnown
<1>5. nextAt # None => now < lastStart + HeadStart
  BY <1>1 DEF TimerKnown
<1>6. QED
  BY <1>4, <1>5 DEF TypeOK

LEMMA TimesStep == IInv /\ [Next]_vars => TimesKept'
<1>. SUFFICES ASSUME IInv, [Next]_vars PROVE TimesKept'
  OBVIOUS
<1>. USE DEF IInv
<1>1. Statuses \subseteq Statuses'
  BY ReceivedStays
<1>2. CASE Tick
  <2>1. now' = now + 1 /\ UNCHANGED <<answerAt, lastStart, started, ended>>
    BY <1>2 DEF Tick
  <2>2. AnswerWaitsAtMostGrace'
    BY <1>2, <2>1, TickWaits DEF AnswerWaitsAtMostGrace
  <2>3. NextStartsInTime'
    BY <1>1, <1>2, <2>1, TickWaits DEF NextStartsInTime, TimerKnown
  <2>4. QED BY <2>2, <2>3 DEF TimesKept
<1>3. ASSUME NEW i \in Transports, TransportEnds(i) PROVE TimesKept'
  <2>1. UNCHANGED <<now, pc, started, lastStart>> /\ answerAt' \in {now, answerAt}
    BY <1>3 DEF TransportEnds
  <2>2. AnswerWaitsAtMostGrace'
    <3>1. CASE answerAt' = now
      BY <2>1, <3>1 DEF AnswerWaitsAtMostGrace, TypeOK
    <3>2. CASE answerAt' = answerAt
      BY <2>1, <3>2 DEF TimesKept, AnswerWaitsAtMostGrace
    <3>3. QED BY <2>1, <3>1, <3>2
  <2>3. NextStartsInTime'
    BY <1>1, <2>1 DEF TimesKept, NextStartsInTime
  <2>4. QED BY <2>2, <2>3 DEF TimesKept
<1>4. CASE Loop \/ UNCHANGED vars
  <2>1. UNCHANGED <<now, answerAt>> /\ (pc' # "done" => pc # "done")
    BY <1>4 DEF Loop, DecideStatus, DecideWait, DecideStart, DecideSettle,
                SelectOutcome, SelectNext, SelectGraceUp, vars
  <2>2. AnswerWaitsAtMostGrace'
    BY <2>1 DEF TimesKept, AnswerWaitsAtMostGrace
  <2>3. CASE UNCHANGED <<started, lastStart>>
    BY <1>1, <2>1, <2>2, <2>3 DEF TimesKept, NextStartsInTime
  <2>4. CASE StartNext
    <3>1. lastStart' = now /\ now' <= now + HeadStart
      BY <2>1, <2>4 DEF StartNext, TypeOK
    <3>2. QED
      BY <2>1, <2>2, <3>1 DEF TimesKept, NextStartsInTime
  <2>5. UNCHANGED <<started, lastStart>> \/ StartNext
    BY <1>4 DEF Loop, DecideStatus, DecideWait, DecideStart, DecideSettle,
                SelectOutcome, SelectNext, SelectGraceUp, vars
  <2>6. QED BY <2>3, <2>4, <2>5
<1>5. QED
  BY <1>2, <1>3, <1>4 DEF Next

LEMMA Inductive == IInv /\ [Next]_vars => IInv'
BY TypeStep, ChannelStep, GraceStep, TimerStep, DoneStep, WinsStep, TimesStep DEF IInv

LEMMA AlwaysIInv == Spec => []IInv
BY InitIInv, Inductive, PTL DEF Spec


-----------------------------------------------------------------------------
\* Every variable of the race keeps its type: the result is a transport of this
\* race or a state of a failure, never the -1 of an empty search.
THEOREM TypeCorrect == Spec => []TypeOK
<1>1. IInv => TypeOK
  BY DEF IInv
<1>2. QED
  BY <1>1, AlwaysIInv, PTL

\* Whatever the transports do, the grace branch of the select has an answer to
\* return, and the channel has room for each goroutine that still runs.
THEOREM LoopIsSound == Spec => []LoopSound
<1>1. IInv => GraceHasAnswer
  BY DEF IInv, GraceKnown, GraceHasAnswer
<1>2. IInv => ChannelHasRoom
  <2>. SUFFICES ASSUME IInv, NEW i \in Transports, Running(i)
                PROVE  Len(outcomes) < ChanCap
    BY DEF ChannelHasRoom
  <2>1. IsFiniteSet(Transports) /\ Cardinality(Transports) = N
    <3>1. 0 \in Int /\ N - 1 \in Int
      OBVIOUS
    <3>2. IsFiniteSet(0 .. N - 1) /\ Cardinality(0 .. N - 1) = IF 0 > N - 1 THEN 0 ELSE (N - 1) - 0 + 1
      BY ONLY <3>1, FS_Interval
    <3>3. QED BY <3>2
  <2>2. SentOnes \subseteq Transports \ {i}
    BY DEF SentOnes, Running
  <2>3. Cardinality(Transports \ {i}) = N - 1 /\ IsFiniteSet(Transports \ {i})
    <3>. HIDE DEF Transports
    <3>1. Cardinality(Transports \ {i}) = Cardinality(Transports) - 1
      BY <2>1, FS_RemoveElement
    <3>2. QED BY <2>1, <3>1, FS_RemoveElement
  <2>4. Cardinality(SentOnes) <= N - 1
    <3>. HIDE DEF Transports
    <3>1. SentOnes \in SUBSET (Transports \ {i})
      BY <2>2
    <3>2. Cardinality(SentOnes) <= Cardinality(Transports \ {i})
      BY <2>3, <3>1, FS_Subset
    <3>3. QED BY <2>3, <3>2
  <2>5. Len(outcomes) <= Cardinality(SentOnes) /\ Len(outcomes) \in Nat
    BY DEF IInv, Channel, TypeOK
  <2>6. QED
    BY <2>4, <2>5, SentFinite DEF ChanCap
<1>3. IInv => LoopSound
  BY <1>1, <1>2 DEF LoopSound
<1>4. QED
  BY <1>3, AlwaysIInv, PTL

\* "The most preferred status wins", with any number of transports and however
\* their ends, the head starts and the grace interleave; and each failure is
\* returned only for the classic transport's error that stands for it.
THEOREM PreferenceWins == Spec => []PreferredWins
<1>1. IInv => PreferredWins
  BY DEF IInv
<1>2. QED
  BY <1>1, AlwaysIInv, PTL

\* Whatever the head start and the grace are, an answer is returned within the
\* grace of its arrival, and while there is no status the next transport starts
\* within the head start of the last.
THEOREM TimesAreKept == Spec => []TimesKept
<1>1. IInv => TimesKept
  BY DEF IInv
<1>2. QED
  BY <1>1, AlwaysIInv, PTL

\* No step starts a transport once a status was received, or before the head
\* start of the last is over, unless every started one has ended.
THEOREM Staggered == Spec => StartsStaggered
<1>. DEFINE Early == started' # started =>
              /\ Statuses = {}
              /\ now >= lastStart + HeadStart
                   \/ \A i \in Transports : i < started => ended[i] # None
<1>1. ASSUME IInv, Next, started' # started PROVE Early
  <2>. USE DEF IInv
  <2>1. CASE DecideStart
    <3>1. \A i \in Transports : i < started => ended[i] \notin {None, "status"}
      BY <2>1 DEF DecideStart, Open
    <3>2. \A i \in Transports : i >= started => ended[i] # "status"
      <4>1. \A i \in Transports : i >= started => sent[i] = None
        BY <1>1 DEF Channel, TypeOK
      <4>2. QED BY <1>1, <4>1 DEF Channel
    <3>3. Statuses = {}
      BY <1>1, <3>1, <3>2 DEF Statuses, TypeOK
    <3>4. QED BY <3>1, <3>3
  <2>2. CASE SelectNext
    <3>1. Statuses = {} /\ nextAt # None /\ now >= nextAt
      BY <1>1, <2>2 DEF SelectNext, NextFires
    <3>2. QED BY <1>1, <3>1 DEF TimerKnown
  <2>3. DecideStart \/ SelectNext
    BY <1>1 DEF Next, Loop, DecideStatus, DecideWait, DecideSettle,
                SelectOutcome, SelectGraceUp, Tick, TransportEnds
  <2>4. QED BY <2>1, <2>2, <2>3
<1>2. IInv /\ [Next]_vars => [Early]_vars
  BY <1>1 DEF vars
<1>3. QED
  BY <1>2, AlwaysIInv, PTL DEF Spec, StartsStaggered

-----------------------------------------------------------------------------
(***************************************************************************)
(* How a race ends.  RaceEnds is a property of fair behaviours; what it    *)
(* rests on beside fairness is proved here: a race has boundedly many      *)
(* steps, each of which brings it nearer its end, and it can always take   *)
(* one until it has ended.                                                 *)
(***************************************************************************)

\* The loop waits only for a transport that is still to be heard of: one that
\* runs, or one whose outcome is in the channel.
WaitsForSomebody ==
  pc = "select" => \E i \in Transports : i < started /\ ended[i] = None

\* The race is over: ping has returned and so has every goroutine it started.
Finished == pc = "done" /\ \A i \in Transports : ~Running(i)

\* The loop has something to do, the clock can go on, or a transport can end.
CanGoOn ==
  \/ LoopReady
  \/ pc # "done" /\ now < Timeout
  \/ \E i \in Transports : Running(i) /\ Len(outcomes) < ChanCap

\* A transport is started, ends, is received, and lets the loop decide; the
\* timer is received once more than it is set anew.
StepsLeft ==
  (Timeout - now) + 4 * (N - started) + 3 * (N - Cardinality(SentOnes)) + 2 * Len(outcomes)
    + (IF nextAt = None THEN 0 ELSE 2)
    + (IF pc = "decide" THEN 2 ELSE IF pc = "select" THEN 1 ELSE 0)

MostSteps == Timeout + 7 * N

WInv == WaitsForSomebody /\ now <= Timeout

LEMMA WInvInductive == IInv /\ WInv /\ [Next]_vars => WInv'
<1>. SUFFICES ASSUME IInv, WInv, [Next]_vars PROVE WInv'
  OBVIOUS
<1>. USE DEF IInv
<1>1. now' <= Timeout
  <2>1. CASE Tick
    BY <2>1 DEF Tick, WInv, TypeOK
  <2>2. CASE ~Tick
    <3>1. now' = now
      BY <2>2 DEF Next, Loop, DecideStatus, DecideWait, DecideStart, DecideSettle,
                  SelectOutcome, SelectNext, SelectGraceUp, TransportEnds, vars
    <3>2. QED BY <3>1 DEF WInv
  <2>3. QED BY <2>1, <2>2
<1>2. WaitsForSomebody'
  <2>1. CASE DecideWait
    <3>1. Open # {} /\ Min(Open) \notin Statuses /\ UNCHANGED <<ended, started>>
      BY <2>1 DEF DecideWait
    <3>2. Min(Open) \in Open
      BY <3>1, LeastOnes
    <3>3. Min(Open) \in Transports /\ Min(Open) < started /\ ended[Min(Open)] = None
      BY <3>1, <3>2 DEF Open, Statuses
    <3>4. QED BY Zenon, <3>1, <3>3 DEF WaitsForSomebody
  <2>2. CASE pc' # "select"
    BY <2>2 DEF WaitsForSomebody
  <2>3. CASE UNCHANGED <<pc, ended, started>>
    BY <2>3 DEF WInv, WaitsForSomebody
  <2>4. DecideWait \/ pc' # "select" \/ UNCHANGED <<pc, ended, started>>
    BY DEF Next, Loop, DecideStatus, DecideStart, DecideSettle, SelectOutcome,
           SelectNext, SelectGraceUp, Return, TransportEnds, Tick, vars
  <2>5. QED BY <2>1, <2>2, <2>3, <2>4
<1>3. QED BY <1>1, <1>2 DEF WInv

LEMMA AlwaysWInv == Spec => [](IInv /\ WInv)
<1>1. Init => WInv
  BY DEF Init, WInv, WaitsForSomebody
<1>2. QED
  BY <1>1, InitIInv, Inductive, WInvInductive, PTL DEF Spec

LEMMA FewSent == Cardinality(SentOnes) <= N
<1>1. IsFiniteSet(0 .. N - 1) /\ Cardinality(0 .. N - 1) = N
  <2>1. 0 \in Int /\ N - 1 \in Int
    OBVIOUS
  <2>2. IsFiniteSet(0 .. N - 1) /\ Cardinality(0 .. N - 1) = IF 0 > N - 1 THEN 0 ELSE (N - 1) - 0 + 1
    BY ONLY <2>1, FS_Interval
  <2>3. QED BY <2>2
<1>2. SentOnes \in SUBSET (0 .. N - 1)
  BY DEF SentOnes
<1>3. Cardinality(SentOnes) <= Cardinality(0 .. N - 1)
  BY ONLY <1>1, <1>2, FS_Subset
<1>4. QED
  BY <1>1, <1>3

\* A transport that still runs leaves room in the channel for its outcome.
LEMMA RunningHasRoom ==
  ASSUME IInv, NEW i \in Transports, Running(i)
  PROVE  Len(outcomes) < ChanCap
<1>1. i \notin SentOnes
  BY DEF SentOnes, Running
<1>2. Cardinality(SentOnes \cup {i}) = Cardinality(SentOnes) + 1
  BY <1>1, SentFinite, FS_AddElement
<1>3. Cardinality(SentOnes \cup {i}) <= N
  <2>1. IsFiniteSet(0 .. N - 1) /\ Cardinality(0 .. N - 1) = N
    <3>1. 0 \in Int /\ N - 1 \in Int
      OBVIOUS
    <3>2. IsFiniteSet(0 .. N - 1) /\ Cardinality(0 .. N - 1) = IF 0 > N - 1 THEN 0 ELSE (N - 1) - 0 + 1
      BY ONLY <3>1, FS_Interval
    <3>3. QED BY <3>2
  <2>2. SentOnes \cup {i} \in SUBSET (0 .. N - 1)
    BY DEF SentOnes
  <2>3. QED BY <2>1, <2>2, FS_Subset
<1>4. QED
  BY <1>2, <1>3, SentFinite DEF IInv, Channel, TypeOK, ChanCap

LEMMA StepsAreNatural ==
  ASSUME IInv, WInv
  PROVE  StepsLeft \in Nat
<1>1. /\ Timeout - now \in Nat /\ N - started \in Nat /\ N - Cardinality(SentOnes) \in Nat
      /\ Len(outcomes) \in Nat
  BY FewSent, SentFinite DEF IInv, TypeOK, WInv
<1>2. 4 * (N - started) \in Nat /\ 3 * (N - Cardinality(SentOnes)) \in Nat /\ 2 * Len(outcomes) \in Nat
  BY ONLY <1>1
<1>3. /\ (IF nextAt = None THEN 0 ELSE 2) \in Nat
      /\ (IF pc = "decide" THEN 2 ELSE IF pc = "select" THEN 1 ELSE 0) \in Nat
  OBVIOUS
<1>4. \A a, b, c, d, e, f \in Nat : a + b + c + d + e + f \in Nat
  OBVIOUS
<1>5. QED
  BY <1>1, <1>2, <1>3, <1>4 DEF StepsLeft

LEMMA Nearer == IInv /\ WInv /\ Next => StepsLeft' < StepsLeft
<1>. SUFFICES ASSUME IInv, WInv, Next PROVE StepsLeft' < StepsLeft
  OBVIOUS
<1>. DEFINE sentNow == Cardinality(SentOnes)
            sentThen == Cardinality(SentOnes')
<1>1. /\ sentNow \in Nat /\ now \in Nat /\ Len(outcomes) \in Nat
      /\ started \in 1 .. N /\ pc \in {"decide", "select", "done"}
  BY SentFinite DEF IInv, TypeOK
<1>2. StepsLeft' = (Timeout - now') + 4 * (N - started') + 3 * (N - sentThen) + 2 * Len(outcomes')
                     + (IF nextAt' = None THEN 0 ELSE 2)
                     + (IF pc' = "decide" THEN 2 ELSE IF pc' = "select" THEN 1 ELSE 0)
  BY DEF StepsLeft
<1>3. StepsLeft = (Timeout - now) + 4 * (N - started) + 3 * (N - sentNow) + 2 * Len(outcomes)
                     + (IF nextAt = None THEN 0 ELSE 2)
                     + (IF pc = "decide" THEN 2 ELSE IF pc = "select" THEN 1 ELSE 0)
  BY DEF StepsLeft
<1>4. sent' = sent => sentThen = sentNow
  BY DEF SentOnes
<1>. HIDE DEF sentNow, sentThen
<1>5. CASE DecideStatus \/ DecideWait \/ DecideSettle
  <2>1. UNCHANGED <<now, started, sent, outcomes, nextAt>> /\ pc = "decide" /\ pc' # "decide"
    BY <1>5 DEF DecideStatus, DecideWait, DecideSettle, Return
  <2>2. QED
    BY <1>1, <1>2, <1>3, <1>4, <2>1
<1>6. CASE DecideStart
  <2>1. UNCHANGED <<now, sent, outcomes, pc>> /\ started' = started + 1
    BY <1>6 DEF DecideStart, StartNext
  <2>2. PICK left \in Int : left = N - started
    BY <1>1
  <2>3. 4 * (N - started) = 4 * left /\ 4 * (N - started') = 4 * left - 4
    BY ONLY <1>1, <2>1, <2>2, RaceAssumption
  <2>4. QED
    BY <1>1, <1>2, <1>3, <1>4, <2>1, <2>3
<1>7. CASE SelectOutcome
  <2>1. Len(outcomes') = Len(outcomes) - 1
    BY <1>7 DEF SelectOutcome, IInv, TypeOK
  <2>2. QED
    BY <1>1, <1>2, <1>3, <1>4, <1>7, <2>1 DEF SelectOutcome
<1>8. CASE SelectNext
  <2>1. UNCHANGED <<now, sent, outcomes>> /\ pc = "select" /\ pc' = "decide" /\ nextAt # None
    BY <1>8 DEF SelectNext, NextFires
  <2>2. started' = started + 1 \/ (started' = started /\ nextAt' = None)
    BY <1>8 DEF SelectNext, StartNext
  <2>3. CASE started' = started + 1
    BY <1>1, <1>2, <1>3, <1>4, <2>1, <2>3
  <2>4. CASE started' = started /\ nextAt' = None
    BY <1>1, <1>2, <1>3, <1>4, <2>1, <2>4
  <2>5. QED
    BY <2>2, <2>3, <2>4
<1>9. CASE SelectGraceUp
  BY <1>1, <1>2, <1>3, <1>4, <1>9 DEF SelectGraceUp, Return
<1>10. CASE Tick
  BY <1>1, <1>2, <1>3, <1>4, <1>10 DEF Tick
<1>11. ASSUME NEW i \in Transports, TransportEnds(i) PROVE StepsLeft' < StepsLeft
  <2>1. PICK kind \in Kinds : sent' = [sent EXCEPT ![i] = kind]
    BY <1>11 DEF TransportEnds
  <2>2. SentOnes' = SentOnes \cup {i} /\ i \notin SentOnes
    BY <1>11, <2>1 DEF TransportEnds, Running, SentOnes, IInv, TypeOK
  <2>3. sentThen = sentNow + 1
    BY <2>2, SentFinite, FS_AddElement DEF sentThen, sentNow
  <2>4. Len(outcomes') = Len(outcomes) + 1
    BY <1>11 DEF TransportEnds, IInv, TypeOK
  <2>5. UNCHANGED <<now, pc, started, nextAt>>
    BY <1>11 DEF TransportEnds
  <2>6. QED
    BY <1>1, <1>2, <1>3, <2>3, <2>4, <2>5
<1>12. QED
  BY <1>5, <1>6, <1>7, <1>8, <1>9, <1>10, <1>11 DEF Next, Loop

\* The loop of ping never waits for nobody: whenever it waits, a transport it
\* has started has not been heard of yet.  And it stops nowhere else than at its
\* end: until ping has returned and all its goroutines have ended, the loop can
\* go on, the clock can, or a goroutine can, the one that sends on the channel
\* included.
THEOREM StopsOnlyFinished == Spec => [](WaitsForSomebody /\ (Finished \/ CanGoOn))
<1>1. IInv /\ WInv => Finished \/ CanGoOn
  <2>. SUFFICES ASSUME IInv, WInv, ~LoopReady, ~(pc # "done" /\ now < Timeout), ~Finished
                PROVE  \E i \in Transports : Running(i) /\ Len(outcomes) < ChanCap
    BY DEF CanGoOn
  <2>1. \E i \in Transports : Running(i)
    <3>1. CASE pc = "done"
      BY <3>1 DEF Finished
    <3>2. CASE pc = "select"
      <4>1. outcomes = << >>
        BY <3>2 DEF LoopReady
      <4>2. PICK i \in Transports : i < started /\ ended[i] = None
        BY <3>2 DEF WInv, WaitsForSomebody
      <4>3. sent[i] = None
        BY <4>1, <4>2 DEF IInv, Channel
      <4>4. QED BY <4>2, <4>3 DEF Running
    <3>3. QED
      BY <3>1, <3>2 DEF LoopReady, IInv, TypeOK
  <2>2. QED BY <2>1, RunningHasRoom
<1>2. IInv /\ WInv => WaitsForSomebody
  BY DEF WInv
<1>3. QED
  BY <1>1, <1>2, AlwaysWInv, PTL

\* A race takes MostSteps steps at most, whatever its transports do: every
\* start, end, receipt, timer, decision and moment of its time is one of those
\* it has left.
THEOREM RaceIsBounded ==
  Spec => [](StepsLeft \in 0 .. MostSteps) /\ [][StepsLeft' < StepsLeft]_vars
<1>1. Init => StepsLeft <= MostSteps
  <2>. SUFFICES ASSUME Init PROVE StepsLeft <= MostSteps
    OBVIOUS
  <2>1. SentOnes = {}
    BY DEF Init, SentOnes
  <2>2. Cardinality(SentOnes) = 0 /\ Len(outcomes) = 0
    BY <2>1, FS_EmptySet DEF Init
  <2>3. QED
    BY <2>2 DEF Init, StepsLeft, MostSteps
<1>2. IInv /\ WInv => StepsLeft \in Nat
  BY StepsAreNatural
<1>3. ASSUME IInv, WInv, StepsLeft \in Nat, (StepsLeft \in Nat)',
             StepsLeft <= MostSteps, [Next]_vars
      PROVE  (StepsLeft <= MostSteps)'
  <2>1. CASE Next
    <3>1. StepsLeft' < StepsLeft
      BY <1>3, <2>1, Nearer
    <3>2. MostSteps \in Nat
      BY DEF MostSteps
    <3>3. QED BY <1>3, <3>1, <3>2
  <2>2. CASE UNCHANGED vars
    BY <1>3, <2>2 DEF vars, StepsLeft, SentOnes
  <2>3. QED BY <1>3, <2>1, <2>2
<1>4. IInv /\ WInv /\ StepsLeft <= MostSteps => StepsLeft \in 0 .. MostSteps
  <2>1. MostSteps \in Int
    BY DEF MostSteps
  <2>2. QED BY <1>2, <2>1
<1>5. IInv /\ WInv /\ [Next]_vars => [StepsLeft' < StepsLeft]_vars
  BY Nearer
<1>6. QED
  BY <1>1, <1>2, <1>3, <1>4, <1>5, AlwaysWInv, PTL DEF Spec
=============================================================================
