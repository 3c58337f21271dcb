-------------------------- MODULE HealthCopyProofs --------------------------
(***************************************************************************)
(* Proofs about HealthCopy, for any number of workers and of lost renewals *)
(* and any lifetime and limit that HealthCopyAssumption allows.            *)
(***************************************************************************)
EXTENDS HealthCopy, NumberFacts

LEMMA Constants ==
  /\ Second \in Nat \ {0} /\ HealthTTL \in Nat \ {0}
  /\ HealthInterval \in Nat \ {0} /\ HealthMax \in Nat \ {0}
  /\ MaxLost \in Nat /\ MaxTime \in Nat
  /\ HealthMax >= 4
  /\ None \notin Workers /\ None \notin Int
BY HealthCopyAssumption

USE Constants

-----------------------------------------------------------------------------
\* Whoever believes to hold the lock holds it: one worker renews at a time.
LockHeld == \A w \in Workers : pc[w] \in Holding => lock = w

\* The holder has found the copy too old, and nobody else renews it.
CopyOld ==
  copy # None => \A w \in Workers :
    /\ pc[w] \in Holding \ {"locked"} => Time - copy >= HealthTTL
    /\ pc[w] = "rename" => stamp[w] - copy >= HealthTTL

\* The calls that the renewal in progress has cost, at most.
MadeBy(w) ==
  IF pc[w] \in {"calling", "second"} THEN 1
  ELSE IF pc[w] \in {"again", "write", "rename"} THEN 2 ELSE 0

Made == IF lock = None THEN 0 ELSE MadeBy(lock)

\* The calls after the second in which the copy was made, x seconds before.
Since(x) == {t \in calls : copy = None \/ t[1] \div Second > copy - x}

\* A copy is written after the calls it is the answer to.
WrittenLast ==
  \A w \in Workers : pc[w] = "rename" => \A t \in calls : t[1] \div Second <= stamp[w]

\* A renewal that was not lost made its calls no later than the copy says, and
\* the one before it at least HealthTTL earlier: when the next one calls, the
\* backend has forgotten what lies before the copy by that time.
CallsKnown ==
  /\ IsFiniteSet(calls)
  /\ \A t \in calls : now - t[1] < HealthInterval
  /\ WrittenLast
  /\ Cardinality(Since(0)) <= 2 * lost + Made
  /\ Cardinality(Since(HealthTTL)) <= 2 + 2 * lost + Made
  /\ Cardinality(calls) <= 4 + 2 * lost

IInv == TypeOK /\ LockHeld /\ CopyOld /\ CallsKnown

-----------------------------------------------------------------------------
LEMMA TimeGrows ==
  ASSUME now \in Nat
  PROVE  Time \in Nat /\ (now + 1) \div Second \in Nat /\ Time <= (now + 1) \div Second
<1>1. now + 1 \in Nat /\ now <= now + 1
  OBVIOUS
<1>2. QED BY <1>1, Quotient, QuotientGrows DEF Time

\* Between two renewals that each found the copy of the one before too old the
\* backend forgets the calls.
LEMMA Forgotten ==
  ASSUME NEW t \in Nat, NEW at \in Nat, NEW c \in Int,
         t \div Second <= c - HealthTTL, at \div Second >= c + HealthTTL
  PROVE  at - t >= HealthInterval
<1>1. PICK p \in Nat, q \in Nat : p = t \div Second /\ q = at \div Second
  BY Quotient
<1>2. Second * q <= at /\ t < Second * (p + 1)
  BY <1>1, Quotient
<1>3. q - (p + 1) >= 2 * HealthTTL - 1
  BY <1>1
<1>4. Second * (q - (p + 1)) >= Second * (2 * HealthTTL - 1)
  BY <1>3
<1>5. Second * q - Second * (p + 1) = Second * (q - (p + 1))
  BY <1>1
<1>6. HealthInterval < (2 * HealthTTL - 1) * Second
  BY HealthCopyAssumption
<1>7. /\ Second * q \in Int /\ Second * (p + 1) \in Int /\ Second * (q - (p + 1)) \in Int
      /\ Second * (2 * HealthTTL - 1) \in Int
      /\ (2 * HealthTTL - 1) * Second = Second * (2 * HealthTTL - 1)
  OBVIOUS
<1>8. QED BY <1>2, <1>4, <1>5, <1>6, <1>7

LEMMA InitIInv == Init => IInv
<1>. SUFFICES ASSUME Init PROVE IInv
  OBVIOUS
<1>1. Time = 0
  BY DEF Init, Time
<1>2. TypeOK
  BY <1>1 DEF Init, TypeOK
<1>3. LockHeld /\ CopyOld
  BY DEF Init, LockHeld, CopyOld, Holding
<1>4. Since(0) = {} /\ Since(HealthTTL) = {} /\ calls = {} /\ lost = 0 /\ Made = 0
  BY DEF Init, Since, Made
<1>5. CallsKnown
  BY <1>4, FS_EmptySet DEF CallsKnown, WrittenLast, Init
<1>6. QED BY <1>2, <1>3, <1>5 DEF IInv

-----------------------------------------------------------------------------
\* What every action of a worker leaves alone or does to the lock.
LEMMA TypeStep == IInv /\ [Next]_vars => TypeOK'
<1>. SUFFICES ASSUME IInv, [Next]_vars PROVE TypeOK'
  OBVIOUS
<1>. USE DEF TypeOK, IInv, Holding, Goto
<1>1. now \in Nat /\ Time \in Nat /\ Time <= (now + 1) \div Second /\ (now + 1) \div Second \in Nat
  BY TimeGrows
<1>2. ASSUME NEW w \in Workers, Answer(w) PROVE TypeOK'
  BY <1>2 DEF Answer, Time, Young
<1>3. ASSUME NEW w \in Workers, NothingToDo(w) PROVE TypeOK'
  BY <1>3 DEF NothingToDo, Time
<1>4. ASSUME NEW w \in Workers, TakeLock(w) PROVE TypeOK'
  BY <1>4 DEF TakeLock, Time
<1>5. ASSUME NEW w \in Workers, Renewed(w) PROVE TypeOK'
  BY <1>5 DEF Renewed, Time
<1>6. ASSUME NEW w \in Workers, NotRenewed(w) PROVE TypeOK'
  BY <1>6 DEF NotRenewed, Time
<1>7. ASSUME NEW w \in Workers, Call(w) PROVE TypeOK'
  <2>1. Cardinality({t \in calls : t[1] = now}) \in Nat
    BY Part DEF CallsKnown
  <2>2. calls' \in SUBSET ((0 .. now) \X Nat)
    BY <1>1, <1>7, <2>1 DEF Call
  <2>3. QED BY <1>7, <2>2 DEF Call, Time
<1>8. ASSUME NEW w \in Workers, CallEnds(w) PROVE TypeOK'
  BY <1>8 DEF CallEnds, Time
<1>9. ASSUME NEW w \in Workers, Write(w) PROVE TypeOK'
  BY <1>1, <1>9 DEF Write, Time
<1>10. ASSUME NEW w \in Workers, WriteFails(w) PROVE TypeOK'
  BY <1>10 DEF WriteFails, Time
<1>11. ASSUME NEW w \in Workers, Rename(w) PROVE TypeOK'
  BY <1>1, <1>11 DEF Rename, Time
<1>12. ASSUME NEW w \in Workers, Crash(w) PROVE TypeOK'
  BY <1>1, <1>12 DEF Crash, Time
<1>13. CASE Tick
  <2>1. now' = now + 1 /\ now' \in 0 .. MaxTime
    BY <1>1, <1>13 DEF Tick
  <2>2. Time' = (now + 1) \div Second
    BY <2>1 DEF Time
  <2>3. \A x \in 0 .. Time : x \in 0 .. Time'
    BY <1>1, <2>2
  <2>4. calls' \in SUBSET ((0 .. now') \X Nat)
    BY <1>1, <1>13, <2>1 DEF Tick, Recent
  <2>5. stamp' \in [Workers -> 0 .. Time'] /\ copy' \in (0 .. Time') \cup {None}
    BY <1>13, <2>3 DEF Tick
  <2>6. QED BY <1>13, <2>1, <2>4, <2>5 DEF Tick
<1>14. CASE UNCHANGED vars
  BY <1>14 DEF vars, Time
<1>15. QED
  BY <1>2, <1>3, <1>4, <1>5, <1>6, <1>7, <1>8, <1>9, <1>10, <1>11, <1>12, <1>13, <1>14
     DEF Next, Refresh

LEMMA LockStep == IInv /\ [Next]_vars => LockHeld'
<1>. SUFFICES ASSUME IInv, [Next]_vars PROVE LockHeld'
  OBVIOUS
<1>. USE DEF TypeOK, IInv, Holding, Goto, LockHeld
<1>1. ASSUME NEW w \in Workers, Answer(w) PROVE LockHeld'
  BY <1>1 DEF Answer
<1>2. ASSUME NEW w \in Workers, NothingToDo(w) PROVE LockHeld'
  BY <1>2 DEF NothingToDo
<1>3. ASSUME NEW w \in Workers, TakeLock(w) PROVE LockHeld'
  BY <1>3 DEF TakeLock
<1>4. ASSUME NEW w \in Workers, Renewed(w) PROVE LockHeld'
  BY <1>4 DEF Renewed
<1>5. ASSUME NEW w \in Workers, NotRenewed(w) PROVE LockHeld'
  BY <1>5 DEF NotRenewed
<1>6. ASSUME NEW w \in Workers, Call(w) PROVE LockHeld'
  BY <1>6 DEF Call
<1>7. ASSUME NEW w \in Workers, CallEnds(w) PROVE LockHeld'
  BY <1>7 DEF CallEnds
<1>8. ASSUME NEW w \in Workers, Write(w) PROVE LockHeld'
  BY <1>8 DEF Write
<1>9. ASSUME NEW w \in Workers, WriteFails(w) PROVE LockHeld'
  BY <1>9 DEF WriteFails
<1>10. ASSUME NEW w \in Workers, Rename(w) PROVE LockHeld'
  BY <1>10 DEF Rename
<1>11. ASSUME NEW w \in Workers, Crash(w) PROVE LockHeld'
  BY <1>11 DEF Crash
<1>12. CASE Tick
  BY <1>12 DEF Tick
<1>13. CASE UNCHANGED vars
  BY <1>13 DEF vars
<1>14. QED
  BY <1>1, <1>2, <1>3, <1>4, <1>5, <1>6, <1>7, <1>8, <1>9, <1>10, <1>11, <1>12, <1>13
     DEF Next, Refresh

LEMMA CopyOldStep == IInv /\ [Next]_vars => CopyOld'
<1>. SUFFICES ASSUME IInv, [Next]_vars PROVE CopyOld'
  OBVIOUS
<1>. USE DEF TypeOK, IInv, Holding, Goto, CopyOld
<1>1. now \in Nat /\ Time \in Nat /\ Time <= (now + 1) \div Second /\ (now + 1) \div Second \in Nat
  BY TimeGrows
<1>2. ASSUME NEW w \in Workers, Answer(w) PROVE CopyOld'
  BY <1>2 DEF Answer, Time
<1>3. ASSUME NEW w \in Workers, NothingToDo(w) PROVE CopyOld'
  BY <1>3 DEF NothingToDo, Time
<1>4. ASSUME NEW w \in Workers, TakeLock(w) PROVE CopyOld'
  BY <1>4 DEF TakeLock, Time
<1>5. ASSUME NEW w \in Workers, Renewed(w) PROVE CopyOld'
  BY <1>5 DEF Renewed, Time
<1>6. ASSUME NEW w \in Workers, NotRenewed(w) PROVE CopyOld'
  <2>1. copy # None => Time - copy >= HealthTTL
    BY <1>1, <1>6 DEF NotRenewed, StillOld, Young, Age
  <2>2. Time' = Time
    BY <1>6 DEF NotRenewed, Time
  <2>3. QED BY <1>6, <2>1, <2>2 DEF NotRenewed
<1>7. ASSUME NEW w \in Workers, Call(w) PROVE CopyOld'
  BY <1>7 DEF Call, Time
<1>8. ASSUME NEW w \in Workers, CallEnds(w) PROVE CopyOld'
  BY <1>8 DEF CallEnds, Time
<1>9. ASSUME NEW w \in Workers, Write(w) PROVE CopyOld'
  <2>1. Time' = Time
    BY <1>9 DEF Write, Time
  <2>2. QED BY <1>9, <2>1 DEF Write
<1>10. ASSUME NEW w \in Workers, WriteFails(w) PROVE CopyOld'
  BY <1>10 DEF WriteFails, Time
<1>11. ASSUME NEW w \in Workers, Rename(w) PROVE CopyOld'
  \* Nobody else is behind the lock.
  <2>1. \A v \in Workers : pc'[v] \notin Holding
    BY <1>11 DEF Rename, LockHeld
  <2>2. QED BY <2>1
<1>12. ASSUME NEW w \in Workers, Crash(w) PROVE CopyOld'
  BY <1>12 DEF Crash, Time
<1>13. CASE Tick
  <2>1. Time' = (now + 1) \div Second
    BY <1>13 DEF Tick, Time
  <2>2. QED BY <1>1, <1>13, <2>1 DEF Tick
<1>14. CASE UNCHANGED vars
  BY <1>14 DEF vars, Time
<1>15. QED
  BY <1>2, <1>3, <1>4, <1>5, <1>6, <1>7, <1>8, <1>9, <1>10, <1>11, <1>12, <1>13, <1>14
     DEF Next, Refresh

-----------------------------------------------------------------------------
(***************************************************************************)
(* The calls.                                                              *)
(***************************************************************************)
LEMMA MadeType ==
  ASSUME IInv
  PROVE  /\ Made \in 0 .. 2
         /\ \A w \in Workers : MadeBy(w) \in 0 .. 2
         /\ \A w \in Workers : pc[w] \in Holding => Made = MadeBy(w)
BY DEF IInv, Made, MadeBy, LockHeld

\* The parts of the calls are finite.
LEMMA SinceType ==
  ASSUME IInv, NEW x \in Nat
  PROVE  /\ Since(x) \in SUBSET calls /\ IsFiniteSet(Since(x))
         /\ Cardinality(Since(x)) \in Nat /\ Cardinality(calls) \in Nat
         /\ Cardinality(Since(x)) <= Cardinality(calls)
<1>1. IsFiniteSet(calls) /\ Since(x) \in SUBSET calls
  BY DEF IInv, CallsKnown, Since
<1>2. QED BY <1>1, Part

\* A step that neither calls nor renews: it is enough that what it makes of the
\* renewal in progress is paid for.
LEMMA NoCall ==
  ASSUME IInv, calls' = calls, copy' = copy, now' = now,
         lost' \in Nat, Made' \in 0 .. 2, lost <= lost', 2 * lost + Made <= 2 * lost' + Made',
         WrittenLast'
  PROVE  CallsKnown'
<1>1. Since(0)' = Since(0) /\ Since(HealthTTL)' = Since(HealthTTL)
  BY DEF Since
<1>2. Cardinality(Since(0)) \in Nat /\ Cardinality(Since(HealthTTL)) \in Nat /\ Cardinality(calls) \in Nat
  BY SinceType
<1>3. Made \in 0 .. 2 /\ lost \in Nat
  BY MadeType DEF IInv, TypeOK
<1>4. /\ Cardinality(Since(0))' <= 2 * lost' + Made'
      /\ Cardinality(Since(HealthTTL))' <= 2 + 2 * lost' + Made'
      /\ Cardinality(calls)' <= 4 + 2 * lost'
  <2>1. /\ Cardinality(Since(0)) <= 2 * lost + Made
        /\ Cardinality(Since(HealthTTL)) <= 2 + 2 * lost + Made
        /\ Cardinality(calls) <= 4 + 2 * lost
    BY DEF IInv, CallsKnown
  <2>. DEFINE spent == 2 * lost + Made
              paid == 2 * lost' + Made'
  <2>2. spent \in Int /\ paid \in Int
    BY <1>3
  <2>5. spent <= paid
    OBVIOUS
  <2>3. Cardinality(Since(0)) <= spent /\ Cardinality(Since(HealthTTL)) <= 2 + spent
    BY <1>3, <2>1
  <2>4. Cardinality(calls) <= 4 + 2 * lost'
    BY <1>2, <1>3, <2>1
  <2>. HIDE DEF spent, paid
  <2>6. Cardinality(Since(0)) <= paid /\ Cardinality(Since(HealthTTL)) <= 2 + paid
    BY <1>2, <2>2, <2>3, <2>5
  <2>7. 2 + 2 * lost' + Made' = 2 + paid
    BY DEF paid
  <2>8. QED BY <1>1, <2>4, <2>6, <2>7 DEF paid
<1>5. QED BY <1>4 DEF IInv, CallsKnown

\* The call of the worker whose renewal it is.
LEMMA CallStep ==
  ASSUME IInv, NEW w \in Workers, Call(w)
  PROVE  CallsKnown'
<1>. DEFINE new == <<now, Cardinality({t \in calls : t[1] = now})>>
<1>1. /\ calls' = calls \cup {new} /\ pc[w] \in {"first", "second"}
      /\ pc' = [pc EXCEPT ![w] = IF pc[w] = "first" THEN "calling" ELSE "again"]
      /\ now' = now /\ copy' = copy /\ lock' = lock /\ lost' = lost /\ stamp' = stamp
  BY DEF Call, Goto
<1>2. /\ now \in Nat /\ pc \in [Workers -> Holding \cup {"idle", "answered"}]
      /\ lost \in Nat /\ IsFiniteSet(calls) /\ lock = w
      /\ \A t \in calls : t[1] \in Nat
      /\ copy # None => copy \in Nat /\ Time - copy >= HealthTTL /\ Time \in Nat
  BY <1>1, TimeGrows DEF IInv, TypeOK, CallsKnown, LockHeld, Holding, CopyOld
<1>3. Made' = Made + 1 /\ Made \in {0, 1} /\ Made = IF pc[w] = "first" THEN 0 ELSE 1
  BY <1>1, <1>2 DEF Made, MadeBy
<1>4. /\ Cardinality(Since(0)) \in Nat /\ Cardinality(Since(HealthTTL)) \in Nat /\ Cardinality(calls) \in Nat
      /\ IsFiniteSet(Since(0)) /\ IsFiniteSet(Since(HealthTTL))
  BY SinceType
<1>. HIDE DEF new
\* One more in each part, at most.
<1>5. ASSUME NEW S, IsFiniteSet(S), NEW T \in SUBSET (S \cup {new})
      PROVE  IsFiniteSet(T) /\ Cardinality(T) \in Nat /\ Cardinality(T) <= Cardinality(S) + 1
  <2>1. IsFiniteSet(S \cup {new}) /\ Cardinality(S \cup {new}) \in {Cardinality(S), Cardinality(S) + 1}
        /\ Cardinality(S) \in Nat
    BY <1>5, FS_AddElement, FS_CardinalityType
  <2>2. /\ IsFiniteSet(T) /\ Cardinality(T) \in Nat /\ Cardinality(S \cup {new}) \in Nat
        /\ Cardinality(T) <= Cardinality(S \cup {new})
    BY <2>1, Part
  <2>3. QED BY <2>1, <2>2
<1>6. Since(0)' \in SUBSET (Since(0) \cup {new}) /\ Since(HealthTTL)' \in SUBSET (Since(HealthTTL) \cup {new})
  BY <1>1 DEF Since
<1>7. /\ Cardinality(Since(0)') <= Cardinality(Since(0)) + 1
      /\ Cardinality(Since(HealthTTL)') <= Cardinality(Since(HealthTTL)) + 1
      /\ Cardinality(Since(0)') \in Nat /\ Cardinality(Since(HealthTTL)') \in Nat
  BY <1>4, <1>5, <1>6
<1>8. IsFiniteSet(calls') /\ Cardinality(calls') \in Nat /\ Cardinality(calls') <= Cardinality(calls) + 1
  BY <1>1, <1>2, <1>5
\* The calls before the last renewal are forgotten.
<1>9. calls = Since(HealthTTL)
  <2>1. ASSUME NEW t \in calls, copy # None PROVE t[1] \div Second > copy - HealthTTL
    <3>1. PICK x \in Nat : x = t[1]
      BY <1>2
    <3>2. now - x < HealthInterval
      BY <3>1 DEF IInv, CallsKnown
    <3>3. x \div Second \in Nat
      BY Quotient
    <3>4. now \div Second >= copy + HealthTTL
      BY <1>2, <2>1 DEF Time
    <3>5. ~(x \div Second <= copy - HealthTTL)
      <4>1. PICK c \in Int : c = copy
        BY <1>2, <2>1
      <4>2. x \div Second <= c - HealthTTL => now - x >= HealthInterval
        BY <1>2, <3>4, <4>1, Forgotten
      <4>3. now - x \in Int /\ HealthInterval \in Nat
        BY <1>2
      <4>4. QED BY <3>2, <4>1, <4>2, <4>3
    <3>6. QED BY <1>2, <2>1, <3>1, <3>3, <3>5
  <2>2. QED BY <2>1 DEF Since
<1>10. /\ Cardinality(Since(0)') <= 2 * lost + Made + 1
       /\ Cardinality(Since(HealthTTL)') <= 2 + 2 * lost + Made + 1
       /\ Cardinality(calls') <= 2 + 2 * lost + Made + 1
  BY <1>2, <1>3, <1>4, <1>7, <1>8, <1>9 DEF IInv, CallsKnown
<1>11. \A t \in calls' : now - t[1] < HealthInterval
  BY <1>1, <1>2 DEF IInv, CallsKnown, new
<1>12. \A v \in Workers : pc'[v] # "rename"
  BY <1>1, <1>2 DEF IInv, LockHeld, Holding
<1>13. WrittenLast'
  BY <1>12 DEF WrittenLast
<1>14. QED
  BY <1>1, <1>2, <1>3, <1>8, <1>10, <1>11, <1>13 DEF CallsKnown

\* The rename: the calls are all before the new copy, and those since the one
\* before are the calls that followed it.
LEMMA RenameStep ==
  ASSUME IInv, NEW w \in Workers, Rename(w)
  PROVE  CallsKnown'
<1>1. /\ calls' = calls /\ now' = now /\ lost' = lost /\ lock' = None /\ copy' = stamp[w]
      /\ pc[w] = "rename" /\ pc' = [pc EXCEPT ![w] = "idle"]
  BY DEF Rename, Goto
<1>2. /\ lock = w /\ Made = 2 /\ Made' = 0 /\ lost \in Nat
      /\ \A t \in calls : t[1] \in Nat
      /\ \A v \in Workers : pc'[v] # "rename"
      /\ stamp[w] \in Int /\ stamp[w] # None
      /\ copy # None => copy \in Int
  BY <1>1, TimeGrows DEF IInv, TypeOK, LockHeld, Holding, Made, MadeBy
<1>3. ASSUME NEW t \in calls
      PROVE  /\ t[1] \div Second \in Int
             /\ ~(t[1] \div Second > stamp[w])
             /\ t[1] \div Second > stamp[w] - HealthTTL => t \in Since(0)
  <2>1. t[1] \div Second \in Int
    BY <1>2, Quotient
  <2>2. t[1] \div Second <= stamp[w]
    BY <1>1 DEF IInv, CallsKnown, WrittenLast
  <2>3. copy # None => stamp[w] - copy >= HealthTTL
    BY <1>1 DEF IInv, CopyOld
  <2>4. PICK q \in Int : q = t[1] \div Second
    BY <2>1
  <2>5. ~(q > stamp[w]) /\ (copy # None /\ q > stamp[w] - HealthTTL => q > copy - 0)
    BY <1>2, <2>2, <2>3, <2>4
  <2>6. QED BY <2>4, <2>5 DEF Since
<1>4. Since(0)' = {}
  BY <1>1, <1>2, <1>3 DEF Since
<1>5. Since(HealthTTL)' \in SUBSET Since(0)
  BY <1>1, <1>2, <1>3 DEF Since
<1>6. IsFiniteSet(Since(0)) /\ Cardinality(Since(0)) \in Nat
  BY SinceType
<1>7. /\ Cardinality(Since(HealthTTL)') \in Nat
      /\ Cardinality(Since(HealthTTL)') <= Cardinality(Since(0))
  BY <1>5, <1>6, Part
<1>8. Cardinality(Since(0)) <= 2 * lost + 2
  BY <1>2 DEF IInv, CallsKnown
<1>9. Cardinality(Since(HealthTTL)') <= 2 + 2 * lost + 0
  BY <1>2, <1>6, <1>7, <1>8
<1>10. Cardinality(Since(0)') <= 2 * lost + 0
  <2>1. Cardinality(Since(0)') = 0
    BY <1>4, FS_EmptySet
  <2>2. 0 <= 2 * lost + 0
    BY <1>2
  <2>3. QED BY <2>1, <2>2
<1>11. WrittenLast'
  BY <1>2 DEF WrittenLast
<1>12. /\ IsFiniteSet(calls) /\ Cardinality(calls) <= 4 + 2 * lost
       /\ \A t \in calls : now - t[1] < HealthInterval
  BY DEF IInv, CallsKnown
<1>13. QED
  BY <1>1, <1>2, <1>9, <1>10, <1>11, <1>12 DEF CallsKnown

\* The clock: the backend forgets.
LEMMA TickStep ==
  ASSUME IInv, Tick
  PROVE  CallsKnown'
<1>1. /\ calls' = Recent(calls, now + 1) /\ now' = now + 1 /\ pc' = pc /\ stamp' = stamp
      /\ copy' = copy /\ lock' = lock /\ lost' = lost
  BY DEF Tick
<1>2. calls' \in SUBSET calls /\ \A t \in calls' : now' - t[1] < HealthInterval
  BY <1>1 DEF Recent
<1>3. Made' = Made /\ Made \in 0 .. 2 /\ lost \in Nat
  BY <1>1, MadeType DEF Made, MadeBy, IInv, TypeOK
<1>4. Since(0)' \in SUBSET Since(0) /\ Since(HealthTTL)' \in SUBSET Since(HealthTTL)
  BY <1>1, <1>2 DEF Since
<1>5. /\ IsFiniteSet(calls) /\ IsFiniteSet(Since(0)) /\ IsFiniteSet(Since(HealthTTL))
      /\ Cardinality(Since(0)) \in Nat /\ Cardinality(Since(HealthTTL)) \in Nat /\ Cardinality(calls) \in Nat
  BY SinceType DEF IInv, CallsKnown
<1>6. /\ IsFiniteSet(calls') /\ Cardinality(calls') \in Nat /\ Cardinality(calls') <= Cardinality(calls)
      /\ Cardinality(Since(0)') \in Nat /\ Cardinality(Since(0)') <= Cardinality(Since(0))
      /\ Cardinality(Since(HealthTTL)') \in Nat
      /\ Cardinality(Since(HealthTTL)') <= Cardinality(Since(HealthTTL))
  BY <1>2, <1>4, <1>5, Part
<1>7. /\ Cardinality(Since(0)) <= 2 * lost + Made
      /\ Cardinality(Since(HealthTTL)) <= 2 + 2 * lost + Made
      /\ Cardinality(calls) <= 4 + 2 * lost
  BY DEF IInv, CallsKnown
<1>8. /\ Cardinality(Since(0)') <= 2 * lost + Made
      /\ Cardinality(Since(HealthTTL)') <= 2 + 2 * lost + Made
      /\ Cardinality(calls') <= 4 + 2 * lost
  BY <1>3, <1>5, <1>6, <1>7
<1>9. WrittenLast'
  BY <1>1, <1>2 DEF IInv, CallsKnown, WrittenLast
<1>10. QED BY <1>1, <1>2, <1>3, <1>6, <1>8, <1>9 DEF CallsKnown

LEMMA CallsStep == IInv /\ [Next]_vars => CallsKnown'
<1>. SUFFICES ASSUME IInv, [Next]_vars PROVE CallsKnown'
  OBVIOUS
\* What is needed of a step that does not call, and is not the rename.
<1>. DEFINE Known == calls' = calls /\ copy' = copy /\ now' = now /\ WrittenLast'
            Paid == \/ lost' = lost /\ Made' \in 0 .. 2 /\ Made <= Made'
                    \/ lost' = lost + 1 /\ Made' = 0
<1>1. lost \in Nat /\ Made \in 0 .. 2
  BY MadeType DEF IInv, TypeOK
<1>2. ASSUME Known, Paid PROVE CallsKnown'
  <2>1. lost' \in Nat /\ Made' \in 0 .. 2 /\ lost <= lost'
    BY <1>1, <1>2
  <2>2. 2 * lost + Made <= 2 * lost' + Made'
    BY <1>1, <1>2
  <2>3. QED BY <1>2, <2>1, <2>2, NoCall
<1>. USE DEF Goto
<1>3. /\ pc \in [Workers -> Holding \cup {"idle", "answered"}]
      /\ lock \in Workers \cup {None} /\ LockHeld /\ WrittenLast
  BY DEF IInv, TypeOK, CallsKnown
\* What is written in the copy stays put, unless a worker writes.
<1>4. ASSUME stamp' = stamp, calls' = calls,
             \A v \in Workers : pc'[v] = "rename" => pc[v] = "rename"
      PROVE  WrittenLast'
  BY <1>3, <1>4 DEF WrittenLast
<1>5. ASSUME NEW w \in Workers, Answer(w) PROVE CallsKnown'
  <2>1. Known
    BY <1>3, <1>4, <1>5 DEF Answer
  <2>2. Paid
    BY <1>1, <1>3, <1>5 DEF Answer, Made, MadeBy, LockHeld, Holding
  <2>3. QED BY <1>2, <2>1, <2>2
<1>6. ASSUME NEW w \in Workers, NothingToDo(w) PROVE CallsKnown'
  <2>1. Known
    BY <1>3, <1>4, <1>6 DEF NothingToDo
  <2>2. Paid
    BY <1>1, <1>3, <1>6 DEF NothingToDo, Made, MadeBy, LockHeld, Holding
  <2>3. QED BY <1>2, <2>1, <2>2
<1>7. ASSUME NEW w \in Workers, TakeLock(w) PROVE CallsKnown'
  <2>1. Known
    BY <1>3, <1>4, <1>7 DEF TakeLock
  <2>2. Paid
    BY <1>1, <1>3, <1>7 DEF TakeLock, Made, MadeBy, LockHeld, Holding
  <2>3. QED BY <1>2, <2>1, <2>2
<1>8. ASSUME NEW w \in Workers, Renewed(w) PROVE CallsKnown'
  <2>1. Known
    BY <1>3, <1>4, <1>8 DEF Renewed
  <2>2. Paid
    BY <1>1, <1>3, <1>8 DEF Renewed, Made, MadeBy, LockHeld, Holding
  <2>3. QED BY <1>2, <2>1, <2>2
<1>9. ASSUME NEW w \in Workers, NotRenewed(w) PROVE CallsKnown'
  <2>1. Known
    BY <1>3, <1>4, <1>9 DEF NotRenewed
  <2>2. Paid
    BY <1>1, <1>3, <1>9 DEF NotRenewed, Made, MadeBy, LockHeld, Holding
  <2>3. QED BY <1>2, <2>1, <2>2
<1>10. ASSUME NEW w \in Workers, CallEnds(w) PROVE CallsKnown'
  <2>1. Known
    BY <1>3, <1>4, <1>10 DEF CallEnds
  <2>2. Paid
    BY <1>1, <1>3, <1>10 DEF CallEnds, Made, MadeBy, LockHeld, Holding
  <2>3. QED BY <1>2, <2>1, <2>2
\* The stamp is the time of the write, and no call is later than now.
<1>11. ASSUME NEW w \in Workers, Write(w) PROVE CallsKnown'
  <2>1. \A v \in Workers : pc'[v] = "rename" => v = w
    BY <1>3, <1>11 DEF Write, LockHeld, Holding
  <2>2. stamp'[w] = Time /\ calls' = calls
    BY <1>11 DEF Write, IInv, TypeOK
  <2>3. ASSUME NEW t \in calls PROVE t[1] \div Second <= Time
    <3>1. now \in Nat /\ t[1] \in Nat /\ t[1] <= now
      BY DEF IInv, TypeOK
    <3>2. QED BY <3>1, QuotientGrows DEF Time
  <2>4. WrittenLast'
    BY <2>1, <2>2, <2>3 DEF WrittenLast
  <2>5. Known
    BY <1>11, <2>4 DEF Write
  <2>6. Paid
    BY <1>1, <1>3, <1>11 DEF Write, Made, MadeBy, LockHeld, Holding
  <2>7. QED BY <1>2, <2>5, <2>6
<1>12. ASSUME NEW w \in Workers, WriteFails(w) PROVE CallsKnown'
  <2>1. Known
    BY <1>3, <1>4, <1>12 DEF WriteFails
  <2>2. Paid
    BY <1>12 DEF WriteFails, Made
  <2>3. QED BY <1>2, <2>1, <2>2
<1>13. ASSUME NEW w \in Workers, Call(w) PROVE CallsKnown'
  BY <1>13, CallStep
<1>14. ASSUME NEW w \in Workers, Rename(w) PROVE CallsKnown'
  BY <1>14, RenameStep
<1>15. ASSUME NEW w \in Workers, Crash(w) PROVE CallsKnown'
  \* Whoever is about to rename has the lock, and it is w that ends.
  <2>1. \A v \in Workers : pc'[v] # "rename"
    BY <1>3, <1>15 DEF Crash, LockHeld, Holding
  <2>2. Known
    BY <1>15, <2>1 DEF Crash, WrittenLast
  <2>3. Paid
    BY <1>15 DEF Crash, Made
  <2>4. QED BY <1>2, <2>2, <2>3
<1>16. CASE Tick
  BY <1>16, TickStep
<1>17. CASE UNCHANGED vars
  <2>1. Known
    BY <1>3, <1>4, <1>17 DEF vars
  <2>2. Paid
    BY <1>1, <1>17 DEF vars, Made, MadeBy
  <2>3. QED BY <1>2, <2>1, <2>2
<1>18. QED
  BY <1>5, <1>6, <1>7, <1>8, <1>9, <1>10, <1>11, <1>12, <1>13, <1>14, <1>15, <1>16, <1>17
     DEF Next, Refresh

-----------------------------------------------------------------------------
LEMMA Inductive == IInv /\ [Next]_vars => IInv'
BY TypeStep, LockStep, CopyOldStep, CallsStep DEF IInv

LEMMA AlwaysIInv == Spec => []IInv
<1>1. Init => IInv
  BY InitIInv
<1>2. IInv /\ [Next]_vars => IInv'
  BY Inductive
<1>3. QED BY <1>1, <1>2, PTL DEF Spec

\* The stamp of a renewal is a time that has been, and so is the copy's.
THEOREM TypeCorrect == Spec => []TypeOK
<1>1. IInv => TypeOK
  BY DEF IInv
<1>2. QED BY <1>1, AlwaysIInv, PTL

\* The web host calls the backend's /health at most HealthMax times within
\* HealthInterval, two more for each renewal that was lost, however many
\* workers there are and wherever they end.
THEOREM Spared == Spec => []BackendSpared
<1>1. IInv => BackendSpared
  <2>. SUFFICES ASSUME IInv PROVE BackendSpared
    OBVIOUS
  <2>1. Cardinality(calls) <= 4 + 2 * lost /\ lost \in Nat /\ Cardinality(calls) \in Nat
    BY SinceType DEF IInv, CallsKnown, TypeOK
  <2>2. Cardinality(calls) <= HealthMax + 2 * lost
    BY <2>1
  <2>3. QED BY <2>2 DEF BackendSpared
<1>2. QED BY <1>1, AlwaysIInv, PTL

\* One worker at a time is behind the lock: the others of api.php's
\* refresh_health find it taken.
THEOREM OneRenewal ==
  Spec => [](\A v, w \in Workers : pc[v] \in Holding /\ pc[w] \in Holding => v = w)
<1>1. IInv => \A v, w \in Workers : pc[v] \in Holding /\ pc[w] \in Holding => v = w
  BY DEF IInv, LockHeld
<1>2. QED BY <1>1, AlwaysIInv, PTL

\* The rename never puts an older copy in the place of a newer one.
THEOREM NeverOlder == Spec => CopyNeverOlder
<1>. DEFINE Newer == copy # None => copy' # None /\ copy' >= copy
<1>1. IInv /\ [Next]_vars => [Newer]_vars
  <2>. SUFFICES ASSUME IInv, [Next]_vars, copy' # copy, copy # None PROVE Newer
    BY TimeGrows DEF IInv, TypeOK, vars
  <2>1. PICK w \in Workers : Rename(w)
    BY DEF Next, Refresh, Tick, Answer, NothingToDo, TakeLock, Renewed, NotRenewed, Call,
           CallEnds, Write, WriteFails, Crash, vars
  <2>2. copy' = stamp[w] /\ stamp[w] - copy >= HealthTTL
    BY <2>1 DEF Rename, Goto, IInv, CopyOld
  <2>3. stamp[w] \in Int /\ copy \in Int
    BY TimeGrows DEF IInv, TypeOK
  <2>4. QED BY <2>2, <2>3
<1>2. QED BY <1>1, AlwaysIInv, PTL DEF Spec, CopyNeverOlder

-----------------------------------------------------------------------------
\* A lock that is taken is in the hands of a worker that is at work under it.
LockUsed == lock # None => lock \in Workers /\ pc[lock] \in Holding

\* How many steps a worker may still take before it waits for a visitor again.
StepsLeft(w) ==
  IF pc[w] = "answered" THEN 8 ELSE IF pc[w] = "locked" THEN 7 ELSE IF pc[w] = "first" THEN 6
  ELSE IF pc[w] = "calling" THEN 5 ELSE IF pc[w] = "second" THEN 4 ELSE IF pc[w] = "again" THEN 3
  ELSE IF pc[w] = "write" THEN 2 ELSE IF pc[w] = "rename" THEN 1 ELSE 0

LEMMA LockUsedStep == ASSUME IInv, LockUsed, [Next]_vars PROVE LockUsed'
<1>. USE DEF IInv, TypeOK, LockHeld, LockUsed, Holding
<1>1. ASSUME NEW w \in Workers, Answer(w) \/ NothingToDo(w) PROVE LockUsed'
  BY <1>1 DEF Answer, NothingToDo, Goto
<1>2. ASSUME NEW w \in Workers, TakeLock(w) PROVE LockUsed'
  BY <1>2 DEF TakeLock, Goto
<1>3. ASSUME NEW w \in Workers, Renewed(w) \/ WriteFails(w) \/ Rename(w) \/ Crash(w) PROVE LockUsed'
  BY <1>3 DEF Renewed, WriteFails, Rename, Crash
<1>4. ASSUME NEW w \in Workers, NotRenewed(w) \/ Call(w) \/ CallEnds(w) \/ Write(w) PROVE LockUsed'
  BY <1>4 DEF NotRenewed, Call, CallEnds, Write, Goto
<1>5. CASE Tick \/ UNCHANGED vars
  BY <1>5 DEF Tick, vars
<1>6. QED
  BY <1>1, <1>2, <1>3, <1>4, <1>5 DEF Next, Refresh

\* The lock is never left behind: whoever holds it is at work, and whoever is at
\* work beyond it holds it, so that its end, by a rename, a failed write, a copy
\* found renewed or the end of its process, gives it back (refresh_health).
THEOREM LockIsNotLost ==
  Spec => [](\A w \in Workers : lock = w <=> pc[w] \in Holding)
<1>1. Init => LockUsed
  BY DEF Init, LockUsed
<1>2. IInv /\ LockUsed /\ [Next]_vars => LockUsed'
  BY LockUsedStep
<1>3. IInv /\ LockUsed => \A w \in Workers : lock = w <=> pc[w] \in Holding
  BY DEF IInv, LockHeld, LockUsed
<1>4. QED
  BY <1>1, <1>2, <1>3, AlwaysIInv, PTL DEF Spec

\* Nobody's turn behind the lock is in vain: when the lock is given back, the
\* worker has found a young copy, or has left one that is at least HealthTTL newer
\* than the one it found, or the first; or its renewal was lost.
THEOREM EveryTurnRenews ==
  Spec => [][(lock # None /\ lock' = None) =>
               \/ lost' = lost + 1
               \/ /\ copy' # None
                  /\ Young(Age) \/ copy = None \/ copy' - copy >= HealthTTL]_vars
<1>. DEFINE Renews == \/ lost' = lost + 1
                      \/ /\ copy' # None
                         /\ Young(Age) \/ copy = None \/ copy' - copy >= HealthTTL
<1>1. ASSUME IInv, Next, lock # None, lock' = None PROVE Renews
  <2>. USE DEF IInv, TypeOK
  <2>1. PICK w \in Workers : Renewed(w) \/ WriteFails(w) \/ Rename(w) \/ Crash(w)
    BY <1>1 DEF Next, Refresh, Tick, Answer, NothingToDo, TakeLock, NotRenewed, Call, CallEnds, Write
  <2>2. CASE Renewed(w)
    BY <2>2 DEF Renewed, StillOld, Young, Age
  <2>3. CASE WriteFails(w) \/ Crash(w)
    BY <2>3 DEF WriteFails, Crash
  <2>4. CASE Rename(w)
    <3>1. pc[w] = "rename" /\ copy' = stamp[w]
      BY <2>4 DEF Rename, Goto
    <3>2. copy # None => stamp[w] - copy >= HealthTTL
      BY <1>1, <3>1 DEF CopyOld
    <3>3. stamp[w] \in Int
      BY <1>1, TimeGrows
    <3>4. copy' # None
      BY <3>1, <3>3
    <3>5. QED BY <3>1, <3>2, <3>4
  <2>5. QED BY <2>1, <2>2, <2>3, <2>4
<1>2. IInv /\ [Next]_vars => [(lock # None /\ lock' = None) => Renews]_vars
  BY <1>1
<1>3. QED
  BY <1>2, AlwaysIInv, PTL DEF Spec

\* A worker that was asked is ready for the next visitor after eight steps at
\* most, whatever the others do: no step of anybody else moves it, none of its
\* own leads back.
THEOREM EightStepsAtMost ==
  Spec => [][\A w \in Workers : pc'[w] # pc[w] =>
               pc[w] = "idle" \/ StepsLeft(w)' < StepsLeft(w)]_vars
<1>1. ASSUME IInv, Next, NEW w \in Workers, pc'[w] # pc[w], pc[w] # "idle"
      PROVE  StepsLeft(w)' < StepsLeft(w)
  <2>. USE DEF IInv, TypeOK, Holding, StepsLeft
  <2>1. ASSUME NEW v \in Workers, Answer(v) \/ NothingToDo(v) \/ TakeLock(v) \/ Renewed(v)
        PROVE  StepsLeft(w)' < StepsLeft(w)
    BY <1>1, <2>1 DEF Answer, NothingToDo, TakeLock, Renewed, Goto
  <2>2. ASSUME NEW v \in Workers, NotRenewed(v) \/ Call(v) \/ CallEnds(v) \/ Write(v)
        PROVE  StepsLeft(w)' < StepsLeft(w)
    BY <1>1, <2>2 DEF NotRenewed, Call, CallEnds, Write, Goto
  <2>3. ASSUME NEW v \in Workers, WriteFails(v) \/ Rename(v) \/ Crash(v)
        PROVE  StepsLeft(w)' < StepsLeft(w)
    BY <1>1, <2>3 DEF WriteFails, Rename, Crash, Goto
  <2>4. ~Tick
    BY <1>1 DEF Tick
  <2>5. QED BY <1>1, <2>1, <2>2, <2>3, <2>4 DEF Next, Refresh
<1>2. IInv /\ [Next]_vars => [\A w \in Workers : pc'[w] # pc[w] =>
                                pc[w] = "idle" \/ StepsLeft(w)' < StepsLeft(w)]_vars
  BY <1>1
<1>3. QED
  BY <1>2, AlwaysIInv, PTL DEF Spec
=============================================================================
