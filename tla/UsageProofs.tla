---------------------------- MODULE UsageProofs ----------------------------
(***************************************************************************)
(* Proofs about Usage, for any kinds of periods and how many of them are   *)
(* kept, and about Estimates, the clients of a finished period.            *)
(***************************************************************************)
EXTENDS Usage, Estimates, NumberFacts, SequenceTheorems

LEMMA Constants ==
  ASSUME NEW k \in Kinds
  PROVE  /\ Length[k] \in Nat \ {0} /\ Keep[k] \in Nat \ {0}
         /\ QueueMax \in Nat /\ MaxTime \in Nat
BY UsageAssumption

-----------------------------------------------------------------------------
(***************************************************************************)
(* Lengths of time in periods of a kind.                                   *)
(***************************************************************************)
Times(k, i) == i * Length[k]

LEMMA TimesNat ==
  ASSUME NEW k \in Kinds, NEW i \in Nat
  PROVE  Times(k, i) \in Nat
BY Constants, Multiples DEF Times

LEMMA TimesSum ==
  ASSUME NEW k \in Kinds, NEW i \in Nat, NEW j \in Nat
  PROVE  Times(k, i + j) = Times(k, i) + Times(k, j)
BY Constants, Multiples DEF Times

LEMMA TimesLess ==
  ASSUME NEW k \in Kinds, NEW i \in Nat, NEW j \in Nat
  PROVE  i < j <=> Times(k, i) < Times(k, j)
BY Constants, Multiples DEF Times

\* One period more.
LEMMA TimesNext ==
  ASSUME NEW k \in Kinds, NEW i \in Nat
  PROVE  Times(k, i + 1) = Times(k, i) + Length[k]
<1>1. Times(k, i + 1) = Times(k, i) + Times(k, 1)
  BY TimesSum
<1>2. Times(k, 1) = Length[k]
  BY Constants DEF Times
<1>3. QED BY <1>1, <1>2

\* How many whole periods are between two times.
LEMMA Between ==
  ASSUME NEW k \in Kinds, NEW n \in Nat
  PROVE  Times(k, n) \div Length[k] = n
BY Constants, QuotientOfMultiple DEF Times

\* A period starts at a multiple of its length.
LEMMA Starts ==
  ASSUME NEW k \in Kinds, NEW t \in Nat
  PROVE  /\ StartOf(k, t) \in Nat /\ StartOf(k, t) <= t /\ t < StartOf(k, t) + Length[k]
         /\ \E q \in Nat : StartOf(k, t) = Times(k, q)
<1>1. PICK d \in Nat \ {0} : d = Length[k]
  BY Constants
<1>2. PICK q \in Nat, r \in Nat : t = q * d + r /\ r < d /\ r = t % d
  BY Remainder
<1>3. PICK x \in Nat : x = q * d /\ x = Times(k, q)
  BY <1>1, Multiples DEF Times
<1>4. StartOf(k, t) = t - r
  BY <1>1, <1>2 DEF StartOf
<1>5. StartOf(k, t) = x /\ t = x + r
  BY <1>2, <1>3, <1>4
<1>6. QED BY <1>1, <1>2, <1>3, <1>5

-----------------------------------------------------------------------------
(***************************************************************************)
(* roll, for one kind.                                                     *)
(***************************************************************************)
Finished(s) == {s.done[i] : i \in DOMAIN s.done}
Current(s) == [start |-> s.start, n |-> s.n]

\* The periods of a kind follow each other without a gap, up to the running one,
\* which is none of the future.
InLine(k, s, t) ==
  /\ \E q \in 0 .. s.start : s.start = q * Length[k]
  /\ s.start <= t
  /\ \A i \in DOMAIN s.done : s.done[i].start = s.start - i * Length[k]

\* All periods that s keeps are newer than p.
TooOld(k, s, p) == Len(s.done) = Keep[k] /\ p.start < s.start - Keep[k] * Length[k]

\* The missed periods.
LEMMA MissedPeriods ==
  ASSUME NEW k \in Kinds, NEW from \in Nat, NEW to \in Nat
  PROVE  /\ Missed(k, from, to) \in Seq(Period)
         /\ \A i \in 1 .. Len(Missed(k, from, to)) :
              Missed(k, from, to)[i] = [start |-> to - Times(k, i), n |-> 0]
         /\ Length[k] <= to - from => Len(Missed(k, from, to)) = (to - from) \div Length[k] - 1
<1>. DEFINE last == (to - from) \div Length[k] - 1
<1>1. Length[k] \in Nat \ {0}
  BY Constants
<1>2. last \in Int
  BY <1>1
<1>3. Missed(k, from, to) = [i \in 1 .. last |-> [start |-> to - Times(k, i), n |-> 0]]
  BY DEF Missed, Times
<1>4. ASSUME NEW i \in 1 .. last PROVE to - Times(k, i) \in Nat
  <2>1. to >= from
    <3>1. to - from < 0 => last < 0
      BY <1>1
    <3>2. QED BY <1>2, <1>4, <3>1
  <2>2. PICK span \in Nat : span = to - from
    BY <2>1
  <2>3. PICK q \in Nat : q = span \div Length[k] /\ Length[k] * q <= span
    BY <1>1, Quotient
  <2>4. Times(k, q) <= span
    BY <1>1, <2>3 DEF Times
  <2>5. i \in Nat /\ i < q
    BY <1>4, <2>2, <2>3
  <2>6. Times(k, i) < Times(k, q) /\ Times(k, i) \in Nat /\ Times(k, q) \in Nat
    BY <2>5, TimesNat, TimesLess
  <2>7. QED BY <2>2, <2>4, <2>6
<1>. HIDE DEF last
<1>5. PICK n \in Nat : 1 .. last = 1 .. n /\ n = IF last < 0 THEN 0 ELSE last
  BY <1>2
<1>6. Missed(k, from, to) \in [1 .. n -> Period]
  BY <1>3, <1>4, <1>5 DEF Period
<1>7. Missed(k, from, to) \in Seq(Period) /\ Len(Missed(k, from, to)) = n
  <2>1. Missed(k, from, to) \in Seq(Period)
    BY <1>6, SeqDef
  <2>2. QED BY <1>6, <2>1, LenProperties
<1>8. ASSUME Length[k] <= to - from PROVE n = last
  <2>1. PICK span \in Nat : span = to - from /\ Length[k] <= span
    BY <1>1, <1>8
  <2>2. PICK d \in Nat \ {0} : d = Length[k]
    BY <1>1
  <2>3. PICK q \in Nat : q = span \div d /\ span < d * (q + 1)
    BY Quotient
  <2>4. q # 0
    BY <2>1, <2>2, <2>3
  <2>5. last = q - 1
    BY <2>1, <2>2, <2>3 DEF last
  <2>6. QED BY <1>5, <2>4, <2>5
<1>9. \A i \in 1 .. n : Missed(k, from, to)[i] = [start |-> to - Times(k, i), n |-> 0]
  BY <1>3, <1>5
<1>10. Length[k] <= to - from => Len(Missed(k, from, to)) = (to - from) \div Length[k] - 1
  BY <1>7, <1>8, Zenon DEF last
<1>11. QED BY <1>7, <1>9, <1>10, Zenon

\* What roll keeps of the missed periods, the one that ended and the earlier ones.
All(k, r, to) == Missed(k, r.start, to) \o <<Current(r)>> \o r.done

Joined(k, r, to, m, n, all) ==
  /\ all = All(k, r, to) /\ Len(all) = m + 1 + n
  /\ \A i \in 1 .. m : all[i] = [start |-> to - Times(k, i), n |-> 0]
  /\ all[m + 1] = Current(r)
  /\ \A j \in 1 .. n : all[m + 1 + j] = r.done[j]

LEMMA Places ==
  ASSUME NEW m \in Nat, NEW n \in Nat
  PROVE  /\ \A i \in 1 .. m : i \in 1 .. m + 1 /\ i \in 1 .. m + 1 + n /\ i <= m /\ i <= m + 1
         /\ m + 1 \in 1 .. m + 1 /\ m + 1 \in 1 .. m + 1 + n
         /\ m + 1 <= m + 1 /\ ~(m + 1 <= m) /\ (m + 1) - m = 1
OBVIOUS

LEMMA PlacesBeyond ==
  ASSUME NEW m \in Nat, NEW n \in Nat, NEW j \in 1 .. n
  PROVE  /\ m + 1 + j \in 1 .. m + 1 + n /\ ~(m + 1 + j <= m + 1)
         /\ (m + 1 + j) - (m + 1) = j
OBVIOUS

LEMMA AllPeriods ==
  ASSUME NEW k \in Kinds, NEW r \in Series, NEW to \in Nat, NEW m \in Nat,
         m = Len(Missed(k, r.start, to)), NEW n \in Nat, n = Len(r.done)
  PROVE  \E all \in Seq(Period) : Joined(k, r, to, m, n, all)
<1>1. PICK missed \in Seq(Period) :
        /\ missed = Missed(k, r.start, to) /\ Len(missed) = m
        /\ \A i \in 1 .. m : missed[i] = [start |-> to - Times(k, i), n |-> 0]
  BY MissedPeriods DEF Series
<1>2. PICK cur \in Period : cur = Current(r)
  BY DEF Current, Period, Series
<1>3. PICK done \in Seq(Period) : done = r.done
  BY DEF Series
<1>4. PICK one \in Seq(Period) : one = <<cur>> /\ Len(one) = 1 /\ one[1] = cur
  <2>1. <<cur>> \in Seq(Period)
    OBVIOUS
  <2>2. Len(<<cur>>) = 1 /\ <<cur>>[1] = cur
    OBVIOUS
  <2>3. QED BY <2>1, <2>2, Zenon
<1>5. PICK two \in Seq(Period) :
        /\ two = missed \o one /\ Len(two) = m + 1
        /\ \A i \in 1 .. m + 1 : two[i] = IF i <= m THEN missed[i] ELSE one[i - m]
  <2>1. /\ missed \o one \in Seq(Period) /\ Len(missed \o one) = Len(missed) + Len(one)
        /\ \A i \in 1 .. Len(missed) + Len(one) :
             (missed \o one)[i] = IF i <= Len(missed) THEN missed[i] ELSE one[i - Len(missed)]
    BY ConcatProperties, Zenon
  <2>2. PICK two \in Seq(Period) :
          /\ two = missed \o one /\ Len(two) = Len(missed) + Len(one)
          /\ \A i \in 1 .. Len(missed) + Len(one) :
               two[i] = IF i <= Len(missed) THEN missed[i] ELSE one[i - Len(missed)]
    BY <2>1, Zenon
  <2>3. Len(missed) + Len(one) = m + 1
    BY <1>1, <1>4
  <2>4. /\ Len(two) = m + 1
        /\ \A i \in 1 .. m + 1 : two[i] = IF i <= m THEN missed[i] ELSE one[i - m]
    BY <1>1, <2>2, <2>3
  <2>5. QED BY <2>2, <2>4, Zenon
<1>6. PICK all \in Seq(Period) :
        /\ all = two \o done /\ Len(all) = m + 1 + n
        /\ \A i \in 1 .. m + 1 + n : all[i] = IF i <= m + 1 THEN two[i] ELSE done[i - (m + 1)]
  <2>1. /\ two \o done \in Seq(Period) /\ Len(two \o done) = Len(two) + Len(done)
        /\ \A i \in 1 .. Len(two) + Len(done) :
             (two \o done)[i] = IF i <= Len(two) THEN two[i] ELSE done[i - Len(two)]
    BY ConcatProperties, Zenon
  <2>2. Len(two) = m + 1 /\ Len(done) = n
    BY <1>3, <1>5, Zenon
  <2>3. /\ two \o done \in Seq(Period) /\ Len(two \o done) = (m + 1) + n
        /\ \A i \in 1 .. (m + 1) + n :
             (two \o done)[i] = IF i <= m + 1 THEN two[i] ELSE done[i - (m + 1)]
    BY <2>1, <2>2, Zenon
  <2>4. QED BY <2>3, Zenon
<1>7. all = All(k, r, to)
  BY <1>1, <1>2, <1>3, <1>4, <1>5, <1>6 DEF All
<1>8. ASSUME NEW i \in 1 .. m PROVE all[i] = [start |-> to - Times(k, i), n |-> 0]
  <2>1. i \in 1 .. m + 1 /\ i \in 1 .. m + 1 + n /\ i <= m /\ i <= m + 1
    BY Places, Zenon
  <2>2. all[i] = two[i]
    BY <1>6, <2>1, Zenon
  <2>3. two[i] = missed[i]
    BY <1>5, <2>1, Zenon
  <2>4. QED BY <1>1, <2>2, <2>3, Zenon
<1>9. all[m + 1] = cur
  <2>1. /\ m + 1 \in 1 .. m + 1 /\ m + 1 \in 1 .. m + 1 + n
        /\ m + 1 <= m + 1 /\ ~(m + 1 <= m) /\ (m + 1) - m = 1
    BY Places, Zenon
  <2>2. all[m + 1] = two[m + 1]
    BY <1>6, <2>1, Zenon
  <2>3. two[m + 1] = one[(m + 1) - m]
    BY <1>5, <2>1, Zenon
  <2>4. QED BY <1>4, <2>1, <2>2, <2>3, Zenon
<1>10. ASSUME NEW j \in 1 .. n PROVE all[m + 1 + j] = done[j]
  <2>1. /\ m + 1 + j \in 1 .. m + 1 + n /\ ~(m + 1 + j <= m + 1)
        /\ (m + 1 + j) - (m + 1) = j
    BY PlacesBeyond, Zenon
  <2>2. all[m + 1 + j] = done[(m + 1 + j) - (m + 1)]
    BY <1>6, <2>1, Zenon
  <2>3. QED BY <2>1, <2>2, Zenon
<1>11. Joined(k, r, to, m, n, all)
  BY <1>2, <1>3, <1>6, <1>7, <1>8, <1>9, <1>10, Zenon DEF Joined
<1>12. QED BY <1>11

LEMMA Newest ==
  ASSUME NEW k \in Kinds, NEW all \in Seq(Period)
  PROVE  /\ NewestKept(k, all) \in Seq(Period)
         /\ Len(NewestKept(k, all)) = IF Len(all) <= Keep[k] THEN Len(all) ELSE Keep[k]
         /\ \A i \in 1 .. Len(NewestKept(k, all)) : NewestKept(k, all)[i] = all[i]
<1>1. Len(all) \in Nat /\ Keep[k] \in Nat \ {0}
  BY Constants, LenProperties
<1>2. PICK n \in Nat : /\ n = Min({Len(all), Keep[k]})
                       /\ n = IF Len(all) <= Keep[k] THEN Len(all) ELSE Keep[k]
                       /\ \A i \in 1 .. n : i \in 1 .. Len(all)
  <2>1. PICK a \in Nat, b \in Nat : a = Len(all) /\ b = Keep[k]
    BY <1>1
  <2>2. PICK n \in Nat : n = Min({a, b}) /\ n = IF a <= b THEN a ELSE b
    BY SmallerOfTwo
  <2>3. \A i \in 1 .. n : i \in 1 .. a
    <3>1. n <= a
      BY <2>2
    <3>2. QED BY <3>1
  <2>4. QED BY <2>1, <2>2, <2>3, Zenon
<1>3. \A i \in 1 .. n : all[i] \in Period
  BY <1>2, ElementOfSeq, Zenon
<1>4. PICK kept \in Seq(Period) :
        /\ kept = SubSeq(all, 1, n) /\ Len(kept) = IF 1 <= n THEN n - 1 + 1 ELSE 0
        /\ \A i \in 1 .. n - 1 + 1 : kept[i] = all[1 + i - 1]
  <2>1. \A i \in 1 .. n : all[i] \in Period
    BY <1>3
  <2>2. 1 \in Int /\ n \in Int
    OBVIOUS
  <2>3. /\ SubSeq(all, 1, n) \in Seq(Period)
        /\ Len(SubSeq(all, 1, n)) = IF 1 <= n THEN n - 1 + 1 ELSE 0
        /\ \A i \in 1 .. n - 1 + 1 : SubSeq(all, 1, n)[i] = all[1 + i - 1]
    BY <2>1, <2>2, SubSeqProperties
  <2>4. QED BY <2>3, Zenon
<1>5. NewestKept(k, all) = kept
  BY <1>2, <1>4 DEF NewestKept
<1>6. Len(kept) = n /\ \A i \in 1 .. n : kept[i] = all[i]
  BY <1>4
<1>7. QED BY <1>2, <1>4, <1>5, <1>6

\* The series of one kind after roll.
LEMMA RollTypes ==
  ASSUME NEW s, NEW k \in Kinds, NEW t \in Nat, s[k] = None \/ WellFormed(k, s[k])
  PROVE  WellFormed(k, RollKind(s, k, t))
<1>1. StartOf(k, t) \in Nat /\ Keep[k] \in Nat
  BY Starts, Constants
<1>2. CASE ~Due(s, k, t)
  BY <1>2 DEF Due, RollKind
<1>3. CASE Due(s, k, t)
  <2>1. Done(s, k, t) \in Seq(Period) /\ Len(Done(s, k, t)) <= Keep[k]
    <3>1. CASE s[k] = None
      <4>1. Done(s, k, t) = << >>
        BY <3>1 DEF Done
      <4>2. << >> \in Seq(Period) /\ Len(<< >>) = 0
        BY EmptySeq
      <4>3. QED BY <1>1, <4>1, <4>2
    <3>2. CASE s[k] # None
      <4>1. PICK r \in Series : r = s[k]
        BY <3>2 DEF WellFormed
      <4>2. Done(s, k, t) = NewestKept(k, All(k, r, StartOf(k, t)))
        BY <3>2, <4>1 DEF Done, All, Current
      <4>3. PICK m \in Nat : m = Len(Missed(k, r.start, StartOf(k, t)))
        BY <1>1, <4>1, MissedPeriods, LenProperties DEF Series
      <4>4. PICK all \in Seq(Period) : all = All(k, r, StartOf(k, t)) /\ Len(all) \in Nat
        <5>1. PICK n \in Nat : n = Len(r.done)
          BY LenProperties DEF Series
        <5>2. PICK all \in Seq(Period) : Joined(k, r, StartOf(k, t), m, n, all)
          BY <1>1, <4>3, <5>1, AllPeriods
        <5>3. QED BY <5>2, LenProperties DEF Joined
      <4>5. QED BY <1>1, <4>2, <4>4, Newest
    <3>3. QED BY <3>1, <3>2
  <2>2. RollKind(s, k, t) = [start |-> StartOf(k, t), n |-> 0, done |-> Done(s, k, t)]
    BY <1>3 DEF RollKind
  <2>3. QED BY <1>1, <2>1, <2>2 DEF WellFormed, Series, KeptPeriods
<1>4. QED BY <1>2, <1>3

KeptOf(k, r, to, m, n, done, kept) ==
  /\ Len(done) = kept
  /\ kept = IF m + 1 + n <= Keep[k] THEN m + 1 + n ELSE Keep[k]
  /\ \A i \in 1 .. m : i <= kept => done[i] = [start |-> to - Times(k, i), n |-> 0]
  /\ m + 1 <= kept => done[m + 1] = Current(r)
  /\ \A j \in 1 .. n : m + 1 + j <= kept => done[m + 1 + j] = r.done[j]

LEMMA KeptPlaces ==
  ASSUME NEW m \in Nat, NEW n \in Nat, NEW kept \in Nat
  PROVE  /\ \A i \in 1 .. m : i <= kept => i \in 1 .. kept
         /\ m + 1 <= kept => m + 1 \in 1 .. kept
         /\ \A j \in 1 .. n : m + 1 + j <= kept => m + 1 + j \in 1 .. kept
OBVIOUS

LEMMA Kept ==
  ASSUME NEW k \in Kinds, NEW r \in Series, NEW to \in Nat,
         NEW m \in Nat, m = Len(Missed(k, r.start, to)), NEW n \in Nat, n = Len(r.done)
  PROVE  \E done \in Seq(Period), kept \in Nat :
           done = NewestKept(k, All(k, r, to)) /\ KeptOf(k, r, to, m, n, done, kept)
<1>1. PICK all \in Seq(Period) : Joined(k, r, to, m, n, all)
  BY AllPeriods
<1>2. PICK limit \in Nat : limit = Keep[k]
  BY Constants
<1>3. PICK done \in Seq(Period), kept \in Nat :
        /\ done = NewestKept(k, all) /\ Len(done) = kept
        /\ kept = IF Len(all) <= limit THEN Len(all) ELSE limit
        /\ \A i \in 1 .. kept : done[i] = all[i]
  <2>1. PICK done \in Seq(Period), kept \in Nat : done = NewestKept(k, all) /\ Len(done) = kept
    BY Newest, LenProperties, Zenon
  <2>2. kept = IF Len(all) <= limit THEN Len(all) ELSE limit
    BY <1>2, <2>1, Newest, Zenon
  <2>3. \A i \in 1 .. kept : done[i] = all[i]
    BY <2>1, Newest, Zenon
  <2>4. QED BY <2>1, <2>2, <2>3, Zenon
<1>4. Len(all) = m + 1 + n
  BY <1>1, Zenon DEF Joined
<1>5. kept = IF m + 1 + n <= limit THEN m + 1 + n ELSE limit
  BY <1>3, <1>4, Zenon
<1>6. ASSUME NEW i \in 1 .. m, i <= kept PROVE done[i] = [start |-> to - Times(k, i), n |-> 0]
  <2>1. i \in 1 .. kept
    BY <1>6, KeptPlaces, Zenon
  <2>2. QED BY <1>1, <1>3, <2>1, Zenon DEF Joined
<1>7. ASSUME m + 1 <= kept PROVE done[m + 1] = Current(r)
  <2>1. m + 1 \in 1 .. kept
    BY <1>7, KeptPlaces, Zenon
  <2>2. QED BY <1>1, <1>3, <2>1, Zenon DEF Joined
<1>8. ASSUME NEW j \in 1 .. n, m + 1 + j <= kept PROVE done[m + 1 + j] = r.done[j]
  <2>1. m + 1 + j \in 1 .. kept
    BY <1>8, KeptPlaces, Zenon
  <2>2. done[m + 1 + j] = all[m + 1 + j]
    BY <1>3, <2>1, Zenon
  <2>3. QED BY <1>1, <2>2, Zenon DEF Joined
<1>9. KeptOf(k, r, to, m, n, done, kept)
  BY <1>2, <1>3, <1>5, <1>6, <1>7, <1>8, Zenon DEF KeptOf
<1>10. done = NewestKept(k, All(k, r, to))
  BY <1>1, <1>3, Zenon DEF Joined
<1>11. QED BY <1>9, <1>10, Zenon

LEMMA MissedCount ==
  ASSUME NEW k \in Kinds, NEW from \in Nat, NEW m \in Nat
  PROVE  Len(Missed(k, from, from + Times(k, m + 1))) = m
<1>1. PICK d \in Nat \ {0}, e \in Nat : d = Length[k] /\ e = Times(k, m + 1) /\ d <= e
  <2>1. Times(k, m + 1) = Times(k, m) + Length[k] /\ Times(k, m) \in Nat
    BY TimesNext, TimesNat
  <2>2. QED BY <2>1, Constants
<1>2. PICK to \in Nat : to = from + e /\ d <= to - from /\ to - from = e
  BY <1>1
<1>3. Len(Missed(k, from, to)) = (to - from) \div Length[k] - 1
  BY <1>1, <1>2, MissedPeriods, Zenon
<1>4. Times(k, m + 1) \div Length[k] = m + 1
  <2>1. m + 1 \in Nat
    OBVIOUS
  <2>2. QED BY <2>1, Between, Zenon
<1>5. e \div Length[k] = m + 1
  BY <1>1, <1>4, Zenon
<1>6. (to - from) \div Length[k] = m + 1
  BY <1>2, <1>5, Zenon
<1>7. Len(Missed(k, from, to)) = m
  BY <1>3, <1>6
<1>8. QED BY <1>1, <1>2, <1>7, Zenon

\* The period that ended lies a whole number of periods back.
LEMMA Behind ==
  ASSUME NEW k \in Kinds, NEW r \in Series, NEW t \in Nat, InLine(k, r, t), r.start # StartOf(k, t)
  PROVE  \E m \in Nat : /\ m = Len(Missed(k, r.start, StartOf(k, t)))
                        /\ StartOf(k, t) = r.start + Times(k, m + 1)
<1>1. PICK to \in Nat, q2 \in Nat : to = StartOf(k, t) /\ to = Times(k, q2) /\ t < to + Length[k]
  BY Starts
<1>2. PICK from \in Nat : from = r.start
  BY DEF Series
<1>3. PICK q1 \in Nat : from = Times(k, q1) /\ from <= t
  BY <1>2 DEF InLine, Times
<1>4. q1 < q2
  <2>1. Times(k, q2 + 1) = to + Length[k]
    BY <1>1, TimesNext
  <2>2. q1 < q2 + 1
    <3>1. PICK d \in Nat : d = Length[k]
      BY Constants
    <3>2. Times(k, q1) < Times(k, q2 + 1)
      BY <1>1, <1>3, <2>1, <3>1
    <3>3. q2 + 1 \in Nat
      OBVIOUS
    <3>4. QED BY <3>2, <3>3, TimesLess, Zenon
  <2>3. q1 # q2
    BY <1>1, <1>2, <1>3
  <2>4. QED BY <2>2, <2>3
<1>5. PICK m \in Nat : q2 = q1 + (m + 1)
  <2>1. q2 - q1 - 1 \in Nat
    BY <1>4
  <2>2. QED BY <2>1
<1>6. to = from + Times(k, m + 1)
  <2>1. m + 1 \in Nat
    OBVIOUS
  <2>2. Times(k, q2) = Times(k, q1) + Times(k, m + 1)
    BY <1>5, <2>1, TimesSum, Zenon
  <2>3. QED BY <1>1, <1>3, <2>2
<1>7. Len(Missed(k, from, to)) = m
  BY <1>6, MissedCount, Zenon
<1>8. QED BY <1>1, <1>2, <1>6, <1>7, Zenon

\* What a kind is after it has rolled: nothing if there was nothing, ...
LEMMA RollNew ==
  ASSUME NEW s, NEW k \in Kinds, NEW t \in Nat, s[k] = None
  PROVE  RollKind(s, k, t) = [start |-> StartOf(k, t), n |-> 0, done |-> << >>]
BY DEF RollKind, Due, Done

\* ... the same while the period runs, ...
LEMMA RollNotDue ==
  ASSUME NEW s, NEW k \in Kinds, NEW t \in Nat, s[k] # None, s[k].start = StartOf(k, t)
  PROVE  RollKind(s, k, t) = s[k]
BY DEF RollKind, Due

\* ... and else a period m + 1 later, with m missed ones, the one that ended and
\* the n finished ones before it, as many of them as are kept.
Rolled(k, r, new, m, n, kept) ==
  /\ new \in Series
  /\ new.start = r.start + Times(k, m + 1)
  /\ new.n = 0
  /\ DOMAIN r.done = 1 .. n /\ Len(r.done) = n
  /\ DOMAIN new.done = 1 .. kept
  /\ KeptOf(k, r, new.start, m, n, new.done, kept)

LEMMA RollDue ==
  ASSUME NEW s, NEW k \in Kinds, NEW t \in Nat, NEW r \in Series,
         s[k] = r, r # None, InLine(k, r, t), r.start # StartOf(k, t)
  PROVE  \E m \in Nat, n \in Nat, kept \in Nat : Rolled(k, r, RollKind(s, k, t), m, n, kept)
<1>1. PICK to \in Nat : to = StartOf(k, t)
  BY Starts
<1>2. PICK m \in Nat : m = Len(Missed(k, r.start, to)) /\ to = r.start + Times(k, m + 1)
  BY <1>1, Behind, Zenon
<1>3. PICK n \in Nat : n = Len(r.done) /\ DOMAIN r.done = 1 .. n
  BY LenProperties DEF Series
<1>4. PICK done \in Seq(Period), kept \in Nat :
        done = NewestKept(k, All(k, r, to)) /\ KeptOf(k, r, to, m, n, done, kept)
  BY <1>2, <1>3, Kept
<1>5. DOMAIN done = 1 .. kept
  BY <1>4, LenProperties DEF KeptOf
<1>6. RollKind(s, k, t) = [start |-> to, n |-> 0, done |-> done]
  <2>1. done = Done(s, k, t)
    <3>1. done = NewestKept(k, All(k, r, to))
      BY <1>4
    <3>2. QED BY <1>1, <3>1 DEF Done, All, Current
  <2>2. Due(s, k, t)
    BY DEF Due
  <2>3. QED BY <1>1, <2>1, <2>2 DEF RollKind
<1>7. PICK new \in Series : /\ new = RollKind(s, k, t)
                            /\ new.start = to /\ new.n = 0 /\ new.done = done
  BY <1>6 DEF Series
<1>8. new.start = r.start + Times(k, m + 1)
  BY <1>2, <1>7, Zenon
<1>9. Rolled(k, r, new, m, n, kept)
  BY <1>3, <1>4, <1>5, <1>7, <1>8, Zenon DEF Rolled
<1>10. QED BY <1>7, <1>9, Zenon

LEMMA Split ==
  ASSUME NEW m \in Nat, NEW n \in Nat, NEW kept \in Nat, NEW limit \in Nat,
         kept = IF m + 1 + n <= limit THEN m + 1 + n ELSE limit, NEW i \in 1 .. kept
  PROVE  i \in 1 .. m \/ i = m + 1 \/ \E j \in 1 .. n : i = m + 1 + j
<1>1. ASSUME i > m + 1 PROVE i - (m + 1) \in 1 .. n /\ i = m + 1 + (i - (m + 1))
  BY <1>1
<1>2. QED BY <1>1

\* Each period kept after a roll is a missed one, the one that ended or one of
\* those before it.
PartOf(k, r, new, m, n, i) ==
  \/ i \in 1 .. m /\ new.done[i] = [start |-> new.start - Times(k, i), n |-> 0]
  \/ i = m + 1 /\ new.done[i] = Current(r)
  \/ \E j \in 1 .. n : i = m + 1 + j /\ new.done[i] = r.done[j]

LEMMA RolledParts ==
  ASSUME NEW k \in Kinds, NEW r, NEW new, NEW m \in Nat, NEW n \in Nat, NEW kept \in Nat,
         Rolled(k, r, new, m, n, kept), NEW i \in 1 .. kept
  PROVE  PartOf(k, r, new, m, n, i)
<1>1. PICK limit \in Nat : limit = Keep[k]
  BY Constants
<1>2. kept = IF m + 1 + n <= limit THEN m + 1 + n ELSE limit
  BY <1>1, Zenon DEF Rolled, KeptOf
<1>3. i <= kept
  OBVIOUS
<1>4. i \in 1 .. m \/ i = m + 1 \/ \E j \in 1 .. n : i = m + 1 + j
  BY <1>2, Split
<1>5. CASE i \in 1 .. m
  BY <1>3, <1>5, Zenon DEF PartOf, Rolled, KeptOf
<1>6. CASE i = m + 1
  BY <1>3, <1>6, Zenon DEF PartOf, Rolled, KeptOf
<1>7. CASE \E j \in 1 .. n : i = m + 1 + j
  <2>1. PICK j \in 1 .. n : i = m + 1 + j
    BY <1>7
  <2>2. m + 1 + j <= kept
    BY <1>3, <2>1, Zenon
  <2>3. new.done[m + 1 + j] = r.done[j]
    BY <2>2, Zenon DEF Rolled, KeptOf
  <2>4. QED BY <2>1, <2>3, Zenon DEF PartOf
<1>8. QED BY <1>4, <1>5, <1>6, <1>7, Zenon

\* A line of periods grows at its newer end only.
LEMMA RolledStarts ==
  ASSUME NEW k \in Kinds, NEW r \in Series, NEW t \in Nat, InLine(k, r, t), NEW new \in Series,
         NEW m \in Nat, NEW n \in Nat, NEW kept \in Nat, Rolled(k, r, new, m, n, kept)
  PROVE  \A i \in 1 .. kept : new.done[i].start = new.start - Times(k, i)
<1>1. SUFFICES ASSUME NEW i \in 1 .. kept PROVE new.done[i].start = new.start - Times(k, i)
  OBVIOUS
<1>2. PICK to \in Nat, from \in Nat, x \in Nat :
        to = new.start /\ from = r.start /\ x = Times(k, m + 1) /\ to = from + x
  <2>1. m + 1 \in Nat
    OBVIOUS
  <2>2. Times(k, m + 1) \in Nat
    BY <2>1, TimesNat, Zenon
  <2>3. new.start = r.start + Times(k, m + 1)
    BY Zenon DEF Rolled
  <2>4. new.start \in Nat /\ r.start \in Nat
    BY DEF Series
  <2>5. QED BY <2>2, <2>3, <2>4, Zenon
<1>3. CASE new.done[i] = [start |-> new.start - Times(k, i), n |-> 0]
  BY <1>3
<1>4. CASE i = m + 1 /\ new.done[i] = Current(r)
  <2>1. new.done[i].start = from
    BY <1>2, <1>4 DEF Current
  <2>2. Times(k, i) = x
    BY <1>2, <1>4, Zenon
  <2>3. QED BY <1>2, <2>1, <2>2
<1>5. CASE \E j \in 1 .. n : i = m + 1 + j /\ new.done[i] = r.done[j]
  <2>1. PICK j \in 1 .. n : i = m + 1 + j /\ new.done[i] = r.done[j]
    BY <1>5
  <2>2. r.done[j].start = r.start - j * Length[k]
    <3>1. j \in DOMAIN r.done
      BY Zenon DEF Rolled
    <3>2. QED BY <3>1, Zenon DEF InLine
  <2>3. PICK y \in Nat : y = Times(k, j) /\ Times(k, i) = x + y
    <3>1. m + 1 \in Nat /\ j \in Nat
      OBVIOUS
    <3>2. Times(k, j) \in Nat
      BY <3>1, TimesNat, Zenon
    <3>3. Times(k, m + 1 + j) = Times(k, m + 1) + Times(k, j)
      BY <3>1, TimesSum, Zenon
    <3>4. QED BY <1>2, <2>1, <3>2, <3>3, Zenon
  <2>4. new.done[i].start = from - y
    <3>1. new.done[i].start = r.done[j].start
      BY <2>1
    <3>2. QED BY <1>2, <2>2, <2>3, <3>1, Zenon DEF Times
  <2>5. QED BY <1>2, <2>3, <2>4
<1>6. PartOf(k, r, new, m, n, i)
  BY RolledParts
<1>7. QED BY <1>3, <1>4, <1>5, <1>6, Zenon DEF PartOf

\* The start of a period is no earlier than as many units as periods went by.
LEMMA StartsInLine ==
  ASSUME NEW k \in Kinds, NEW t \in Nat
  PROVE  \E q \in 0 .. StartOf(k, t) : StartOf(k, t) = q * Length[k]
<1>1. PICK to \in Nat, q \in Nat : to = StartOf(k, t) /\ to = Times(k, q)
  BY Starts
<1>2. PICK d \in Nat \ {0} : d = Length[k]
  BY Constants
<1>3. to = q * d
  BY <1>1, <1>2 DEF Times
<1>4. PICK e \in Nat : d = 1 + e
  <2>1. d - 1 \in Nat /\ d = 1 + (d - 1)
    OBVIOUS
  <2>2. QED BY <2>1
<1>5. to = q + q * e /\ q * e \in Nat
  BY <1>3, <1>4
<1>6. q <= to
  BY <1>5
<1>7. QED BY <1>1, <1>2, <1>3, <1>6

LEMMA RollLine ==
  ASSUME NEW s, NEW k \in Kinds, NEW t \in Nat,
         s[k] = None \/ (WellFormed(k, s[k]) /\ InLine(k, s[k], t))
  PROVE  InLine(k, RollKind(s, k, t), t)
<1>1. PICK to \in Nat : to = StartOf(k, t) /\ to <= t /\ \E q \in 0 .. to : to = q * Length[k]
  BY Starts, StartsInLine
<1>2. CASE s[k] = None
  <2>1. RollKind(s, k, t) = [start |-> to, n |-> 0, done |-> << >>]
    BY <1>1, <1>2, RollNew
  <2>2. DOMAIN << >> = {}
    OBVIOUS
  <2>3. QED BY <1>1, <2>1, <2>2 DEF InLine
<1>3. CASE s[k] # None /\ s[k].start = to
  BY <1>1, <1>3, RollNotDue
<1>4. CASE s[k] # None /\ s[k].start # to
  <2>1. PICK r \in Series : r = s[k] /\ InLine(k, r, t)
    BY <1>4 DEF WellFormed
  <2>2. PICK m \in Nat, n \in Nat, kept \in Nat : Rolled(k, r, RollKind(s, k, t), m, n, kept)
    BY <1>1, <1>4, <2>1, RollDue, Zenon
  <2>3. PICK new \in Series : new = RollKind(s, k, t) /\ Rolled(k, r, new, m, n, kept)
    BY <2>2, Zenon DEF Rolled
  <2>4. new.start = to
    <3>1. RollKind(s, k, t).start = StartOf(k, t)
      BY <1>1, <1>4 DEF RollKind, Due
    <3>2. QED BY <1>1, <2>3, <3>1
  <2>5. \A i \in 1 .. kept : new.done[i].start = new.start - Times(k, i)
    BY <2>1, <2>3, RolledStarts
  <2>6. DOMAIN new.done = 1 .. kept
    BY <2>3, Zenon DEF Rolled
  <2>7. \A i \in DOMAIN new.done : new.done[i].start = new.start - i * Length[k]
    BY <2>5, <2>6, Zenon DEF Times
  <2>8. InLine(k, new, t)
    BY <1>1, <2>4, <2>7, Zenon DEF InLine
  <2>9. QED BY <2>3, <2>8, Zenon
<1>5. QED BY <1>2, <1>3, <1>4

\* What was finished, or has now ended, is finished, or Keep newer periods are.
LEMMA RolledKeeps ==
  ASSUME NEW k \in Kinds, NEW r \in Series, NEW t \in Nat, InLine(k, r, t), NEW new \in Series,
         NEW m \in Nat, NEW n \in Nat, NEW kept \in Nat, Rolled(k, r, new, m, n, kept),
         NEW p \in Period, p \in Finished(r) \/ TooOld(k, r, p) \/ p = Current(r)
  PROVE  p \in Finished(new) \/ TooOld(k, new, p)
<1>1. PICK to \in Nat, from \in Nat, x \in Nat :
        to = new.start /\ from = r.start /\ x = Times(k, m + 1) /\ to = from + x
  <2>1. m + 1 \in Nat
    OBVIOUS
  <2>2. Times(k, m + 1) \in Nat
    BY <2>1, TimesNat, Zenon
  <2>3. new.start = r.start + Times(k, m + 1)
    BY Zenon DEF Rolled
  <2>4. new.start \in Nat /\ r.start \in Nat
    BY DEF Series
  <2>5. QED BY <2>2, <2>3, <2>4, Zenon
<1>2. PICK limit \in Nat, y \in Nat : limit = Keep[k] /\ y = Times(k, limit)
  BY Constants, TimesNat
<1>3. PICK ago \in Nat : ago = p.start
  BY DEF Period
<1>4. kept = IF m + 1 + n <= limit THEN m + 1 + n ELSE limit
  BY <1>2, Zenon DEF Rolled, KeptOf
<1>5. ASSUME kept = limit, ago < to - y PROVE TooOld(k, new, p)
  BY <1>1, <1>2, <1>3, <1>5, Zenon DEF TooOld, Times, Rolled, KeptOf
<1>6. ASSUME NEW i \in Nat, limit < i, ago = to - Times(k, i) PROVE ago < to - y
  <2>1. PICK z \in Nat : z = Times(k, i) /\ y < z
    BY <1>2, <1>6, TimesNat, TimesLess, Zenon
  <2>2. QED BY <1>6, <2>1
<1>7. CASE p \in Finished(r)
  <2>1. PICK j \in 1 .. n : p = r.done[j]
    BY <1>7, Zenon DEF Finished, Rolled
  <2>2. j \in Nat /\ m + 1 + j \in Nat /\ m + 1 \in Nat /\ j <= n /\ 1 <= j
    OBVIOUS
  <2>3. CASE m + 1 + j <= kept
    <3>1. m + 1 + j \in 1 .. kept
      BY <2>3, KeptPlaces, Zenon
    <3>2. new.done[m + 1 + j] = r.done[j]
      BY <2>3, Zenon DEF Rolled, KeptOf
    <3>3. m + 1 + j \in DOMAIN new.done
      BY <3>1, Zenon DEF Rolled
    <3>4. QED BY <2>1, <3>2, <3>3, Zenon DEF Finished
  <2>4. CASE ~(m + 1 + j <= kept)
    <3>1. kept = limit /\ limit < m + 1 + j
      BY <1>4, <2>2, <2>4
    <3>2. r.done[j].start = r.start - j * Length[k]
      <4>1. j \in DOMAIN r.done
        BY Zenon DEF Rolled
      <4>2. QED BY <4>1, Zenon DEF InLine
    <3>3. PICK w \in Nat : w = Times(k, j) /\ Times(k, m + 1 + j) = x + w
      <4>1. Times(k, j) \in Nat
        BY <2>2, TimesNat, Zenon
      <4>2. Times(k, m + 1 + j) = Times(k, m + 1) + Times(k, j)
        BY <2>2, TimesSum, Zenon
      <4>3. QED BY <1>1, <4>1, <4>2, Zenon
    <3>4. ago = from - w
      BY <1>1, <1>3, <2>1, <3>2, <3>3, Zenon DEF Times
    <3>5. ago = to - Times(k, m + 1 + j)
      BY <1>1, <3>3, <3>4
    <3>6. ago < to - y
      BY <1>6, <2>2, <3>1, <3>5, Zenon
    <3>7. QED BY <1>5, <3>1, <3>6, Zenon
  <2>5. QED BY <2>3, <2>4
<1>8. CASE p = Current(r)
  <2>1. CASE m + 1 <= kept
    <3>1. m + 1 \in 1 .. kept
      BY <2>1, KeptPlaces, Zenon
    <3>2. new.done[m + 1] = p
      BY <1>8, <2>1, Zenon DEF Rolled, KeptOf
    <3>3. m + 1 \in DOMAIN new.done
      BY <3>1, Zenon DEF Rolled
    <3>4. QED BY <3>2, <3>3, Zenon DEF Finished
  <2>2. CASE ~(m + 1 <= kept)
    <3>1. kept = limit /\ limit < m + 1 /\ m + 1 \in Nat
      BY <1>4, <2>2
    <3>2. ago = from
      BY <1>1, <1>3, <1>8 DEF Current
    <3>3. ago = to - Times(k, m + 1)
      BY <1>1, <3>2
    <3>4. ago < to - y
      BY <1>6, <3>1, <3>3, Zenon
    <3>5. QED BY <1>5, <3>1, <3>4, Zenon
  <2>3. QED BY <2>1, <2>2
<1>9. CASE TooOld(k, r, p)
  <2>1. n = limit /\ ago < from - y
    <3>1. n = Len(r.done)
      BY Zenon DEF Rolled
    <3>2. Len(r.done) = Keep[k] /\ p.start < r.start - Times(k, Keep[k])
      BY <1>9, Zenon DEF TooOld, Times
    <3>3. QED BY <1>1, <1>2, <1>3, <3>1, <3>2, Zenon
  <2>2. kept = limit
    BY <1>4, <2>1
  <2>3. ago < to - y
    BY <1>1, <2>1
  <2>4. QED BY <1>5, <2>2, <2>3, Zenon
<1>10. QED BY <1>7, <1>8, <1>9

LEMMA RollKeeps ==
  ASSUME NEW s, NEW k \in Kinds, NEW t \in Nat,
         s[k] # None, WellFormed(k, s[k]), InLine(k, s[k], t), NEW p \in Period,
         \/ p \in Finished(s[k])
         \/ TooOld(k, s[k], p)
         \/ p = Current(s[k]) /\ p.start + Length[k] <= t
  PROVE  p \in Finished(RollKind(s, k, t)) \/ TooOld(k, RollKind(s, k, t), p)
<1>1. PICK to \in Nat, d \in Nat : to = StartOf(k, t) /\ d = Length[k] /\ t < to + d
  BY Starts, Constants
<1>2. PICK r \in Series : r = s[k] /\ InLine(k, r, t)
  BY DEF WellFormed
<1>3. CASE r.start = to
  <2>1. ~(p = Current(r) /\ p.start + d <= t)
    <3>1. p = Current(r) => p.start = to
      BY <1>3 DEF Current
    <3>2. QED BY <1>1, <3>1
  <2>2. RollKind(s, k, t) = r
    BY <1>1, <1>2, <1>3, RollNotDue
  <2>3. QED BY <1>1, <1>2, <2>1, <2>2, Zenon
<1>4. CASE r.start # to
  <2>1. PICK m \in Nat, n \in Nat, kept \in Nat : Rolled(k, r, RollKind(s, k, t), m, n, kept)
    BY <1>1, <1>2, <1>4, RollDue, Zenon
  <2>2. PICK new \in Series : new = RollKind(s, k, t) /\ Rolled(k, r, new, m, n, kept)
    BY <2>1, Zenon DEF Rolled
  <2>3. p \in Finished(r) \/ TooOld(k, r, p) \/ p = Current(r)
    BY <1>2, Zenon
  <2>4. p \in Finished(new) \/ TooOld(k, new, p)
    BY <1>2, <2>2, <2>3, RolledKeeps, Zenon
  <2>5. QED BY <2>2, <2>4, Zenon
<1>5. QED BY <1>3, <1>4

\* roll invents no request.
LEMMA RollKnows ==
  ASSUME NEW s, NEW k \in Kinds, NEW t \in Nat,
         s[k] = None \/ (WellFormed(k, s[k]) /\ InLine(k, s[k], t)),
         NEW p \in Finished(RollKind(s, k, t)) \cup {Current(RollKind(s, k, t))}, p.n > 0
  PROVE  s[k] # None /\ p \in Finished(s[k]) \cup {Current(s[k])}
<1>1. PICK to \in Nat : to = StartOf(k, t)
  BY Starts
<1>2. CASE s[k] = None
  <2>1. RollKind(s, k, t) = [start |-> to, n |-> 0, done |-> << >>]
    BY <1>1, <1>2, RollNew
  <2>2. DOMAIN << >> = {}
    OBVIOUS
  <2>3. p = Current(RollKind(s, k, t))
    BY <2>1, <2>2 DEF Finished
  <2>4. QED BY <2>1, <2>3 DEF Current
<1>3. CASE s[k] # None /\ s[k].start = to
  BY <1>1, <1>3, RollNotDue
<1>4. CASE s[k] # None /\ s[k].start # to
  <2>1. PICK r \in Series : r = s[k] /\ InLine(k, r, t)
    BY <1>4 DEF WellFormed
  <2>2. PICK m \in Nat, n \in Nat, kept \in Nat : Rolled(k, r, RollKind(s, k, t), m, n, kept)
    BY <1>1, <1>4, <2>1, RollDue, Zenon
  <2>3. PICK new \in Series : new = RollKind(s, k, t) /\ Rolled(k, r, new, m, n, kept)
    BY <2>2, Zenon DEF Rolled
  <2>4. p # Current(new)
    <3>1. new.n = 0
      BY <2>3, Zenon DEF Rolled
    <3>2. QED BY <3>1 DEF Current
  <2>5. PICK i \in 1 .. kept : p = new.done[i]
    <3>1. p \in Finished(new)
      BY <2>3, <2>4
    <3>2. QED BY <2>3, <3>1, Zenon DEF Finished, Rolled
  <2>6. new.done[i] # [start |-> new.start - Times(k, i), n |-> 0]
    <3>1. [start |-> new.start - Times(k, i), n |-> 0].n = 0
      OBVIOUS
    <3>2. QED BY <2>5, <3>1
  <2>7. p = Current(r) \/ \E j \in 1 .. n : p = r.done[j]
    <3>1. PartOf(k, r, new, m, n, i)
      BY <2>3, RolledParts
    <3>2. QED BY <2>5, <2>6, <3>1, Zenon DEF PartOf
  <2>8. p \in Finished(r) \cup {Current(r)}
    BY <2>3, <2>7, Zenon DEF Finished, Rolled
  <2>9. QED BY <1>4, <2>1, <2>8, Zenon
<1>5. QED BY <1>2, <1>3, <1>4

-----------------------------------------------------------------------------
(***************************************************************************)
(* The inductive invariant.                                                *)
(***************************************************************************)
\* While a process runs it has every kind, and writes the files of a state that
\* is on disk.
Loaded ==
  /\ DOMAIN public = Kinds
  /\ pc # "down" => series \in [Kinds -> Series] /\ \A k \in Kinds : WellFormed(k, series[k])
  /\ pc = "files" => ~dirty

\* Series without gaps, in memory and on disk.
Lines ==
  /\ pc # "down" => \A k \in Kinds : InLine(k, series[k], wall)
  /\ disk # None => \A k \in Kinds : InLine(k, disk[k], wall)

\* What was published has ended, and the process still has it, but for what it
\* could not read when it started.
Ended(k, p) == p \in Period /\ p.start + Length[k] <= wall
Has(s, k, p) == p \in Finished(s) \/ TooOld(k, s, p)

Remembered ==
  \A k \in Kinds : \A p \in Shown(k) :
    /\ Ended(k, p)
    /\ pc # "down" /\ k \notin lost /\ p.n > 0 => Has(series[k], k, p)

\* So has the state on disk.
Stored ==
  \A k \in Kinds \ lost : \A p \in Shown(k) : p.n > 0 =>
    disk # None /\ (Has(disk[k], k, p) \/ p = Current(disk[k]))

\* A process that has counted nothing since the last write knows of no request
\* that is not on disk.
Known(s) == Finished(s) \cup {Current(s)}

Clean ==
  pc # "down" /\ ~dirty =>
    \A k \in Kinds : \A p \in Known(series[k]) :
      p.n > 0 => disk # None /\ p \in Known(disk[k])

Durable == Lines /\ Remembered /\ Stored /\ Clean /\ NoGaps

Types == TypeOK /\ back \in Nat /\ wall + back <= MaxTime /\ Loaded

IInv == Types /\ (back = 0 => Durable)

-----------------------------------------------------------------------------
(***************************************************************************)
(* What is loaded and what is counted.                                     *)
(***************************************************************************)
LEMMA SeriesIsSomething ==
  ASSUME NEW x \in Series
  PROVE  x # None
BY NoneAssumption

LEMMA LoadTypes ==
  ASSUME TypeOK, NEW unread, NEW k \in Kinds
  PROVE  /\ Load(unread)[k] = None \/ WellFormed(k, Load(unread)[k])
         /\ disk = None \/ k \in unread => Load(unread)[k] = None
         /\ disk # None /\ k \notin unread =>
              Load(unread)[k] = disk[k] /\ Load(unread)[k] # None /\ WellFormed(k, disk[k])
<1>1. CASE disk = None \/ k \in unread
  BY <1>1 DEF Load
<1>2. CASE ~(disk = None \/ k \in unread)
  <2>1. Load(unread)[k] = disk[k] /\ WellFormed(k, disk[k])
    BY <1>2 DEF Load, TypeOK
  <2>2. disk[k] # None
    BY <2>1, SeriesIsSomething, Zenon DEF WellFormed
  <2>3. QED BY <1>2, <2>1, <2>2
<1>3. QED BY <1>1, <1>2

\* What a process starts with.
LEMMA Started ==
  ASSUME Start
  PROVE  \E unread \in SUBSET Kinds :
           /\ series' = RollSeries(Load(unread), wall)
           /\ \A k \in Kinds : series'[k] = RollKind(Load(unread), k, wall)
           /\ lost' = lost \cup unread
           /\ together' = IF unread \in {{}, Kinds} THEN together ELSE wall + 1
<1>1. PICK unread \in SUBSET Kinds :
        /\ series' = RollSeries(Load(unread), wall)
        /\ lost' = lost \cup unread
        /\ together' = IF unread \in {{}, Kinds} THEN together ELSE wall + 1
  BY Zenon DEF Start
<1>2. \A k \in Kinds : series'[k] = RollKind(Load(unread), k, wall)
  BY <1>1 DEF RollSeries
<1>3. QED BY <1>1, <1>2, Zenon

\* One request more.
Counted(s) == [s EXCEPT !.n = @ + 1]

LEMMA CountedSame ==
  ASSUME NEW s \in Series
  PROVE  /\ Counted(s) \in Series
         /\ Counted(s).start = s.start /\ Counted(s).done = s.done
BY DEF Counted, Series

LEMMA CountedHas ==
  ASSUME NEW k \in Kinds, NEW s \in Series, NEW p, Has(s, k, p)
  PROVE  Has(Counted(s), k, p)
BY CountedSame, Zenon DEF Has, Finished, TooOld

LEMMA CountedLine ==
  ASSUME NEW k \in Kinds, NEW s \in Series, NEW t, InLine(k, s, t)
  PROVE  InLine(k, Counted(s), t)
BY CountedSame, Zenon DEF InLine

LEMMA RolledSeries ==
  ASSUME NEW s, NEW t \in Nat, \A k \in Kinds : s[k] = None \/ WellFormed(k, s[k])
  PROVE  /\ RollSeries(s, t) \in [Kinds -> Series]
         /\ \A k \in Kinds : /\ WellFormed(k, RollSeries(s, t)[k])
                             /\ RollSeries(s, t)[k] = RollKind(s, k, t)
<1>1. \A k \in Kinds : RollSeries(s, t)[k] = RollKind(s, k, t)
  BY DEF RollSeries
<1>2. \A k \in Kinds : WellFormed(k, RollKind(s, k, t))
  BY RollTypes
<1>3. \A k \in Kinds : RollKind(s, k, t) \in Series
  BY <1>2 DEF WellFormed
<1>4. RollSeries(s, t) \in [Kinds -> Series]
  BY <1>3 DEF RollSeries
<1>5. QED BY <1>1, <1>2, <1>4

-----------------------------------------------------------------------------
(***************************************************************************)
(* Types.                                                                  *)
(***************************************************************************)
LEMMA InitTypes == Init => Types
<1>1. SUFFICES ASSUME Init PROVE Types
  OBVIOUS
<1>2. 0 \in 0 .. MaxTime /\ 0 \in 0 .. QueueMax
  BY UsageAssumption
<1>3. back \in Nat /\ wall + back <= MaxTime
  BY <1>1, UsageAssumption DEF Init
<1>4. TypeOK
  BY <1>1, <1>2 DEF Init, TypeOK, NoSeries
<1>5. Loaded
  BY <1>1 DEF Init, Loaded, NoSeries
<1>6. QED BY <1>3, <1>4, <1>5 DEF Types

\* publish returns to the select, or the process ends.
LEMMA Returns ==
  ASSUME Types, Return
  PROVE  \/ ProcessEnds
         \/ /\ pc' = "run" /\ nextAt' \in Nat /\ nextAt' <= wall + 1
            /\ UNCHANGED <<stopping, queue, series, dirty>>
<1>1. PICK w \in Nat, m \in Nat : w = wall + 1 /\ m = MaxTime - back
  <2>1. wall \in Nat /\ MaxTime \in Nat /\ back \in Nat /\ wall + back <= MaxTime
    BY UsageAssumption DEF Types, TypeOK
  <2>2. wall + 1 \in Nat /\ MaxTime - back \in Nat
    BY <2>1
  <2>3. QED BY <2>2, Zenon
<1>2. PICK t \in Nat : t = Min({w, m}) /\ t <= w
  BY SmallerOfTwo
<1>3. CASE stopping = "last"
  BY <1>3 DEF Return
<1>4. CASE stopping # "last"
  <2>1. /\ pc' = "run" /\ nextAt' = Min({wall + 1, MaxTime - back})
        /\ UNCHANGED <<stopping, queue, series, dirty>>
    BY <1>4 DEF Return
  <2>2. nextAt' = t
    BY <1>1, <1>2, <2>1
  <2>3. t <= wall + 1
    BY <1>1, <1>2
  <2>4. QED BY <1>2, <2>1, <2>2, <2>3
<1>5. QED BY <1>3, <1>4

LEMMA EndTypes ==
  ASSUME Types, ProcessEnds, UNCHANGED <<wall, rolled, disk, public, lost, together, back>>
  PROVE  Types'
<1>1. 0 \in 0 .. QueueMax
  BY UsageAssumption
<1>2. QED BY <1>1 DEF ProcessEnds, NoSeries, Types, TypeOK, Loaded

LEMMA TypesKept == Types /\ [Next]_vars => Types'
<1>1. SUFFICES ASSUME Types, [Next]_vars PROVE Types'
  OBVIOUS
<1>2. wall \in Nat /\ back \in Nat /\ MaxTime \in Nat /\ QueueMax \in Nat
  BY <1>1, UsageAssumption DEF Types, TypeOK
<1>3. \A k \in Kinds : series[k] = None \/ WellFormed(k, series[k])
  BY <1>1 DEF Types, TypeOK
<1>4. CASE Start
  <2>1. PICK unread \in SUBSET Kinds :
          /\ series' = RollSeries(Load(unread), wall)
          /\ lost' = lost \cup unread
          /\ together' = IF unread \in {{}, Kinds} THEN together ELSE wall + 1
    BY <1>4, Started, Zenon
  <2>2. \A k \in Kinds : Load(unread)[k] = None \/ WellFormed(k, Load(unread)[k])
    BY <1>1, LoadTypes, Zenon DEF Types
  <2>3. series' \in [Kinds -> Series] /\ \A k \in Kinds : WellFormed(k, series'[k])
    BY <1>2, <2>1, <2>2, RolledSeries, Zenon
  <2>4. 0 \in 0 .. QueueMax
    BY <1>2
  <2>5. lost' \subseteq Kinds /\ together' \in Nat
    BY <1>1, <1>2, <2>1 DEF Types, TypeOK
  <2>6. /\ pc' = "state" /\ stopping' = "no" /\ queue' = 0 /\ rolled' = Kinds /\ dirty' = FALSE
        /\ UNCHANGED <<wall, nextAt, disk, public, back>>
    BY <1>4 DEF Start
  <2>7. QED BY <1>1, <2>3, <2>4, <2>5, <2>6 DEF Types, TypeOK, Loaded
<1>5. CASE Add
  <2>1. /\ RollSeries(series, wall) \in [Kinds -> Series]
        /\ \A k \in Kinds : WellFormed(k, RollSeries(series, wall)[k])
    BY <1>2, <1>3, RolledSeries, Zenon
  <2>2. ASSUME NEW k \in Kinds
        PROVE  /\ series'[k] = Counted(RollSeries(series, wall)[k])
               /\ series'[k] \in Series /\ WellFormed(k, series'[k])
    <3>1. series'[k] = Counted(RollSeries(series, wall)[k])
      BY <1>5 DEF Add, Counted
    <3>2. PICK new \in Series : new = RollSeries(series, wall)[k] /\ WellFormed(k, new)
      BY <2>1
    <3>3. Counted(new) \in Series /\ WellFormed(k, Counted(new))
      BY <3>2, CountedSame DEF WellFormed
    <3>4. QED BY <3>1, <3>2, <3>3, Zenon
  <2>3. series' \in [Kinds -> Series]
    <3>1. series' = [k \in Kinds |-> Counted(RollSeries(series, wall)[k])]
      BY <1>5, Zenon DEF Add, Counted
    <3>2. \A k \in Kinds : Counted(RollSeries(series, wall)[k]) \in Series
      BY <2>2
    <3>3. QED BY <3>1, <3>2
  <2>4. queue' \in 0 .. QueueMax
    BY <1>1, <1>2, <1>5 DEF Add, Types, TypeOK
  <2>5. rolled' \subseteq Kinds
    BY <1>1, <1>5 DEF Add, RollsAt, Types, TypeOK
  <2>6. QED BY <1>1, <1>5, <2>2, <2>3, <2>4, <2>5 DEF Add, history, bounds, Types, TypeOK, Loaded
<1>6. CASE Publish
  <2>1. /\ RollSeries(series, wall) \in [Kinds -> Series]
        /\ \A k \in Kinds : WellFormed(k, RollSeries(series, wall)[k])
    BY <1>2, <1>3, RolledSeries, Zenon
  <2>2. series' \in [Kinds -> Series] /\ \A k \in Kinds : WellFormed(k, series'[k])
    BY <1>6, <2>1, Zenon DEF Publish
  <2>3. rolled' \subseteq Kinds
    BY <1>1, <1>6 DEF Publish, RollsAt, Types, TypeOK
  <2>4. QED BY <1>1, <1>6, <2>2, <2>3 DEF Publish, history, bounds, Types, TypeOK, Loaded
<1>7. CASE WriteState
  <2>1. disk' = None \/ \A k \in Kinds : WellFormed(k, disk'[k])
    BY <1>1, <1>7 DEF WriteState, Types, TypeOK, Loaded
  <2>2. QED BY <1>1, <1>7, <2>1 DEF WriteState, history, bounds, Types, TypeOK, Loaded
<1>8. CASE WriteStateFails \/ WriteFileFails \/ FilesWritten
  <2>1. /\ Return /\ pc # "down"
        /\ UNCHANGED <<wall, rolled, disk, public, lost, together, back>>
    BY <1>8 DEF WriteStateFails, WriteFileFails, FilesWritten, history, bounds
  <2>2. CASE ProcessEnds
    BY <1>1, <2>1, <2>2, EndTypes
  <2>3. CASE /\ pc' = "run" /\ nextAt' \in Nat
             /\ UNCHANGED <<stopping, queue, series, dirty>>
    BY <1>1, <2>1, <2>3 DEF Types, TypeOK, Loaded
  <2>4. QED BY <1>1, <2>1, <2>2, <2>3, Returns
<1>9. ASSUME NEW k \in Kinds, WriteFile(k) PROVE Types'
  <2>1. series[k] \in Series /\ KeptPeriods(k, series[k].done)
    BY <1>1, <1>9 DEF WriteFile, Types, Loaded, WellFormed
  <2>2. DOMAIN public' = Kinds
    BY <1>1, <1>9 DEF WriteFile, Types, Loaded
  <2>3. \A l \in Kinds : public'[l] = None \/ KeptPeriods(l, public'[l])
    BY <1>1, <1>9, <2>1 DEF WriteFile, Types, TypeOK, Loaded
  <2>4. rolled' \subseteq Kinds /\ lost' \subseteq Kinds
    BY <1>1, <1>9 DEF WriteFile, Types, TypeOK
  <2>5. QED BY <1>1, <1>9, <2>2, <2>3, <2>4 DEF WriteFile, history, bounds, Types, TypeOK, Loaded
<1>10. CASE CountPing
  <2>1. queue' \in 0 .. QueueMax
    BY <1>1, <1>2, <1>10 DEF CountPing, Types, TypeOK
  <2>2. QED BY <1>1, <1>10, <2>1 DEF CountPing, history, Types, TypeOK, Loaded
<1>11. CASE Signal
  BY <1>1, <1>11 DEF Signal, history, bounds, Types, TypeOK, Loaded
<1>12. CASE Crash
  <2>1. ProcessEnds /\ UNCHANGED <<wall, rolled, disk, public, lost, together, back>>
    BY <1>12 DEF Crash, history
  <2>2. QED BY <1>1, <2>1, EndTypes
<1>13. CASE Tick
  <2>1. wall' \in 0 .. MaxTime /\ wall' + back <= MaxTime
    BY <1>1, <1>2, <1>13 DEF Tick, Types, TypeOK
  <2>2. QED BY <1>1, <1>13, <2>1 DEF Tick, history, bounds, Types, TypeOK, Loaded
<1>14. CASE SetBack
  <2>1. wall' \in 0 .. MaxTime /\ nextAt' \in Nat /\ back' \in Nat /\ wall' + back' <= MaxTime
    BY <1>1, <1>2, <1>14 DEF SetBack, Types, TypeOK
  <2>2. QED BY <1>1, <1>14, <2>1 DEF SetBack, history, Types, TypeOK, Loaded
<1>15. CASE UNCHANGED vars
  BY <1>1, <1>15 DEF vars, Types, TypeOK, Loaded
<1>16. QED
  BY <1>1, <1>4, <1>5, <1>6, <1>7, <1>8, <1>9, <1>10, <1>11, <1>12, <1>13, <1>14, <1>15
  DEF Next, Worker

-----------------------------------------------------------------------------
(***************************************************************************)
(* What is published, remembered and stored, as long as the clock is not   *)
(* set back.                                                               *)
(***************************************************************************)
LEMMA InitDurable == Init => Durable
<1>1. SUFFICES ASSUME Init PROVE Durable
  OBVIOUS
<1>2. \A k \in Kinds : Shown(k) = {} /\ public[k] = None
  BY <1>1 DEF Init, Shown
<1>3. pc = "down" /\ disk = None
  BY <1>1 DEF Init
<1>4. QED BY <1>2, <1>3, Zenon DEF Durable, Lines, Remembered, Stored, Clean, NoGaps

\* A step that changes neither the series nor the files.
LEMMA QuietStep ==
  ASSUME back = 0, Durable, UNCHANGED <<wall, series, disk, public, dirty, lost>>, pc' # "down" => pc # "down"
  PROVE  Durable'
<1>1. Lines'
  BY Zenon DEF Durable, Lines
<1>2. \A k \in Kinds : Shown(k)' = Shown(k)
  BY DEF Shown
<1>3. Remembered'
  <2>1. \A k \in Kinds : \A p : Ended(k, p)' <=> Ended(k, p)
    BY DEF Ended
  <2>2. QED BY <1>2, <2>1, Zenon DEF Durable, Remembered
<1>4. Stored'
  BY <1>2, Zenon DEF Durable, Stored
<1>5. Clean'
  BY Zenon DEF Durable, Clean
<1>6. NoGaps'
  BY Zenon DEF Durable, NoGaps
<1>7. QED BY <1>1, <1>3, <1>4, <1>5, <1>6 DEF Durable

\* A step of a process that leaves the files alone.
LEMMA FilesAlone ==
  ASSUME Types, back = 0, Durable, UNCHANGED <<wall, disk, public, back>>, lost \subseteq lost',
         \A k \in Kinds : InLine(k, series'[k], wall),
         \A k \in Kinds \ lost' : \A p \in Shown(k) : p.n > 0 => Has(series'[k], k, p),
         Clean'
  PROVE  Durable'
<1>1. Lines'
  BY Zenon DEF Durable, Lines
<1>2. \A k \in Kinds : Shown(k)' = Shown(k)
  BY DEF Shown
<1>3. Remembered'
  <2>1. \A k \in Kinds : \A p : Ended(k, p)' <=> Ended(k, p)
    BY DEF Ended
  <2>2. QED BY <1>2, <2>1, Zenon DEF Durable, Remembered
<1>4. Stored'
  BY <1>2, Zenon DEF Durable, Stored
<1>5. NoGaps'
  BY Zenon DEF Durable, NoGaps
<1>6. QED BY <1>1, <1>3, <1>4, <1>5 DEF Durable

\* The state on disk is loaded, as far as it can be read, and rolled: what ended
\* while no process ran is finished now.
LEMMA StartStep ==
  ASSUME Types, back = 0, Durable, Start
  PROVE  Durable'
<1>1. wall \in Nat
  BY DEF Types, TypeOK
<1>2. PICK unread \in SUBSET Kinds :
        /\ \A k \in Kinds : series'[k] = RollKind(Load(unread), k, wall)
        /\ lost' = lost \cup unread
  BY Started, Zenon
<1>. DEFINE loaded == Load(unread)
<1>3. ASSUME NEW k \in Kinds
      PROVE  loaded[k] = None \/ (WellFormed(k, loaded[k]) /\ InLine(k, loaded[k], wall))
  <2>1. CASE disk = None \/ k \in unread
    BY <2>1, LoadTypes, Zenon DEF Types
  <2>2. CASE ~(disk = None \/ k \in unread)
    BY <2>2, LoadTypes, Zenon DEF Types, Durable, Lines
  <2>3. QED BY <2>1, <2>2
<1>4. \A k \in Kinds : InLine(k, series'[k], wall)
  BY <1>1, <1>2, <1>3, RollLine, Zenon
<1>5. ASSUME NEW k \in Kinds \ lost', NEW p \in Shown(k), p.n > 0 PROVE Has(series'[k], k, p)
  <2>1. k \in Kinds /\ k \notin lost /\ k \notin unread
    BY <1>2
  <2>2. Ended(k, p)
    BY <2>1, Zenon DEF Durable, Remembered
  <2>3. disk # None /\ (Has(disk[k], k, p) \/ p = Current(disk[k]))
    BY <1>5, <2>1 DEF Durable, Stored
  <2>4. loaded[k] = disk[k] /\ loaded[k] # None /\ WellFormed(k, loaded[k]) /\ InLine(k, loaded[k], wall)
    BY <1>3, <2>1, <2>3, LoadTypes, Zenon DEF Types
  <2>5. /\ p \in Period
        /\ \/ p \in Finished(loaded[k])
           \/ TooOld(k, loaded[k], p)
           \/ p = Current(loaded[k]) /\ p.start + Length[k] <= wall
    BY <2>2, <2>3, <2>4, Zenon DEF Has, Ended
  <2>6. p \in Finished(RollKind(loaded, k, wall)) \/ TooOld(k, RollKind(loaded, k, wall), p)
    BY <1>1, <2>1, <2>4, <2>5, RollKeeps, Zenon
  <2>7. QED BY <1>2, <2>1, <2>6, Zenon DEF Has
<1>6. Clean'
  <2>1. SUFFICES ASSUME NEW k \in Kinds, NEW p \in Known(series'[k]), p.n > 0
                 PROVE  disk # None /\ p \in Known(disk[k])
    BY Zenon DEF Clean, Start
  <2>2. p \in Finished(RollKind(loaded, k, wall)) \cup {Current(RollKind(loaded, k, wall))}
    BY <1>2, Zenon DEF Known
  <2>3. loaded[k] # None /\ p \in Finished(loaded[k]) \cup {Current(loaded[k])}
    BY <1>1, <1>3, <2>1, <2>2, RollKnows, Zenon
  <2>4. disk # None /\ loaded[k] = disk[k]
    BY <2>3, LoadTypes, Zenon DEF Types
  <2>5. QED BY <2>3, <2>4, Zenon DEF Known
<1>7. UNCHANGED <<wall, disk, public, back>> /\ lost \subseteq lost'
  BY <1>2 DEF Start
<1>8. QED BY <1>4, <1>5, <1>6, <1>7, FilesAlone, Zenon

\* What roll does to the series of a process.
LEMMA RollRunning ==
  ASSUME Types, back = 0, Durable, pc # "down", NEW k \in Kinds
  PROVE  /\ RollKind(series, k, wall) \in Series
         /\ InLine(k, RollKind(series, k, wall), wall)
         /\ k \notin lost => \A p \in Shown(k) : p.n > 0 => Has(RollKind(series, k, wall), k, p)
         /\ ~dirty => \A p \in Known(RollKind(series, k, wall)) :
                        p.n > 0 => disk # None /\ p \in Known(disk[k])
<1>1. wall \in Nat
  BY DEF Types, TypeOK
<1>2. series[k] \in Series /\ WellFormed(k, series[k])
  BY DEF Types, Loaded
<1>3. series[k] # None
  BY <1>2, SeriesIsSomething, Zenon
<1>4. InLine(k, series[k], wall)
  BY Zenon DEF Durable, Lines
<1>5. RollKind(series, k, wall) \in Series
  BY <1>1, <1>2, RollTypes, Zenon DEF WellFormed
<1>6. InLine(k, RollKind(series, k, wall), wall)
  BY <1>1, <1>2, <1>4, RollLine, Zenon
<1>7. ASSUME k \notin lost, NEW p \in Shown(k), p.n > 0 PROVE Has(RollKind(series, k, wall), k, p)
  <2>1. p \in Period /\ (p \in Finished(series[k]) \/ TooOld(k, series[k], p))
    BY <1>7, Zenon DEF Durable, Remembered, Ended, Has
  <2>2. QED BY <1>1, <1>2, <1>3, <1>4, <2>1, RollKeeps, Zenon DEF Has
<1>8. ASSUME ~dirty, NEW p \in Known(RollKind(series, k, wall)), p.n > 0
      PROVE  disk # None /\ p \in Known(disk[k])
  <2>1. p \in Known(series[k])
    BY <1>1, <1>2, <1>4, <1>8, RollKnows, Zenon DEF Known
  <2>2. QED BY <1>8, <2>1, Zenon DEF Durable, Clean
<1>9. QED BY <1>5, <1>6, <1>7, <1>8

LEMMA PublishStep ==
  ASSUME Types, back = 0, Durable, Publish
  PROVE  Durable'
<1>1. pc # "down"
  BY DEF Publish
<1>2. \A k \in Kinds : series'[k] = RollKind(series, k, wall)
  BY DEF Publish, RollSeries
<1>3. \A k \in Kinds : InLine(k, series'[k], wall)
  BY <1>1, <1>2, RollRunning, Zenon
<1>4. \A k \in Kinds \ lost : \A p \in Shown(k) : p.n > 0 => Has(series'[k], k, p)
  <2>1. SUFFICES ASSUME NEW k \in Kinds, k \notin lost, NEW p \in Shown(k), p.n > 0
                 PROVE  Has(series'[k], k, p)
    OBVIOUS
  <2>2. QED BY <1>1, <1>2, <2>1, RollRunning, Zenon
<1>5. UNCHANGED <<wall, dirty, disk, public, back, lost>>
  BY DEF Publish, history, bounds
<1>6. Clean'
  BY <1>1, <1>2, <1>5, RollRunning, Zenon DEF Clean
<1>7. QED BY <1>3, <1>4, <1>5, <1>6, FilesAlone, Zenon

LEMMA AddStep ==
  ASSUME Types, back = 0, Durable, Add
  PROVE  Durable'
<1>1. pc # "down"
  BY DEF Add
<1>2. \A k \in Kinds : series'[k] = Counted(RollKind(series, k, wall))
  BY DEF Add, RollSeries, Counted
<1>3. \A k \in Kinds : InLine(k, series'[k], wall)
  BY <1>1, <1>2, RollRunning, CountedLine, Zenon
<1>4. \A k \in Kinds \ lost : \A p \in Shown(k) : p.n > 0 => Has(series'[k], k, p)
  <2>1. SUFFICES ASSUME NEW k \in Kinds, k \notin lost, NEW p \in Shown(k), p.n > 0
                 PROVE  Has(series'[k], k, p)
    OBVIOUS
  <2>2. QED BY <1>1, <1>2, <2>1, RollRunning, CountedHas, Zenon
<1>5. UNCHANGED <<wall, disk, public, back, lost>> /\ dirty'
  BY DEF Add, history, bounds
<1>6. Clean'
  BY <1>5, Zenon DEF Clean
<1>7. QED BY <1>3, <1>4, <1>5, <1>6, FilesAlone, Zenon

\* The state is written: what the process has is on disk.
LEMMA WriteStateStep ==
  ASSUME Types, back = 0, Durable, WriteState
  PROVE  Durable'
<1>1. pc # "down" /\ pc' # "down" /\ UNCHANGED <<wall, series, public, lost, back>>
  BY DEF WriteState, history, bounds
<1>2. CASE ~dirty
  <2>1. UNCHANGED <<wall, series, disk, public, dirty, lost>>
    BY <1>1, <1>2 DEF WriteState, Types, TypeOK
  <2>2. QED BY <1>1, <2>1, QuietStep
<1>3. CASE dirty
  <2>1. disk' = series /\ disk' # None
    <3>1. disk' = series /\ series \in [Kinds -> Series]
      BY <1>1, <1>3 DEF WriteState, Types, Loaded
    <3>2. QED BY <3>1, NoneAssumption
  <2>2. \A k \in Kinds : Shown(k)' = Shown(k)
    BY <1>1 DEF Shown
  <2>3. Lines'
    BY <1>1, <2>1, Zenon DEF Durable, Lines
  <2>4. Remembered'
    <3>1. \A k \in Kinds : \A p : Ended(k, p)' <=> Ended(k, p)
      BY <1>1 DEF Ended
    <3>2. QED BY <1>1, <2>2, <3>1, Zenon DEF Durable, Remembered
  <2>5. Stored'
    <3>1. \A k \in Kinds \ lost : k \in Kinds /\ k \notin lost
      OBVIOUS
    <3>2. \A k \in Kinds \ lost : \A p \in Shown(k) : p.n > 0 => Has(series[k], k, p)
      BY <1>1, <3>1, Zenon DEF Durable, Remembered
    <3>3. QED BY <1>1, <2>1, <2>2, <3>1, <3>2, Zenon DEF Stored
  <2>6. Clean'
    BY <1>1, <2>1, Zenon DEF Clean
  <2>7. NoGaps'
    BY <1>1, Zenon DEF Durable, NoGaps
  <2>8. QED BY <2>3, <2>4, <2>5, <2>6, <2>7 DEF Durable
<1>4. QED BY <1>2, <1>3

\* The finished periods of a line have ended and follow each other.
LEMMA FinishedInLine ==
  ASSUME NEW k \in Kinds, NEW s \in Series, NEW t \in Nat, InLine(k, s, t)
  PROVE  /\ \A p \in Finished(s) : p \in Period /\ p.start + Length[k] <= t
         /\ \A i \in DOMAIN s.done :
              i > 1 => s.done[i].start = s.done[i - 1].start - Length[k]
<1>1. PICK n \in Nat : DOMAIN s.done = 1 .. n
  BY LenProperties DEF Series
<1>2. PICK d \in Nat, x \in Nat : d = Length[k] /\ x = s.start
  BY Constants DEF Series
<1>3. x <= t
  BY <1>2, Zenon DEF InLine
<1>4. ASSUME NEW i \in 1 .. n
      PROVE  /\ s.done[i] \in Period
             /\ \E y \in Nat : /\ Times(k, i) = y + d /\ y = Times(k, i - 1)
                               /\ s.done[i].start = x - (y + d)
  <2>1. s.done[i] \in Period
    BY <1>1, ElementOfSeq DEF Series
  <2>2. PICK j \in Nat : i = j + 1 /\ j = i - 1
    <3>1. i - 1 \in Nat /\ i = (i - 1) + 1
      OBVIOUS
    <3>2. QED BY <3>1
  <2>3. PICK y \in Nat : y = Times(k, j)
    BY TimesNat
  <2>4. Times(k, i) = y + d
    BY <1>2, <2>2, <2>3, TimesNext, Zenon
  <2>5. s.done[i].start = s.start - Times(k, i)
    BY <1>1, Zenon DEF InLine, Times
  <2>6. QED BY <1>2, <2>1, <2>2, <2>3, <2>4, <2>5, Zenon
<1>5. ASSUME NEW p \in Finished(s) PROVE p \in Period /\ p.start + Length[k] <= t
  <2>1. PICK i \in 1 .. n : p = s.done[i]
    BY <1>1, Zenon DEF Finished
  <2>2. PICK y \in Nat : p \in Period /\ p.start = x - (y + d)
    BY <1>4, <2>1, Zenon
  <2>3. p.start + d <= t
    BY <1>3, <2>2
  <2>4. QED BY <1>2, <2>2, <2>3, Zenon
<1>6. ASSUME NEW i \in 1 .. n, i > 1 PROVE s.done[i].start = s.done[i - 1].start - Length[k]
  <2>1. PICK j \in 1 .. n : j = i - 1
    BY <1>6
  <2>2. PICK y \in Nat : y = Times(k, j) /\ s.done[i].start = x - (y + d)
    BY <1>4, <2>1, Zenon
  <2>3. s.done[j].start = x - y
    BY <1>4, <2>2
  <2>4. s.done[i].start = s.done[j].start - d
    BY <2>2, <2>3
  <2>5. QED BY <1>2, <2>1, <2>4, Zenon
<1>7. QED BY <1>1, <1>5, <1>6, Zenon

\* What the file of kind k shows when it is written, and what the others show.
LEMMA ShownAnew ==
  ASSUME Types, NEW k \in Kinds, WriteFile(k)
  PROVE  /\ public'[k] = series[k].done /\ public'[k] # None
         /\ Shown(k)' = Finished(series[k])
         /\ \A l \in Kinds \ {k} : public'[l] = public[l] /\ Shown(l)' = Shown(l)
<1>1. public'[k] = series[k].done
  BY DEF WriteFile, Types, Loaded
<1>2. series[k].done \in Seq(Period)
  BY DEF WriteFile, Types, Loaded, Series
<1>3. public'[k] # None
  BY <1>1, <1>2, NoneAssumption
<1>4. Shown(k)' = Finished(series[k])
  BY <1>1, <1>3, Zenon DEF Shown, Finished
<1>5. \A l \in Kinds \ {k} : public'[l] = public[l]
  BY DEF WriteFile, Types, Loaded
<1>6. \A l \in Kinds \ {k} : Shown(l)' = Shown(l)
  BY <1>5, Zenon DEF Shown
<1>7. QED BY <1>1, <1>3, <1>4, <1>5, <1>6

\* A file is written: it shows what has ended and, the state being on disk, what
\* is on disk.
LEMMA WriteFileStep ==
  ASSUME Types, back = 0, Durable, NEW k \in Kinds, WriteFile(k)
  PROVE  Durable'
<1>1. /\ pc # "down" /\ pc' = pc /\ ~dirty /\ wall \in Nat
      /\ UNCHANGED <<wall, series, disk, dirty, back>> /\ lost' = lost \ {k}
      /\ \A l \in Kinds \ {k} : l \in Kinds /\ (l \in lost' <=> l \in lost)
  BY DEF WriteFile, bounds, Types, TypeOK, Loaded
<1>2. series[k] \in Series /\ InLine(k, series[k], wall)
  BY <1>1 DEF Types, Loaded, Durable, Lines
<1>3. Lines'
  BY <1>1, Zenon DEF Durable, Lines
<1>4. \A l \in Kinds : \A p : Ended(l, p)' <=> Ended(l, p)
  BY <1>1 DEF Ended
<1>5. Remembered'
  <2>1. \A p \in Shown(k)' : Ended(k, p) /\ Has(series[k], k, p)
    BY <1>1, <1>2, FinishedInLine, ShownAnew, Zenon DEF Ended, Has
  <2>2. \A l \in Kinds \ {k} : \A p \in Shown(l)' :
          Ended(l, p) /\ (l \notin lost' /\ p.n > 0 => Has(series[l], l, p))
    BY <1>1, ShownAnew, Zenon DEF Durable, Remembered
  <2>3. \A l \in Kinds : \A p \in Shown(l)' :
          Ended(l, p) /\ (l \notin lost' /\ p.n > 0 => Has(series[l], l, p))
    BY <2>1, <2>2, Zenon
  <2>4. QED BY <1>1, <1>4, <2>3, Zenon DEF Remembered
<1>6. Stored'
  <2>1. ASSUME NEW p \in Finished(series[k]), p.n > 0
        PROVE  disk # None /\ (Has(disk[k], k, p) \/ p = Current(disk[k]))
    BY <1>1, <2>1, Zenon DEF Durable, Clean, Known, Has
  <2>2. ASSUME NEW l \in Kinds \ lost', NEW p \in Shown(l)', p.n > 0
        PROVE  disk # None /\ (Has(disk[l], l, p) \/ p = Current(disk[l]))
    <3>1. CASE l = k
      BY <2>1, <2>2, <3>1, ShownAnew, Zenon
    <3>2. CASE l # k
      <4>1. l \in Kinds \ {k} /\ l \in Kinds \ lost
        BY <1>1, <3>2
      <4>2. p \in Shown(l)
        BY <4>1, ShownAnew, Zenon
      <4>3. QED BY <2>2, <4>1, <4>2, Zenon DEF Durable, Stored
    <3>3. QED BY <3>1, <3>2
  <2>3. QED BY <1>1, <2>2, Zenon DEF Stored
<1>7. Clean'
  BY <1>1, Zenon DEF Durable, Clean
<1>8. NoGaps'
  <2>1. \A i \in DOMAIN public'[k] :
          i > 1 => public'[k][i].start = public'[k][i - 1].start - Length[k]
    <3>1. public'[k] = series[k].done
      BY ShownAnew, Zenon
    <3>2. \A i \in DOMAIN series[k].done :
            i > 1 => series[k].done[i].start = series[k].done[i - 1].start - Length[k]
      BY <1>1, <1>2, FinishedInLine, Zenon
    <3>3. QED BY <3>1, <3>2, Zenon
  <2>2. \A l \in Kinds \ {k} : public'[l] # None => \A i \in DOMAIN public'[l] :
          i > 1 => public'[l][i].start = public'[l][i - 1].start - Length[l]
    BY ShownAnew, Zenon DEF Durable, NoGaps
  <2>3. QED BY <2>1, <2>2, Zenon DEF NoGaps
<1>9. QED BY <1>3, <1>5, <1>6, <1>7, <1>8 DEF Durable

\* The process ends: the files are left as they are.
LEMMA EndStep ==
  ASSUME Types, back = 0, Durable, ProcessEnds, UNCHANGED <<wall, disk, public, lost, back>>
  PROVE  Durable'
<1>1. pc' = "down"
  BY DEF ProcessEnds
<1>2. \A k \in Kinds : Shown(k)' = Shown(k)
  BY DEF Shown
<1>3. \A k \in Kinds : \A p : Ended(k, p)' <=> Ended(k, p)
  BY DEF Ended
<1>4. QED
  BY <1>1, <1>2, <1>3, Zenon DEF Durable, Lines, Remembered, Stored, Clean, NoGaps

\* What has ended stays so.
LEMMA TickStep ==
  ASSUME Types, back = 0, Durable, Tick
  PROVE  Durable'
<1>1. wall' = wall + 1 /\ wall \in Nat /\ UNCHANGED <<pc, series, disk, public, dirty, lost, back>>
  BY DEF Tick, history, bounds, Types, TypeOK
<1>2. \A k \in Kinds : Shown(k)' = Shown(k)
  BY <1>1 DEF Shown
<1>3. ASSUME NEW k \in Kinds, NEW s \in Series, InLine(k, s, wall) PROVE InLine(k, s, wall')
  <2>1. s.start \in Nat /\ s.start <= wall
    BY <1>3 DEF InLine, Series
  <2>2. s.start <= wall'
    BY <1>1, <2>1
  <2>3. QED BY <1>3, <2>2, Zenon DEF InLine
<1>4. Lines'
  <2>1. pc # "down" => \A k \in Kinds : series[k] \in Series
    BY DEF Types, Loaded
  <2>2. disk # None => \A k \in Kinds : disk[k] \in Series
    BY DEF Types, TypeOK, WellFormed
  <2>3. QED BY <1>1, <1>3, <2>1, <2>2, Zenon DEF Durable, Lines
<1>5. Remembered'
  <2>1. ASSUME NEW k \in Kinds, NEW p, Ended(k, p) PROVE Ended(k, p)'
    <3>1. p.start \in Nat /\ Length[k] \in Nat /\ p.start + Length[k] <= wall /\ p \in Period
      BY <2>1, Constants DEF Ended, Period
    <3>2. QED BY <1>1, <3>1 DEF Ended
  <2>2. QED BY <1>1, <1>2, <2>1, Zenon DEF Durable, Remembered
<1>6. Stored' /\ Clean' /\ NoGaps'
  BY <1>1, <1>2, Zenon DEF Durable, Stored, Clean, NoGaps
<1>7. QED BY <1>4, <1>5, <1>6 DEF Durable

\* Nothing else sets the clock back.
LEMMA OnlySetBack ==
  ASSUME [Next]_vars, ~SetBack, back' = 0
  PROVE  back = 0
BY DEF Next, Worker, Start, Add, Publish, WriteState, WriteStateFails, WriteFile,
       WriteFileFails, FilesWritten, CountPing, Signal, Crash, Tick, bounds, vars

LEMMA DurableKept == Types /\ (back = 0 => Durable) /\ [Next]_vars => (back' = 0 => Durable')
<1>1. SUFFICES ASSUME Types, back = 0 => Durable, [Next]_vars, back' = 0 PROVE Durable'
  OBVIOUS
<1>2. CASE SetBack
  <2>1. back' # 0
    BY <1>1, <1>2 DEF SetBack, Types
  <2>2. QED BY <1>1, <2>1
<1>3. CASE ~SetBack
  <2>1. back = 0
    BY <1>1, <1>3, OnlySetBack
  <2>2. Durable
    BY <1>1, <2>1
  <2>3. CASE Start
    BY <1>1, <2>1, <2>2, <2>3, StartStep
  <2>4. CASE Add
    BY <1>1, <2>1, <2>2, <2>4, AddStep
  <2>5. CASE Publish
    BY <1>1, <2>1, <2>2, <2>5, PublishStep
  <2>6. CASE WriteState
    BY <1>1, <2>1, <2>2, <2>6, WriteStateStep
  <2>7. ASSUME NEW k \in Kinds, WriteFile(k) PROVE Durable'
    BY <1>1, <2>1, <2>2, <2>7, WriteFileStep
  <2>8. CASE CountPing \/ Signal \/ UNCHANGED vars
    <3>1. UNCHANGED <<wall, series, disk, public, dirty, lost>> /\ (pc' # "down" => pc # "down")
      BY <2>8 DEF CountPing, Signal, history, vars
    <3>2. QED BY <2>1, <2>2, <3>1, QuietStep
  <2>9. CASE WriteStateFails \/ WriteFileFails \/ FilesWritten \/ Crash
    <3>1. UNCHANGED <<wall, disk, public, lost, back>> /\ pc # "down" /\ (Return \/ ProcessEnds)
      BY <2>9 DEF WriteStateFails, WriteFileFails, FilesWritten, Crash, history, bounds
    <3>2. CASE ProcessEnds
      BY <1>1, <2>1, <2>2, <3>1, <3>2, EndStep
    <3>3. CASE UNCHANGED <<series, dirty>>
      BY <2>1, <2>2, <3>1, <3>3, QuietStep
    <3>4. QED BY <1>1, <3>1, <3>2, <3>3, Returns
  <2>10. CASE Tick
    BY <1>1, <2>1, <2>2, <2>10, TickStep
  <2>11. QED
    BY <1>1, <1>3, <2>3, <2>4, <2>5, <2>6, <2>7, <2>8, <2>9, <2>10 DEF Next, Worker
<1>4. QED BY <1>2, <1>3

-----------------------------------------------------------------------------
(***************************************************************************)
(* Sums of requests, by induction over the sizes of sets of places.        *)
(***************************************************************************)
\* The function by which RequestsIn is defined.
AddsUp(d, subsets, g) ==
  g = [s \in subsets |-> IF s = {} THEN 0
                         ELSE LET x == CHOOSE y \in s : TRUE IN d[x].n + g[s \ {x}]]

Small(S, n) == {s \in SUBSET S : Cardinality(s) <= n}

Chosen(s) == CHOOSE y \in s : TRUE

LEMMA Smaller ==
  ASSUME NEW S, IsFiniteSet(S), NEW n \in Nat, NEW s \in Small(S, n + 1), NEW x \in s
  PROVE  s \ {x} \in Small(S, n)
<1>1. IsFiniteSet(s)
  BY FS_Subset DEF Small
<1>2. Cardinality(s \ {x}) = Cardinality(s) - 1 /\ Cardinality(s) \in Nat /\ Cardinality(s) <= n + 1
  BY <1>1, FS_RemoveElement, FS_CardinalityType DEF Small
<1>3. QED BY <1>2 DEF Small

LEMMA Empties ==
  ASSUME NEW S, IsFiniteSet(S), NEW s
  PROVE  s \in Small(S, 0) <=> s = {}
<1>1. ASSUME s \in Small(S, 0) PROVE s = {}
  <2>1. IsFiniteSet(s) /\ Cardinality(s) <= 0 /\ Cardinality(s) \in Nat
    BY <1>1, FS_Subset, FS_CardinalityType DEF Small
  <2>2. Cardinality(s) = 0
    BY <2>1
  <2>3. QED BY <2>1, <2>2, FS_EmptySet
<1>2. {} \in Small(S, 0)
  BY FS_EmptySet DEF Small
<1>3. QED BY <1>1, <1>2

LEMMA AllAreSmall ==
  ASSUME NEW S, IsFiniteSet(S)
  PROVE  Cardinality(S) \in Nat /\ Small(S, Cardinality(S)) = SUBSET S
<1>1. \A s \in SUBSET S : Cardinality(s) <= Cardinality(S)
  BY FS_Subset
<1>2. QED BY <1>1, FS_CardinalityType DEF Small

\* What it is to count, subset by subset.
LEMMA AddsEach ==
  ASSUME NEW d, NEW subsets, NEW g, AddsUp(d, subsets, g), NEW s \in subsets
  PROVE  /\ s = {} => g[s] = 0
         /\ s # {} => g[s] = d[Chosen(s)].n + g[s \ {Chosen(s)}]
BY DEF AddsUp, Chosen

LEMMA AddsNothing ==
  ASSUME NEW d, NEW subsets, NEW g, AddsUp(d, subsets, g), {} \in subsets
  PROVE  g[{}] = 0
BY AddsEach

LEMMA ChosenIsIn ==
  ASSUME NEW s, s # {}
  PROVE  Chosen(s) \in s
BY DEF Chosen

\* There is such a function, of the subsets of a finite set.
LEMMA AddsExists ==
  ASSUME NEW d, NEW S, IsFiniteSet(S)
  PROVE  \E g : AddsUp(d, SUBSET S, g)
<1>. DEFINE Good == {n \in Nat : \E g : AddsUp(d, Small(S, n), g)}
<1>1. 0 \in Good
  <2>. DEFINE g == [s \in Small(S, 0) |-> 0]
  <2>1. \A s \in Small(S, 0) : s = {}
    BY Empties
  <2>2. AddsUp(d, Small(S, 0), g)
    BY <2>1 DEF AddsUp
  <2>3. QED BY <2>2
<1>2. ASSUME NEW n \in Nat, n \in Good PROVE n + 1 \in Good
  <2>1. PICK g : AddsUp(d, Small(S, n), g)
    BY <1>2
  <2>. DEFINE h == [s \in Small(S, n + 1) |->
                      IF s = {} THEN 0 ELSE d[Chosen(s)].n + g[s \ {Chosen(s)}]]
  <2>2. ASSUME NEW s \in Small(S, n + 1), s # {}
        PROVE  h[s \ {Chosen(s)}] = g[s \ {Chosen(s)}]
    <3>1. PICK t : t = s \ {Chosen(s)} /\ t \in Small(S, n)
      BY <2>2, ChosenIsIn, Smaller
    <3>2. t \in Small(S, n + 1)
      <4>1. Cardinality(t) \in Nat
        BY <3>1, FS_Subset, FS_CardinalityType DEF Small
      <4>2. QED BY <3>1, <4>1 DEF Small
    <3>3. /\ t = {} => g[t] = 0
          /\ t # {} => g[t] = d[Chosen(t)].n + g[t \ {Chosen(t)}]
      <4>1. t \in Small(S, n)
        BY <3>1
      <4>. HIDE DEF h
      <4>2. QED BY <2>1, <4>1, AddsEach
    <3>4. h[t] = g[t]
      BY <3>2, <3>3
    <3>5. QED BY <3>1, <3>4
  <2>3. h = [s \in Small(S, n + 1) |-> IF s = {} THEN 0 ELSE d[Chosen(s)].n + h[s \ {Chosen(s)}]]
    BY <2>2
  <2>. HIDE DEF h
  <2>4. AddsUp(d, Small(S, n + 1), h)
    BY <2>3 DEF AddsUp, Chosen
  <2>5. QED BY <2>4
<1>. HIDE DEF Good
<1>3. \A n \in Nat : n \in Good
  BY <1>1, <1>2, Induction
<1>4. Cardinality(S) \in Good /\ Small(S, Cardinality(S)) = SUBSET S
  BY <1>3, AllAreSmall
<1>5. QED BY <1>4 DEF Good

\* And only one.
LEMMA AddsOnce ==
  ASSUME NEW d, NEW S, IsFiniteSet(S), NEW g, NEW h,
         NEW G, NEW H, SUBSET S \subseteq G, SUBSET S \subseteq H,
         AddsUp(d, G, g), AddsUp(d, H, h)
  PROVE  g[S] = h[S]
<1>. DEFINE Same == {n \in Nat : \A s \in Small(S, n) : g[s] = h[s]}
<1>0. \A n : Small(S, n) \subseteq G \cap H
  BY DEF Small
<1>1. 0 \in Same
  <2>1. ASSUME NEW s \in Small(S, 0) PROVE g[s] = 0 /\ h[s] = 0
    <3>1. s = {} /\ s \in G /\ s \in H
      BY <1>0, Empties
    <3>2. g[{}] = 0
      BY <3>1, AddsNothing
    <3>3. h[{}] = 0
      BY <3>1, AddsNothing
    <3>4. QED BY <3>1, <3>2, <3>3
  <2>2. QED BY <2>1
<1>2. ASSUME NEW n \in Nat, n \in Same PROVE n + 1 \in Same
  <2>1. ASSUME NEW s \in Small(S, n + 1) PROVE g[s] = h[s]
    <3>1. s \in G /\ s \in H
      BY <1>0
    <3>2. /\ s = {} => g[s] = 0 /\ h[s] = 0
          /\ s # {} => /\ g[s] = d[Chosen(s)].n + g[s \ {Chosen(s)}]
                       /\ h[s] = d[Chosen(s)].n + h[s \ {Chosen(s)}]
      BY <3>1, AddsEach
    <3>3. s # {} => s \ {Chosen(s)} \in Small(S, n)
      BY ChosenIsIn, Smaller
    <3>4. s # {} => g[s \ {Chosen(s)}] = h[s \ {Chosen(s)}]
      BY <1>2, <3>3
    <3>5. QED BY <3>2, <3>4
  <2>2. QED BY <2>1
<1>. HIDE DEF Same
<1>3. \A n \in Nat : n \in Same
  BY <1>1, <1>2, Induction
<1>4. Cardinality(S) \in Same /\ S \in Small(S, Cardinality(S))
  BY <1>3, AllAreSmall
<1>5. QED BY <1>4 DEF Same

\* Whichever one is taken out first, the sum is the same.
LEMMA AnyFirst ==
  ASSUME NEW d, NEW S, IsFiniteSet(S), \A i \in S : d[i].n \in Int,
         NEW g, AddsUp(d, SUBSET S, g)
  PROVE  /\ g[S] \in Int
         /\ \A x \in S : g[S] = d[x].n + g[S \ {x}]
<1>. DEFINE Any == {n \in Nat : \A s \in Small(S, n) :
                      /\ g[s] \in Int
                      /\ \A x \in s : g[s] = d[x].n + g[s \ {x}]}
<1>0. \A n : Small(S, n) \subseteq SUBSET S
  BY DEF Small
<1>1. 0 \in Any
  <2>1. ASSUME NEW s \in Small(S, 0) PROVE s = {} /\ g[s] = 0
    <3>1. s = {} /\ s \in SUBSET S
      BY <1>0, Empties
    <3>2. g[{}] = 0
      BY AddsNothing
    <3>3. QED BY <3>1, <3>2
  <2>2. QED BY <2>1
<1>2. ASSUME NEW n \in Nat, n \in Any PROVE n + 1 \in Any
  <2>1. ASSUME NEW s \in Small(S, n + 1)
        PROVE  g[s] \in Int /\ \A x \in s : g[s] = d[x].n + g[s \ {x}]
    <3>1. CASE s = {}
      <4>1. s \in SUBSET S
        BY <1>0
      <4>2. g[s] = 0
        BY <3>1, AddsNothing
      <4>3. QED BY <3>1, <4>2
    <3>2. CASE s # {}
      <4>1. PICK y \in s : y = Chosen(s)
        BY <3>2, ChosenIsIn
      <4>2. g[s] = d[y].n + g[s \ {y}]
        <5>1. s \in SUBSET S
          BY <1>0
        <5>2. s # {} => g[s] = d[Chosen(s)].n + g[s \ {Chosen(s)}]
          BY <5>1, AddsEach
        <5>3. QED BY <3>2, <4>1, <5>2
      <4>3. s \ {y} \in Small(S, n) /\ \A x \in s : s \ {x} \in Small(S, n)
        BY Smaller
      <4>4. g[s \ {y}] \in Int /\ \A x \in s \ {y} : g[s \ {y}] = d[x].n + g[(s \ {y}) \ {x}]
        BY <1>2, <4>3
      <4>5. \A x \in s : d[x].n \in Int
        BY <1>0
      <4>6. ASSUME NEW x \in s, x # y PROVE g[s] = d[x].n + g[s \ {x}]
        <5>1. PICK t : t = (s \ {y}) \ {x} /\ t = (s \ {x}) \ {y}
          OBVIOUS
        <5>2. g[s \ {y}] = d[x].n + g[t]
          BY <4>4, <4>6, <5>1
        <5>3. g[s \ {x}] = d[y].n + g[t]
          <6>1. \A z \in s \ {x} : g[s \ {x}] = d[z].n + g[(s \ {x}) \ {z}]
            BY <1>2, <4>3
          <6>2. QED BY <4>6, <5>1, <6>1
        <5>4. g[t] \in Int
          <6>1. t \in Small(S, n)
            <7>1. t \in SUBSET s /\ s \ {y} \in Small(S, n) /\ t \in SUBSET (s \ {y})
              BY <4>3, <5>1
            <7>2. IsFiniteSet(s \ {y})
              BY <7>1, FS_Subset DEF Small
            <7>3. /\ Cardinality(t) <= Cardinality(s \ {y}) /\ Cardinality(s \ {y}) <= n
                  /\ Cardinality(t) \in Nat /\ Cardinality(s \ {y}) \in Nat
              BY <7>1, <7>2, FS_Subset, FS_CardinalityType DEF Small
            <7>4. Cardinality(t) <= n
              BY <7>3
            <7>5. QED BY <7>1, <7>4 DEF Small
          <6>2. QED BY <1>2, <6>1
        <5>5. QED BY <4>2, <4>5, <5>2, <5>3, <5>4
      <4>7. g[s] \in Int
        BY <4>2, <4>4, <4>5
      <4>8. QED BY <4>2, <4>6, <4>7
    <3>3. QED BY <3>1, <3>2
  <2>2. QED BY <2>1
<1>. HIDE DEF Any
<1>3. \A n \in Nat : n \in Any
  BY <1>1, <1>2, Induction
<1>4. Cardinality(S) \in Any /\ S \in Small(S, Cardinality(S))
  BY <1>3, AllAreSmall
<1>5. QED BY <1>4 DEF Any

\* RequestsIn is what that function says of the whole set.
LEMMA RequestsCounted ==
  ASSUME NEW d, NEW S, IsFiniteSet(S)
  PROVE  \E g : AddsUp(d, SUBSET S, g) /\ RequestsIn(d, S) = g[S]
<1>1. RequestsIn(d, S) = (CHOOSE g : AddsUp(d, SUBSET S, g))[S]
  BY DEF RequestsIn, MapThenSumSet, MapThenFoldSet, AddsUp
<1>2. QED BY <1>1, AddsExists

\* The sum over no place is 0, ...
LEMMA NoRequests ==
  ASSUME NEW d
  PROVE  RequestsIn(d, {}) = 0
<1>1. PICK g : AddsUp(d, SUBSET {}, g) /\ RequestsIn(d, {}) = g[{}]
  BY RequestsCounted, FS_EmptySet
<1>2. QED BY <1>1, AddsEach

\* ... and a place adds what its period has, whichever place it is.
LEMMA OnePlaceMore ==
  ASSUME NEW d, NEW S, IsFiniteSet(S), \A i \in S : d[i].n \in Int, NEW x \in S
  PROVE  RequestsIn(d, S) \in Int /\ RequestsIn(d, S) = d[x].n + RequestsIn(d, S \ {x})
<1>. DEFINE T == S \ {x}
<1>1. IsFiniteSet(T) /\ T \in SUBSET S
  BY FS_Subset
<1>2. PICK g : AddsUp(d, SUBSET S, g) /\ RequestsIn(d, S) = g[S]
  BY RequestsCounted
<1>3. PICK h : AddsUp(d, SUBSET T, h) /\ RequestsIn(d, T) = h[T]
  BY <1>1, RequestsCounted
<1>4. SUBSET T \subseteq SUBSET S
  BY <1>1
<1>5. g[T] = h[T]
  <2>. HIDE DEF T
  <2>1. QED BY <1>1, <1>2, <1>3, <1>4, AddsOnce
<1>6. QED BY <1>2, <1>3, <1>5, AnyFirst

-----------------------------------------------------------------------------
(***************************************************************************)
(* The requests of the newest periods.                                     *)
(***************************************************************************)
Numbers(d, n) == \A i \in 1 .. n : d[i].n \in Int

LEMMA OneOlder ==
  ASSUME NEW d, NEW n \in Nat, Numbers(d, n + 1)
  PROVE  /\ RequestsIn(d, 1 .. n + 1) \in Int
         /\ RequestsIn(d, 1 .. n + 1) = d[n + 1].n + RequestsIn(d, 1 .. n)
<1>1. PICK S : S = 1 .. n + 1
  OBVIOUS
<1>2. IsFiniteSet(S) /\ n + 1 \in S /\ S \ {n + 1} = 1 .. n
  <2>1. IsFiniteSet(1 .. n + 1)
    BY FS_Interval
  <2>2. QED BY <1>1, <2>1
<1>3. \A i \in S : d[i].n \in Int
  BY <1>1 DEF Numbers
<1>4. RequestsIn(d, S) \in Int /\ RequestsIn(d, S) = d[n + 1].n + RequestsIn(d, S \ {n + 1})
  BY <1>2, <1>3, OnePlaceMore
<1>5. QED BY <1>1, <1>2, <1>4

\* Periods without requests have none together.
LEMMA ZerosOnly ==
  ASSUME NEW d, NEW m \in Nat, \A i \in 1 .. m : d[i].n = 0
  PROVE  RequestsIn(d, 1 .. m) = 0
<1>. DEFINE Zero == {n \in Nat : n <= m => RequestsIn(d, 1 .. n) = 0}
<1>1. 0 \in Zero
  <2>1. 1 .. 0 = {}
    OBVIOUS
  <2>2. RequestsIn(d, 1 .. 0) = 0
    BY <2>1, NoRequests
  <2>3. QED BY <2>2
<1>2. ASSUME NEW n \in Nat, n \in Zero PROVE n + 1 \in Zero
  <2>1. SUFFICES ASSUME n + 1 <= m PROVE RequestsIn(d, 1 .. n + 1) = 0
    OBVIOUS
  <2>2. RequestsIn(d, 1 .. n) = 0
    BY <1>2, <2>1
  <2>3. d[n + 1].n = 0 /\ Numbers(d, n + 1)
    BY <2>1 DEF Numbers
  <2>4. QED BY <2>2, <2>3, OneOlder
<1>. HIDE DEF Zero
<1>3. \A n \in Nat : n \in Zero
  BY <1>1, <1>2, Induction
<1>4. QED BY <1>3 DEF Zero

\* What a list begins with, m periods without requests and one more, adds what
\* that one has.
Shifted(e, d, m, x, n) ==
  /\ \A i \in 1 .. m : e[i].n = 0
  /\ e[m + 1].n = x
  /\ \A j \in 1 .. n : e[m + 1 + j].n = d[j].n

LEMMA ShiftedNumbers ==
  ASSUME NEW e, NEW d, NEW m \in Nat, NEW x \in Int, NEW n \in Nat,
         Shifted(e, d, m, x, n), Numbers(d, n)
  PROVE  Numbers(e, m + 1 + n)
<1>1. SUFFICES ASSUME NEW i \in 1 .. m + 1 + n PROVE e[i].n \in Int
  BY DEF Numbers
<1>2. CASE i <= m
  BY <1>2 DEF Shifted
<1>3. CASE i = m + 1
  BY <1>3 DEF Shifted
<1>4. CASE i > m + 1
  <2>1. PICK j \in 1 .. n : i = m + 1 + j
    <3>1. i - (m + 1) \in 1 .. n /\ i = m + 1 + (i - (m + 1))
      BY <1>4
    <3>2. QED BY <3>1
  <2>2. e[i].n = d[j].n
    BY <2>1 DEF Shifted
  <2>3. QED BY <2>2 DEF Numbers
<1>5. QED BY <1>2, <1>3, <1>4

LEMMA ShiftedRequests ==
  ASSUME NEW e, NEW d, NEW m \in Nat, NEW x \in Int, NEW n \in Nat,
         Shifted(e, d, m, x, n), Numbers(d, n)
  PROVE  RequestsIn(e, 1 .. m + 1 + n) = x + RequestsIn(d, 1 .. n)
<1>. DEFINE Same == {c \in Nat : c <= n =>
                       RequestsIn(e, 1 .. m + 1 + c) = x + RequestsIn(d, 1 .. c)}
<1>1. 0 \in Same
  <2>1. RequestsIn(d, 1 .. 0) = 0
    <3>1. 1 .. 0 = {}
      OBVIOUS
    <3>2. QED BY <3>1, NoRequests
  <2>2. RequestsIn(e, 1 .. m) = 0
    BY ZerosOnly DEF Shifted
  <2>3. Numbers(e, m + 1) /\ e[m + 1].n = x
    <3>1. Numbers(e, m + 1 + n)
      BY ShiftedNumbers
    <3>2. QED BY <3>1 DEF Numbers, Shifted
  <2>4. RequestsIn(e, 1 .. m + 1) = x + 0
    BY <2>2, <2>3, OneOlder
  <2>5. m + 1 + 0 = m + 1
    OBVIOUS
  <2>6. QED BY <2>1, <2>4, <2>5
<1>2. ASSUME NEW c \in Nat, c \in Same PROVE c + 1 \in Same
  <2>1. SUFFICES ASSUME c + 1 <= n
                 PROVE  RequestsIn(e, 1 .. m + 1 + (c + 1)) = x + RequestsIn(d, 1 .. c + 1)
    OBVIOUS
  <2>2. RequestsIn(e, 1 .. m + 1 + c) = x + RequestsIn(d, 1 .. c)
    BY <1>2, <2>1
  <2>3. Numbers(d, c + 1)
    BY <2>1 DEF Numbers
  <2>4. PICK y \in Int, sum \in Int : /\ y = d[c + 1].n
                                      /\ RequestsIn(d, 1 .. c + 1) = y + RequestsIn(d, 1 .. c)
                                      /\ sum = RequestsIn(d, 1 .. c + 1)
    <3>1. d[c + 1].n \in Int
      BY <2>3 DEF Numbers
    <3>2. QED BY <2>3, <3>1, OneOlder
  <2>5. PICK p \in Nat : p = m + 1 + c /\ p + 1 = m + 1 + (c + 1)
    OBVIOUS
  <2>6. Numbers(e, p + 1)
    <3>1. Numbers(e, m + 1 + n)
      BY ShiftedNumbers
    <3>2. \A i \in 1 .. p + 1 : i \in 1 .. m + 1 + n
      BY <2>1, <2>5
    <3>3. QED BY <3>1, <3>2 DEF Numbers
  <2>7. e[p + 1].n = y
    BY <2>1, <2>4, <2>5 DEF Shifted
  <2>8. RequestsIn(e, 1 .. p + 1) = y + RequestsIn(e, 1 .. p)
    BY <2>6, <2>7, OneOlder
  <2>9. RequestsIn(d, 1 .. c) \in Int
    <3>1. CASE c = 0
      <4>1. 1 .. c = {}
        BY <3>1
      <4>2. QED BY <4>1, NoRequests
    <3>2. CASE c # 0
      <4>1. PICK b \in Nat : c = b + 1
        <5>1. c - 1 \in Nat /\ c = (c - 1) + 1
          BY <3>2
        <5>2. QED BY <5>1
      <4>2. Numbers(d, b + 1)
        BY <2>3, <4>1 DEF Numbers
      <4>3. QED BY <4>1, <4>2, OneOlder
    <3>3. QED BY <3>1, <3>2
  <2>10. QED BY <2>2, <2>4, <2>5, <2>8, <2>9
<1>. HIDE DEF Same
<1>3. \A c \in Nat : c \in Same
  BY <1>1, <1>2, Induction
<1>4. QED BY <1>3 DEF Same

-----------------------------------------------------------------------------
(***************************************************************************)
(* Two kinds that can be compared.                                         *)
(***************************************************************************)
\* A period is told by the times within it.
LEMMA StartIs ==
  ASSUME NEW k \in Kinds, NEW t \in Nat, NEW q \in Nat,
         Times(k, q) <= t, t < Times(k, q) + Length[k]
  PROVE  StartOf(k, t) = Times(k, q)
<1>1. PICK d \in Nat, x \in Nat : d = Length[k] /\ x = Times(k, q) /\ x + d = Times(k, q + 1)
  BY Constants, TimesNat, TimesNext
<1>2. PICK y \in Nat, r \in Nat : y = StartOf(k, t) /\ y = Times(k, r) /\ y <= t /\ t < y + d
  BY <1>1, Starts
<1>3. y + d = Times(k, r + 1)
  BY <1>1, <1>2, TimesNext
<1>4. q < r + 1
  <2>1. x < y + d
    BY <1>1, <1>2
  <2>2. r + 1 \in Nat
    OBVIOUS
  <2>3. QED BY <1>1, <1>3, <2>1, <2>2, TimesLess, Zenon
<1>5. r < q + 1
  <2>1. y < x + d
    BY <1>1, <1>2
  <2>2. q + 1 \in Nat
    OBVIOUS
  <2>3. QED BY <1>1, <1>2, <2>1, <2>2, TimesLess, Zenon
<1>6. q = r
  BY <1>4, <1>5
<1>7. QED BY <1>2, <1>6

\* A period of l starts with one of k, and each that starts later, within it,
\* does so after fewer periods of k than are kept and running.
LEMMA Within ==
  ASSUME NEW k \in Kinds, NEW l \in Kinds, Covers(k, l), NEW t \in Nat
  PROVE  \E q \in 0 .. Keep[k] : StartOf(k, t) = StartOf(l, t) + Times(k, q)
<1>1. PICK c \in Nat, limit \in Nat : limit = Keep[k] /\ c <= limit + 1 /\ Length[l] = Times(k, c)
  BY Constants DEF Covers, Times
<1>2. PICK y \in Nat, p \in Nat : y = StartOf(l, t) /\ y = Times(l, p) /\ y <= t /\ t < y + Length[l]
  BY Starts
<1>3. PICK e \in Nat : e = p * c /\ y = Times(k, e)
  <2>1. PICK d \in Nat : d = Length[k]
    BY Constants
  <2>2. p * (c * d) = (p * c) * d /\ p * c \in Nat
    OBVIOUS
  <2>3. QED BY <1>1, <1>2, <2>1, <2>2 DEF Times
<1>4. PICK x \in Nat, r \in Nat, d \in Nat :
        x = StartOf(k, t) /\ x = Times(k, r) /\ x <= t /\ t < x + d /\ d = Length[k]
  BY Starts, Constants
<1>5. x + d = Times(k, r + 1)
  BY <1>4, TimesNext
<1>6. PICK z \in Nat : z = Times(k, c) /\ Times(k, e + c) = y + z /\ t < y + z
  <2>1. Times(k, e + c) = Times(k, e) + Times(k, c) /\ Times(k, c) \in Nat
    BY TimesSum, TimesNat
  <2>2. QED BY <1>1, <1>2, <1>3, <2>1
<1>7. e < r + 1
  <2>1. y < x + d
    BY <1>2, <1>4
  <2>2. r + 1 \in Nat
    OBVIOUS
  <2>3. QED BY <1>3, <1>5, <2>1, <2>2, TimesLess, Zenon
<1>8. r < e + c
  <2>1. x < y + z
    BY <1>4, <1>6
  <2>2. e + c \in Nat
    OBVIOUS
  <2>3. QED BY <1>4, <1>6, <2>1, <2>2, TimesLess, Zenon
<1>9. PICK q \in Nat : r = e + q /\ q \in 0 .. limit
  <2>1. r - e \in 0 .. limit /\ r = e + (r - e)
    BY <1>1, <1>7, <1>8
  <2>2. QED BY <2>1
<1>10. Times(k, r) = Times(k, e) + Times(k, q)
  BY <1>9, TimesSum
<1>11. QED BY <1>1, <1>2, <1>3, <1>4, <1>9, <1>10

\* Of a line the periods since q periods ago are the q newest ones.
LEMMA NewestSince ==
  ASSUME NEW k \in Kinds, NEW d, NEW n \in Nat, DOMAIN d = 1 .. n, NEW x \in Nat,
         \A i \in 1 .. n : d[i].start = x - Times(k, i),
         NEW from \in Nat, NEW q \in Nat, x = from + Times(k, q),
         NEW w \in Nat, w = IF q <= n THEN q ELSE n
  PROVE  Since(d, from) = 1 .. w
<1>1. ASSUME NEW i \in 1 .. n PROVE d[i].start >= from <=> i <= w
  <2>1. i \in Nat /\ (i <= q <=> ~(q < i)) /\ i <= n
    OBVIOUS
  <2>2. PICK y \in Nat, z \in Nat : y = Times(k, i) /\ z = Times(k, q)
    BY <2>1, TimesNat, Zenon
  <2>3. d[i].start = x - y
    BY <2>2
  <2>4. d[i].start >= from <=> ~(z < y)
    BY <2>2, <2>3
  <2>5. q < i <=> z < y
    BY <2>1, <2>2, TimesLess, Zenon
  <2>6. QED BY <2>1, <2>4, <2>5
<1>2. \A i : i \in 1 .. w <=> i \in 1 .. n /\ i <= w
  OBVIOUS
<1>3. QED BY <1>1, <1>2, Zenon DEF Since

\* The kinds k and l, a period of l covering c of k, have seen the same: both were
\* rolled last at the same time, and what l counts k has counted or finished since,
\* if the period of l began at a time from which on both were there.
SameCount(r, s) == s.n = r.n + RequestsIn(r.done, Since(r.done, s.start))

Agree(k, l, r, s, t, since) ==
  /\ \E u \in 0 .. t : r.start = StartOf(k, u) /\ s.start = StartOf(l, u)
  /\ s.start >= since => SameCount(r, s)

LEMMA LineStarts ==
  ASSUME NEW k \in Kinds, NEW r \in Series, NEW t, InLine(k, r, t)
  PROVE  \E n \in Nat : /\ n = Len(r.done) /\ DOMAIN r.done = 1 .. n
                        /\ \A i \in 1 .. n : /\ r.done[i].start = r.start - Times(k, i)
                                             /\ r.done[i].n \in Int
<1>1. PICK n \in Nat : n = Len(r.done) /\ DOMAIN r.done = 1 .. n
  BY LenProperties DEF Series
<1>2. \A i \in 1 .. n : r.done[i] \in Period
  BY <1>1, ElementOfSeq DEF Series
<1>3. \A i \in 1 .. n : r.done[i].n \in Int
  BY <1>2 DEF Period
<1>4. \A i \in 1 .. n : r.done[i].start = r.start - Times(k, i)
  BY <1>1, Zenon DEF InLine, Times
<1>5. QED BY <1>1, <1>3, <1>4, Zenon

\* While a period of k runs, so does the one of l.
LEMMA BothRun ==
  ASSUME NEW k \in Kinds, NEW l \in Kinds, Covers(k, l), NEW t \in Nat, NEW u \in 0 .. t,
         StartOf(k, u) = StartOf(k, t)
  PROVE  StartOf(l, u) = StartOf(l, t)
<1>1. PICK y \in Nat, p \in Nat, d \in Nat :
        y = StartOf(l, t) /\ y = Times(l, p) /\ d = Length[l] /\ t < y + d
  BY Starts, Constants
<1>2. PICK q \in Nat, z \in Nat : StartOf(k, t) = y + z /\ z = Times(k, q)
  <2>1. PICK q \in 0 .. Keep[k] : StartOf(k, t) = StartOf(l, t) + Times(k, q)
    BY Within
  <2>2. q \in Nat
    BY Constants
  <2>3. QED BY <1>1, <2>1, <2>2, TimesNat, Zenon
<1>3. u \in Nat /\ StartOf(k, u) <= u
  <2>1. u \in Nat
    OBVIOUS
  <2>2. QED BY <2>1, Starts, Zenon
<1>4. y <= u /\ u < y + d
  BY <1>1, <1>2, <1>3
<1>5. QED BY <1>1, <1>3, <1>4, StartIs, Zenon

\* The newest of a rolled line, as far back as q periods before it rolled.
LEMMA RolledSince ==
  ASSUME NEW k \in Kinds, NEW r \in Series, NEW t \in Nat, InLine(k, r, t), NEW new \in Series,
         NEW m \in Nat, NEW n \in Nat, NEW kept \in Nat, Rolled(k, r, new, m, n, kept),
         NEW from \in Nat, NEW q \in Nat, r.start = from + Times(k, q), m + 1 + q <= Keep[k]
  PROVE  RequestsIn(new.done, Since(new.done, from))
           = r.n + RequestsIn(r.done, Since(r.done, from))
<1>1. PICK limit \in Nat : limit = Keep[k] /\ m + 1 + q <= limit
  BY Constants
<1>2. PICK w \in Nat : w = (IF q <= n THEN q ELSE n) /\ w <= n
  OBVIOUS
<1>3. kept = IF m + 1 + n <= limit THEN m + 1 + n ELSE limit
  BY <1>1, Zenon DEF Rolled, KeptOf
<1>4. /\ m + 1 + q \in Nat /\ m + 1 + w \in Nat
      /\ m + 1 + w = IF m + 1 + q <= kept THEN m + 1 + q ELSE kept
      /\ m + 1 + w <= kept
  BY <1>1, <1>2, <1>3
<1>5. /\ DOMAIN r.done = 1 .. n
      /\ \A i \in 1 .. n : r.done[i].start = r.start - Times(k, i) /\ r.done[i].n \in Int
  <2>1. n = Len(r.done)
    BY Zenon DEF Rolled
  <2>2. QED BY <2>1, LineStarts, Zenon
<1>6. r.start \in Nat /\ new.start \in Nat /\ r.n \in Int
  BY DEF Series
<1>7. Since(r.done, from) = 1 .. w
  <2>1. w = IF q <= n THEN q ELSE n
    BY <1>2
  <2>2. PICK x \in Nat, d \in {r.done} : x = r.start /\ d = r.done
    BY <1>6
  <2>3. /\ DOMAIN d = 1 .. n /\ x = from + Times(k, q)
        /\ \A i \in 1 .. n : d[i].start = x - Times(k, i)
    BY <1>5, <2>2, Zenon
  <2>4. Since(d, from) = 1 .. w
    BY <2>1, <2>3, NewestSince
  <2>5. QED BY <2>2, <2>4
<1>8. new.start = from + Times(k, m + 1 + q)
  <2>1. PICK x \in Nat, y \in Nat : x = Times(k, m + 1) /\ y = Times(k, q) /\ Times(k, m + 1 + q) = x + y
    <3>1. m + 1 \in Nat
      OBVIOUS
    <3>2. Times(k, m + 1) \in Nat /\ Times(k, q) \in Nat
      BY <3>1, TimesNat, Zenon
    <3>3. Times(k, m + 1 + q) = Times(k, m + 1) + Times(k, q)
      BY <3>1, TimesSum, Zenon
    <3>4. QED BY <3>2, <3>3, Zenon
  <2>2. new.start = r.start + x
    BY <2>1, Zenon DEF Rolled
  <2>3. r.start = from + y
    BY <2>1, Zenon
  <2>4. QED BY <2>1, <2>2, <2>3
<1>9. /\ DOMAIN new.done = 1 .. kept
      /\ \A i \in 1 .. kept : new.done[i].start = new.start - Times(k, i)
  <2>1. DOMAIN new.done = 1 .. kept
    BY Zenon DEF Rolled
  <2>2. \A i \in 1 .. kept : new.done[i].start = new.start - Times(k, i)
    BY RolledStarts
  <2>3. QED BY <2>1, <2>2
<1>10. Since(new.done, from) = 1 .. m + 1 + w
  <2>1. PICK p \in Nat, v \in Nat : p = m + 1 + q /\ v = m + 1 + w
    BY <1>4
  <2>2. v = (IF p <= kept THEN p ELSE kept) /\ new.start = from + Times(k, p)
    BY <1>4, <1>8, <2>1
  <2>3. PICK x \in Nat, d \in {new.done} : x = new.start /\ d = new.done
    BY <1>6
  <2>4. /\ DOMAIN d = 1 .. kept /\ x = from + Times(k, p)
        /\ \A i \in 1 .. kept : d[i].start = x - Times(k, i)
    BY <1>9, <2>2, <2>3, Zenon
  <2>5. v = IF p <= kept THEN p ELSE kept
    BY <2>2
  <2>6. Since(d, from) = 1 .. v
    BY <2>4, <2>5, NewestSince
  <2>7. QED BY <2>1, <2>3, <2>6
<1>11. Numbers(r.done, w)
  <2>1. \A i \in 1 .. w : i \in 1 .. n
    BY <1>2
  <2>2. QED BY <1>5, <2>1, Zenon DEF Numbers
<1>12. Shifted(new.done, r.done, m, r.n, w)
  <2>1. /\ m + 1 <= kept
        /\ \A i \in 1 .. m : i <= kept
        /\ \A j \in 1 .. w : j \in 1 .. n /\ m + 1 + j <= kept
    BY <1>2, <1>4
  <2>2. \A i \in 1 .. m : new.done[i].n = 0
    <3>1. \A i \in 1 .. m : new.done[i] = [start |-> new.start - Times(k, i), n |-> 0]
      BY <2>1, Zenon DEF Rolled, KeptOf
    <3>2. \A i \in 1 .. m : [start |-> new.start - Times(k, i), n |-> 0].n = 0
      OBVIOUS
    <3>3. QED BY <3>1, <3>2, Zenon
  <2>3. new.done[m + 1].n = r.n
    <3>1. new.done[m + 1] = Current(r)
      BY <2>1, Zenon DEF Rolled, KeptOf
    <3>2. QED BY <3>1 DEF Current
  <2>4. \A j \in 1 .. w : new.done[m + 1 + j] = r.done[j]
    BY <2>1, Zenon DEF Rolled, KeptOf
  <2>5. QED BY <2>2, <2>3, <2>4, Zenon DEF Shifted
<1>13. RequestsIn(new.done, 1 .. m + 1 + w) = r.n + RequestsIn(r.done, 1 .. w)
  BY <1>6, <1>11, <1>12, ShiftedRequests
<1>14. QED BY <1>7, <1>10, <1>13, Zenon

\* ... and after it rolled, when no request has come since.
LEMMA MissedSince ==
  ASSUME NEW k \in Kinds, NEW r \in Series, NEW t \in Nat, InLine(k, r, t), NEW new \in Series,
         NEW m \in Nat, NEW n \in Nat, NEW kept \in Nat, Rolled(k, r, new, m, n, kept),
         NEW from \in Nat, NEW q \in Nat, new.start = from + Times(k, q), q <= m
  PROVE  RequestsIn(new.done, Since(new.done, from)) = 0
<1>1. PICK w \in Nat : w = (IF q <= kept THEN q ELSE kept) /\ \A i \in 1 .. w : i \in 1 .. m /\ i <= kept
  OBVIOUS
<1>2. new.start \in Nat
  BY DEF Series
<1>3. /\ DOMAIN new.done = 1 .. kept
      /\ \A i \in 1 .. kept : new.done[i].start = new.start - Times(k, i)
  <2>1. DOMAIN new.done = 1 .. kept
    BY Zenon DEF Rolled
  <2>2. \A i \in 1 .. kept : new.done[i].start = new.start - Times(k, i)
    BY RolledStarts
  <2>3. QED BY <2>1, <2>2
<1>4. Since(new.done, from) = 1 .. w
  <2>1. w = IF q <= kept THEN q ELSE kept
    BY <1>1
  <2>2. QED BY <1>2, <1>3, <2>1, NewestSince
<1>5. \A i \in 1 .. w : new.done[i] = [start |-> new.start - Times(k, i), n |-> 0]
  BY <1>1, Zenon DEF Rolled, KeptOf
<1>6. \A i \in 1 .. w : new.done[i].n = 0
  <2>1. \A i \in 1 .. w : [start |-> new.start - Times(k, i), n |-> 0].n = 0
    OBVIOUS
  <2>2. QED BY <1>5, <2>1, Zenon
<1>7. QED BY <1>4, <1>6, ZerosOnly, Zenon

\* What rolls, rolls to the running period.
LEMMA RolledTo ==
  ASSUME NEW s, NEW k \in Kinds, NEW t \in Nat, NEW r \in Series, s[k] = r, r # None
  PROVE  RollKind(s, k, t).start = StartOf(k, t)
BY DEF RollKind, Due

\* The kinds k and l agree after they rolled: l too is still in its period, or k
\* finished one of the periods within l's, or those that k finished within l's new
\* one are missed ones.
LEMMA RollAgree ==
  ASSUME NEW k \in Kinds, NEW l \in Kinds, Covers(k, l), NEW t \in Nat, NEW s,
         NEW r \in Series, s[k] = r, r # None, InLine(k, r, t),
         NEW o \in Series, s[l] = o, o # None, InLine(l, o, t), NEW since, Agree(k, l, r, o, t, since)
  PROVE  Agree(k, l, RollKind(s, k, t), RollKind(s, l, t), t, since)
<1>1. PICK u \in 0 .. t : r.start = StartOf(k, u) /\ o.start = StartOf(l, u)
  BY DEF Agree
<1>2. o.start >= since => o.n = r.n + RequestsIn(r.done, Since(r.done, o.start))
  BY DEF Agree, SameCount
<1>3. t \in 0 .. t /\ u \in Nat
  OBVIOUS
<1>4. /\ RollKind(s, k, t).start = StartOf(k, t)
      /\ RollKind(s, l, t).start = StartOf(l, t)
  BY RolledTo, Zenon
<1>5. ASSUME StartOf(l, t) >= since => RollKind(s, l, t).n = RollKind(s, k, t).n + RequestsIn(
               RollKind(s, k, t).done, Since(RollKind(s, k, t).done, StartOf(l, t)))
      PROVE  Agree(k, l, RollKind(s, k, t), RollKind(s, l, t), t, since)
  BY <1>3, <1>4, <1>5, Zenon DEF Agree, SameCount
<1>6. CASE r.start = StartOf(k, t)
  <2>1. o.start = StartOf(l, t)
    BY <1>1, <1>6, BothRun, Zenon
  <2>2. RollKind(s, k, t) = r /\ RollKind(s, l, t) = o
    BY <1>6, <2>1, RollNotDue, Zenon
  <2>3. QED BY <1>2, <1>5, <2>1, <2>2, Zenon
<1>7. CASE r.start # StartOf(k, t)
  <2>1. PICK m \in Nat, n \in Nat, kept \in Nat : Rolled(k, r, RollKind(s, k, t), m, n, kept)
    BY <1>7, RollDue, Zenon
  <2>2. PICK new \in Series : new = RollKind(s, k, t) /\ Rolled(k, r, new, m, n, kept)
    BY <2>1, Zenon DEF Rolled
  <2>3. PICK a \in Nat, b \in Nat, x \in Nat :
          /\ a = r.start /\ b = new.start /\ b = a + x /\ x = Times(k, m + 1)
          /\ b = StartOf(k, t)
    <3>1. m + 1 \in Nat
      OBVIOUS
    <3>2. Times(k, m + 1) \in Nat
      BY <3>1, TimesNat, Zenon
    <3>3. new.start = r.start + Times(k, m + 1)
      BY <2>2, Zenon DEF Rolled
    <3>4. r.start \in Nat /\ new.start \in Nat
      BY DEF Series
    <3>5. QED BY <1>4, <2>2, <3>2, <3>3, <3>4, Zenon
  <2>4. new.n = 0
    BY <2>2, Zenon DEF Rolled
  <2>5. PICK from \in Nat, q \in Nat, y \in Nat, limit \in Nat :
          /\ from = StartOf(l, t) /\ y = Times(k, q) /\ b = from + y
          /\ limit = Keep[k] /\ q <= limit
    <3>1. PICK q \in 0 .. Keep[k] : StartOf(k, t) = StartOf(l, t) + Times(k, q)
      BY Within
    <3>2. Keep[k] \in Nat /\ StartOf(l, t) \in Nat
      BY Constants, Starts
    <3>3. q \in Nat /\ q <= Keep[k]
      BY <3>2
    <3>4. QED BY <2>3, <3>1, <3>2, <3>3, TimesNat, Zenon
  <2>6. CASE o.start = StartOf(l, t)
    <3>1. PICK p \in Nat, z \in Nat : z = Times(k, p) /\ a = from + z
      <4>1. PICK p \in 0 .. Keep[k] : StartOf(k, u) = StartOf(l, u) + Times(k, p)
        BY <1>3, Within
      <4>2. p \in Nat
        BY Constants
      <4>3. QED BY <1>1, <2>3, <2>5, <2>6, <4>1, <4>2, TimesNat, Zenon
    <3>2. Times(k, m + 1 + p) = y
      <4>1. Times(k, m + 1 + p) = x + z
        <5>1. m + 1 \in Nat
          OBVIOUS
        <5>2. Times(k, m + 1 + p) = Times(k, m + 1) + Times(k, p)
          BY <5>1, TimesSum, Zenon
        <5>3. QED BY <2>3, <3>1, <5>2, Zenon
      <4>2. QED BY <2>3, <2>5, <3>1, <4>1
    <3>3. m + 1 + p <= limit
      <4>1. m + 1 + p \in Nat
        OBVIOUS
      <4>2. q < m + 1 + p <=> Times(k, q) < Times(k, m + 1 + p)
        BY <4>1, TimesLess, Zenon
      <4>3. m + 1 + p < q <=> Times(k, m + 1 + p) < Times(k, q)
        BY <4>1, TimesLess, Zenon
      <4>4. ~(y < y)
        OBVIOUS
      <4>5. ~(q < m + 1 + p) /\ ~(m + 1 + p < q)
        BY <2>5, <3>2, <4>2, <4>3, <4>4, Zenon
      <4>6. QED BY <2>5, <4>1, <4>5
    <3>4. RequestsIn(new.done, Since(new.done, from)) = r.n + RequestsIn(r.done, Since(r.done, from))
      <4>1. r.start = from + Times(k, p) /\ m + 1 + p <= Keep[k]
        BY <2>3, <2>5, <3>1, <3>3, Zenon
      <4>2. QED BY <2>1, <2>2, <2>5, <3>1, <4>1, RolledSince
    <3>5. RollKind(s, l, t) = o
      BY <2>6, RollNotDue, Zenon
    <3>6. StartOf(l, t) >= since => o.n = RequestsIn(new.done, Since(new.done, from))
      BY <1>2, <2>5, <2>6, <3>4, Zenon
    <3>7. StartOf(l, t) >= since => o.n = 0 + RequestsIn(new.done, Since(new.done, from))
      <4>1. o.n \in Nat
        BY DEF Series
      <4>2. QED BY <3>6, <4>1
    <3>8. QED BY <1>5, <2>2, <2>4, <2>5, <3>5, <3>7, Zenon
  <2>7. CASE o.start # StartOf(l, t)
    <3>1. PICK i \in Nat, j \in Nat, h \in Nat : Rolled(l, o, RollKind(s, l, t), i, j, h)
      BY <2>7, RollDue, Zenon
    <3>2. RollKind(s, l, t).n = 0
      BY <3>1, Zenon DEF Rolled
    <3>3. a < from
      <4>1. PICK c \in Nat, d \in Nat, g \in Nat :
              /\ c = o.start /\ d = Length[l] /\ g = Times(l, i) /\ from = c + (g + d)
        <5>1. RollKind(s, l, t).start = o.start + Times(l, i + 1)
          BY <3>1, Zenon DEF Rolled
        <5>2. Times(l, i + 1) = Times(l, i) + Length[l] /\ Times(l, i) \in Nat
          BY TimesNext, TimesNat, Zenon
        <5>3. o.start \in Nat /\ Length[l] \in Nat
          BY Constants DEF Series
        <5>4. QED BY <1>4, <2>5, <5>1, <5>2, <5>3, Zenon
      <4>2. StartOf(k, u) <= u /\ u < StartOf(l, u) + Length[l]
        BY <1>3, Starts, Zenon
      <4>3. a <= u /\ u < c + d
        BY <1>1, <2>3, <4>1, <4>2, Zenon
      <4>4. QED BY <1>3, <4>1, <4>3
    <3>4. q <= m
      <4>1. y < x
        BY <2>3, <2>5, <3>3
      <4>2. m + 1 \in Nat
        OBVIOUS
      <4>3. q < m + 1
        <5>1. q < m + 1 <=> Times(k, q) < Times(k, m + 1)
          BY <4>2, TimesLess, Zenon
        <5>2. y = Times(k, q) /\ x = Times(k, m + 1)
          BY <2>3, <2>5, Zenon
        <5>3. QED BY <4>1, <5>1, <5>2, Zenon
      <4>4. QED BY <4>3
    <3>5. RequestsIn(new.done, Since(new.done, from)) = 0
      <4>1. new.start = from + Times(k, q)
        BY <2>3, <2>5, Zenon
      <4>2. QED BY <2>1, <2>2, <2>5, <3>4, <4>1, MissedSince
    <3>6. 0 = 0 + RequestsIn(new.done, Since(new.done, from))
      BY <3>5
    <3>7. QED BY <1>5, <2>2, <2>4, <2>5, <3>2, <3>6, Zenon
  <2>8. QED BY <2>6, <2>7
<1>8. QED BY <1>6, <1>7

\* So do kinds that begin together, ...
LEMMA NewAgree ==
  ASSUME NEW k \in Kinds, NEW l \in Kinds, NEW t \in Nat, NEW s, s[k] = None, s[l] = None,
         NEW since
  PROVE  Agree(k, l, RollKind(s, k, t), RollKind(s, l, t), t, since)
<1>1. /\ RollKind(s, k, t) = [start |-> StartOf(k, t), n |-> 0, done |-> << >>]
      /\ RollKind(s, l, t) = [start |-> StartOf(l, t), n |-> 0, done |-> << >>]
  BY RollNew
<1>2. t \in 0 .. t
  OBVIOUS
<1>3. Since(<< >>, StartOf(l, t)) = {}
  BY DEF Since
<1>4. RequestsIn(<< >>, {}) = 0
  BY NoRequests
<1>5. PICK x, y : x = StartOf(k, t) /\ y = StartOf(l, t)
  OBVIOUS
<1>6. PICK r, o : /\ r = RollKind(s, k, t) /\ r.start = x /\ r.n = 0 /\ r.done = << >>
                  /\ o = RollKind(s, l, t) /\ o.start = y /\ o.n = 0
  <2>1. /\ RollKind(s, k, t) = [start |-> x, n |-> 0, done |-> << >>]
        /\ RollKind(s, l, t) = [start |-> y, n |-> 0, done |-> << >>]
    BY <1>1, <1>5
  <2>2. QED BY <2>1
<1>7. RequestsIn(r.done, Since(r.done, o.start)) = 0
  BY <1>3, <1>4, <1>5, <1>6
<1>8. o.n = r.n + RequestsIn(r.done, Since(r.done, o.start))
  BY <1>6, <1>7
<1>9. QED BY <1>2, <1>5, <1>6, <1>8, Zenon DEF Agree, SameCount

\* ... and count one request more, each of them.
LEMMA CountedAgree ==
  ASSUME NEW k \in Kinds, NEW l \in Kinds, NEW t \in Nat, NEW r \in Series, NEW o \in Series,
         NEW since, Agree(k, l, r, o, t, since)
  PROVE  Agree(k, l, Counted(r), Counted(o), t, since)
<1>1. /\ Counted(r).start = r.start /\ Counted(r).done = r.done
      /\ Counted(o).start = o.start /\ Counted(o).done = o.done
  BY CountedSame
<1>2. \E u \in 0 .. t : Counted(r).start = StartOf(k, u) /\ Counted(o).start = StartOf(l, u)
  BY <1>1, Zenon DEF Agree
<1>3. Counted(r).n = r.n + 1 /\ Counted(o).n = o.n + 1 /\ r.n \in Nat /\ o.n \in Nat
  BY DEF Counted, Series
<1>4. o.start >= since => o.n = r.n + RequestsIn(r.done, Since(r.done, o.start))
  BY Zenon DEF Agree, SameCount
<1>5. RequestsIn(r.done, Since(r.done, o.start)) \in Int
  <2>1. PICK S : S = Since(r.done, o.start)
    OBVIOUS
  <2>2. IsFiniteSet(S)
    <3>1. PICK n \in Nat : DOMAIN r.done = 1 .. n
      BY LenProperties DEF Series
    <3>2. IsFiniteSet(1 .. n)
      BY FS_Interval
    <3>3. S \subseteq 1 .. n
      BY <2>1, <3>1 DEF Since
    <3>4. QED BY <3>2, <3>3, FS_Subset
  <2>3. \A i \in S : r.done[i].n \in Int
    <3>1. \A i \in DOMAIN r.done : r.done[i] \in Period
      <4>1. r.done \in Seq(Period)
        BY DEF Series
      <4>2. DOMAIN r.done = 1 .. Len(r.done)
        BY <4>1, LenProperties
      <4>3. QED BY <4>1, <4>2, ElementOfSeq
    <3>2. QED BY <2>1, <3>1 DEF Since, Period
  <2>4. CASE S = {}
    BY <2>1, <2>4, NoRequests
  <2>5. CASE S # {}
    <3>1. PICK i \in S : TRUE
      BY <2>5
    <3>2. RequestsIn(r.done, S) \in Int
      BY <2>2, <2>3, <3>1, OnePlaceMore
    <3>3. QED BY <2>1, <3>2
  <2>6. QED BY <2>4, <2>5
<1>6. o.start >= since => Counted(o).n = Counted(r).n + RequestsIn(r.done, Since(r.done, o.start))
  BY <1>3, <1>4, <1>5
<1>7. QED BY <1>1, <1>2, <1>6, Zenon DEF Agree, SameCount

\* They still do later.
LEMMA LaterAgree ==
  ASSUME NEW k, NEW l, NEW t \in Nat, NEW r, NEW o, NEW since, Agree(k, l, r, o, t, since)
  PROVE  Agree(k, l, r, o, t + 1, since)
<1>1. \A u \in 0 .. t : u \in 0 .. t + 1
  OBVIOUS
<1>2. QED BY <1>1, Zenon DEF Agree

-----------------------------------------------------------------------------
(***************************************************************************)
(* All kinds, in memory and on disk.                                       *)
(***************************************************************************)
AllAgree(s) == \A k, l \in Kinds : Covers(k, l) => Agree(k, l, s[k], s[l], wall, together)

InStep ==
  /\ pc # "down" => AllAgree(series)
  /\ disk # None => AllAgree(disk)

LEMMA RollInStep ==
  ASSUME Types, back = 0, Durable, InStep, pc # "down", NEW k \in Kinds, NEW l \in Kinds, Covers(k, l)
  PROVE  Agree(k, l, RollKind(series, k, wall), RollKind(series, l, wall), wall, together)
<1>1. wall \in Nat
  BY DEF Types, TypeOK
<1>2. ASSUME NEW j \in Kinds
      PROVE  series[j] \in Series /\ series[j] # None /\ InLine(j, series[j], wall)
  <2>1. series[j] \in Series
    BY DEF Types, Loaded
  <2>2. InLine(j, series[j], wall)
    BY Zenon DEF Durable, Lines
  <2>3. QED BY <2>1, <2>2, SeriesIsSomething, Zenon
<1>3. Agree(k, l, series[k], series[l], wall, together)
  BY Zenon DEF InStep, AllAgree
<1>4. QED BY <1>1, <1>2, <1>3, RollAgree, Zenon

\* All kinds were loaded, or none.
LEMMA StartInStep ==
  ASSUME Types, back = 0, Durable, InStep, NEW unread \in {{}, Kinds},
         NEW k \in Kinds, NEW l \in Kinds, Covers(k, l)
  PROVE  Agree(k, l, RollKind(Load(unread), k, wall), RollKind(Load(unread), l, wall), wall, together)
<1>1. wall \in Nat /\ TypeOK
  BY DEF Types, TypeOK
<1>. DEFINE loaded == Load(unread)
<1>2. CASE disk = None \/ unread = Kinds
  <2>1. loaded[k] = None /\ loaded[l] = None
    BY <1>1, <1>2, LoadTypes, Zenon
  <2>2. QED BY <1>1, <2>1, NewAgree, Zenon
<1>3. CASE ~(disk = None \/ unread = Kinds)
  <2>1. ASSUME NEW j \in Kinds
        PROVE  loaded[j] = disk[j] /\ loaded[j] \in Series /\ loaded[j] # None /\ InLine(j, loaded[j], wall)
    <3>1. j \notin unread /\ disk # None
      BY <1>3
    <3>2. loaded[j] = disk[j] /\ loaded[j] # None /\ WellFormed(j, disk[j])
      BY <1>1, <3>1, LoadTypes, Zenon
    <3>3. InLine(j, disk[j], wall)
      BY <3>1, Zenon DEF Durable, Lines
    <3>4. QED BY <3>2, <3>3, Zenon DEF WellFormed
  <2>. HIDE DEF loaded
  <2>2. Agree(k, l, loaded[k], loaded[l], wall, together)
    BY <1>3, <2>1, Zenon DEF InStep, AllAgree
  <2>3. Agree(k, l, RollKind(loaded, k, wall), RollKind(loaded, l, wall), wall, together)
    BY <1>1, <2>1, <2>2, RollAgree, Zenon
  <2>4. QED BY <2>3 DEF loaded
<1>4. QED BY <1>2, <1>3

\* Some kinds were loaded, some not: all are in the period of the start, and none
\* has begun after it.
LEMMA ApartInStep ==
  ASSUME Types, NEW s, \A j \in Kinds : s[j] = None \/ WellFormed(j, s[j]),
         NEW k \in Kinds, NEW l \in Kinds
  PROVE  Agree(k, l, RollKind(s, k, wall), RollKind(s, l, wall), wall, wall + 1)
<1>1. wall \in Nat /\ wall \in 0 .. wall
  BY DEF Types, TypeOK
<1>2. ASSUME NEW j \in Kinds PROVE RollKind(s, j, wall).start = StartOf(j, wall)
  BY DEF RollKind, Due
<1>3. StartOf(l, wall) \in Nat /\ StartOf(l, wall) <= wall
  BY <1>1, Starts
<1>4. ~(RollKind(s, l, wall).start >= wall + 1)
  BY <1>1, <1>2, <1>3
<1>5. QED BY <1>1, <1>2, <1>4, Zenon DEF Agree

\* Every step but setting the clock back keeps the kinds in step.
LEMMA InStepKept ==
  Types /\ (back = 0 => Durable /\ InStep) /\ [Next]_vars => (back' = 0 => InStep')
<1>1. SUFFICES ASSUME Types, back = 0 => Durable /\ InStep, [Next]_vars, back' = 0 PROVE InStep'
  OBVIOUS
<1>2. CASE SetBack
  <2>1. back' # 0
    BY <1>1, <1>2 DEF SetBack, Types
  <2>2. QED BY <1>1, <2>1
<1>3. CASE ~SetBack
  <2>1. back = 0
    BY <1>1, <1>3, OnlySetBack
  <2>2. Durable /\ InStep
    BY <1>1, <2>1
  <2>3. ASSUME UNCHANGED <<wall, disk, together>>,
               \A k, l \in Kinds : Covers(k, l) => Agree(k, l, series'[k], series'[l], wall, together)
        PROVE  InStep'
    BY <2>2, <2>3, Zenon DEF InStep, AllAgree
  <2>4. CASE Start
    <3>1. UNCHANGED <<wall, disk>>
      BY <2>4 DEF Start
    <3>2. PICK unread \in SUBSET Kinds :
            /\ \A k \in Kinds : series'[k] = RollKind(Load(unread), k, wall)
            /\ together' = IF unread \in {{}, Kinds} THEN together ELSE wall + 1
      BY <2>4, Started, Zenon
    <3>3. CASE unread \in {{}, Kinds}
      <4>1. \A k, l \in Kinds : Covers(k, l) => Agree(k, l, series'[k], series'[l], wall, together)
        BY <1>1, <2>1, <2>2, <3>2, <3>3, StartInStep, Zenon
      <4>2. together' = together
        BY <3>2, <3>3
      <4>3. QED BY <2>3, <3>1, <4>1, <4>2, Zenon
    <3>4. CASE unread \notin {{}, Kinds}
      <4>1. together' = wall + 1
        BY <3>2, <3>4
      <4>2. \A j \in Kinds : Load(unread)[j] = None \/ WellFormed(j, Load(unread)[j])
        BY <1>1, LoadTypes, Zenon DEF Types
      <4>3. \A k, l \in Kinds : Agree(k, l, series'[k], series'[l], wall, wall + 1)
        BY <1>1, <3>2, <4>2, ApartInStep, Zenon
      <4>4. ASSUME disk # None, NEW k \in Kinds, NEW l \in Kinds, Covers(k, l)
            PROVE  Agree(k, l, disk[k], disk[l], wall, wall + 1)
        <5>1. Agree(k, l, disk[k], disk[l], wall, together)
          BY <2>2, <4>4, Zenon DEF InStep, AllAgree
        <5>2. disk[l] \in Series /\ disk[l].start <= wall /\ wall \in Nat
          BY <1>1, <2>2, <4>4 DEF Types, TypeOK, WellFormed, Durable, Lines, InLine
        <5>3. ~(disk[l].start >= wall + 1)
          BY <5>2 DEF Series
        <5>4. QED BY <5>1, <5>3, Zenon DEF Agree
      <4>5. QED BY <3>1, <4>1, <4>3, <4>4, Zenon DEF InStep, AllAgree
    <3>5. QED BY <3>3, <3>4
  <2>5. CASE Publish
    <3>1. /\ UNCHANGED <<wall, disk, together>> /\ pc # "down"
          /\ \A k \in Kinds : series'[k] = RollKind(series, k, wall)
      BY <2>5 DEF Publish, RollSeries, history
    <3>2. QED BY <1>1, <2>1, <2>2, <2>3, <3>1, RollInStep, Zenon
  <2>6. CASE Add
    <3>1. /\ UNCHANGED <<wall, disk, together>> /\ pc # "down" /\ wall \in Nat
          /\ \A k \in Kinds : series'[k] = Counted(RollKind(series, k, wall))
      BY <1>1, <2>6 DEF Add, RollSeries, Counted, history, Types, TypeOK
    <3>2. \A k \in Kinds : RollKind(series, k, wall) \in Series
      BY <1>1, <2>1, <2>2, <3>1, RollRunning, Zenon
    <3>3. \A k, l \in Kinds : Covers(k, l) =>
            Agree(k, l, RollKind(series, k, wall), RollKind(series, l, wall), wall, together)
      BY <1>1, <2>1, <2>2, <3>1, RollInStep, Zenon
    <3>4. QED BY <2>3, <3>1, <3>2, <3>3, CountedAgree, Zenon
  <2>7. CASE WriteState
    <3>1. UNCHANGED <<wall, series, together>> /\ pc # "down" /\ (disk' = disk \/ disk' = series)
      BY <2>7 DEF WriteState, history
    <3>2. QED BY <2>2, <3>1, Zenon DEF InStep, AllAgree
  <2>8. ASSUME pc' = "down", UNCHANGED <<wall, disk, together>> PROVE InStep'
    BY <2>2, <2>8, Zenon DEF InStep, AllAgree
  <2>9. CASE Tick
    <3>1. wall' = wall + 1 /\ wall \in Nat /\ UNCHANGED <<pc, series, disk, together>>
      BY <1>1, <2>9 DEF Tick, history, Types, TypeOK
    <3>2. ASSUME NEW k, NEW l, NEW r, NEW o, Agree(k, l, r, o, wall, together)
          PROVE  Agree(k, l, r, o, wall', together)
      BY <3>1, <3>2, LaterAgree
    <3>3. QED BY <2>2, <3>1, <3>2, Zenon DEF InStep, AllAgree
  <2>10. ASSUME UNCHANGED <<wall, series, disk, together>>, pc' # "down" => pc # "down" PROVE InStep'
    BY <2>2, <2>10, Zenon DEF InStep, AllAgree
  <2>11. CASE CountPing \/ Signal \/ (\E k \in Kinds : WriteFile(k)) \/ UNCHANGED vars
    <3>1. UNCHANGED <<wall, series, disk, together>> /\ (pc' # "down" => pc # "down")
      BY <2>11 DEF WriteFile, CountPing, Signal, history, vars
    <3>2. QED BY <2>10, <3>1
  <2>12. CASE WriteStateFails \/ WriteFileFails \/ FilesWritten \/ Crash
    <3>1. UNCHANGED <<wall, disk, together>> /\ pc # "down" /\ (Return \/ ProcessEnds)
      BY <2>12 DEF WriteStateFails, WriteFileFails, FilesWritten, Crash, history
    <3>2. CASE ProcessEnds
      BY <2>8, <3>1, <3>2 DEF ProcessEnds
    <3>3. CASE UNCHANGED series
      BY <2>10, <3>1, <3>3
    <3>4. QED BY <1>1, <3>1, <3>2, <3>3, Returns
  <2>13. QED
    BY <1>1, <1>3, <2>4, <2>5, <2>6, <2>7, <2>9, <2>11, <2>12 DEF Next, Worker
<1>4. QED BY <1>2, <1>3

-----------------------------------------------------------------------------
(***************************************************************************)
(* Theorems.                                                               *)
(***************************************************************************)
\* The inductive invariant holds: what was published has ended, and both the
\* process and, but for newly counted requests, the state on disk still have it.
THEOREM Invariant == Spec => []IInv
<1>1. Init => IInv
  BY InitTypes, InitDurable DEF IInv
<1>2. IInv /\ [Next]_vars => IInv'
  BY TypesKept, DurableKept DEF IInv
<1>3. QED BY <1>1, <1>2, PTL DEF Spec

\* The worker's state, the state on disk and the published files keep their
\* types: at most Keep[k] finished periods of every kind, at all times.
THEOREM TypeCorrect == Spec => []TypeOK
<1>1. IInv => TypeOK
  BY DEF IInv, Types
<1>2. QED BY <1>1, Invariant, PTL

\* While the clock is not set back, every published request is in the state on
\* disk, or too old for it, whatever write fails and whenever the process dies; but
\* for a kind that a process could not read, until its next file.
THEOREM PublishedIsInTheState == Spec => []PublishedIsDurable
<1>1. IInv => PublishedIsDurable
  <2>1. SUFFICES ASSUME IInv, back = 0, NEW k \in Kinds \ lost, NEW p \in Shown(k)
                 PROVE  \/ p.n = 0
                        \/ p \in OnDisk(k)
                        \/ disk # None /\ p.start < disk[k].start - Keep[k] * Length[k]
    BY Zenon DEF PublishedIsDurable
  <2>2. Durable
    BY <2>1 DEF IInv
  <2>3. p.n \in Nat
    BY <2>1, <2>2 DEF Durable, Remembered, Ended, Period
  <2>4. CASE p.n > 0
    <3>1. disk # None /\ (p \in Finished(disk[k]) \/ TooOld(k, disk[k], p) \/ p = Current(disk[k]))
      BY <2>2, <2>4, Zenon DEF Durable, Stored, Has
    <3>2. QED BY <3>1, Zenon DEF OnDisk, Finished, Current, TooOld
  <2>5. QED BY <2>3, <2>4
<1>2. QED BY <1>1, Invariant, PTL

\* While the clock is not set back, a published file has every period between its
\* oldest and its newest.
THEOREM FilesHaveNoGaps == Spec => []NoGaps
<1>1. IInv => NoGaps
  BY DEF IInv, Durable, NoGaps
<1>2. QED BY <1>1, Invariant, PTL

\* Finished periods of a line are different ones.
LEMMA FinishedCount ==
  ASSUME NEW k \in Kinds, NEW s \in Series, NEW t \in Nat, InLine(k, s, t)
  PROVE  Cardinality(Finished(s)) = Len(s.done)
<1>1. PICK n \in Nat : n = Len(s.done) /\ DOMAIN s.done = 1 .. n
  BY LenProperties DEF Series
<1>2. PICK x \in Nat : x = s.start
  BY DEF Series
<1>3. ASSUME NEW i \in 1 .. n, NEW j \in 1 .. n, s.done[i] = s.done[j] PROVE i = j
  <2>1. i \in Nat /\ j \in Nat
    OBVIOUS
  <2>2. PICK y \in Nat, z \in Nat : y = Times(k, i) /\ z = Times(k, j)
    BY <2>1, TimesNat, Zenon
  <2>3. s.done[i].start = x - y /\ s.done[j].start = x - z
    BY <1>1, <1>2, <2>2, Zenon DEF InLine, Times
  <2>4. y = z
    BY <1>3, <2>3
  <2>5. ~(i < j) /\ ~(j < i)
    <3>1. i < j <=> y < z
      BY <2>1, <2>2, TimesLess, Zenon
    <3>2. j < i <=> z < y
      BY <2>1, <2>2, TimesLess, Zenon
    <3>3. QED BY <2>4, <3>1, <3>2
  <2>6. QED BY <2>1, <2>5
<1>4. s.done \in Surjection(1 .. n, Finished(s))
  <2>1. s.done \in [1 .. n -> Finished(s)]
    <3>1. s.done \in [1 .. n -> Period]
      BY <1>1, LenProperties DEF Series
    <3>2. QED BY <3>1 DEF Finished
  <2>2. \A p \in Finished(s) : \E i \in 1 .. n : s.done[i] = p
    BY <1>1, Zenon DEF Finished
  <2>3. QED BY <2>1, <2>2 DEF Surjection
<1>5. s.done \in Injection(1 .. n, Finished(s))
  BY <1>3, <1>4, Zenon DEF Surjection, Injection, IsInjective
<1>6. IsFiniteSet(1 .. n) /\ Cardinality(1 .. n) = n
  <2>1. IsFiniteSet(1 .. n) /\ Cardinality(1 .. n) = IF 1 > n THEN 0 ELSE n - 1 + 1
    BY FS_Interval
  <2>2. QED BY <2>1
<1>7. Cardinality(Finished(s)) = n
  BY <1>4, <1>5, <1>6, FS_Surjection, Zenon
<1>8. QED BY <1>1, <1>7

\* All that a line keeps is newer than a period that is too old for it.
LEMMA NewerOnes ==
  ASSUME NEW k \in Kinds, NEW s \in Series, NEW t \in Nat, InLine(k, s, t),
         NEW p \in Period, TooOld(k, s, p)
  PROVE  Cardinality({q \in Finished(s) : q.start > p.start}) = Keep[k]
<1>1. PICK limit \in Nat, y \in Nat : limit = Keep[k] /\ y = Times(k, limit)
  BY Constants, TimesNat
<1>2. PICK x \in Nat, ago \in Nat : x = s.start /\ ago = p.start
  BY DEF Series, Period
<1>3. ago < x - y
  BY <1>1, <1>2, Zenon DEF TooOld, Times
<1>4. DOMAIN s.done = 1 .. limit
  BY <1>1, LenProperties DEF TooOld, Series
<1>5. ASSUME NEW q \in Finished(s) PROVE q.start > p.start
  <2>1. PICK i \in 1 .. limit : q = s.done[i]
    BY <1>4, Zenon DEF Finished
  <2>2. i \in Nat /\ (i < limit \/ i = limit)
    OBVIOUS
  <2>3. PICK z \in Nat : z = Times(k, i)
    BY <2>2, TimesNat, Zenon
  <2>4. z < y \/ z = y
    BY <1>1, <2>2, <2>3, TimesLess, Zenon
  <2>5. q.start = x - z
    BY <1>2, <1>4, <2>1, <2>3, Zenon DEF InLine, Times
  <2>6. q.start > ago
    BY <1>3, <2>4, <2>5
  <2>7. QED BY <1>2, <2>6
<1>6. {q \in Finished(s) : q.start > p.start} = Finished(s)
  BY <1>5
<1>7. QED BY <1>6, FinishedCount, Zenon DEF TooOld

\* While the clock is not set back, no step takes a published period with requests
\* from its file until Keep newer ones have replaced it, however often a process
\* ends; but for what was published before a process that could not read its kind.
THEOREM RestartsAreNeutral == Spec => PublishedStable
<1>. DEFINE Stays(k, p) == \/ p \in ShownNext(k)
                          \/ Cardinality({q \in ShownNext(k) : q.start > p.start}) = Keep[k]
            Stable == back' = 0 => \A k \in Kinds \ lost : \A p \in Shown(k) : p.n > 0 => Stays(k, p)
<1>1. \A k \in Kinds : ShownNext(k) = Shown(k)'
  BY DEF ShownNext, Shown
<1>2. ASSUME UNCHANGED public PROVE Stable
  <2>1. \A k \in Kinds : ShownNext(k) = Shown(k)
    BY <1>2 DEF ShownNext, Shown
  <2>2. QED BY <2>1
<1>3. ASSUME IInv, NEW k \in Kinds, WriteFile(k) PROVE Stable
  <2>1. SUFFICES ASSUME back' = 0, NEW l \in Kinds \ lost, NEW p \in Shown(l), p.n > 0
                 PROVE  Stays(l, p)
    OBVIOUS
  <2>2. Types /\ Durable /\ pc # "down" /\ wall \in Nat
    BY <1>3, <2>1 DEF WriteFile, bounds, IInv, Types, TypeOK
  <2>3. Ended(l, p) /\ Has(series[l], l, p)
    <3>1. l \in Kinds /\ l \notin lost
      BY <2>1
    <3>2. QED BY <2>1, <2>2, <3>1, Zenon DEF Durable, Remembered
  <2>4. CASE l # k
    <3>1. Shown(l)' = Shown(l)
      BY <1>3, <2>2, <2>4, ShownAnew
    <3>2. QED BY <1>1, <3>1
  <2>5. CASE l = k
    <3>1. ShownNext(k) = Finished(series[k])
      BY <1>1, <1>3, <2>2, ShownAnew
    <3>2. CASE p \in Finished(series[k])
      BY <2>5, <3>1, <3>2
    <3>3. CASE TooOld(k, series[k], p)
      <4>1. series[k] \in Series /\ InLine(k, series[k], wall) /\ p \in Period
        BY <2>2, <2>3 DEF Types, Loaded, Durable, Lines, Ended
      <4>2. Cardinality({q \in Finished(series[k]) : q.start > p.start}) = Keep[k]
        BY <2>2, <3>3, <4>1, NewerOnes
      <4>3. QED BY <2>5, <3>1, <4>2
    <3>4. QED BY <2>3, <2>5, <3>2, <3>3 DEF Has
  <2>6. QED BY <2>4, <2>5
<1>4. IInv /\ [Next]_vars => Stable
  <2>1. SUFFICES ASSUME IInv, [Next]_vars PROVE Stable
    OBVIOUS
  <2>2. CASE \E k \in Kinds : WriteFile(k)
    BY <1>3, <2>1, <2>2
  <2>3. CASE ~ \E k \in Kinds : WriteFile(k)
    <3>1. UNCHANGED public
      BY <2>1, <2>3 DEF Next, Worker, Start, Add, Publish, WriteState, WriteStateFails,
         WriteFileFails, FilesWritten, CountPing, Signal, Crash, Tick, SetBack, vars
    <3>2. QED BY <1>2, <3>1
  <2>4. QED BY <2>2, <2>3
<1>5. IInv /\ [Next]_vars =>
        [back' = 0 => \A k \in Kinds \ lost : \A p \in Shown(k) :
           p.n > 0 => \/ p \in ShownNext(k)
                      \/ Cardinality({q \in ShownNext(k) : q.start > p.start}) = Keep[k]]_vars
  BY <1>4
<1>6. QED BY <1>5, Invariant, PTL DEF Spec, PublishedStable

\* While the clock is not set back, kinds whose periods fit each other count the
\* same requests: what the running hour has is what the running minute and the
\* finished minutes within the hour have, whatever was missed and restarted; after
\* a start that read only some kinds, from the next hour on.
THEOREM KindsCountTheSame == Spec => []KindsAgree
<1>. DEFINE Inv == IInv /\ (back = 0 => InStep)
<1>1. Init => Inv
  <2>1. Init => pc = "down" /\ disk = None
    BY DEF Init
  <2>2. QED BY <2>1, InitTypes, InitDurable, Zenon DEF IInv, InStep
<1>2. Inv /\ [Next]_vars => Inv'
  BY TypesKept, DurableKept, InStepKept DEF IInv
<1>3. Inv => KindsAgree
  BY Zenon DEF InStep, AllAgree, Agree, SameCount, KindsAgree
<1>4. QED BY <1>1, <1>2, <1>3, PTL DEF Spec

-----------------------------------------------------------------------------
(***************************************************************************)
(* The clients of a finished period (Estimates).                           *)
(***************************************************************************)
\* Every client is counted once: the two parts add up to the clients of both
\* families, and neither is negative, which an unsigned number could not show
\* (the subtractions of series.finished).
THEOREM PartsAddUp ==
  ASSUME NEW c \in Counts
  PROVE  /\ FreshClients(c) \in Nat
         /\ CachedClients(c) \in Nat
         /\ FreshClients(c) + CachedClients(c) = Total(c)
BY DEF Counts, FreshClients, CachedClients, AtMost, Total, Least, Most

\* The clients without a fresh answer never exceed the requests answered from
\* the cache, whatever the sketches estimate.
THEOREM CachedWithinRequests ==
  ASSUME NEW c \in Counts
  PROVE  CachedClients(c) <= c.cached
BY DEF Counts, FreshClients, CachedClients, AtMost, Total, Least, Most

\* The fresh clients exceed the fresh requests exactly when the sketches of the
\* families together estimate more clients than there were requests at all:
\* only then is "kept within what the exact request counts allow" impossible.
THEOREM FreshWithinRequests ==
  ASSUME NEW c \in Counts
  PROVE  FreshClients(c) <= c.fresh <=> Total(c) <= c.fresh + c.cached
<1>. DEFINE total == Total(c)
            most == AtMost(c)
<1>1. /\ c.fresh \in Nat /\ c.cached \in Nat /\ total \in Nat
      /\ most \in Nat /\ most <= total /\ most <= c.fresh
  BY DEF Counts, AtMost, Total, Least
<1>2. CASE c.cached < total
  <2>1. FreshClients(c) = Most(most, total - c.cached)
    BY <1>2 DEF FreshClients
  <2>2. Most(most, total - c.cached) <= c.fresh <=> total - c.cached <= c.fresh
    BY <1>1 DEF Most
  <2>3. QED BY <1>1, <2>1, <2>2
<1>3. CASE ~(c.cached < total)
  <2>1. FreshClients(c) = most
    BY <1>3 DEF FreshClients
  <2>2. QED BY <1>1, <1>3, <2>1
<1>4. QED BY <1>2, <1>3

-----------------------------------------------------------------------------
(***************************************************************************)
(* No request is counted twice.                                            *)
(***************************************************************************)
\* The requests that a kind knows of, in the finished periods and the running one.
InAll(s) == s.n + RequestsIn(s.done, DOMAIN s.done)

CountedOnce ==
  /\ pc # "down" => \A k \in Kinds : InAll(series[k]) + queue <= requests
  /\ disk # None => \A k \in Kinds : InAll(disk[k]) <= requests
  /\ \A k \in Kinds : public[k] # None => RequestsIn(public[k], DOMAIN public[k]) <= requests

\* The newest of a list of periods have no more requests than all of them.
LEMMA NewestHaveLess ==
  ASSUME NEW d, NEW e, NEW n \in Nat, NEW c \in 0 .. n,
         \A i \in 1 .. n : d[i].n \in Nat, \A i \in 1 .. c : e[i].n = d[i].n
  PROVE  /\ RequestsIn(d, 1 .. n) \in Nat /\ RequestsIn(e, 1 .. c) \in Nat
         /\ RequestsIn(e, 1 .. c) <= RequestsIn(d, 1 .. n)
<1>. DEFINE Less == {j \in Nat : j <= n =>
                       /\ RequestsIn(d, 1 .. j) \in Nat
                       /\ j <= c => RequestsIn(e, 1 .. j) = RequestsIn(d, 1 .. j)
                       /\ c <= j => /\ RequestsIn(e, 1 .. c) \in Nat
                                    /\ RequestsIn(e, 1 .. c) <= RequestsIn(d, 1 .. j)}
<1>1. 0 \in Less
  <2>1. 1 .. 0 = {}
    OBVIOUS
  <2>2. RequestsIn(d, 1 .. 0) = 0 /\ RequestsIn(e, 1 .. 0) = 0
    BY <2>1, NoRequests
  <2>3. c <= 0 => c = 0
    OBVIOUS
  <2>4. QED BY <2>2, <2>3
<1>2. ASSUME NEW j \in Nat, j \in Less PROVE j + 1 \in Less
  <2>1. SUFFICES ASSUME j + 1 <= n
                 PROVE  /\ RequestsIn(d, 1 .. j + 1) \in Nat
                        /\ j + 1 <= c => RequestsIn(e, 1 .. j + 1) = RequestsIn(d, 1 .. j + 1)
                        /\ c <= j + 1 => /\ RequestsIn(e, 1 .. c) \in Nat
                                         /\ RequestsIn(e, 1 .. c) <= RequestsIn(d, 1 .. j + 1)
    OBVIOUS
  <2>2. PICK had \in Nat : had = RequestsIn(d, 1 .. j)
    BY <1>2, <2>1
  <2>3. PICK more \in Nat : more = d[j + 1].n
    BY <2>1
  <2>4. RequestsIn(d, 1 .. j + 1) = more + had
    <3>1. Numbers(d, j + 1)
      BY <2>1 DEF Numbers
    <3>2. QED BY <2>2, <2>3, <3>1, OneOlder
  <2>5. ASSUME j + 1 <= c PROVE RequestsIn(e, 1 .. j + 1) = more + had
    <3>1. Numbers(e, j + 1) /\ e[j + 1].n = more
      BY <2>1, <2>3, <2>5 DEF Numbers
    <3>2. RequestsIn(e, 1 .. j) = had
      BY <1>2, <2>1, <2>2, <2>5
    <3>3. QED BY <3>1, <3>2, OneOlder
  <2>6. ASSUME c <= j + 1
        PROVE  RequestsIn(e, 1 .. c) \in Nat /\ RequestsIn(e, 1 .. c) <= more + had
    <3>1. CASE c = j + 1
      BY <2>5, <3>1
    <3>2. CASE c # j + 1
      <4>1. c <= j
        BY <2>6, <3>2
      <4>2. RequestsIn(e, 1 .. c) \in Nat /\ RequestsIn(e, 1 .. c) <= had
        BY <1>2, <2>1, <2>2, <4>1
      <4>3. QED BY <4>2
    <3>3. QED BY <3>1, <3>2
  <2>7. QED BY <2>4, <2>5, <2>6
<1>. HIDE DEF Less
<1>3. n \in Less
  BY <1>1, <1>2, Induction
<1>4. QED BY <1>3 DEF Less

LEMMA AllIsNumber ==
  ASSUME NEW s \in Series
  PROVE  /\ InAll(s) \in Nat /\ RequestsIn(s.done, DOMAIN s.done) \in Nat
         /\ RequestsIn(s.done, DOMAIN s.done) <= InAll(s)
<1>1. PICK n \in Nat : DOMAIN s.done = 1 .. n /\ \A i \in 1 .. n : s.done[i].n \in Nat
  <2>1. s.done \in Seq(Period)
    BY DEF Series
  <2>2. Len(s.done) \in Nat /\ DOMAIN s.done = 1 .. Len(s.done)
        /\ \A i \in 1 .. Len(s.done) : s.done[i] \in Period
    BY <2>1, LenProperties, ElementOfSeq
  <2>3. QED BY <2>2 DEF Period
<1>2. RequestsIn(s.done, DOMAIN s.done) \in Nat
  BY <1>1, NewestHaveLess
<1>3. s.n \in Nat
  BY DEF Series
<1>4. QED BY <1>2, <1>3 DEF InAll

\* Rolling a kind moves requests from the running period to a finished one, or
\* drops them with the oldest; it never counts one again, also when the clock
\* was set back before the start of the running period.
LEMMA RollCountsOnce ==
  ASSUME NEW s, NEW k \in Kinds, NEW t \in Nat, s[k] = None \/ WellFormed(k, s[k])
  PROVE  /\ RollKind(s, k, t) \in Series
         /\ s[k] = None => InAll(RollKind(s, k, t)) = 0
         /\ s[k] # None => InAll(RollKind(s, k, t)) <= InAll(s[k])
<1>1. PICK new \in Series : new = RollKind(s, k, t)
  BY RollTypes DEF WellFormed
<1>2. CASE s[k] = None
  <2>1. new = [start |-> StartOf(k, t), n |-> 0, done |-> << >>]
    BY <1>1, <1>2, RollNew
  <2>2. new.n = 0 /\ DOMAIN new.done = {}
    BY <2>1
  <2>3. InAll(new) = 0
    BY <2>2, NoRequests DEF InAll
  <2>4. QED BY <1>1, <1>2, <2>3
<1>3. CASE s[k] # None /\ ~Due(s, k, t)
  <2>1. new = s[k]
    BY <1>1, <1>3 DEF RollKind
  <2>2. InAll(new) \in Nat
    BY AllIsNumber
  <2>3. QED BY <1>1, <1>3, <2>1, <2>2
<1>4. CASE s[k] # None /\ Due(s, k, t)
  <2>1. PICK r \in Series : r = s[k]
    BY <1>4 DEF WellFormed
  <2>2. PICK to \in Nat : to = StartOf(k, t)
    BY Starts
  <2>3. PICK m \in Nat : m = Len(Missed(k, r.start, to))
    BY MissedPeriods, LenProperties DEF Series
  <2>4. PICK n \in Nat : /\ n = Len(r.done) /\ DOMAIN r.done = 1 .. n
                         /\ \A i \in 1 .. n : r.done[i].n \in Nat
    <3>1. r.done \in Seq(Period)
      BY DEF Series
    <3>2. Len(r.done) \in Nat /\ DOMAIN r.done = 1 .. Len(r.done)
          /\ \A i \in 1 .. Len(r.done) : r.done[i] \in Period
      BY <3>1, LenProperties, ElementOfSeq
    <3>3. QED BY <3>2 DEF Period
  <2>5. PICK all \in Seq(Period) : Joined(k, r, to, m, n, all)
    BY <2>3, <2>4, AllPeriods
  <2>6. PICK done \in Seq(Period) : done = NewestKept(k, all)
    BY Newest
  <2>7. new.n = 0 /\ new.done = done
    <3>1. new = [start |-> StartOf(k, t), n |-> 0, done |-> Done(s, k, t)]
      BY <1>1, <1>4 DEF RollKind
    <3>2. Done(s, k, t) = NewestKept(k, All(k, r, to))
      BY <1>4, <2>1, <2>2 DEF Done, All, Current
    <3>3. QED BY <2>5, <2>6, <3>1, <3>2 DEF Joined
  <2>8. r.n \in Nat
    BY DEF Series
  <2>9. Shifted(all, r.done, m, r.n, n)
    <3>1. \A i \in 1 .. m : all[i].n = 0
      <4>1. \A i \in 1 .. m : all[i] = [start |-> to - Times(k, i), n |-> 0]
        BY <2>5, Zenon DEF Joined
      <4>2. ASSUME NEW i \in 1 .. m PROVE all[i].n = 0
        <5>1. PICK x : x = to - Times(k, i)
          OBVIOUS
        <5>2. all[i] = [start |-> x, n |-> 0]
          BY <4>1, <5>1
        <5>3. QED BY <5>2
      <4>3. QED BY <4>2
    <3>2. all[m + 1] = Current(r)
      BY <2>5, Zenon DEF Joined
    <3>3. all[m + 1].n = r.n
      BY <3>2 DEF Current
    <3>4. \A j \in 1 .. n : all[m + 1 + j] = r.done[j]
      BY <2>5, Zenon DEF Joined
    <3>5. \A j \in 1 .. n : all[m + 1 + j].n = r.done[j].n
      BY <3>4, Zenon
    <3>6. QED BY <3>1, <3>3, <3>5, Zenon DEF Shifted
  <2>10. RequestsIn(all, 1 .. m + 1 + n) = r.n + RequestsIn(r.done, 1 .. n)
    <3>1. Numbers(r.done, n)
      BY <2>4 DEF Numbers
    <3>2. QED BY <2>8, <2>9, <3>1, ShiftedRequests
  <2>11. PICK len \in Nat : /\ len = m + 1 + n /\ len = Len(all)
                            /\ \A i \in 1 .. len : all[i].n \in Nat
    <3>1. PICK len \in Nat : len = m + 1 + n
      OBVIOUS
    <3>2. len = Len(all)
      BY <2>5, <3>1 DEF Joined
    <3>3. \A i \in 1 .. Len(all) : all[i] \in Period
      BY ElementOfSeq
    <3>4. QED BY <3>1, <3>2, <3>3 DEF Period
  <2>12. PICK c \in 0 .. len : DOMAIN done = 1 .. c /\ \A i \in 1 .. c : done[i].n = all[i].n
    <3>1. PICK c \in Nat : c = Len(done) /\ DOMAIN done = 1 .. c
      BY LenProperties
    <3>2. c = IF len <= Keep[k] THEN len ELSE Keep[k]
      BY <2>6, <2>11, <3>1, Newest
    <3>3. \A i \in 1 .. c : done[i] = all[i]
      BY <2>6, <3>1, Newest
    <3>4. Keep[k] \in Nat
      BY Constants
    <3>5. c \in 0 .. len
      BY <3>2, <3>4
    <3>6. QED BY <3>1, <3>3, <3>5
  <2>13. /\ RequestsIn(done, 1 .. c) \in Nat
         /\ RequestsIn(done, 1 .. c) <= RequestsIn(all, 1 .. len)
    BY <2>11, <2>12, NewestHaveLess
  <2>14. InAll(r) = RequestsIn(all, 1 .. len)
    BY <2>4, <2>10, <2>11 DEF InAll
  <2>15. InAll(new) = RequestsIn(done, 1 .. c)
    BY <2>7, <2>12, <2>13 DEF InAll
  <2>16. QED BY <1>1, <1>4, <2>1, <2>13, <2>14, <2>15
<1>5. QED BY <1>2, <1>3, <1>4

Once == CountedOnce /\ requests \in Nat

LEMMA OnceKept == Types /\ Once /\ [Next]_vars => Once'
<1>1. SUFFICES ASSUME Types, Once, [Next]_vars PROVE Once'
  OBVIOUS
<1>2. /\ wall \in Nat /\ queue \in Nat /\ requests \in Nat
      /\ \A k \in Kinds : series[k] = None \/ WellFormed(k, series[k])
  BY <1>1, UsageAssumption DEF Types, TypeOK, Once
<1>3. /\ pc # "down" => \A k \in Kinds : InAll(series[k]) + queue <= requests
      /\ disk # None => \A k \in Kinds : InAll(disk[k]) <= requests
      /\ \A k \in Kinds : public[k] # None => RequestsIn(public[k], DOMAIN public[k]) <= requests
  BY <1>1 DEF Once, CountedOnce
<1>4. pc # "down" => \A k \in Kinds : series[k] \in Series /\ series[k] # None /\ InAll(series[k]) \in Nat
  BY <1>1, AllIsNumber, SeriesIsSomething DEF Types, Loaded
<1>5. disk # None => \A k \in Kinds : disk[k] \in Series /\ InAll(disk[k]) \in Nat
  BY <1>1, AllIsNumber DEF Types, TypeOK, WellFormed
\* The three parts, from what is left alone.
<1>6. ASSUME requests' \in Nat, requests <= requests', disk' = disk, public' = public
      PROVE  /\ disk' # None => \A k \in Kinds : InAll(disk'[k]) <= requests'
             /\ \A k \in Kinds : public'[k] # None => RequestsIn(public'[k], DOMAIN public'[k]) <= requests'
  <2>1. ASSUME disk' # None, NEW k \in Kinds PROVE InAll(disk'[k]) <= requests'
    BY <1>2, <1>3, <1>5, <1>6, <2>1
  <2>2. ASSUME NEW k \in Kinds, public'[k] # None
        PROVE  RequestsIn(public'[k], DOMAIN public'[k]) <= requests'
    <3>1. public[k] \in Seq(Period)
      BY <1>1, <1>6, <2>2 DEF Types, TypeOK, KeptPeriods
    <3>2. /\ Len(public[k]) \in Nat /\ DOMAIN public[k] = 1 .. Len(public[k])
          /\ \A i \in 1 .. Len(public[k]) : public[k][i].n \in Nat
      <4>1. PICK d \in Seq(Period) : d = public[k]
        BY <3>1
      <4>2. \A i \in 1 .. Len(d) : d[i] \in Period
        BY ElementOfSeq
      <4>3. \A i \in 1 .. Len(d) : d[i].n \in Nat
        BY <4>2 DEF Period
      <4>4. Len(d) \in Nat /\ DOMAIN d = 1 .. Len(d)
        BY LenProperties
      <4>5. QED BY <4>1, <4>3, <4>4
    <3>3. PICK n \in Nat : /\ DOMAIN public[k] = 1 .. n
                           /\ \A i \in 1 .. n : public[k][i].n \in Nat
      BY <3>2
    <3>4. RequestsIn(public[k], DOMAIN public[k]) \in Nat
      BY <3>3, NewestHaveLess
    <3>5. QED BY <1>2, <1>3, <1>6, <2>2, <3>4
  <2>3. QED BY <2>1, <2>2
<1>7. CASE Start
  <2>1. PICK unread \in SUBSET Kinds : \A k \in Kinds : series'[k] = RollKind(Load(unread), k, wall)
    BY <1>7, Started, Zenon
  <2>2. ASSUME NEW k \in Kinds PROVE InAll(series'[k]) <= requests
    <3>1. /\ Load(unread)[k] = None \/ WellFormed(k, Load(unread)[k])
          /\ disk = None \/ k \in unread => Load(unread)[k] = None
          /\ disk # None /\ k \notin unread => Load(unread)[k] = disk[k] /\ Load(unread)[k] # None
      BY <1>1, LoadTypes, Zenon DEF Types
    <3>2. PICK new \in Series :
            /\ new = RollKind(Load(unread), k, wall)
            /\ Load(unread)[k] = None => InAll(new) = 0
            /\ Load(unread)[k] # None => InAll(new) <= InAll(Load(unread)[k])
      BY <1>2, <3>1, RollCountsOnce, Zenon
    <3>3. series'[k] = new /\ InAll(new) \in Nat
      BY <2>1, <3>2, AllIsNumber
    <3>4. CASE disk = None \/ k \in unread
      BY <1>2, <3>1, <3>2, <3>3, <3>4
    <3>5. CASE disk # None /\ k \notin unread
      <4>1. InAll(new) <= InAll(disk[k]) /\ InAll(disk[k]) <= requests /\ InAll(disk[k]) \in Nat
        BY <1>3, <1>5, <3>1, <3>2, <3>5, Zenon
      <4>2. QED BY <1>2, <3>3, <4>1
    <3>6. QED BY <3>4, <3>5
  <2>3. ASSUME NEW k \in Kinds PROVE InAll(series'[k]) \in Nat
    BY <1>7, AllIsNumber, TypesKept, <1>1 DEF Start, Types, Loaded
  <2>4. queue' = 0 /\ requests' = requests /\ disk' = disk /\ public' = public
    BY <1>7 DEF Start
  <2>5. \A k \in Kinds : InAll(series'[k]) + queue' <= requests'
    BY <1>2, <2>2, <2>3, <2>4
  <2>6. QED BY <1>2, <1>6, <2>4, <2>5 DEF Once, CountedOnce, InAll
<1>8. ASSUME pc # "down", NEW k \in Kinds
      PROVE  /\ RollKind(series, k, wall) \in Series /\ InAll(RollKind(series, k, wall)) \in Nat
             /\ InAll(RollKind(series, k, wall)) + queue <= requests
  <2>1. RollKind(series, k, wall) \in Series /\ InAll(RollKind(series, k, wall)) <= InAll(series[k])
    BY <1>2, <1>4, <1>8, RollCountsOnce
  <2>2. InAll(RollKind(series, k, wall)) \in Nat
    BY <2>1, AllIsNumber
  <2>3. QED BY <1>2, <1>3, <1>4, <1>8, <2>1, <2>2
<1>9. CASE Add
  <2>1. pc # "down" /\ queue > 0 /\ queue' = queue - 1
        /\ requests' = requests /\ disk' = disk /\ public' = public
    BY <1>9 DEF Add, bounds
  <2>2. ASSUME NEW k \in Kinds PROVE InAll(series'[k]) + queue' <= requests'
    <3>1. PICK r \in Series : r = RollKind(series, k, wall)
      BY <1>8, <2>1
    <3>2. series'[k] = Counted(r)
      BY <1>9, <3>1 DEF Add, RollSeries, Counted
    <3>3. Counted(r).n = r.n + 1 /\ Counted(r).done = r.done /\ r.n \in Nat
      BY DEF Counted, Series
    <3>4. InAll(Counted(r)) = InAll(r) + 1
      <4>1. PICK c \in Nat, x \in Nat : c = RequestsIn(r.done, DOMAIN r.done) /\ x = r.n
        BY <3>3, AllIsNumber
      <4>2. InAll(r) = x + c /\ InAll(Counted(r)) = (x + 1) + c
        BY <3>3, <4>1 DEF InAll
      <4>3. QED BY <4>1, <4>2
    <3>5. PICK y \in Nat : y = InAll(r) /\ y + queue <= requests
      BY <1>8, <2>1, <3>1
    <3>6. InAll(series'[k]) = y + 1
      BY <3>2, <3>4, <3>5
    <3>7. QED BY <1>2, <2>1, <3>5, <3>6
  <2>3. QED BY <1>2, <1>6, <2>1, <2>2 DEF Once, CountedOnce, InAll
<1>10. CASE Publish
  <2>1. pc # "down" /\ queue' = queue /\ requests' = requests /\ disk' = disk /\ public' = public
    BY <1>10 DEF Publish, bounds
  <2>2. ASSUME NEW k \in Kinds PROVE InAll(series'[k]) + queue' <= requests'
    <3>1. series'[k] = RollKind(series, k, wall)
      BY <1>10 DEF Publish, RollSeries
    <3>2. QED BY <1>8, <2>1, <3>1
  <2>3. QED BY <1>2, <1>6, <2>1, <2>2 DEF Once, CountedOnce, InAll
<1>11. CASE WriteState
  <2>1. pc # "down" /\ queue' = queue /\ requests' = requests /\ series' = series
        /\ public' = public /\ (disk' = series \/ disk' = disk)
    BY <1>11 DEF WriteState, bounds
  <2>2. CASE disk' = disk
    BY <1>2, <1>3, <1>6, <2>1, <2>2 DEF Once, CountedOnce, InAll
  <2>3. CASE disk' = series
    <3>1. \A k \in Kinds : InAll(disk'[k]) <= requests'
      BY <1>2, <1>3, <1>4, <2>1, <2>3
    <3>2. QED BY <1>2, <1>3, <2>1, <3>1 DEF Once, CountedOnce, InAll
  <2>4. QED BY <2>1, <2>2, <2>3
<1>12. ASSUME NEW l \in Kinds, WriteFile(l) PROVE Once'
  <2>1. pc # "down" /\ queue' = queue /\ requests' = requests /\ series' = series /\ disk' = disk
    BY <1>12 DEF WriteFile, bounds
  <2>2. ASSUME NEW k \in Kinds, public'[k] # None
        PROVE  RequestsIn(public'[k], DOMAIN public'[k]) <= requests'
    <3>1. CASE k = l
      <4>1. public'[k] = series[k].done
        BY <1>1, <1>12, <3>1 DEF WriteFile, Types, Loaded
      <4>2. /\ RequestsIn(series[k].done, DOMAIN series[k].done) <= InAll(series[k])
            /\ RequestsIn(series[k].done, DOMAIN series[k].done) \in Nat
            /\ InAll(series[k]) \in Nat /\ InAll(series[k]) + queue <= requests
        BY <1>3, <1>4, <2>1, AllIsNumber
      <4>3. QED BY <1>2, <2>1, <4>1, <4>2
    <3>2. CASE k # l
      <4>1. public'[k] = public[k]
        BY <1>1, <1>12, <3>2 DEF WriteFile, Types, Loaded
      <4>2. QED BY <1>3, <2>1, <2>2, <4>1
    <3>3. QED BY <3>1, <3>2
  <2>3. QED BY <1>2, <1>3, <2>1, <2>2 DEF Once, CountedOnce, InAll
<1>13. CASE CountPing
  <2>1. pc # "down" /\ requests' = requests + 1 /\ queue' \in Nat /\ queue' <= queue + 1
        /\ series' = series /\ disk' = disk /\ public' = public
    BY <1>2, <1>13 DEF CountPing
  <2>2. requests' \in Nat /\ requests <= requests'
    BY <1>2, <2>1
  <2>3. \A k \in Kinds : InAll(series'[k]) + queue' <= requests'
    BY <1>2, <1>3, <1>4, <2>1
  <2>4. QED BY <1>6, <2>1, <2>2, <2>3 DEF Once, CountedOnce, InAll
<1>14. ASSUME pc' = "down", UNCHANGED <<disk, public, requests>> PROVE Once'
  BY <1>2, <1>3, <1>14 DEF Once, CountedOnce
<1>15. ASSUME UNCHANGED <<queue, series, disk, public, requests>>, pc' # "down" => pc # "down"
       PROVE  Once'
  BY <1>2, <1>3, <1>15 DEF Once, CountedOnce, InAll
<1>16. CASE WriteStateFails \/ WriteFileFails \/ FilesWritten \/ Crash
  <2>1. UNCHANGED <<disk, public, requests>> /\ pc # "down" /\ (Return \/ ProcessEnds)
    BY <1>16 DEF WriteStateFails, WriteFileFails, FilesWritten, Crash, bounds
  <2>2. CASE ProcessEnds
    BY <1>14, <2>1, <2>2 DEF ProcessEnds
  <2>3. CASE UNCHANGED <<queue, series>>
    BY <1>15, <2>1, <2>3
  <2>4. QED BY <1>1, <2>1, <2>2, <2>3, Returns
<1>17. CASE Signal \/ Tick \/ SetBack \/ UNCHANGED vars
  BY <1>15, <1>17 DEF Signal, Tick, SetBack, bounds, vars
<1>18. QED
  BY <1>1, <1>7, <1>9, <1>10, <1>11, <1>12, <1>13, <1>16, <1>17 DEF Next, Worker

\* No request is counted twice, in the worker's memory, in the state on disk or in
\* a published file: what waits in the queue and what a kind has in its running
\* and its finished periods is never more than the requests there were, wherever
\* a write fails or the process dies, and also with the clock set back.
THEOREM NothingCountedTwice == Spec => []CountedOnce
<1>1. Init => Once
  BY DEF Init, Once, CountedOnce
<1>2. IInv /\ Once /\ [Next]_vars => Once'
  BY OnceKept DEF IInv
<1>3. Once => CountedOnce
  BY DEF Once
<1>4. QED BY <1>1, <1>2, <1>3, Invariant, PTL DEF Spec

\* A published file is behind the worker only while it is due, and it is written
\* again within the minute: rolling a kind makes its file due in the same step,
\* and the timer is never set further ahead, also with the clock set back.
FilesCurrent ==
  /\ pc # "down" => \A k \in Kinds \ rolled : public[k] = series[k].done
  /\ nextAt <= wall + 1

LEMMA CurrentKept == Types /\ FilesCurrent /\ [Next]_vars => FilesCurrent'
<1>1. SUFFICES ASSUME Types, FilesCurrent, [Next]_vars PROVE FilesCurrent'
  OBVIOUS
<1>2. /\ wall \in Nat /\ nextAt \in Nat /\ MaxTime \in Nat /\ nextAt <= wall + 1
      /\ \A k \in Kinds : series[k] = None \/ WellFormed(k, series[k])
  BY <1>1, UsageAssumption DEF Types, TypeOK, FilesCurrent
<1>3. pc # "down" => \A k \in Kinds \ rolled : public[k] = series[k].done
  BY <1>1 DEF FilesCurrent
<1>4. CASE Start
  BY <1>2, <1>4 DEF Start, FilesCurrent
\* A kind that is not made due keeps its finished periods.
<1>5. ASSUME pc # "down", NEW k \in Kinds, k \notin RollsAt(series, wall)
      PROVE  RollKind(series, k, wall) = series[k]
  BY <1>5 DEF RollsAt, RollKind
<1>6. CASE Add
  <2>1. pc # "down" /\ rolled' = rolled \cup RollsAt(series, wall)
        /\ UNCHANGED <<wall, nextAt, public>>
    BY <1>6 DEF Add
  <2>2. ASSUME NEW k \in Kinds \ rolled' PROVE public'[k] = series'[k].done
    <3>1. series'[k] = Counted(RollKind(series, k, wall))
      BY <1>6 DEF Add, RollSeries, Counted
    <3>2. series'[k] = Counted(series[k]) /\ series[k] \in Series
      BY <1>1, <1>5, <2>1, <2>2, <3>1 DEF Types, Loaded
    <3>3. series'[k].done = series[k].done
      BY <3>2, CountedSame
    <3>4. QED BY <1>3, <2>1, <2>2, <3>3
  <2>3. QED BY <1>2, <2>1, <2>2 DEF FilesCurrent
<1>7. CASE Publish
  <2>1. pc # "down" /\ rolled' = rolled \cup RollsAt(series, wall)
        /\ UNCHANGED <<wall, nextAt, public>>
    BY <1>7 DEF Publish
  <2>2. ASSUME NEW k \in Kinds \ rolled' PROVE public'[k] = series'[k].done
    <3>1. series'[k] = RollKind(series, k, wall)
      BY <1>7 DEF Publish, RollSeries
    <3>2. QED BY <1>3, <1>5, <2>1, <2>2, <3>1
  <2>3. QED BY <1>2, <2>1, <2>2 DEF FilesCurrent
<1>8. ASSUME UNCHANGED <<series, public, rolled>>, pc' # "down" => pc # "down",
             nextAt' <= wall' + 1
      PROVE  FilesCurrent'
  BY <1>3, <1>8 DEF FilesCurrent
<1>9. CASE WriteStateFails \/ WriteFileFails \/ FilesWritten \/ Crash
  <2>1. /\ Return \/ ProcessEnds
        /\ pc # "down" /\ UNCHANGED <<wall, public, rolled>>
    BY <1>9 DEF WriteStateFails, WriteFileFails, FilesWritten, Crash
  <2>2. CASE ProcessEnds
    BY <1>2, <2>1, <2>2 DEF ProcessEnds, FilesCurrent
  <2>3. CASE nextAt' <= wall + 1 /\ UNCHANGED series
    BY <1>8, <2>1, <2>3
  <2>4. QED BY <1>1, <2>1, <2>2, <2>3, Returns
<1>10. ASSUME NEW l \in Kinds, WriteFile(l) PROVE FilesCurrent'
  <2>1. pc # "down" /\ rolled' = rolled \ {l} /\ UNCHANGED <<wall, nextAt, series>>
    BY <1>10 DEF WriteFile
  <2>2. ASSUME NEW k \in Kinds \ rolled' PROVE public'[k] = series'[k].done
    BY <1>1, <1>3, <1>10, <2>1, <2>2 DEF WriteFile, Types, Loaded
  <2>3. QED BY <1>2, <2>1, <2>2 DEF FilesCurrent
<1>11. CASE WriteState \/ CountPing \/ Signal \/ UNCHANGED vars
  BY <1>2, <1>8, <1>11 DEF WriteState, CountPing, Signal, vars
<1>12. CASE Tick
  BY <1>2, <1>8, <1>12 DEF Tick
<1>13. CASE SetBack
  <2>1. wall' = wall - 1 /\ wall > 0 /\ nextAt' = (IF nextAt > 0 THEN nextAt - 1 ELSE 0)
        /\ UNCHANGED <<series, public, rolled, pc>>
    BY <1>13 DEF SetBack
  <2>2. nextAt' <= wall' + 1
    BY <1>2, <2>1
  <2>3. QED BY <1>8, <2>1, <2>2
<1>14. QED
  BY <1>1, <1>4, <1>6, <1>7, <1>9, <1>10, <1>11, <1>12, <1>13 DEF Next, Worker

\* The files are those of the worker's periods, but for those that are due.
THEOREM FilesAreCurrent == Spec => []FilesCurrent
<1>1. Init => FilesCurrent
  BY DEF Init, FilesCurrent
<1>2. IInv /\ FilesCurrent /\ [Next]_vars => FilesCurrent'
  BY CurrentKept DEF IInv
<1>3. QED BY <1>1, <1>2, Invariant, PTL DEF Spec
=============================================================================
