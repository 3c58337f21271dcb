------------------------- MODULE PingServiceProofs -------------------------
(***************************************************************************)
(* Proofs about PingService, for every number of requests, keys, slots,    *)
(* cache entries and every value of the timeouts.                          *)
(***************************************************************************)
EXTENDS PingService, TLAPS, FiniteSetTheorems

\* What a handler has at each point of its way: a key from "get" on, an entry
\* only if it inserted one, and a ready entry only behind a finished probe.
Control ==
  \A r \in Requests :
    /\ pc[r] \in {"get", "wait", "slot", "probe", "store"} => key[r] \in Keys
    /\ pc[r] = "wait" => waitsOn[r] \in Requests
    /\ pc[r] = "store" => r \in owners /\ result[r] \in Results
    /\ r \in owners => key[r] \in Keys /\ pc[r] \in {"slot", "probe", "store", "done"}
    /\ r \in owners /\ pc[r] = "done" => entry[r].ready
    /\ entry[r].ready =>
         r \in owners /\ pc[r] = "done" /\ result[r] \in Results /\ entry[r].res = result[r]

\* Nobody starts or stores a probe after the end of its own context, so an
\* entry is not younger than the probe it holds.
OnTime ==
  \A r \in Requests :
    /\ pc[r] \in {"get", "slot", "probe", "store"} => now <= deadline[r]
    /\ entry[r].ready => entry[r].at <= deadline[r]

IInv ==
  /\ TypeOK
  /\ Control
  /\ OnTime
  /\ SlotsAccounted
  /\ PendingStays
  /\ WaiterIsServed
  /\ BusyNotCached
  /\ CacheBounded

-----------------------------------------------------------------------------
LEMMA HoldsSlotFinite == IsFiniteSet(HoldsSlot) /\ Cardinality(HoldsSlot) \in Nat
<1>1. HoldsSlot \subseteq Requests
  BY DEF HoldsSlot
<1>2. QED
  BY <1>1, FS_Subset, FS_CardinalityType, ConstantsAssumption

\* One more handler between acquireSlot and releaseSlot.
LEMMA OneMoreSlot ==
  ASSUME TypeOK, SlotsAccounted, NEW r \in Requests, AcquireSlot,
         pc[r] \notin {"lookup", "probe"},
         NEW to \in {"lookup", "probe"}, pc' = [pc EXCEPT ![r] = to]
  PROVE  SlotsAccounted' /\ inFlight' \in Nat
<1>1. HoldsSlot' = HoldsSlot \cup {r} /\ r \notin HoldsSlot
  BY DEF HoldsSlot, TypeOK
<1>2. Cardinality(HoldsSlot') = Cardinality(HoldsSlot) + 1
  BY <1>1, HoldsSlotFinite, FS_AddElement
<1>3. QED
  BY <1>2, HoldsSlotFinite, ConstantsAssumption DEF SlotsAccounted, AcquireSlot, SlotFree

\* One handler leaves, and its token was in the channel.
LEMMA OneSlotLess ==
  ASSUME TypeOK, SlotsAccounted, NEW r \in Requests, ReleaseSlot,
         pc[r] \in {"lookup", "probe"},
         NEW to \in PCs \ {"lookup", "probe"}, pc' = [pc EXCEPT ![r] = to]
  PROVE  SlotsAccounted' /\ inFlight' \in Nat
<1>1. HoldsSlot' = HoldsSlot \ {r} /\ r \in HoldsSlot
  BY DEF HoldsSlot, TypeOK
<1>2. Cardinality(HoldsSlot') = Cardinality(HoldsSlot) - 1 /\ Cardinality(HoldsSlot') \in Nat
  BY <1>1, HoldsSlotFinite, FS_RemoveElement, FS_CardinalityType
<1>3. QED
  BY <1>2, HoldsSlotFinite, ConstantsAssumption DEF SlotsAccounted, ReleaseSlot

\* Nobody enters or leaves.
LEMMA SameSlots ==
  ASSUME SlotsAccounted, inFlight' = inFlight, HoldsSlot' = HoldsSlot
  PROVE  SlotsAccounted'
BY DEF SlotsAccounted

LEMMA CachedFinite == IsFiniteSet(Cached) /\ Cardinality(Cached) \in Nat
<1>1. Cached \subseteq Keys
  BY DEF Cached
<1>2. QED
  BY <1>1, FS_Subset, FS_CardinalityType, ConstantsAssumption

\* A map that loses entries stays within its bound.
LEMMA FewerCached ==
  ASSUME CacheBounded, Cached' \subseteq Cached
  PROVE  CacheBounded'
<1>1. Cardinality(Cached') <= Cardinality(Cached) /\ Cardinality(Cached') \in Nat
  BY CachedFinite, FS_Subset, FS_CardinalityType
<1>2. QED
  BY <1>1, CachedFinite, ConstantsAssumption DEF CacheBounded

-----------------------------------------------------------------------------
LEMMA InitIInv == Init => IInv
<1> SUFFICES ASSUME Init PROVE IInv
  OBVIOUS
<1>1. TypeOK /\ Control /\ OnTime /\ PendingStays /\ WaiterIsServed /\ BusyNotCached
  BY ConstantsAssumption DEF Init, TypeOK, Control, OnTime, PendingStays, WaiterIsServed,
     BusyNotCached, Filling, NoEntry, Entry, NoAnswer, Answer, AnswerKinds, PCs
<1>2. SlotsAccounted
  <2>1. HoldsSlot = {}
    BY DEF Init, HoldsSlot
  <2>2. QED
    BY <2>1, FS_EmptySet, ConstantsAssumption DEF Init, SlotsAccounted
<1>3. CacheBounded
  <2>1. Cached = {}
    BY DEF Init, Cached
  <2>2. QED
    BY <2>1, FS_EmptySet, ConstantsAssumption DEF CacheBounded
<1>4. QED
  BY <1>1, <1>2, <1>3 DEF IInv

\* The slot count: five kinds of step take or release a slot, the others leave
\* the handlers that hold one alone.
LEMMA SlotsStep == ASSUME IInv, [Next]_vars PROVE SlotsAccounted' /\ inFlight' \in Nat
<1> USE DEF IInv
<1>1. ASSUME NEW r \in Requests, HandleLiteral(r) PROVE SlotsAccounted' /\ inFlight' \in Nat
  BY <1>1, SameSlots DEF HandleLiteral, Goto, MakeKey, cacheVars, HoldsSlot, TypeOK
<1>2. ASSUME NEW r \in Requests, HandleHost(r) PROVE SlotsAccounted' /\ inFlight' \in Nat
  BY <1>2, OneMoreSlot DEF HandleHost, Goto, cacheVars
<1>3. ASSUME NEW r \in Requests, HandleHostBusy(r) PROVE SlotsAccounted' /\ inFlight' \in Nat
  BY <1>3, SameSlots DEF HandleHostBusy, Goto, cacheVars, HoldsSlot, TypeOK
<1>4. ASSUME NEW r \in Requests, LeaveSRV(r) PROVE SlotsAccounted' /\ inFlight' \in Nat
  BY <1>4, SameSlots DEF LeaveSRV, Goto, Reply, cacheVars, HoldsSlot, TypeOK
<1>5. ASSUME NEW r \in Requests, StrayEnds(r) PROVE SlotsAccounted' /\ inFlight' \in Nat
  BY <1>5, SameSlots DEF StrayEnds, cacheVars, HoldsSlot, TypeOK
<1>6. ASSUME NEW r \in Requests, LookupFound(r) PROVE SlotsAccounted' /\ inFlight' \in Nat
  BY <1>6, OneSlotLess DEF LookupFound, Goto, MakeKey, ReleaseSlot, cacheVars, PCs
<1>7. ASSUME NEW r \in Requests, LookupFailed(r) PROVE SlotsAccounted' /\ inFlight' \in Nat
  BY <1>7, OneSlotLess DEF LookupFailed, Goto, ReleaseSlot, cacheVars, PCs
<1>8. ASSUME NEW r \in Requests, GetHit(r) PROVE SlotsAccounted' /\ inFlight' \in Nat
  BY <1>8, SameSlots DEF GetHit, Goto, cacheVars, HoldsSlot, TypeOK
<1>9. ASSUME NEW r \in Requests, GetWait(r) PROVE SlotsAccounted' /\ inFlight' \in Nat
  BY <1>9, SameSlots DEF GetWait, Goto, HoldsSlot, TypeOK
<1>10. ASSUME NEW r \in Requests, GetUncached(r) PROVE SlotsAccounted' /\ inFlight' \in Nat
  BY <1>10, SameSlots DEF GetUncached, Goto, cacheVars, HoldsSlot, TypeOK
<1>11. ASSUME NEW r \in Requests, GetInsert(r) PROVE SlotsAccounted' /\ inFlight' \in Nat
  BY <1>11, SameSlots DEF GetInsert, Goto, HoldsSlot, TypeOK
<1>12. ASSUME NEW r \in Requests, ProbeBusy(r) PROVE SlotsAccounted' /\ inFlight' \in Nat
  BY <1>12, SameSlots DEF ProbeBusy, Return, HoldsSlot, TypeOK
<1>13. ASSUME NEW r \in Requests, ProbeStart(r) PROVE SlotsAccounted' /\ inFlight' \in Nat
  BY <1>13, OneMoreSlot DEF ProbeStart, Goto, cacheVars
<1>14. ASSUME NEW r \in Requests, ProbeEnd(r) PROVE SlotsAccounted' /\ inFlight' \in Nat
  BY <1>14, OneSlotLess DEF ProbeEnd, Return, PCs
<1>15. ASSUME NEW r \in Requests, Store(r) PROVE SlotsAccounted' /\ inFlight' \in Nat
  BY <1>15, SameSlots DEF Store, Goto, HoldsSlot, TypeOK
<1>16. ASSUME NEW r \in Requests, WaitReady(r) PROVE SlotsAccounted' /\ inFlight' \in Nat
  BY <1>16, SameSlots DEF WaitReady, Goto, cacheVars, HoldsSlot, TypeOK
<1>17. ASSUME NEW r \in Requests, WaitTimeout(r) PROVE SlotsAccounted' /\ inFlight' \in Nat
  BY <1>17, SameSlots DEF WaitTimeout, Goto, cacheVars, HoldsSlot, TypeOK
<1>18. ASSUME Sweep PROVE SlotsAccounted' /\ inFlight' \in Nat
  BY <1>18, SameSlots DEF Sweep, HoldsSlot, TypeOK
<1>19. ASSUME Tick PROVE SlotsAccounted' /\ inFlight' \in Nat
  BY <1>19, SameSlots DEF Tick, HoldsSlot, TypeOK
<1>20. ASSUME UNCHANGED vars PROVE SlotsAccounted' /\ inFlight' \in Nat
  BY <1>20, SameSlots DEF vars, HoldsSlot, TypeOK
<1>21. QED
  BY <1>1, <1>2, <1>3, <1>4, <1>5, <1>6, <1>7, <1>8, <1>9, <1>10, <1>11, <1>12, <1>13, <1>14, <1>15, <1>16, <1>17, <1>18, <1>19, <1>20 DEF Next, Arrive, Handler

\* Every step keeps every variable in its type; the key and the entry an action looks
\* up are there because of Control.
LEMMA TypeStep == ASSUME IInv, [Next]_vars PROVE TypeOK'
<1> USE DEF IInv, TypeOK, Control
<1>1. ASSUME NEW r \in Requests, HandleLiteral(r) PROVE TypeOK'
  BY <1>1, ConstantsAssumption DEF HandleLiteral, Goto, MakeKey, cacheVars, PCs
<1>2. ASSUME NEW r \in Requests, HandleHost(r) PROVE TypeOK'
  BY <1>2, SlotsStep DEF HandleHost, Goto, cacheVars, PCs
<1>3. ASSUME NEW r \in Requests, HandleHostBusy(r) PROVE TypeOK'
  BY <1>3 DEF HandleHostBusy, Goto, Reply, cacheVars, PCs, Answer, AnswerKinds
<1>4. ASSUME NEW r \in Requests, LeaveSRV(r) PROVE TypeOK'
  BY <1>4 DEF LeaveSRV, cacheVars
<1>5. ASSUME NEW r \in Requests, StrayEnds(r) PROVE TypeOK'
  BY <1>5 DEF StrayEnds, cacheVars
<1>6. ASSUME NEW r \in Requests, LookupFound(r) PROVE TypeOK'
  BY <1>6, SlotsStep, ConstantsAssumption DEF LookupFound, Goto, MakeKey, cacheVars, PCs
<1>7. ASSUME NEW r \in Requests, LookupFailed(r) PROVE TypeOK'
  BY <1>7, SlotsStep DEF LookupFailed, Goto, Reply, cacheVars, PCs, Answer, AnswerKinds
<1>8. ASSUME NEW r \in Requests, GetHit(r) PROVE TypeOK'
  BY <1>8 DEF GetHit, Goto, Reply, Found, cacheVars, PCs, Answer, AnswerKinds
<1>9. ASSUME NEW r \in Requests, GetWait(r) PROVE TypeOK'
  BY <1>9 DEF GetWait, Goto, Found, PCs
<1>10. ASSUME NEW r \in Requests, GetUncached(r) PROVE TypeOK'
  BY <1>10 DEF GetUncached, Goto, cacheVars, PCs
<1>11. ASSUME NEW r \in Requests, GetInsert(r) PROVE TypeOK'
  BY <1>11 DEF GetInsert, Goto, NoEntry, PCs, Entry
<1>12. ASSUME NEW r \in Requests, ProbeBusy(r) PROVE TypeOK'
  <2>1. CASE r \in owners
    BY <1>12, <2>1 DEF ProbeBusy, Return, PCs, Results
  <2>2. CASE r \notin owners
    <3>1. answer' \in [Requests -> Answer]
      BY <1>12, <2>2 DEF ProbeBusy, Return, Reply, Answer, AnswerKinds
    <3>2. QED
      BY <1>12, <2>2, <3>1 DEF ProbeBusy, Return, PCs, Results
  <2>3. QED
    BY <2>1, <2>2
<1>13. ASSUME NEW r \in Requests, ProbeStart(r) PROVE TypeOK'
  BY <1>13, SlotsStep DEF ProbeStart, Goto, cacheVars, PCs
<1>14. ASSUME NEW r \in Requests, ProbeEnd(r) PROVE TypeOK'
  <2>1. CASE r \in owners
    BY <1>14, <2>1, SlotsStep DEF ProbeEnd, Return, PCs, Results
  <2>2. CASE r \notin owners
    <3>1. answer' \in [Requests -> Answer]
      BY <1>14, <2>2 DEF ProbeEnd, Return, Reply, Answer, AnswerKinds
    <3>2. QED
      BY <1>14, <2>2, <3>1, SlotsStep DEF ProbeEnd, Return, PCs, Results
  <2>3. QED
    BY <2>1, <2>2
<1>15. ASSUME NEW r \in Requests, Store(r) PROVE TypeOK'
  BY <1>15 DEF Store, Goto, Reply, PCs, Entry, Answer, AnswerKinds
<1>16. ASSUME NEW r \in Requests, WaitReady(r) PROVE TypeOK'
  BY <1>16 DEF WaitReady, Goto, Reply, cacheVars, Answer, AnswerKinds
<1>17. ASSUME NEW r \in Requests, WaitTimeout(r) PROVE TypeOK'
  BY <1>17 DEF WaitTimeout, Goto, Reply, cacheVars, PCs, Answer, AnswerKinds
<1>18. ASSUME Sweep PROVE TypeOK'
  BY <1>18 DEF Sweep
<1>19. ASSUME Tick PROVE TypeOK'
  BY <1>19 DEF Tick, cacheVars
<1>20. ASSUME UNCHANGED vars PROVE TypeOK'
  BY <1>20 DEF vars
<1>21. QED
  BY <1>1, <1>2, <1>3, <1>4, <1>5, <1>6, <1>7, <1>8, <1>9, <1>10, <1>11, <1>12, <1>13, <1>14, <1>15, <1>16, <1>17, <1>18, <1>19, <1>20 DEF Next, Arrive, Handler

\* A handler moves on with what the next point of its way asks for.
LEMMA ControlStep == ASSUME IInv, [Next]_vars PROVE Control'
<1> USE DEF IInv, TypeOK, Control, PendingStays
<1>1. ASSUME NEW r \in Requests, HandleLiteral(r) PROVE Control'
  BY <1>1 DEF HandleLiteral, Goto, MakeKey, cacheVars
<1>2. ASSUME NEW r \in Requests, HandleHost(r) PROVE Control'
  BY <1>2 DEF HandleHost, Goto, cacheVars
<1>3. ASSUME NEW r \in Requests, HandleHostBusy(r) PROVE Control'
  BY <1>3 DEF HandleHostBusy, Goto, cacheVars
<1>4. ASSUME NEW r \in Requests, LeaveSRV(r) PROVE Control'
  BY <1>4 DEF LeaveSRV, cacheVars
<1>5. ASSUME NEW r \in Requests, StrayEnds(r) PROVE Control'
  BY <1>5 DEF StrayEnds, cacheVars
<1>6. ASSUME NEW r \in Requests, LookupFound(r) PROVE Control'
  BY <1>6 DEF LookupFound, Goto, MakeKey, cacheVars
<1>7. ASSUME NEW r \in Requests, LookupFailed(r) PROVE Control'
  BY <1>7 DEF LookupFailed, Goto, cacheVars
<1>8. ASSUME NEW r \in Requests, GetHit(r) PROVE Control'
  BY <1>8 DEF GetHit, Goto, cacheVars
<1>9. ASSUME NEW r \in Requests, GetWait(r) PROVE Control'
  BY <1>9 DEF GetWait, Goto, Found
<1>10. ASSUME NEW r \in Requests, GetUncached(r) PROVE Control'
  BY <1>10 DEF GetUncached, Goto, cacheVars
<1>11. ASSUME NEW r \in Requests, GetInsert(r) PROVE Control'
  BY <1>11 DEF GetInsert, Goto, NoEntry
<1>12. ASSUME NEW r \in Requests, ProbeBusy(r) PROVE Control'
  BY <1>12 DEF ProbeBusy, Return, Results
<1>13. ASSUME NEW r \in Requests, ProbeStart(r) PROVE Control'
  BY <1>13 DEF ProbeStart, Goto, cacheVars
<1>14. ASSUME NEW r \in Requests, ProbeEnd(r) PROVE Control'
  BY <1>14 DEF ProbeEnd, Return, Results
<1>15. ASSUME NEW r \in Requests, Store(r) PROVE Control'
  BY <1>15 DEF Store, Goto
<1>16. ASSUME NEW r \in Requests, WaitReady(r) PROVE Control'
  BY <1>16 DEF WaitReady, Goto, cacheVars
<1>17. ASSUME NEW r \in Requests, WaitTimeout(r) PROVE Control'
  BY <1>17 DEF WaitTimeout, Goto, Reply, cacheVars, PCs, Results, Entry
<1>18. ASSUME Sweep PROVE Control'
  BY <1>18 DEF Sweep
<1>19. ASSUME Tick PROVE Control'
  BY <1>19 DEF Tick, cacheVars
<1>20. ASSUME UNCHANGED vars PROVE Control'
  BY <1>20 DEF vars
<1>21. QED
  BY <1>1, <1>2, <1>3, <1>4, <1>5, <1>6, <1>7, <1>8, <1>9, <1>10, <1>11, <1>12, <1>13, <1>14, <1>15, <1>16, <1>17, <1>18, <1>19, <1>20 DEF Next, Arrive, Handler

\* The clock waits for a probe that is due.
LEMMA OnTimeStep == ASSUME IInv, [Next]_vars PROVE OnTime'
<1> USE DEF IInv, TypeOK, Control, OnTime
<1>1. ASSUME NEW r \in Requests, HandleLiteral(r) PROVE OnTime'
  BY <1>1, ConstantsAssumption DEF HandleLiteral, Goto, MakeKey, cacheVars
<1>2. ASSUME NEW r \in Requests, HandleHost(r) PROVE OnTime'
  BY <1>2 DEF HandleHost, Goto, cacheVars
<1>3. ASSUME NEW r \in Requests, HandleHostBusy(r) PROVE OnTime'
  BY <1>3 DEF HandleHostBusy, Goto, cacheVars
<1>4. ASSUME NEW r \in Requests, LeaveSRV(r) PROVE OnTime'
  BY <1>4 DEF LeaveSRV, cacheVars
<1>5. ASSUME NEW r \in Requests, StrayEnds(r) PROVE OnTime'
  BY <1>5 DEF StrayEnds, cacheVars
<1>6. ASSUME NEW r \in Requests, LookupFound(r) PROVE OnTime'
  BY <1>6, ConstantsAssumption DEF LookupFound, Goto, MakeKey, cacheVars
<1>7. ASSUME NEW r \in Requests, LookupFailed(r) PROVE OnTime'
  BY <1>7 DEF LookupFailed, Goto, cacheVars
<1>8. ASSUME NEW r \in Requests, GetHit(r) PROVE OnTime'
  BY <1>8 DEF GetHit, Goto, cacheVars
<1>9. ASSUME NEW r \in Requests, GetWait(r) PROVE OnTime'
  BY <1>9 DEF GetWait, Goto
<1>10. ASSUME NEW r \in Requests, GetUncached(r) PROVE OnTime'
  BY <1>10 DEF GetUncached, Goto, cacheVars
<1>11. ASSUME NEW r \in Requests, GetInsert(r) PROVE OnTime'
  BY <1>11 DEF GetInsert, Goto, NoEntry
<1>12. ASSUME NEW r \in Requests, ProbeBusy(r) PROVE OnTime'
  BY <1>12 DEF ProbeBusy, Return
<1>13. ASSUME NEW r \in Requests, ProbeStart(r) PROVE OnTime'
  BY <1>13 DEF ProbeStart, Goto, cacheVars
<1>14. ASSUME NEW r \in Requests, ProbeEnd(r) PROVE OnTime'
  BY <1>14 DEF ProbeEnd, Return
<1>15. ASSUME NEW r \in Requests, Store(r) PROVE OnTime'
  BY <1>15 DEF Store, Goto
<1>16. ASSUME NEW r \in Requests, WaitReady(r) PROVE OnTime'
  BY <1>16 DEF WaitReady, Goto, cacheVars
<1>17. ASSUME NEW r \in Requests, WaitTimeout(r) PROVE OnTime'
  BY <1>17 DEF WaitTimeout, Goto, cacheVars
<1>18. ASSUME Sweep PROVE OnTime'
  BY <1>18 DEF Sweep
<1>19. ASSUME Tick PROVE OnTime'
  BY <1>19 DEF Tick, cacheVars, Overdue
<1>20. ASSUME UNCHANGED vars PROVE OnTime'
  BY <1>20 DEF vars
<1>21. QED
  BY <1>1, <1>2, <1>3, <1>4, <1>5, <1>6, <1>7, <1>8, <1>9, <1>10, <1>11, <1>12, <1>13, <1>14, <1>15, <1>16, <1>17, <1>18, <1>19, <1>20 DEF Next, Arrive, Handler

\* An insert overwrites no pending entry, a busy owner deletes its own, the sweep takes
\* ready ones only.
LEMMA PendingStep == ASSUME IInv, [Next]_vars PROVE PendingStays'
<1> USE DEF IInv, TypeOK, Control, PendingStays, Filling
<1>1. ASSUME NEW r \in Requests, HandleLiteral(r) PROVE PendingStays'
  BY <1>1 DEF HandleLiteral, Goto, MakeKey, cacheVars
<1>2. ASSUME NEW r \in Requests, HandleHost(r) PROVE PendingStays'
  BY <1>2 DEF HandleHost, Goto, cacheVars
<1>3. ASSUME NEW r \in Requests, HandleHostBusy(r) PROVE PendingStays'
  BY <1>3 DEF HandleHostBusy, Goto, cacheVars
<1>4. ASSUME NEW r \in Requests, LeaveSRV(r) PROVE PendingStays'
  BY <1>4 DEF LeaveSRV, cacheVars
<1>5. ASSUME NEW r \in Requests, StrayEnds(r) PROVE PendingStays'
  BY <1>5 DEF StrayEnds, cacheVars
<1>6. ASSUME NEW r \in Requests, LookupFound(r) PROVE PendingStays'
  BY <1>6 DEF LookupFound, Goto, MakeKey, cacheVars
<1>7. ASSUME NEW r \in Requests, LookupFailed(r) PROVE PendingStays'
  BY <1>7 DEF LookupFailed, Goto, cacheVars
<1>8. ASSUME NEW r \in Requests, GetHit(r) PROVE PendingStays'
  BY <1>8 DEF GetHit, Goto, cacheVars
<1>9. ASSUME NEW r \in Requests, GetWait(r) PROVE PendingStays'
  BY <1>9, ConstantsAssumption DEF GetWait, Goto, Reply, Found, PCs, Entry
<1>10. ASSUME NEW r \in Requests, GetUncached(r) PROVE PendingStays'
  BY <1>10, ConstantsAssumption DEF GetUncached, Goto, Reply, cacheVars, PCs, Entry
<1>11. ASSUME NEW r \in Requests, GetInsert(r) PROVE PendingStays'
  BY <1>11, ConstantsAssumption DEF GetInsert, Goto, Miss, Found, NoEntry
<1>12. ASSUME NEW r \in Requests, ProbeBusy(r) PROVE PendingStays'
  BY <1>12 DEF ProbeBusy, Return
<1>13. ASSUME NEW r \in Requests, ProbeStart(r) PROVE PendingStays'
  BY <1>13 DEF ProbeStart, Goto, cacheVars
<1>14. ASSUME NEW r \in Requests, ProbeEnd(r) PROVE PendingStays'
  BY <1>14 DEF ProbeEnd, Return
<1>15. ASSUME NEW r \in Requests, Store(r) PROVE PendingStays'
  BY <1>15 DEF Store, Goto
<1>16. ASSUME NEW r \in Requests, WaitReady(r) PROVE PendingStays'
  BY <1>16, ConstantsAssumption DEF WaitReady, Goto, Reply, cacheVars, PCs, Entry
<1>17. ASSUME NEW r \in Requests, WaitTimeout(r) PROVE PendingStays'
  BY <1>17 DEF WaitTimeout, Goto, cacheVars
<1>18. ASSUME Sweep PROVE PendingStays'
  BY <1>18 DEF Sweep, Expired
<1>19. ASSUME Tick PROVE PendingStays'
  BY <1>19 DEF Tick, cacheVars
<1>20. ASSUME UNCHANGED vars PROVE PendingStays'
  BY <1>20 DEF vars
<1>21. QED
  BY <1>1, <1>2, <1>3, <1>4, <1>5, <1>6, <1>7, <1>8, <1>9, <1>10, <1>11, <1>12, <1>13, <1>14, <1>15, <1>16, <1>17, <1>18, <1>19, <1>20 DEF Next, Arrive, Handler

\* A handler joins a pending entry of its own key, and an owner that leaves fills it.
LEMMA WaiterStep == ASSUME IInv, [Next]_vars PROVE WaiterIsServed'
<1> USE DEF IInv, TypeOK, Control, PendingStays, Filling, WaiterIsServed
<1>1. ASSUME NEW r \in Requests, HandleLiteral(r) PROVE WaiterIsServed'
  BY <1>1 DEF HandleLiteral, Goto, MakeKey, cacheVars
<1>2. ASSUME NEW r \in Requests, HandleHost(r) PROVE WaiterIsServed'
  BY <1>2 DEF HandleHost, Goto, cacheVars
<1>3. ASSUME NEW r \in Requests, HandleHostBusy(r) PROVE WaiterIsServed'
  BY <1>3 DEF HandleHostBusy, Goto, cacheVars
<1>4. ASSUME NEW r \in Requests, LeaveSRV(r) PROVE WaiterIsServed'
  BY <1>4 DEF LeaveSRV, cacheVars
<1>5. ASSUME NEW r \in Requests, StrayEnds(r) PROVE WaiterIsServed'
  BY <1>5 DEF StrayEnds, cacheVars
<1>6. ASSUME NEW r \in Requests, LookupFound(r) PROVE WaiterIsServed'
  BY <1>6 DEF LookupFound, Goto, MakeKey, cacheVars
<1>7. ASSUME NEW r \in Requests, LookupFailed(r) PROVE WaiterIsServed'
  BY <1>7 DEF LookupFailed, Goto, cacheVars
<1>8. ASSUME NEW r \in Requests, GetHit(r) PROVE WaiterIsServed'
  BY <1>8 DEF GetHit, Goto, cacheVars
<1>9. ASSUME NEW r \in Requests, GetWait(r) PROVE WaiterIsServed'
  BY <1>9 DEF GetWait, Goto, Found
<1>10. ASSUME NEW r \in Requests, GetUncached(r) PROVE WaiterIsServed'
  BY <1>10 DEF GetUncached, Goto, cacheVars
<1>11. ASSUME NEW r \in Requests, GetInsert(r) PROVE WaiterIsServed'
  BY <1>11 DEF GetInsert, Goto
<1>12. ASSUME NEW r \in Requests, ProbeBusy(r) PROVE WaiterIsServed'
  BY <1>12, ConstantsAssumption DEF ProbeBusy, Reply, Return
<1>13. ASSUME NEW r \in Requests, ProbeStart(r) PROVE WaiterIsServed'
  BY <1>13 DEF ProbeStart, Goto, cacheVars
<1>14. ASSUME NEW r \in Requests, ProbeEnd(r) PROVE WaiterIsServed'
  BY <1>14 DEF ProbeEnd, Return
<1>15. ASSUME NEW r \in Requests, Store(r) PROVE WaiterIsServed'
  BY <1>15 DEF Store, Goto
<1>16. ASSUME NEW r \in Requests, WaitReady(r) PROVE WaiterIsServed'
  BY <1>16 DEF WaitReady, Goto, cacheVars
<1>17. ASSUME NEW r \in Requests, WaitTimeout(r) PROVE WaiterIsServed'
  BY <1>17 DEF WaitTimeout, Goto, cacheVars
<1>18. ASSUME Sweep PROVE WaiterIsServed'
  BY <1>18 DEF Sweep
<1>19. ASSUME Tick PROVE WaiterIsServed'
  BY <1>19 DEF Tick, cacheVars
<1>20. ASSUME UNCHANGED vars PROVE WaiterIsServed'
  BY <1>20 DEF vars
<1>21. QED
  BY <1>1, <1>2, <1>3, <1>4, <1>5, <1>6, <1>7, <1>8, <1>9, <1>10, <1>11, <1>12, <1>13, <1>14, <1>15, <1>16, <1>17, <1>18, <1>19, <1>20 DEF Next, Arrive, Handler

\* A store that keeps its entry in the map keeps a probe's result.
LEMMA BusyStep == ASSUME IInv, [Next]_vars PROVE BusyNotCached'
<1> USE DEF IInv, TypeOK, Control, PendingStays, Filling, BusyNotCached
<1>1. ASSUME NEW r \in Requests, HandleLiteral(r) PROVE BusyNotCached'
  BY <1>1 DEF HandleLiteral, MakeKey, cacheVars
<1>2. ASSUME NEW r \in Requests, HandleHost(r) PROVE BusyNotCached'
  BY <1>2 DEF HandleHost, cacheVars
<1>3. ASSUME NEW r \in Requests, HandleHostBusy(r) PROVE BusyNotCached'
  BY <1>3 DEF HandleHostBusy, cacheVars
<1>4. ASSUME NEW r \in Requests, LeaveSRV(r) PROVE BusyNotCached'
  BY <1>4 DEF LeaveSRV, cacheVars
<1>5. ASSUME NEW r \in Requests, StrayEnds(r) PROVE BusyNotCached'
  BY <1>5 DEF StrayEnds, cacheVars
<1>6. ASSUME NEW r \in Requests, LookupFound(r) PROVE BusyNotCached'
  BY <1>6 DEF LookupFound, MakeKey, cacheVars
<1>7. ASSUME NEW r \in Requests, LookupFailed(r) PROVE BusyNotCached'
  BY <1>7 DEF LookupFailed, cacheVars
<1>8. ASSUME NEW r \in Requests, GetHit(r) PROVE BusyNotCached'
  BY <1>8 DEF GetHit, cacheVars
<1>9. ASSUME NEW r \in Requests, GetWait(r) PROVE BusyNotCached'
  BY <1>9 DEF GetWait
<1>10. ASSUME NEW r \in Requests, GetUncached(r) PROVE BusyNotCached'
  BY <1>10 DEF GetUncached, cacheVars
<1>11. ASSUME NEW r \in Requests, GetInsert(r) PROVE BusyNotCached'
  BY <1>11 DEF GetInsert, NoEntry
<1>12. ASSUME NEW r \in Requests, ProbeBusy(r) PROVE BusyNotCached'
  BY <1>12 DEF ProbeBusy
<1>13. ASSUME NEW r \in Requests, ProbeStart(r) PROVE BusyNotCached'
  BY <1>13 DEF ProbeStart, cacheVars
<1>14. ASSUME NEW r \in Requests, ProbeEnd(r) PROVE BusyNotCached'
  BY <1>14 DEF ProbeEnd
<1>15. ASSUME NEW r \in Requests, Store(r) PROVE BusyNotCached'
  BY <1>15 DEF Store, Goto, Results
<1>16. ASSUME NEW r \in Requests, WaitReady(r) PROVE BusyNotCached'
  BY <1>16 DEF WaitReady, cacheVars
<1>17. ASSUME NEW r \in Requests, WaitTimeout(r) PROVE BusyNotCached'
  BY <1>17 DEF WaitTimeout, cacheVars
<1>18. ASSUME Sweep PROVE BusyNotCached'
  BY <1>18 DEF Sweep
<1>19. ASSUME Tick PROVE BusyNotCached'
  BY <1>19 DEF Tick, cacheVars
<1>20. ASSUME UNCHANGED vars PROVE BusyNotCached'
  BY <1>20 DEF vars
<1>21. QED
  BY <1>1, <1>2, <1>3, <1>4, <1>5, <1>6, <1>7, <1>8, <1>9, <1>10, <1>11, <1>12, <1>13, <1>14, <1>15, <1>16, <1>17, <1>18, <1>19, <1>20 DEF Next, Arrive, Handler

\* Only an insert adds a key to the map, and not to a full one.
LEMMA BoundStep == ASSUME IInv, [Next]_vars PROVE CacheBounded'
<1> USE DEF IInv
<1>1. ASSUME NEW r \in Requests, GetInsert(r) PROVE CacheBounded'
  <2>1. Cached' \subseteq Cached \cup {key[r]}
    BY <1>1 DEF GetInsert, Cached
  <2>2. IsFiniteSet(Cached \cup {key[r]}) /\ Cardinality(Cached \cup {key[r]}) <= Cardinality(Cached) + 1
    BY CachedFinite, FS_AddElement
  <2>3. Cardinality(Cached') <= Cardinality(Cached) + 1 /\ Cardinality(Cached') \in Nat
    BY <2>1, <2>2, CachedFinite, FS_Subset, FS_CardinalityType
  <2>4. Cardinality(Cached) < CacheMax
    BY <1>1, CachedFinite, ConstantsAssumption DEF GetInsert, CacheFull
  <2>5. QED
    BY <2>3, <2>4, CachedFinite, ConstantsAssumption DEF CacheBounded
<1>2. ASSUME NEW r \in Requests, HandleLiteral(r) PROVE CacheBounded'
  BY <1>2, FewerCached DEF HandleLiteral, cacheVars, Cached
<1>3. ASSUME NEW r \in Requests, HandleHost(r) PROVE CacheBounded'
  BY <1>3, FewerCached DEF HandleHost, cacheVars, Cached
<1>4. ASSUME NEW r \in Requests, HandleHostBusy(r) PROVE CacheBounded'
  BY <1>4, FewerCached DEF HandleHostBusy, cacheVars, Cached
<1>5. ASSUME NEW r \in Requests, LeaveSRV(r) PROVE CacheBounded'
  BY <1>5, FewerCached DEF LeaveSRV, cacheVars, Cached
<1>6. ASSUME NEW r \in Requests, StrayEnds(r) PROVE CacheBounded'
  BY <1>6, FewerCached DEF StrayEnds, cacheVars, Cached
<1>7. ASSUME NEW r \in Requests, LookupFound(r) PROVE CacheBounded'
  BY <1>7, FewerCached DEF LookupFound, cacheVars, Cached
<1>8. ASSUME NEW r \in Requests, LookupFailed(r) PROVE CacheBounded'
  BY <1>8, FewerCached DEF LookupFailed, cacheVars, Cached
<1>9. ASSUME NEW r \in Requests, GetHit(r) PROVE CacheBounded'
  BY <1>9, FewerCached DEF GetHit, cacheVars, Cached
<1>10. ASSUME NEW r \in Requests, GetWait(r) PROVE CacheBounded'
  BY <1>10, FewerCached DEF GetWait, Cached
<1>11. ASSUME NEW r \in Requests, GetUncached(r) PROVE CacheBounded'
  BY <1>11, FewerCached DEF GetUncached, cacheVars, Cached
<1>12. ASSUME NEW r \in Requests, ProbeBusy(r) PROVE CacheBounded'
  BY <1>12, FewerCached DEF ProbeBusy, Cached
<1>13. ASSUME NEW r \in Requests, ProbeStart(r) PROVE CacheBounded'
  BY <1>13, FewerCached DEF ProbeStart, cacheVars, Cached
<1>14. ASSUME NEW r \in Requests, ProbeEnd(r) PROVE CacheBounded'
  BY <1>14, FewerCached DEF ProbeEnd, Cached
<1>15. ASSUME NEW r \in Requests, Store(r) PROVE CacheBounded'
  BY <1>15, FewerCached DEF Store, Cached
<1>16. ASSUME NEW r \in Requests, WaitReady(r) PROVE CacheBounded'
  BY <1>16, FewerCached DEF WaitReady, cacheVars, Cached
<1>17. ASSUME NEW r \in Requests, WaitTimeout(r) PROVE CacheBounded'
  BY <1>17, FewerCached DEF WaitTimeout, cacheVars, Cached
<1>18. ASSUME Sweep PROVE CacheBounded'
  BY <1>18, FewerCached DEF Sweep, Cached
<1>19. ASSUME Tick PROVE CacheBounded'
  BY <1>19, FewerCached DEF Tick, cacheVars, Cached
<1>20. ASSUME UNCHANGED vars PROVE CacheBounded'
  BY <1>20, FewerCached DEF vars, Cached
<1>21. QED
  BY <1>1, <1>2, <1>3, <1>4, <1>5, <1>6, <1>7, <1>8, <1>9, <1>10, <1>11, <1>12, <1>13, <1>14, <1>15, <1>16, <1>17, <1>18, <1>19, <1>20 DEF Next, Arrive, Handler

LEMMA Inductive == IInv /\ [Next]_vars => IInv'
BY TypeStep, ControlStep, OnTimeStep, SlotsStep, PendingStep, WaiterStep, BusyStep, BoundStep DEF IInv

LEMMA AlwaysIInv == Spec => []IInv
BY InitIInv, Inductive, PTL DEF Spec

-----------------------------------------------------------------------------
\* Every variable of handlePing and probeCache keeps its type.
THEOREM TypeCorrect == Spec => []TypeOK
<1>1. IInv => TypeOK
  BY DEF IInv
<1>2. QED
  BY <1>1, AlwaysIInv, PTL

\* No path through handlePing leaks a slot, releases one twice or exceeds the
\* cap, for any number of handlers and slots.
THEOREM SlotSafety == Spec => []SlotsAccounted
<1>1. IInv => SlotsAccounted
  BY DEF IInv
<1>2. QED
  BY <1>1, AlwaysIInv, PTL

\* The cache coalesces: a pending entry stays until its owner has filled it,
\* and whoever waits for it is answered by it.
THEOREM Coalescing == Spec => []Coalesced
<1>1. IInv => Coalesced
  BY DEF IInv, Coalesced
<1>2. QED
  BY <1>1, AlwaysIInv, PTL

\* The map stays within cacheMax and never offers a busy result.
THEOREM CacheContents == Spec => []CacheSound
<1>1. IInv => CacheSound
  BY DEF IInv, CacheSound
<1>2. QED
  BY <1>1, AlwaysIInv, PTL

\* A cached answer tells of a probe of the same key that began less than
\* CacheTTL + PingTimeout before it.
THEOREM Freshness == Spec => CachedIsFresh
<1> DEFINE FreshAnswer(r) ==
      (answer[r].kind = "none" /\ answer'[r].kind = "cached") =>
         LET o == answer'[r].of IN
         /\ key[o] = key[r]
         /\ result[o] = "probed"
         /\ now < deadline[o] + CacheTTL
<1>1. ASSUME IInv, [Next]_vars, NEW r \in Requests PROVE FreshAnswer(r)
  <2> USE DEF IInv, TypeOK
  <2>1. ASSUME NEW q \in Requests, GetHit(q) PROVE FreshAnswer(r)
    <3>1. CASE q # r
      BY <1>1, <2>1, <3>1 DEF GetHit, Reply
    <3>2. CASE q = r
      <4> DEFINE o == m[key[r]]
      <4>1. key[r] \in Keys /\ o \in Requests /\ answer'[r].of = o
        BY <1>1, <2>1, <3>2 DEF GetHit, Reply, Goto, Found, Control
      <4>2. key[o] = key[r]
        BY <1>1, <2>1, <3>2, <4>1 DEF GetHit, Found, PendingStays
      <4>3. entry[o].ready /\ now - entry[o].at < CacheTTL
        BY <1>1, <2>1, <3>2 DEF GetHit, Found, Fresh
      <4>4. result[o] = "probed"
        BY <1>1, <2>1, <3>2, <4>1, <4>3 DEF GetHit, Found, BusyNotCached, Control
      <4>5. entry[o].at <= deadline[o] /\ entry[o].at \in Nat
        BY <1>1, <4>1, <4>3 DEF OnTime, Entry
      <4>6. now < deadline[o] + CacheTTL
        BY <1>1, <4>1, <4>3, <4>5, ConstantsAssumption
      <4>7. QED
        BY <4>1, <4>2, <4>4, <4>6
    <3>3. QED
      BY <3>1, <3>2
  <2>2. ASSUME NEW q \in Requests, HandleLiteral(q) PROVE FreshAnswer(r)
    BY <1>1, <2>2 DEF HandleLiteral
  <2>3. ASSUME NEW q \in Requests, HandleHost(q) PROVE FreshAnswer(r)
    BY <1>1, <2>3 DEF HandleHost
  <2>4. ASSUME NEW q \in Requests, HandleHostBusy(q) PROVE FreshAnswer(r)
    BY <1>1, <2>4 DEF HandleHostBusy, Reply
  <2>5. ASSUME NEW q \in Requests, LeaveSRV(q) PROVE FreshAnswer(r)
    BY <1>1, <2>5 DEF LeaveSRV
  <2>6. ASSUME NEW q \in Requests, StrayEnds(q) PROVE FreshAnswer(r)
    BY <1>1, <2>6 DEF StrayEnds
  <2>7. ASSUME NEW q \in Requests, LookupFound(q) PROVE FreshAnswer(r)
    BY <1>1, <2>7 DEF LookupFound
  <2>8. ASSUME NEW q \in Requests, LookupFailed(q) PROVE FreshAnswer(r)
    BY <1>1, <2>8 DEF LookupFailed, Reply
  <2>9. ASSUME NEW q \in Requests, GetWait(q) PROVE FreshAnswer(r)
    BY <1>1, <2>9 DEF GetWait
  <2>10. ASSUME NEW q \in Requests, GetUncached(q) PROVE FreshAnswer(r)
    BY <1>1, <2>10 DEF GetUncached
  <2>11. ASSUME NEW q \in Requests, GetInsert(q) PROVE FreshAnswer(r)
    BY <1>1, <2>11 DEF GetInsert
  <2>12. ASSUME NEW q \in Requests, ProbeBusy(q) PROVE FreshAnswer(r)
    BY <1>1, <2>12 DEF ProbeBusy, Reply, Return
  <2>13. ASSUME NEW q \in Requests, ProbeStart(q) PROVE FreshAnswer(r)
    BY <1>1, <2>13 DEF ProbeStart
  <2>14. ASSUME NEW q \in Requests, ProbeEnd(q) PROVE FreshAnswer(r)
    BY <1>1, <2>14 DEF ProbeEnd, Reply, Return
  <2>15. ASSUME NEW q \in Requests, Store(q) PROVE FreshAnswer(r)
    BY <1>1, <2>15 DEF Store, Reply
  <2>16. ASSUME NEW q \in Requests, WaitReady(q) PROVE FreshAnswer(r)
    BY <1>1, <2>16 DEF WaitReady, Reply
  <2>17. ASSUME NEW q \in Requests, WaitTimeout(q) PROVE FreshAnswer(r)
    BY <1>1, <2>17 DEF WaitTimeout, Reply
  <2>18. ASSUME Sweep \/ Tick \/ UNCHANGED vars PROVE FreshAnswer(r)
    BY <1>1, <2>18 DEF Sweep, Tick, vars
  <2>19. QED
    BY <1>1, <2>1, <2>2, <2>3, <2>4, <2>5, <2>6, <2>7, <2>8, <2>9, <2>10, <2>11, <2>12, <2>13, <2>14, <2>15, <2>16, <2>17, <2>18 DEF Next, Arrive, Handler
<1>2. IInv /\ [Next]_vars => [\A r \in Requests : FreshAnswer(r)]_vars
  BY <1>1
<1>3. QED
  BY <1>2, AlwaysIInv, PTL DEF Spec, CachedIsFresh

-----------------------------------------------------------------------------
(***************************************************************************)
(* PingService implements SharedProbe: every step of a handler, the sweep  *)
(* and the clock is a step of the shared probes its clients see, or        *)
(* changes nothing they see.                                               *)
(***************************************************************************)
\* What the mapping needs beyond the invariant: a handler answers when it is
\* done and never before, its key comes with its deadline, and an entry that is
\* ready was filled after every request that waited for it had asked.
Telling ==
  \A r \in Requests :
    /\ answer[r].kind = "none" <=> pc[r] # "done"
    /\ pc[r] \in {"new", "lookup"} => key[r] = None
    /\ key[r] # None => PingTimeout <= deadline[r] /\ deadline[r] - PingTimeout <= now
    /\ pc[r] = "wait" /\ entry[waitsOn[r]].ready
         => deadline[r] - PingTimeout <= entry[waitsOn[r]].at

RInv == IInv /\ Telling

LEMMA InitTelling == Init => Telling
BY DEF Init, Telling, NoAnswer, NoEntry

LEMMA TellingStep == ASSUME IInv, Telling, [Next]_vars PROVE Telling'
<1> USE ConstantsAssumption DEF IInv, TypeOK, Control, Telling, Filling
<1>1. ASSUME NEW r \in Requests, HandleLiteral(r) PROVE Telling'
  BY <1>1 DEF HandleLiteral, Goto, MakeKey, cacheVars
<1>2. ASSUME NEW r \in Requests, HandleHost(r) PROVE Telling'
  BY <1>2 DEF HandleHost, Goto, cacheVars
<1>3. ASSUME NEW r \in Requests, HandleHostBusy(r) PROVE Telling'
  BY <1>3 DEF HandleHostBusy, Goto, Reply, cacheVars
<1>4. ASSUME NEW r \in Requests, LeaveSRV(r) PROVE Telling'
  BY <1>4 DEF LeaveSRV, cacheVars
<1>5. ASSUME NEW r \in Requests, StrayEnds(r) PROVE Telling'
  BY <1>5 DEF StrayEnds, cacheVars
<1>6. ASSUME NEW r \in Requests, LookupFound(r) PROVE Telling'
  BY <1>6 DEF LookupFound, Goto, MakeKey, cacheVars
<1>7. ASSUME NEW r \in Requests, LookupFailed(r) PROVE Telling'
  BY <1>7 DEF LookupFailed, Goto, Reply, cacheVars
<1>8. ASSUME NEW r \in Requests, GetHit(r) PROVE Telling'
  BY <1>8 DEF GetHit, Goto, Reply, cacheVars
<1>9. ASSUME NEW r \in Requests, GetWait(r) PROVE Telling'
  BY <1>9 DEF GetWait, Goto, Found
<1>10. ASSUME NEW r \in Requests, GetUncached(r) PROVE Telling'
  BY <1>10 DEF GetUncached, Goto, cacheVars
<1>11. ASSUME NEW r \in Requests, GetInsert(r) PROVE Telling'
  BY <1>11 DEF GetInsert, Goto, NoEntry
<1>12. ASSUME NEW r \in Requests, ProbeBusy(r) PROVE Telling'
  BY <1>12 DEF ProbeBusy, Return, Reply
<1>13. ASSUME NEW r \in Requests, ProbeStart(r) PROVE Telling'
  BY <1>13 DEF ProbeStart, Goto, cacheVars
<1>14. ASSUME NEW r \in Requests, ProbeEnd(r) PROVE Telling'
  BY <1>14 DEF ProbeEnd, Return, Reply
<1>15. ASSUME NEW r \in Requests, Store(r) PROVE Telling'
  BY <1>15 DEF Store, Goto, Reply
<1>16. ASSUME NEW r \in Requests, WaitReady(r) PROVE Telling'
  BY <1>16 DEF WaitReady, Goto, Reply, cacheVars
<1>17. ASSUME NEW r \in Requests, WaitTimeout(r) PROVE Telling'
  BY <1>17 DEF WaitTimeout, Goto, Reply, cacheVars
<1>18. ASSUME Sweep PROVE Telling'
  BY <1>18 DEF Sweep
<1>19. ASSUME Tick PROVE Telling'
  BY <1>19 DEF Tick, cacheVars
<1>20. ASSUME UNCHANGED vars PROVE Telling'
  BY <1>20 DEF vars
<1>21. QED
  BY <1>1, <1>2, <1>3, <1>4, <1>5, <1>6, <1>7, <1>8, <1>9, <1>10, <1>11, <1>12, <1>13, <1>14, <1>15, <1>16, <1>17, <1>18, <1>19, <1>20 DEF Next, Arrive, Handler

LEMMA AlwaysRInv == Spec => []RInv
<1>1. Init => RInv
  BY InitIInv, InitTelling DEF RInv
<1>2. RInv /\ [Next]_vars => RInv'
  BY Inductive, TellingStep DEF RInv
<1>3. QED
  BY <1>1, <1>2, PTL DEF Spec

-----------------------------------------------------------------------------
\* Steps that leave the key, the cache and the clock alone leave all of the
\* mapping alone.
LEMMA SameView ==
  ASSUME UNCHANGED <<key, deadline, m, entry>>
  PROVE  UNCHANGED <<AskedAt, Flight, Memo, Ended>>
BY DEF AskedAt, Flight, Memo, Ended, Waiting, Remembered

\* A change of the view at one key.
LEMMA FlightAt ==
  ASSUME NEW k \in Keys, NEW v, Flight'[k] = v, \A q \in Keys \ {k} : Flight'[q] = Flight[q]
  PROVE  Flight' = [Flight EXCEPT ![k] = v]
BY DEF Flight

LEMMA MemoAt ==
  ASSUME NEW k \in Keys, NEW v, Memo'[k] = v, \A q \in Keys \ {k} : Memo'[q] = Memo[q]
  PROVE  Memo' = [Memo EXCEPT ![k] = v]
BY DEF Memo

\* A request learns its key.
LEMMA AskStep ==
  ASSUME RInv, NEW r \in Requests, MakeKey(r), pc[r] \in {"new", "lookup"},
         UNCHANGED <<now, m, entry, answer>>
  PROVE  Shared!Ask(r)
<1> USE ConstantsAssumption DEF RInv, IInv, TypeOK, Telling
<1>1. key[r] = None /\ key' \in [Requests -> Keys \cup {None}] /\ key'[r] # None
  BY DEF MakeKey
<1>2. AskedAt' = [AskedAt EXCEPT ![r] = now]
  <2>1. ASSUME NEW q \in Requests PROVE AskedAt'[q] = IF q = r THEN now ELSE AskedAt[q]
    BY <1>1 DEF AskedAt, MakeKey
  <2>2. QED
    BY <2>1 DEF AskedAt
<1>3. UNCHANGED <<Flight, Memo, Ended>>
  BY DEF Flight, Memo, Ended, Waiting, Remembered
<1>4. QED
  BY <1>1, <1>2, <1>3 DEF Shared!Ask, MakeKey

\* It is refused before it has one.
LEMMA RefuseStep ==
  ASSUME RInv, NEW r \in Requests, NEW kind \in {"busy", "dns"}, Reply(r, kind, r),
         pc[r] \in {"new", "lookup"}, UNCHANGED <<now, key, deadline, m, entry>>
  PROVE  Shared!Refuse(r)
<1>1. key[r] = None /\ answer[r].kind = "none"
  BY DEF RInv, Telling
<1>2. QED
  BY <1>1, SameView DEF Shared!Refuse, Shared!Say, Reply

\* The owner of a pending entry of k is the flight of k, and an entry in the
\* map is nowhere else.
LEMMA FlightIs ==
  ASSUME RInv, NEW r \in Requests, Filling(r)
  PROVE  Flight[key[r]] = r /\ Memo[key[r]] = None
BY ConstantsAssumption DEF RInv, IInv, TypeOK, Control, PendingStays, Filling,
   Flight, Memo, Waiting, Remembered

\* A new entry under a key that has no usable one.
LEMMA BeginStep ==
  ASSUME RInv, NEW r \in Requests, GetInsert(r)
  PROVE  Shared!Begin(r)
<1> USE ConstantsAssumption DEF RInv, IInv, TypeOK, Control, PendingStays, GetInsert, Goto
<1> DEFINE k == key[r]
<1>1. k \in Keys /\ r \notin owners
  OBVIOUS
<1>2. Flight[k] = None
  BY <1>1 DEF Flight, Waiting, Miss, Found
<1>3. Memo[k] # None => ~Shared!Young(Memo[k])
  BY <1>1 DEF Memo, Remembered, Miss, Found, Fresh, Shared!Young, Ended
<1>4. \A q \in Keys : m[q] # None => m[q] # r /\ entry'[m[q]] = entry[m[q]]
  BY <1>1
<1>5. Flight' = [Flight EXCEPT ![k] = r]
  <2>1. \A q \in Keys \ {k} : Flight'[q] = Flight[q]
    BY <1>1, <1>4 DEF Flight, Waiting
  <2>2. Flight'[k] = r
    BY <1>1 DEF Flight, Waiting, NoEntry
  <2>3. QED
    BY ONLY <1>1, <2>1, <2>2, FlightAt
<1>6. Memo' = [Memo EXCEPT ![k] = None]
  <2>1. \A q \in Keys \ {k} : Memo'[q] = Memo[q]
    BY <1>1, <1>4 DEF Memo, Remembered
  <2>2. Memo'[k] = None
    BY <1>1 DEF Memo, Remembered, NoEntry
  <2>3. QED
    BY ONLY <1>1, <2>1, <2>2, MemoAt
<1>7. Ended' = Ended
  BY <1>1 DEF Ended, NoEntry
<1>8. AskedAt' = AskedAt
  BY DEF AskedAt
<1>9. QED
  BY <1>1, <1>2, <1>3, <1>5, <1>6, <1>7, <1>8 DEF Shared!Begin

\* The owner fills its entry.
LEMMA EndStep ==
  ASSUME RInv, NEW r \in Requests, Store(r)
  PROVE  Shared!End(r)
<1> USE ConstantsAssumption DEF RInv, IInv, TypeOK, Control, PendingStays, Telling, Store, Goto
<1> DEFINE k == key[r]
           res == result[r]
<1>1. k \in Keys /\ r \in owners /\ res \in {"busy", "probed"} /\ m[k] = r /\ ~entry[r].ready
  BY DEF Results, Filling
<1>2. Flight[k] = r /\ Memo[k] = None
  BY <1>1, FlightIs DEF Filling
<1>3. \A q \in Keys \ {k} : m'[q] = m[q] /\ (m[q] # None => entry'[m[q]] = entry[m[q]])
  BY <1>1
<1>4. entry'[r] = [ready |-> TRUE, res |-> res, at |-> now]
      /\ m'[k] = IF res = "busy" THEN None ELSE r
  BY <1>1
<1>5. Flight' = [Flight EXCEPT ![k] = None]
  <2>1. \A q \in Keys \ {k} : Flight'[q] = Flight[q]
    BY <1>1, <1>3 DEF Flight, Waiting
  <2>2. Flight'[k] = None
    BY <1>1, <1>4 DEF Flight, Waiting
  <2>3. QED
    BY ONLY <1>1, <2>1, <2>2, FlightAt
<1>6. Memo' = IF res = "busy" THEN Memo ELSE [Memo EXCEPT ![k] = r]
  <2>1. \A q \in Keys \ {k} : Memo'[q] = Memo[q]
    BY <1>1, <1>3 DEF Memo, Remembered
  <2>2. Memo'[k] = IF res = "busy" THEN None ELSE r
    BY <1>1, <1>4 DEF Memo, Remembered
  <2>3. QED
    BY <1>2, <2>1, <2>2 DEF Memo
<1>7. Ended' = [Ended EXCEPT ![r] = [res |-> res, at |-> now]]
  BY <1>1, <1>4 DEF Ended
<1>8. Shared!Say(r, IF res = "busy" THEN "busy" ELSE "fresh", r)
  BY DEF Shared!Say, Reply
<1>9. AskedAt' = AskedAt
  BY DEF AskedAt
<1>10. QED
  BY <1>1, <1>2, <1>5, <1>6, <1>7, <1>8, <1>9 DEF Shared!End

\* A probe without an entry is the request's own, an owner's end of the probe
\* is not seen yet.
LEMMA ReturnStep ==
  ASSUME RInv, NEW r \in Requests, NEW from \in {"slot", "probe"}, NEW res \in Results,
         Return(r, from, res), UNCHANGED <<now, key, deadline, m, entry>>
  PROVE  Shared!Alone(r) \/ UNCHANGED Shared!vars
<1> USE DEF RInv, IInv
<1>1. CASE r \in owners
  BY <1>1, SameView DEF Return, Shared!vars
<1>2. CASE r \notin owners
  <2>1. key[r] \in Keys /\ answer[r].kind = "none"
    BY DEF Return, Control, Telling
  <2>2. Flight[key[r]] # r
    BY <1>2, <2>1, ConstantsAssumption DEF Flight, Waiting, PendingStays
  <2>3. \E kind \in {"busy", "fresh"} : Shared!Say(r, kind, r)
    BY <1>2, <2>1 DEF Return, Reply, Shared!Say
  <2>4. QED
    BY <2>1, <2>2, <2>3, SameView DEF Shared!Alone
<1>3. QED
  BY <1>1, <1>2

LEMMA RecallStep ==
  ASSUME RInv, NEW r \in Requests, GetHit(r)
  PROVE  Shared!Recall(r)
<1> USE ConstantsAssumption DEF RInv, IInv, TypeOK, Control, Telling, GetHit, Goto, Found
<1>1. key[r] \in Keys /\ m[key[r]] \in Requests /\ entry[m[key[r]]].ready
  BY DEF Fresh
<1>2. Memo[key[r]] = m[key[r]]
  BY <1>1 DEF Memo, Remembered
<1>3. Shared!Young(m[key[r]])
  BY <1>1 DEF Shared!Young, Ended, Fresh
<1>4. Shared!Say(r, "cached", Memo[key[r]])
  BY <1>2 DEF Shared!Say, Reply
<1>5. UNCHANGED <<AskedAt, Flight, Memo, Ended>>
  BY SameView DEF cacheVars
<1>6. QED
  BY <1>1, <1>2, <1>3, <1>4, <1>5 DEF Shared!Recall

LEMMA ShareStep ==
  ASSUME RInv, NEW r \in Requests, WaitReady(r)
  PROVE  Shared!Share(r)
<1> USE ConstantsAssumption DEF RInv, IInv, TypeOK, Control, Telling, WaitReady, Goto
<1> DEFINE o == waitsOn[r]
<1>1. o \in Requests /\ key[o] = key[r] /\ entry[o].ready /\ key[r] \in Keys
  BY DEF WaiterIsServed
<1>2. Ended[o] = [res |-> entry[o].res, at |-> entry[o].at]
  BY <1>1 DEF Ended
<1>3. AskedAt[r] = deadline[r] - PingTimeout
  BY <1>1 DEF AskedAt
<1>4. entry[o].at >= AskedAt[r]
  BY <1>1, <1>3 DEF Entry
<1>5. Ended[o] # None
  <2>1. entry[o].res \in {"busy", "probed"} /\ entry[o].at \in Nat
    BY <1>1 DEF Results, Entry
  <2>2. QED
    BY <1>2, <2>1
<1>6. Shared!Say(r, Shared!Told(o), o)
  BY <1>2 DEF Shared!Say, Shared!Told, Reply
<1>7. UNCHANGED <<AskedAt, Flight, Memo, Ended>>
  BY SameView DEF cacheVars
<1>8. QED
  BY <1>1, <1>2, <1>4, <1>5, <1>6, <1>7 DEF Shared!Share

LEMMA GiveUpStep ==
  ASSUME RInv, NEW r \in Requests, WaitTimeout(r)
  PROVE  Shared!GiveUp(r)
<1> USE ConstantsAssumption DEF RInv, IInv, TypeOK, Control, Telling, WaitTimeout, Goto
<1>1. key[r] \in Keys /\ AskedAt[r] = deadline[r] - PingTimeout
  BY DEF AskedAt
<1>2. now >= AskedAt[r] + PingTimeout
  BY <1>1
<1>3. Shared!Say(r, "offline", r)
  BY DEF Shared!Say, Reply
<1>4. UNCHANGED <<AskedAt, Flight, Memo, Ended>>
  BY SameView DEF cacheVars
<1>5. QED
  BY <1>1, <1>2, <1>3, <1>4 DEF Shared!GiveUp

LEMMA ForgetStep ==
  ASSUME RInv, Sweep
  PROVE  Shared!Forget
<1> USE ConstantsAssumption DEF RInv, IInv, TypeOK, Sweep
<1> DEFINE gone == {k \in Keys : Expired(k)}
<1>1. \A k \in gone : m[k] \in Requests /\ Memo[k] = m[k] /\ ~Shared!Young(Memo[k])
  <2> SUFFICES ASSUME NEW k \in gone
               PROVE  m[k] \in Requests /\ Memo[k] = m[k] /\ ~Shared!Young(Memo[k])
    OBVIOUS
  <2>1. m[k] \in Requests /\ Memo[k] = m[k]
    BY DEF Expired, Memo, Remembered
  <2>2. Ended[m[k]].at = entry[m[k]].at /\ entry[m[k]].at \in Nat
    BY <2>1 DEF Expired, Ended, Entry
  <2>3. ~(now - entry[m[k]].at < CacheTTL)
    BY <2>2 DEF Expired
  <2>4. QED
    BY <2>1, <2>2, <2>3 DEF Shared!Young
<1>2. gone \in SUBSET {k \in Keys : Memo[k] # None /\ ~Shared!Young(Memo[k])}
  BY <1>1
<1>3. Memo' = [k \in Keys |-> IF k \in gone THEN None ELSE Memo[k]]
  BY DEF Memo, Remembered
<1>4. Flight' = Flight
  BY DEF Flight, Waiting, Expired
<1>5. UNCHANGED <<AskedAt, Ended>>
  BY DEF AskedAt, Ended
<1>6. QED
  BY <1>2, <1>3, <1>4, <1>5 DEF Shared!Forget

-----------------------------------------------------------------------------
\* Every step of the handlers, the sweep and the clock is one of the clients'
\* view, or none.
LEMMA Simulates == ASSUME RInv, [Next]_vars PROVE [Shared!Next]_(Shared!vars)
<1>1. ASSUME NEW r \in Requests, HandleLiteral(r) PROVE [Shared!Next]_(Shared!vars)
  BY <1>1, AskStep DEF HandleLiteral, Goto, cacheVars, Shared!Next
<1>2. ASSUME NEW r \in Requests, HandleHost(r) PROVE [Shared!Next]_(Shared!vars)
  BY <1>2, SameView DEF HandleHost, cacheVars, Shared!vars
<1>3. ASSUME NEW r \in Requests, HandleHostBusy(r) PROVE [Shared!Next]_(Shared!vars)
  BY <1>3, RefuseStep DEF HandleHostBusy, Goto, cacheVars, Shared!Next
<1>4. ASSUME NEW r \in Requests, LeaveSRV(r) PROVE [Shared!Next]_(Shared!vars)
  BY <1>4, SameView DEF LeaveSRV, cacheVars, Shared!vars
<1>5. ASSUME NEW r \in Requests, StrayEnds(r) PROVE [Shared!Next]_(Shared!vars)
  BY <1>5, SameView DEF StrayEnds, cacheVars, Shared!vars
<1>6. ASSUME NEW r \in Requests, LookupFound(r) PROVE [Shared!Next]_(Shared!vars)
  BY <1>6, AskStep DEF LookupFound, Goto, cacheVars, Shared!Next
<1>7. ASSUME NEW r \in Requests, LookupFailed(r) PROVE [Shared!Next]_(Shared!vars)
  BY <1>7, RefuseStep DEF LookupFailed, Goto, cacheVars, Shared!Next
<1>8. ASSUME NEW r \in Requests, GetHit(r) PROVE [Shared!Next]_(Shared!vars)
  BY <1>8, RecallStep DEF Shared!Next
<1>9. ASSUME NEW r \in Requests, GetWait(r) PROVE [Shared!Next]_(Shared!vars)
  BY <1>9, SameView DEF GetWait, Shared!vars
<1>10. ASSUME NEW r \in Requests, GetUncached(r) PROVE [Shared!Next]_(Shared!vars)
  BY <1>10, SameView DEF GetUncached, cacheVars, Shared!vars
<1>11. ASSUME NEW r \in Requests, GetInsert(r) PROVE [Shared!Next]_(Shared!vars)
  BY <1>11, BeginStep DEF Shared!Next
<1>12. ASSUME NEW r \in Requests, ProbeBusy(r) PROVE [Shared!Next]_(Shared!vars)
  BY <1>12, ReturnStep DEF ProbeBusy, Results, Shared!Next
<1>13. ASSUME NEW r \in Requests, ProbeStart(r) PROVE [Shared!Next]_(Shared!vars)
  BY <1>13, SameView DEF ProbeStart, cacheVars, Shared!vars
<1>14. ASSUME NEW r \in Requests, ProbeEnd(r) PROVE [Shared!Next]_(Shared!vars)
  BY <1>14, ReturnStep DEF ProbeEnd, Results, Shared!Next
<1>15. ASSUME NEW r \in Requests, Store(r) PROVE [Shared!Next]_(Shared!vars)
  BY <1>15, EndStep DEF Shared!Next
<1>16. ASSUME NEW r \in Requests, WaitReady(r) PROVE [Shared!Next]_(Shared!vars)
  BY <1>16, ShareStep DEF Shared!Next
<1>17. ASSUME NEW r \in Requests, WaitTimeout(r) PROVE [Shared!Next]_(Shared!vars)
  BY <1>17, GiveUpStep DEF Shared!Next
<1>18. ASSUME Sweep PROVE [Shared!Next]_(Shared!vars)
  BY <1>18, ForgetStep DEF Shared!Next
<1>19. ASSUME Tick PROVE [Shared!Next]_(Shared!vars)
  BY <1>19, SameView DEF Tick, cacheVars, Shared!Tick, Shared!Next
<1>20. ASSUME UNCHANGED vars PROVE [Shared!Next]_(Shared!vars)
  BY <1>20, SameView DEF vars, Shared!vars
<1>21. QED
  BY <1>1, <1>2, <1>3, <1>4, <1>5, <1>6, <1>7, <1>8, <1>9, <1>10, <1>11, <1>12, <1>13, <1>14, <1>15, <1>16, <1>17, <1>18, <1>19, <1>20 DEF Next, Arrive, Handler

LEMMA InitShared == Init => Shared!Init
BY ConstantsAssumption DEF Init, Shared!Init, AskedAt, Flight, Memo, Ended, Waiting,
   Remembered, NoEntry, NoAnswer

\* The cache, its coalescing and its sweep implement the shared probes: for
\* any number of requests, keys and slots, no interleaving shows a client
\* anything else (probeCache.get, handlePing).
THEOREM Implements == Spec => SharesProbes
<1>1. RInv /\ [Next]_vars => [Shared!Next]_(Shared!vars)
  BY Simulates
<1>2. QED
  BY <1>1, InitShared, AlwaysRInv, PTL DEF Spec, SharesProbes, Shared!Spec

-----------------------------------------------------------------------------
(***************************************************************************)
(* What every answer tells of, and how every request comes to one.         *)
(***************************************************************************)
LEMMA DoneIsFinal ==
  ASSUME RInv, [Next]_vars, NEW r \in Requests, pc[r] = "done"
  PROVE  /\ pc'[r] = "done" /\ key'[r] = key[r] /\ deadline'[r] = deadline[r]
         /\ entry'[r] = entry[r] /\ answer'[r] = answer[r]
<1> DEFINE Final == /\ pc'[r] = "done" /\ key'[r] = key[r] /\ deadline'[r] = deadline[r]
                    /\ entry'[r] = entry[r] /\ answer'[r] = answer[r]
<1> USE DEF RInv, IInv, TypeOK
<1>1. ASSUME NEW q \in Requests, Arrive(q) PROVE Final
  BY <1>1 DEF Arrive, HandleLiteral, HandleHost, HandleHostBusy, Goto, MakeKey, Reply, cacheVars
<1>2. ASSUME NEW q \in Requests, LookupFound(q) \/ LookupFailed(q) PROVE Final
  BY <1>2 DEF LookupFound, LookupFailed, Goto, MakeKey, Reply, cacheVars
<1>3. ASSUME NEW q \in Requests, GetHit(q) \/ GetWait(q) \/ GetUncached(q) PROVE Final
  BY <1>3 DEF GetHit, GetWait, GetUncached, Goto, Reply, cacheVars
<1>4. ASSUME NEW q \in Requests, GetInsert(q) PROVE Final
  BY <1>4 DEF GetInsert, Goto
<1>5. ASSUME NEW q \in Requests, ProbeBusy(q) \/ ProbeEnd(q) PROVE Final
  BY <1>5 DEF ProbeBusy, ProbeEnd, Return, Reply
<1>6. ASSUME NEW q \in Requests, ProbeStart(q) PROVE Final
  BY <1>6 DEF ProbeStart, Goto, cacheVars
<1>7. ASSUME NEW q \in Requests, Store(q) PROVE Final
  BY <1>7 DEF Store, Goto, Reply
<1>8. ASSUME NEW q \in Requests, WaitReady(q) \/ WaitTimeout(q) PROVE Final
  BY <1>8 DEF WaitReady, WaitTimeout, Goto, Reply, cacheVars
<1>9. ASSUME NEW q \in Requests, LeaveSRV(q) \/ StrayEnds(q) PROVE Final
  BY <1>9 DEF LeaveSRV, StrayEnds, cacheVars
<1>10. CASE Sweep \/ Tick \/ UNCHANGED vars
  BY <1>10 DEF Sweep, Tick, vars, cacheVars
<1>11. QED
  BY <1>1, <1>2, <1>3, <1>4, <1>5, <1>6, <1>7, <1>8, <1>9, <1>10 DEF Next, Handler

\* An entry is filled with the time of its filling.
EntryPast == \A r \in Requests : entry[r].ready => entry[r].at <= now

LEMMA NowOnlyGrows ==
  ASSUME RInv, [Next]_vars
  PROVE  now' >= now /\ now \in Nat /\ now' \in Nat
<1>1. now' >= now
  BY DEF RInv, IInv, TypeOK, Next, Arrive, Handler, Tick, HandleLiteral, HandleHost, HandleHostBusy,
     LeaveSRV, StrayEnds, LookupFound, LookupFailed, GetHit, GetWait, GetUncached, GetInsert,
     ProbeBusy, ProbeStart, ProbeEnd, Store, WaitReady, WaitTimeout, Sweep, vars
<1>2. QED
  BY <1>1, TypeStep DEF RInv, IInv, TypeOK

LEMMA EntryPastStep == ASSUME RInv, EntryPast, [Next]_vars PROVE EntryPast'
<1> SUFFICES ASSUME NEW r \in Requests, entry'[r].ready PROVE entry'[r].at <= now'
  BY DEF EntryPast
<1> USE DEF RInv, IInv, TypeOK
<1>1. CASE entry[r].ready
  <2>1. entry'[r] = entry[r]
    BY <1>1, DoneIsFinal DEF Control
  <2>2. entry[r].at <= now /\ entry[r].at \in Nat
    BY <1>1 DEF EntryPast, Entry
  <2>3. QED BY <2>1, <2>2, NowOnlyGrows
<1>2. CASE ~entry[r].ready
  <2>1. \/ entry' = entry
        \/ \E q \in Requests : GetInsert(q) \/ Store(q)
    BY DEF Next, Arrive, Handler, Tick, HandleLiteral, HandleHost, HandleHostBusy,
     LeaveSRV, StrayEnds, LookupFound, LookupFailed, GetHit, GetWait, GetUncached,
     ProbeBusy, ProbeStart, ProbeEnd, WaitReady, WaitTimeout, Sweep, vars, cacheVars
  <2>2. ASSUME NEW q \in Requests, GetInsert(q) PROVE FALSE
    BY <1>2, <2>2 DEF GetInsert, NoEntry
  <2>3. ASSUME NEW q \in Requests, Store(q) PROVE entry'[r].at = now /\ now' = now
    BY <1>2, <2>3 DEF Store
  <2>4. QED
    BY <1>2, <2>1, <2>2, <2>3
<1>3. QED
  BY <1>1, <1>2

\* When the request asked: its context was made PingTimeout before it ends.
Since(r) == deadline[r] - PingTimeout

\* A remembered answer is of a probe of the key that ended less than CacheTTL
\* before the question and not after its time; a shared answer is of one that
\* ended after the question; a refusal is the request's own, or that of the
\* probe it had joined; and a timeout is only told when the time is over.
AnsweredWell(r) ==
  LET a == answer[r] IN
  /\ a.kind # "none" => a.of \in Requests
  /\ (a.kind = "cached" \/ (a.kind # "none" /\ a.of # r)) =>
       key[a.of] = key[r] /\ entry[a.of].ready
  /\ a.kind = "cached" =>
       /\ a.of # r
       /\ entry[a.of].res = "probed"
       /\ Since(r) < entry[a.of].at + CacheTTL
       /\ entry[a.of].at <= deadline[r]
  /\ (a.kind \in {"fresh", "busy"} /\ a.of # r) =>
       /\ entry[a.of].res = IF a.kind = "busy" THEN "busy" ELSE "probed"
       /\ entry[a.of].at >= Since(r)
  /\ a.kind = "dns" => a.of = r
  /\ a.kind = "offline" => a.of = r /\ now >= deadline[r]

LEMMA AnsweredStaysWell ==
  ASSUME RInv, [Next]_vars, NEW r \in Requests, AnsweredWell(r), pc[r] = "done"
  PROVE  AnsweredWell(r)'
<1> DEFINE a == answer[r]
<1>1. /\ key'[r] = key[r] /\ deadline'[r] = deadline[r] /\ answer'[r] = a
      /\ Since(r)' = Since(r)
  BY DoneIsFinal DEF Since
<1>2. a.kind # "none"
  BY DEF RInv, Telling
<1>3. a.of \in Requests
  BY <1>2 DEF AnsweredWell
<1>4. entry[a.of].ready => key'[a.of] = key[a.of] /\ entry'[a.of] = entry[a.of]
  <2>1. entry[a.of].ready => pc[a.of] = "done"
    BY <1>3 DEF RInv, IInv, Control
  <2>2. QED BY <1>3, <2>1, DoneIsFinal
<1>5. now' >= now /\ now \in Nat /\ now' \in Nat /\ deadline[r] \in Nat
  BY NowOnlyGrows DEF RInv, IInv, TypeOK
<1>. HIDE DEF a
<1>7. QED
  BY <1>1, <1>2, <1>3, <1>4, <1>5 DEF AnsweredWell, a

\* The steps that answer a request.
LEMMA AnswersWell ==
  ASSUME RInv, EntryPast, Next, NEW r \in Requests, pc[r] # "done", pc'[r] = "done"
  PROVE  AnsweredWell(r)'
<1> USE DEF RInv, IInv, TypeOK
<1> USE ConstantsAssumption
<1>1. \/ HandleHostBusy(r) \/ LookupFailed(r) \/ GetHit(r) \/ ProbeBusy(r) \/ ProbeEnd(r)
      \/ Store(r) \/ WaitReady(r) \/ WaitTimeout(r)
  <2>1. ASSUME NEW q \in Requests, q # r, Arrive(q) \/ Handler(q) PROVE pc'[r] = pc[r]
    BY <2>1 DEF Arrive, HandleLiteral, HandleHost, HandleHostBusy, Handler, LookupFound, LookupFailed,
       GetHit, GetWait, GetUncached, GetInsert, ProbeBusy, ProbeStart, ProbeEnd, Store, WaitReady,
       WaitTimeout, Goto, Return
  <2>2. ASSUME NEW q \in Requests, LeaveSRV(q) \/ StrayEnds(q) PROVE pc'[r] = pc[r]
    BY <2>2 DEF LeaveSRV, StrayEnds
  <2>3. Sweep \/ Tick => pc'[r] = pc[r]
    BY DEF Sweep, Tick
  <2>4. Arrive(r) \/ Handler(r)
    BY <2>1, <2>2, <2>3 DEF Next
  <2>5. ~(\/ HandleLiteral(r) \/ HandleHost(r) \/ LookupFound(r) \/ GetWait(r) \/ GetUncached(r)
          \/ GetInsert(r) \/ ProbeStart(r))
    BY DEF HandleLiteral, HandleHost, LookupFound, GetWait, GetUncached, GetInsert, ProbeStart, Goto
  <2>6. QED
    BY <2>4, <2>5 DEF Arrive, Handler
<1>2. CASE HandleHostBusy(r)
  BY <1>2 DEF HandleHostBusy, Reply, AnsweredWell
<1>3. CASE LookupFailed(r)
  BY <1>3 DEF LookupFailed, Reply, AnsweredWell
<1>4. CASE GetHit(r)
  <2> DEFINE o == m[key[r]]
  <2>1. key[r] \in Keys /\ o \in Requests /\ pc[r] = "get"
    BY <1>4 DEF GetHit, Found, Goto, Control
  <2>2. /\ answer'[r] = [kind |-> "cached", of |-> o]
        /\ UNCHANGED <<now, key, deadline, entry>>
    BY <1>4 DEF GetHit, Reply, Found, cacheVars
  <2>3. entry[o].ready /\ now - entry[o].at < CacheTTL
    BY <1>4 DEF GetHit, Found, Fresh
  <2>4. key[o] = key[r] /\ entry[o].res = "probed" /\ o # r
    BY <2>1, <2>3 DEF PendingStays, BusyNotCached, Control
  <2>5. Since(r) <= now /\ now <= deadline[r] /\ entry[o].at <= now
    <3>1. deadline[r] - PingTimeout <= now /\ now <= deadline[r]
      BY <2>1 DEF Telling, OnTime
    <3>2. entry[o].at <= now
      BY <2>1, <2>3 DEF EntryPast
    <3>3. QED BY <3>1, <3>2 DEF Since
  <2>6. entry[o].at \in Nat /\ Since(r) \in Int
    BY <2>1 DEF Since, Entry
  <2>7. Since(r)' = Since(r)
    BY <2>2 DEF Since
  <2>. HIDE DEF o
  <2>8. QED
    BY <2>1, <2>2, <2>3, <2>4, <2>5, <2>6, <2>7 DEF AnsweredWell
<1>5. CASE ProbeBusy(r) \/ ProbeEnd(r)
  BY <1>5 DEF ProbeBusy, ProbeEnd, Return, Reply, AnsweredWell
<1>6. CASE Store(r)
  BY <1>6 DEF Store, Reply, AnsweredWell
<1>7. CASE WaitReady(r)
  <2> DEFINE o == waitsOn[r]
  <2>1. pc[r] = "wait" /\ o \in Requests /\ entry[o].ready
    BY <1>7 DEF WaitReady, Goto, Control
  <2>2. /\ answer'[r] = [kind |-> IF entry[o].res = "busy" THEN "busy" ELSE "fresh", of |-> o]
        /\ UNCHANGED <<now, key, deadline, entry>>
    BY <1>7 DEF WaitReady, Reply, cacheVars
  <2>3. key[o] = key[r] /\ entry[o].res \in Results
    BY <2>1 DEF WaiterIsServed, Control
  <2>4. Since(r) <= entry[o].at
    BY <2>1 DEF Telling, Since
  <2>5. Since(r)' = Since(r)
    BY <2>2 DEF Since
  <2>6. Since(r) \in Int /\ entry[o].at \in Nat
    BY <2>1 DEF Since, Entry
  <2>. HIDE DEF o
  <2>7. QED
    BY <2>1, <2>2, <2>3, <2>4, <2>5, <2>6 DEF AnsweredWell, Results
<1>8. CASE WaitTimeout(r)
  BY <1>8 DEF WaitTimeout, Reply, AnsweredWell
<1>9. QED
  BY <1>1, <1>2, <1>3, <1>4, <1>5, <1>6, <1>7, <1>8

AnswersTimely == \A r \in Requests : AnsweredWell(r)

TInv == RInv /\ EntryPast /\ AnswersTimely

LEMMA AlwaysTInv == Spec => []TInv
<1>1. Init => EntryPast /\ AnswersTimely
  BY DEF Init, EntryPast, AnswersTimely, AnsweredWell, NoEntry, NoAnswer
<1>2. ASSUME TInv, [Next]_vars PROVE EntryPast' /\ AnswersTimely'
  <2>1. EntryPast'
    BY <1>2, EntryPastStep DEF TInv
  <2>2. ASSUME NEW r \in Requests PROVE AnsweredWell(r)'
    <3>1. CASE pc[r] = "done"
      BY <1>2, <3>1, AnsweredStaysWell DEF TInv, AnswersTimely
    <3>2. CASE pc'[r] # "done"
      <4>1. answer'[r].kind = "none"
        BY <1>2, <3>2, TellingStep DEF TInv, RInv, Telling
      <4>2. QED BY <4>1 DEF AnsweredWell
    <3>3. CASE pc[r] # "done" /\ pc'[r] = "done"
      <4>1. Next
        BY <1>2, <3>3 DEF vars
      <4>2. QED BY <1>2, <3>3, <4>1, AnswersWell DEF TInv
    <3>4. QED BY <3>1, <3>2, <3>3
  <2>3. QED BY <2>1, <2>2 DEF AnswersTimely
<1>3. QED
  BY <1>1, <1>2, AlwaysRInv, PTL DEF Spec, TInv

\* Whatever the order of lookups, probes, stores, sweeps and wake-ups, every
\* answer is of its own key and of its own time: remembered ones are at most
\* the lifetime of the cache older than the question, shared ones are of a probe
\* that ended after it, and a timeout is told by nobody before its time.
THEOREM TimelyAnswers == Spec => []AnswersTimely
BY AlwaysTInv, PTL DEF TInv

-----------------------------------------------------------------------------
\* The guard of a handler's next step holds: a handler that gives a slot back
\* finds a token in the channel, one at the cache finds an entry to answer from or
\* to wait for, or none, and one that waits has been woken or is out of time.
AtWork(r) ==
  \/ pc[r] \in {"lookup", "probe"} /\ inFlight > 0
  \/ pc[r] = "get" /\ \/ Miss(r)
                      \/ Found(r) # None /\ (Fresh(Found(r)) \/ ~entry[Found(r)].ready)
  \/ pc[r] \in {"slot", "store"}
  \/ pc[r] = "wait" /\ (entry[waitsOn[r]].ready \/ now >= deadline[r])

\* Whoever is not answered is at work, or waits for one who is and who waits for
\* nobody.
NobodyIsStuck ==
  \A r \in Requests : pc[r] \notin {"new", "done"} =>
    \/ AtWork(r)
    \/ /\ pc[r] = "wait"
       /\ pc[waitsOn[r]] \in {"slot", "probe", "store"}
       /\ AtWork(waitsOn[r])

\* No handler waits for a slot, an entry or a token that nobody brings, and no
\* two wait for each other: waits are one step long (handlePing, probeCache.get,
\* releaseSlot).
THEOREM NoDeadlock == Spec => []NobodyIsStuck
<1>1. ASSUME IInv, NEW r \in Requests, pc[r] \in {"lookup", "probe"} PROVE inFlight > 0
  <2>1. r \in HoldsSlot
    BY <1>1 DEF HoldsSlot
  <2>2. Cardinality(HoldsSlot) > 0
    BY <2>1, HoldsSlotFinite, FS_EmptySet
  <2>3. QED BY <1>1, <2>2 DEF IInv, SlotsAccounted
<1>2. ASSUME IInv, NEW r \in Requests, pc[r] = "get" PROVE AtWork(r)
  BY <1>2 DEF AtWork, Miss
<1>3. IInv => NobodyIsStuck
  <2> SUFFICES ASSUME IInv, NEW r \in Requests, pc[r] \notin {"new", "done"}
               PROVE  \/ AtWork(r)
                      \/ /\ pc[r] = "wait"
                         /\ pc[waitsOn[r]] \in {"slot", "probe", "store"}
                         /\ AtWork(waitsOn[r])
    BY DEF NobodyIsStuck
  <2>1. CASE pc[r] # "wait"
    <3>1. pc[r] \in {"lookup", "get", "slot", "probe", "store"}
      BY <2>1 DEF IInv, TypeOK, PCs
    <3>2. QED BY <1>1, <1>2, <3>1 DEF AtWork
  <2>2. CASE pc[r] = "wait" /\ ~entry[waitsOn[r]].ready
    <3>1. waitsOn[r] \in Requests /\ Filling(waitsOn[r])
      BY <2>2 DEF IInv, Control, WaiterIsServed
    <3>2. QED BY <1>1, <2>2, <3>1 DEF Filling, AtWork
  <2>3. CASE pc[r] = "wait" /\ entry[waitsOn[r]].ready
    BY <2>3 DEF AtWork
  <2>4. QED BY <2>1, <2>2, <2>3
<1>4. QED
  BY <1>3, AlwaysIInv, PTL

\* How many steps a request may still take; a waiter counts those of the probe it
\* waits for.
Rank(at) ==
  IF at = "new" THEN 7 ELSE IF at = "lookup" THEN 6 ELSE IF at = "get" THEN 5
  ELSE IF at = "slot" THEN 3 ELSE IF at = "probe" THEN 2
  ELSE IF at \in {"store", "wait"} THEN 1 ELSE 0

StepsLeft(r) == Rank(pc[r]) + IF pc[r] = "wait" THEN Rank(pc[waitsOn[r]]) ELSE 0

\* A step of the request, or of the one it waits for.
Concerns(r) == pc'[r] # pc[r] \/ (pc[r] = "wait" /\ pc'[waitsOn[r]] # pc[waitsOn[r]])

\* Every step of a handler goes forward.
LEMMA PcForward ==
  ASSUME IInv, [Next]_vars, NEW r \in Requests
  PROVE  /\ pc'[r] # pc[r] => Rank(pc'[r]) < Rank(pc[r])
         /\ pc'[r] = "wait" => pc[r] \in {"get", "wait"}
         /\ pc[r] = "wait" => waitsOn'[r] = waitsOn[r]
         /\ pc[r] = "get" /\ pc'[r] = "wait" =>
              waitsOn'[r] \in Requests /\ pc'[waitsOn'[r]] \in {"slot", "probe", "store", "done"}
<1> DEFINE Forward == /\ pc'[r] # pc[r] => Rank(pc'[r]) < Rank(pc[r])
                      /\ pc'[r] = "wait" => pc[r] \in {"get", "wait"}
                      /\ pc[r] = "wait" => waitsOn'[r] = waitsOn[r]
                      /\ pc[r] = "get" /\ pc'[r] = "wait" =>
                           waitsOn'[r] \in Requests /\ pc'[waitsOn'[r]] \in {"slot", "probe", "store", "done"}
<1> USE DEF IInv, TypeOK
<1>1. ASSUME NEW q \in Requests, Arrive(q) PROVE Forward
  BY <1>1 DEF Arrive, HandleLiteral, HandleHost, HandleHostBusy, Goto, cacheVars, Rank
<1>2. ASSUME NEW q \in Requests, LookupFound(q) \/ LookupFailed(q) PROVE Forward
  BY <1>2 DEF LookupFound, LookupFailed, Goto, cacheVars, Rank
<1>3. ASSUME NEW q \in Requests, GetHit(q) \/ GetUncached(q) PROVE Forward
  BY <1>3 DEF GetHit, GetUncached, Goto, cacheVars, Rank
<1>4. ASSUME NEW q \in Requests, GetWait(q) PROVE Forward
  <2>1. /\ pc' = [pc EXCEPT ![q] = "wait"] /\ pc[q] = "get"
        /\ waitsOn' = [waitsOn EXCEPT ![q] = Found(q)]
    BY <1>4 DEF GetWait, Goto
  <2>2. Found(q) \in owners /\ ~entry[Found(q)].ready
    BY <1>4 DEF GetWait, Goto, Found, PendingStays, Control
  <2>3. Found(q) \in Requests /\ pc[Found(q)] \in {"slot", "probe", "store"}
    BY <2>2 DEF Control
  <2>4. QED
    BY <2>1, <2>3 DEF Rank
<1>5. ASSUME NEW q \in Requests, GetInsert(q) PROVE Forward
  BY <1>5 DEF GetInsert, Goto, Rank
<1>6. ASSUME NEW q \in Requests, ProbeBusy(q) \/ ProbeEnd(q) PROVE Forward
  BY <1>6 DEF ProbeBusy, ProbeEnd, Return, Rank
<1>7. ASSUME NEW q \in Requests, ProbeStart(q) PROVE Forward
  BY <1>7 DEF ProbeStart, Goto, cacheVars, Rank
<1>8. ASSUME NEW q \in Requests, Store(q) PROVE Forward
  BY <1>8 DEF Store, Goto, Rank
<1>9. ASSUME NEW q \in Requests, WaitReady(q) \/ WaitTimeout(q) PROVE Forward
  BY <1>9 DEF WaitReady, WaitTimeout, Goto, cacheVars, Rank
<1>10. ASSUME NEW q \in Requests, LeaveSRV(q) \/ StrayEnds(q) PROVE Forward
  BY <1>10 DEF LeaveSRV, StrayEnds, cacheVars
<1>11. CASE Sweep \/ Tick \/ UNCHANGED vars
  BY <1>11 DEF Sweep, Tick, vars, cacheVars
<1>12. QED
  BY <1>1, <1>2, <1>3, <1>4, <1>5, <1>6, <1>7, <1>8, <1>9, <1>10, <1>11 DEF Next, Handler

\* No step of anybody adds to what a request has before it, and no step of its own,
\* or of the probe it shares, leaves it as it was.
MovesOn ==
  [][\A r \in Requests :
       /\ StepsLeft(r)' <= StepsLeft(r)
       /\ Concerns(r) => StepsLeft(r)' < StepsLeft(r)]_vars

\* A request is answered after seven steps at most, its own and those of the probe
\* it shares (handlePing, probeCache.get).
THEOREM SevenStepsAtMost ==
  Spec => [](\A r \in Requests : StepsLeft(r) \in 0 .. 7) /\ MovesOn
<1>1. IInv => \A r \in Requests : StepsLeft(r) \in 0 .. 7
  <2> SUFFICES ASSUME IInv, NEW r \in Requests PROVE StepsLeft(r) \in 0 .. 7
    OBVIOUS
  <2>1. CASE pc[r] = "wait"
    <3>1. pc[waitsOn[r]] \in {"slot", "probe", "store", "done"}
      BY <2>1 DEF IInv, Control, WaiterIsServed
    <3>2. Rank(pc[waitsOn[r]]) \in 0 .. 3
      BY <3>1 DEF Rank
    <3>3. QED BY <2>1, <3>2 DEF StepsLeft, Rank
  <2>2. CASE pc[r] # "wait"
    BY <2>2 DEF StepsLeft, Rank
  <2>3. QED BY <2>1, <2>2
<1>2. ASSUME IInv, [Next]_vars, NEW r \in Requests
      PROVE  /\ StepsLeft(r)' <= StepsLeft(r)
             /\ Concerns(r) => StepsLeft(r)' < StepsLeft(r)
  <2>0. \A at : Rank(at) \in 0 .. 7
    BY DEF Rank
  <2>1. CASE pc[r] = "wait"
    <3> DEFINE o == waitsOn[r]
    <3>1. o \in Requests /\ waitsOn'[r] = o
      BY <1>2, <2>1, PcForward DEF IInv, Control
    <3>2. pc'[o] # pc[o] => Rank(pc'[o]) < Rank(pc[o])
      BY <1>2, <3>1, PcForward
    <3>3. pc'[r] # pc[r] => Rank(pc'[r]) < Rank(pc[r])
      BY <1>2, PcForward
    <3>4. StepsLeft(r) = Rank(pc[r]) + Rank(pc[o])
      BY <2>1 DEF StepsLeft
    <3>5. StepsLeft(r)' = Rank(pc'[r]) + IF pc'[r] = "wait" THEN Rank(pc'[o]) ELSE 0
      BY <3>1 DEF StepsLeft
    <3>6. Concerns(r) <=> pc'[r] # pc[r] \/ pc'[o] # pc[o]
      BY <2>1 DEF Concerns
    <3>. HIDE DEF o
    <3>7. QED
      BY <2>0, <2>1, <3>2, <3>3, <3>4, <3>5, <3>6
  <2>2. CASE pc[r] # "wait" /\ pc'[r] # "wait"
    <3>1. StepsLeft(r) = Rank(pc[r]) /\ StepsLeft(r)' = Rank(pc'[r])
      BY <2>0, <2>2 DEF StepsLeft
    <3>2. QED
      BY <1>2, <2>0, <2>2, <3>1, PcForward DEF Concerns
  <2>3. CASE pc[r] # "wait" /\ pc'[r] = "wait"
    <3>1. /\ pc[r] = "get"
          /\ pc'[waitsOn'[r]] \in {"slot", "probe", "store", "done"}
      BY <1>2, <2>3, PcForward
    <3>2. StepsLeft(r) = 5 /\ StepsLeft(r)' <= 4 /\ StepsLeft(r)' \in Nat
      BY <2>3, <3>1 DEF StepsLeft, Rank
    <3>3. QED BY <3>2
  <2>4. QED BY <2>1, <2>2, <2>3
<1>3. IInv /\ [Next]_vars =>
        [\A r \in Requests : /\ StepsLeft(r)' <= StepsLeft(r)
                             /\ Concerns(r) => StepsLeft(r)' < StepsLeft(r)]_vars
  BY <1>2
<1>4. QED
  BY <1>1, <1>3, AlwaysIInv, PTL DEF Spec, MovesOn

\* An expired entry stays expired as long as it is in the map, so that the next
\* sweep finds it, and a sweep leaves none behind (probeCache.sweep).
THEOREM SweepFindsExpired ==
  Spec => [][/\ \A k \in Keys : Expired(k) => Expired(k)' \/ m'[k] # m[k]
             /\ Sweep => \A k \in Keys : ~Expired(k)']_vars
<1>1. ASSUME RInv, [Next]_vars, NEW k \in Keys, Expired(k), m'[k] = m[k] PROVE Expired(k)'
  <2> DEFINE o == m[k]
  <2>1. o \in Requests /\ entry[o].ready /\ now - entry[o].at >= CacheTTL /\ entry[o].at \in Nat
    BY <1>1 DEF Expired, RInv, IInv, TypeOK, Entry
  <2>2. entry'[o] = entry[o]
    BY <1>1, <2>1, DoneIsFinal DEF RInv, IInv, Control
  <2>3. now' - entry'[o].at >= CacheTTL
    BY <1>1, <2>1, <2>2, NowOnlyGrows, ConstantsAssumption
  <2>. HIDE DEF o
  <2>4. QED
    BY <1>1, <2>1, <2>2, <2>3 DEF Expired, o
<1>2. ASSUME RInv, Sweep, NEW k \in Keys PROVE ~Expired(k)'
  BY <1>2, ConstantsAssumption DEF Sweep, Expired, RInv, IInv, TypeOK
<1>3. RInv /\ [Next]_vars =>
        [/\ \A k \in Keys : Expired(k) => Expired(k)' \/ m'[k] # m[k]
         /\ Sweep => \A k \in Keys : ~Expired(k)']_vars
  BY <1>1, <1>2
<1>4. QED
  BY <1>3, AlwaysRInv, PTL DEF Spec
=============================================================================
