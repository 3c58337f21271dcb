----------------------------- MODULE HealthCopy -----------------------------
(***************************************************************************)
(* The web host's copy of the backend's /health (api.php).  A request is   *)
(* answered from the copy at once; after that, one request at a time       *)
(* renews a copy that is too old.  PHP workers are processes that share    *)
(* the copy's file and a lock, and any of them may end at any point; the   *)
(* system then frees its lock.                                             *)
(*                                                                         *)
(* time() gives whole seconds, the backend's limiter counts finer ones:    *)
(* the clock runs in ticks, Second of them a second.                       *)
(***************************************************************************)
EXTENDS Integers, FiniteSets

CONSTANTS
  Workers,        \* PHP processes
  None,           \* null
  Second,         \* ticks in a second
  HealthTTL,      \* HEALTH_TTL, 7, in seconds
  HealthInterval, \* healthInterval of the backend, 7 s, in ticks
  HealthMax,      \* healthMax of the backend, 4
  MaxLost,        \* bound of the model: renewals that are lost
  MaxTime         \* bound of the model: the clock stops here

ASSUME HealthCopyAssumption ==
  /\ None \notin Workers \cup Int
  /\ {Second, HealthTTL, HealthInterval, HealthMax} \subseteq Nat \ {0}
  /\ {MaxLost, MaxTime} \subseteq Nat
  \* The two are both 7 seconds, and 2 * 7 - 1 is more than 7.
  /\ HealthInterval < (2 * HealthTTL - 1) * Second
  /\ HealthMax >= 4

VARIABLES
  now,
  pc,    \* where each worker is
  young, \* the copy a request was answered from needs no renewal
  stamp, \* the time in the copy a worker has written but not yet renamed
  copy,  \* HEALTH_CACHE: when the copy was made, None while there is none
  lock,  \* the holder of HEALTH_LOCK
  calls, \* history: the backend's list of calls within HealthInterval, as pairs
         \* of a time and the number of equal times before it
  lost   \* history: renewals that called the backend and left no copy

vars == <<now, pc, young, stamp, copy, lock, calls, lost>>

(***************************************************************************)
(* "idle"     waits for a request                                          *)
(* "answered" in refresh_health, the answer is sent                        *)
(* "locked"   holds the lock, about to read the copy again                 *)
(* "first"    about to call the backend                                    *)
(* "calling"  the first call runs                                          *)
(* "second"   about to call again, the first brought no answer             *)
(* "again"    the second call runs                                         *)
(* "write"    about to write the copy beside the old one                   *)
(* "rename"   about to put it in place                                     *)
(***************************************************************************)
Holding == {"locked", "first", "calling", "second", "again", "write", "rename"}
Time == now \div Second

TypeOK ==
  /\ now \in 0 .. MaxTime
  /\ pc \in [Workers -> Holding \cup {"idle", "answered"}]
  /\ young \in [Workers -> BOOLEAN]
  /\ stamp \in [Workers -> 0 .. Time]
  /\ copy \in (0 .. Time) \cup {None}
  /\ lock \in Workers \cup {None}
  /\ calls \in SUBSET ((0 .. now) \X Nat)
  /\ lost \in 0 .. MaxLost

Init ==
  /\ now = 0
  /\ pc = [w \in Workers |-> "idle"]
  /\ young = [w \in Workers |-> FALSE]
  /\ stamp = [w \in Workers |-> 0]
  /\ copy = None
  /\ lock = None
  /\ calls = {}
  /\ lost = 0

-----------------------------------------------------------------------------
Goto(w, from, to) == pc[w] = from /\ pc' = [pc EXCEPT ![w] = to]

\* kept_health.
Age == IF copy = None THEN None ELSE Time - copy
YoungOrMissing(a) == a = None \/ a < HealthTTL  \* seeded fault
Young(a) == a # None /\ a < HealthTTL

\* A request reads the copy and is answered.
Answer(w) ==
  /\ Goto(w, "idle", "answered")
  /\ young' = [young EXCEPT ![w] = Young(Age)]
  /\ UNCHANGED <<now, stamp, copy, lock, calls, lost>>

\* refresh_health returns at once.  That the lock file cannot be opened is that
\* the lock is not obtained; it is modelled where another worker holds it.
NothingToDo(w) ==
  /\ Goto(w, "answered", "idle")
  /\ young[w] \/ lock # None
  /\ young' = [young EXCEPT ![w] = FALSE]
  /\ UNCHANGED <<now, stamp, copy, lock, calls, lost>>

\* Seeded fault: the lock is not asked for.
TakeLockAnyway(w) ==
  /\ Goto(w, "answered", "locked")
  /\ ~young[w]
  /\ lock' = w
  /\ UNCHANGED <<now, young, stamp, copy, calls, lost>>

TakeLock(w) ==
  /\ Goto(w, "answered", "locked")
  /\ ~young[w]
  /\ lock = None
  /\ lock' = w
  /\ UNCHANGED <<now, young, stamp, copy, calls, lost>>

\* Under the lock the copy is read again: another worker may have renewed it.
StillOldAlways == TRUE  \* seeded fault
StillOld == ~Young(Age)

Renewed(w) ==
  /\ Goto(w, "locked", "idle")
  /\ ~StillOld
  /\ lock' = None
  /\ UNCHANGED <<now, young, stamp, copy, calls, lost>>

NotRenewed(w) ==
  /\ Goto(w, "locked", "first")
  /\ StillOld
  /\ UNCHANGED <<now, young, stamp, copy, lock, calls, lost>>

\* Calls older than HealthInterval no longer count for the backend.
Recent(times, at) == {t \in times : at - t[1] < HealthInterval}

Call(w) ==
  /\ Goto(w, "first", "calling") \/ Goto(w, "second", "again")
  /\ calls' = calls \cup {<<now, Cardinality({t \in calls : t[1] = now})>>}
  /\ UNCHANGED <<now, young, stamp, copy, lock, lost>>

\* The backend's answer, or after BACKEND_TIMEOUT none: the second time that
\* is kept like an answer.
CallEnds(w) ==
  /\ Goto(w, "calling", "write") \/ Goto(w, "calling", "second") \/ Goto(w, "again", "write")
  /\ UNCHANGED <<now, young, stamp, copy, lock, calls, lost>>

\* Seeded fault: the copy holds the time it ends at.
WriteEnd(w) ==
  /\ Goto(w, "write", "rename")
  /\ stamp' = [stamp EXCEPT ![w] = Time + HealthTTL]
  /\ UNCHANGED <<now, young, copy, lock, calls, lost>>

Write(w) ==
  /\ Goto(w, "write", "rename")
  /\ stamp' = [stamp EXCEPT ![w] = Time]
  /\ UNCHANGED <<now, young, copy, lock, calls, lost>>

WriteFails(w) ==
  /\ Goto(w, "write", "idle")
  /\ lost < MaxLost
  /\ lost' = lost + 1
  /\ lock' = None
  /\ UNCHANGED <<now, young, stamp, copy, calls>>

\* The rename, and the lock is given back.
Rename(w) ==
  /\ Goto(w, "rename", "idle")
  /\ copy' = stamp[w]
  /\ stamp' = [stamp EXCEPT ![w] = 0]
  /\ lock' = None
  /\ UNCHANGED <<now, young, calls, lost>>

\* A worker ends while it holds the lock.
Crash(w) ==
  /\ pc[w] \in Holding
  /\ lost < MaxLost
  /\ lost' = lost + 1
  /\ pc' = [pc EXCEPT ![w] = "idle"]
  /\ stamp' = [stamp EXCEPT ![w] = 0]
  /\ lock' = None
  /\ UNCHANGED <<now, young, copy, calls>>

Tick ==
  /\ now < MaxTime
  /\ now' = now + 1
  /\ calls' = Recent(calls, now + 1)
  /\ UNCHANGED <<pc, young, stamp, copy, lock, lost>>

Refresh(w) ==
  \/ NothingToDo(w) \/ TakeLock(w) \/ Renewed(w) \/ NotRenewed(w)
  \/ Call(w) \/ CallEnds(w) \/ Write(w) \/ WriteFails(w) \/ Rename(w)

Next == Tick \/ \E w \in Workers : Answer(w) \/ Refresh(w) \/ Crash(w)

Spec == Init /\ [][Next]_vars

\* Visitors keep coming, and a worker finishes what it began.
Fairness == \A w \in Workers : WF_vars(Answer(w)) /\ WF_vars(Refresh(w))

FairSpec == Spec /\ Fairness

-----------------------------------------------------------------------------
(***************************************************************************)
(* Properties.                                                             *)
(***************************************************************************)

\* The web host never runs into the health limit of the backend by itself,
\* however many visitors there are: within HealthInterval it makes HealthMax
\* calls at most, retries included, though seconds are cut off.  Only a
\* renewal that is lost before the rename costs two calls more.
BackendSpared == Cardinality(calls) <= HealthMax + 2 * lost

\* A copy is never replaced by an older one.
CopyNeverOlder ==
  [][copy # None => copy' # None /\ copy' >= copy]_vars

\* While visitors come, a missing or old copy is renewed, also after workers
\* have ended with the lock or their write has failed.
CopyRenewed == []<>(copy # None /\ Time - copy < HealthTTL)
=============================================================================
