----------------------------- MODULE SharedProbe -----------------------------
(***************************************************************************)
(* What the result cache and its coalescing promise a client, with no      *)
(* entries, slots or handler steps: per key at most one probe that others  *)
(* share is in flight, and at most one finished probe is remembered.  A    *)
(* request is answered by a probe of its own, by one in flight that ends   *)
(* after it asked, by the remembered one while that is young, or by a      *)
(* refusal.  PingService implements this specification.                    *)
(***************************************************************************)
EXTENDS Integers

CONSTANTS
  Requests,
  Keys,
  None,
  CacheTTL,
  PingTimeout,
  MaxTime

VARIABLES
  now,
  want,    \* the key each request asks for
  asked,   \* when it asked
  flight,  \* the shared probe of each key, named by the request that began it
  memo,    \* the remembered probe of each key
  ended,   \* how and when each shared probe ended
  answer

vars == <<now, want, asked, flight, memo, ended, answer>>

Init ==
  /\ now = 0
  /\ want = [r \in Requests |-> None]
  /\ asked = [r \in Requests |-> 0]
  /\ flight = [k \in Keys |-> None]
  /\ memo = [k \in Keys |-> None]
  /\ ended = [r \in Requests |-> None]
  /\ answer = [r \in Requests |-> [kind |-> "none", of |-> None]]

-----------------------------------------------------------------------------
Say(r, kind, of) ==
  /\ answer[r].kind = "none"
  /\ answer' = [answer EXCEPT ![r] = [kind |-> kind, of |-> of]]

Young(o) == now - ended[o].at < CacheTTL

\* How the probe o is told to those who shared it.
Told(o) == IF ended[o].res = "busy" THEN "busy" ELSE "fresh"

\* A request is in, its key known.
Ask(r) ==
  /\ want[r] = None
  /\ \E k \in Keys : want' = [want EXCEPT ![r] = k]
  /\ asked' = [asked EXCEPT ![r] = now]
  /\ UNCHANGED <<now, flight, memo, ended, answer>>

\* No key: the name did not resolve, or there was no room to ask.
Refuse(r) ==
  /\ want[r] = None
  /\ \E kind \in {"busy", "dns"} : Say(r, kind, r)
  /\ UNCHANGED <<now, want, asked, flight, memo, ended>>

\* A shared probe begins: none is in flight, and none is remembered that is
\* young enough to answer.
Begin(r) ==
  /\ \E k \in Keys :
       /\ want[r] = k
       /\ flight[k] = None
       /\ memo[k] # None => ~Young(memo[k])
       /\ flight' = [flight EXCEPT ![k] = r]
       /\ memo' = [memo EXCEPT ![k] = None]
  /\ UNCHANGED <<now, want, asked, ended, answer>>

\* It ends, and is remembered unless it never ran.
End(r) ==
  /\ \E k \in Keys, res \in {"busy", "probed"} :
       /\ flight[k] = r
       /\ flight' = [flight EXCEPT ![k] = None]
       /\ ended' = [ended EXCEPT ![r] = [res |-> res, at |-> now]]
       /\ memo' = IF res = "busy" THEN memo ELSE [memo EXCEPT ![k] = r]
       /\ Say(r, IF res = "busy" THEN "busy" ELSE "fresh", r)
  /\ UNCHANGED <<now, want, asked>>

\* A probe of the request's own, shared with nobody.
Alone(r) ==
  /\ want[r] \in Keys
  /\ flight[want[r]] # r
  /\ \E kind \in {"busy", "fresh"} : Say(r, kind, r)
  /\ UNCHANGED <<now, want, asked, flight, memo, ended>>

\* The answer of a shared probe of the same key that ended after the request
\* asked, and so began before the request's own time was up.
Share(r) ==
  /\ \E o \in Requests :
       /\ want[o] = want[r]
       /\ ended[o] # None
       /\ ended[o].at >= asked[r]
       /\ Say(r, Told(o), o)
  /\ UNCHANGED <<now, want, asked, flight, memo, ended>>

\* The remembered answer.
Recall(r) ==
  /\ \E k \in Keys :
       /\ want[r] = k
       /\ memo[k] # None
       /\ Young(memo[k])
       /\ Say(r, "cached", memo[k])
  /\ UNCHANGED <<now, want, asked, flight, memo, ended>>

\* Whoever reports a timeout has waited all of its own time for it.
GiveUp(r) ==
  /\ want[r] \in Keys
  /\ now >= asked[r] + PingTimeout
  /\ Say(r, "offline", r)
  /\ UNCHANGED <<now, want, asked, flight, memo, ended>>

\* Only what is too old to answer may be forgotten.
Forget ==
  /\ \E gone \in SUBSET {k \in Keys : memo[k] # None /\ ~Young(memo[k])} :
       memo' = [k \in Keys |-> IF k \in gone THEN None ELSE memo[k]]
  /\ UNCHANGED <<now, want, asked, flight, ended, answer>>

Tick ==
  /\ now < MaxTime
  /\ now' = now + 1
  /\ UNCHANGED <<want, asked, flight, memo, ended, answer>>

Next ==
  \/ \E r \in Requests :
       \/ Ask(r) \/ Refuse(r) \/ Begin(r) \/ End(r)
       \/ Alone(r) \/ Share(r) \/ Recall(r) \/ GiveUp(r)
  \/ Forget
  \/ Tick

Spec == Init /\ [][Next]_vars
=============================================================================
