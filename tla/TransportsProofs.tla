-------------------------- MODULE TransportsProofs --------------------------
(***************************************************************************)
(* Proofs about Transports, for any timeouts, number of attempts, contexts *)
(* and faults, and about Varint, the numbers of Java's status.             *)
(***************************************************************************)
EXTENDS Transports, Varint, NumberFacts

LEMMA Constants ==
  /\ IOTimeout \in Nat \ {0} /\ ReplyTimeout \in Nat \ {0} /\ PongWait \in Nat \ {0}
  /\ Attempts \in Nat \ {0} /\ Lateness \in Nat \ {0}
  /\ \A c \in Contexts : c \in Nat \ {0} /\ c > IOTimeout /\ c > (Attempts - 1) * ReplyTimeout
  /\ MaxFaults \in Nat /\ MaxFaults >= Attempts
BY TransportsAssumption

LEMMA Nil ==
  /\ None \notin Nat /\ None \notin Descriptions
  /\ None \notin {"status", "weak", "no_address", "no_network", "rejected", "other"}
  /\ None \notin {"ping", "syn", "request", "echo", "get", "hello", "secure", "body"}
<1>1. None \notin Nat /\ None \notin Descriptions /\ None \notin Ends
  BY NoneAssumption
<1>2. {"raknet", "nethernet", "tcp"} = Protocols
  BY DEF Protocols
<1>3. /\ None \notin Questions["raknet"] /\ None \notin Questions["tcp"]
      /\ None \notin Questions["nethernet"]
  BY <1>2, NoneAssumption
<1>4. QED BY <1>1, <1>3 DEF Ends, Errors, LocalErrors, Questions

\* What each question may get for an answer.
LEMMA Answers ==
  /\ Replies("ping") = {"pong", "weak", "junk", "refused", "rejected", "silent"}
  /\ Replies("syn") = {"accept", "refused", "rejected", "silent"}
  /\ Replies("request") = {"status", "junk", "close", "silent"}
  /\ Replies("echo") = {"pong", "junk", "close", "silent"}
  /\ Replies("hello") = {"accept", "junk", "close", "silent"}
  /\ Replies("get") = {"ok", "no", "junk", "close", "silent"}
  /\ Replies("secure") = {"ok", "no", "junk", "close", "silent"}
  /\ Replies("body") = {"status", "empty", "junk", "close", "silent"}
BY DEF Replies, PingReplies, StatusReplies, BodyReplies

LEMMA Asks ==
  /\ Questions["raknet"] = {"ping"}
  /\ Questions["tcp"] = {"syn", "request", "echo"}
  /\ Questions["nethernet"] = {"syn", "get", "hello", "secure", "body"}
BY DEF Questions

\* A server replies to what it is asked.
LEMMA ServerReplies ==
  ASSUME NEW p \in Protocols, NEW s \in Servers(p), NEW q \in Questions[p]
  PROVE  s[q] \in (IF IsAsked(s, q) THEN Replies(q) ELSE {"silent"})
BY DEF Servers

LEMMA ServerSilent ==
  ASSUME NEW p \in Protocols, NEW s \in Servers(p), NEW q \in Questions[p], s[q] # "silent"
  PROVE  s[q] \in Replies(q) /\ IsAsked(s, q)
BY ServerReplies

-----------------------------------------------------------------------------
\* A probe that waits runs, its wait has not gone by unnoticed, and its context
\* is one of those that may be.
Running ==
  /\ ctxEnd \in Contexts
  /\ asked # None => out = None /\ now <= until

\* Only Java reads a status before it asks for the last time.
StatusRead == status # None => proto = "tcp" /\ (out = "status" \/ (out = None /\ asked = "echo"))

IInv == TypeOK /\ Running /\ StatusRead /\ EndsWithContext

Air == \A a \in air : a.what \in Replies(a.q)
Went == [connected : BOOLEAN, handshake : BOOLEAN, ok : BOOLEAN]
AttemptsMade == 0 .. (IF proto = "raknet" THEN Attempts ELSE 2)

\* The types in the form that the proofs use.
LEMMA Types ==
  ASSUME TypeOK, Running
  PROVE  /\ proto \in Protocols /\ server \in Servers(proto)
         /\ now \in Nat /\ until \in Nat /\ ctxEnd \in Nat
         /\ now <= ctxEnd /\ until <= ctxEnd /\ 0 < ctxEnd
         /\ cancelled = None \/ (cancelled \in Nat /\ cancelled <= now)
         /\ asked \in Questions[proto] \cup {None}
         /\ attempt \in Nat /\ attempt \in AttemptsMade
         /\ lastErr \in Errors \cup {None} /\ went \in Went
         /\ faults \in Nat /\ faults <= MaxFaults
         /\ Air
BY Constants DEF TypeOK, Running, AttemptsMade, Air, Went

\* ... and back.
LEMMA TypesBack ==
  ASSUME proto' \in Protocols, server' \in Servers(proto'),
         now' \in Nat, until' \in Nat, ctxEnd' \in Nat, now' <= ctxEnd', until' <= ctxEnd',
         cancelled' = None \/ (cancelled' \in Nat /\ cancelled' <= now'),
         asked' \in Questions[proto'] \cup {None}, attempt' \in AttemptsMade',
         lastErr' \in Errors \cup {None}, went' \in Went, faults' \in Nat, faults' <= MaxFaults,
         status' \in Descriptions \cup {None}, out' \in Ends \cup {None},
         closed' => cancelled' # None \/ now' = ctxEnd', Air'
  PROVE  TypeOK'
<1>1. now' \in 0 .. ctxEnd' /\ until' \in 0 .. ctxEnd' /\ faults' \in 0 .. MaxFaults
  BY Constants
<1>2. cancelled' \in (0 .. now') \cup {None}
  OBVIOUS
<1>3. QED BY <1>1, <1>2 DEF TypeOK, AttemptsMade, Air, Went

\* What the network does with a question.
LEMMA TransmitKeeps ==
  ASSUME TypeOK, Running, proto' = proto, NEW q \in Questions[proto], Transmit(q)
  PROVE  /\ Air' /\ faults' \in Nat /\ faults' <= MaxFaults /\ faults <= faults'
         /\ faults' = faults =>
              air' = IF server[q] = "silent" THEN air ELSE air \cup {Sent(q, server[q], now)}
<1>1. /\ proto \in Protocols /\ server \in Servers(proto) /\ now \in Nat
      /\ faults \in Nat /\ faults <= MaxFaults /\ Air
  BY Types
<1>2. server[q] # "silent" => server[q] \in Replies(q)
  BY <1>1, ServerSilent
<1>3. faults' \in Nat /\ faults' <= MaxFaults /\ faults <= faults'
  BY <1>1, Constants DEF Transmit
<1>4. faults' = faults =>
        air' = IF server[q] = "silent" THEN air ELSE air \cup {Sent(q, server[q], now)}
  BY <1>1 DEF Transmit
\* Whatever is put on its way is a reply to q.
<1>5. ASSUME NEW what \in Replies(q), NEW by
      PROVE  Sent(q, what, by).what \in Replies(Sent(q, what, by).q)
  BY DEF Sent
<1>6. Air'
  <2>1. CASE air' = air
    BY <1>1, <2>1 DEF Air
  <2>2. CASE server[q] # "silent" /\ \E by : air' = air \cup {Sent(q, server[q], by)}
    BY <1>1, <1>2, <1>5, <2>2 DEF Air
  <2>3. CASE \E bad \in Replies(q) : air' = air \cup {Sent(q, bad, now)}
    BY <1>1, <1>5, <2>3 DEF Air
  <2>4. CASE /\ server[q] # "silent"
             /\ air' = air \cup {Sent(q, server[q], now), Sent(q, server[q], now + 1)}
    BY <1>1, <1>2, <1>5, <2>4 DEF Air
  <2>5. QED BY <2>1, <2>2, <2>3, <2>4 DEF Transmit, Fault
<1>7. QED BY <1>3, <1>4, <1>6

\* The probe sends q and waits until then.
LEMMA AskKeeps ==
  ASSUME TypeOK, Running, proto' = proto, NEW q \in Questions[proto],
         NEW then \in Nat, now <= then, Ask(q, then)
  PROVE  /\ asked' = q /\ until' \in Nat /\ now <= until' /\ until' <= ctxEnd /\ until' <= then
         /\ now < then /\ now < ctxEnd => now < until'
         /\ Air' /\ faults' \in Nat /\ faults' <= MaxFaults /\ faults <= faults'
         /\ faults' = faults =>
              air' = IF server[q] = "silent" THEN air ELSE air \cup {Sent(q, server[q], now)}
<1>1. now \in Nat /\ ctxEnd \in Nat /\ now <= ctxEnd
  BY Types
<1>2. until' = IF then <= ctxEnd THEN then ELSE ctxEnd
  BY <1>1, SmallerOfTwo DEF Ask
<1>3. asked' = q /\ Transmit(q)
  BY DEF Ask
<1>4. QED BY <1>1, <1>2, <1>3, TransmitKeeps

\* A question that fails: the probe ends, or goes on with nothing asked.
LEMMA FailsKeeps ==
  ASSUME TypeOK, Running, NEW error \in Errors, Fails(error)
  PROVE  /\ asked' = None /\ until' = until
         /\ attempt' \in AttemptsMade
         /\ lastErr' \in Errors \cup {None} /\ went' \in Went
         /\ out' \in Ends \cup {None} \/ out' = out
         /\ proto = "tcp" /\ asked = "echo" => out' = "status"
<1>1. /\ proto \in Protocols /\ attempt \in AttemptsMade /\ lastErr \in Errors \cup {None}
      /\ went \in Went
  BY Types
<1>2. CASE RakNetFails(error)
  BY <1>1, <1>2 DEF RakNetFails
<1>3. CASE JavaFails(error)
  BY <1>1, <1>3 DEF JavaFails, End, Ends
<1>4. CASE NetherNetFails(error)
  <2>1. proto = "nethernet" /\ 2 \in AttemptsMade /\ NotFar \in Went /\ Errors \subseteq Ends
    BY <1>4 DEF NetherNetFails, AttemptsMade, NotFar, Went, Ends
  <2>2. CASE attempt = 2
    BY <1>1, <1>4, <2>1, <2>2 DEF NetherNetFails, End
  <2>3. CASE attempt # 2
    BY <1>1, <1>4, <2>1, <2>3 DEF NetherNetFails, End
  <2>4. QED BY <2>2, <2>3
<1>5. QED BY <1>2, <1>3, <1>4 DEF Fails

LEMMA ErrorKinds == \A what : ErrorOf(what) \in Errors
BY DEF ErrorOf, Errors

-----------------------------------------------------------------------------
(***************************************************************************)
(* The actions, one lemma each.                                            *)
(***************************************************************************)
LEMMA InitIInv == Init => IInv
<1>. SUFFICES ASSUME Init PROVE IInv
  OBVIOUS
<1>1. now = 0 /\ until = 0 /\ faults = 0 /\ air = {} /\ ctxEnd \in Nat /\ ctxEnd \in Contexts
  BY Constants DEF Init
<1>2. attempt \in 0 .. (IF proto = "raknet" THEN Attempts ELSE 2)
  <2>1. CASE proto = "raknet"
    BY <2>1, Constants DEF Init
  <2>2. CASE proto # "raknet"
    BY <2>2 DEF Init
  <2>3. QED BY <2>1, <2>2
<1>3. went \in [connected : BOOLEAN, handshake : BOOLEAN, ok : BOOLEAN]
  BY DEF Init, NotFar
<1>4. 0 \in 0 .. ctxEnd /\ 0 \in 0 .. MaxFaults
  BY <1>1, Constants
<1>5. proto \in Protocols /\ server \in Servers(proto) /\ cancelled = None /\ closed = FALSE
      /\ asked = None /\ lastErr = None /\ status = None /\ out = None
  BY DEF Init
<1>6. TypeOK
  BY <1>1, <1>2, <1>3, <1>4, <1>5 DEF TypeOK
<1>7. Running /\ StatusRead /\ EndsWithContext
  BY <1>1, <1>5 DEF Running, StatusRead, EndsWithContext
<1>8. QED BY <1>6, <1>7 DEF IInv

\* What no step of the probe touches.
Fixed == UNCHANGED <<now, proto, server, ctxEnd, cancelled, closed>>

\* It is enough to look at what a step of the probe writes.
LEMMA StepTypes ==
  ASSUME TypeOK, Running, Fixed,
         until' \in Nat, until' <= ctxEnd, asked' \in Questions[proto] \cup {None},
         attempt' \in AttemptsMade, lastErr' \in Errors \cup {None}, went' \in Went,
         faults' \in Nat, faults' <= MaxFaults,
         status' \in Descriptions \cup {None}, out' \in Ends \cup {None}, Air'
  PROVE  TypeOK'
<1>1. /\ proto \in Protocols /\ server \in Servers(proto)
      /\ now \in Nat /\ ctxEnd \in Nat /\ now <= ctxEnd
      /\ cancelled = None \/ (cancelled \in Nat /\ cancelled <= now)
      /\ closed => cancelled # None \/ now = ctxEnd
  BY Types DEF TypeOK
<1>2. AttemptsMade' = AttemptsMade /\ Went' = Went
  BY DEF Fixed, AttemptsMade, Went
<1>3. QED BY <1>1, <1>2, TypesBack DEF Fixed

LEMMA RakNetLoopStep ==
  ASSUME IInv, RakNetLoop
  PROVE  TypeOK' /\ Running' /\ StatusRead'
<1>1. /\ proto = "raknet" /\ asked = None /\ out = None /\ status = None
      /\ Fixed /\ lastErr' = lastErr /\ went' = went /\ status' = status
  BY Nil DEF RakNetLoop, Fixed, IInv, StatusRead
<1>2. TypeOK /\ Running
  BY DEF IInv
<1>3. /\ until \in Nat /\ until <= ctxEnd /\ now \in Nat
      /\ attempt \in Nat /\ attempt <= Attempts /\ attempt \in AttemptsMade
      /\ lastErr \in Errors \cup {None} /\ went \in Went /\ faults \in Nat /\ faults <= MaxFaults
      /\ Air /\ ctxEnd \in Contexts
  BY <1>1, <1>2, Types, Constants DEF AttemptsMade, Running
<1>4. ASSUME NEW kind \in Errors \cup {None}, End(kind), attempt' = attempt, air' = air,
             faults' \in {faults, MaxFaults}
      PROVE  TypeOK' /\ Running' /\ StatusRead'
  <2>1. until' = until /\ asked' = None /\ out' \in Ends \cup {None}
    BY <1>4 DEF End, Ends
  <2>2. faults' \in Nat /\ faults' <= MaxFaults /\ Air'
    BY <1>3, <1>4, Constants DEF Air
  <2>3. TypeOK'
    BY <1>1, <1>2, <1>3, <1>4, <2>1, <2>2, StepTypes DEF TypeOK
  <2>4. QED BY <1>1, <1>3, <2>1, <2>3 DEF Running, StatusRead, Fixed
<1>5. ASSUME attempt' = attempt + 1, ~LoopOver, Ask("ping", now + ReplyTimeout), out' = out
      PROVE  TypeOK' /\ Running' /\ StatusRead'
  <2>1. "ping" \in Questions[proto] /\ now + ReplyTimeout \in Nat /\ now <= now + ReplyTimeout
    BY <1>1, <1>3, Asks, Constants
  <2>2. /\ asked' = "ping" /\ until' \in Nat /\ now <= until' /\ until' <= ctxEnd
        /\ Air' /\ faults' \in Nat /\ faults' <= MaxFaults
    BY <1>1, <1>2, <1>5, <2>1, AskKeeps DEF Fixed
  <2>3. attempt' \in AttemptsMade
    BY <1>1, <1>3, <1>5, Constants DEF LoopOver, AttemptsMade
  <2>4. TypeOK'
    BY <1>1, <1>2, <1>3, <1>5, <2>1, <2>2, <2>3, StepTypes DEF TypeOK
  <2>5. QED BY <1>1, <1>3, <1>5, <2>2, <2>4 DEF Running, StatusRead, Fixed
<1>6. CASE LoopOver
  BY <1>3, <1>4, <1>6 DEF RakNetLoop, wire
<1>7. "other" \in Errors /\ \A what : ErrorOf(what) \in Errors
  BY ErrorKinds DEF Errors
<1>8. CASE ~LoopOver
  <2>1. \/ End("other") /\ attempt' = attempt /\ air' = air /\ faults' = faults
        \/ HostFails /\ (\E e \in LocalErrors : End(e)) /\ attempt' = attempt
        \/ (\E a \in Pending : End(ErrorOf(a.what))) /\ attempt' = attempt /\ air' = air /\ faults' = faults
        \/ attempt' = attempt + 1 /\ Ask("ping", now + ReplyTimeout) /\ out' = out
    BY <1>8 DEF RakNetLoop, wire
  <2>2. CASE HostFails /\ (\E e \in LocalErrors : End(e)) /\ attempt' = attempt
    BY <1>4, <2>2 DEF HostFails, Errors
  <2>3. QED BY <1>4, <1>5, <1>7, <1>8, <2>1, <2>2
<1>9. QED BY <1>6, <1>8

\* A failure, with whatever it leaves on its way.
LEMMA FailStep ==
  ASSUME IInv, Fixed, NEW error \in Errors, Fails(error), status' = status,
         asked # None \/ (out = None /\ status = None),
         faults' \in Nat, faults' <= MaxFaults, air' \subseteq air
  PROVE  TypeOK' /\ Running' /\ StatusRead'
<1>1. TypeOK /\ Running /\ StatusRead
  BY DEF IInv
<1>2. /\ asked' = None /\ until' = until /\ attempt' \in AttemptsMade
      /\ lastErr' \in Errors \cup {None} /\ went' \in Went
      /\ out' \in Ends \cup {None} \/ out' = out
      /\ proto = "tcp" /\ asked = "echo" => out' = "status"
  BY <1>1, FailsKeeps
<1>3. until \in Nat /\ until <= ctxEnd /\ Air
  BY <1>1, Types
<1>4. out' \in Ends \cup {None} /\ status' \in Descriptions \cup {None} /\ Air'
  BY <1>1, <1>2, <1>3 DEF TypeOK, Air
<1>5. TypeOK'
  BY <1>1, <1>2, <1>3, <1>4, StepTypes
<1>6. Running'
  BY <1>1, <1>2 DEF Running, Fixed
<1>7. StatusRead'
  BY <1>1, <1>2, Nil DEF StatusRead, Running, Fixed
<1>8. QED BY <1>5, <1>6, <1>7

\* A question after which the probe waits again.
LEMMA AskStep ==
  ASSUME IInv, Fixed, NEW q \in Questions[proto], NEW then \in Nat, now <= then, Ask(q, then),
         attempt' = attempt, lastErr' = lastErr, went' \in Went, out = None, out' = None,
         \/ status' = status /\ status = None
         \/ status' \in Descriptions /\ proto = "tcp" /\ q = "echo"
  PROVE  TypeOK' /\ Running' /\ StatusRead'
<1>1. TypeOK /\ Running /\ StatusRead
  BY DEF IInv
<1>2. /\ asked' = q /\ until' \in Nat /\ now <= until' /\ until' <= ctxEnd
      /\ Air' /\ faults' \in Nat /\ faults' <= MaxFaults
  BY <1>1, AskKeeps DEF Fixed
<1>3. attempt \in AttemptsMade /\ lastErr \in Errors \cup {None} /\ ctxEnd \in Contexts
  BY <1>1, Types DEF Running
<1>4. TypeOK'
  BY <1>1, <1>2, <1>3, StepTypes DEF TypeOK
<1>5. Running' /\ StatusRead'
  BY <1>2, <1>3 DEF Running, StatusRead, Fixed
<1>6. QED BY <1>4, <1>5

\* The end of the probe with a result.
LEMMA EndStep ==
  ASSUME IInv, Fixed, NEW kind \in Ends, End(kind), status' = status,
         status # None => kind = "status",
         attempt' = attempt, lastErr' = lastErr, went' = went, air' = air, faults' = faults
  PROVE  TypeOK' /\ Running' /\ StatusRead'
<1>1. TypeOK /\ Running /\ StatusRead
  BY DEF IInv
<1>2. asked' = None /\ until' = until /\ out' = kind
  BY DEF End
<1>3. until \in Nat /\ until <= ctxEnd /\ Air /\ attempt \in AttemptsMade
      /\ lastErr \in Errors \cup {None} /\ went \in Went /\ faults \in Nat /\ faults <= MaxFaults
  BY <1>1, Types
<1>4. Air' /\ status' \in Descriptions \cup {None}
  BY <1>1, <1>3 DEF Air, TypeOK
<1>5. TypeOK'
  BY <1>1, <1>2, <1>3, <1>4, StepTypes
<1>6. Running' /\ StatusRead'
  BY <1>1, <1>2 DEF Running, StatusRead, Fixed
<1>7. QED BY <1>5, <1>6

LEMMA DialStep ==
  ASSUME IInv, Dial
  PROVE  TypeOK' /\ Running' /\ StatusRead'
<1>1. /\ proto # "raknet" /\ asked = None /\ out = None /\ Fixed /\ status' = status
      /\ TypeOK /\ Running
  BY DEF Dial, Fixed, IInv
<1>2. status = None
  BY <1>1, Nil DEF IInv, StatusRead
<1>3. /\ now \in Nat /\ faults \in Nat /\ faults <= MaxFaults /\ went \in Went /\ proto \in Protocols
      /\ DialEnds \in Nat /\ now <= DialEnds
  BY <1>1, Types, Constants DEF DialEnds
<1>4. "syn" \in Questions[proto]
  BY <1>1, <1>3, Asks DEF Protocols
<1>5. CASE UNCHANGED <<attempt, lastErr, went, out>> /\ Ask("syn", DialEnds)
  BY <1>1, <1>2, <1>3, <1>4, <1>5, AskStep
<1>6. ASSUME HostFails, NEW e \in LocalErrors, Fails(e)
      PROVE  TypeOK' /\ Running' /\ StatusRead'
  BY <1>1, <1>2, <1>6, FailStep, Constants DEF HostFails, Errors
<1>7. CASE Fails("other") /\ UNCHANGED wire
  <2>1. "other" \in Errors /\ air' \subseteq air /\ faults' = faults
    BY <1>7 DEF Errors, wire
  <2>2. QED BY <1>1, <1>2, <1>3, <1>7, <2>1, FailStep
<1>8. QED BY <1>5, <1>6, <1>7 DEF Dial

LEMMA ReadStep ==
  ASSUME IInv, Read
  PROVE  TypeOK' /\ Running' /\ StatusRead'
<1>1. TypeOK /\ Running /\ StatusRead /\ Fixed
  BY DEF IInv, Read, Fixed
<1>2. /\ now \in Nat /\ until \in Nat /\ faults \in Nat /\ faults <= MaxFaults /\ went \in Went
      /\ proto \in Protocols /\ asked \in Questions[proto] \cup {None} /\ Air
  BY <1>1, Types
<1>3. PICK a \in air :
        /\ Readable(a)
        /\ IF a.what \in Failing \cup {"no"}
             THEN /\ Fails(ErrorOf(a.what))
                  /\ air' = air \ {a}
                  /\ UNCHANGED <<status, faults>>
             ELSE RakNetReads(a.what) \/ JavaReads(a.what) \/ NetherNetReads(a.what)
  BY DEF Read
<1>4. asked # None /\ out = None /\ now <= until /\ a.q = asked /\ a.what \in Replies(asked)
  BY <1>1, <1>2, <1>3 DEF Readable, Running, Air
\* A status that was read before leaves the question of the Pong only.
<1>5. status # None => proto = "tcp" /\ asked = "echo"
  BY <1>1, <1>4, Nil DEF StatusRead
<1>6. CASE a.what \in Failing \cup {"no"}
  BY <1>1, <1>2, <1>3, <1>4, <1>6, FailStep, ErrorKinds
<1>7. CASE RakNetReads(a.what)
  <2>1. /\ status = None /\ End(IF a.what = "pong" THEN "status" ELSE "weak")
        /\ UNCHANGED <<attempt, lastErr, went, status, air, faults>>
    BY <1>5, <1>7 DEF RakNetReads, wire
  <2>2. "status" \in Ends /\ "weak" \in Ends
    BY DEF Ends
  <2>3. QED BY <1>1, <2>1, <2>2, EndStep
<1>8. CASE JavaReads(a.what)
  <2>1. proto = "tcp" /\ UNCHANGED <<attempt, lastErr, went>>
    BY <1>8 DEF JavaReads
  <2>2. asked \in {"syn", "request", "echo"} /\ "request" \in Questions[proto] /\ "echo" \in Questions[proto]
    BY <1>2, <1>4, <2>1, Asks
  <2>3. CASE a.what = "accept" /\ Ask("request", now + IOTimeout) /\ UNCHANGED <<status, out>>
    <3>1. asked = "syn" /\ status = None
      BY <1>4, <1>5, <2>2, <2>3, Answers
    <3>2. now + IOTimeout \in Nat /\ now <= now + IOTimeout
      BY <1>2, Constants
    <3>3. QED BY <1>1, <1>2, <1>4, <2>1, <2>2, <2>3, <3>1, <3>2, AskStep
  <2>4. CASE status' \in Descriptions /\ Ask("echo", Min({now + PongWait, until})) /\ UNCHANGED out
    <3>1. PICK wait \in Nat : wait = Min({now + PongWait, until}) /\ now <= wait
      <4>1. now + PongWait \in Nat /\ now <= now + PongWait
        BY <1>2, Constants
      <4>2. QED BY <1>2, <1>4, <4>1, SmallerOfTwo
    <3>2. QED BY <1>1, <1>2, <1>4, <2>1, <2>2, <2>4, <3>1, AskStep
  <2>5. CASE End("status") /\ UNCHANGED <<status, wire>>
    <3>1. "status" \in Ends /\ UNCHANGED <<air, faults>>
      BY <2>5 DEF Ends, wire
    <3>2. QED BY <1>1, <2>1, <2>5, <3>1, EndStep
  <2>6. QED BY <1>8, <2>3, <2>4, <2>5 DEF JavaReads
<1>9. CASE NetherNetReads(a.what)
  <2>1. /\ proto = "nethernet" /\ status = None /\ UNCHANGED <<attempt, lastErr, status>>
        /\ {"get", "hello", "secure", "body"} \subseteq Questions[proto]
    BY <1>5, <1>9, Asks DEF NetherNetReads
  <2>2. ASSUME NEW q \in {"get", "hello", "secure", "body"}, Ask(q, until), out' = out, went' \in Went
        PROVE  TypeOK' /\ Running' /\ StatusRead'
    BY <1>1, <1>2, <1>4, <2>1, <2>2, AskStep
  <2>3. /\ [went EXCEPT !.connected = TRUE] \in Went
        /\ [went EXCEPT !.handshake = TRUE] \in Went
        /\ [went EXCEPT !.ok = TRUE] \in Went
    BY <1>2 DEF Went
  <2>4. CASE End(IF a.what = "empty" THEN "weak" ELSE "status") /\ UNCHANGED <<went, wire>>
    <3>1. "status" \in Ends /\ "weak" \in Ends /\ UNCHANGED <<went, air, faults>>
      BY <2>4 DEF Ends, wire
    <3>2. QED BY <1>1, <2>1, <2>4, <3>1, EndStep
  <2>5. QED BY <1>9, <2>2, <2>3, <2>4 DEF NetherNetReads
<1>10. QED BY <1>3, <1>6, <1>7, <1>8, <1>9

LEMMA GiveUpStep ==
  ASSUME IInv, GiveUp
  PROVE  TypeOK' /\ Running' /\ StatusRead'
<1>1. /\ asked # None /\ Fails("other") /\ Fixed /\ status' = status /\ air' = air /\ faults' = faults
      /\ "other" \in Errors
  BY DEF GiveUp, Fixed, wire, Errors
<1>2. faults \in Nat /\ faults <= MaxFaults
  BY Types DEF IInv
<1>3. QED BY <1>1, <1>2, FailStep

\* The rest: the connection is closed, the context cancelled, time passes.
LEMMA OtherStep ==
  ASSUME IInv, CloseConn \/ Cancel \/ Tick \/ UNCHANGED vars
  PROVE  TypeOK' /\ Running' /\ StatusRead'
<1>1. TypeOK /\ Running /\ StatusRead
  BY DEF IInv
<1>2. /\ proto \in Protocols /\ server \in Servers(proto)
      /\ now \in Nat /\ until \in Nat /\ ctxEnd \in Nat /\ now <= ctxEnd /\ until <= ctxEnd
      /\ cancelled = None \/ (cancelled \in Nat /\ cancelled <= now)
      /\ asked \in Questions[proto] \cup {None} /\ attempt \in AttemptsMade
      /\ lastErr \in Errors \cup {None} /\ went \in Went /\ faults \in Nat /\ faults <= MaxFaults /\ Air
      /\ status \in Descriptions \cup {None} /\ out \in Ends \cup {None}
      /\ closed => cancelled # None \/ now = ctxEnd
  BY <1>1, Types DEF TypeOK
<1>3. UNCHANGED <<proto, server, ctxEnd, asked, until, attempt, lastErr, went, status, out, air, faults>>
  BY DEF CloseConn, Cancel, Tick, vars, wire
<1>4. AttemptsMade' = AttemptsMade /\ Went' = Went /\ Air' = Air
  BY <1>3 DEF AttemptsMade, Went, Air
<1>5. StatusRead'
  BY <1>1, <1>3 DEF StatusRead
<1>6. CASE CloseConn
  <2>1. now' = now /\ cancelled' = cancelled /\ (cancelled # None \/ now = ctxEnd)
    BY <1>2, <1>6 DEF CloseConn, ClosePending, CtxOver
  <2>2. QED BY <1>1, <1>2, <1>3, <1>4, <1>5, <2>1, TypesBack DEF Running
<1>7. CASE Cancel
  <2>1. now' = now /\ closed' = closed /\ cancelled' = now /\ now # None
    BY <1>2, <1>7, Nil DEF Cancel
  <2>2. QED BY <1>1, <1>2, <1>3, <1>4, <1>5, <2>1, TypesBack DEF Running
<1>8. CASE Tick
  <2>1. /\ now' = now + 1 /\ now < until /\ ~closed /\ closed' = closed /\ cancelled' = cancelled
    BY <1>8 DEF Tick, Interrupted
  <2>2. now' \in Nat /\ now' <= until /\ now' <= ctxEnd /\ (cancelled = None \/ (cancelled \in Nat /\ cancelled <= now'))
    BY <1>2, <2>1
  <2>3. QED BY <1>1, <1>2, <1>3, <1>4, <1>5, <2>1, <2>2, TypesBack DEF Running
<1>9. CASE UNCHANGED vars
  <2>1. now' = now /\ closed' = closed /\ cancelled' = cancelled
    BY <1>9 DEF vars
  <2>2. QED BY <1>1, <1>2, <1>3, <1>4, <1>5, <2>1, TypesBack DEF Running
<1>10. QED BY <1>6, <1>7, <1>8, <1>9

\* Once the context is cancelled the clock waits for the probe to end.
LEMMA ContextStep == IInv /\ [Next]_vars => EndsWithContext'
<1>. SUFFICES ASSUME IInv, [Next]_vars, out' = None PROVE EndsWithContext'
  BY DEF EndsWithContext
<1>1. /\ TypeOK /\ Running /\ EndsWithContext
      /\ now \in Nat /\ ctxEnd \in Nat /\ until \in Nat /\ until <= ctxEnd /\ proto \in Protocols
      /\ asked \in Questions[proto] \cup {None}
  BY Types DEF IInv
<1>2. now <= ctxEnd
  BY <1>1, Types
<1>3. CASE Tick
  <2>1. asked # None /\ out = None /\ now < until /\ ~Interrupted /\ ~ClosePending
        /\ now' = now + 1 /\ cancelled' = cancelled /\ ctxEnd' = ctxEnd
    BY <1>1, <1>3 DEF Tick, Running
  <2>2. cancelled = None
    BY <1>1, <2>1 DEF Interrupted, ClosePending, CtxOver, Closes, Protocols
  <2>3. QED BY <1>1, <2>1, <2>2 DEF EndsWithContext
<1>4. CASE Cancel
  BY <1>1, <1>4, Nil DEF Cancel, EndsWithContext
<1>5. CASE RakNetLoop \/ Dial \/ Read \/ GiveUp \/ CloseConn \/ UNCHANGED vars
  <2>1. now' = now /\ cancelled' = cancelled /\ ctxEnd' = ctxEnd
    BY <1>5 DEF RakNetLoop, Dial, Read, GiveUp, CloseConn, vars
  <2>2. out = None
    BY <1>1, <1>5, Nil DEF RakNetLoop, Dial, Read, Readable, GiveUp, CloseConn, vars, Running
  <2>3. QED BY <1>1, <1>2, <2>1, <2>2 DEF EndsWithContext
<1>6. QED BY <1>3, <1>4, <1>5 DEF Next

LEMMA Inductive == IInv /\ [Next]_vars => IInv'
<1>. SUFFICES ASSUME IInv, [Next]_vars PROVE IInv'
  OBVIOUS
<1>1. TypeOK' /\ Running' /\ StatusRead'
  BY RakNetLoopStep, DialStep, ReadStep, GiveUpStep, OtherStep DEF Next
<1>2. EndsWithContext'
  BY ContextStep
<1>3. QED BY <1>1, <1>2 DEF IInv

LEMMA AlwaysIInv == Spec => []IInv
<1>1. Init => IInv
  BY InitIInv
<1>2. IInv /\ [Next]_vars => IInv'
  BY Inductive
<1>3. QED BY <1>1, <1>2, PTL DEF Spec

\* The state of a probe is well typed; what is on its way are replies that its
\* question may get, and a closed connection is one whose context has ended.
THEOREM TypeCorrect == Spec => []TypeOK
<1>1. IInv => TypeOK
  BY DEF IInv
<1>2. QED BY <1>1, AlwaysIInv, PTL

\* A status that pingJava has read is its outcome, whatever becomes of the Pong.
THEOREM StatusIsKept == Spec => []StatusKept
<1>1. IInv => StatusKept
  BY DEF IInv, StatusRead, StatusKept
<1>2. QED BY <1>1, AlwaysIInv, PTL

\* Time does not pass for a probe whose context has ended: every wait of all
\* three transports ends with it.
THEOREM EndsInTime == Spec => []EndsWithContext
<1>1. IInv => EndsWithContext
  BY DEF IInv
<1>2. QED BY <1>1, AlwaysIInv, PTL

-----------------------------------------------------------------------------
(***************************************************************************)
(* A server that answers is found.  For each transport: what there is to   *)
(* read, and when at the latest, as long as the network keeps within its   *)
(* bounds.                                                                 *)
(***************************************************************************)
Good(a) == a.what = server[a.q] /\ a.what # "silent"

\* An answer to what was asked is there, before the wait is over.
InTime == now < until /\ \E a \in air : Readable(a)

\* Java: nothing is lost, so no time passes before the status was read.
JavaKeeps ==
  proto = "tcp" /\ server["request"] = "status" /\ cancelled = None /\ faults = 0 =>
    /\ out \in {None, "status"}
    /\ out = None /\ asked = None => now = 0
    /\ asked \in {"syn", "request"} => InTime
    /\ \A a \in air : Good(a)

\* NetherNet: time passes while a server that speaks TLS only says nothing to
\* plain HTTP, no longer than IOTimeout, and the connection over TLS follows.
NetherNetKeeps ==
  proto = "nethernet" /\ server["body"] \in {"status", "empty"} /\ cancelled = None /\ faults = 0 =>
    /\ out \in {None, "status", "weak"}
    /\ \A a \in air : Good(a)
    /\ \/ /\ attempt = 1
          /\ until <= IOTimeout
          /\ out = None /\ asked = None => now = 0
          /\ asked \notin {"hello", "secure"}
       \/ /\ attempt = 2
          /\ server["get"] # "ok"
          /\ out = None /\ asked = None => now <= IOTimeout
          /\ asked # "get"
    /\ out = None /\ asked \in {None, "syn", "get"} => ~went.ok
    /\ asked = "get" => went.connected
    /\ asked # None /\ ~(asked = "get" /\ server["get"] = "silent") => InTime

\* RakNet: every attempt that brought nothing cost the network a fault, and
\* there are fewer of them than attempts.  What is no pong came during the
\* attempt it was meant for, and is read before that is over.
RakNetKeeps ==
  proto = "raknet" /\ server["ping"] \in {"pong", "weak"} /\ cancelled = None /\ faults < Attempts =>
    /\ out \in {None, "status", "weak"}
    /\ now <= attempt * ReplyTimeout
    /\ asked # None => until <= attempt * ReplyTimeout
    /\ out = None => attempt <= faults \/ (asked # None /\ attempt = faults + 1 /\ InTime)
    /\ out = None =>
         /\ \A a \in air :
              /\ a.q = "ping"
              /\ Good(a) \/ (asked # None /\ attempt <= faults /\ a.by <= now /\ now < until)
         /\ \A a, b \in air : Good(a) \/ Good(b) \/ a = b

FInv == JavaKeeps /\ NetherNetKeeps /\ RakNetKeeps

\* What every step leaves alone or moves in one direction.
LEMMA Onward ==
  ASSUME IInv, [Next]_vars
  PROVE  /\ proto' = proto /\ server' = server /\ ctxEnd' = ctxEnd
         /\ cancelled' = None => cancelled = None
         /\ faults \in Nat /\ faults' \in Nat /\ faults <= faults'
<1>1. now \in Nat /\ faults \in Nat /\ faults <= MaxFaults
  BY Types DEF IInv
<1>2. proto' = proto /\ server' = server /\ ctxEnd' = ctxEnd
  BY DEF Next, RakNetLoop, Dial, Read, GiveUp, CloseConn, Cancel, Tick, vars
<1>3. cancelled' = None => cancelled = None
  <2>1. now # None
    BY <1>1, Nil
  <2>2. QED
    BY <2>1 DEF Next, RakNetLoop, Dial, Read, GiveUp, CloseConn, Cancel, Tick, vars
<1>4. faults' \in {faults, faults + 1, MaxFaults}
  <2>1. CASE RakNetLoop
    BY <2>1 DEF RakNetLoop, HostFails, Ask, Transmit, wire
  <2>2. CASE Dial
    BY <2>2 DEF Dial, HostFails, Ask, Transmit, wire
  <2>3. CASE Read
    BY <2>3 DEF Read, RakNetReads, JavaReads, NetherNetReads, Ask, Transmit, wire
  <2>4. CASE GiveUp \/ CloseConn \/ Cancel \/ Tick \/ UNCHANGED vars
    BY <2>4 DEF GiveUp, CloseConn, Cancel, Tick, vars, wire
  <2>5. QED BY <2>1, <2>2, <2>3, <2>4 DEF Next
<1>5. QED BY <1>1, <1>2, <1>3, <1>4, Constants

\* A question that the server answers at once, over a network without a fault.
LEMMA AnswersAtOnce ==
  ASSUME TypeOK, Running, now' = now, proto' = proto, server' = server,
         NEW q \in Questions[proto], NEW then \in Nat, now < then, now < ctxEnd,
         Ask(q, then), faults' = faults
  PROVE  /\ (\A a \in air : Good(a)) => (\A a \in air : Good(a))'
         /\ server[q] # "silent" => InTime'
<1>1. now \in Nat /\ proto \in Protocols
  BY Types
<1>2. q # None
  BY <1>1, Nil, Asks DEF Protocols
<1>3. /\ asked' = q /\ now < until'
      /\ air' = IF server[q] = "silent" THEN air ELSE air \cup {Sent(q, server[q], now)}
  BY <1>1, AskKeeps
<1>4. /\ Sent(q, server[q], now).q = q /\ Sent(q, server[q], now).what = server[q]
      /\ Sent(q, server[q], now).by = now /\ Sent(q, server[q], now).attempt = attempt'
  BY DEF Sent
<1>5. (\A a \in air : Good(a)) => (\A a \in air : Good(a))'
  BY <1>3, <1>4 DEF Good
<1>6. ASSUME server[q] # "silent" PROVE InTime'
  <2>1. PICK a \in air' : a.q = q /\ a.by = now /\ a.attempt = attempt'
    BY <1>3, <1>4, <1>6
  <2>2. Readable(a)'
    BY <1>1, <1>2, <1>3, <2>1 DEF Readable
  <2>3. QED BY <1>3, <2>2 DEF InTime
<1>7. QED BY <1>5, <1>6

\* What is answered in time is read: neither the clock nor the context ends it.
LEMMA ReadInTime ==
  ASSUME TypeOK, Running, InTime, cancelled = None
  PROVE  now < ctxEnd /\ ~CtxOver /\ ~GiveUp /\ ~Tick
<1>1. /\ now \in Nat /\ until \in Nat /\ ctxEnd \in Nat /\ now < until /\ until <= ctxEnd
      /\ closed => now = ctxEnd
  BY Types DEF InTime, TypeOK
<1>2. now < ctxEnd /\ ~(now >= ctxEnd) /\ ~(now >= until) /\ ~closed
  BY <1>1
<1>3. ~CtxOver /\ ~Interrupted
  BY <1>2 DEF CtxOver, Interrupted
<1>4. QED BY <1>2, <1>3 DEF GiveUp, Tick, InTime

LEMMA JavaKeepsStep == IInv /\ JavaKeeps /\ [Next]_vars => JavaKeeps'
<1>. SUFFICES ASSUME IInv, JavaKeeps, [Next]_vars, proto' = "tcp", server'["request"] = "status",
                     cancelled' = None, faults' = 0
              PROVE  /\ out' \in {None, "status"}
                     /\ out' = None /\ asked' = None => now' = 0
                     /\ asked' \in {"syn", "request"} => InTime'
                     /\ (\A a \in air : Good(a))'
  BY DEF JavaKeeps
<1>. DEFINE Goal == /\ out' \in {None, "status"}
                    /\ out' = None /\ asked' = None => now' = 0
                    /\ asked' \in {"syn", "request"} => InTime'
                    /\ (\A a \in air : Good(a))'
<1>1. /\ proto = "tcp" /\ proto' = proto /\ server' = server /\ server["request"] = "status"
      /\ cancelled = None /\ faults = 0 /\ faults' = faults
  BY Onward
<1>2. /\ out \in {None, "status"}
      /\ out = None /\ asked = None => now = 0
      /\ asked \in {"syn", "request"} => InTime
      /\ \A a \in air : Good(a)
  BY <1>1 DEF JavaKeeps
<1>3. /\ TypeOK /\ Running /\ proto \in Protocols /\ server \in Servers(proto)
      /\ now \in Nat /\ until \in Nat /\ ctxEnd \in Nat /\ 0 < ctxEnd
      /\ asked \in {"syn", "request", "echo", None} /\ Air
  BY <1>1, Types, Asks DEF IInv
<1>4. server["syn"] = "accept"
  BY <1>1, <1>3, ServerSilent, Asks DEF IsAsked
<1>5. "syn" \in Questions[proto] /\ "request" \in Questions[proto] /\ "echo" \in Questions[proto]
  BY <1>1, Asks
\* A step of the probe that is no question, and takes nothing but replies away.
<1>6. ASSUME NEW error, Fails(error), asked = "echo", air' \subseteq air
      PROVE  Goal
  <2>1. out' = "status" /\ asked' = None
    BY <1>1, <1>6 DEF Fails, RakNetFails, JavaFails, NetherNetFails, End
  <2>2. (\A a \in air : Good(a))'
    BY <1>1, <1>2, <1>6 DEF Good
  <2>3. QED BY <2>1, <2>2, Nil
<1>7. CASE RakNetLoop
  BY <1>1, <1>7 DEF RakNetLoop
<1>8. CASE Dial
  <2>1. now = 0 /\ now < ctxEnd /\ ~CtxOver /\ out = None /\ now' = now
    BY <1>1, <1>2, <1>3, <1>8 DEF Dial, CtxOver
  <2>2. ~HostFails
    BY <1>1, Constants DEF HostFails
  <2>3. out' = out /\ Ask("syn", DialEnds) /\ asked' = "syn"
    BY <1>8, <2>1, <2>2 DEF Dial, Ask
  <2>4. DialEnds \in Nat /\ now < DialEnds
    BY <1>3, Constants DEF DialEnds
  <2>5. InTime' /\ (\A a \in air : Good(a))'
    BY <1>1, <1>2, <1>3, <1>4, <1>5, <2>1, <2>3, <2>4, AnswersAtOnce
  <2>6. QED BY <2>1, <2>3, <2>5, Nil
<1>9. CASE Read
  <2>1. PICK a \in air :
          /\ Readable(a)
          /\ IF a.what \in Failing \cup {"no"}
               THEN /\ Fails(ErrorOf(a.what))
                    /\ air' = air \ {a}
               ELSE RakNetReads(a.what) \/ JavaReads(a.what) \/ NetherNetReads(a.what)
    BY <1>9 DEF Read
  <2>2. /\ asked # None /\ out = None /\ now <= until /\ a.q = asked /\ a.what \in Replies(asked)
        /\ a.what = server[asked] /\ now' = now
    BY <1>2, <1>3, <1>9, <2>1 DEF Readable, Running, Air, Good, Read
  <2>3. CASE asked = "echo"
    <3>1. CASE a.what \in Failing \cup {"no"}
      BY <1>6, <2>1, <2>3, <3>1
    <3>2. CASE a.what \notin Failing \cup {"no"}
      <4>1. JavaReads(a.what) /\ a.what \in {"pong", "silent"}
        BY <1>1, <2>1, <2>2, <2>3, <3>2, Answers DEF RakNetReads, NetherNetReads, Failing
      <4>2. out' = "status" /\ asked' = None /\ air' = air
        BY <4>1 DEF JavaReads, End, wire
      <4>3. QED BY <1>1, <1>2, <4>2, Nil DEF Good
    <3>3. QED BY <3>1, <3>2
  <2>4. CASE asked \in {"syn", "request"}
    <3>1. now < ctxEnd /\ a.what = IF asked = "syn" THEN "accept" ELSE "status"
      BY <1>1, <1>2, <1>3, <1>4, <2>2, <2>4, ReadInTime
    <3>2. JavaReads(a.what)
      BY <1>1, <2>1, <3>1 DEF RakNetReads, NetherNetReads, Failing
    <3>3. CASE asked = "syn"
      <4>1. Ask("request", now + IOTimeout) /\ out' = out /\ asked' = "request"
        BY <3>1, <3>2, <3>3 DEF JavaReads, Ask
      <4>2. now + IOTimeout \in Nat /\ now < now + IOTimeout
        BY <1>3, Constants
      <4>3. InTime' /\ (\A b \in air : Good(b))'
        BY <1>1, <1>2, <1>3, <1>5, <2>2, <3>1, <4>1, <4>2, AnswersAtOnce
      <4>4. QED BY <2>2, <4>1, <4>3, Nil
    <3>4. CASE asked = "request"
      <4>1. Ask("echo", Min({now + PongWait, until})) /\ out' = out /\ asked' = "echo"
        BY <3>1, <3>2, <3>4 DEF JavaReads, Ask
      <4>2. PICK wait \in Nat : wait = Min({now + PongWait, until}) /\ now < wait
        <5>1. now + PongWait \in Nat /\ now < now + PongWait /\ now < until
          BY <1>2, <1>3, <3>4, Constants DEF InTime
        <5>2. QED BY <1>3, <5>1, SmallerOfTwo
      <4>3. (\A b \in air : Good(b))'
        BY <1>1, <1>2, <1>3, <1>5, <2>2, <3>1, <4>1, <4>2, AnswersAtOnce
      <4>4. QED BY <2>2, <4>1, <4>3, Nil
    <3>5. QED BY <2>4, <3>3, <3>4
  <2>5. QED BY <1>3, <2>2, <2>3, <2>4
<1>10. CASE GiveUp
  <2>1. asked = "echo" /\ Fails("other") /\ air' = air
    BY <1>1, <1>2, <1>3, <1>10, ReadInTime DEF GiveUp, wire
  <2>2. QED BY <1>6, <2>1
<1>11. CASE Tick
  <2>1. asked = "echo"
    BY <1>1, <1>2, <1>3, <1>11, ReadInTime DEF Tick
  <2>2. asked' = asked /\ out' = out /\ air' = air
    BY <1>11 DEF Tick, wire
  <2>3. QED BY <1>1, <1>2, <2>1, <2>2, Nil DEF Good
<1>12. CASE Cancel
  BY <1>1, <1>3, <1>12, Nil DEF Cancel
<1>13. CASE CloseConn \/ UNCHANGED vars
  <2>1. UNCHANGED <<now, proto, server, asked, until, attempt, out, air>>
    BY <1>13 DEF CloseConn, vars, wire
  <2>2. InTime' = InTime /\ (\A a \in air : Good(a))' = (\A a \in air : Good(a))
    BY <2>1 DEF InTime, Readable, Good
  <2>3. QED BY <1>2, <2>1, <2>2
<1>14. QED
  BY <1>7, <1>8, <1>9, <1>10, <1>11, <1>12, <1>13 DEF Next

LEMMA NetherNetKeepsStep == IInv /\ NetherNetKeeps /\ [Next]_vars => NetherNetKeeps'
<1>. DEFINE First == /\ attempt = 1
                     /\ until <= IOTimeout
                     /\ out = None /\ asked = None => now = 0
                     /\ asked \notin {"hello", "secure"}
            Second == /\ attempt = 2
                      /\ server["get"] # "ok"
                      /\ out = None /\ asked = None => now <= IOTimeout
                      /\ asked # "get"
            Kept == /\ out \in {None, "status", "weak"}
                    /\ \A a \in air : Good(a)
                    /\ First \/ Second
                    /\ out = None /\ asked \in {None, "syn", "get"} => ~went.ok
                    /\ asked = "get" => went.connected
                    /\ asked # None /\ ~(asked = "get" /\ server["get"] = "silent") => InTime
<1>. SUFFICES ASSUME IInv, NetherNetKeeps, [Next]_vars, proto' = "nethernet",
                     server'["body"] \in {"status", "empty"}, cancelled' = None, faults' = 0
              PROVE  Kept'
  BY DEF NetherNetKeeps
<1>1. /\ proto = "nethernet" /\ proto' = proto /\ server' = server /\ ctxEnd' = ctxEnd
      /\ server["body"] \in {"status", "empty"}
      /\ cancelled = None /\ faults = 0 /\ faults' = faults
  BY Onward
<1>2. Kept
  BY <1>1 DEF NetherNetKeeps
<1>3. /\ TypeOK /\ Running /\ proto \in Protocols /\ server \in Servers(proto)
      /\ now \in Nat /\ until \in Nat /\ ctxEnd \in Nat /\ 0 < ctxEnd /\ IOTimeout < ctxEnd
      /\ asked \in {"syn", "get", "hello", "secure", "body", None} /\ went \in Went /\ Air
  BY <1>1, Types, Asks, Constants DEF IInv, Running
<1>4. "ok" \in {server["get"], server["secure"]}
  BY <1>1, <1>3, ServerSilent, Asks DEF IsAsked
<1>5. /\ server["get"] # "silent" => server["syn"] = "accept"
      /\ server["secure"] # "silent" => server["hello"] = "accept"
      /\ server["hello"] # "silent" => server["syn"] = "accept"
  <2>1. "get" \in Questions[proto] /\ "secure" \in Questions[proto] /\ "hello" \in Questions[proto]
    BY <1>1, Asks
  <2>2. /\ server["get"] # "silent" => IsAsked(server, "get")
        /\ server["secure"] # "silent" => IsAsked(server, "secure")
        /\ server["hello"] # "silent" => IsAsked(server, "hello")
    BY <1>3, <2>1, ServerSilent
  <2>3. /\ IsAsked(server, "get") => server["syn"] = "accept"
        /\ IsAsked(server, "secure") => server["hello"] = "accept"
        /\ IsAsked(server, "hello") => server["syn"] = "accept"
    BY DEF IsAsked
  <2>4. QED BY <2>2, <2>3
<1>6. /\ server["syn"] = "accept"
      /\ server["get"] # "ok" => server["secure"] = "ok" /\ server["hello"] = "accept"
  BY <1>4, <1>5
<1>7. /\ "syn" \in Questions[proto] /\ "get" \in Questions[proto] /\ "hello" \in Questions[proto]
      /\ "secure" \in Questions[proto] /\ "body" \in Questions[proto]
  BY <1>1, Asks
<1>8. ~HostFails
  BY <1>1, Constants DEF HostFails
\* The plain request fails, and the connection over TLS follows.
<1>9. ASSUME NEW error, Fails(error), asked = "get", server["get"] # "ok",
             air' \subseteq air, now' = now, out = None
      PROVE  Kept'
  <2>1. First /\ went.connected /\ ~went.ok /\ attempt # 2
    BY <1>2, <1>9
  <2>2. ~CtxOver
    BY <1>1, <1>3, <1>9, <2>1, Constants, Nil DEF CtxOver, Running
  <2>3. attempt' = 2 /\ went' = NotFar /\ asked' = None /\ until' = until /\ out' = None
    BY <1>1, <1>9, <2>1, <2>2 DEF Fails, RakNetFails, JavaFails, NetherNetFails
  <2>4. now <= IOTimeout /\ ~NotFar.ok
    BY <1>3, <1>9, <2>1, Constants, Nil DEF Running, NotFar
  <2>5. (\A a \in air : Good(a))'
    BY <1>1, <1>2, <1>9 DEF Good
  <2>6. QED BY <1>1, <1>9, <2>3, <2>4, <2>5, Nil
\* The next question, which the server answers.
<1>10. ASSUME NEW q \in Questions[proto], NEW then \in Nat, now < then, now < ctxEnd, Ask(q, then),
              now' = now, out' = None, attempt' = attempt,
              q = "get" => went'.connected,
              q \in {"syn", "get"} => ~went'.ok,
              \/ attempt = 1 /\ q \in {"syn", "get", "body"} /\ then <= IOTimeout
              \/ attempt = 2 /\ q # "get" /\ server["get"] # "ok"
       PROVE  Kept'
  <2>1. asked' = q /\ until' <= then /\ until' \in Nat /\ q # None
    BY <1>1, <1>3, <1>7, <1>10, AskKeeps, Asks, Nil
  <2>2. /\ (\A a \in air : Good(a))'
        /\ server[q] # "silent" => InTime'
    BY <1>1, <1>2, <1>3, <1>10, AnswersAtOnce
  <2>3. q = "get" \/ server[q] # "silent"
    BY <1>1, <1>4, <1>6, <1>10, Asks
  <2>4. (First \/ Second)'
    BY <1>1, <1>3, <1>10, <2>1, Constants
  <2>5. QED BY <1>1, <1>10, <2>1, <2>2, <2>3, <2>4, Nil
<1>11. CASE RakNetLoop
  BY <1>1, <1>11 DEF RakNetLoop
<1>12. CASE Dial
  <2>1. asked = None /\ out = None /\ now <= IOTimeout /\ now' = now /\ now < ctxEnd
    BY <1>2, <1>3, <1>12, Constants DEF Dial
  <2>2. ~CtxOver
    BY <1>1, <1>3, <2>1 DEF CtxOver
  <2>3. Ask("syn", DialEnds) /\ UNCHANGED <<attempt, went, out>>
    BY <1>8, <1>12, <2>2 DEF Dial
  <2>4. DialEnds \in Nat /\ now < DialEnds /\ (attempt = 1 => DialEnds <= IOTimeout)
    BY <1>2, <1>3, <2>1, Constants DEF DialEnds
  <2>5. QED BY <1>2, <1>7, <1>10, <2>1, <2>3, <2>4
<1>13. CASE Read
  <2>1. PICK a \in air :
          /\ Readable(a)
          /\ IF a.what \in Failing \cup {"no"}
               THEN /\ Fails(ErrorOf(a.what))
                    /\ air' = air \ {a}
               ELSE RakNetReads(a.what) \/ JavaReads(a.what) \/ NetherNetReads(a.what)
    BY <1>13 DEF Read
  <2>2. /\ asked # None /\ out = None /\ now <= until /\ a.q = asked /\ a.what \in Replies(asked)
        /\ a.what = server[asked] /\ a.what # "silent" /\ now' = now
    BY <1>2, <1>3, <1>13, <2>1 DEF Readable, Running, Air, Good, Read
  <2>3. CASE a.what \in Failing \cup {"no"}
    <3>1. asked = "get" /\ server["get"] # "ok"
      BY <1>1, <1>2, <1>3, <1>4, <1>6, <2>2, <2>3 DEF Failing
    <3>2. QED BY <1>9, <2>1, <2>2, <2>3, <3>1
  <2>4. CASE a.what \notin Failing \cup {"no"}
    <3>1. NetherNetReads(a.what) /\ attempt' = attempt
      BY <1>1, <2>1, <2>4 DEF RakNetReads, JavaReads, NetherNetReads
    <3>2. a.what = "ok" <=> asked \in {"get", "secure"}
      <4>1. a.what \notin {"no", "junk", "close", "refused", "rejected"}
        BY <2>4 DEF Failing
      <4>2. CASE asked = "get"
        BY <2>2, <4>1, <4>2, Answers
      <4>3. QED BY <1>1, <1>2, <1>3, <1>6, <2>2, <4>1, <4>2
    <3>3. InTime /\ now < until /\ now < ctxEnd
      BY <1>1, <1>2, <1>3, <2>2, ReadInTime DEF InTime
    <3>4. First \/ Second
      BY <1>2
    <3>5. CASE asked = "syn"
      <4>1. /\ went' = [went EXCEPT !.connected = TRUE] /\ out' = None
            /\ Ask(IF attempt = 2 THEN "hello" ELSE "get", until)
        BY <2>2, <3>1, <3>2, <3>5 DEF NetherNetReads
      <4>2. went'.connected /\ ~went'.ok
        BY <1>2, <1>3, <2>2, <3>5, <4>1 DEF Went
      <4>3. CASE attempt = 1
        BY <1>3, <1>7, <1>10, <2>2, <3>1, <3>3, <3>4, <4>1, <4>2, <4>3
      <4>4. CASE attempt = 2
        BY <1>3, <1>7, <1>10, <2>2, <3>1, <3>3, <3>4, <4>1, <4>2, <4>4
      <4>5. QED BY <3>4, <4>3, <4>4
    <3>6. CASE asked = "hello"
      <4>1. Ask("secure", until) /\ out' = None
        BY <2>2, <3>1, <3>2, <3>6 DEF NetherNetReads
      <4>2. QED BY <1>3, <1>7, <1>10, <2>2, <3>1, <3>3, <3>4, <3>6, <4>1
    <3>7. CASE asked \in {"get", "secure"}
      <4>1. Ask("body", until) /\ out' = None
        BY <2>2, <3>1, <3>2, <3>7 DEF NetherNetReads
      <4>2. QED BY <1>3, <1>7, <1>10, <2>2, <3>1, <3>3, <3>4, <3>7, <4>1
    <3>8. CASE asked = "body"
      <4>1. out' \in {"status", "weak"} /\ asked' = None /\ until' = until /\ air' = air
        BY <3>1, <3>2, <3>8 DEF NetherNetReads, End, wire
      <4>2. (\A b \in air : Good(b))'
        BY <1>1, <1>2, <4>1 DEF Good
      <4>3. QED BY <1>1, <2>2, <3>1, <3>4, <4>1, <4>2, Nil
    <3>9. QED BY <1>3, <2>2, <3>5, <3>6, <3>7, <3>8
  <2>5. QED BY <2>3, <2>4
<1>14. CASE GiveUp
  <2>1. asked = "get" /\ server["get"] = "silent" /\ Fails("other") /\ air' = air /\ now' = now
    BY <1>1, <1>2, <1>3, <1>14, ReadInTime DEF GiveUp, wire
  <2>2. out = None
    BY <1>3, <2>1, Nil DEF Running
  <2>3. QED BY <1>9, <2>1, <2>2
<1>15. CASE Tick
  <2>1. asked = "get" /\ server["get"] = "silent"
    BY <1>1, <1>2, <1>3, <1>15, ReadInTime DEF Tick
  <2>2. UNCHANGED <<asked, until, attempt, went, out, air>>
    BY <1>15 DEF Tick, wire
  <2>3. (\A a \in air : Good(a))'
    BY <1>1, <1>2, <2>2 DEF Good
  <2>4. QED BY <1>1, <1>2, <2>1, <2>2, <2>3, Nil
<1>16. CASE Cancel
  BY <1>1, <1>3, <1>16, Nil DEF Cancel
<1>17. CASE CloseConn \/ UNCHANGED vars
  <2>1. UNCHANGED <<now, proto, server, asked, until, attempt, went, out, air>>
    BY <1>17 DEF CloseConn, vars, wire
  <2>2. InTime' = InTime /\ (\A a \in air : Good(a))' = (\A a \in air : Good(a))
    BY <2>1 DEF InTime, Readable, Good
  <2>3. QED BY <1>2, <2>1, <2>2
<1>18. QED
  BY <1>11, <1>12, <1>13, <1>14, <1>15, <1>16, <1>17 DEF Next

LEMMA TriesTake ==
  ASSUME NEW k \in Nat, NEW n \in Nat
  PROVE  /\ k * ReplyTimeout \in Nat
         /\ (k + 1) * ReplyTimeout = k * ReplyTimeout + ReplyTimeout
         /\ k <= n => k * ReplyTimeout <= n * ReplyTimeout
<1>1. ReplyTimeout \in Nat
  BY Constants
<1>2. ASSUME k <= n PROVE k * ReplyTimeout <= n * ReplyTimeout
  <2>1. PICK d \in Nat : n = k + d
    BY <1>2
  <2>2. n * ReplyTimeout = k * ReplyTimeout + d * ReplyTimeout /\ d * ReplyTimeout \in Nat
    BY <1>1, <2>1
  <2>3. k * ReplyTimeout \in Nat
    BY <1>1
  <2>4. QED BY <2>2, <2>3
<1>3. QED BY <1>1, <1>2

LEMMA RakNetKeepsStep == IInv /\ RakNetKeeps /\ [Next]_vars => RakNetKeeps'
<1>. DEFINE Spent == attempt * ReplyTimeout
            Bad(a) == asked # None /\ attempt <= faults /\ a.by <= now /\ now < until
            Kept == /\ out \in {None, "status", "weak"}
                    /\ now <= Spent
                    /\ asked # None => until <= Spent
                    /\ out = None =>
                         attempt <= faults \/ (asked # None /\ attempt = faults + 1 /\ InTime)
                    /\ out = None =>
                         /\ \A a \in air : a.q = "ping" /\ (Good(a) \/ Bad(a))
                         /\ \A a, b \in air : Good(a) \/ Good(b) \/ a = b
<1>. SUFFICES ASSUME IInv, RakNetKeeps, [Next]_vars, proto' = "raknet",
                     server'["ping"] \in {"pong", "weak"}, cancelled' = None, faults' < Attempts
              PROVE  Kept'
  BY DEF RakNetKeeps
<1>1. /\ proto = "raknet" /\ proto' = proto /\ server' = server /\ ctxEnd' = ctxEnd
      /\ server["ping"] \in {"pong", "weak"} /\ cancelled = None
      /\ faults \in Nat /\ faults' \in Nat /\ faults <= faults' /\ faults < Attempts
  BY Onward, Constants
<1>2. Kept
  BY <1>1 DEF RakNetKeeps
<1>3. /\ TypeOK /\ Running /\ proto \in Protocols
      /\ now \in Nat /\ until \in Nat /\ ctxEnd \in Nat /\ now <= ctxEnd /\ until <= ctxEnd
      /\ closed => now = ctxEnd
      /\ asked \in {"ping", None} /\ "ping" # None /\ attempt \in Nat
      /\ asked # None => out = None /\ now <= until
  BY <1>1, Types, Asks, Nil DEF IInv, Running, TypeOK
<1>4. /\ Spent \in Nat /\ (attempt + 1) * ReplyTimeout = Spent + ReplyTimeout
      /\ attempt < Attempts => Spent < ctxEnd
  <2>1. Spent \in Nat /\ (attempt + 1) * ReplyTimeout = Spent + ReplyTimeout
    BY <1>3, TriesTake
  <2>2. ASSUME attempt < Attempts PROVE Spent < ctxEnd
    <3>1. PICK last \in Nat : last = Attempts - 1 /\ attempt <= last
      BY <1>3, <2>2, Constants
    <3>2. Spent <= last * ReplyTimeout /\ last * ReplyTimeout \in Nat
      BY <1>3, <3>1, TriesTake
    <3>3. ctxEnd > last * ReplyTimeout
      BY <1>3, <3>1, Constants DEF Running
    <3>4. QED BY <1>3, <2>1, <3>2, <3>3
  <2>3. QED BY <2>1, <2>2
<1>5. PICK spent \in Nat :
        /\ spent = Spent /\ (attempt + 1) * ReplyTimeout = spent + ReplyTimeout
        /\ attempt < Attempts => spent < ctxEnd
  BY <1>4
<1>. HIDE DEF Spent
<1>6. ReplyTimeout \in Nat \ {0} /\ Attempts \in Nat /\ Attempts <= MaxFaults /\ MaxFaults \in Nat
  BY Constants
\* What is read is an answer, or it is none and spoils one attempt.
<1>7. \A a \in air : Good(a) /\ a.q = "ping" => a.what \in {"pong", "weak"}
  BY <1>1 DEF Good
<1>8. CASE RakNetLoop
  <2>1. /\ asked = None /\ out = None /\ now' = now /\ attempt <= faults /\ now <= spent
        /\ now < ctxEnd
    BY <1>1, <1>2, <1>3, <1>5, <1>6, <1>8 DEF RakNetLoop
  <2>2. ~LoopOver /\ ~CtxOver /\ ~HostFails
    BY <1>1, <1>3, <1>6, <2>1 DEF LoopOver, CtxOver, HostFails
  <2>3. \A a \in air : a.q = "ping" /\ Good(a)
    BY <1>2, <2>1
  <2>4. Pending = {}
    BY <1>7, <2>3 DEF Pending
  <2>5. attempt' = attempt + 1 /\ Ask("ping", now + ReplyTimeout) /\ out' = out
    BY <1>8, <2>2, <2>4 DEF RakNetLoop
  <2>6. /\ asked' = "ping" /\ until' \in Nat /\ now < until' /\ until' <= now + ReplyTimeout
    BY <1>1, <1>3, <1>6, <2>1, <2>5, AskKeeps, Asks
  <2>7. Spent' = spent + ReplyTimeout
    BY <1>5, <2>5 DEF Spent
  <2>8. now' <= Spent' /\ until' <= Spent'
    BY <1>3, <1>6, <2>1, <2>6, <2>7
  <2>9. \A what, by : /\ Sent("ping", what, by).q = "ping" /\ Sent("ping", what, by).what = what
                      /\ Sent("ping", what, by).by = by
    BY DEF Sent
  <2>10. \A a : a \in air \/ (a.q = "ping" /\ a.what = server["ping"]) => a.q = "ping" /\ Good(a)'
    BY <1>1, <2>3 DEF Good
  <2>11. server["ping"] # "silent"
    BY <1>1
  <2>12. CASE air' = air \cup {Sent("ping", server["ping"], now)} /\ faults' = faults
    <3>1. PICK x : air' = air \cup {x} /\ x.q = "ping" /\ x.what = server["ping"] /\ x.by = now
      BY <2>9, <2>12
    <3>2. \A a \in air' : a.q = "ping" /\ Good(a)'
      BY <2>10, <3>1
    <3>3. Readable(x)'
      BY <1>1, <1>3, <2>1, <2>6, <3>1 DEF Readable
    <3>4. InTime'
      BY <2>1, <2>6, <3>1, <3>3 DEF InTime
    <3>5. attempt' <= faults' \/ attempt' = faults' + 1
      BY <1>1, <1>3, <2>1, <2>5, <2>12
    <3>6. QED BY <1>3, <2>1, <2>5, <2>6, <2>8, <3>2, <3>4, <3>5
  <2>13. CASE faults' = faults + 1 /\ Fault("ping")
    <3>1. attempt' <= faults'
      BY <1>1, <1>3, <2>1, <2>5, <2>13
    <3>2. PICK x : \A a \in air' : a.q = "ping" /\ (Good(a)' \/ (a = x /\ a.by <= now))
      <4>1. CASE air' = air
        BY <2>10, <4>1
      <4>2. CASE \E x, y : /\ air' = air \cup {x, y}
                           /\ x.q = "ping" /\ x.what = server["ping"]
                           /\ y.q = "ping" /\ y.what = server["ping"]
        BY <2>10, <4>2
      <4>3. CASE \E x : air' = air \cup {x} /\ x.q = "ping" /\ x.by = now
        BY <1>3, <2>10, <4>3
      <4>4. QED
        <5>1. CASE air' = air \cup {Sent("ping", server["ping"], now + Lateness)}
          BY <2>9, <4>2, <5>1
        <5>2. CASE \E bad \in Replies("ping") : air' = air \cup {Sent("ping", bad, now)}
          BY <2>9, <4>3, <5>2
        <5>3. CASE air' = air \cup {Sent("ping", server["ping"], now),
                                    Sent("ping", server["ping"], now + 1)}
          BY <2>9, <4>2, <5>3
        <5>4. QED BY <2>13, <4>1, <5>1, <5>2, <5>3 DEF Fault
    <3>3. \A a \in air' : a.q = "ping" /\ (Good(a)' \/ Bad(a)')
      BY <1>3, <2>1, <2>6, <3>1, <3>2
    <3>4. \A a, b \in air' : Good(a)' \/ Good(b)' \/ a = b
      BY <3>2
    <3>5. QED BY <2>1, <2>5, <2>8, <3>1, <3>3, <3>4
  <2>14. QED BY <2>5, <2>11, <2>12, <2>13 DEF Ask, Transmit
<1>9. CASE Dial
  BY <1>1, <1>9 DEF Dial
<1>10. CASE Read
  <2>1. PICK a \in air :
          /\ Readable(a)
          /\ IF a.what \in Failing \cup {"no"}
               THEN /\ Fails(ErrorOf(a.what))
                    /\ air' = air \ {a} /\ faults' = faults
               ELSE RakNetReads(a.what) \/ JavaReads(a.what) \/ NetherNetReads(a.what)
    BY <1>10 DEF Read
  <2>2. asked = "ping" /\ out = None /\ now' = now
    BY <1>3, <1>10, <2>1 DEF Readable, Read
  <2>3. CASE a.what \in Failing \cup {"no"}
    <3>1. asked' = None /\ attempt' = attempt /\ out' = out /\ Spent' = Spent
      BY <1>1, <2>1, <2>3 DEF Fails, RakNetFails, JavaFails, NetherNetFails, Spent
    <3>2. ~Good(a) /\ attempt <= faults
      BY <1>2, <1>7, <2>2, <2>3 DEF Failing
    <3>3. \A b \in air' : b.q = "ping" /\ Good(b)'
      <4>1. \A b \in air' : b \in air /\ b # a
        BY <2>1, <2>3
      <4>2. \A b \in air' : b.q = "ping" /\ Good(b)
        BY <1>2, <2>2, <3>2, <4>1
      <4>3. QED BY <1>1, <4>2 DEF Good
    <3>4. QED BY <1>2, <2>1, <2>2, <2>3, <3>1, <3>2, <3>3
  <2>4. CASE a.what \notin Failing \cup {"no"}
    <3>1. RakNetReads(a.what)
      BY <1>1, <2>1, <2>4 DEF JavaReads, NetherNetReads
    <3>2. /\ out' \in {"status", "weak"} /\ asked' = None /\ attempt' = attempt /\ Spent' = Spent
      BY <3>1 DEF RakNetReads, End, Spent
    <3>3. QED BY <1>2, <2>2, <3>2, Nil
  <2>5. QED BY <2>3, <2>4
<1>11. CASE GiveUp
  <2>1. asked = "ping" /\ out = None /\ now >= until /\ Fails("other") /\ UNCHANGED <<now, air, faults>>
    BY <1>1, <1>3, <1>11, Nil DEF GiveUp, Interrupted, wire
  <2>2. asked' = None /\ attempt' = attempt /\ out' = out /\ Spent' = Spent
    BY <1>1, <2>1 DEF Fails, RakNetFails, JavaFails, NetherNetFails, Spent
  <2>3. ~(now < until)
    BY <1>3, <2>1
  <2>4. attempt <= faults /\ \A a \in air : a.q = "ping" /\ Good(a)
    BY <1>2, <2>1, <2>3 DEF InTime
  <2>5. \A a \in air' : a.q = "ping" /\ Good(a)'
    BY <1>1, <2>1, <2>4 DEF Good
  <2>6. QED BY <1>2, <2>1, <2>2, <2>4, <2>5
<1>12. CASE Tick
  <2>1. /\ asked = "ping" /\ out = None /\ now < until /\ now' = now + 1
        /\ UNCHANGED <<asked, until, attempt, out, air, faults>> /\ Spent' = Spent
        /\ \A a \in air : ~Readable(a)
    BY <1>3, <1>12 DEF Tick, wire, Spent
  <2>2. attempt <= faults
    BY <1>2, <2>1 DEF InTime
  <2>3. \A a \in air : a.q = "ping" /\ Good(a)
    BY <1>1, <1>2, <1>3, <2>1 DEF Readable
  <2>4. \A a \in air' : a.q = "ping" /\ Good(a)'
    BY <1>1, <2>1, <2>3 DEF Good
  <2>5. now' <= Spent'
    BY <1>2, <1>3, <1>5, <2>1
  <2>6. QED BY <1>2, <2>1, <2>2, <2>4, <2>5
<1>13. CASE Cancel
  BY <1>1, <1>3, <1>13, Nil DEF Cancel
<1>14. CASE CloseConn \/ UNCHANGED vars
  <2>1. UNCHANGED <<now, proto, server, asked, until, attempt, out, air, faults, Spent>>
    BY <1>14 DEF CloseConn, vars, wire, Spent
  <2>2. InTime' = InTime /\ \A a : Good(a)' = Good(a)
    BY <2>1 DEF InTime, Readable, Good
  <2>3. QED BY <1>2, <2>1, <2>2
<1>15. QED
  BY <1>8, <1>9, <1>10, <1>11, <1>12, <1>13, <1>14 DEF Next

-----------------------------------------------------------------------------
LEMMA InitFInv == Init => FInv
<1>. SUFFICES ASSUME Init PROVE FInv
  OBVIOUS
<1>1. /\ now = 0 /\ until = 0 /\ faults = 0 /\ air = {} /\ asked = None /\ out = None
      /\ went = NotFar /\ proto = "raknet" => attempt = 0
      /\ proto # "raknet" => attempt = 1
  BY DEF Init
<1>2. QED BY <1>1, Nil, Constants DEF FInv, JavaKeeps, NetherNetKeeps, RakNetKeeps, NotFar, Init

\* A server that answers is found: RakNet's though the network fails all but one
\* of its attempts, NetherNet's that speaks TLS only, and Java's.
THEOREM AnsweringServerIsFound == Spec => []ServerFound
<1>1. IInv /\ FInv /\ [Next]_vars => (IInv /\ FInv)'
  BY Inductive, JavaKeepsStep, NetherNetKeepsStep, RakNetKeepsStep DEF FInv
<1>2. IInv /\ FInv => ServerFound
  <2>. SUFFICES ASSUME IInv, FInv, Answering, cancelled = None, faults <= Tolerated
                PROVE  out \in {"status", "weak", None}
    BY DEF ServerFound
  <2>1. proto \in {"raknet", "nethernet", "tcp"} /\ faults \in Nat
    BY Types DEF IInv, Protocols
  <2>2. CASE proto = "raknet"
    BY <2>1, <2>2, Constants DEF Answering, Tolerated, FInv, RakNetKeeps
  <2>3. CASE proto = "tcp"
    BY <2>1, <2>3 DEF Answering, Tolerated, FInv, JavaKeeps
  <2>4. CASE proto = "nethernet"
    BY <2>1, <2>4 DEF Answering, Tolerated, FInv, NetherNetKeeps
  <2>5. QED BY <2>1, <2>2, <2>3, <2>4
<1>3. QED BY <1>1, <1>2, InitIInv, InitFInv, PTL DEF Spec

-----------------------------------------------------------------------------
(***************************************************************************)
(* A probe comes to an end, and to an outcome.                             *)
(***************************************************************************)
\* A probe that tries again, or gives up after its last attempt, knows the error
\* of the attempt before it (lastErr of pingBedrock, err of pingNetherNet).
ErrorKnown ==
  /\ proto = "raknet" /\ attempt > 0 /\ asked = None /\ out = None => lastErr # None
  /\ proto = "raknet" /\ attempt = 0 => asked = None
  /\ proto = "nethernet" => attempt = 1 \/ (attempt = 2 /\ lastErr # None)

\* How many questions, and answers to them, a probe may still have before it.
\* NetherNet's second connection begins anew.
Left(q) ==
  IF q = "syn" THEN 4 ELSE IF q \in {"get", "hello", "request"} THEN 3
  ELSE IF q = "secure" THEN 2 ELSE IF q \in {"body", "echo"} THEN 1 ELSE 5

Connections == IF proto = "nethernet" /\ attempt = 1 THEN 5 ELSE 0
Tries == 2 * (Attempts - attempt) + (IF asked = None THEN 1 ELSE 2)

QuestionsLeft ==
  IF out # None THEN 0 ELSE IF proto = "raknet" THEN Tries ELSE Left(asked) + Connections

\* And the steps: the context may be cancelled and close the connection once.
StepsLeft ==
  (ctxEnd - now) + QuestionsLeft + (IF cancelled = None THEN 1 ELSE 0) + (IF closed THEN 0 ELSE 1)

MostSteps == ctxEnd + (IF proto = "raknet" THEN 2 * Attempts + 1 ELSE 10) + 2

XInv == IInv /\ ErrorKnown

LEMMA LeftOver ==
  /\ Left("syn") = 4 /\ Left("get") = 3 /\ Left("hello") = 3 /\ Left("request") = 3
  /\ Left("secure") = 2 /\ Left("body") = 1 /\ Left("echo") = 1 /\ Left(None) = 5
  /\ \A q : Left(q) \in 1 .. 5
BY Nil DEF Left

LEMMA TriesLeft ==
  ASSUME XInv
  PROVE  /\ QuestionsLeft \in Nat
         /\ QuestionsLeft <= (IF proto = "raknet" THEN 2 * Attempts + 1 ELSE 10)
         /\ out = None => 0 < QuestionsLeft
<1>1. /\ attempt \in Nat /\ Attempts \in Nat
      /\ proto = "raknet" => attempt <= Attempts
  <2>1. attempt \in Nat /\ attempt \in AttemptsMade /\ Attempts \in Nat
    BY Types, Constants DEF XInv, IInv
  <2>2. QED BY <2>1 DEF AttemptsMade
<1>2. CASE out # None
  <2>1. QuestionsLeft = 0
    BY <1>2 DEF QuestionsLeft
  <2>2. 0 <= (IF proto = "raknet" THEN 2 * Attempts + 1 ELSE 10)
    BY <1>1
  <2>3. QED BY <1>2, <2>1, <2>2
<1>3. CASE out = None /\ proto = "raknet"
  <2>1. PICK left \in Nat : left = Attempts - attempt
    BY <1>1, <1>3
  <2>2. asked # None => left < Attempts
    <3>1. asked # None => attempt # 0
      BY <1>3 DEF XInv, ErrorKnown
    <3>2. QED BY <1>1, <2>1, <3>1
  <2>3. QuestionsLeft = 2 * left + (IF asked = None THEN 1 ELSE 2)
    BY <1>3, <2>1 DEF QuestionsLeft, Tries
  <2>4. left <= Attempts
    BY <1>1, <2>1
  <2>5. QED BY <1>1, <1>3, <2>1, <2>2, <2>3, <2>4
<1>4. CASE out = None /\ proto # "raknet"
  <2>1. PICK left \in 1 .. 5 : left = Left(asked)
    BY LeftOver
  <2>2. PICK more \in {0, 5} : more = Connections
    BY DEF Connections
  <2>3. QuestionsLeft = left + more
    BY <1>4, <2>1, <2>2 DEF QuestionsLeft
  <2>4. QED BY <1>4, <2>1, <2>2, <2>3
<1>5. QED BY <1>2, <1>3, <1>4

\* What a step of the probe is to do.
OnItsWay == QuestionsLeft' < QuestionsLeft /\ ErrorKnown'

\* The end of the probe.
LEMMA EndGoesOn ==
  ASSUME XInv, proto' = proto, out = None, out' # None, asked' = None,
         attempt' = attempt, lastErr' = lastErr
  PROVE  OnItsWay
<1>1. QuestionsLeft \in Nat /\ 0 < QuestionsLeft
  BY TriesLeft
<1>2. QuestionsLeft' = 0
  BY DEF QuestionsLeft
<1>3. ErrorKnown'
  BY DEF XInv, ErrorKnown
<1>4. QED BY <1>1, <1>2, <1>3 DEF OnItsWay

\* The next question on the same connection.
LEMMA AskGoesOn ==
  ASSUME XInv, proto' = proto, proto # "raknet", out = None, out' = None,
         Left(asked') < Left(asked), attempt' = attempt, lastErr' = lastErr
  PROVE  OnItsWay
<1>1. PICK less \in 1 .. 5 : less = Left(asked')
  BY LeftOver
<1>2. PICK left \in 1 .. 5 : left = Left(asked)
  BY LeftOver
<1>3. PICK more \in {0, 5} : more = Connections /\ more = Connections'
  BY DEF Connections
<1>4. QuestionsLeft = left + more
  BY <1>2, <1>3 DEF QuestionsLeft
<1>5. QuestionsLeft' = less + more
  <2>1. Left(asked)' = less
    BY <1>1 DEF Left
  <2>2. QED BY <1>3, <2>1 DEF QuestionsLeft
<1>6. less < left
  BY <1>1, <1>2
<1>7. ErrorKnown'
  BY DEF XInv, ErrorKnown
<1>8. QED BY <1>4, <1>5, <1>6, <1>7 DEF OnItsWay

\* A question that fails, or a dial that does.
LEMMA FailGoesOn ==
  ASSUME XInv, proto' = proto, out = None, NEW error \in Errors, Fails(error),
         proto = "raknet" => asked # None
  PROVE  OnItsWay
<1>1. error # None /\ "status" # None
  BY Nil DEF Errors, LocalErrors
<1>2. CASE RakNetFails(error)
  <2>1. /\ proto = "raknet" /\ asked # None
        /\ lastErr' = error /\ asked' = None /\ attempt' = attempt /\ out' = None
    BY <1>2 DEF RakNetFails
  <2>2. attempt \in Nat /\ Attempts \in Nat
    BY Types, Constants DEF XInv, IInv
  <2>3. PICK left \in Int : left = Attempts - attempt
    BY <2>2
  <2>4. QuestionsLeft = 2 * left + 2 /\ QuestionsLeft' = 2 * left + 1
    BY <2>1, <2>3 DEF QuestionsLeft, Tries
  <2>5. ErrorKnown'
    BY <1>1, <2>1 DEF ErrorKnown, XInv
  <2>6. QED BY <2>3, <2>4, <2>5 DEF OnItsWay
<1>3. CASE JavaFails(error)
  <2>1. out' # None /\ asked' = None /\ attempt' = attempt /\ lastErr' = lastErr
    BY <1>1, <1>3 DEF JavaFails, End
  <2>2. QED BY <2>1, EndGoesOn
<1>4. CASE NetherNetFails(error)
  <2>1. proto = "nethernet" /\ (attempt = 1 \/ (attempt = 2 /\ lastErr # None))
    BY <1>4 DEF NetherNetFails, XInv, ErrorKnown
  <2>2. CASE out' # None
    <3>1. asked' = None /\ attempt' = attempt /\ lastErr' = lastErr
      BY <1>4, <2>2 DEF NetherNetFails, End
    <3>2. QED BY <2>2, <3>1, EndGoesOn
  <2>3. CASE out' = None
    <3>1. attempt = 1 /\ attempt' = 2 /\ lastErr' = error /\ asked' = None
      BY <1>1, <1>4, <2>1, <2>3 DEF NetherNetFails, End
    <3>2. PICK left \in 1 .. 5 : left = Left(asked)
      BY LeftOver
    <3>3. QuestionsLeft = left + 5
      BY <2>1, <3>1, <3>2 DEF QuestionsLeft, Connections
    <3>4. QuestionsLeft' = 5
      <4>1. Left(asked') = 5
        BY <3>1, LeftOver
      <4>2. Left(asked)' = 5
        BY <4>1 DEF Left
      <4>3. Connections' = 0
        BY <3>1 DEF Connections
      <4>4. QED BY <2>1, <2>3, <4>2, <4>3 DEF QuestionsLeft
    <3>5. ErrorKnown'
      BY <1>1, <2>1, <3>1 DEF ErrorKnown
    <3>6. QED BY <3>2, <3>3, <3>4, <3>5 DEF OnItsWay
  <2>4. QED BY <2>2, <2>3
<1>5. QED BY <1>2, <1>3, <1>4 DEF Fails

LEMMA LoopGoesOn == ASSUME XInv, RakNetLoop PROVE OnItsWay
<1>1. proto = "raknet" /\ proto' = proto /\ asked = None /\ out = None /\ lastErr' = lastErr
  BY DEF RakNetLoop
<1>2. "other" # None /\ "rejected" # None /\ "ping" # None /\ \A e \in LocalErrors : e # None
  BY Nil DEF LocalErrors
<1>3. attempt \in Nat /\ Attempts \in Nat \ {0}
  BY Types, Constants DEF XInv, IInv
<1>4. CASE LoopOver /\ End(lastErr) /\ attempt' = attempt
  <2>1. lastErr # None
    BY <1>1, <1>3, <1>4 DEF LoopOver, XInv, ErrorKnown
  <2>2. out' # None /\ asked' = None
    BY <1>4, <2>1 DEF End
  <2>3. QED BY <1>1, <1>4, <2>2, EndGoesOn
<1>5. ASSUME NEW e, End(e), e # None, attempt' = attempt PROVE OnItsWay
  <2>1. out' # None /\ asked' = None
    BY <1>5 DEF End
  <2>2. QED BY <1>1, <1>5, <2>1, EndGoesOn
<1>6. \A what : ErrorOf(what) # None
  BY <1>2 DEF ErrorOf
<1>7. CASE attempt' = attempt + 1 /\ Ask("ping", now + ReplyTimeout) /\ UNCHANGED out
  <2>1. asked' = "ping" /\ out' = None
    BY <1>1, <1>7 DEF Ask
  <2>2. PICK left \in Int : left = Attempts - attempt
    BY <1>3
  <2>3. QuestionsLeft = 2 * left + 1
    BY <1>1, <2>2 DEF QuestionsLeft, Tries
  <2>4. Attempts - attempt' = left - 1
    BY <1>3, <1>7, <2>2
  <2>5. QuestionsLeft' = 2 * (left - 1) + 2
    BY <1>1, <1>2, <2>1, <2>4 DEF QuestionsLeft, Tries
  <2>6. ErrorKnown'
    BY <1>1, <1>2, <1>3, <1>7, <2>1 DEF ErrorKnown
  <2>7. QED BY <2>2, <2>3, <2>5, <2>6 DEF OnItsWay
<1>8. QED BY <1>2, <1>4, <1>5, <1>6, <1>7 DEF RakNetLoop

LEMMA DialGoesOn == ASSUME XInv, Dial PROVE OnItsWay
<1>1. proto # "raknet" /\ proto' = proto /\ asked = None /\ out = None
  BY DEF Dial
<1>2. CASE UNCHANGED <<attempt, lastErr, went, out>> /\ Ask("syn", DialEnds)
  <2>1. asked' = "syn" /\ Left(asked') < Left(asked)
    BY <1>1, <1>2, LeftOver DEF Ask
  <2>2. QED BY <1>1, <1>2, <2>1, AskGoesOn
<1>3. \A e \in LocalErrors : e \in Errors
  BY DEF Errors
<1>4. "other" \in Errors
  BY DEF Errors
<1>5. ASSUME NEW e \in Errors, Fails(e) PROVE OnItsWay
  BY <1>1, <1>5, FailGoesOn
<1>6. QED BY <1>2, <1>3, <1>4, <1>5 DEF Dial

LEMMA ReadGoesOn == ASSUME XInv, Read PROVE OnItsWay
<1>1. TypeOK /\ Running /\ proto' = proto
  BY DEF XInv, IInv, Read
<1>2. proto \in Protocols /\ asked \in Questions[proto] \cup {None} /\ Air
  BY <1>1, Types
<1>3. PICK a \in air :
        /\ Readable(a)
        /\ IF a.what \in Failing \cup {"no"}
             THEN Fails(ErrorOf(a.what))
             ELSE RakNetReads(a.what) \/ JavaReads(a.what) \/ NetherNetReads(a.what)
  BY DEF Read
<1>4. asked # None /\ out = None /\ a.q = asked /\ a.what \in Replies(asked)
  BY <1>1, <1>2, <1>3 DEF Readable, Running, Air
<1>5. CASE Fails(ErrorOf(a.what))
  BY <1>1, <1>4, <1>5, ErrorKinds, FailGoesOn
<1>6. "status" # None /\ "weak" # None
  BY Nil
<1>7. CASE RakNetReads(a.what)
  <2>1. out' # None /\ asked' = None /\ attempt' = attempt /\ lastErr' = lastErr
    BY <1>6, <1>7 DEF RakNetReads, End
  <2>2. QED BY <1>1, <1>4, <2>1, EndGoesOn
<1>8. ASSUME NEW q, NEW then, Ask(q, then), out' = out, Left(q) < Left(asked),
             proto # "raknet", attempt' = attempt, lastErr' = lastErr
      PROVE  OnItsWay
  <2>1. asked' = q
    BY <1>8 DEF Ask
  <2>2. QED BY <1>1, <1>4, <1>8, <2>1, AskGoesOn
<1>9. CASE JavaReads(a.what)
  <2>1. proto = "tcp" /\ UNCHANGED <<attempt, lastErr>> /\ asked \in {"syn", "request", "echo"}
    BY <1>2, <1>4, <1>9, Asks DEF JavaReads
  <2>2. CASE a.what = "accept" /\ Ask("request", now + IOTimeout) /\ UNCHANGED out
    <3>1. asked = "syn"
      BY <1>4, <2>1, <2>2, Answers
    <3>2. QED BY <1>8, <2>1, <2>2, <3>1, LeftOver
  <2>3. CASE a.what = "status" /\ Ask("echo", Min({now + PongWait, until})) /\ UNCHANGED out
    <3>1. asked = "request"
      BY <1>4, <2>1, <2>3, Answers
    <3>2. QED BY <1>8, <2>1, <2>3, <3>1, LeftOver
  <2>4. CASE End("status")
    <3>1. out' # None /\ asked' = None
      BY <1>6, <2>4 DEF End
    <3>2. QED BY <1>1, <1>4, <2>1, <3>1, EndGoesOn
  <2>5. QED BY <1>9, <2>2, <2>3, <2>4 DEF JavaReads
<1>10. CASE NetherNetReads(a.what)
  <2>1. /\ proto = "nethernet" /\ UNCHANGED <<attempt, lastErr>>
        /\ asked \in {"syn", "get", "hello", "secure", "body"}
    BY <1>2, <1>4, <1>10, Asks DEF NetherNetReads
  <2>2. CASE asked = "syn" /\ Ask(IF attempt = 2 THEN "hello" ELSE "get", until) /\ UNCHANGED out
    BY <1>8, <2>1, <2>2, LeftOver
  <2>3. CASE asked = "hello" /\ Ask("secure", until) /\ UNCHANGED out
    BY <1>8, <2>1, <2>3, LeftOver
  <2>4. CASE a.what = "ok" /\ Ask("body", until) /\ UNCHANGED out
    <3>1. asked \in {"get", "secure"}
      BY <1>4, <2>1, <2>4, Answers
    <3>2. QED BY <1>8, <2>1, <2>4, <3>1, LeftOver
  <2>5. CASE End(IF a.what = "empty" THEN "weak" ELSE "status")
    <3>1. out' # None /\ asked' = None
      BY <1>6, <2>5 DEF End
    <3>2. QED BY <1>1, <1>4, <2>1, <3>1, EndGoesOn
  <2>6. QED BY <1>10, <2>2, <2>3, <2>4, <2>5 DEF NetherNetReads
<1>11. QED BY <1>3, <1>5, <1>7, <1>9, <1>10

\* A step of the probe brings it on its way; the clock, the cancellation and the
\* close are counted by themselves.
LEMMA EveryStepGoesOn == ASSUME XInv, Next PROVE StepsLeft' < StepsLeft /\ ErrorKnown'
<1>1. /\ now \in Nat /\ ctxEnd \in Nat /\ now <= ctxEnd /\ until \in Nat /\ until <= ctxEnd
      /\ now # None
  BY Types, Nil DEF XInv, IInv
<1>2. PICK had \in Nat : had = QuestionsLeft
  BY TriesLeft
<1>3. PICK c \in {0, 1}, d \in {0, 1} :
        c = (IF cancelled = None THEN 1 ELSE 0) /\ d = (IF closed THEN 0 ELSE 1)
  OBVIOUS
<1>4. PICK time \in Nat : time = ctxEnd - now
  BY <1>1
<1>5. StepsLeft = time + had + c + d
  BY <1>2, <1>3, <1>4 DEF StepsLeft
<1>6. CASE RakNetLoop \/ Dial \/ Read \/ GiveUp
  <2>1. UNCHANGED <<now, proto, ctxEnd, cancelled, closed>>
    BY <1>6 DEF RakNetLoop, Dial, Read, GiveUp
  <2>2. ASSUME GiveUp PROVE OnItsWay
    <3>1. asked # None /\ Fails("other") /\ out = None
      BY <2>2 DEF GiveUp, XInv, IInv, Running
    <3>2. "other" \in Errors
      BY DEF Errors
    <3>3. QED BY <2>1, <3>1, <3>2, FailGoesOn
  <2>3. OnItsWay
    BY <1>6, <2>2, LoopGoesOn, DialGoesOn, ReadGoesOn
  <2>4. PICK has \in Int : has = QuestionsLeft' /\ has < had
    <3>1. QuestionsLeft' \in Int
      <4>1. PICK less \in 1 .. 5 : less = Left(asked')
        BY LeftOver
      <4>2. Left(asked)' = less
        BY <4>1 DEF Left
      <4>3. Connections' \in Int
        BY DEF Connections
      <4>4. attempt' \in Int /\ Attempts \in Int
        <5>1. IInv'
          BY Inductive DEF XInv
        <5>2. attempt' \in Nat
          BY <5>1 DEF IInv, TypeOK
        <5>3. QED BY <5>2, Constants
      <4>5. Tries' \in Int
        BY <4>4 DEF Tries
      <4>6. QED BY <4>2, <4>3, <4>5 DEF QuestionsLeft
    <3>2. QED BY <1>2, <2>3, <3>1 DEF OnItsWay
  <2>5. StepsLeft' = time + has + c + d
    BY <1>3, <1>4, <2>1, <2>4 DEF StepsLeft
  <2>6. QED BY <1>2, <1>3, <1>4, <1>5, <2>3, <2>4, <2>5 DEF OnItsWay
<1>7. ASSUME UNCHANGED <<proto, ctxEnd, asked, attempt, lastErr, out>>
      PROVE  QuestionsLeft' = had /\ ErrorKnown'
  BY <1>2, <1>7 DEF QuestionsLeft, Left, Connections, Tries, XInv, ErrorKnown
<1>8. CASE CloseConn
  <2>1. /\ UNCHANGED <<now, proto, ctxEnd, cancelled, asked, attempt, lastErr, out>>
        /\ ~closed /\ closed' = TRUE
    BY <1>8 DEF CloseConn, ClosePending
  <2>2. d = 1 /\ StepsLeft' = time + had + c + 0
    BY <1>3, <1>4, <1>7, <2>1 DEF StepsLeft
  <2>3. QED BY <1>2, <1>3, <1>4, <1>5, <1>7, <2>1, <2>2
<1>9. CASE Cancel
  <2>1. /\ UNCHANGED <<now, proto, ctxEnd, closed, asked, attempt, lastErr, out>>
        /\ cancelled = None /\ cancelled' # None
    BY <1>1, <1>9 DEF Cancel, CtxOver
  <2>2. c = 1 /\ StepsLeft' = time + had + 0 + d
    BY <1>3, <1>4, <1>7, <2>1 DEF StepsLeft
  <2>3. QED BY <1>2, <1>3, <1>4, <1>5, <1>7, <2>1, <2>2
<1>10. CASE Tick
  <2>1. /\ UNCHANGED <<proto, ctxEnd, cancelled, closed, asked, attempt, lastErr, out>>
        /\ now < until /\ now' = now + 1
    BY <1>10 DEF Tick
  <2>2. ctxEnd' - now' = time - 1
    BY <1>1, <1>4, <2>1
  <2>3. StepsLeft' = (time - 1) + had + c + d
    BY <1>3, <1>7, <2>1, <2>2 DEF StepsLeft
  <2>4. QED BY <1>2, <1>3, <1>4, <1>5, <1>7, <2>1, <2>3
<1>11. QED BY <1>6, <1>8, <1>9, <1>10 DEF Next

LEMMA ErrorStaysKnown == XInv /\ [Next]_vars => ErrorKnown'
<1>1. SUFFICES ASSUME XInv, UNCHANGED vars PROVE ErrorKnown'
  BY EveryStepGoesOn
<1>2. QED BY <1>1 DEF vars, XInv, ErrorKnown

LEMMA AlwaysXInv == Spec => []XInv
<1>1. Init => ErrorKnown
  BY DEF Init, ErrorKnown
<1>2. XInv /\ [Next]_vars => ErrorKnown'
  BY ErrorStaysKnown
<1>3. IInv /\ ErrorKnown <=> XInv
  BY DEF XInv
<1>4. QED BY <1>1, <1>2, <1>3, AlwaysIInv, PTL DEF Spec

\* A probe that gives up knows why, and never returns nil for both its status and
\* its error: after its last attempt, and on the connection over TLS, it has the
\* error of the one before (pingBedrock, pingNetherNet).
THEOREM NoneEndsWithNothing == Spec => []ErrorKnown
<1>1. XInv => ErrorKnown
  BY DEF XInv
<1>2. QED BY <1>1, AlwaysXInv, PTL

\* A probe comes to its end in boundedly many steps, by whichever transport and
\* whatever the network does: every step leaves it fewer, of MostSteps at the
\* start; a transport asks each question once for each attempt or connection, and
\* its deadlines lie before the end of the context.
THEOREM ProbeIsBounded ==
  Spec => [](StepsLeft \in 0 .. MostSteps) /\ [][StepsLeft' < StepsLeft]_vars
<1>1. XInv => StepsLeft \in 0 .. MostSteps
  <2>. SUFFICES ASSUME XInv PROVE StepsLeft \in 0 .. MostSteps
    OBVIOUS
  <2>2. now \in Nat /\ ctxEnd \in Nat /\ now <= ctxEnd /\ Attempts \in Nat
    BY Types, Constants DEF XInv, IInv
  <2>3. PICK had \in Nat :
          had = QuestionsLeft /\ had <= (IF proto = "raknet" THEN 2 * Attempts + 1 ELSE 10)
    BY TriesLeft
  <2>4. PICK most \in Nat : most = (IF proto = "raknet" THEN 2 * Attempts + 1 ELSE 10)
    BY <2>2
  <2>5. PICK c \in {0, 1}, d \in {0, 1} :
          c = (IF cancelled = None THEN 1 ELSE 0) /\ d = (IF closed THEN 0 ELSE 1)
    OBVIOUS
  <2>6. StepsLeft = (ctxEnd - now) + had + c + d
    BY <2>3, <2>5 DEF StepsLeft
  <2>7. MostSteps = ctxEnd + most + 2 /\ had <= most
    BY <2>3, <2>4 DEF MostSteps
  <2>8. QED BY <2>2, <2>3, <2>4, <2>5, <2>6, <2>7
<1>2. XInv /\ [Next]_vars => [StepsLeft' < StepsLeft]_vars
  BY EveryStepGoesOn
<1>3. QED BY <1>1, <1>2, AlwaysXInv, PTL DEF Spec

-----------------------------------------------------------------------------
(***************************************************************************)
(* Varint: the numbers of Java's protocol.                                 *)
(***************************************************************************)
LEMMA Places ==
  /\ Shift[1] = 1 /\ Shift[2] = 128 /\ Shift[3] = 16384
  /\ Shift[4] = 2097152 /\ Shift[5] = 268435456
  /\ \A i \in 1 .. 5 : Shift[i] \in Nat
BY SMT DEF Shift

\* The seven bits of a byte, alone and in their place.
LEMMA LowBits ==
  /\ \A b \in Byte : b % 128 \in Int
  /\ \A g \in 0 .. 127 : g % 128 = g /\ (g + 128) % 128 = g /\ g + 0 = g
BY SMT DEF Byte

LEMMA Fits ==
  ASSUME NEW g \in 0 .. 127, NEW i \in 1 .. 5, i = 5 => g < 16
  PROVE  g * Shift[i] \in Nat /\ g * Shift[i] < Width
<1>1. CASE i = 1 BY SMT, <1>1 DEF Shift, Width
<1>2. CASE i = 2 BY SMT, <1>2 DEF Shift, Width
<1>3. CASE i = 3 BY SMT, <1>3 DEF Shift, Width
<1>4. CASE i = 4 BY SMT, <1>4 DEF Shift, Width
<1>5. CASE i = 5 BY SMT, <1>5 DEF Shift, Width
<1>6. QED BY SMT, <1>1, <1>2, <1>3, <1>4, <1>5

Whole(u) ==
  Group(u, 1) * Shift[1] + Group(u, 2) * Shift[2] + Group(u, 3) * Shift[3]
    + Group(u, 4) * Shift[4] + Group(u, 5) * Shift[5]

\* A number of 32 bits is made of its five groups, the last of four bits.
LEMMA Groups ==
  ASSUME NEW u \in Nat, u < Width
  PROVE  /\ \A i \in 1 .. 5 : Group(u, i) \in 0 .. 127
         /\ Group(u, 5) < 16
         /\ u = Whole(u)
<1>. DEFINE u2 == u \div 128
            u3 == u \div 16384
            u4 == u \div 2097152
            u5 == u \div 268435456
<1>1. /\ Group(u, 1) = u % 128
      /\ Group(u, 2) = u2 % 128
      /\ Group(u, 3) = u3 % 128
      /\ Group(u, 4) = u4 % 128
      /\ Group(u, 5) = u5 % 128
  BY SMT DEF Group, Shift
<1>2. /\ u = 128 * u2 + (u % 128)
      /\ u % 128 \in 0 .. 127
  BY SMT DEF Width
<1>3. /\ u2 = 128 * u3 + (u2 % 128)
      /\ u2 % 128 \in 0 .. 127
  BY SMT DEF Width
<1>4. /\ u3 = 128 * u4 + (u3 % 128)
      /\ u3 % 128 \in 0 .. 127
  BY SMT DEF Width
<1>5. /\ u4 = 128 * u5 + (u4 % 128)
      /\ u4 % 128 \in 0 .. 127
  BY SMT DEF Width
<1>6. u5 \in 0 .. 15 /\ u5 % 128 = u5
  BY SMT DEF Width
<1>7. \A i \in 1 .. 5 : Group(u, i) \in 0 .. 127
  BY SMT, <1>1, <1>2, <1>3, <1>4, <1>5, <1>6
<1>8. Group(u, 5) < 16
  BY SMT, <1>1, <1>6
<1>9. u = Whole(u)
  <2>. HIDE DEF u2, u3, u4, u5
  <2>1. /\ u2 \in Int /\ u3 \in Int /\ u4 \in Int /\ u5 \in Int
    BY SMT DEF u2, u3, u4, u5
  <2>2. u = Group(u, 1) + 128 * Group(u, 2) + 16384 * Group(u, 3)
              + 2097152 * Group(u, 4) + 268435456 * Group(u, 5)
    BY SMT, <1>1, <1>2, <1>3, <1>4, <1>5, <1>6, <2>1
  <2>3. QED BY SMT, <1>7, <2>2, Places DEF Whole
<1>10. QED BY SMT, <1>7, <1>8, <1>9

\* A group above the last byte is empty.
LEMMA NothingAbove ==
  ASSUME NEW u \in Nat, u < Width, NEW i \in 1 .. 5, i > Size(u)
  PROVE  Group(u, i) = 0
<1>1. CASE i = 2 BY SMT, <1>1 DEF Size, Group, Shift
<1>2. CASE i = 3 BY SMT, <1>2 DEF Size, Group, Shift
<1>3. CASE i = 4 BY SMT, <1>3 DEF Size, Group, Shift
<1>4. CASE i = 5 BY SMT, <1>4 DEF Size, Group, Shift
<1>5. Size(u) \in 1 .. 5 BY SMT DEF Size
<1>6. i # 1 BY SMT, <1>5
<1>7. QED BY SMT, <1>1, <1>2, <1>3, <1>4, <1>6

\* What appendVarint wrote is what readVarint reads, for every number of 32
\* bits, -1 among them, and whatever follows it: the number, and not a byte more
\* than were written.
THEOREM ReadsWhatIsWritten ==
  ASSUME NEW v \in Int32, NEW s \in Seq(Byte),
         Size(Unsigned(v)) <= Len(s),
         \A i \in 1 .. Size(Unsigned(v)) : s[i] = Encoded(v)[i]
  PROVE  Taken(s) = Size(Unsigned(v)) /\ Decoded(s) = v
<1>. DEFINE u == Unsigned(v)
            n == Size(u)
<1>1. /\ u \in Nat /\ u < Width
      /\ Signed(u) = v
  BY SMT DEF Int32, Unsigned, Signed, Width
<1>. HIDE DEF u
<1>2. n \in 1 .. 5
  BY SMT, <1>1 DEF Size
<1>3. \A i \in 1 .. n : s[i] = Group(u, i) + (IF i < n THEN 128 ELSE 0)
  BY <1>2 DEF Encoded, u
<1>. HIDE DEF n
<1>4. n <= Len(s) /\ Len(s) \in Nat
  BY DEF n, u
<1>5. /\ \A i \in 1 .. 5 : Group(u, i) \in 0 .. 127
      /\ Group(u, 5) < 16
      /\ u = Whole(u)
  BY <1>1, Groups
<1>6. ASSUME NEW i \in 1 .. n
      PROVE  s[i] % 128 = Group(u, i) /\ (s[i] < 128 <=> i = n)
  <2>1. i \in 1 .. 5 BY SMT, <1>2
  <2>2. Group(u, i) \in 0 .. 127 BY <1>5, <2>1
  <2>3. s[i] = Group(u, i) + (IF i < n THEN 128 ELSE 0) BY <1>3
  <2>4. s[i] % 128 = Group(u, i)
    <3>1. CASE i < n
      <4>1. s[i] = Group(u, i) + 128 BY <2>3, <3>1
      <4>2. QED BY Zenon, <2>2, <4>1, LowBits
    <3>2. CASE ~(i < n)
      <4>1. s[i] = Group(u, i)
        <5>1. Group(u, i) + 0 = Group(u, i) BY Zenon, <2>2, LowBits
        <5>2. QED BY Zenon, <2>3, <3>2, <5>1
      <4>2. QED BY Zenon, <2>2, <4>1, LowBits
    <3>3. QED BY Zenon, <3>1, <3>2
  <2>5. s[i] < 128 <=> i = n
    <3>. DEFINE g == Group(u, i)
    <3>1. g \in 0 .. 127 /\ s[i] = g + (IF i < n THEN 128 ELSE 0)
      BY <2>2, <2>3
    <3>. HIDE DEF g
    <3>2. QED BY SMT, <1>2, <2>1, <3>1
  <2>6. QED BY <2>4, <2>5
<1>7. Taken(s) = n
  BY SMT, <1>2, <1>4, <1>6 DEF Taken
<1>8. ASSUME NEW i \in 1 .. 5
      PROVE  Placed(s, i) = Group(u, i) * Shift[i]
  <2>1. CASE i > n
    <3>1. Group(u, i) = 0 BY <1>1, <2>1, NothingAbove DEF n
    <3>2. Placed(s, i) = 0 BY SMT, <1>2, <1>7, <2>1 DEF Placed
    <3>3. Shift[i] \in Nat BY Places
    <3>4. QED BY SMT, <3>1, <3>2, <3>3
  <2>2. CASE i <= n
    <3>1. Placed(s, i) = (Group(u, i) * Shift[i]) % Width
      <4>1. i \in 1 .. n BY SMT, <1>2, <2>2
      <4>2. s[i] % 128 = Group(u, i) BY <1>6, <4>1
      <4>3. QED BY <1>7, <2>2, <4>2 DEF Placed
    <3>2. Group(u, i) \in 0 .. 127 BY <1>5
    <3>3. Group(u, i) * Shift[i] \in Nat /\ Group(u, i) * Shift[i] < Width
      BY <1>5, <3>2, Fits
    <3>4. QED BY SMT, <3>1, <3>3 DEF Width
  <2>3. QED BY SMT, <1>2, <2>1, <2>2
<1>9. Placed(s, 1) + Placed(s, 2) + Placed(s, 3) + Placed(s, 4) + Placed(s, 5) = u
  BY <1>5, <1>8 DEF Whole
<1>10. u % Width = u
  BY SMT, <1>1 DEF Width
<1>11. QED BY <1>1, <1>7, <1>9, <1>10 DEF Decoded, n, u

LEMMA PlacedSmall ==
  ASSUME NEW g \in 0 .. 127
  PROVE  /\ (g * Shift[1]) % Width \in 0 .. 127 * Shift[1]
         /\ (g * Shift[2]) % Width \in 0 .. 127 * Shift[2]
         /\ (g * Shift[3]) % Width \in 0 .. 127 * Shift[3]
         /\ (g * Shift[4]) % Width \in 0 .. 127 * Shift[4]
         /\ (g * Shift[5]) % Width \in Nat
<1>1. (g * Shift[1]) % Width \in 0 .. 127 * Shift[1] BY SMT DEF Shift, Width
<1>2. (g * Shift[2]) % Width \in 0 .. 127 * Shift[2] BY SMT DEF Shift, Width
<1>3. (g * Shift[3]) % Width \in 0 .. 127 * Shift[3] BY SMT DEF Shift, Width
<1>4. (g * Shift[4]) % Width \in 0 .. 127 * Shift[4] BY SMT DEF Shift, Width
<1>5. (g * Shift[5]) % Width \in Nat BY SMT DEF Shift, Width
<1>6. QED BY Zenon, <1>1, <1>2, <1>3, <1>4, <1>5

\* What a server can put into the bytes that readVarint takes: seven bits in each,
\* but no more than 32 together.
LEMMA TakenFits ==
  ASSUME NEW s \in Seq(Byte), Taken(s) # 0
  PROVE  \E u \in Nat : /\ u < Width
                        /\ Decoded(s) = Signed(u)
                        /\ Taken(s) < 5 => u < 128 * Shift[Taken(s)]
<1>. DEFINE n == Taken(s)
            sum == Placed(s, 1) + Placed(s, 2) + Placed(s, 3) + Placed(s, 4) + Placed(s, 5)
<1>1. n \in 1 .. 5 /\ n <= Len(s)
  BY SMT DEF Taken
<1>2. \A i \in 1 .. 5 : n < i => Placed(s, i) = 0
  BY SMT, <1>1 DEF Placed
<1>3. \A i \in 1 .. 5 : ~(n < i) => \E g \in 0 .. 127 : Placed(s, i) = (g * Shift[i]) % Width
  <2>1. \A b \in Byte : b % 128 \in 0 .. 127
    BY SMT DEF Byte
  <2>2. ASSUME NEW i \in 1 .. 5, i <= n PROVE s[i] \in Byte
    <3>1. i \in 1 .. Len(s) BY SMT, <1>1, <2>2
    <3>2. QED BY <3>1
  <2>3. \A i \in 1 .. 5 : ~(n < i) => i <= n
    BY SMT, <1>1
  <2>4. QED BY Zenon, <2>1, <2>2, <2>3 DEF Placed
<1>4. Decoded(s) = Signed(sum % Width)
  BY Zenon DEF Decoded
<1>. HIDE DEF n
<1>5. Placed(s, 1) \in 0 .. 127 * Shift[1] /\ (n < 1 => Placed(s, 1) = 0)
  <2>1. 1 \in 1 .. 5 /\ 0 \in 0 .. 127 * Shift[1]
    BY SMT DEF Shift
  <2>2. CASE n < 1
    BY Zenon, <1>2, <2>1, <2>2
  <2>3. CASE ~(n < 1)
    <3>1. PICK g \in 0 .. 127 : Placed(s, 1) = (g * Shift[1]) % Width
      BY Zenon, <1>3, <2>1, <2>3
    <3>2. QED BY Zenon, <2>3, <3>1, PlacedSmall
  <2>4. QED BY Zenon, <2>2, <2>3
<1>6. Placed(s, 2) \in 0 .. 127 * Shift[2] /\ (n < 2 => Placed(s, 2) = 0)
  <2>1. 2 \in 1 .. 5 /\ 0 \in 0 .. 127 * Shift[2]
    BY SMT DEF Shift
  <2>2. CASE n < 2
    BY Zenon, <1>2, <2>1, <2>2
  <2>3. CASE ~(n < 2)
    <3>1. PICK g \in 0 .. 127 : Placed(s, 2) = (g * Shift[2]) % Width
      BY Zenon, <1>3, <2>1, <2>3
    <3>2. QED BY Zenon, <2>3, <3>1, PlacedSmall
  <2>4. QED BY Zenon, <2>2, <2>3
<1>7. Placed(s, 3) \in 0 .. 127 * Shift[3] /\ (n < 3 => Placed(s, 3) = 0)
  <2>1. 3 \in 1 .. 5 /\ 0 \in 0 .. 127 * Shift[3]
    BY SMT DEF Shift
  <2>2. CASE n < 3
    BY Zenon, <1>2, <2>1, <2>2
  <2>3. CASE ~(n < 3)
    <3>1. PICK g \in 0 .. 127 : Placed(s, 3) = (g * Shift[3]) % Width
      BY Zenon, <1>3, <2>1, <2>3
    <3>2. QED BY Zenon, <2>3, <3>1, PlacedSmall
  <2>4. QED BY Zenon, <2>2, <2>3
<1>8. Placed(s, 4) \in 0 .. 127 * Shift[4] /\ (n < 4 => Placed(s, 4) = 0)
  <2>1. 4 \in 1 .. 5 /\ 0 \in 0 .. 127 * Shift[4]
    BY SMT DEF Shift
  <2>2. CASE n < 4
    BY Zenon, <1>2, <2>1, <2>2
  <2>3. CASE ~(n < 4)
    <3>1. PICK g \in 0 .. 127 : Placed(s, 4) = (g * Shift[4]) % Width
      BY Zenon, <1>3, <2>1, <2>3
    <3>2. QED BY Zenon, <2>3, <3>1, PlacedSmall
  <2>4. QED BY Zenon, <2>2, <2>3
<1>9. Placed(s, 5) \in Nat /\ (n < 5 => Placed(s, 5) = 0)
  <2>1. 5 \in 1 .. 5 /\ 0 \in Nat
    BY SMT, Places
  <2>2. CASE n < 5
    BY Zenon, <1>2, <2>1, <2>2
  <2>3. CASE ~(n < 5)
    <3>1. PICK g \in 0 .. 127 : Placed(s, 5) = (g * Shift[5]) % Width
      BY Zenon, <1>3, <2>1, <2>3
    <3>2. QED BY Zenon, <2>3, <3>1, PlacedSmall
  <2>4. QED BY Zenon, <2>2, <2>3
<1>10. /\ sum \in Nat
       /\ n < 5 => sum < 128 * Shift[n] /\ sum < Width
  <2>1. PICK p \in 0 .. 127 * Shift[1] : p = Placed(s, 1)
    BY Zenon, <1>5
  <2>2. PICK q \in 0 .. 127 * Shift[2] : q = Placed(s, 2) /\ (n < 2 => q = 0)
    BY Zenon, <1>6
  <2>3. PICK r \in 0 .. 127 * Shift[3] : r = Placed(s, 3) /\ (n < 3 => r = 0)
    BY Zenon, <1>7
  <2>4. PICK t \in 0 .. 127 * Shift[4] : t = Placed(s, 4) /\ (n < 4 => t = 0)
    BY Zenon, <1>8
  <2>5. PICK v \in Nat : v = Placed(s, 5) /\ (n < 5 => v = 0)
    BY Zenon, <1>9
  <2>6. sum = p + q + r + t + v
    BY Zenon, <2>1, <2>2, <2>3, <2>4, <2>5
  <2>. HIDE DEF sum
  <2>7. /\ p \in Nat /\ p <= 127
        /\ q \in Nat /\ q <= 16256 /\ (n < 2 => q = 0)
        /\ r \in Nat /\ r <= 2080768 /\ (n < 3 => r = 0)
        /\ t \in Nat /\ t <= 266338304 /\ (n < 4 => t = 0)
        /\ v \in Nat /\ (n < 5 => v = 0)
    BY SMT, <2>2, <2>3, <2>4, <2>5 DEF Shift
  <2>8. CASE n = 1 BY SMT, <2>6, <2>7, <2>8 DEF Shift, Width
  <2>9. CASE n = 2 BY SMT, <2>6, <2>7, <2>9 DEF Shift, Width
  <2>10. CASE n = 3 BY SMT, <2>6, <2>7, <2>10 DEF Shift, Width
  <2>11. CASE n = 4 BY SMT, <2>6, <2>7, <2>11 DEF Shift, Width
  <2>12. CASE n = 5 BY SMT, <2>6, <2>7, <2>12
  <2>13. n = 1 \/ n = 2 \/ n = 3 \/ n = 4 \/ n = 5
    BY SMT, <1>1
  <2>14. QED BY Zenon, <2>8, <2>9, <2>10, <2>11, <2>12, <2>13
<1>. HIDE DEF sum
<1>11. sum % Width \in Nat /\ sum % Width < Width /\ (n < 5 => sum % Width = sum)
  BY SMT, <1>10 DEF Width
<1>12. n < 5 => sum % Width < 128 * Shift[n]
  BY Zenon, <1>10, <1>11
<1>13. QED BY Zenon, <1>4, <1>11, <1>12 DEF n

\* The protocol lets a number be written longer than it need be.  However a server
\* writes a number that readVarint accepts, appendVarint writes that number in no
\* more bytes: of all the ways to write it, which with ReadsWhatIsWritten is one, it
\* takes the shortest.  And no server can send a negative length, or one of 2^28 and
\* more, in fewer than five bytes.
THEOREM WritesShortest ==
  ASSUME NEW s \in Seq(Byte), Taken(s) # 0
  PROVE  /\ Decoded(s) \in Int32
         /\ Size(Unsigned(Decoded(s))) <= Taken(s)
         /\ Taken(s) < 5 => Decoded(s) \in 0 .. Shift[5] - 1
<1>1. PICK u \in Nat : /\ u < Width
                       /\ Decoded(s) = Signed(u)
                       /\ Taken(s) < 5 => u < 128 * Shift[Taken(s)]
  BY TakenFits
<1>2. Signed(u) \in Int32 /\ Unsigned(Signed(u)) = u
  BY SMT, <1>1 DEF Signed, Unsigned, Int32, Width
<1>3. Taken(s) \in 1 .. 5
  BY SMT DEF Taken
<1>4. Taken(s) < 5 => u < Shift[5] /\ Signed(u) = u
  BY SMT, <1>1, <1>3 DEF Shift, Signed
<1>5. Size(u) <= Taken(s)
  BY SMT, <1>1, <1>3 DEF Size, Shift
<1>6. Taken(s) < 5 => Decoded(s) \in 0 .. Shift[5] - 1
  <2>1. \A x, top \in Nat : x < top => x \in 0 .. top - 1
    BY SMT
  <2>2. Shift[5] \in Nat
    BY SMT DEF Shift
  <2>3. QED BY Zenon, <1>1, <1>4, <2>1, <2>2
<1>7. Decoded(s) \in Int32 /\ Size(Unsigned(Decoded(s))) <= Taken(s)
  BY Zenon, <1>1, <1>2, <1>5
<1>8. QED BY Zenon, <1>6, <1>7
=============================================================================
