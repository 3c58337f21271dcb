----------------------------- MODULE Transports -----------------------------
(***************************************************************************)
(* One probe of one server by one transport: RakNet over UDP with its two  *)
(* attempts (pingBedrock), NetherNet over HTTP and once more over TLS      *)
(* (pingNetherNet), and Java's status with its Pong (pingJava).  How such  *)
(* a probe ends is what the module Race takes as a transport's outcome.    *)
(*                                                                         *)
(* The server is chosen at the start: what it replies to each question.    *)
(* The network may lose, delay, spoil or (UDP) duplicate MaxFaults of the  *)
(* replies.  The context of the race ends at ctxEnd or is cancelled before *)
(* that, and only then closes the connection (context.AfterFunc).          *)
(***************************************************************************)
EXTENDS Integers, FiniteSetsExt

CONSTANTS
  IOTimeout,    \* javaIOTimeout, 3 s
  ReplyTimeout, \* bedrockReplyTimeout, 2 s
  PongWait,     \* pongWait, 1 s
  Attempts,     \* bedrockAttempts, 2
  Contexts,     \* when the context of the probe may end
  Descriptions, \* the descriptions a Java server may send
  MaxFaults,    \* bound: faults of the network and of this host
  Lateness,     \* bound: how late a delayed reply is
  None          \* nil

ASSUME TransportsAssumption ==
  /\ {IOTimeout, ReplyTimeout, PongWait, Attempts, Lateness} \subseteq Nat \ {0}
  /\ Contexts \subseteq Nat \ {0}
  \* There is time for a second try, of a transport that starts last too:
  \* pingTimeout, 6 s, is more than 3 s, or 2 s, and two head starts.
  /\ \A c \in Contexts : c > IOTimeout /\ c > (Attempts - 1) * ReplyTimeout
  /\ MaxFaults >= Attempts
  /\ MaxFaults \in Nat
  /\ None \notin Nat

Protocols == {"raknet", "nethernet", "tcp"}

\* What a probe asks, in this order, and what it may get for an answer.  "echo"
\* is the Ping after Java's status, "hello" the TLS handshake, "secure" the
\* request over TLS, "body" what follows a 2xx.  A "no" is an HTTP answer that
\* is no 2xx; "junk" violates the protocol, such as a TLS alert to plain HTTP.
Questions == [raknet |-> {"ping"}, tcp |-> {"syn", "request", "echo"},
              nethernet |-> {"syn", "get", "hello", "secure", "body"}]

\* parsePong: a status, a pong that hides it, no pong; or an ICMP error.
PingReplies == {"pong", "weak", "junk", "refused", "rejected", "silent"}

\* readStatus and parseJavaStatus: a status, or what is none; or a close.
StatusReplies == {"status", "junk", "close", "silent"}

\* The body of a 2xx: a status, nothing, or what is no status or too large.
BodyReplies == {"status", "empty", "junk", "close", "silent"}

Replies(q) ==
  CASE q = "ping" -> PingReplies
    [] q = "syn" -> {"accept", "refused", "rejected", "silent"}
    [] q = "request" -> StatusReplies
    [] q = "echo" -> {"pong", "junk", "close", "silent"}
    [] q = "hello" -> {"accept", "junk", "close", "silent"}
    [] q \in {"get", "secure"} -> {"ok", "no", "junk", "close", "silent"}
    [] q = "body" -> BodyReplies

\* Whether a server with these replies is ever asked q.
IsAsked(s, q) ==
  CASE q \in {"ping", "syn"} -> TRUE
    [] q \in {"request", "get"} -> s["syn"] = "accept"
    [] q = "echo" -> s["request"] = "status"
    [] q = "hello" -> s["syn"] = "accept" /\ s["get"] # "ok"
    [] q = "secure" -> s["hello"] = "accept"
    [] q = "body" -> "ok" \in {s["get"], s["secure"]}

\* A server is told by its replies to what it may be asked.
Servers(p) ==
  LET all == UNION {Replies(q) : q \in Questions[p]} IN
  {s \in [Questions[p] -> all] :
     \A q \in Questions[p] : s[q] \in IF IsAsked(s, q) THEN Replies(q) ELSE {"silent"}}

VARIABLES
  now,
  proto,     \* the transport
  server,    \* what the server replies
  ctxEnd,    \* the deadline of the context
  cancelled, \* when the context was cancelled, or None
  closed,    \* whether the end of the context has closed the connection
  asked,     \* the question whose answer the probe waits for, or None
  until,     \* the deadline of that wait
  attempt,   \* the attempts made (RakNet), the connection the probe is at
  lastErr,   \* lastErr of RakNet, the error of the plain request of NetherNet
  went,      \* attempt of NetherNet: connected, handshake, ok
  status,    \* the description in the status that was read, or None
  out,       \* how the probe ended, None while it runs
  air,       \* replies on their way
  faults     \* bound: faults of the network so far

wire == <<air, faults>>
vars == <<now, proto, server, ctxEnd, cancelled, closed, asked, until, attempt,
          lastErr, went, status, out, wire>>

\* The errors that failure tells apart, as in the module Race.
LocalErrors == {"no_address", "no_network"}
Errors == LocalErrors \cup {"rejected", "other"}
Ends == {"status", "weak"} \cup Errors

\* nil is nothing else.
ASSUME NoneAssumption ==
  /\ None \notin Nat \cup Descriptions \cup Ends
  /\ \A p \in Protocols : None \notin Questions[p]

TypeOK ==
  /\ proto \in Protocols
  /\ server \in Servers(proto)
  /\ {now, until} \subseteq 0 .. ctxEnd
  /\ cancelled \in (0 .. now) \cup {None}
  /\ asked \in Questions[proto] \cup {None}
  /\ attempt \in 0 .. (IF proto = "raknet" THEN Attempts ELSE 2)
  /\ lastErr \in Errors \cup {None}
  /\ went \in [connected : BOOLEAN, handshake : BOOLEAN, ok : BOOLEAN]
  /\ status \in Descriptions \cup {None}
  /\ out \in Ends \cup {None}
  /\ closed => cancelled # None \/ now = ctxEnd
  /\ \A a \in air : a.what \in Replies(a.q)
  /\ faults \in 0 .. MaxFaults

NotFar == [connected |-> FALSE, handshake |-> FALSE, ok |-> FALSE]

Init ==
  /\ now = 0
  /\ proto \in Protocols
  /\ server \in Servers(proto)
  /\ ctxEnd \in Contexts
  /\ cancelled = None
  /\ closed = FALSE
  /\ asked = None
  /\ until = 0
  /\ attempt = IF proto = "raknet" THEN 0 ELSE 1
  /\ lastErr = None
  /\ went = NotFar
  /\ status = None
  /\ out = None
  /\ air = {}
  /\ faults = 0

CtxOver == cancelled # None \/ now >= ctxEnd

-----------------------------------------------------------------------------
(***************************************************************************)
(* The network between a question and its reply.                           *)
(***************************************************************************)
Sent(q, what, by) == [q |-> q, what |-> what, by |-> by, attempt |-> attempt']

Failing == {"junk", "close", "refused", "rejected"}

Fault(q) ==
  LET reply == server[q] IN
  \/ air' = air
  \/ reply # "silent" /\ air' = air \cup {Sent(q, reply, now + Lateness)}
  \/ \E bad \in Replies(q) \cap Failing : air' = air \cup {Sent(q, bad, now)}
  \/ /\ proto = "raknet" /\ reply # "silent"
     /\ air' = air \cup {Sent(q, reply, now), Sent(q, reply, now + 1)}

Transmit(q) ==
  \/ /\ air' = IF server[q] = "silent" THEN air ELSE air \cup {Sent(q, server[q], now)}
     /\ UNCHANGED faults
  \/ faults < MaxFaults /\ faults' = faults + 1 /\ Fault(q)

\* This host cannot use the family of the address: as bad as all of them.
HostFails ==
  /\ faults < MaxFaults
  /\ faults' = MaxFaults
  /\ UNCHANGED air

\* The probe sends q and waits for the answer until then, the end of the
\* context at the latest.
Ask(q, then) ==
  /\ asked' = q
  /\ until' = Min({then, ctxEnd})
  /\ Transmit(q)

\* A reply the probe can read: of its connection, and of an earlier attempt too
\* when that used the same socket.
Readable(a) ==
  /\ asked # None
  /\ a.q = asked
  /\ a.by <= now
  /\ proto = "raknet" \/ a.attempt = attempt

End(kind) == out' = kind /\ asked' = None /\ UNCHANGED until

ErrorOf(what) == IF what = "rejected" THEN "rejected" ELSE "other"

-----------------------------------------------------------------------------
(***************************************************************************)
(* RakNet.                                                                 *)
(***************************************************************************)
LoopOverOneLater == attempt > Attempts  \* seeded fault
LoopOver == attempt = Attempts

\* An ICMP error that came since the last read.
Pending == {a \in air : a.by <= now /\ a.what \in {"refused", "rejected"}}

\* The head of the loop and the write; the connection was made without a packet.
RakNetLoop ==
  /\ proto = "raknet" /\ asked = None /\ out = None
  /\ IF LoopOver THEN End(lastErr) /\ UNCHANGED <<attempt, wire>>
     ELSE IF CtxOver THEN End("other") /\ UNCHANGED <<attempt, wire>>
     ELSE \/ HostFails /\ (\E e \in LocalErrors : End(e)) /\ UNCHANGED attempt
          \/ \E a \in Pending : End(ErrorOf(a.what)) /\ UNCHANGED <<attempt, wire>>
          \/ attempt' = attempt + 1 /\ Ask("ping", now + ReplyTimeout) /\ UNCHANGED out
  /\ UNCHANGED <<now, proto, server, ctxEnd, cancelled, closed, lastErr, went, status>>

\* A read that fails, or reads no pong, leaves its error and the loop goes on.
RakNetFails(error) ==
  /\ proto = "raknet"
  /\ lastErr' = error
  /\ asked' = None
  /\ UNCHANGED <<until, attempt, went, out>>

RakNetReads(what) ==
  /\ proto = "raknet"
  /\ End(IF what = "pong" THEN "status" ELSE "weak")
  /\ UNCHANGED <<attempt, lastErr, went, status, wire>>

-----------------------------------------------------------------------------
(***************************************************************************)
(* Java, and the connection of both protocols over TCP.                    *)
(***************************************************************************)
JavaFailsPongToo(error) ==  \* seeded fault
  proto = "tcp" /\ End(error) /\ UNCHANGED <<attempt, lastErr, went>>

\* Once the status was read, nothing that happens to the Pong matters.
JavaFails(error) ==
  /\ proto = "tcp"
  /\ End(IF asked = "echo" THEN "status" ELSE error)
  /\ UNCHANGED <<attempt, lastErr, went>>

JavaReads(what) ==
  /\ proto = "tcp"
  /\ UNCHANGED <<attempt, lastErr, went>>
  /\ \/ /\ what = "accept"
        /\ Ask("request", now + IOTimeout)
        /\ UNCHANGED <<status, out>>
     \/ /\ what = "status"
        /\ status' \in Descriptions
        /\ Ask("echo", Min({now + PongWait, until}))
        /\ UNCHANGED out
     \/ what = "pong" /\ End("status") /\ UNCHANGED <<status, wire>>

-----------------------------------------------------------------------------
(***************************************************************************)
(* NetherNet: the second connection is over TLS.                           *)
(***************************************************************************)
\* A plain request that connected and got no 2xx is sent once more over TLS.
\* The error over TLS counts once the server spoke TLS.
NetherNetFails(error) ==
  /\ proto = "nethernet"
  /\ IF attempt = 2
     THEN End(IF went.handshake THEN error ELSE lastErr) /\ UNCHANGED <<attempt, lastErr, went>>
     ELSE IF ~went.connected \/ went.ok \/ CtxOver
     THEN End(error) /\ UNCHANGED <<attempt, lastErr, went>>
     ELSE /\ attempt' = 2
          /\ lastErr' = error
          /\ went' = NotFar
          /\ asked' = None
          /\ UNCHANGED <<until, out>>

NetherNetReads(what) ==
  /\ proto = "nethernet"
  /\ UNCHANGED <<attempt, lastErr, status>>
  /\ \/ /\ asked = "syn"
        /\ went' = [went EXCEPT !.connected = TRUE]
        /\ Ask(IF attempt = 2 THEN "hello" ELSE "get", until)
        /\ UNCHANGED out
     \/ /\ asked = "hello"
        /\ went' = [went EXCEPT !.handshake = TRUE]
        /\ Ask("secure", until)
        /\ UNCHANGED out
     \/ /\ what = "ok"
        /\ went' = [went EXCEPT !.ok = TRUE]
        /\ Ask("body", until)
        /\ UNCHANGED out
     \/ /\ asked = "body"
        /\ End(IF what = "empty" THEN "weak" ELSE "status")
        /\ UNCHANGED <<went, wire>>

-----------------------------------------------------------------------------
Fails(error) == RakNetFails(error) \/ JavaFails(error) \/ NetherNetFails(error)

DialEndsWithContext == ctxEnd  \* seeded fault

\* The end of a connection attempt: of the dial (Java), of the whole request
\* (NetherNet).
DialEnds == now + IOTimeout

\* The connection is made, unless this host cannot even try.
Dial ==
  /\ proto # "raknet" /\ asked = None /\ out = None
  /\ \/ ~CtxOver /\ UNCHANGED <<attempt, lastErr, went, out>> /\ Ask("syn", DialEnds)
     \/ ~CtxOver /\ HostFails /\ (\E e \in LocalErrors : Fails(e))
     \/ CtxOver /\ Fails("other") /\ UNCHANGED wire
  /\ UNCHANGED <<now, proto, server, ctxEnd, cancelled, closed, status>>

Read ==
  /\ \E a \in {b \in air : Readable(b)} :
       IF a.what \in Failing \cup {"no"}
       THEN /\ Fails(ErrorOf(a.what))
            /\ air' = air \ {a}
            /\ UNCHANGED <<status, faults>>
       ELSE RakNetReads(a.what) \/ JavaReads(a.what) \/ NetherNetReads(a.what)
  /\ UNCHANGED <<now, proto, server, ctxEnd, cancelled, closed>>

\* The end of the context ends a dial and everything of NetherNet by itself,
\* the reads of the others by closing their connection.
Interrupted ==
  \/ closed
  \/ CtxOver /\ (proto = "nethernet" \/ asked = "syn")

GiveUp ==
  /\ asked # None
  /\ now >= until \/ Interrupted
  /\ Fails("other")
  /\ UNCHANGED <<now, proto, server, ctxEnd, cancelled, closed, status, wire>>

ClosesNothing == {}  \* seeded fault

\* The transports that have the end of the context close their connection.
Closes == {"raknet", "tcp"}

ClosePending == CtxOver /\ ~closed /\ proto \in Closes /\ asked \notin {None, "syn"}

CloseConn ==
  /\ ClosePending
  /\ closed' = TRUE
  /\ UNCHANGED <<now, proto, server, ctxEnd, cancelled, asked, until, attempt,
                 lastErr, went, status, out, wire>>

\* The race is over, another transport has won.
Cancel ==
  /\ out = None
  /\ ~CtxOver
  /\ cancelled' = now
  /\ UNCHANGED <<now, proto, server, ctxEnd, closed, asked, until, attempt,
                 lastErr, went, status, out, wire>>

\* Time passes while the probe waits for a reply and for nothing else.
Tick ==
  /\ asked # None
  /\ now < until
  /\ ~Interrupted /\ ~ClosePending
  /\ \A a \in air : ~Readable(a)
  /\ now' = now + 1
  /\ UNCHANGED <<proto, server, ctxEnd, cancelled, closed, asked, until, attempt,
                 lastErr, went, status, out, wire>>

Next ==
  RakNetLoop \/ Dial \/ Read \/ GiveUp \/ CloseConn \/ Cancel \/ Tick

Spec == Init /\ [][Next]_vars

-----------------------------------------------------------------------------
\* A server that gives a status, or the weak answer of one that hides it.
Answering ==
  CASE proto = "raknet" -> server["ping"] \in {"pong", "weak"}
    [] proto = "tcp" -> server["request"] = "status"
    [] proto = "nethernet" -> server["body"] \in {"status", "empty"}

Tolerated == IF proto = "raknet" THEN Attempts - 1 ELSE 0

\* A server that answers is found: RakNet's even after a reply was lost, came
\* after its attempt was given up, or made room for something else's; a server
\* that speaks TLS only, however it meets plain HTTP, while the context lasts
\* (pingBedrock's attempts, pingNetherNet's second request).
ServerFound ==
  Answering /\ cancelled = None /\ faults <= Tolerated
    => out \in {"status", "weak", None}

\* A status that was read is the outcome, whatever becomes of the Pong and of
\* the context (pingJava).
StatusKept == status # None => out \in {None, "status"}

\* A probe ends with its context, by the deadline or a cancellation: nothing it
\* waits for outlasts it.  "It ends soon after ctx is cancelled."
EndsWithContext ==
  out = None => now <= (IF cancelled = None THEN ctxEnd ELSE cancelled)
=============================================================================
