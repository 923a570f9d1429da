----------------------------- MODULE HttpClient -----------------------------
(***************************************************************************)
(* TorHttpClient and Socks5Tunnel: one request to the relay at a time,     *)
(* through a tunnel that the SOCKS5 proxy opens or, in dev mode, directly. *)
(*                                                                         *)
(* A request is a chain of callbacks on one socket: two timers, one after  *)
(* the other, and the events data, end and error.  Each callback is one    *)
(* action.  A promise is settled by the first call of resolve or reject,   *)
(* and the code that awaits it runs before the next event.                 *)
(*                                                                         *)
(* An answer is its status, whether it declares its length, and the number *)
(* of pieces that its body comes in; the header comes in two.              *)
(***************************************************************************)
EXTENDS Naturals, FiniteSets

CONSTANT MaxBody   \* bound: the body of an answer comes in 1..MaxBody pieces

ASSUME HttpAssumption == MaxBody \in Nat \ {0}

VARIABLES
    devMode,   \* config.devMode
    phase,     \* where the request is
    call,      \* what was asked: a message, or the health check
    sock,      \* the request's socket
    timers,    \* the timers that are armed
    relay,     \* what the relay has made of the request
    answer,    \* what it sends back
    got,       \* how many pieces of that have arrived
    result     \* how the last request ended

request == <<phase, call, sock, timers, relay, answer, got, result>>
http    == <<devMode, request>>

Phase == {"idle", "dial", "AUTH", "CONNECT", "request", "settled"}

Call == {"message", "health"}

\* "garbled" is an answer without a valid status line.
Status == {"ok", "error", "garbled"}

NoAnswer == [status |-> "none", declared |-> FALSE, size |-> 0]

Answer == [status : Status, declared : BOOLEAN, size : 1..MaxBody]

HeaderEnd == 2
WholeOf(a) == HeaderEnd + a.size

HttpInit ==
    /\ devMode \in BOOLEAN
    /\ phase = "idle" /\ call = "none"
    /\ sock = "none" /\ timers = {}
    /\ relay = "unread" /\ answer = NoAnswer /\ got = 0
    /\ result = "none"

-----------------------------------------------------------------------------
(* How a request ends *)

Tunnelling == phase \in {"AUTH", "CONNECT"}

\* The timer that the callbacks of this phase clear.
OwnTimer == IF Tunnelling THEN "tunnel" ELSE "request"

\* The socket is destroyed, or has failed, and the promise rejected.
Reject ==
    /\ phase' = "settled"
    /\ sock' = "closed"
    /\ timers' = timers \ {OwnTimer}
    /\ result' = "failed"
    /\ UNCHANGED <<call, relay, answer, got>>

\* Fault variant: any answer that is JSON will do.
JudgedByBody(n) == n = WholeOf(answer)

(***************************************************************************)
(* rawRequest hands over the answer as far as it was read, and the caller  *)
(* judges it: sendMessage wants status 200 and a body that is JSON, which  *)
(* no proper prefix of the relay's answer is; checkHealth only the status. *)
(***************************************************************************)
Judged(n) ==
    answer.status = "ok" /\ (call = "message" => n = WholeOf(answer))

\* Fault variant: a complete answer leaves the socket to the server.
ResolveOpen(n) ==
    /\ phase' = "settled"
    /\ timers' = timers \ {OwnTimer}
    /\ got' = n
    /\ result' = IF Judged(n) THEN "ok" ELSE "failed"
    /\ UNCHANGED <<call, sock, relay, answer>>

Resolve(n) ==
    /\ phase' = "settled"
    /\ sock' = "closed"
    /\ timers' = timers \ {OwnTimer}
    /\ got' = n
    /\ result' = IF Judged(n) THEN "ok" ELSE "failed"
    /\ UNCHANGED <<call, relay, answer>>

\* The timer is cleared and nobody settles the promise: the status line does
\* not parse, and the exception leaves the listener.
Throw(n) ==
    /\ sock' = "closed"
    /\ timers' = timers \ {OwnTimer}
    /\ got' = n
    /\ UNCHANGED <<phase, call, relay, answer, result>>

-----------------------------------------------------------------------------
(* Socks5Tunnel.connectViaSocks5, and the direct dial of dev mode *)

Ask(c) ==
    /\ phase = "idle"
    /\ phase' = IF devMode THEN "dial" ELSE "AUTH"
    /\ timers' = timers \cup (IF devMode THEN {} ELSE {"tunnel"})
    /\ call' = c
    /\ sock' = "opening"
    /\ UNCHANGED <<relay, answer, got, result>>

\* The socket is connected: the greeting is written to the proxy, or the
\* request to the relay.
Connected ==
    /\ sock = "opening"
    /\ sock' = "open"
    /\ phase' = IF phase = "dial" THEN "request" ELSE phase
    /\ timers' = timers \cup (IF phase = "dial" THEN {"request"} ELSE {})
    /\ UNCHANGED <<call, relay, answer, got, result>>

\* Fault variant: the time limit ends with the greeting.
ProxyGreetsUntimed ==
    /\ phase = "AUTH" /\ sock = "open"
    /\ phase' = "CONNECT"
    /\ timers' = timers \ {OwnTimer}
    /\ UNCHANGED <<call, sock, relay, answer, got, result>>

\* The proxy accepts the greeting: CONNECT is written.
ProxyGreets ==
    /\ phase = "AUTH" /\ sock = "open"
    /\ phase' = "CONNECT"
    /\ UNCHANGED <<call, sock, timers, relay, answer, got, result>>

\* The proxy has reached the relay: the tunnel's timer is cleared, the request
\* written and its own timer armed.
ProxyConnects ==
    /\ phase = "CONNECT" /\ sock = "open"
    /\ phase' = "request"
    /\ timers' = (timers \ {OwnTimer}) \cup {"request"}
    /\ UNCHANGED <<call, sock, relay, answer, got, result>>

\* Another version or method, a refusal, or too few bytes.
ProxyRefuses == Tunnelling /\ sock = "open" /\ Reject

\* The proxy closes: nothing listens for the end until the tunnel is up.
ProxyEnds ==
    /\ Tunnelling /\ sock = "open"
    /\ sock' = "ended"
    /\ UNCHANGED <<phase, call, timers, relay, answer, got, result>>

-----------------------------------------------------------------------------
(* rawRequest *)

(***************************************************************************)
(* The relay has the whole request.  It answers 200 to a message that it   *)
(* has taken and to the health check.                                      *)
(***************************************************************************)
RelayAnswers(a) ==
    /\ phase = "request" /\ sock = "open" /\ answer = NoAnswer
    /\ relay = "taken" => a.status = "ok"
    /\ answer' = a
    /\ relay' = IF a.status = "ok" THEN "taken" ELSE "refused"
    /\ UNCHANGED <<phase, call, sock, timers, got, result>>

\* It may also take the request and answer later, or never.
RelayTakes ==
    /\ phase = "request" /\ sock = "open" /\ answer = NoAnswer
    /\ relay = "unread"
    /\ relay' = "taken"
    /\ UNCHANGED <<phase, call, sock, timers, answer, got, result>>

Whole(n) == answer.declared /\ n = WholeOf(answer)

\* A chunk: the rest of the answer, or some of it.
Data(n) ==
    /\ phase = "request" /\ sock = "open" /\ answer # NoAnswer
    /\ got < n
    /\ IF ~Whole(n)
         THEN /\ got' = n
              /\ UNCHANGED <<phase, call, sock, timers, relay, answer, result>>
         ELSE IF answer.status = "garbled" THEN Throw(n) ELSE Resolve(n)

\* The server closes, when it has answered or before.
End ==
    /\ phase = "request" /\ sock = "open"
    /\ \/ /\ got = 0
          /\ sock' = "ended"
          /\ timers' = timers \ {OwnTimer}
          /\ UNCHANGED <<phase, call, relay, answer, got, result>>
       \/ /\ got > 0
          /\ IF got < HeaderEnd \/ answer.status = "garbled"
               THEN Reject ELSE Resolve(got)

\* The connection breaks, also after its end.
SocketError ==
    /\ phase \notin {"idle", "settled"}
    /\ sock \in {"opening", "open", "ended"}
    /\ Reject

\* The timer of a tunnel that was handed over would destroy the socket under
\* the request, whose promise it cannot settle.
TimerFires ==
    \E t \in timers :
        IF t = OwnTimer
          THEN Reject
          ELSE /\ sock' = "closed"
               /\ timers' = timers \ {t}
               /\ UNCHANGED <<phase, call, relay, answer, got, result>>

-----------------------------------------------------------------------------
\* The caller has the result; the next request starts afresh.
Return ==
    /\ phase = "settled"
    /\ phase' = "idle" /\ call' = "none" /\ sock' = "none"
    /\ relay' = "unread" /\ answer' = NoAnswer /\ got' = 0
    /\ result' = "none"
    /\ UNCHANGED timers

HttpStep ==
    /\ \/ Connected \/ ProxyGreets \/ ProxyConnects \/ ProxyRefuses \/ ProxyEnds
       \/ \E a \in Answer : RelayAnswers(a)
       \/ RelayTakes
       \/ \E n \in 1..WholeOf(answer) : Data(n)
       \/ End \/ SocketError \/ TimerFires
    /\ UNCHANGED devMode

HttpNext ==
    \/ \E c \in Call : Ask(c) /\ UNCHANGED devMode
    \/ HttpStep
    \/ Return /\ UNCHANGED devMode

HttpSpec == HttpInit /\ [][HttpNext]_http

(***************************************************************************)
(* The event loop fires the timer that is armed.  A dial of dev mode has   *)
(* none: the operating system ends it.                                     *)
(***************************************************************************)
HttpFairness ==
    /\ WF_http(TimerFires /\ UNCHANGED devMode)
    /\ WF_http(phase = "dial" /\ (Connected \/ SocketError) /\ UNCHANGED devMode)

HttpFairSpec == HttpSpec /\ HttpFairness

-----------------------------------------------------------------------------
(* Properties *)

(***************************************************************************)
(* The promise that a request returns settles unless the server ended the  *)
(* connection before its first byte, or sent a complete answer without a   *)
(* status line: the callbacks of these two clear the timer and return.     *)
(***************************************************************************)
Abandoned ==
    /\ phase = "request"
    /\ \/ sock = "ended" /\ got = 0
       \/ answer.status = "garbled" /\ Whole(got)

(***************************************************************************)
(* A request that is over has closed its socket and left no timer behind,  *)
(* whichever callback ended it, and one that is not has exactly the timer  *)
(* of its phase; so that none can fire into the next request.              *)
(***************************************************************************)
NothingLeft ==
    /\ phase \in {"settled", "idle"} => timers = {} /\ sock \in {"none", "closed"}
    /\ Tunnelling => timers = {"tunnel"}
    /\ phase = "request" /\ ~Abandoned => timers = {"request"}

(***************************************************************************)
(* A request for a message is a request as its caller knows it: it ends at *)
(* most once, and as a success only when the relay has taken the message,  *)
(* however the answer was cut, delayed or lost.                            *)
(***************************************************************************)
RequestState ==
    CASE phase = "settled"          -> result
      [] phase = "idle"             -> "idle"
      [] Abandoned                  -> "abandoned"
      [] OTHER                      -> "pending"

Caller == INSTANCE Request WITH state <- RequestState, reached <- (relay = "taken")

RefinesRequest == Caller!RequestSpec

(***************************************************************************)
(* Every request returns to its caller, within its two time limits, unless *)
(* it is abandoned.                                                        *)
(***************************************************************************)
Settles == (phase # "idle") ~> (phase = "settled" \/ Abandoned)
=============================================================================
