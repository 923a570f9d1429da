-------------------------- MODULE HttpClientProofs --------------------------
(***************************************************************************)
(* Proofs about HttpClient for answers of any length: what a request       *)
(* leaves behind, and that the client implements Request.                  *)
(***************************************************************************)
EXTENDS HttpClient, TLAPS

\* The variables are of their types.
HttpTypeOK ==
    /\ devMode \in BOOLEAN
    /\ phase \in Phase
    /\ call \in Call \cup {"none"}
    /\ sock \in {"none", "opening", "open", "ended", "closed"}
    /\ timers \subseteq {"tunnel", "request"}
    /\ relay \in {"unread", "taken", "refused"}
    /\ answer \in Answer \cup {NoAnswer}
    /\ got \in Nat
    /\ result \in {"none", "ok", "failed"}

\* Nothing has come back before the request was written.
Fresh == relay = "unread" /\ answer = NoAnswer /\ got = 0

\* Inductive strengthening of NothingLeft: a socket and its timers in each
\* phase, and what an abandoned request still has.
PhaseInv ==
    /\ phase \in {"idle", "dial", "AUTH", "CONNECT"} => Fresh
    /\ phase \in {"idle", "dial"} => timers = {}
    /\ phase = "dial" => sock = "opening"
    /\ phase = "request" => sock \in {"open", "ended", "closed"}
    /\ phase = "request" /\ Abandoned => timers = {} /\ sock # "open"
    /\ phase = "request" /\ sock = "ended" => got = 0

\* What a result rests on: the relay's answer, and pieces only of an answer.
AnswerInv ==
    /\ answer.status = "ok" => relay = "taken"
    /\ answer = NoAnswer => got = 0
    /\ phase = "settled" <=> result # "none"
    /\ result = "ok" => relay = "taken"

HttpInv == HttpTypeOK /\ PhaseInv /\ AnswerInv /\ NothingLeft

-----------------------------------------------------------------------------

\* Nothing is open or counted before the first request.
LEMMA HttpInitInv == HttpInit => HttpInv
  BY DEF HttpInit, HttpInv, HttpTypeOK, PhaseInv, AnswerInv, NothingLeft, Fresh,
         Phase, Abandoned, NoAnswer, Tunnelling

\* The statuses and sizes of an answer, and of none.
LEMMA AnswerFacts ==
    ASSUME HttpTypeOK
    PROVE  /\ answer # NoAnswer => answer \in Answer
           /\ NoAnswer.status = "none"
           /\ answer.status \in {"ok", "error", "garbled", "none"}
           /\ WholeOf(answer) \in Nat /\ WholeOf(answer) >= HeaderEnd
           /\ HeaderEnd = 2
           /\ answer \in Answer => WholeOf(answer) > HeaderEnd
  BY HttpAssumption DEF HttpTypeOK, Answer, NoAnswer, WholeOf, HeaderEnd, Status

\* A request that is rejected leaves nothing, whichever timer was its own.
LEMMA RejectInv ==
    ASSUME HttpInv, UNCHANGED devMode, Reject, phase \notin {"idle", "settled"}
    PROVE  HttpInv'
<1>1. timers' = {}
  BY DEF HttpInv, HttpTypeOK, PhaseInv, NothingLeft, Reject, OwnTimer, Tunnelling, Phase
<1>2. HttpTypeOK'
  BY <1>1 DEF HttpInv, HttpTypeOK, Reject, Phase
<1>3. PhaseInv' /\ NothingLeft' /\ AnswerInv'
  BY <1>1 DEF HttpInv, PhaseInv, NothingLeft, AnswerInv, Reject, Tunnelling, Fresh
<1> QED BY <1>2, <1>3 DEF HttpInv

\* A result is an "ok" only for a message that the relay has taken.
LEMMA ResolveInv ==
    ASSUME HttpInv, UNCHANGED devMode, NEW n \in Nat, Resolve(n), phase = "request",
           sock = "open", answer # NoAnswer
    PROVE  HttpInv'
<1>1. timers' = {}
  BY DEF HttpInv, PhaseInv, NothingLeft, Resolve, OwnTimer, Tunnelling
<1>2. HttpTypeOK'
  BY <1>1 DEF HttpInv, HttpTypeOK, Resolve, Phase
<1>3. PhaseInv' /\ NothingLeft' /\ AnswerInv'
  BY <1>1 DEF HttpInv, PhaseInv, NothingLeft, AnswerInv, Resolve, Tunnelling, Fresh, Judged
<1> QED BY <1>2, <1>3 DEF HttpInv

\* What every step keeps.
LEMMA HttpNextInv == HttpInv /\ [HttpNext]_http => HttpInv'
<1> SUFFICES ASSUME HttpInv, [HttpNext]_http PROVE HttpInv'
  OBVIOUS
<1> USE DEF HttpInv, PhaseInv, AnswerInv, NothingLeft, Tunnelling, Fresh, OwnTimer
<1>a. /\ answer # NoAnswer => answer \in Answer
      /\ NoAnswer.status = "none" /\ answer.status \in {"ok", "error", "garbled", "none"}
      /\ WholeOf(answer) \in Nat /\ WholeOf(answer) >= HeaderEnd /\ HeaderEnd = 2
  BY AnswerFacts
<1>1. ASSUME NEW c \in Call, Ask(c), UNCHANGED devMode PROVE HttpInv'
  BY <1>1 DEF Ask, HttpTypeOK, Phase, Abandoned
<1>2. ASSUME HttpStep PROVE HttpInv'
  <2>0. UNCHANGED devMode
    BY <1>2 DEF HttpStep
  <2>1. CASE Connected
    BY <2>0, <2>1, <1>a DEF Connected, HttpTypeOK, Phase, Abandoned, Whole
  <2>2. CASE ProxyGreets
    BY <2>0, <2>2 DEF ProxyGreets, HttpTypeOK, Phase, Abandoned
  <2>3. CASE ProxyConnects
    BY <2>0, <2>3, <1>a DEF ProxyConnects, HttpTypeOK, Phase, Abandoned, Whole
  <2>4. CASE ProxyRefuses
    BY <2>0, <2>4, RejectInv DEF ProxyRefuses
  <2>5. CASE ProxyEnds
    BY <2>0, <2>5 DEF ProxyEnds, HttpTypeOK, Phase, Abandoned
  <2>6. ASSUME NEW a \in Answer, RelayAnswers(a) PROVE HttpInv'
    <3>1. a # NoAnswer /\ WholeOf(a) > 0 /\ a.status \in Status
      BY HttpAssumption DEF Answer, NoAnswer, WholeOf, HeaderEnd, Status
    <3>2. ~Abandoned /\ ~Abandoned'
      BY <2>6, <1>a, <3>1 DEF RelayAnswers, Abandoned, Whole
    <3>3. HttpTypeOK'
      BY <2>0, <2>6 DEF RelayAnswers, HttpTypeOK
    <3> QED BY <2>0, <2>6, <3>1, <3>2, <3>3 DEF RelayAnswers, Status
  <2>7. CASE RelayTakes
    BY <2>0, <2>7 DEF RelayTakes, HttpTypeOK, Phase, Abandoned, Whole
  <2>8. ASSUME NEW n \in 1..WholeOf(answer), Data(n) PROVE HttpInv'
    <3>0. n \in Nat /\ n > 0
      BY <1>a
    <3>1. CASE ~Whole(n)
      BY <2>0, <2>8, <3>0, <3>1 DEF Data, HttpTypeOK, Phase, Abandoned, Whole
    <3>2. CASE Whole(n) /\ answer.status = "garbled"
      BY <2>0, <2>8, <3>0, <3>2 DEF Data, Throw, HttpTypeOK, Phase, Abandoned, Whole
    <3>3. CASE Whole(n) /\ answer.status # "garbled"
      BY <2>0, <2>8, <3>0, <3>3, ResolveInv DEF Data
    <3> QED BY <3>1, <3>2, <3>3
  <2>9. CASE End
    <3>1. CASE got = 0
      BY <2>0, <2>9, <3>1 DEF End, HttpTypeOK, Phase, Abandoned, Whole
    <3>2. CASE got > 0 /\ Reject
      BY <2>0, <2>9, <3>2, RejectInv DEF End
    <3>3. CASE got > 0 /\ Resolve(got)
      BY <2>0, <2>9, <3>3, ResolveInv DEF End, HttpTypeOK
    <3> QED BY <2>9, <3>1, <3>2, <3>3 DEF End
  <2>10. CASE SocketError
    BY <2>0, <2>10, RejectInv DEF SocketError
  <2>11. CASE TimerFires
    <3>1. PICK t \in timers :
             IF t = OwnTimer THEN Reject ELSE UNCHANGED phase
      BY <2>11 DEF TimerFires
    <3>2. t = OwnTimer /\ phase \notin {"idle", "settled"}
      BY <3>1 DEF HttpTypeOK, Phase
    <3> QED BY <2>0, <3>1, <3>2, RejectInv
  <2> QED
    BY <1>2, <2>1, <2>2, <2>3, <2>4, <2>5, <2>6, <2>7, <2>8, <2>9, <2>10, <2>11 DEF HttpStep
<1>3. ASSUME Return, UNCHANGED devMode PROVE HttpInv'
  BY <1>3, <1>a DEF Return, HttpTypeOK, Phase, Abandoned
<1>4. CASE UNCHANGED http
  BY <1>4 DEF http, request, HttpTypeOK, Abandoned, Whole
<1> QED BY <1>1, <1>2, <1>3, <1>4 DEF HttpNext

\* A request that is over has closed its socket and cleared its timer, and
\* one that is not has exactly the timer of its phase, for answers of any
\* length.
THEOREM NothingLeftHolds == HttpSpec => []NothingLeft
<1>1. HttpSpec => []HttpInv
  BY HttpInitInv, HttpNextInv, PTL DEF HttpSpec
<1> QED BY <1>1, PTL DEF HttpInv

-----------------------------------------------------------------------------
(* The client implements Request *)

\* The states of a request as its caller knows them, before and after a step.
LEMMA RequestStateIs ==
    /\ phase = "settled" => RequestState = result
    /\ phase = "idle" => RequestState = "idle"
    /\ Abandoned => RequestState = "abandoned"
    /\ phase \notin {"settled", "idle"} /\ ~Abandoned => RequestState = "pending"
<1>1. Abandoned => phase # "settled" /\ phase # "idle"
  BY DEF Abandoned
<1>2. "settled" # "idle"
  OBVIOUS
<1> QED BY <1>1, <1>2, Zenon DEF RequestState

\* The abstract state of the request after a step.
LEMMA RequestStateIsNext ==
    /\ phase' = "settled" => RequestState' = result'
    /\ phase' = "idle" => RequestState' = "idle"
    /\ Abandoned' => RequestState' = "abandoned"
    /\ phase' \notin {"settled", "idle"} /\ ~Abandoned' => RequestState' = "pending"
<1>1. Abandoned' => phase' # "settled" /\ phase' # "idle"
  BY DEF Abandoned
<1>2. "settled" # "idle"
  OBVIOUS
<1> QED BY <1>1, <1>2, Zenon DEF RequestState

\* A rejection is a failure, of a request that may have been abandoned.
LEMMA RejectFails ==
    ASSUME HttpInv, HttpInv', Reject, phase \notin {"idle", "settled"}
    PROVE  Caller!Fail
<1>1. RequestState \in {"pending", "abandoned"}
  BY RequestStateIs DEF HttpInv, HttpTypeOK, Phase, Abandoned
<1>2. RequestState' = "failed"
  BY RequestStateIsNext DEF Reject
<1> QED BY <1>1, <1>2 DEF Reject, Caller!Fail

\* An answer that is handed over ends a request that was still pending, and
\* well only if the relay has taken the message.
LEMMA ResolveEnds ==
    ASSUME HttpInv, HttpInv', NEW n, Resolve(n), phase = "request", ~Abandoned
    PROVE  Caller!Succeed \/ Caller!Fail
<1>1. RequestState = "pending"
  BY RequestStateIs
<1>2. RequestState' = result' /\ result' \in {"ok", "failed"}
  BY RequestStateIsNext DEF Resolve
<1>3. result' = "ok" => relay = "taken"
  BY DEF HttpInv, AnswerInv, Resolve
<1> QED BY <1>1, <1>2, <1>3 DEF Resolve, Caller!Succeed, Caller!Fail

\* Every step of the client, the proxy, the relay and the timers is a step of
\* a request, or none.
LEMMA HttpSimulates ==
    HttpInv /\ HttpInv' /\ [HttpNext]_http =>
        [Caller!Ask \/ Caller!RequestStep \/ Caller!Return]_(Caller!request)
<1> SUFFICES ASSUME HttpInv, HttpInv', [HttpNext]_http
             PROVE  \/ Caller!Ask \/ Caller!RequestStep \/ Caller!Return
                    \/ UNCHANGED Caller!request
  OBVIOUS
<1> USE RequestStateIs, RequestStateIsNext
<1> DEFINE Stutters == UNCHANGED <<RequestState, relay = "taken">>
<1>s. Stutters => UNCHANGED Caller!request
  BY DEF Caller!request
<1>a. /\ answer # NoAnswer => answer \in Answer
      /\ NoAnswer.status = "none" /\ WholeOf(answer) >= HeaderEnd /\ HeaderEnd = 2
      /\ WholeOf(answer) \in Nat
  BY AnswerFacts DEF HttpInv
<1>b. UNCHANGED <<phase, result>> /\ (Abandoned' <=> Abandoned) => UNCHANGED RequestState
  OBVIOUS
<1>1. ASSUME NEW c \in Call, Ask(c) PROVE Caller!Ask
  BY <1>1 DEF Ask, Caller!Ask, Abandoned
<1>2. ASSUME HttpStep PROVE Caller!RequestStep \/ Stutters
  <2>1. CASE Connected \/ ProxyGreets \/ ProxyConnects \/ ProxyEnds
    <3>1. phase \in {"dial", "AUTH", "CONNECT"} /\ got = 0 /\ answer = NoAnswer
      BY <2>1 DEF Connected, ProxyGreets, ProxyConnects, ProxyEnds, Tunnelling,
                  HttpInv, HttpTypeOK, PhaseInv, NothingLeft, Fresh, Phase
    <3>2. phase' \in {"dial", "AUTH", "CONNECT", "request"} /\ ~Abandoned /\ ~Abandoned'
      BY <2>1, <3>1, <1>a DEF Connected, ProxyGreets, ProxyConnects, ProxyEnds, Tunnelling,
                              Abandoned, Whole
    <3> QED
      BY <2>1, <3>1, <3>2
         DEF Connected, ProxyGreets, ProxyConnects, ProxyEnds
  <2>2. CASE ProxyRefuses
    BY <2>2, RejectFails DEF ProxyRefuses, Tunnelling, Caller!RequestStep
  <2>3. ASSUME NEW a \in Answer, RelayAnswers(a) PROVE Caller!Reach \/ Stutters
    <3>1. ~Abandoned /\ ~Abandoned'
      BY <2>3, HttpAssumption, <1>a
         DEF RelayAnswers, Abandoned, Whole, HttpInv, AnswerInv, Answer, WholeOf, HeaderEnd
    <3>2. RequestState = "pending" /\ RequestState' = "pending"
      BY <2>3, <3>1 DEF RelayAnswers
    <3>3. relay = "taken" => relay' = "taken"
      BY <2>3 DEF RelayAnswers
    <3> QED BY <3>2, <3>3 DEF Caller!Reach
  <2>4. CASE RelayTakes
    BY <2>4, <1>a DEF RelayTakes, Abandoned, Whole, Caller!Reach, Caller!RequestStep
  <2>5. ASSUME NEW n \in 1..WholeOf(answer), Data(n) PROVE Caller!RequestStep \/ Stutters
    <3>1. phase = "request" /\ ~Abandoned
      BY <2>5 DEF Data, HttpInv, PhaseInv
    <3>2. CASE ~Whole(n)
      BY <2>5, <3>1, <3>2 DEF Data, Abandoned, Whole
    <3>3. CASE Whole(n) /\ answer.status = "garbled"
      BY <2>5, <3>1, <3>3
         DEF Data, Throw, Abandoned, Whole, Caller!Abandon, Caller!RequestStep
    <3>4. CASE Whole(n) /\ answer.status # "garbled"
      BY <2>5, <3>1, <3>4, ResolveEnds DEF Data, Caller!RequestStep
    <3> QED BY <3>2, <3>3, <3>4
  <2>6. CASE End
    <3>1. phase = "request" /\ ~Abandoned
      BY <2>6 DEF End, HttpInv, PhaseInv
    <3>2. CASE got = 0
      BY <2>6, <3>1, <3>2
         DEF End, Abandoned, Whole, Caller!Abandon, Caller!RequestStep
    <3>3. CASE got > 0
      BY <2>6, <3>1, <3>3, RejectFails, ResolveEnds DEF End, Caller!RequestStep
    <3> QED BY <2>6, <3>2, <3>3 DEF End
  <2>7. CASE SocketError
    BY <2>7, RejectFails DEF SocketError, Caller!RequestStep
  <2>8. CASE TimerFires
    <3>1. PICK t \in timers : IF t = OwnTimer THEN Reject ELSE UNCHANGED phase
      BY <2>8 DEF TimerFires
    <3>2. t = OwnTimer /\ phase \notin {"idle", "settled"}
      BY <3>1 DEF HttpInv, HttpTypeOK, PhaseInv, NothingLeft, OwnTimer, Tunnelling, Phase
    <3> QED BY <3>1, <3>2, RejectFails DEF Caller!RequestStep
  <2> QED
    BY <1>2, <2>1, <2>2, <2>3, <2>4, <2>5, <2>6, <2>7, <2>8 DEF HttpStep, Caller!RequestStep
<1>3. ASSUME Return PROVE Caller!Return
  <2>1. RequestState \in {"ok", "failed"} /\ RequestState' = "idle"
    BY <1>3 DEF Return, HttpInv, HttpTypeOK, AnswerInv
  <2> QED BY <1>3, <2>1 DEF Return, Caller!Return, Caller!Returned
<1>4. CASE UNCHANGED http
  <2>1. (Abandoned' <=> Abandoned) /\ UNCHANGED <<phase, result, relay>>
    BY <1>4 DEF http, request, Abandoned, Whole
  <2>2. Stutters
    BY <1>b, <2>1
  <2> QED BY <1>s, <2>2
<1> QED BY <1>s, <1>1, <1>2, <1>3, <1>4 DEF HttpNext

\* The client implements Request: its caller's request ends at most once, and
\* as a success only when the relay has taken the message, however the answer
\* was cut, delayed or lost.
THEOREM ImplementsRequest == HttpSpec => RefinesRequest
<1>1. HttpInit => Caller!RequestInit
  BY RequestStateIs DEF HttpInit, Caller!RequestInit
<1>2. HttpSpec => []HttpInv
  BY HttpInitInv, HttpNextInv, PTL DEF HttpSpec
<1> QED BY <1>1, <1>2, HttpSimulates, PTL DEF HttpSpec, RefinesRequest, Caller!RequestSpec

=============================================================================
