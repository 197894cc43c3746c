-------------------------- MODULE ProxyExchange_proofs --------------------------
(***************************************************************************)
(* ProxyConnection implements Exchange, for any number of connections, any *)
(* backends and any lengths: a client gets one error page or the response  *)
(* of one backend, and nothing after it.                                   *)
(*                                                                         *)
(* An answer is begun by an error page or by the first bytes relayed.      *)
(* AnswerOK says where a session may have begun one: no page before it is  *)
(* over, no bytes before the relay, and none that _client_bytes_sent does  *)
(* not tell of, which is what keeps a timeout and a retry from adding to   *)
(* them.  Each step of a session is then a step of the abstract exchange   *)
(* or none (Progresses).                                                   *)
(*                                                                         *)
(* From the same invariant, an idempotent request gets no byte of a        *)
(* response only for want of attempts or backends, or for a reason that    *)
(* the code does not retry for (Reason).                                   *)
(***************************************************************************)
EXTENDS ProxyConnection_proofs

AnswerOK(s) ==
  /\ s.state \notin {"DONE", "CLOSED"} => s.page = 0
  /\ s.state \notin {"FORWARDING_RESPONSE", "DONE", "CLOSED"} => s.relayed = 0 /\ ~s.sent
  /\ s.state = "FORWARDING_RESPONSE" /\ ~s.sent => s.relayed = 0

AnswersOK == \A c \in Connections : AnswerOK(conn[c])

Progresses(s, t) ==
  \/ /\ Answer(t) = Answer(s)
     /\ \/ Phase(t) = Phase(s)
        \/ Phase(s) = "new" /\ Phase(t) = "open"
        \/ Phase(s) = "open" /\ Phase(t) = "over"
        \/ Phase(s) = "over" /\ Phase(t) = "closed"
  \/ /\ Answer(s) = 0 /\ Phase(s) = "open"
     /\ \/ Answer(t) \in Pages /\ Phase(t) = "over"
        \/ Answer(t) \in Backends /\ Phase(t) \in {"open", "over"}

Answers(c) ==
  \E t : Become(c, t) /\ AnswerOK(t) /\ Progresses(conn[c], t)

Opened == States \ {"NEW", "DONE", "CLOSED"}

LEMMA Phases ==
  ASSUME NEW s
  PROVE  /\ s.state = "NEW" => Phase(s) = "new"
         /\ s.state = "DONE" => Phase(s) = "over"
         /\ s.state = "CLOSED" => Phase(s) = "closed"
         /\ s.state \in Opened => Phase(s) = "open"
BY DEF Phase, Opened, States

(* A session that only moves within the exchange, its answer unchanged.    *)
LEMMA SilentAnswers ==
  ASSUME NEW c \in Connections, NEW s, NEW t, s = conn[c], AnswerOK(s), Become(c, t),
         t.page = s.page, t.relayed = s.relayed, t.backend = s.backend \/ s.relayed = 0,
         t.sent = s.sent,
         s.state \in Opened \ {"FORWARDING_RESPONSE"}, t.state \in Opened \cup {"DONE"}
  PROVE  Answers(c)
<1>1. AnswerOK(t)
  BY DEF AnswerOK, Opened
<1>2. Answer(t) = Answer(s)
  BY DEF Answer, AnswerOK, Opened
<1>3. Phase(t) = Phase(s) \/ (Phase(s) = "open" /\ Phase(t) = "over")
  BY Phases
<1> QED
  BY <1>1, <1>2, <1>3 DEF Answers, Progresses

(* _finish ends the exchange, with what s had answered. *)
LEMMA FinishAnswers ==
  ASSUME NEW c \in Connections, NEW s \in Sessions, Finish(c, s)
  PROVE  \E t : /\ Become(c, t) /\ AnswerOK(t) /\ Phase(t) = "over"
                /\ Answer(t) = Answer(s)
<1> DEFINE t == [s EXCEPT !.state = "DONE",
                          !.notified = s.notified \/ s.backend # NoBackend]
<1>1. Become(c, t)
  BY DEF Finish
<1>2. /\ t.state = "DONE" /\ t.page = s.page /\ t.relayed = s.relayed
      /\ t.backend = s.backend
  BY DEF Sessions
<1> HIDE DEF t
<1>3. Phase(t) = "over"
  BY <1>2, Phases
<1>4. AnswerOK(t) /\ Answer(t) = Answer(s)
  BY <1>2 DEF AnswerOK, Answer
<1> QED
  BY <1>1, <1>3, <1>4

(* _send_error is called when nothing has been sent. *)
LEMMA SendErrorAnswers ==
  ASSUME NEW c \in Connections, NEW s \in Sessions, NEW code \in Pages,
         s.page = 0, s.relayed = 0, Answer(conn[c]) = 0,
         conn[c].state \in Opened, SendError(c, s, code)
  PROVE  Answers(c)
<1> DEFINE paged == [s EXCEPT !.page = code, !.sent = TRUE]
<1>1. Phase(conn[c]) = "open"
  BY Phases
<1>2. CASE Finish(c, s)
  <2>1. Answer(s) = 0
    BY DEF Answer
  <2> QED
    BY <1>1, <1>2, <2>1, FinishAnswers DEF Answers, Progresses
<1>3. CASE Finish(c, paged)
  <2>1. paged \in Sessions /\ paged.page = code
    BY DEF Sessions
  <2>2. code # 0
    BY DEF Pages
  <2>3. Answer(paged) = code
    BY <2>1, <2>2 DEF Answer
  <2> HIDE DEF paged
  <2> QED
    BY <1>1, <1>3, <2>1, <2>3, FinishAnswers DEF Answers, Progresses
<1> QED
  BY <1>2, <1>3 DEF SendError

LEMMA ConnectAnswers ==
  ASSUME NEW c \in Connections, NEW s \in Sessions, AnswerOK(conn[c]),
         conn[c].state \in Opened \ {"FORWARDING_RESPONSE"},
         s.page = conn[c].page, s.relayed = conn[c].relayed, s.sent = conn[c].sent,
         InitiateBackendConnect(c, s)
  PROVE  Answers(c)
<1>1. PICK state \in {"FORWARDING_REQUEST", "CONNECTING_TO_BACKEND", "DONE"} :
        Become(c, [s EXCEPT !.state = state, !.rcvd = 0])
  BY DEF InitiateBackendConnect
<1> DEFINE t == [s EXCEPT !.state = state, !.rcvd = 0]
<1>2. /\ t.state = state /\ t.page = s.page /\ t.relayed = s.relayed
      /\ t.sent = s.sent
  BY DEF Sessions
<1>3. Become(c, t)
  BY <1>1
<1> HIDE DEF t
<1>4. conn[c].relayed = 0
  BY DEF AnswerOK, Opened
<1>5. t.state \in Opened \cup {"DONE"}
  BY <1>2 DEF Opened, States
<1> QED
  BY <1>2, <1>3, <1>4, <1>5, SilentAnswers

-----------------------------------------------------------------------------
(* One lemma per handler. *)

LEMMA QuietAnswers ==
  ASSUME IInv, NEW c \in Connections, AnswerOK(conn[c]),
         Accept(c) \/ ClientGone(c) \/ Reap(c)
  PROVE  Answers(c)
<1>1. PICK state \in {"READING_REQUEST", "DONE", "CLOSED"} :
        /\ Become(c, [conn[c] EXCEPT !.state = state])
        /\ \/ conn[c].state = "NEW" /\ state = "READING_REQUEST"
           \/ conn[c].state = "READING_REQUEST" /\ state = "DONE"
           \/ conn[c].state = "DONE" /\ state = "CLOSED"
  BY DEF Accept, ClientGone, Reap, Dispatched
<1> DEFINE s == conn[c]
           t == [s EXCEPT !.state = state]
<1>2. /\ t.state = state /\ t.page = s.page /\ t.relayed = s.relayed
      /\ t.sent = s.sent /\ t.backend = s.backend
  BY DEF IInv, Sessions
<1>3. Become(c, t)
  BY <1>1
<1> HIDE DEF t
<1>4. AnswerOK(t) /\ Answer(t) = Answer(s)
  BY <1>1, <1>2 DEF AnswerOK, Answer
<1>5. Progresses(s, t)
  BY <1>1, <1>2, <1>4, Phases DEF Progresses, Opened, States
<1> QED
  BY <1>3, <1>4, <1>5 DEF Answers

LEMMA RequestTooLargeAnswers ==
  ASSUME IInv, NEW c \in Connections, AnswerOK(conn[c]), RequestTooLarge(c)
  PROVE  Answers(c)
<1>1. conn[c] \in Sessions /\ conn[c].state = "READING_REQUEST"
  BY DEF IInv, RequestTooLarge, Dispatched
<1>2. conn[c].page = 0 /\ conn[c].relayed = 0 /\ Answer(conn[c]) = 0
  BY <1>1 DEF AnswerOK, Answer
<1> QED
  BY <1>1, <1>2, SendErrorAnswers DEF RequestTooLarge, Pages, Opened, States

LEMMA RequestCompleteAnswers ==
  ASSUME IInv, NEW c \in Connections, AnswerOK(conn[c]), RequestComplete(c)
  PROVE  Answers(c)
<1>1. conn[c] \in Sessions /\ conn[c].state = "READING_REQUEST"
  BY DEF IInv, RequestComplete, Dispatched
<1>2. conn[c].page = 0 /\ conn[c].relayed = 0 /\ Answer(conn[c]) = 0
  BY <1>1 DEF AnswerOK, Answer
<1>3. PICK request \in {"idempotent", "other"} :
        LET s == [conn[c] EXCEPT !.request = request, !.fwd = 0]
        IN \/ \E b \in Backends :
                InitiateBackendConnect(c,
                  [s EXCEPT !.backend = b, !.attempts = 1, !.notified = FALSE])
           \/ SendError(c, s, 503)
  BY DEF RequestComplete
<1> DEFINE s == [conn[c] EXCEPT !.request = request, !.fwd = 0]
           First(b) == [s EXCEPT !.backend = b, !.attempts = 1, !.notified = FALSE]
<1>4. /\ s \in Sessions /\ s.page = conn[c].page /\ s.relayed = conn[c].relayed
      /\ s.sent = conn[c].sent
  BY <1>1 DEF Sessions
<1>5. ASSUME NEW b \in Backends, InitiateBackendConnect(c, First(b))
      PROVE  Answers(c)
  <2>1. /\ First(b) \in Sessions /\ First(b).page = s.page
        /\ First(b).relayed = s.relayed /\ First(b).sent = s.sent
    BY <1>4 DEF Sessions
  <2> HIDE DEF First, s
  <2> QED
    BY <1>1, <1>4, <1>5, <2>1, ConnectAnswers DEF Opened, States
<1>6. ASSUME SendError(c, s, 503)
      PROVE  Answers(c)
  <2> HIDE DEF s
  <2> QED
    BY <1>1, <1>2, <1>4, <1>6, SendErrorAnswers DEF Pages, Opened, States
<1> QED
  BY <1>3, <1>5, <1>6

LEMMA ClientWritableAnswers ==
  ASSUME IInv, NEW c \in Connections, AnswerOK(conn[c]), HandleClientWritable(c)
  PROVE  Answers(c)
<1> DEFINE s == conn[c]
           Wrote(n) == [s EXCEPT !.relayed = s.relayed + n, !.sent = s.sent \/ n > 0]
<1>1. /\ s \in Sessions /\ s.state = "FORWARDING_RESPONSE" /\ s.page = 0
      /\ s.backend \in Backends /\ Phase(s) = "open"
  BY Phases DEF IInv, SessionInv, Receiving, HandleClientWritable, Dispatched, AnswerOK,
                Opened, States
<1>2. CASE Become(c, [s EXCEPT !.state = "DONE"])
  <2> DEFINE t == [s EXCEPT !.state = "DONE"]
  <2>1. t.state = "DONE" /\ t.page = s.page /\ t.relayed = s.relayed /\ t.backend = s.backend
    BY <1>1 DEF Sessions
  <2> HIDE DEF t
  <2>2. AnswerOK(t) /\ Answer(t) = Answer(s) /\ Phase(t) = "over"
    BY <2>1, Phases DEF AnswerOK, Answer
  <2> QED
    BY <1>1, <1>2, <2>2 DEF Answers, Progresses, t
<1>3. ASSUME NEW n \in 0..(s.relay - s.relayed),
             Finish(c, Wrote(n)) \/ Become(c, Wrote(n))
      PROVE  Answers(c)
  <2>1. n \in Nat /\ s.relayed \in Nat
    BY <1>1 DEF Sessions
  <2>2. /\ Wrote(n) \in Sessions /\ Wrote(n).page = 0
        /\ Wrote(n).backend = s.backend /\ Wrote(n).state = s.state
        /\ Wrote(n).relayed = s.relayed + n
        /\ ~Wrote(n).sent => ~s.sent /\ n = 0
    <3> DEFINE relayed == s.relayed + n
               sent == s.sent \/ n > 0
    <3>1. relayed \in Nat /\ sent \in BOOLEAN /\ (~sent => ~s.sent /\ n = 0)
      BY <1>1, <2>1 DEF Sessions
    <3>2. Wrote(n) = [s EXCEPT !.relayed = relayed, !.sent = sent]
      BY DEF relayed, sent
    <3> HIDE DEF Wrote, sent
    <3> QED
      BY <1>1, <3>1, <3>2 DEF Sessions
  <2> HIDE DEF Wrote
  <2>3. AnswerOK(Wrote(n)) /\ Phase(Wrote(n)) = "open"
    BY <1>1, <2>1, <2>2, Phases DEF AnswerOK, Opened, States
  <2>4. /\ Answer(s) = IF s.relayed > 0 THEN s.backend ELSE 0
        /\ Answer(Wrote(n)) = IF s.relayed + n > 0 THEN s.backend ELSE 0
    BY <1>1, <2>2 DEF Answer
  <2>5. \/ Answer(Wrote(n)) = Answer(s)
        \/ Answer(s) = 0 /\ Answer(Wrote(n)) \in Backends
    BY <1>1, <2>1, <2>4
  <2>6. CASE Finish(c, Wrote(n))
    <3>1. PICK t : /\ Become(c, t) /\ AnswerOK(t) /\ Phase(t) = "over"
                   /\ Answer(t) = Answer(Wrote(n))
      BY <2>2, <2>6, FinishAnswers
    <3> QED
      BY <1>1, <2>5, <3>1 DEF Answers, Progresses
  <2>7. CASE Become(c, Wrote(n))
    BY <1>1, <2>3, <2>5, <2>7 DEF Answers, Progresses
  <2> QED
    BY <1>3, <2>6, <2>7
<1>4. \/ Become(c, [s EXCEPT !.state = "DONE"])
      \/ \E n \in 0..(s.relay - s.relayed) : Finish(c, Wrote(n)) \/ Become(c, Wrote(n))
  BY DEF HandleClientWritable
<1> QED
  BY <1>2, <1>3, <1>4

LEMMA TimeoutAnswers ==
  ASSUME IInv, NEW c \in Connections, AnswerOK(conn[c]), HandleTimeout(c)
  PROVE  Answers(c)
<1>1. conn[c] \in Sessions /\ conn[c].state \in Opened
  BY DEF IInv, HandleTimeout, Dispatched, Opened
<1>2. CASE Finish(c, conn[c])
  BY <1>1, <1>2, FinishAnswers, Phases DEF Answers, Progresses
<1>3. ASSUME NEW code \in Pages, SendError(c, conn[c], code),
             conn[c].state = "READING_REQUEST" \/ ~conn[c].sent
      PROVE  Answers(c)
  <2>1. conn[c].page = 0 /\ conn[c].relayed = 0 /\ Answer(conn[c]) = 0
    BY <1>1, <1>3 DEF AnswerOK, Answer, Opened
  <2> QED
    BY <1>1, <1>3, <2>1, SendErrorAnswers
<1> QED
  BY <1>2, <1>3 DEF HandleTimeout, Pages

LEMMA SendRequestAnswers ==
  ASSUME NEW c \in Connections, conn[c] \in Sessions, AnswerOK(conn[c]), NEW s \in Sessions,
         conn[c].state \in {"CONNECTING_TO_BACKEND", "FORWARDING_REQUEST"},
         s.state = "FORWARDING_REQUEST",
         s.page = conn[c].page, s.relayed = conn[c].relayed, s.sent = conn[c].sent,
         s.backend = conn[c].backend, SendRequest(c, s)
  PROVE  Answers(c)
<1>1. CASE EnterFailBackend(c, s)
  BY <1>1, SilentAnswers DEF EnterFailBackend, Opened, States
<1>2. ASSUME NEW n \in 0..(ReqLen - s.fwd), NEW state \in {"READING_RESPONSE", "FORWARDING_REQUEST"},
             Become(c, [s EXCEPT !.fwd = s.fwd + n, !.rcvd = s.rcvd + n, !.state = state])
      PROVE  Answers(c)
  <2> DEFINE t == [s EXCEPT !.fwd = s.fwd + n, !.rcvd = s.rcvd + n, !.state = state]
  <2>1. /\ t.state = state /\ t.page = s.page /\ t.relayed = s.relayed
        /\ t.sent = s.sent /\ t.backend = s.backend
    BY DEF Sessions
  <2>2. Become(c, t)
    BY <1>2
  <2> HIDE DEF t
  <2> QED
    BY <2>1, <2>2, SilentAnswers DEF Opened, States
<1> QED
  BY <1>1, <1>2 DEF SendRequest

LEMMA BackendWritableAnswers ==
  ASSUME IInv, NEW c \in Connections, AnswerOK(conn[c]), HandleBackendWritable(c)
  PROVE  Answers(c)
<1> DEFINE s == conn[c]
           connected == [s EXCEPT !.state = "FORWARDING_REQUEST"]
<1>1. s \in Sessions
  BY DEF IInv
<1>2. CASE s.state = "CONNECTING_TO_BACKEND" /\ EnterFailBackend(c, s)
  BY <1>2, SilentAnswers DEF EnterFailBackend, Opened, States
<1>3. CASE s.state = "CONNECTING_TO_BACKEND" /\ SendRequest(c, connected)
  <2>1. /\ connected \in Sessions /\ connected.state = "FORWARDING_REQUEST"
        /\ connected.page = s.page /\ connected.relayed = s.relayed
        /\ connected.sent = s.sent /\ connected.backend = s.backend
    BY <1>1 DEF Sessions, States
  <2> HIDE DEF connected
  <2> QED
    BY <1>1, <1>3, <2>1, SendRequestAnswers
<1>4. CASE s.state = "FORWARDING_REQUEST" /\ SendRequest(c, s)
  BY <1>1, <1>4, SendRequestAnswers
<1> QED
  BY <1>2, <1>3, <1>4 DEF HandleBackendWritable, Dispatched

(* The relay starts with nothing relayed, as before it. *)
LEMMA PrepareRelayAnswers ==
  ASSUME NEW c \in Connections, AnswerOK(conn[c]), NEW s \in Sessions,
         conn[c].state = "READING_RESPONSE", s.page = conn[c].page,
         Become(c, PrepareRelay(s))
  PROVE  Answers(c)
<1> DEFINE t == PrepareRelay(s)
<1>1. t.state = "FORWARDING_RESPONSE" /\ t.page = s.page /\ t.relayed = 0
  BY DEF Sessions, PrepareRelay
<1> HIDE DEF t
<1>2. AnswerOK(t) /\ Answer(t) = 0 /\ Answer(conn[c]) = 0
  BY <1>1 DEF AnswerOK, Answer
<1>3. Phase(t) = "open" /\ Phase(conn[c]) = "open"
  BY <1>1, Phases DEF Opened, States
<1> QED
  BY <1>2, <1>3 DEF Answers, Progresses, t

(* Data changes what is in the buffer, and may start the relay.            *)
LEMMA ResponseDataIs ==
  ASSUME IInv, NEW c \in Connections, ResponseData(c)
  PROVE  \E u \in Sessions :
           /\ u.page = conn[c].page /\ u.relayed = conn[c].relayed
           /\ u.sent = conn[c].sent /\ u.backend = conn[c].backend
           /\ u.state = "READING_RESPONSE"
           /\ Become(c, u) \/ Become(c, PrepareRelay(u))
<1> DEFINE s == conn[c]
           Fed(got, shape) ==
             [s EXCEPT !.got = got, !.src = s.src \cup {s.backend},
                       !.frame = IF got >= HeaderLen THEN shape ELSE s.frame]
<1>1. s \in Sessions /\ s.state = "READING_RESPONSE" /\ s.backend \in Backends
  BY DEF IInv, SessionInv, Receiving, ResponseData, Dispatched
<1>2. PICK shape \in IF HeadersDone(s) THEN {s.frame} ELSE Shapes :
      \E got \in (s.got + 1)..(Total(shape) + 1) :
        IF Complete(Fed(got, shape))
        THEN \E t \in Framed(Fed(got, shape)) : Become(c, PrepareRelay(t))
        ELSE Become(c, Fed(got, shape))
  BY DEF ResponseData
<1>3. PICK got \in (s.got + 1)..(Total(shape) + 1) :
        IF Complete(Fed(got, shape))
        THEN \E t \in Framed(Fed(got, shape)) : Become(c, PrepareRelay(t))
        ELSE Become(c, Fed(got, shape))
  BY <1>2
<1> DEFINE u == Fed(got, shape)
           Alike(t) == /\ t \in Sessions /\ t.page = s.page /\ t.relayed = s.relayed
                       /\ t.sent = s.sent /\ t.backend = s.backend
                       /\ t.state = "READING_RESPONSE"
<1>4. shape \in Shapes /\ got \in Nat
  BY <1>1, <1>2, <1>3, ParameterAssumption DEF HeadersDone, Sessions
<1>5. Alike(u) /\ u.frame \in Shapes \cup {Unknown}
  BY <1>1, <1>4 DEF Sessions
<1> HIDE DEF u, Fed
<1>6. CASE ~Complete(u)
  BY <1>3, <1>5, <1>6 DEF u
<1>7. CASE Complete(u)
  <2>1. PICK t \in Framed(u) : Become(c, PrepareRelay(t))
    BY <1>3, <1>7 DEF u
  <2>2. Total(u.frame) \in Nat
    <3>1. u.frame \in Shapes
      BY <1>5, <1>7 DEF Complete, Unknown
    <3> QED
      BY <3>1, ParameterAssumption DEF Total
  <2>3. Alike(t)
    <3>1. CASE t = u
      BY <1>5, <3>1
    <3>2. CASE t = [u EXCEPT !.got = Total(u.frame)]
      BY <1>5, <2>2, <3>2 DEF Sessions
    <3> QED
      BY <2>1, <3>1, <3>2 DEF Framed
  <2> QED
    BY <2>1, <2>3
<1> QED
  BY <1>6, <1>7

LEMMA BackendReadableAnswers ==
  ASSUME IInv, NEW c \in Connections, AnswerOK(conn[c]), HandleBackendReadable(c)
  PROVE  Answers(c)
<1> DEFINE s == conn[c]
<1>1. s \in Sessions /\ s.state = "READING_RESPONSE"
  BY DEF IInv, HandleBackendReadable, ResponseError, ResponseEnds, ResponseData, Dispatched
<1>2. CASE EnterFailBackend(c, s)
  BY <1>1, <1>2, SilentAnswers DEF EnterFailBackend, Opened, States
<1>3. ASSUME NEW u \in Sessions, u.page = s.page, Become(c, PrepareRelay(u))
      PROVE  Answers(c)
  BY <1>1, <1>3, PrepareRelayAnswers
<1>4. CASE ResponseData(c)
  <2>1. PICK u \in Sessions :
          /\ u.page = s.page /\ u.relayed = s.relayed /\ u.sent = s.sent
          /\ u.backend = s.backend /\ u.state = "READING_RESPONSE"
          /\ Become(c, u) \/ Become(c, PrepareRelay(u))
    BY <1>4, ResponseDataIs
  <2> QED
    BY <1>1, <1>3, <2>1, SilentAnswers DEF Opened, States
<1> QED
  BY <1>1, <1>2, <1>3, <1>4 DEF HandleBackendReadable, ResponseError, ResponseEnds

LEMMA InFailBackendAnswers ==
  ASSUME IInv, NEW c \in Connections, AnswerOK(conn[c]), InFailBackend(c)
  PROVE  Answers(c)
<1> DEFINE s == conn[c]
<1>1. /\ s \in Sessions
      /\ s.state \in Opened \ {"FORWARDING_RESPONSE"}
  BY DEF IInv, InFailBackend, FailBackend, RetryBackend, GiveUp, Inside, Sending, Opened,
         States
<1>2. s.page = 0 /\ s.relayed = 0
  BY <1>1 DEF AnswerOK, Opened
<1>3. CASE FailBackend(c)
  <2> DEFINE t == [s EXCEPT !.notified = TRUE, !.tried = s.tried \cup {s.backend}]
  <2>1. /\ t.state = s.state /\ t.page = s.page /\ t.relayed = s.relayed
        /\ t.sent = s.sent /\ t.backend = s.backend
    BY <1>1 DEF Sessions
  <2>2. Become(c, t)
    BY <1>3 DEF FailBackend
  <2> HIDE DEF t
  <2> QED
    BY <1>1, <2>1, <2>2, SilentAnswers
<1>4. CASE RetryBackend(c)
  <2>1. PICK b \in Backends : InitiateBackendConnect(c, Retried(s, b))
    BY <1>4 DEF RetryBackend
  <2> DEFINE t == Retried(s, b)
  <2>2. t \in Sessions /\ t.page = s.page /\ t.relayed = s.relayed /\ t.sent = s.sent
    <3> DEFINE attempts == s.attempts + 1
    <3>1. attempts \in Nat
      BY <1>1 DEF Sessions
    <3> HIDE DEF attempts
    <3>2. t = [s EXCEPT !.backend = b, !.attempts = attempts, !.notified = FALSE,
                        !.fwd = 0, !.got = 0, !.src = {}, !.frame = Unknown]
      BY DEF attempts, Retried
    <3> HIDE DEF t
    <3> QED
      BY <1>1, <2>1, <3>1, <3>2 DEF Sessions
  <2> HIDE DEF t
  <2> QED
    BY <1>1, <2>1, <2>2, ConnectAnswers DEF t
<1>5. CASE GiveUp(c)
  <2>1. PICK taken \in BOOLEAN :
          Become(c, [s EXCEPT !.state = "DONE",
                       !.page = IF taken THEN 502 ELSE s.page, !.sent = s.sent \/ taken])
    BY <1>5 DEF GiveUp
  <2> DEFINE t == [s EXCEPT !.state = "DONE",
                     !.page = IF taken THEN 502 ELSE s.page, !.sent = s.sent \/ taken]
  <2>2. /\ t.state = "DONE" /\ t.relayed = 0
        /\ t.page = IF taken THEN 502 ELSE 0
    BY <1>1, <1>2 DEF Sessions
  <2>3. Become(c, t)
    BY <2>1
  <2> HIDE DEF t
  <2>4. /\ AnswerOK(t) /\ Phase(t) = "over" /\ Phase(s) = "open" /\ Answer(s) = 0
        /\ Answer(t) \in {0, 502}
    BY <1>1, <1>2, <2>2, Phases DEF AnswerOK, Answer
  <2> QED
    BY <2>3, <2>4 DEF Answers, Progresses, Pages
<1> QED
  BY <1>3, <1>4, <1>5 DEF InFailBackend

-----------------------------------------------------------------------------
(* The refinement. *)

LEMMA InitAnswers == Init => AnswersOK /\ Client!Init
BY DEF Init, AnswersOK, AnswerOK, NewSession, Client!Init, Phase, Answer

LEMMA StepAnswers ==
  ASSUME IInv, AnswersOK, NEW c \in Connections,
         Accept(c) \/ Handle(c) \/ InFailBackend(c) \/ HandleTimeout(c) \/ Reap(c)
  PROVE  Answers(c)
<1>1. AnswerOK(conn[c])
  BY DEF AnswersOK
<1>2. CASE Accept(c) \/ ClientGone(c) \/ Reap(c)
  BY <1>1, <1>2, QuietAnswers
<1>3. CASE RequestTooLarge(c)
  BY <1>1, <1>3, RequestTooLargeAnswers
<1>4. CASE RequestComplete(c)
  BY <1>1, <1>4, RequestCompleteAnswers
<1>5. CASE HandleClientWritable(c)
  BY <1>1, <1>5, ClientWritableAnswers
<1>6. CASE HandleBackendWritable(c)
  BY <1>1, <1>6, BackendWritableAnswers
<1>7. CASE HandleBackendReadable(c)
  BY <1>1, <1>7, BackendReadableAnswers
<1>8. CASE InFailBackend(c)
  BY <1>1, <1>8, InFailBackendAnswers
<1>9. CASE HandleTimeout(c)
  BY <1>1, <1>9, TimeoutAnswers
<1> QED
  BY <1>2, <1>3, <1>4, <1>5, <1>6, <1>7, <1>8, <1>9 DEF Handle

LEMMA AnswersKeep ==
  ASSUME IInv, AnswersOK, NEW c \in Connections, Answers(c)
  PROVE  AnswersOK'
BY DEF IInv, AnswersOK, Answers, Become, AnswerOK

(* A step of a session is one of the abstract exchange, or none. *)
LEMMA AnswersRefine ==
  ASSUME IInv, AnswersOK, NEW c \in Connections, Answers(c)
  PROVE  [Client!Next]_Client!vars
<1>1. PICK t : Become(c, t) /\ Progresses(conn[c], t)
  BY DEF Answers
<1> DEFINE phase == [d \in Connections |-> Phase(conn[d])]
           answer == [d \in Connections |-> Answer(conn[d])]
           s == conn[c]
<1>2. conn' = [conn EXCEPT ![c] = t] /\ conn \in [Connections -> Sessions]
  BY <1>1 DEF Become, IInv
<1>3. /\ conn'[c] = t
      /\ \A d \in Connections : d # c => conn'[d] = conn[d]
  BY <1>2
<1>4. /\ phase' = [phase EXCEPT ![c] = Phase(t)]
      /\ answer' = [answer EXCEPT ![c] = Answer(t)]
  BY <1>3 DEF Phase, Answer
<1>5. phase[c] = Phase(s) /\ answer[c] = Answer(s)
  OBVIOUS
<1>6. /\ Phase(t) = Phase(s) => phase' = phase
      /\ Answer(t) = Answer(s) => answer' = answer
  BY <1>4, <1>5
<1> HIDE DEF phase, answer
<1>7. CASE Answer(t) = Answer(s)
  <2>1. CASE Phase(t) = Phase(s)
    BY <1>6, <1>7, <2>1 DEF Client!vars, phase, answer
  <2>2. CASE Phase(s) = "new" /\ Phase(t) = "open"
    <3>1. Client!Accept(c)
      BY <1>4, <1>5, <1>6, <1>7, <2>2 DEF Client!Accept, phase, answer
    <3> QED
      BY <3>1 DEF Client!Next
  <2>3. CASE Phase(s) = "open" /\ Phase(t) = "over"
    <3>1. Client!End(c)
      BY <1>4, <1>5, <1>6, <1>7, <2>3 DEF Client!End, phase, answer
    <3> QED
      BY <3>1 DEF Client!Next
  <2>4. CASE Phase(s) = "over" /\ Phase(t) = "closed"
    <3>1. Client!Close(c)
      BY <1>4, <1>5, <1>6, <1>7, <2>4 DEF Client!Close, phase, answer
    <3> QED
      BY <3>1 DEF Client!Next
  <2>5. CASE /\ Answer(s) = 0 /\ Phase(s) = "open"
             /\ Answer(t) \in Backends /\ Phase(t) = "open"
    BY <1>6, <1>7, <2>5 DEF Client!vars, phase, answer
  <2> QED
    BY <1>1, <1>7, <2>1, <2>2, <2>3, <2>4, <2>5 DEF Progresses
<1>8. CASE /\ Answer(s) = 0 /\ Phase(s) = "open"
           /\ Answer(t) \in Pages /\ Phase(t) = "over"
  <2>1. Client!Refuse(c, Answer(t))
    BY <1>4, <1>5, <1>8 DEF Client!Refuse, phase, answer
  <2> QED
    BY <1>8, <2>1 DEF Client!Next
<1>9. CASE /\ Answer(s) = 0 /\ Phase(s) = "open"
           /\ Answer(t) \in Backends /\ Phase(t) \in {"open", "over"}
  <2>1. Client!Respond(c, Answer(t))
    BY <1>4, <1>5, <1>6, <1>9 DEF Client!Respond, phase, answer
  <2> QED
    BY <1>9, <2>1 DEF Client!Next
<1> QED
  BY <1>1, <1>7, <1>8, <1>9 DEF Progresses

LEMMA NextRefines ==
  IInv /\ AnswersOK /\ [Next]_vars => AnswersOK' /\ [Client!Next]_Client!vars
<1> SUFFICES ASSUME IInv, AnswersOK, [Next]_vars
             PROVE  AnswersOK' /\ [Client!Next]_Client!vars
  OBVIOUS
<1>1. ASSUME NEW c \in Connections,
             Accept(c) \/ Handle(c) \/ InFailBackend(c) \/ HandleTimeout(c) \/ Reap(c)
      PROVE  AnswersOK' /\ [Client!Next]_Client!vars
  BY <1>1, StepAnswers, AnswersKeep, AnswersRefine
<1>2. CASE UNCHANGED conn
  BY <1>2 DEF AnswersOK, AnswerOK, Client!vars, Phase, Answer
<1> QED
  BY <1>1, <1>2 DEF Next, HealthChange, Terminated, vars

(* A client gets one error page or the response of one backend, which      *)
(* nothing follows: neither a retry nor a timeout adds to it               *)
(* (_client_bytes_sent), for any number of connections and backends.       *)
THEOREM RefinesExchange == Spec => ImplementsExchange
BY InitAnswers, NextRefines, Invariant, PTL
   DEF Spec, ImplementsExchange, Client!Spec

-----------------------------------------------------------------------------
(* How an idempotent request ends without a byte of a response: Ended says *)
(* that a step of c does it, and Reason why.  A step that does not end the *)
(* session, or is a timeout, is excused as it is; the others are shown to  *)
(* be one by one.                                                          *)

Ended(s, t) ==
  /\ s.state \notin {"DONE", "CLOSED"} /\ t.state = "DONE"
  /\ t.request = "idempotent" /\ t.relayed = 0

Reason(c, s, t) ==
  \/ Exhausted(s)
  \/ HandleTimeout(c)
  \/ s.state = "FORWARDING_RESPONSE" /\ (s.relay = 0 \/ t = [s EXCEPT !.state = "DONE"])
  \/ t.page = 0 /\ Holds(t)

Excused(c) == Ended(conn[c], conn'[c]) => Reason(c, conn[c], conn'[c])

LEMMA BecomeIs ==
  ASSUME IInv, NEW c \in Connections, NEW t, Become(c, t)
  PROVE  conn'[c] = t /\ \A d \in Connections : d # c => conn'[d] = conn[d]
BY DEF IInv, Become

LEMMA FinishKeepsRequest ==
  ASSUME IInv, NEW c \in Connections, NEW s \in Sessions, Finish(c, s)
  PROVE  conn'[c].request = s.request /\ conn'[c].relayed = s.relayed
<1> DEFINE notified == s.notified \/ s.backend # NoBackend
           t == [s EXCEPT !.state = "DONE", !.notified = notified]
<1>1. t.request = s.request /\ t.relayed = s.relayed
  BY DEF Sessions
<1>2. Become(c, t)
  BY DEF Finish
<1> HIDE DEF t
<1> QED
  BY <1>1, <1>2, BecomeIs

LEMMA SendErrorKeepsRequest ==
  ASSUME IInv, NEW c \in Connections, NEW s \in Sessions, NEW code \in Pages,
         SendError(c, s, code)
  PROVE  conn'[c].request = s.request
<1> DEFINE paged == [s EXCEPT !.page = code, !.sent = TRUE]
<1>1. paged \in Sessions /\ paged.request = s.request
  BY DEF Sessions
<1>2. Finish(c, s) \/ Finish(c, paged)
  BY DEF SendError
<1> HIDE DEF paged
<1> QED
  BY <1>1, <1>2, FinishKeepsRequest

(* A session ends in _initiate_backend_connect only by an exception.       *)
LEMMA ConnectIsExcused ==
  ASSUME IInv, NEW c \in Connections, NEW s \in Sessions, s.page = 0,
         s.backend \in Backends, ~s.notified, InitiateBackendConnect(c, s)
  PROVE  Excused(c)
<1>1. PICK state : Become(c, [s EXCEPT !.state = state, !.rcvd = 0])
  BY DEF InitiateBackendConnect
<1> DEFINE t == [s EXCEPT !.state = state, !.rcvd = 0]
<1>2. t.page = 0 /\ t.backend = s.backend /\ t.notified = s.notified
  BY DEF Sessions
<1> HIDE DEF t
<1>3. Holds(t) /\ conn'[c] = t
  BY <1>1, <1>2, BecomeIs, ParameterAssumption DEF Holds, t
<1> QED
  BY <1>2, <1>3 DEF Excused, Reason

(* next_backend finds nothing only if every healthy backend is excluded.   *)
LEMMA NothingLeft ==
  ASSUME IInv, NEW tried, NextBackend(tried, NoBackend)
  PROVE  healthy \subseteq tried
<1>1. healthy \subseteq Backends
  BY DEF IInv
<1> QED
  BY <1>1, ParameterAssumption
     DEF NextBackend, LC!NextBackend, LC!LightestOf, RR!NextBackend

LEMMA QuietIsExcused ==
  ASSUME IInv, NEW c \in Connections,
         Accept(c) \/ ClientGone(c) \/ RequestTooLarge(c) \/ Reap(c)
  PROVE  Excused(c)
<1> DEFINE s == conn[c]
<1>1. s \in Sessions
  BY DEF IInv
<1>2. CASE Accept(c) \/ Reap(c)
  <2>1. PICK state \in {"READING_REQUEST", "CLOSED"} : Become(c, [s EXCEPT !.state = state])
    BY <1>2 DEF Accept, Reap
  <2>2. conn'[c] = [s EXCEPT !.state = state]
    BY <2>1, BecomeIs
  <2>3. conn'[c].state = state
    BY <1>1, <2>2 DEF Sessions
  <2> QED
    BY <2>3 DEF Excused, Ended
<1>3. CASE ClientGone(c) \/ RequestTooLarge(c)
  <2>1. s.request = "none"
    BY <1>3 DEF IInv, SessionInv, Early, ClientGone, RequestTooLarge, Dispatched
  <2>2. conn'[c].request = s.request
    <3>1. CASE ClientGone(c)
      <4>1. conn'[c] = [s EXCEPT !.state = "DONE"]
        BY <3>1, BecomeIs DEF ClientGone
      <4> QED
        BY <1>1, <4>1 DEF Sessions
    <3>2. CASE RequestTooLarge(c)
      BY <1>1, <3>2, SendErrorKeepsRequest DEF RequestTooLarge, Pages
    <3> QED
      BY <1>3, <3>1, <3>2
  <2> QED
    BY <2>1, <2>2 DEF Excused, Ended
<1> QED
  BY <1>2, <1>3

LEMMA RequestCompleteIsExcused ==
  ASSUME IInv, AnswersOK, NEW c \in Connections, RequestComplete(c)
  PROVE  Excused(c)
<1> DEFINE s == conn[c]
           Asked(request) == [s EXCEPT !.request = request, !.fwd = 0]
           First(u, b) == [u EXCEPT !.backend = b, !.attempts = 1, !.notified = FALSE]
<1>1. /\ s \in Sessions /\ s.tried = {} /\ s.page = 0
  BY DEF IInv, SessionInv, Early, RequestComplete, Dispatched, AnswersOK, AnswerOK
<1>2. PICK request \in {"idempotent", "other"} :
        \/ \E b \in Backends : InitiateBackendConnect(c, First(Asked(request), b))
        \/ NextBackend({}, NoBackend)
  BY DEF RequestComplete
<1>3. CASE NextBackend({}, NoBackend)
  BY <1>1, <1>3, NothingLeft DEF Excused, Reason, Exhausted
<1>4. ASSUME NEW b \in Backends, InitiateBackendConnect(c, First(Asked(request), b))
      PROVE  Excused(c)
  <2> DEFINE u == Asked(request)
             t == First(u, b)
  <2>1. u \in Sessions /\ u.page = 0
    BY <1>1, <1>2 DEF Sessions
  <2> HIDE DEF u
  <2>2. t \in Sessions /\ t.page = 0 /\ t.backend = b /\ ~t.notified
    BY <2>1 DEF Sessions
  <2> HIDE DEF t
  <2> QED
    BY <1>4, <2>2, ConnectIsExcused DEF t, u
<1> QED
  BY <1>2, <1>3, <1>4

(* The relay ends without a byte if there was none, or the send failed.    *)
LEMMA ClientWritableIsExcused ==
  ASSUME IInv, NEW c \in Connections, HandleClientWritable(c)
  PROVE  Excused(c)
<1> DEFINE s == conn[c]
           Wrote(n) == [s EXCEPT !.relayed = s.relayed + n, !.sent = s.sent \/ n > 0]
<1>1. s \in Sessions /\ s.state = "FORWARDING_RESPONSE"
  BY DEF IInv, HandleClientWritable, Dispatched
<1>2. CASE Become(c, [s EXCEPT !.state = "DONE"])
  BY <1>1, <1>2, BecomeIs DEF Excused, Reason
<1>3. ASSUME NEW n \in 0..(s.relay - s.relayed),
             IF Wrote(n).relayed >= Wrote(n).relay
             THEN Finish(c, Wrote(n)) ELSE Become(c, Wrote(n))
      PROVE  Excused(c)
  <2>1. n \in Nat /\ s.relayed \in Nat /\ s.relay \in Nat
    BY <1>1 DEF Sessions
  <2>2. /\ Wrote(n) \in Sessions /\ Wrote(n).state = s.state
        /\ Wrote(n).relayed = s.relayed + n /\ Wrote(n).relay = s.relay
    <3> DEFINE relayed == s.relayed + n
               sent == s.sent \/ n > 0
    <3>1. relayed \in Nat /\ sent \in BOOLEAN
      BY <1>1, <2>1 DEF Sessions
    <3>2. Wrote(n) = [s EXCEPT !.relayed = relayed, !.sent = sent]
      BY DEF relayed, sent
    <3> HIDE DEF Wrote, sent
    <3> QED
      BY <1>1, <3>1, <3>2 DEF Sessions
  <2> HIDE DEF Wrote
  <2>3. CASE Finish(c, Wrote(n)) /\ Wrote(n).relayed >= Wrote(n).relay
    <3>1. conn'[c].relayed = s.relayed + n
      BY <2>2, <2>3, FinishKeepsRequest
    <3>2. conn'[c].relayed = 0 => s.relay = 0
      <4>1. s.relayed + n >= s.relay /\ s.relayed + n \in Nat
        BY <2>1, <2>2, <2>3
      <4>2. \A i, j \in Nat : i >= j /\ i = 0 => j = 0
        OBVIOUS
      <4> QED
        BY <2>1, <3>1, <4>1, <4>2
    <3> QED
      BY <1>1, <3>2 DEF Excused, Ended, Reason
  <2>4. CASE Become(c, Wrote(n))
    <3>1. conn'[c].state = "FORWARDING_RESPONSE"
      BY <1>1, <2>2, <2>4, BecomeIs
    <3> QED
      BY <3>1 DEF Excused, Ended
  <2> QED
    BY <1>3, <2>3, <2>4
<1>4. \/ Become(c, [s EXCEPT !.state = "DONE"])
      \/ \E n \in 0..(s.relay - s.relayed) :
           IF Wrote(n).relayed >= Wrote(n).relay
           THEN Finish(c, Wrote(n)) ELSE Become(c, Wrote(n))
  BY DEF HandleClientWritable
<1> QED
  BY <1>2, <1>3, <1>4

(* No event of the backend ends the session, _fail_backend apart.          *)
LEMMA BackendIsExcused ==
  ASSUME IInv, NEW c \in Connections,
         HandleBackendWritable(c) \/ HandleBackendReadable(c)
  PROVE  Excused(c)
<1> DEFINE s == conn[c]
<1>1. s \in Sessions
  BY DEF IInv
<1>2. ASSUME NEW t, Become(c, t), t.state # "DONE"
      PROVE  Excused(c)
  BY <1>2, BecomeIs DEF Excused, Ended
<1>3. ASSUME NEW u \in Sessions, u.state # "DONE", SendRequest(c, u)
      PROVE  Excused(c)
  <2>1. CASE EnterFailBackend(c, u)
    BY <1>2, <1>3, <2>1 DEF EnterFailBackend
  <2>2. ASSUME NEW n, NEW state \in {"READING_RESPONSE", "FORWARDING_REQUEST"},
               Become(c, [u EXCEPT !.fwd = u.fwd + n, !.rcvd = u.rcvd + n, !.state = state])
        PROVE  Excused(c)
    <3> DEFINE t == [u EXCEPT !.fwd = u.fwd + n, !.rcvd = u.rcvd + n, !.state = state]
    <3>1. t.state = state
      BY <1>3 DEF Sessions
    <3> HIDE DEF t
    <3> QED
      BY <1>2, <2>2, <3>1 DEF t
  <2> QED
    BY <1>3, <2>1, <2>2 DEF SendRequest
<1>4. CASE HandleBackendWritable(c)
  <2> DEFINE u == [s EXCEPT !.state = "FORWARDING_REQUEST"]
  <2>1. u \in Sessions /\ u.state = "FORWARDING_REQUEST"
    BY <1>1 DEF Sessions, States
  <2>2. /\ s.state \in {"CONNECTING_TO_BACKEND", "FORWARDING_REQUEST"}
        /\ EnterFailBackend(c, s) \/ SendRequest(c, u) \/ SendRequest(c, s)
    BY <1>4 DEF HandleBackendWritable, Dispatched
  <2> HIDE DEF u
  <2> QED
    BY <1>1, <1>2, <1>3, <2>1, <2>2 DEF EnterFailBackend
<1>5. ASSUME NEW u \in Sessions, Become(c, PrepareRelay(u))
      PROVE  Excused(c)
  <2>1. PrepareRelay(u).state = "FORWARDING_RESPONSE"
    BY <1>5 DEF PrepareRelay, Sessions
  <2> QED
    BY <1>2, <1>5, <2>1
<1>6. CASE ResponseError(c)
  BY <1>2, <1>6 DEF ResponseError, EnterFailBackend, Dispatched
<1>7. CASE ResponseEnds(c)
  BY <1>1, <1>2, <1>5, <1>7 DEF ResponseEnds, EnterFailBackend, Dispatched
<1>8. CASE ResponseData(c)
  BY <1>2, <1>5, <1>8, ResponseDataIs
<1> QED
  BY <1>4, <1>6, <1>7, <1>8 DEF HandleBackendReadable

(* GiveUp finds no attempt left, or no healthy backend that is untried,    *)
(* since no byte was sent to the client.                                   *)
LEMMA GiveUpIsExcused ==
  ASSUME IInv, AnswersOK, NEW c \in Connections, GiveUp(c)
  PROVE  Excused(c)
<1> DEFINE s == conn[c]
<1>1. s \in Sessions /\ s.attempts <= 1 + MaxRetries /\ MaxRetries \in Nat
  BY ParameterAssumption DEF IInv, SessionInv, AttemptsOK
<1>2. ~s.sent
  BY DEF AnswersOK, AnswerOK, IInv, GiveUp, Inside, Sending
<1>3. conn'[c].request = s.request
  <2>1. PICK taken \in BOOLEAN :
          Become(c, [s EXCEPT !.state = "DONE",
                       !.page = IF taken THEN 502 ELSE s.page, !.sent = s.sent \/ taken])
    BY DEF GiveUp
  <2> DEFINE t == [s EXCEPT !.state = "DONE",
                     !.page = IF taken THEN 502 ELSE s.page, !.sent = s.sent \/ taken]
  <2>2. t.request = s.request
    BY <1>1 DEF Sessions
  <2>3. Become(c, t)
    BY <2>1
  <2> HIDE DEF t
  <2> QED
    BY <2>2, <2>3, BecomeIs
<1>4. CASE s.request # "idempotent"
  BY <1>3, <1>4 DEF Excused, Ended
<1>5. CASE CanRetry(s)
  BY <1>5, NothingLeft DEF GiveUp, Excused, Reason, Exhausted
<1>6. CASE ~CanRetry(s) /\ s.request = "idempotent"
  <2>1. s.attempts \in Nat /\ ~(s.attempts <= MaxRetries)
    BY <1>1, <1>2, <1>6 DEF CanRetry, Sessions
  <2>2. Exhausted(s)
    BY <1>1, <2>1 DEF Exhausted
  <2> QED
    BY <2>2 DEF Excused, Reason
<1> QED
  BY <1>4, <1>5, <1>6

LEMMA InFailBackendIsExcused ==
  ASSUME IInv, AnswersOK, NEW c \in Connections, InFailBackend(c)
  PROVE  Excused(c)
<1> DEFINE s == conn[c]
<1>1. s \in Sessions /\ s.page = 0
  BY DEF IInv, InFailBackend, FailBackend, RetryBackend, GiveUp, Inside, Sending,
         AnswersOK, AnswerOK
<1>2. CASE FailBackend(c)
  <2> DEFINE t == [s EXCEPT !.notified = TRUE, !.tried = s.tried \cup {s.backend}]
  <2>1. t.state = s.state
    BY <1>1 DEF Sessions
  <2>2. Become(c, t)
    BY <1>2 DEF FailBackend
  <2> HIDE DEF t
  <2> QED
    BY <2>1, <2>2, BecomeIs DEF Excused, Ended
<1>3. CASE RetryBackend(c)
  <2>1. PICK b \in Backends : InitiateBackendConnect(c, Retried(s, b))
    BY <1>3 DEF RetryBackend
  <2> DEFINE t == Retried(s, b)
             attempts == s.attempts + 1
  <2>2. attempts \in Nat
    BY <1>1 DEF Sessions
  <2>3. t = [s EXCEPT !.backend = b, !.attempts = attempts, !.notified = FALSE,
                      !.fwd = 0, !.got = 0, !.src = {}, !.frame = Unknown]
    BY DEF Retried
  <2> HIDE DEF attempts, t
  <2>4. t \in Sessions /\ t.page = 0 /\ t.backend = b /\ ~t.notified
    BY <1>1, <2>1, <2>2, <2>3 DEF Sessions
  <2> QED
    BY <2>1, <2>4, ConnectIsExcused DEF t
<1> QED
  BY <1>2, <1>3, GiveUpIsExcused DEF InFailBackend

LEMMA StepIsExcused ==
  ASSUME IInv, AnswersOK, NEW c \in Connections,
         Accept(c) \/ Handle(c) \/ InFailBackend(c) \/ HandleTimeout(c) \/ Reap(c)
  PROVE  Excused(c)
<1>1. CASE HandleTimeout(c)
  BY <1>1 DEF Excused, Reason
<1> QED
  BY <1>1, QuietIsExcused, RequestCompleteIsExcused, ClientWritableIsExcused,
     BackendIsExcused, InFailBackendIsExcused DEF Handle

(* An idempotent request that ends without a byte of a response has used   *)
(* up its attempts or all healthy backends, whatever the health checker    *)
(* did between on_disconnect and next_backend, or has ended in a way that  *)
(* is never retried: its deadline passed, an empty response was relayed,   *)
(* the client was gone, or the handler was left by an exception            *)
(* (_fail_backend, _can_retry, handle_timeout, handle_backend_readable).   *)
THEOREM NoAnswerHasAReason == Spec => UnansweredHasReason
<1> DEFINE Step == \A c \in Connections : Excused(c)
<1>1. IInv /\ AnswersOK /\ [Next]_vars => [Step]_vars
  <2> SUFFICES ASSUME IInv, AnswersOK, Next, NEW c \in Connections
               PROVE  Excused(c)
    OBVIOUS
  <2>1. CASE conn'[c] = conn[c]
    BY <2>1 DEF Excused, Ended
  <2>2. ASSUME NEW d \in Connections,
               Accept(d) \/ Handle(d) \/ InFailBackend(d) \/ HandleTimeout(d) \/ Reap(d)
        PROVE  d = c \/ conn'[c] = conn[c]
    <3>1. Answers(d)
      BY <2>2, StepAnswers
    <3> QED
      BY <3>1, BecomeIs DEF Answers
  <2> QED
    BY <2>1, <2>2, StepIsExcused DEF Next, HealthChange, Terminated, vars
<1>2. Init => AnswersOK
  BY InitAnswers
<1>3. IInv /\ AnswersOK /\ [Next]_vars => AnswersOK'
  BY NextRefines
<1>4. [Step]_vars <=>
        [\A c \in Connections :
           LET s == conn[c]
               t == conn'[c]
           IN /\ s.state \notin {"DONE", "CLOSED"} /\ t.state = "DONE"
              /\ t.request = "idempotent" /\ t.relayed = 0
              => \/ Exhausted(s)
                 \/ HandleTimeout(c)
                 \/ /\ s.state = "FORWARDING_RESPONSE"
                    /\ s.relay = 0 \/ t = [s EXCEPT !.state = "DONE"]
                 \/ t.page = 0 /\ Holds(t)]_vars
  BY DEF Excused, Ended, Reason
<1> QED
  BY <1>1, <1>2, <1>3, <1>4, Invariant, PTL DEF Spec, UnansweredHasReason
=============================================================================
