------------------------- MODULE ProxyConnection_proofs -------------------------
(***************************************************************************)
(* Theorems about ProxyConnection for any number of connections, any       *)
(* backends, either algorithm, any number of retries and any lengths: the  *)
(* attempts of a request are distinct and bounded, a response comes from   *)
(* one backend that was sent the whole request, and least-connections'     *)
(* counts are exact.                                                       *)
(*                                                                         *)
(* A step changes one session, or only the pool.  What a session must be   *)
(* like, whatever the others are, is SessionInv; what it must be like for  *)
(* _fail_backend to be in the middle of it is Inside; and what a step does *)
(* to the counts is one of three kinds.  Move puts these together: each    *)
(* action is shown to be a Move, and a Move to keep the invariant.         *)
(***************************************************************************)
EXTENDS ProxyConnection, FiniteSetTheorems, TLAPS

Early == {"NEW", "READING_REQUEST"}
Sending == {"CONNECTING_TO_BACKEND", "FORWARDING_REQUEST"}
Receiving == {"READING_RESPONSE", "FORWARDING_RESPONSE"}

(* The backends that were tried, the present one included. *)
Attempted(s) == (s.tried \cup {s.backend}) \ {NoBackend}

AttemptsOK(s) ==
  /\ IsFiniteSet(s.tried)
  /\ s.attempts = Cardinality(Attempted(s))
  /\ s.attempts <= 1 + MaxRetries
  /\ s.request = "other" => s.attempts <= 1

SessionInv(s) ==
  /\ s \in Sessions
  /\ AttemptsOK(s)
  /\ s.src \subseteq {s.backend}
  /\ s.state \in Early =>
       /\ s.backend = NoBackend /\ s.tried = {} /\ s.attempts = 0 /\ s.src = {}
       /\ s.request = "none"
  /\ s.state \in Sending \cup Receiving => s.backend \in Backends
  /\ s.state \in Sending => s.fwd = s.rcvd
  /\ s.state \in Receiving => s.rcvd = ReqLen
  /\ s.state = "FORWARDING_RESPONSE" /\ s.frame.framing = "chunked"
       => s.relay >= Total(s.frame)

Inside(s, step) ==
  /\ s.state \in Sending \cup {"READING_RESPONSE"}
  /\ step = "retry" => s.backend \in s.tried /\ s.notified

(* The backend that a session has taken and not given back. *)
Held(s) == IF Holds(s) THEN {s.backend} ELSE {}

Counted ==
  Algorithm = "least_connections" =>
    \A b \in Backends : /\ IsFiniteSet(Unreleased(b))
                        /\ counts[b] = Cardinality(Unreleased(b))

IInv ==
  /\ conn \in [Connections -> Sessions]
  /\ \A c \in Connections : SessionInv(conn[c])
  /\ running \in {Idle} \cup (Connections \X {"failed", "retry"})
  /\ \A c \in Connections, step \in {"failed", "retry"} :
       running = <<c, step>> => Inside(conn[c], step)
  /\ healthy \subseteq Backends
  /\ counts \in [Backends -> Nat]
  /\ Counted

LEMMA InvImplies ==
  IInv => /\ TypeOK /\ AttemptsDistinct /\ WholeRequestSent
          /\ RelayIsOneResponse /\ CountsExact
<1> SUFFICES ASSUME IInv
             PROVE  /\ TypeOK /\ AttemptsDistinct /\ WholeRequestSent
                    /\ RelayIsOneResponse /\ CountsExact
  OBVIOUS
<1>1. TypeOK
  BY DEF IInv, TypeOK
<1>2. AttemptsDistinct
  BY DEF IInv, SessionInv, AttemptsOK, Attempted, AttemptsDistinct
<1>3. WholeRequestSent
  BY DEF IInv, SessionInv, Receiving, WholeRequestSent
<1>4. RelayIsOneResponse
  BY DEF IInv, SessionInv, RelayIsOneResponse
<1>5. CountsExact
  BY DEF IInv, Counted, CountsExact
<1> QED
  BY <1>1, <1>2, <1>3, <1>4, <1>5

-----------------------------------------------------------------------------
(* What a step does to the counts. *)

CountOf(b, n) ==
  IF Algorithm = "least_connections"
  THEN counts' = [counts EXCEPT ![b] = n]
  ELSE UNCHANGED counts

KeepsHeld(c, s) == UNCHANGED counts /\ Held(s) = Held(conn[c])

Takes(c, s) ==
  \E b \in Backends : /\ Held(conn[c]) = {} /\ Held(s) = {b}
                      /\ CountOf(b, counts[b] + 1)

Gives(c, s) ==
  \E b \in Backends : /\ Held(conn[c]) = {b} /\ Held(s) = {}
                      /\ CountOf(b, IF counts[b] = 0 THEN 0 ELSE counts[b] - 1)

Move(c, s) ==
  /\ Become(c, s)
  /\ SessionInv(s)
  /\ running = Idle \/ \E step \in {"failed", "retry"} : running = <<c, step>>
  /\ \/ running' = Idle
     \/ \E step \in {"failed", "retry"} : running' = <<c, step>> /\ Inside(s, step)
  /\ UNCHANGED healthy
  /\ KeepsHeld(c, s) \/ Takes(c, s) \/ Gives(c, s)

LEMMA MoveKeepsCounted ==
  ASSUME NEW c \in Connections, NEW s, IInv, Move(c, s)
  PROVE  Counted'
<1> SUFFICES ASSUME Algorithm = "least_connections", NEW d \in Backends
             PROVE  IsFiniteSet(Unreleased(d)') /\ counts'[d] = Cardinality(Unreleased(d)')
  BY DEF Counted
<1> DEFINE U == Unreleased(d)
<1>1. IsFiniteSet(U) /\ counts[d] = Cardinality(U) /\ counts \in [Backends -> Nat]
  BY DEF IInv, Counted
<1>2. /\ U = {e \in Connections : Held(conn[e]) = {d}}
      /\ U' = {e \in Connections : Held(conn'[e]) = {d}}
  BY ParameterAssumption DEF Unreleased, Held, Holds
<1>3. conn' = [conn EXCEPT ![c] = s] /\ conn \in [Connections -> Sessions]
  BY DEF Move, Become, IInv
<1>4. /\ conn'[c] = s
      /\ \A e \in Connections : e # c => conn'[e] = conn[e]
  BY <1>3
<1>5. CASE KeepsHeld(c, s)
  <2>1. U' = U
    BY <1>2, <1>4, <1>5 DEF KeepsHeld
  <2> QED
    BY <2>1, <1>1, <1>5 DEF KeepsHeld
<1>6. CASE Takes(c, s)
  <2>1. PICK b \in Backends : /\ Held(conn[c]) = {} /\ Held(s) = {b}
                              /\ counts' = [counts EXCEPT ![b] = counts[b] + 1]
    BY <1>6 DEF Takes, CountOf
  <2>2. CASE d = b
    <3>1. U' = U \cup {c} /\ c \notin U
      BY <1>2, <1>4, <2>1, <2>2
    <3>2. Cardinality(U') = Cardinality(U) + 1 /\ IsFiniteSet(U')
      BY <3>1, <1>1, FS_AddElement
    <3> QED
      BY <3>2, <1>1, <2>1, <2>2
  <2>3. CASE d # b
    <3>1. U' = U
      BY <1>2, <1>4, <2>1, <2>3
    <3> QED
      BY <3>1, <1>1, <2>1, <2>3
  <2> QED
    BY <2>2, <2>3
<1>7. CASE Gives(c, s)
  <2>1. PICK b \in Backends : /\ Held(conn[c]) = {b} /\ Held(s) = {}
                              /\ counts' = [counts EXCEPT ![b] =
                                   IF counts[b] = 0 THEN 0 ELSE counts[b] - 1]
    BY <1>7 DEF Gives, CountOf
  <2>2. CASE d = b
    <3>1. U' = U \ {c} /\ c \in U
      BY <1>2, <1>4, <2>1, <2>2
    <3>2. Cardinality(U') = Cardinality(U) - 1 /\ IsFiniteSet(U')
      BY <3>1, <1>1, FS_RemoveElement
    <3>3. Cardinality(U) # 0
      BY <3>1, <1>1, FS_EmptySet
    <3> QED
      BY <3>2, <3>3, <1>1, <2>1, <2>2
  <2>3. CASE d # b
    <3>1. U' = U
      BY <1>2, <1>4, <2>1, <2>3
    <3> QED
      BY <3>1, <1>1, <2>1, <2>3
  <2> QED
    BY <2>2, <2>3
<1> QED
  BY <1>5, <1>6, <1>7 DEF Move

LEMMA MoveKeeps ==
  ASSUME NEW c \in Connections, NEW s, IInv, Move(c, s)
  PROVE  IInv'
<1>1. conn' = [conn EXCEPT ![c] = s] /\ s \in Sessions
  BY DEF Move, Become, SessionInv
<1>2. conn' \in [Connections -> Sessions]
  BY <1>1 DEF IInv
<1>3. ASSUME NEW d \in Connections
      PROVE  SessionInv(conn'[d])
  BY <1>1 DEF IInv, Move
<1>4. running' \in {Idle} \cup (Connections \X {"failed", "retry"})
  BY DEF Move
<1>5. ASSUME NEW d \in Connections, NEW step \in {"failed", "retry"},
             running' = <<d, step>>
      PROVE  Inside(conn'[d], step)
  BY <1>1, <1>5 DEF IInv, Move, Idle
<1>6. counts' \in [Backends -> Nat]
  BY DEF IInv, Move, KeepsHeld, Takes, Gives, CountOf
<1>7. Counted'
  BY MoveKeepsCounted
<1> QED
  BY <1>2, <1>3, <1>4, <1>5, <1>6, <1>7 DEF IInv, Move, SessionInv, AttemptsOK, Attempted, Inside

-----------------------------------------------------------------------------
(* The router's operations, for either algorithm. *)

LEMMA NextBackendTakes ==
  ASSUME healthy \subseteq Backends, NEW x, NEW b \in Backends, NextBackend(x, b)
  PROVE  /\ b \in healthy \ x
         /\ UNCHANGED healthy
         /\ CountOf(b, counts[b] + 1)
BY ParameterAssumption
   DEF NextBackend, CountOf, LC!NextBackend, LC!LightestOf, RR!NextBackend

LEMMA NoBackendLeft ==
  ASSUME healthy \subseteq Backends, NEW x, NextBackend(x, NoBackend)
  PROVE  UNCHANGED router
BY ParameterAssumption
   DEF NextBackend, router, LC!NextBackend, LC!LightestOf, RR!NextBackend

LEMMA GiveBackGives ==
  ASSUME NEW c \in Connections, IInv,
         NEW s \in Sessions, NEW t \in Sessions,
         Holds(s) = Holds(conn[c]), s.backend = conn[c].backend,
         t.backend = s.backend, ~Holds(t), GiveBack(s)
  PROVE  /\ UNCHANGED healthy
         /\ KeepsHeld(c, t) \/ Gives(c, t)
<1>1. CASE Holds(s)
  <2>1. s.backend \in Backends
    BY <1>1 DEF Holds, Sessions
  <2>2. Held(conn[c]) = {s.backend} /\ Held(t) = {}
    BY <1>1 DEF Held
  <2>3. /\ UNCHANGED healthy
        /\ CountOf(s.backend, IF counts[s.backend] = 0 THEN 0 ELSE counts[s.backend] - 1)
    BY <1>1, ParameterAssumption
       DEF GiveBack, OnDisconnect, CountOf, LC!OnDisconnect, RR!OnDisconnect
  <2> QED
    BY <2>1, <2>2, <2>3 DEF Gives
<1>2. CASE ~Holds(s)
  BY <1>2 DEF GiveBack, router, KeepsHeld, Held
<1> QED
  BY <1>1, <1>2

LEMMA FinishMoves ==
  ASSUME IInv, NEW c \in Connections, NEW s, SessionInv(s),
         running = Idle, UNCHANGED running,
         s.backend = conn[c].backend, s.notified = conn[c].notified,
         Finish(c, s)
  PROVE  \E t : Move(c, t)
<1> DEFINE t == [s EXCEPT !.state = "DONE",
                          !.notified = s.notified \/ s.backend # NoBackend]
<1>1. GiveBack(s) /\ Become(c, t)
  BY DEF Finish
<1>2. s \in Sessions /\ t \in Sessions
  BY DEF SessionInv, Sessions, States
<1>3. t.backend = s.backend /\ t.notified = (s.notified \/ s.backend # NoBackend)
  BY <1>2 DEF Sessions
<1>4. SessionInv(t)
  BY <1>2 DEF SessionInv, Sessions, AttemptsOK, Attempted, Early, Sending, Receiving
<1>5. UNCHANGED healthy /\ (KeepsHeld(c, t) \/ Gives(c, t))
  <2>1. Holds(s) = Holds(conn[c]) /\ ~Holds(t)
    BY <1>3 DEF Holds
  <2> HIDE DEF t
  <2> QED
    BY <1>1, <1>2, <1>3, <2>1, GiveBackGives
<1> QED
  BY <1>1, <1>4, <1>5 DEF Move

LEMMA SendErrorMoves ==
  ASSUME IInv, NEW c \in Connections, NEW s, SessionInv(s), NEW code \in Pages,
         running = Idle, UNCHANGED running,
         s.backend = conn[c].backend, s.notified = conn[c].notified,
         SendError(c, s, code)
  PROVE  \E t : Move(c, t)
<1> DEFINE paged == [s EXCEPT !.page = code, !.sent = TRUE]
<1>1. Finish(c, s) \/ Finish(c, paged)
  BY DEF SendError
<1>2. CASE Finish(c, paged)
  <2>1. paged.backend = s.backend /\ paged.notified = s.notified
    BY DEF SessionInv, Sessions
  <2>2. SessionInv(paged)
    BY DEF SessionInv, Sessions, AttemptsOK, Attempted
  <2> HIDE DEF paged
  <2> QED
    BY <1>2, <2>1, <2>2, FinishMoves
<1> QED
  BY <1>1, <1>2, FinishMoves

(* _send_error ends a session whatever state it is in. *)
LEMMA SendErrorEnds ==
  ASSUME NEW c, NEW s \in Sessions, NEW code, SendError(c, s, code)
  PROVE  SendError(c, [s EXCEPT !.state = "DONE"], code)
<1> DEFINE Over(u) == [u EXCEPT !.state = "DONE"]
           Paged(u) == [u EXCEPT !.page = code, !.sent = TRUE]
           Final(u) == [u EXCEPT !.state = "DONE",
                                 !.notified = u.notified \/ u.backend # NoBackend]
<1>1. Paged(Over(s)) = Over(Paged(s))
  BY DEF Sessions
<1>2. ASSUME NEW u, Finish(c, u), u = s \/ u = Paged(s)
      PROVE  Finish(c, Over(u))
  <2>1. /\ Over(u).backend = u.backend /\ Over(u).notified = u.notified
        /\ Final(Over(u)) = Final(u)
    BY <1>2 DEF Sessions
  <2> HIDE DEF Over, Paged
  <2> QED
    BY <1>2, <2>1 DEF Finish, GiveBack, Holds
<1>3. PICK taken \in BOOLEAN : Finish(c, IF taken THEN Paged(s) ELSE s)
  BY DEF SendError
<1>4. Finish(c, IF taken THEN Paged(Over(s)) ELSE Over(s))
  BY <1>1, <1>2, <1>3
<1> QED
  BY <1>4 DEF SendError

-----------------------------------------------------------------------------
(* One lemma per handler. *)

LEMMA AcceptMoves ==
  ASSUME IInv, NEW c \in Connections, Accept(c)
  PROVE  \E s : Move(c, s)
<1> DEFINE s == [conn[c] EXCEPT !.state = "READING_REQUEST"]
<1>1. SessionInv(conn[c]) /\ conn[c].state = "NEW"
  BY DEF IInv, Accept, Dispatched
<1>2. SessionInv(s) /\ Held(s) = Held(conn[c])
  BY <1>1 DEF SessionInv, Sessions, States, AttemptsOK, Attempted, Early, Sending,
              Receiving, Held, Holds
<1> QED
  BY <1>2 DEF Move, Accept, Dispatched, KeepsHeld, router

LEMMA ClientGoneMoves ==
  ASSUME IInv, NEW c \in Connections, ClientGone(c)
  PROVE  \E s : Move(c, s)
<1> DEFINE s == [conn[c] EXCEPT !.state = "DONE"]
<1>1. SessionInv(conn[c])
  BY DEF IInv
<1>2. SessionInv(s) /\ Held(s) = Held(conn[c])
  BY <1>1 DEF SessionInv, Sessions, States, AttemptsOK, Attempted, Early, Sending,
              Receiving, Held, Holds
<1> QED
  BY <1>2 DEF Move, ClientGone, Dispatched, KeepsHeld, router

LEMMA ReapMoves ==
  ASSUME IInv, NEW c \in Connections, Reap(c)
  PROVE  \E s : Move(c, s)
<1> DEFINE s == [conn[c] EXCEPT !.state = "CLOSED"]
<1>1. SessionInv(conn[c])
  BY DEF IInv
<1>2. SessionInv(s) /\ Held(s) = Held(conn[c])
  BY <1>1 DEF SessionInv, Sessions, States, AttemptsOK, Attempted, Early, Sending,
              Receiving, Held, Holds
<1> QED
  BY <1>2 DEF Move, Reap, Dispatched, KeepsHeld, router

LEMMA RequestTooLargeMoves ==
  ASSUME IInv, NEW c \in Connections, RequestTooLarge(c)
  PROVE  \E s : Move(c, s)
BY SendErrorMoves DEF IInv, RequestTooLarge, Dispatched, Pages

LEMMA TimeoutMoves ==
  ASSUME IInv, NEW c \in Connections, HandleTimeout(c)
  PROVE  \E s : Move(c, s)
<1>1. SessionInv(conn[c]) /\ running = Idle /\ UNCHANGED running
  BY DEF IInv, HandleTimeout, Dispatched
<1>2. \/ \E code \in Pages : SendError(c, conn[c], code)
      \/ Finish(c, conn[c])
  BY DEF HandleTimeout, Pages
<1> QED
  BY <1>1, <1>2, SendErrorMoves, FinishMoves

LEMMA ClientWritableMoves ==
  ASSUME IInv, NEW c \in Connections, HandleClientWritable(c)
  PROVE  \E s : Move(c, s)
<1> DEFINE s == conn[c]
           Wrote(n) == [s EXCEPT !.relayed = s.relayed + n, !.sent = s.sent \/ n > 0]
<1>1. SessionInv(s) /\ running = Idle /\ UNCHANGED running
      /\ s.state = "FORWARDING_RESPONSE"
  BY DEF IInv, HandleClientWritable, Dispatched
<1>2. CASE Become(c, [s EXCEPT !.state = "DONE"]) /\ UNCHANGED router
  <2>1. SessionInv([s EXCEPT !.state = "DONE"])
        /\ Held([s EXCEPT !.state = "DONE"]) = Held(s)
    BY <1>1 DEF SessionInv, Sessions, States, AttemptsOK, Attempted, Early, Sending,
                Receiving, Held, Holds
  <2> QED
    BY <1>1, <1>2, <2>1 DEF Move, KeepsHeld, router
<1>3. ASSUME NEW n \in 0..(s.relay - s.relayed),
             \/ Finish(c, Wrote(n))
             \/ Become(c, Wrote(n)) /\ UNCHANGED router
      PROVE  \E t : Move(c, t)
  <2>1. s.relayed + n \in Nat /\ (s.sent \/ n > 0) \in BOOLEAN
    BY <1>1 DEF SessionInv, Sessions
  <2>2. SessionInv(Wrote(n))
    <3> DEFINE sent == s.sent \/ n > 0
               relayed == s.relayed + n
    <3>1. sent \in BOOLEAN /\ relayed \in Nat
      BY <2>1
    <3> HIDE DEF sent, relayed
    <3>2. SessionInv([s EXCEPT !.relayed = relayed, !.sent = sent])
      BY <1>1, <3>1 DEF SessionInv, Sessions, AttemptsOK, Attempted
    <3> QED
      BY <3>2 DEF sent, relayed
  <2>3. Wrote(n).backend = s.backend /\ Wrote(n).notified = s.notified
    BY <1>1 DEF SessionInv, Sessions
  <2>4. Held(Wrote(n)) = Held(s)
    BY <2>3 DEF Held, Holds
  <2> HIDE DEF Wrote
  <2>5. CASE Finish(c, Wrote(n))
    BY <1>1, <2>2, <2>3, <2>5, FinishMoves
  <2>6. CASE Become(c, Wrote(n)) /\ UNCHANGED router
    BY <1>1, <2>2, <2>4, <2>6 DEF Move, KeepsHeld, router
  <2> QED
    BY <1>3, <2>5, <2>6
<1>4. \/ Become(c, [s EXCEPT !.state = "DONE"]) /\ UNCHANGED router
      \/ \E n \in 0..(s.relay - s.relayed) :
           \/ Finish(c, Wrote(n))
           \/ Become(c, Wrote(n)) /\ UNCHANGED router
  BY DEF HandleClientWritable
<1> QED
  BY <1>2, <1>3, <1>4

(* A handler enters _fail_backend with a session that holds what it held. *)
LEMMA EnterFailBackendMoves ==
  ASSUME IInv, NEW c \in Connections, NEW s, SessionInv(s), running = Idle,
         s.state \in Sending \cup {"READING_RESPONSE"},
         Held(s) = Held(conn[c]), EnterFailBackend(c, s)
  PROVE  Move(c, s)
BY DEF EnterFailBackend, Move, Inside, KeepsHeld, router

LEMMA SendRequestMoves ==
  ASSUME IInv, NEW c \in Connections, NEW s, SessionInv(s), running = Idle,
         s.state = "FORWARDING_REQUEST", Held(s) = Held(conn[c]), SendRequest(c, s)
  PROVE  \E t : Move(c, t)
<1> DEFINE Sent(n) ==
      [s EXCEPT !.fwd = s.fwd + n, !.rcvd = s.rcvd + n,
                !.state = IF s.fwd + n >= ReqLen THEN "READING_RESPONSE"
                          ELSE "FORWARDING_REQUEST"]
<1>1. CASE EnterFailBackend(c, s)
  BY <1>1, EnterFailBackendMoves DEF Sending
<1>2. ASSUME NEW n \in 0..(ReqLen - s.fwd), Become(c, Sent(n)),
             UNCHANGED <<running, router>>
      PROVE  \E t : Move(c, t)
  <2>1. n \in Nat /\ n <= ReqLen - s.fwd /\ s.fwd \in Nat /\ ReqLen \in Nat
        /\ s.rcvd = s.fwd /\ s.backend \in Backends /\ s \in Sessions
    BY ParameterAssumption DEF SessionInv, Sessions, Sending
  <2>2. Sent(n) \in Sessions
    <3> DEFINE fwd == s.fwd + n
               rcvd == s.rcvd + n
               state == IF fwd >= ReqLen THEN "READING_RESPONSE"
                        ELSE "FORWARDING_REQUEST"
    <3>1. fwd \in Nat /\ rcvd \in Nat /\ state \in States
      BY <2>1 DEF States
    <3> HIDE DEF fwd, rcvd, state
    <3>2. [s EXCEPT !.fwd = fwd, !.rcvd = rcvd, !.state = state] \in Sessions
      BY <2>1, <3>1 DEF Sessions
    <3> QED
      BY <3>2 DEF fwd, rcvd, state
  <2>3. SessionInv(Sent(n))
    <3>1. AttemptsOK(Sent(n)) /\ Sent(n).src \subseteq {Sent(n).backend}
          /\ Sent(n).backend \in Backends
      BY <2>1 DEF SessionInv, AttemptsOK, Attempted, Sessions
    <3>2. CASE s.fwd + n >= ReqLen
      BY <2>1, <2>2, <3>1, <3>2 DEF SessionInv, Sessions, Early, Sending, Receiving
    <3>3. CASE ~(s.fwd + n >= ReqLen)
      BY <2>1, <2>2, <3>1, <3>3 DEF SessionInv, Sessions, Early, Sending, Receiving
    <3> QED
      BY <3>2, <3>3
  <2>4. Held(Sent(n)) = Held(s)
    BY <2>1 DEF Held, Holds, Sessions
  <2> HIDE DEF Sent
  <2> QED
    BY <1>2, <2>3, <2>4 DEF Move, KeepsHeld, router
<1> QED
  BY <1>1, <1>2 DEF SendRequest

LEMMA BackendWritableMoves ==
  ASSUME IInv, NEW c \in Connections, HandleBackendWritable(c)
  PROVE  \E s : Move(c, s)
<1> DEFINE connected == [conn[c] EXCEPT !.state = "FORWARDING_REQUEST"]
<1>1. SessionInv(conn[c]) /\ running = Idle
  BY DEF IInv, HandleBackendWritable, Dispatched
<1>2. CASE /\ conn[c].state = "CONNECTING_TO_BACKEND"
           /\ EnterFailBackend(c, conn[c])
  BY <1>1, <1>2, EnterFailBackendMoves DEF Sending
<1>3. CASE /\ conn[c].state = "CONNECTING_TO_BACKEND"
           /\ SendRequest(c, connected)
  <2>1. SessionInv(connected) /\ Held(connected) = Held(conn[c])
        /\ connected.state = "FORWARDING_REQUEST"
    BY <1>1, <1>3 DEF SessionInv, Sessions, States, AttemptsOK, Attempted, Early,
                      Sending, Receiving, Held, Holds
  <2> HIDE DEF connected
  <2> QED
    BY <1>1, <1>3, <2>1, SendRequestMoves
<1>4. CASE conn[c].state = "FORWARDING_REQUEST" /\ SendRequest(c, conn[c])
  BY <1>1, <1>4, SendRequestMoves
<1> QED
  BY <1>2, <1>3, <1>4 DEF HandleBackendWritable, Dispatched

(* What is relayed of a buffer that a whole chunked message is in. *)
LEMMA PrepareRelayMoves ==
  ASSUME IInv, NEW c \in Connections, NEW s, SessionInv(s), running = Idle,
         s.state = "READING_RESPONSE", Held(s) = Held(conn[c]),
         s.frame.framing = "chunked" => s.got >= Total(s.frame),
         Become(c, PrepareRelay(s)), UNCHANGED <<running, router>>
  PROVE  \E t : Move(c, t)
<1> DEFINE t == PrepareRelay(s)
<1>1. t \in Sessions
  BY DEF SessionInv, Sessions, States, PrepareRelay
<1>2. /\ t.state = "FORWARDING_RESPONSE" /\ t.relay = s.got /\ t.frame = s.frame
      /\ t.backend = s.backend /\ t.tried = s.tried /\ t.attempts = s.attempts
      /\ t.request = s.request /\ t.src = s.src /\ t.rcvd = s.rcvd
      /\ t.notified = s.notified
  BY DEF SessionInv, Sessions, PrepareRelay
<1> HIDE DEF t
<1>3. SessionInv(t)
  BY <1>1, <1>2 DEF SessionInv, AttemptsOK, Attempted, Early, Sending, Receiving
<1>4. Held(t) = Held(s)
  BY <1>2 DEF Held, Holds
<1> QED
  BY <1>3, <1>4 DEF Move, KeepsHeld, router, t

LEMMA ResponseEndsMoves ==
  ASSUME IInv, NEW c \in Connections, ResponseEnds(c)
  PROVE  \E s : Move(c, s)
<1> DEFINE s == conn[c]
<1>1. SessionInv(s) /\ running = Idle /\ s.state = "READING_RESPONSE"
  BY DEF IInv, ResponseEnds, Dispatched
<1>2. CASE EnterFailBackend(c, s)
  BY <1>1, <1>2, EnterFailBackendMoves
<1>3. CASE /\ ~(s.frame.framing = "chunked" /\ ~Complete(s))
           /\ Become(c, PrepareRelay(s)) /\ UNCHANGED <<running, router>>
  BY <1>1, <1>3, PrepareRelayMoves DEF Complete
<1> QED
  BY <1>2, <1>3 DEF ResponseEnds

LEMMA ResponseErrorMoves ==
  ASSUME IInv, NEW c \in Connections, ResponseError(c)
  PROVE  \E s : Move(c, s)
BY EnterFailBackendMoves DEF IInv, ResponseError, Dispatched

LEMMA ResponseDataMoves ==
  ASSUME IInv, NEW c \in Connections, ResponseData(c)
  PROVE  \E s : Move(c, s)
<1> DEFINE s == conn[c]
           Fed(got, shape) ==
             [s EXCEPT !.got = got, !.src = s.src \cup {s.backend},
                       !.frame = IF got >= HeaderLen THEN shape ELSE s.frame]
<1>1. SessionInv(s) /\ running = Idle /\ s.state = "READING_RESPONSE"
      /\ s \in Sessions /\ s.backend \in Backends
  BY DEF IInv, ResponseData, Dispatched, SessionInv, Receiving
<1>2. PICK shape \in IF HeadersDone(s) THEN {s.frame} ELSE Shapes :
      \E got \in (s.got + 1)..(Total(shape) + 1) :
        IF Complete(Fed(got, shape))
        THEN \E t \in Framed(Fed(got, shape)) : Become(c, PrepareRelay(t))
        ELSE Become(c, Fed(got, shape))
  BY DEF ResponseData
<1>3. PICK got \in (s.got + 1)..(Total(shape) + 1) :
        IF Complete(Fed(got, shape))
        THEN \E t \in Framed(Fed(got, shape)) : Become(c, PrepareRelay(t))
        ELSE Become(c, Fed(got, shape))
  BY <1>2
<1>4. shape \in Shapes /\ got \in Nat
  BY <1>1, <1>2, <1>3, ParameterAssumption DEF HeadersDone, Sessions
<1> DEFINE u == Fed(got, shape)
<1>5. /\ u \in Sessions
      /\ u.src = s.src \cup {s.backend} /\ u.frame \in Shapes \cup {Unknown}
      /\ u.state = s.state /\ u.backend = s.backend /\ u.tried = s.tried
      /\ u.attempts = s.attempts /\ u.request = s.request /\ u.rcvd = s.rcvd
      /\ u.notified = s.notified
  BY <1>1, <1>4 DEF Sessions
<1>6. UNCHANGED <<running, router>>
  BY DEF ResponseData
<1> HIDE DEF u, Fed
<1>7. SessionInv(u) /\ Held(u) = Held(s)
  BY <1>1, <1>5 DEF SessionInv, AttemptsOK, Attempted, Early, Sending, Receiving, Held, Holds
<1>8. CASE Complete(u)
  <2>1. PICK t \in Framed(u) : Become(c, PrepareRelay(t))
    BY <1>3, <1>8 DEF u
  <2>2. u.frame \in Shapes
    BY <1>5, <1>8 DEF Complete, Unknown
  <2>3. Total(u.frame) \in Nat /\ u.got \in Nat /\ u.got >= Total(u.frame)
    BY <1>5, <1>8, <2>2, ParameterAssumption DEF Total, Complete, Sessions
  <2>4. CASE t = u
    BY <1>1, <1>5, <1>6, <1>7, <2>1, <2>3, <2>4, PrepareRelayMoves
  <2>5. CASE t = [u EXCEPT !.got = Total(u.frame)]
    <3>1. /\ t \in Sessions /\ t.got = Total(u.frame) /\ t.frame = u.frame
          /\ t.src = u.src /\ t.state = u.state /\ t.backend = u.backend
          /\ t.tried = u.tried /\ t.attempts = u.attempts /\ t.request = u.request
          /\ t.rcvd = u.rcvd /\ t.notified = u.notified
      BY <1>5, <2>3, <2>5 DEF Sessions
    <3>2. SessionInv(t) /\ Held(t) = Held(u)
      BY <1>1, <1>5, <1>7, <3>1
         DEF SessionInv, AttemptsOK, Attempted, Early, Sending, Receiving, Held, Holds
    <3> QED
      BY <1>1, <1>5, <1>6, <1>7, <2>1, <2>3, <3>1, <3>2, PrepareRelayMoves
  <2> QED
    BY <2>1, <2>4, <2>5 DEF Framed
<1>9. CASE ~Complete(u)
  BY <1>1, <1>3, <1>6, <1>7, <1>9 DEF u, Move, KeepsHeld, router
<1> QED
  BY <1>8, <1>9

(* A connect starts an attempt with a session whose backend was just taken. *)
LEMMA ConnectMoves ==
  ASSUME IInv, NEW c \in Connections, NEW s \in Sessions,
         running = Idle \/ running = <<c, "retry">>,
         AttemptsOK(s), s.src = {}, s.fwd = 0, ~s.notified,
         s.backend \in Backends, UNCHANGED healthy,
         Held(conn[c]) = {}, CountOf(s.backend, counts[s.backend] + 1),
         InitiateBackendConnect(c, s)
  PROVE  \E t : Move(c, t)
<1> DEFINE Fresh(state) == [s EXCEPT !.state = state, !.rcvd = 0]
<1>1. ASSUME NEW state \in {"FORWARDING_REQUEST", "CONNECTING_TO_BACKEND", "DONE"}
      PROVE  /\ SessionInv(Fresh(state))
             /\ Held(Fresh(state)) = {s.backend}
             /\ Fresh(state).state = state
  <2>1. /\ Fresh(state) \in Sessions
        /\ Fresh(state).state = state /\ Fresh(state).rcvd = 0
        /\ Fresh(state).fwd = 0 /\ Fresh(state).src = {}
        /\ Fresh(state).backend = s.backend /\ Fresh(state).tried = s.tried
        /\ Fresh(state).attempts = s.attempts /\ Fresh(state).request = s.request
        /\ Fresh(state).notified = s.notified
    BY <1>1 DEF Sessions, States
  <2> HIDE DEF Fresh
  <2> QED
    BY <1>1, <2>1, ParameterAssumption
       DEF SessionInv, AttemptsOK, Attempted, Early, Sending, Receiving, Held, Holds
<1>2. ASSUME NEW state \in {"FORWARDING_REQUEST", "CONNECTING_TO_BACKEND", "DONE"},
             Become(c, Fresh(state)), running' = Idle
      PROVE  Move(c, Fresh(state))
  <2> HIDE DEF Fresh
  <2> QED
    BY <1>1, <1>2 DEF Move, Takes
<1>3. ASSUME Become(c, Fresh("CONNECTING_TO_BACKEND")), running' = <<c, "failed">>
      PROVE  Move(c, Fresh("CONNECTING_TO_BACKEND"))
  <2> HIDE DEF Fresh
  <2>1. Inside(Fresh("CONNECTING_TO_BACKEND"), "failed")
    BY <1>1 DEF Inside, Sending
  <2> QED
    BY <1>1, <1>3, <2>1 DEF Move, Takes
<1> QED
  BY <1>2, <1>3 DEF InitiateBackendConnect

LEMMA RequestCompleteMoves ==
  ASSUME IInv, NEW c \in Connections, RequestComplete(c)
  PROVE  \E s : Move(c, s)
<1>1. SessionInv(conn[c]) /\ conn[c] \in Sessions /\ running = Idle
      /\ healthy \subseteq Backends /\ conn[c].state = "READING_REQUEST"
  BY DEF IInv, RequestComplete, Dispatched, SessionInv
<1>2. /\ conn[c].backend = NoBackend /\ conn[c].tried = {} /\ conn[c].attempts = 0
      /\ conn[c].src = {} /\ IsFiniteSet(conn[c].tried)
  BY <1>1 DEF SessionInv, Early, AttemptsOK
<1>3. PICK request \in {"idempotent", "other"} :
        LET s == [conn[c] EXCEPT !.request = request, !.fwd = 0]
        IN \/ \E b \in Backends :
                /\ NextBackend({}, b)
                /\ InitiateBackendConnect(c,
                     [s EXCEPT !.backend = b, !.attempts = 1, !.notified = FALSE])
           \/ /\ NextBackend({}, NoBackend)
              /\ SendError(c, s, 503)
              /\ UNCHANGED running
  BY DEF RequestComplete
<1> DEFINE s == [conn[c] EXCEPT !.request = request, !.fwd = 0]
           First(b) == [s EXCEPT !.backend = b, !.attempts = 1, !.notified = FALSE]
<1>4. /\ s \in Sessions /\ s.request = request /\ s.fwd = 0
      /\ s.backend = NoBackend /\ s.tried = {} /\ s.attempts = 0 /\ s.src = {}
      /\ s.state = "READING_REQUEST" /\ s.notified = conn[c].notified
  BY <1>1, <1>2 DEF Sessions
<1>5. ASSUME NEW b \in Backends, NextBackend({}, b), InitiateBackendConnect(c, First(b))
      PROVE  \E t : Move(c, t)
  <2>1. /\ First(b) \in Sessions /\ First(b).backend = b /\ First(b).attempts = 1
        /\ First(b).tried = {} /\ First(b).src = {} /\ First(b).fwd = 0
        /\ ~First(b).notified /\ First(b).request = request
    BY <1>4 DEF Sessions
  <2>2. AttemptsOK(First(b))
    <3>1. Attempted(First(b)) = {b}
      BY <2>1, ParameterAssumption DEF Attempted
    <3>2. Cardinality({b}) = 1 /\ IsFiniteSet({})
      BY FS_Singleton, FS_EmptySet
    <3> HIDE DEF First
    <3> QED
      BY <2>1, <3>1, <3>2, ParameterAssumption DEF AttemptsOK
  <2>3. Held(conn[c]) = {}
    BY <1>2 DEF Held, Holds
  <2>4. UNCHANGED healthy /\ CountOf(b, counts[b] + 1)
    BY <1>1, <1>5, NextBackendTakes
  <2> HIDE DEF First
  <2> QED
    BY <1>1, <1>5, <2>1, <2>2, <2>3, <2>4, ConnectMoves
<1>6. ASSUME SendError(c, s, 503), UNCHANGED running
      PROVE  \E t : Move(c, t)
  <2> DEFINE over == [s EXCEPT !.state = "DONE"]
  <2>1. /\ over \in Sessions /\ over.state = "DONE" /\ over.request = s.request
        /\ over.backend = s.backend /\ over.tried = {} /\ over.attempts = 0
        /\ over.src = {} /\ over.notified = s.notified
    BY <1>4 DEF Sessions, States
  <2>2. SendError(c, over, 503)
    BY <1>4, <1>6, SendErrorEnds
  <2> HIDE DEF over, s
  <2>3. SessionInv(over)
    <3>1. Attempted(over) = {} /\ Cardinality({}) = 0
      BY <1>4, <2>1, ParameterAssumption, FS_EmptySet DEF Attempted
    <3> QED
      BY <1>2, <2>1, <3>1, ParameterAssumption
         DEF SessionInv, AttemptsOK, Early, Sending, Receiving
  <2> QED
    BY <1>1, <1>2, <1>4, <1>6, <2>1, <2>2, <2>3, SendErrorMoves DEF Pages
<1> QED
  BY <1>3, <1>5, <1>6

LEMMA FailBackendMoves ==
  ASSUME IInv, NEW c \in Connections, FailBackend(c)
  PROVE  \E s : Move(c, s)
<1> DEFINE s == conn[c]
           t == [s EXCEPT !.notified = TRUE, !.tried = s.tried \cup {s.backend}]
<1>1. SessionInv(s) /\ s \in Sessions /\ Inside(s, "failed") /\ running = <<c, "failed">>
  BY DEF IInv, FailBackend, SessionInv
<1>2. s.backend \in Backends
  BY <1>1 DEF Inside, SessionInv, Sending, Receiving
<1>3. GiveBack(s) /\ Become(c, t) /\ running' = <<c, "retry">>
  BY DEF FailBackend
<1>4. /\ t \in Sessions /\ t.notified = TRUE /\ t.tried = s.tried \cup {s.backend}
      /\ t.state = s.state /\ t.backend = s.backend /\ t.attempts = s.attempts
      /\ t.request = s.request /\ t.src = s.src /\ t.rcvd = s.rcvd /\ t.fwd = s.fwd
      /\ t.frame = s.frame /\ t.relay = s.relay
  BY <1>1, <1>2 DEF Sessions
<1> HIDE DEF t
<1>5. SessionInv(t)
  <2>1. Attempted(t) = Attempted(s)
    BY <1>4 DEF Attempted
  <2>2. IsFiniteSet(t.tried)
    BY <1>1, <1>4, FS_AddElement DEF SessionInv, AttemptsOK
  <2>3. AttemptsOK(t)
    BY <1>1, <1>4, <2>1, <2>2 DEF SessionInv, AttemptsOK
  <2> QED
    BY <1>1, <1>4, <2>3 DEF SessionInv, Inside, Early, Sending, Receiving
<1>6. Inside(t, "retry")
  BY <1>1, <1>4 DEF Inside
<1>7. UNCHANGED healthy /\ (KeepsHeld(c, t) \/ Gives(c, t))
  BY <1>1, <1>3, <1>4, GiveBackGives DEF Holds
<1> QED
  BY <1>1, <1>3, <1>5, <1>6, <1>7 DEF Move

LEMMA RetryBackendMoves ==
  ASSUME IInv, NEW c \in Connections, RetryBackend(c)
  PROVE  \E s : Move(c, s)
<1> DEFINE s == conn[c]
<1>1. SessionInv(s) /\ s \in Sessions /\ Inside(s, "retry") /\ running = <<c, "retry">>
      /\ healthy \subseteq Backends /\ CanRetry(s)
  BY DEF IInv, RetryBackend, SessionInv
<1>2. PICK b \in Backends : /\ NextBackend(s.tried, b)
                            /\ InitiateBackendConnect(c, Retried(s, b))
  BY DEF RetryBackend
<1> DEFINE t == Retried(s, b)
<1>3. b \notin s.tried /\ UNCHANGED healthy /\ CountOf(b, counts[b] + 1)
  BY <1>1, <1>2, NextBackendTakes
<1>4. /\ t \in Sessions /\ t.backend = b /\ t.attempts = s.attempts + 1
      /\ ~t.notified /\ t.fwd = 0 /\ t.src = {} /\ t.tried = s.tried
      /\ t.request = s.request
  <2> DEFINE attempts == s.attempts + 1
  <2>1. attempts \in Nat
    BY <1>1 DEF Sessions
  <2> HIDE DEF attempts
  <2>2. t = [s EXCEPT !.backend = b, !.attempts = attempts, !.notified = FALSE,
                      !.fwd = 0, !.got = 0, !.src = {}, !.frame = Unknown]
    BY DEF attempts, Retried
  <2> HIDE DEF t
  <2>3. t \in Sessions
    BY <1>1, <1>2, <2>1, <2>2 DEF Sessions
  <2>4. /\ t.backend = b /\ t.attempts = attempts
        /\ ~t.notified /\ t.fwd = 0 /\ t.src = {} /\ t.tried = s.tried
        /\ t.request = s.request
    BY <1>1, <2>2 DEF Sessions
  <2> QED
    BY <2>3, <2>4 DEF attempts
<1> HIDE DEF t
<1>5. AttemptsOK(t)
  <2>1. Attempted(s) = s.tried /\ Attempted(t) = s.tried \cup {b}
    BY <1>1, <1>4, ParameterAssumption DEF Attempted, Inside, Sessions
  <2>2. Cardinality(Attempted(t)) = Cardinality(Attempted(s)) + 1
    <3>1. IsFiniteSet(s.tried)
      BY <1>1 DEF SessionInv, AttemptsOK
    <3>2. Cardinality(s.tried \cup {b}) = Cardinality(s.tried) + 1
      BY <1>3, <3>1, FS_AddElement
    <3> QED
      BY <2>1, <3>2
  <2>3. s.attempts <= MaxRetries /\ s.request = "idempotent"
    BY <1>1 DEF CanRetry
  <2> QED
    BY <1>1, <1>4, <2>2, <2>3, ParameterAssumption DEF SessionInv, AttemptsOK, Sessions
<1>6. Held(s) = {}
  BY <1>1 DEF Inside, Held, Holds
<1> QED
  BY <1>1, <1>2, <1>3, <1>4, <1>5, <1>6, ConnectMoves DEF t

LEMMA GiveUpMoves ==
  ASSUME IInv, NEW c \in Connections, GiveUp(c)
  PROVE  \E s : Move(c, s)
<1> DEFINE s == conn[c]
           Given(taken) == [s EXCEPT !.state = "DONE",
                              !.page = IF taken THEN 502 ELSE s.page,
                              !.sent = s.sent \/ taken]
<1>1. SessionInv(s) /\ s \in Sessions /\ running = <<c, "retry">>
      /\ healthy \subseteq Backends
  BY DEF IInv, GiveUp, SessionInv
<1>2. UNCHANGED router
  BY <1>1, NoBackendLeft DEF GiveUp, router
<1>3. PICK taken \in BOOLEAN : Become(c, Given(taken))
  BY DEF GiveUp
<1>4. /\ Given(taken) \in Sessions /\ Given(taken).state = "DONE"
      /\ Given(taken).backend = s.backend /\ Given(taken).tried = s.tried
      /\ Given(taken).attempts = s.attempts /\ Given(taken).request = s.request
      /\ Given(taken).src = s.src /\ Given(taken).notified = s.notified
  <2> DEFINE page == IF taken THEN 502 ELSE s.page
             sent == s.sent \/ taken
  <2>1. page \in Pages \cup {0} /\ sent \in BOOLEAN
    BY <1>1 DEF Sessions, Pages
  <2> HIDE DEF page, sent
  <2>2. [s EXCEPT !.state = "DONE", !.page = page, !.sent = sent] = Given(taken)
    BY DEF page, sent
  <2> HIDE DEF Given
  <2>3. Given(taken) \in Sessions
    BY <1>1, <2>1, <2>2 DEF Sessions, States
  <2>4. /\ Given(taken).state = "DONE"
        /\ Given(taken).backend = s.backend /\ Given(taken).tried = s.tried
        /\ Given(taken).attempts = s.attempts /\ Given(taken).request = s.request
        /\ Given(taken).src = s.src /\ Given(taken).notified = s.notified
    BY <1>1, <2>2 DEF Sessions
  <2> QED
    BY <2>3, <2>4
<1> HIDE DEF Given
<1>5. SessionInv(Given(taken)) /\ Held(Given(taken)) = Held(s)
  BY <1>1, <1>4
     DEF SessionInv, AttemptsOK, Attempted, Early, Sending, Receiving, Held, Holds
<1>6. running' = Idle
  BY DEF GiveUp
<1> QED
  BY <1>1, <1>2, <1>3, <1>5, <1>6 DEF Move, KeepsHeld, router

-----------------------------------------------------------------------------
(* The invariant. *)

LEMMA InitIInv == Init => IInv
<1> SUFFICES ASSUME Init
             PROVE  IInv
  OBVIOUS
<1>1. NewSession \in Sessions
  BY DEF NewSession, Sessions, States, Unknown, Pages
<1>2. SessionInv(NewSession)
  <2>1. Attempted(NewSession) = {} /\ Cardinality({}) = 0 /\ IsFiniteSet({})
    BY FS_EmptySet DEF Attempted, NewSession
  <2>2. /\ NewSession.tried = {} /\ NewSession.attempts = 0
        /\ NewSession.request = "none"
    BY DEF NewSession
  <2>3. 0 <= 1 + MaxRetries
    BY ParameterAssumption
  <2>4. AttemptsOK(NewSession)
    BY <2>1, <2>2, <2>3 DEF AttemptsOK
  <2> QED
    BY <1>1, <2>4 DEF SessionInv, NewSession, Early, Sending, Receiving
<1>3. conn = [c \in Connections |-> NewSession] /\ running = Idle
      /\ healthy = Backends /\ counts = [b \in Backends |-> 0]
  BY DEF Init
<1>4. Counted
  <2>1. ASSUME NEW b \in Backends
        PROVE  Unreleased(b) = {}
    BY <1>3, ParameterAssumption DEF Unreleased, Holds, NewSession
  <2> QED
    BY <1>3, <2>1, FS_EmptySet DEF Counted
<1> QED
  BY <1>1, <1>2, <1>3, <1>4 DEF IInv, Idle

LEMMA HealthChangeKeeps ==
  ASSUME IInv, NEW b \in Backends, HealthChange(b)
  PROVE  IInv'
<1>1. UNCHANGED <<conn, running, counts>> /\ healthy' \subseteq Backends
  BY DEF IInv, HealthChange, LC!MarkUnhealthy, LC!MarkHealthy
<1>2. Counted'
  BY <1>1 DEF IInv, Counted, Unreleased, Holds
<1> QED
  BY <1>1, <1>2 DEF IInv, SessionInv, AttemptsOK, Attempted, Inside

LEMMA NextKeeps == IInv /\ [Next]_vars => IInv'
<1> SUFFICES ASSUME IInv, [Next]_vars
             PROVE  IInv'
  OBVIOUS
<1>1. ASSUME NEW c \in Connections,
             Accept(c) \/ Handle(c) \/ InFailBackend(c) \/ HandleTimeout(c) \/ Reap(c)
      PROVE  IInv'
  <2>1. CASE Accept(c)
    BY <2>1, AcceptMoves, MoveKeeps
  <2>2. CASE Handle(c)
    <3>1. CASE ClientGone(c)
      BY <3>1, ClientGoneMoves, MoveKeeps
    <3>2. CASE RequestTooLarge(c)
      BY <3>2, RequestTooLargeMoves, MoveKeeps
    <3>3. CASE RequestComplete(c)
      BY <3>3, RequestCompleteMoves, MoveKeeps
    <3>4. CASE HandleClientWritable(c)
      BY <3>4, ClientWritableMoves, MoveKeeps
    <3>5. CASE HandleBackendWritable(c)
      BY <3>5, BackendWritableMoves, MoveKeeps
    <3>6. CASE ResponseError(c)
      BY <3>6, ResponseErrorMoves, MoveKeeps
    <3>7. CASE ResponseEnds(c)
      BY <3>7, ResponseEndsMoves, MoveKeeps
    <3>8. CASE ResponseData(c)
      BY <3>8, ResponseDataMoves, MoveKeeps
    <3> QED
      BY <2>2, <3>1, <3>2, <3>3, <3>4, <3>5, <3>6, <3>7, <3>8
         DEF Handle, HandleBackendReadable
  <2>3. CASE InFailBackend(c)
    <3>1. CASE FailBackend(c)
      BY <3>1, FailBackendMoves, MoveKeeps
    <3>2. CASE RetryBackend(c)
      BY <3>2, RetryBackendMoves, MoveKeeps
    <3>3. CASE GiveUp(c)
      BY <3>3, GiveUpMoves, MoveKeeps
    <3> QED
      BY <2>3, <3>1, <3>2, <3>3 DEF InFailBackend
  <2>4. CASE HandleTimeout(c)
    BY <2>4, TimeoutMoves, MoveKeeps
  <2>5. CASE Reap(c)
    BY <2>5, ReapMoves, MoveKeeps
  <2> QED
    BY <1>1, <2>1, <2>2, <2>3, <2>4, <2>5
<1>2. CASE \E b \in Backends : HealthChange(b)
  BY <1>2, HealthChangeKeeps
<1>3. CASE UNCHANGED vars
  <2>1. UNCHANGED conn /\ UNCHANGED running /\ UNCHANGED healthy /\ UNCHANGED counts
    BY <1>3 DEF vars
  <2>2. Counted'
    BY <2>1 DEF IInv, Counted, Unreleased, Holds
  <2> QED
    BY <2>1, <2>2 DEF IInv, SessionInv, AttemptsOK, Attempted, Inside
<1> QED
  BY <1>1, <1>2, <1>3 DEF Next, Terminated

LEMMA Invariant == Spec => []IInv
BY InitIInv, NextKeeps, PTL DEF Spec

-----------------------------------------------------------------------------

(* Every session, the router's pool and its counts keep their types,       *)
(* through every path of connection.py's handlers.                         *)
THEOREM TypeCorrect == Spec => []TypeOK
<1>1. IInv => TypeOK
  BY InvImplies
<1> QED
  BY <1>1, Invariant, PTL

(* The attempts of a request go to as many different backends, at most     *)
(* 1 + MAX_BACKEND_RETRIES, and only one when it is not idempotent         *)
(* (_fail_backend, _can_retry), for any number of retries.                 *)
THEOREM DistinctAttempts == Spec => []AttemptsDistinct
<1>1. IInv => AttemptsDistinct
  BY InvImplies
<1> QED
  BY <1>1, Invariant, PTL

(* A response is read only from a backend whose own socket was sent the    *)
(* whole request (forward_offset, reset by a retry), for any length.       *)
THEOREM WholeRequests == Spec => []WholeRequestSent
<1>1. IInv => WholeRequestSent
  BY InvImplies
<1> QED
  BY <1>1, Invariant, PTL

(* What is relayed comes from one backend, and a chunked response whole    *)
(* (handle_backend_readable, _fail_backend's resets).                      *)
THEOREM OneResponse == Spec => []RelayIsOneResponse
<1>1. IInv => RelayIsOneResponse
  BY InvImplies
<1> QED
  BY <1>1, Invariant, PTL

(* Least-connections' count of a backend is the number of connections      *)
(* that took it and have not given it back (_disconnect_notified), for any *)
(* number of connections and backends, with a health-checker thread        *)
(* between any two calls of the router or without one.                     *)
THEOREM ExactCounts == Spec => []CountsExact
<1>1. IInv => CountsExact
  BY InvImplies
<1> QED
  BY <1>1, Invariant, PTL
=============================================================================
