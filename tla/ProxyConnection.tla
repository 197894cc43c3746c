---------------------------- MODULE ProxyConnection ----------------------------
(***************************************************************************)
(* connection.py: the life of each proxied HTTP request, composed with the *)
(* router that all connections and the health checker's thread share.      *)
(*                                                                         *)
(* The reactor runs one handler at a time.  A handler is one action, but   *)
(* the health checker may take the router's lock between two router calls  *)
(* of the same handler, so _fail_backend, which calls on_disconnect and    *)
(* then next_backend, and whose new connect may fail at once, goes in      *)
(* steps: running says which connection is inside it and how far.          *)
(*                                                                         *)
(* Bytes are counted in units: a request is ReqLen of them; a response is  *)
(* HeaderLen, then its body.  A read or write that only finds that it      *)
(* would block, or an incomplete request, changes nothing here.  Deadlines *)
(* are abstracted: a connection that is not done may time out any time.    *)
(***************************************************************************)
EXTENDS Naturals, FiniteSets

CONSTANTS
  Connections,    \* the client connections, each accepted once
  Backends,
  NoBackend,      \* Python's None
  Algorithm,      \* "round_robin" or "least_connections"
  HealthChecks,   \* does a health-checker thread run?
  MaxRetries,     \* MAX_BACKEND_RETRIES
  ReqLen,         \* units of a request (forward_buf)
  HeaderLen,      \* units of the header section of a response
  Shapes          \* the responses backends send: how framed, and body units

ASSUME ParameterAssumption ==
  /\ NoBackend \notin Backends
  /\ Algorithm \in {"round_robin", "least_connections"}
  /\ HealthChecks \in BOOLEAN
  /\ MaxRetries \in Nat
  /\ ReqLen \in Nat \ {0}
  /\ HeaderLen \in Nat \ {0}
  /\ Shapes \subseteq [framing : {"length", "chunked", "close"}, size : Nat]

VARIABLES
  conn,      \* the ProxyConnection of each client
  running,   \* the connection inside _fail_backend, and how far it is
  healthy,   \* the router's healthy pool
  counts     \* the router's active connections, by backend

router == <<healthy, counts>>
vars == <<conn, running, healthy, counts>>

-----------------------------------------------------------------------------
(* The router that create_router returns, by what its algorithm promises.  *)

LC == INSTANCE LeastLoaded WITH last <- NoBackend
RR == INSTANCE BackendPool WITH last <- NoBackend

NextBackend(exclude, ret) ==
  \/ Algorithm = "least_connections" /\ LC!NextBackend(exclude, ret)
  \/ Algorithm = "round_robin" /\ RR!NextBackend(exclude, ret) /\ UNCHANGED counts

OnDisconnect(b) ==
  \/ Algorithm = "least_connections" /\ LC!OnDisconnect(b)
  \/ Algorithm = "round_robin" /\ RR!OnDisconnect(b) /\ UNCHANGED counts

-----------------------------------------------------------------------------
(* A connection. *)

States == {"NEW", "READING_REQUEST", "CONNECTING_TO_BACKEND",
           "FORWARDING_REQUEST", "READING_RESPONSE", "FORWARDING_RESPONSE",
           "DONE", "CLOSED"}

Pages == {408, 413, 502, 503, 504}

Idle == << >>

(* The framing of a response whose headers have not been read. *)
Unknown == [framing |-> "unknown", size |-> 0]

Sessions ==
  [state : States,
   request : {"none", "idempotent", "other"},  \* parsed_request, by its method
   backend : Backends \cup {NoBackend},        \* backend_addr
   attempts : Nat,                             \* _backend_attempts
   tried : SUBSET Backends,                    \* _tried_backends
   notified : BOOLEAN,                         \* _disconnect_notified
   sent : BOOLEAN,                             \* _client_bytes_sent
   fwd : Nat,                                  \* forward_offset
   rcvd : Nat,            \* what the peer of backend_sock has been sent
   got : Nat,             \* length of response_buf
   src : SUBSET Backends, \* whose bytes response_buf holds
   frame : Shapes \cup {Unknown},   \* _response_headers_done and the framing
   relay : Nat,                     \* length of relay_buf
   relayed : Nat,                   \* relay_offset
   page : Pages \cup {0}]           \* the error page the client was sent, or 0

TypeOK ==
  /\ conn \in [Connections -> Sessions]
  /\ running \in {Idle} \cup (Connections \X {"failed", "retry"})
  /\ healthy \subseteq Backends
  /\ counts \in [Backends -> Nat]

NewSession ==
  [state |-> "NEW", request |-> "none", backend |-> NoBackend, attempts |-> 0,
   tried |-> {}, notified |-> FALSE, sent |-> FALSE, fwd |-> 0, rcvd |-> 0,
   got |-> 0, src |-> {}, frame |-> Unknown, relay |-> 0, relayed |-> 0,
   page |-> 0]

Init ==
  /\ conn = [c \in Connections |-> NewSession]
  /\ running = Idle
  /\ healthy = Backends
  /\ counts = [b \in Backends |-> 0]

(* The reactor calls a handler of c when c is in one of these states. *)
Dispatched(c, states) == running = Idle /\ conn[c].state \in states

Become(c, s) == conn' = [conn EXCEPT ![c] = s]

-----------------------------------------------------------------------------
(* Parts that the handlers share.  Each takes the session s that the       *)
(* handler has made of c so far.                                           *)

Holds(s) == s.backend # NoBackend /\ ~s.notified

(* on_disconnect, for a backend that has not been given back yet. *)
GiveBack(s) ==
  IF Holds(s) THEN OnDisconnect(s.backend) ELSE UNCHANGED router

(* _finish, and the tear-down of handle_timeout. *)
Finish(c, s) ==
  /\ GiveBack(s)
  /\ Become(c, [s EXCEPT !.state = "DONE",
                         !.notified = @ \/ s.backend # NoBackend])

(* _send_error.  The client may not take the page, or not all of it. *)
SendError(c, s, code) ==
  \E taken \in BOOLEAN :
    Finish(c, IF taken THEN [s EXCEPT !.page = code, !.sent = TRUE] ELSE s)

(* _initiate_backend_connect, and the new socket's way into the selector:  *)
(* the socket connects at once, or will later, or is refused at once; or   *)
(* the call raises (no file descriptor is left, the host does not          *)
(* resolve), or the selector does (modify finds a stale key of the new     *)
(* socket's number, reactor.py:219-309, see Selector), and the reactor     *)
(* marks the connection done.  A socket that had an event has its key, and *)
(* modify does not raise for it.                                           *)
InitiateBackendConnect(c, s) ==
  LET fresh(state) == [s EXCEPT !.state = state, !.rcvd = 0]
  IN \/ /\ \E state \in {"FORWARDING_REQUEST", "CONNECTING_TO_BACKEND", "DONE"} :
             Become(c, fresh(state))
        /\ running' = Idle
     \/ /\ Become(c, fresh("CONNECTING_TO_BACKEND"))
        /\ running' = <<c, "failed">>

(* Mutant: the headers are left out. *)
PrepareRelayOfBody(s) ==
  [s EXCEPT !.state = "FORWARDING_RESPONSE", !.relay = s.got - HeaderLen,
            !.relayed = 0]

(* _prepare_relay *)
PrepareRelay(s) ==
  [s EXCEPT !.state = "FORWARDING_RESPONSE", !.relay = s.got, !.relayed = 0]

(* _fail_backend is entered with session s. *)
EnterFailBackend(c, s) ==
  /\ Become(c, s)
  /\ running' = <<c, "failed">>
  /\ UNCHANGED router

-----------------------------------------------------------------------------
(* The client's side. *)

(* Reactor._accept *)
Accept(c) ==
  /\ Dispatched(c, {"NEW"})
  /\ Become(c, [conn[c] EXCEPT !.state = "READING_REQUEST"])
  /\ UNCHANGED <<running, router>>

(* handle_client_readable: the client closes or resets. *)
ClientGone(c) ==
  /\ Dispatched(c, {"READING_REQUEST"})
  /\ Become(c, [conn[c] EXCEPT !.state = "DONE"])
  /\ UNCHANGED <<running, router>>

(* handle_client_readable: more than MAX_REQUEST_SIZE has come. *)
RequestTooLarge(c) ==
  /\ Dispatched(c, {"READING_REQUEST"})
  /\ SendError(c, conn[c], 413)
  /\ UNCHANGED running

(* handle_client_readable: the request is complete. *)
RequestComplete(c) ==
  /\ Dispatched(c, {"READING_REQUEST"})
  /\ \E request \in {"idempotent", "other"} :
       LET s == [conn[c] EXCEPT !.request = request, !.fwd = 0]
       IN \/ \E b \in Backends :
               /\ NextBackend({}, b)
               /\ InitiateBackendConnect(c,
                    [s EXCEPT !.backend = b, !.attempts = 1, !.notified = FALSE])
          \/ /\ NextBackend({}, NoBackend)
             /\ SendError(c, s, 503)
             /\ UNCHANGED running

(* handle_client_writable *)
HandleClientWritable(c) ==
  LET s == conn[c]
  IN /\ Dispatched(c, {"FORWARDING_RESPONSE"})
     /\ \/ /\ Become(c, [s EXCEPT !.state = "DONE"])   \* send fails
           /\ UNCHANGED router
        \/ \E n \in 0..(s.relay - s.relayed) :
             LET t == [s EXCEPT !.relayed = @ + n, !.sent = @ \/ n > 0]
             IN IF t.relayed >= t.relay
                THEN Finish(c, t)
                ELSE Become(c, t) /\ UNCHANGED router
     /\ UNCHANGED running

-----------------------------------------------------------------------------
(* The backend's side. *)

(* The send of handle_backend_writable, once the socket is connected. *)
SendRequest(c, s) ==
  \/ EnterFailBackend(c, s)
  \/ \E n \in 0..(ReqLen - s.fwd) :
       /\ Become(c, [s EXCEPT !.fwd = @ + n, !.rcvd = @ + n,
                       !.state = IF s.fwd + n >= ReqLen THEN "READING_RESPONSE"
                                 ELSE "FORWARDING_REQUEST"])
       /\ UNCHANGED <<running, router>>

(* handle_backend_writable *)
HandleBackendWritable(c) ==
  \/ /\ Dispatched(c, {"CONNECTING_TO_BACKEND"})
     /\ \/ EnterFailBackend(c, conn[c])               \* SO_ERROR
        \/ SendRequest(c, [conn[c] EXCEPT !.state = "FORWARDING_REQUEST"])
  \/ /\ Dispatched(c, {"FORWARDING_REQUEST"})
     /\ SendRequest(c, conn[c])

Total(shape) == HeaderLen + shape.size

HeadersDone(s) == s.frame # Unknown

(* The buffer holds the whole message that its headers announce. *)
Complete(s) ==
  /\ s.frame.framing \in {"length", "chunked"}
  /\ s.got >= Total(s.frame)

(* handle_backend_readable: recv fails. *)
ResponseError(c) ==
  /\ Dispatched(c, {"READING_RESPONSE"})
  /\ EnterFailBackend(c, conn[c])

(* handle_backend_readable: the backend has closed. *)
ResponseEnds(c) ==
  LET s == conn[c]
  IN /\ Dispatched(c, {"READING_RESPONSE"})
     /\ IF s.frame.framing = "chunked" /\ ~Complete(s)
        THEN EnterFailBackend(c, s)
        ELSE Become(c, PrepareRelay(s)) /\ UNCHANGED <<running, router>>

(* What follows a complete chunked message is cut off, unless a blank line *)
(* in it is taken for the end of the trailers; more than Content-Length    *)
(* announces is kept.                                                      *)
Framed(s) ==
  IF s.frame.framing = "chunked" THEN {s, [s EXCEPT !.got = Total(s.frame)]} ELSE {s}

(* handle_backend_readable: data.  The backend sends its whole response,   *)
(* perhaps a unit too many, in as many pieces as it likes.                 *)
ResponseData(c) ==
  /\ Dispatched(c, {"READING_RESPONSE"})
  /\ \E shape \in IF HeadersDone(conn[c]) THEN {conn[c].frame} ELSE Shapes :
     \E got \in (conn[c].got + 1)..(Total(shape) + 1) :
       LET s == [conn[c] EXCEPT !.got = got,
                   !.src = @ \cup {conn[c].backend},
                   !.frame = IF got >= HeaderLen THEN shape ELSE @]
       IN IF Complete(s)
          THEN \E t \in Framed(s) : Become(c, PrepareRelay(t))
          ELSE Become(c, s)
  /\ UNCHANGED <<running, router>>

HandleBackendReadable(c) == ResponseError(c) \/ ResponseEnds(c) \/ ResponseData(c)

-----------------------------------------------------------------------------
(* Backend failure. *)

(* Mutant: the failed backend is not remembered. *)
FailBackendForgotten(c) ==
  /\ running = <<c, "failed">>
  /\ GiveBack(conn[c])
  /\ Become(c, [conn[c] EXCEPT !.notified = TRUE])
  /\ running' = <<c, "retry">>

(* _fail_backend, up to on_disconnect and the closing of the socket. *)
FailBackend(c) ==
  LET s == conn[c]
  IN /\ running = <<c, "failed">>
     /\ GiveBack(s)
     /\ Become(c, [s EXCEPT !.notified = TRUE, !.tried = @ \cup {s.backend}])
     /\ running' = <<c, "retry">>

(* Mutants: the first attempt counts as a retry; any method is retried.    *)
CanRetryOnceLess(s) ==
  /\ ~s.sent
  /\ s.request = "idempotent"
  /\ s.attempts < MaxRetries

CanRetryAnyMethod(s) == ~s.sent /\ s.attempts <= MaxRetries

(* _can_retry *)
CanRetry(s) ==
  /\ ~s.sent
  /\ s.request = "idempotent"
  /\ s.attempts <= MaxRetries

(* Mutants: the request is not sent from its start; the response of the    *)
(* failed backend is kept; the new backend is never given back.            *)
RetriedMidRequest(s, b) ==
  [s EXCEPT !.backend = b, !.attempts = @ + 1, !.notified = FALSE,
            !.got = 0, !.src = {}, !.frame = Unknown]

RetriedKeepingResponse(s, b) ==
  [s EXCEPT !.backend = b, !.attempts = @ + 1, !.notified = FALSE, !.fwd = 0]

RetriedAsNotified(s, b) ==
  [s EXCEPT !.backend = b, !.attempts = @ + 1,
            !.fwd = 0, !.got = 0, !.src = {}, !.frame = Unknown]

(* The session that a retry starts with: forward_offset and the response   *)
(* are reset.                                                              *)
Retried(s, b) ==
  [s EXCEPT !.backend = b, !.attempts = @ + 1, !.notified = FALSE,
            !.fwd = 0, !.got = 0, !.src = {}, !.frame = Unknown]

(* _fail_backend, the rest: another backend ... *)
RetryBackend(c) ==
  LET s == conn[c]
  IN /\ running = <<c, "retry">>
     /\ CanRetry(s)
     /\ \E b \in Backends :
          /\ NextBackend(s.tried, b)
          /\ InitiateBackendConnect(c, Retried(s, b))

(* ... or the error page. *)
GiveUp(c) ==
  /\ running = <<c, "retry">>
  /\ IF CanRetry(conn[c])
     THEN NextBackend(conn[c].tried, NoBackend) ELSE UNCHANGED router
  /\ \E taken \in BOOLEAN :
       Become(c, [conn[c] EXCEPT !.state = "DONE",
                    !.page = IF taken THEN 502 ELSE @, !.sent = @ \/ taken])
  /\ running' = Idle

-----------------------------------------------------------------------------
(* Deadlines, reaping, health. *)

(* Mutants: an error page in the middle of a relay; no deadline for it.    *)
HandleTimeoutMidRelay(c) ==
  /\ Dispatched(c, States \ {"NEW", "DONE", "CLOSED"})
  /\ IF conn[c].state = "READING_REQUEST" THEN SendError(c, conn[c], 408)
     ELSE SendError(c, conn[c], 504)
  /\ UNCHANGED running

HandleTimeoutNotOfRelay(c) ==
  /\ Dispatched(c, States \ {"NEW", "FORWARDING_RESPONSE", "DONE", "CLOSED"})
  /\ IF conn[c].state = "READING_REQUEST" THEN SendError(c, conn[c], 408)
     ELSE SendError(c, conn[c], 504)
  /\ UNCHANGED running

(* handle_timeout *)
HandleTimeout(c) ==
  LET s == conn[c]
  IN /\ Dispatched(c, States \ {"NEW", "DONE", "CLOSED"})
     /\ IF s.state = "READING_REQUEST" THEN SendError(c, s, 408)
        ELSE IF s.sent THEN Finish(c, s)
        ELSE SendError(c, s, 504)
     /\ UNCHANGED running

(* Reactor._reap and cleanup *)
Reap(c) ==
  /\ Dispatched(c, {"DONE"})
  /\ Become(c, [conn[c] EXCEPT !.state = "CLOSED"])
  /\ UNCHANGED <<running, router>>

(* The health checker's thread, at any moment. *)
HealthChange(b) ==
  /\ HealthChecks
  /\ LC!MarkUnhealthy(b) \/ LC!MarkHealthy(b)
  /\ UNCHANGED <<conn, running>>

Handle(c) ==
  \/ ClientGone(c) \/ RequestTooLarge(c) \/ RequestComplete(c)
  \/ HandleClientWritable(c)
  \/ HandleBackendWritable(c) \/ HandleBackendReadable(c)

InFailBackend(c) == FailBackend(c) \/ RetryBackend(c) \/ GiveUp(c)

Terminated ==
  /\ \A c \in Connections : conn[c].state = "CLOSED"
  /\ UNCHANGED vars

Next ==
  \/ \E c \in Connections :
        Accept(c) \/ Handle(c) \/ InFailBackend(c) \/ HandleTimeout(c) \/ Reap(c)
  \/ \E b \in Backends : HealthChange(b)
  \/ Terminated

(* The reactor runs on: a handler that began ends, deadlines pass (see     *)
(* Deadlines), and every round of the loop reaps.                          *)
Fairness ==
  \A c \in Connections :
    /\ WF_vars(InFailBackend(c))
    /\ WF_vars(HandleTimeout(c))
    /\ WF_vars(Reap(c))

Spec == Init /\ [][Next]_vars

FairSpec == Spec /\ Fairness

-----------------------------------------------------------------------------
(* The router's bookkeeping. *)

Unreleased(b) ==
  {c \in Connections : conn[c].backend = b /\ Holds(conn[c])}

(* Least-connections' count of a backend is the number of connections that *)
(* were given it and have not given it back: no path through failure,      *)
(* retry, timeout and completion calls on_disconnect twice for one         *)
(* next_backend, or for a backend that a retry has replaced                *)
(* (_disconnect_notified).                                                 *)
CountsExact ==
  Algorithm = "least_connections" =>
    \A b \in Backends : counts[b] = Cardinality(Unreleased(b))

(* Least-connections counts only connections that are still active: the    *)
(* end of a connection gives its backend back (router.py:79, "Select the   *)
(* backend with the fewest active connections"; router.py:84, "canonical   *)
(* count per backend"; connection.py:473, "Notify router of disconnect").  *)
CountsOnlyActive ==
  Algorithm = "least_connections" =>
    \A b \in Backends :
      counts[b] <= Cardinality({c \in Connections :
                                  conn[c].backend = b /\ conn[c].state # "CLOSED"})

-----------------------------------------------------------------------------
(* Retries. *)

(* The attempts of a request go to as many different backends, at most     *)
(* 1 + MAX_BACKEND_RETRIES, and only one if it is not idempotent, however  *)
(* the pool changes between them (_fail_backend, _can_retry).              *)
AttemptsDistinct ==
  \A c \in Connections :
    LET s == conn[c]
    IN /\ s.attempts = Cardinality((s.tried \cup {s.backend}) \ {NoBackend})
       /\ s.attempts <= 1 + MaxRetries
       /\ s.request = "other" => s.attempts <= 1

(* No attempt is left, or no backend that is healthy now.                  *)
Exhausted(s) == s.attempts = 1 + MaxRetries \/ healthy \subseteq s.tried

(* An idempotent request ends without a byte of a response only when all   *)
(* attempts or all healthy backends were used up (_can_retry,              *)
(* _fail_backend), or else in a way that the code does not retry: its      *)
(* deadline passes, be it on the first attempt (handle_timeout); a backend *)
(* closed before it sent a byte, and the empty buffer is relayed           *)
(* (connection.py:286-299), or the client is gone when the relay begins;   *)
(* or an exception ends the dispatch, and the backend is not given back.   *)
UnansweredHasReason ==
  [][\A c \in Connections :
       LET s == conn[c]
           t == conn'[c]
       IN /\ s.state \notin {"DONE", "CLOSED"} /\ t.state = "DONE"
          /\ t.request = "idempotent" /\ t.relayed = 0
          => \/ Exhausted(s)
             \/ HandleTimeout(c)
             \/ /\ s.state = "FORWARDING_RESPONSE"
                /\ s.relay = 0 \/ t = [s EXCEPT !.state = "DONE"]
             \/ t.page = 0 /\ Holds(t)]_vars

-----------------------------------------------------------------------------
(* The data. *)

(* A response is read and relayed only from a backend that has been sent   *)
(* the whole request on its own socket, whatever its predecessors were     *)
(* sent before they failed (forward_offset).                               *)
WholeRequestSent ==
  \A c \in Connections :
    conn[c].state \in {"READING_RESPONSE", "FORWARDING_RESPONSE"}
      => conn[c].rcvd = ReqLen

(* What is relayed came from the backend of the last attempt alone,        *)
(* whatever was buffered from those that failed, and a chunked response is *)
(* relayed whole (_fail_backend's resets, handle_backend_readable).        *)
RelayIsOneResponse ==
  \A c \in Connections :
    LET s == conn[c]
    IN s.state = "FORWARDING_RESPONSE" =>
         /\ s.src \subseteq {s.backend}
         /\ s.frame.framing = "chunked" => s.relay >= Total(s.frame)

(* A response that announces its length is relayed only whole: a backend  *)
(* that closes has ended a close-delimited body, or else has failed        *)
(* (connection.py:287, "Backend closed": "close-delimited body, or         *)
(* truncated chunked"; connection.py:389).                                 *)
RelayIsComplete ==
  \A c \in Connections :
    LET s == conn[c]
    IN s.state = "FORWARDING_RESPONSE" /\ s.frame.framing \in {"length", "chunked"}
         => Complete(s)

-----------------------------------------------------------------------------
(* What the client sees. *)

Phase(s) ==
  CASE s.state = "NEW" -> "new"
    [] s.state = "DONE" -> "over"
    [] s.state = "CLOSED" -> "closed"
    [] OTHER -> "open"

Answer(s) ==
  IF s.page # 0 THEN s.page ELSE IF s.relayed > 0 THEN s.backend ELSE 0

Client == INSTANCE Exchange WITH
  NoAnswer <- 0,
  phase <- [c \in Connections |-> Phase(conn[c])],
  answer <- [c \in Connections |-> Answer(conn[c])]

(* A client gets one error page or the response of one backend, never one  *)
(* after the other or bytes of two: not by a retry after bytes were sent,  *)
(* nor by a timeout in the middle of a relay (_client_bytes_sent).         *)
ImplementsExchange == Client!Spec

(* Every client that is accepted is closed in the end, if no peer keeps    *)
(* its deadline moving for ever.                                           *)
EveryConnectionEnds ==
  \A c \in Connections :
    conn[c].state = "READING_REQUEST" ~> conn[c].state = "CLOSED"
=============================================================================
