------------------------------- MODULE Selector -------------------------------
(***************************************************************************)
(* reactor.py: which sockets the selector has registered, for what, while  *)
(* connections open, replace and close their backend sockets and the       *)
(* kernel gives out the same descriptor numbers again.                     *)
(*                                                                         *)
(* The selector (selectors.EpollSelector) keeps a key for each descriptor  *)
(* number; the kernel keeps a list of its own, from which a socket         *)
(* disappears when it is closed.  A handler, with what _dispatch does      *)
(* after it, goes in steps; busy says in which connection and how far.     *)
(* Handlers are reduced to what they do to the state and the sockets; an   *)
(* event that a handler ignores, or one that leaves the state as it is,    *)
(* changes nothing here.                                                   *)
(***************************************************************************)
EXTENDS Naturals, Functions

CONSTANTS
  Connections,
  MaxDescriptor,   \* the process may use 0..MaxDescriptor for these sockets
  MaxRetries       \* MAX_BACKEND_RETRIES

ASSUME SelectorAssumption == MaxDescriptor \in Nat /\ MaxRetries \in Nat

VARIABLES
  conn,    \* of each connection: state, backend_sock and
           \* pending_backend_unregister by the number of the attempt (0 for
           \* None), and the number of attempts
  fd,      \* the open sockets and their descriptors
  table,   \* the selector's keys: which socket, and which event, by descriptor
  epoll,   \* what the kernel watches: the event, by descriptor
  busy,    \* the dispatch under way: connection, state before it, next step
  loop,    \* has the reactor's loop ended, and how?
  lost     \* history: the closed sockets that no one will unregister

vars == <<conn, fd, table, epoll, busy, loop, lost>>

Descriptors == 0..MaxDescriptor
Attempts == 0..(1 + MaxRetries)
Sockets == Connections \X Attempts   \* <<c, 0>> is the client's socket
Masks == {"READ", "WRITE"}

States == {"NEW", "READING_REQUEST", "CONNECTING_TO_BACKEND",
           "FORWARDING_REQUEST", "READING_RESPONSE", "FORWARDING_RESPONSE",
           "DONE", "CLOSED"}

Idle == << >>

TypeOK ==
  /\ conn \in [Connections -> [state : States, backend : Attempts,
                               pending : Attempts, attempts : Attempts]]
  /\ DOMAIN fd \subseteq Sockets /\ Range(fd) \subseteq Descriptors
  /\ IsInjective(fd)
  /\ DOMAIN table \subseteq Descriptors
  /\ Range(table) \subseteq [sock : Sockets, mask : Masks]
  /\ DOMAIN epoll \subseteq DOMAIN table /\ Range(epoll) \subseteq Masks
  /\ busy \in {Idle} \cup (Connections \X States \X {"fail", "settle", "raise"})
  /\ loop \in {"running", "stopped", "crashed"}
  /\ lost \subseteq Sockets

Init ==
  /\ conn = [c \in Connections |->
               [state |-> "NEW", backend |-> 0, pending |-> 0, attempts |-> 0]]
  /\ fd = << >> /\ table = << >> /\ epoll = << >>
  /\ busy = Idle /\ loop = "running" /\ lost = {}

With(f, x, y) == [z \in DOMAIN f \cup {x} |-> IF z = x THEN y ELSE f[z]]

Without(f, S) == Restrict(f, DOMAIN f \ S)

Client(c) == <<c, 0>>

-----------------------------------------------------------------------------
(* Sockets.  The kernel gives out the lowest free number; the health       *)
(* checker's thread has at most one socket, and may have that one.         *)

Free(open) == Descriptors \ Range(open)

NewDescriptors(open) ==
  {d \in Free(open) : \A e, f \in Free(open) : e < d /\ f < d => e = f}

-----------------------------------------------------------------------------
(* The selector.  sel has its table, the kernel's list, and whether a call *)
(* has raised what its caller does not catch.                              *)

Present == [table |-> table, epoll |-> epoll, raised |-> FALSE]

Has(sel, s) == fd[s] \in DOMAIN sel.table

(* register; the KeyError for a number that has a key is caught. *)
Register(sel, s, mask) ==
  IF Has(sel, s) THEN sel
  ELSE [sel EXCEPT !.table = With(@, fd[s], [sock |-> s, mask |-> mask]),
                   !.epoll = With(@, fd[s], mask)]

(* modify; the KeyError for no key is caught, the OSError for a descriptor *)
(* that the kernel does not watch is not.  The key keeps its socket.       *)
Modify(sel, s, mask) ==
  LET d == fd[s]
  IN IF ~Has(sel, s) \/ sel.table[d].mask = mask THEN sel
     ELSE IF d \in DOMAIN sel.epoll
     THEN [sel EXCEPT !.table[d].mask = mask, !.epoll[d] = mask]
     ELSE [sel EXCEPT !.table = Without(@, {d}), !.raised = TRUE]

Ensure(sel, s, mask) ==
  IF Has(sel, s) THEN Modify(sel, s, mask) ELSE Register(sel, s, mask)

(* The keys that unregister finds: an open socket is looked up by its      *)
(* number, a closed one has none and is searched for.                      *)
KeysOf(keys, s) ==
  IF s \in DOMAIN fd THEN {fd[s]} ELSE {d \in DOMAIN keys : keys[d].sock = s}

(* unregister; errors are caught. *)
Unregister(sel, s) ==
  [sel EXCEPT !.table = Without(@, KeysOf(sel.table, s)),
              !.epoll = Without(@, KeysOf(sel.table, s))]

-----------------------------------------------------------------------------
(* The end of a dispatch. *)

(* Mutant: the new socket is registered by the change of state alone. *)
FlushOld(sel, c) ==
  LET x == conn[c]
  IN IF x.pending = 0 THEN sel ELSE Unregister(sel, <<c, x.pending>>)

(* _flush_pending_unregister *)
FlushPendingUnregister(sel, c) ==
  LET x == conn[c]
      u == Unregister(sel, <<c, x.pending>>)
  IN IF x.pending = 0 THEN sel
     ELSE IF x.backend # 0 /\ x.state \in {"CONNECTING_TO_BACKEND", "FORWARDING_REQUEST"}
     THEN Ensure(u, <<c, x.backend>>, "WRITE")
     ELSE u

(* _transition, once the pending socket is unregistered. *)
Transition(sel, c, prev) ==
  LET x == conn[c]
      sock == <<c, x.backend>>
  IN IF x.state = prev \/ sel.raised THEN sel
     ELSE
     CASE x.state = "CONNECTING_TO_BACKEND" -> Register(sel, sock, "WRITE")
       [] x.state = "FORWARDING_REQUEST" -> Ensure(sel, sock, "WRITE")
       [] x.state = "READING_RESPONSE" -> Modify(sel, sock, "READ")
       [] x.state = "FORWARDING_RESPONSE" ->
            LET m == Modify(sel, Client(c), "WRITE")
            IN IF m.raised THEN m ELSE Unregister(m, sock)
       [] OTHER -> sel

Within(c, step) == busy # Idle /\ busy[1] = c /\ busy[3] = step

(* _dispatch, after the handler has returned. *)
Settle(c) ==
  LET sel == Transition(FlushPendingUnregister(Present, c), c, busy[2])
  IN /\ Within(c, "settle")
     /\ table' = sel.table /\ epoll' = sel.epoll
     /\ conn' = [conn EXCEPT ![c].pending = 0,
                             ![c].state = IF sel.raised THEN "DONE" ELSE @]
     /\ busy' = Idle
     /\ UNCHANGED <<fd, loop, lost>>

-----------------------------------------------------------------------------
(* Handlers. *)

(* An event of socket s, of which the reactor calls c's handler. *)
Ready(c, s, mask, state) ==
  /\ loop = "running" /\ busy = Idle
  /\ conn[c].state = state
  /\ \E d \in DOMAIN epoll : table[d] = [sock |-> s, mask |-> mask]

(* The socket in pending_backend_unregister, if any. *)
Pending(c) == {<<c, conn[c].pending>>} \ {Client(c)}

Then(c, step) == busy' = <<c, conn[c].state, step>>

Goto(c, state) ==
  /\ conn' = [conn EXCEPT ![c].state = state]
  /\ Then(c, "settle")
  /\ UNCHANGED <<fd, table, epoll, loop, lost>>

(* _initiate_backend_connect, with the sockets that are open then: the new *)
(* one connects at once, or later, or is refused at once; or an exception  *)
(* comes out of connect_ex, or for want of a descriptor.                   *)
InitiateBackendConnect(c, x, open, prev) ==
  LET Outcome(state, backend, step) ==
        /\ conn' = [conn EXCEPT ![c] =
                      [x EXCEPT !.state = state, !.backend = backend, !.attempts = @ + 1]]
        /\ busy' = <<c, prev, step>>
  IN \/ \E d \in NewDescriptors(open) :
          /\ fd' = With(open, <<c, x.attempts + 1>>, d)
          /\ \/ Outcome("FORWARDING_REQUEST", x.attempts + 1, "settle")
             \/ \E step \in {"settle", "fail", "raise"} :
                  Outcome("CONNECTING_TO_BACKEND", x.attempts + 1, step)
     \/ /\ \A d, e \in Free(open) : d = e   \* the probe may have the last one
        /\ fd' = open
        /\ Outcome("CONNECTING_TO_BACKEND", 0, "raise")

(* handle_client_readable: the client closes, is refused or gets no        *)
(* backend ...                                                             *)
RequestFails(c) ==
  /\ Ready(c, Client(c), "READ", "READING_REQUEST")
  /\ Goto(c, "DONE")

(* ... or the request is complete. *)
RequestComplete(c) ==
  /\ Ready(c, Client(c), "READ", "READING_REQUEST")
  /\ InitiateBackendConnect(c, conn[c], fd, "READING_REQUEST")
  /\ UNCHANGED <<table, epoll, loop, lost>>

(* handle_client_writable: all is sent, or the client is gone. *)
HandleClientWritable(c) ==
  /\ Ready(c, Client(c), "WRITE", "FORWARDING_RESPONSE")
  /\ Goto(c, "DONE")

BackendReady(c, mask, state) == Ready(c, <<c, conn[c].backend>>, mask, state)

(* handle_backend_writable and handle_backend_readable, when all is well. *)
BackendProgress(c) ==
  \/ /\ BackendReady(c, "WRITE", "CONNECTING_TO_BACKEND")
     /\ Goto(c, "FORWARDING_REQUEST") \/ Goto(c, "READING_RESPONSE")
  \/ BackendReady(c, "WRITE", "FORWARDING_REQUEST") /\ Goto(c, "READING_RESPONSE")
  \/ BackendReady(c, "READ", "READING_RESPONSE") /\ Goto(c, "FORWARDING_RESPONSE")

(* The same when the connect, the send or the receive has failed, or the   *)
(* response is truncated.                                                  *)
BackendFails(c) ==
  /\ \/ BackendReady(c, "WRITE", "CONNECTING_TO_BACKEND")
     \/ BackendReady(c, "WRITE", "FORWARDING_REQUEST")
     \/ BackendReady(c, "READ", "READING_RESPONSE")
  /\ Then(c, "fail")
  /\ UNCHANGED <<conn, fd, table, epoll, loop, lost>>

(* Mutants: one attempt too many; the failed socket is left open.          *)
CanRetryOnceMore(x) == x.attempts <= MaxRetries + 1

OpenOnDrop(c) == fd

(* _can_retry, as far as attempts go. *)
CanRetry(x) == x.attempts <= MaxRetries

OpenAfterClose(c) == Without(fd, {<<c, conn[c].backend>>})

(* _fail_backend: the socket is closed and left to the reactor in the one  *)
(* slot there is; then a retry, or the error page.                         *)
FailBackend(c) ==
  LET x == [conn[c] EXCEPT !.pending = conn[c].backend, !.backend = 0]
  IN /\ Within(c, "fail")
     /\ epoll' = Without(epoll, {fd[<<c, conn[c].backend>>]})
     /\ lost' = lost \cup Pending(c)
     /\ \/ /\ CanRetry(x)
           /\ InitiateBackendConnect(c, x, OpenAfterClose(c), busy[2])
        \/ /\ conn' = [conn EXCEPT ![c] = [x EXCEPT !.state = "DONE"]]
           /\ busy' = <<c, busy[2], "settle">>
           /\ fd' = OpenAfterClose(c)
     /\ UNCHANGED <<table, loop>>

(* The except clause of _loop: the dispatch ends here. *)
Raise(c) ==
  /\ Within(c, "raise")
  /\ conn' = [conn EXCEPT ![c].state = "DONE"]
  /\ lost' = lost \cup Pending(c)
  /\ busy' = Idle
  /\ UNCHANGED <<fd, table, epoll, loop>>

-----------------------------------------------------------------------------
(* The rest of the loop. *)

(* _shutdown: every connection is cleaned up and the selector is closed. *)
Shutdown(how) ==
  /\ loop' = how
  /\ fd' = << >> /\ epoll' = << >> /\ table' = << >>
  /\ UNCHANGED <<conn, busy, lost>>

(* _accept, for one client; if it cannot be registered, the exception      *)
(* leaves _loop.                                                           *)
Accept(c) ==
  /\ loop = "running" /\ busy = Idle /\ conn[c].state = "NEW"
  /\ \E d \in NewDescriptors(fd) :
       IF d \in DOMAIN table THEN Shutdown("crashed")
       ELSE /\ conn' = [conn EXCEPT ![c].state = "READING_REQUEST"]
            /\ fd' = With(fd, Client(c), d)
            /\ table' = With(table, d, [sock |-> Client(c), mask |-> "READ"])
            /\ epoll' = With(epoll, d, "READ")
            /\ UNCHANGED <<busy, loop, lost>>

(* _expire_timeouts and handle_timeout *)
Expire(c) ==
  /\ loop = "running" /\ busy = Idle
  /\ conn[c].state \notin {"NEW", "DONE", "CLOSED"}
  /\ conn' = [conn EXCEPT ![c].state = "DONE"]
  /\ UNCHANGED <<fd, table, epoll, busy, loop, lost>>

(* The sockets that a connection has when it is reaped, and the numbers    *)
(* that are unregistered.  Mutant: the client's alone.                     *)
Named(c) == {Client(c), <<c, conn[c].backend>>} \cap DOMAIN fd

ReapedClient(c) == {fd[Client(c)]}

Reaped(c) == {fd[s] : s \in Named(c)}

(* _reap and cleanup *)
Reap(c) ==
  /\ loop = "running" /\ busy = Idle /\ conn[c].state = "DONE"
  /\ table' = Without(table, Reaped(c))
  /\ epoll' = Without(epoll, {fd[s] : s \in Named(c)})
  /\ fd' = Without(fd, Named(c))
  /\ conn' = [conn EXCEPT ![c].state = "CLOSED"]
  /\ UNCHANGED <<busy, loop, lost>>

(* A signal's stop() is seen at the end of a round. *)
Stop == loop = "running" /\ busy = Idle /\ Shutdown("stopped")

Handle(c) ==
  \/ RequestFails(c) \/ RequestComplete(c) \/ HandleClientWritable(c)
  \/ BackendProgress(c) \/ BackendFails(c)

Next ==
  \/ \E c \in Connections :
       \/ Handle(c) \/ FailBackend(c) \/ Raise(c) \/ Settle(c)
       \/ Accept(c) \/ Expire(c) \/ Reap(c)
  \/ Stop

Spec == Init /\ [][Next]_vars

-----------------------------------------------------------------------------
(* Between dispatches, every connection that waits for a socket is watched *)
(* by the kernel for the event that it waits for, under a key of that very *)
(* socket, or it hangs until its timeout; unless the number of its socket  *)
(* still has the key of one that was closed and lost (_transition,         *)
(* _flush_pending_unregister).                                             *)
Waits ==
  [READING_REQUEST |-> "READ", CONNECTING_TO_BACKEND |-> "WRITE",
   FORWARDING_REQUEST |-> "WRITE", READING_RESPONSE |-> "READ",
   FORWARDING_RESPONSE |-> "WRITE"]

Awaited(c) ==
  IF conn[c].state \in {"READING_REQUEST", "FORWARDING_RESPONSE"}
  THEN Client(c) ELSE <<c, conn[c].backend>>

WaitingIsWatched ==
  loop = "running" /\ busy = Idle =>
    \A c \in Connections :
      conn[c].state \in DOMAIN Waits =>
        LET s == Awaited(c)
            mask == Waits[conn[c].state]
        IN /\ s \in DOMAIN fd /\ fd[s] \in DOMAIN table
           /\ \/ table[fd[s]] = [sock |-> s, mask |-> mask] /\ epoll[fd[s]] = mask
              \/ table[fd[s]].sock \in lost

(* Between dispatches the selector has keys of open sockets only, but for  *)
(* closed ones that were lost: overwritten in pending_backend_unregister   *)
(* when a retry's connect failed at once, or left there by an exception.   *)
StaleOnlyIfLost ==
  busy = Idle => \A d \in DOMAIN table : table[d].sock \in DOMAIN fd \cup lost

(* Only a client that gets the number of such a lost socket can bring the  *)
(* reactor down (register in _accept, outside the try of _loop).           *)
CrashOnlyIfLost ==
  [][loop' = "crashed" => \E d \in DOMAIN table : table[d].sock \in lost]_loop

(* No descriptor leaks: whatever failed, was retried, raised or timed out, *)
(* an open socket is one that its connection, not yet reaped, still names. *)
NoDescriptorLeak ==
  \A c \in Connections, k \in Attempts :
    <<c, k>> \in DOMAIN fd => conn[c].state # "CLOSED" /\ k \in {0, conn[c].backend}
=============================================================================
