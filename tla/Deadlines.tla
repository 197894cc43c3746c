------------------------------- MODULE Deadlines -------------------------------
(***************************************************************************)
(* reactor.py's deadline scheduling: the heap of (deadline, generation,    *)
(* id of the connection) with lazy deletion, the selector timeout taken    *)
(* from its top, and the expiry of what is due, in the rounds of _loop.    *)
(*                                                                         *)
(* The heap is the set of its entries; equal entries are popped together,  *)
(* so their number does not matter.  Time is counted in fractions of the   *)
(* second that a select may take, and passes only while the reactor        *)
(* selects: handlers take none.                                            *)
(* Which events a handler answers to is in ProxyConnection; here a handler *)
(* refreshes the deadline, moves to another state, or does neither.        *)
(***************************************************************************)
EXTENDS Integers

CONSTANTS
  Conns,      \* the connections, each accepted once
  NoConn,     \* Python's None
  Ids,        \* what id() can return: addresses
  NoId,
  Timeout,    \* _timeout_for_state, by state
  SelectCap,  \* _select_timeout waits no longer: one second
  MaxGen,     \* bound of the model: refreshes of a connection
  MaxTime     \* bound of the model: the clock

Active == {"READING_REQUEST", "CONNECTING_TO_BACKEND", "FORWARDING_REQUEST",
           "READING_RESPONSE", "FORWARDING_RESPONSE"}

ASSUME DeadlineAssumption ==
  /\ NoConn \notin Conns
  /\ Ids \subseteq Int
  /\ NoId \notin Ids
  /\ Timeout \in [Active -> Nat \ {0}]
  /\ SelectCap \in Nat
  /\ MaxGen \in Nat
  /\ MaxTime \in Nat

VARIABLES
  now,         \* time.monotonic()
  pc,          \* where _loop is: "select", "dispatch", "expire" or "reap"
  state,       \* of each connection
  addr,        \* id(conn), of each connection that was accepted
  deadline,    \* conn.deadline
  gen,         \* conn.deadline_gen
  connById,    \* _conn_by_id
  heap,        \* _deadlines
  fresh,       \* the connections accepted since the last select
  pinned       \* the local variable conn of _loop, which keeps its object

conns == <<state, addr, deadline, gen>>
vars == <<now, pc, state, addr, deadline, gen, connById, heap, fresh, pinned>>

Entry == [deadline : Int, gen : Int, id : Ids]

TypeOK ==
  /\ now \in Nat
  /\ pc \in {"select", "dispatch", "expire", "reap"}
  /\ state \in [Conns -> Active \cup {"NEW", "DONE", "CLOSED"}]
  /\ addr \in [Conns -> Ids \cup {NoId}]
  /\ deadline \in [Conns -> Nat]
  /\ gen \in [Conns -> Nat]
  /\ connById \in [Ids -> Conns \cup {NoConn}]
  /\ heap \subseteq Entry
  /\ fresh \subseteq Conns
  /\ pinned \in Conns \cup {NoConn}

Init ==
  /\ now = 0
  /\ pc = "select"
  /\ state = [c \in Conns |-> "NEW"]
  /\ addr = [c \in Conns |-> NoId]
  /\ deadline = [c \in Conns |-> 0]
  /\ gen = [c \in Conns |-> 0]
  /\ connById = [i \in Ids |-> NoConn]
  /\ heap = {}
  /\ fresh = {}
  /\ pinned = NoConn

-----------------------------------------------------------------------------

Live(c) == state[c] \in Active

(* Mutant: the tuple is built in another order than it is taken apart. *)
EntryOfSwapped(d, g, i) == [deadline |-> d, gen |-> i, id |-> g]

EntryOf(d, g, i) == [deadline |-> d, gen |-> g, id |-> i]

(* The order of the tuples in the heap. *)
Precedes(e, f) ==
  \/ e.deadline < f.deadline
  \/ e.deadline = f.deadline /\ e.gen < f.gen
  \/ e.deadline = f.deadline /\ e.gen = f.gen /\ e.id < f.id

(* Mutant: an entry of an older generation passes. *)
ValidOfAnyGen(e) == connById[e.id] # NoConn /\ Live(connById[e.id])

(* The test by which entries are taken for stale or not: by the generation *)
(* and the connection that now has the id.                                 *)
Valid(e) ==
  LET c == connById[e.id]
  IN c # NoConn /\ Live(c) /\ e.gen = gen[c]

(* The object of c is still referred to. *)
Referenced(c) == Live(c) \/ state[c] = "DONE" \/ pinned = c

(* A new object may get the address of one that was freed. *)
FreeIds == {i \in Ids : \A c \in Conns : addr[c] = i => ~Referenced(c)}

-----------------------------------------------------------------------------

(* Mutant: select always waits up to a second. *)
SelectUncut ==
  /\ pc = "select"
  /\ heap' = {e \in heap : \E f \in heap : Valid(f) /\ (f = e \/ Precedes(f, e))}
  /\ \E wait \in 0..SelectCap :
       /\ now + wait <= MaxTime
       /\ now' = now + wait
  /\ pc' = "dispatch"
  /\ fresh' = {}
  /\ UNCHANGED <<conns, connById, pinned>>

(* _select_timeout and select: drop the stale entries on top, then wait,   *)
(* for at most a second, and no longer than until the first entry is due.      *)
Select ==
  LET kept == {e \in heap : \E f \in heap : Valid(f) /\ (f = e \/ Precedes(f, e))}
  IN /\ pc = "select"
     /\ heap' = kept
     /\ \E wait \in 0..SelectCap :
          /\ \A e \in kept : now + wait <= e.deadline \/ wait = 0
          /\ now + wait <= MaxTime
          /\ now' = now + wait
     /\ pc' = "dispatch"
     /\ fresh' = {}
     /\ UNCHANGED <<conns, connById, pinned>>

(* _accept: __init__ refreshes once; _schedule_deadline. *)
Accept(c) ==
  /\ pc = "dispatch"
  /\ state[c] = "NEW"
  /\ \E i \in FreeIds :
       LET due == now + Timeout["READING_REQUEST"]
       IN /\ addr' = [addr EXCEPT ![c] = i]
          /\ connById' = [connById EXCEPT ![i] = c]
          /\ heap' = heap \cup {EntryOf(due, 1, i)}
          /\ deadline' = [deadline EXCEPT ![c] = due]
  /\ state' = [state EXCEPT ![c] = "READING_REQUEST"]
  /\ gen' = [gen EXCEPT ![c] = 1]
  /\ fresh' = fresh \cup {c}
  /\ UNCHANGED <<now, pc, pinned>>

(* The states in which a handler of ProxyConnection can leave a connection *)
(* that it finds in state s, having refreshed the deadline.                *)
Successors(s) ==
  CASE s = "READING_REQUEST" ->
         {"READING_REQUEST", "CONNECTING_TO_BACKEND", "FORWARDING_REQUEST"}
    [] s = "READING_RESPONSE" ->
         Active \ {"READING_REQUEST"}
    [] s = "FORWARDING_RESPONSE" ->
         {"FORWARDING_RESPONSE"}
    [] OTHER ->
         {"CONNECTING_TO_BACKEND", "FORWARDING_REQUEST", "READING_RESPONSE"}

(* An event of c may be among those that select returned. *)
Dispatched(c) == pc = "dispatch" /\ Live(c) /\ c \notin fresh

(* Mutant: a deadline is scheduled only when the state changes. *)
RefreshOnTransition(c, n) ==
  /\ Dispatched(c)
  /\ gen[c] + n <= MaxGen
  /\ \E s \in Successors(state[c]) :
       LET due == now + Timeout[s]
       IN /\ state' = [state EXCEPT ![c] = s]
          /\ deadline' = [deadline EXCEPT ![c] = due]
          /\ heap' = IF s = state[c] THEN heap
                     ELSE heap \cup {EntryOf(due, gen[c] + n, addr[c])}
  /\ gen' = [gen EXCEPT ![c] = @ + n]
  /\ connById' = [connById EXCEPT ![addr[c]] = c]
  /\ pinned' = c
  /\ UNCHANGED <<now, pc, addr, fresh>>

(* _dispatch, with refresh_deadline called n times: the last one is for    *)
(* the state that the handlers leave.                                      *)
Refresh(c, n) ==
  /\ Dispatched(c)
  /\ gen[c] + n <= MaxGen
  /\ \E s \in Successors(state[c]) :
       LET due == now + Timeout[s]
       IN /\ state' = [state EXCEPT ![c] = s]
          /\ deadline' = [deadline EXCEPT ![c] = due]
          /\ heap' = heap \cup {EntryOf(due, gen[c] + n, addr[c])}
  /\ gen' = [gen EXCEPT ![c] = @ + n]
  /\ connById' = [connById EXCEPT ![addr[c]] = c]
  /\ pinned' = c
  /\ UNCHANGED <<now, pc, addr, fresh>>

(* _dispatch of an event that no handler acts on. *)
Ignore(c) ==
  /\ Dispatched(c)
  /\ heap' = heap \cup {EntryOf(deadline[c], gen[c], addr[c])}
  /\ connById' = [connById EXCEPT ![addr[c]] = c]
  /\ pinned' = c
  /\ UNCHANGED <<now, pc, conns, fresh>>

(* _dispatch that leaves the connection done, which is not scheduled. *)
Finish(c) ==
  /\ Dispatched(c)
  /\ state' = [state EXCEPT ![c] = "DONE"]
  /\ pinned' = c
  /\ UNCHANGED <<now, pc, addr, deadline, gen, connById, heap, fresh>>

EndDispatch ==
  /\ pc = "dispatch"
  /\ pc' = "expire"
  /\ UNCHANGED <<now, conns, connById, heap, fresh, pinned>>

TimedOut == {c \in Conns :
               \E e \in heap : e.deadline <= now /\ Valid(e) /\ connById[e.id] = c}

(* _expire_timeouts: handle_timeout for every valid entry that is due. *)
Expire ==
  /\ pc = "expire"
  /\ heap' = {e \in heap : e.deadline > now}
  /\ state' = [c \in Conns |-> IF c \in TimedOut THEN "DONE" ELSE state[c]]
  /\ pc' = "reap"
  /\ UNCHANGED <<now, addr, deadline, gen, connById, fresh, pinned>>

(* _reap *)
Reap ==
  /\ pc = "reap"
  /\ state' = [c \in Conns |-> IF state[c] = "DONE" THEN "CLOSED" ELSE state[c]]
  /\ connById' = [i \in Ids |->
                    IF \E c \in Conns : state[c] = "DONE" /\ addr[c] = i
                    THEN NoConn ELSE connById[i]]
  /\ pc' = "select"
  /\ UNCHANGED <<now, addr, deadline, gen, heap, fresh, pinned>>

Next ==
  \/ Select \/ EndDispatch \/ Expire \/ Reap
  \/ \E c \in Conns :
       \/ Accept(c) \/ Ignore(c) \/ Finish(c)
       \/ \E n \in 1..MaxGen : Refresh(c, n)

Spec == Init /\ [][Next]_vars

-----------------------------------------------------------------------------

(* Lazy deletion never loses a deadline: a live connection is found under  *)
(* its id, and the heap has an entry with its current deadline and         *)
(* generation, whatever other entries were dropped, expired or left by     *)
(* earlier connections of the same id (_schedule_deadline,                 *)
(* _select_timeout, _expire_timeouts).                                     *)
LiveAreScheduled ==
  \A c \in Conns : Live(c) =>
    /\ addr[c] \in Ids
    /\ connById[addr[c]] = c
    /\ EntryOf(deadline[c], gen[c], addr[c]) \in heap

(* The reactor never sleeps past a deadline: when it expires and reaps,    *)
(* no live connection has been due for longer than the handlers took.      *)
NeverOverdue == \A c \in Conns : Live(c) => now <= deadline[c]

TimesOutEarly(c) ==
  pc = "expire" /\ Live(c) /\ state'[c] = "DONE" /\ now < deadline[c]

(* No connection is timed out before its deadline (_expire_timeouts).      *)
NeverPremature == [][\A c \in Conns : ~TimesOutEarly(c)]_vars

(* It happens only to a connection that was given the address, and so the  *)
(* id, of an earlier one, which is closed (_expire_timeouts).              *)
EarlyOnlyByReuse ==
  [][\A c \in Conns : TimesOutEarly(c) =>
       \E d \in Conns \ {c} : addr[d] = addr[c] /\ state[d] = "CLOSED"]_vars
=============================================================================
