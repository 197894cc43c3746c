---------------------------- MODULE Selector_proofs ----------------------------
(***************************************************************************)
(* Theorems about Selector for any number of connections, descriptors and  *)
(* retries: no descriptor leaks, a key of a closed socket, which alone can *)
(* bring the reactor down, is always one that was lost, and every          *)
(* connection that waits is watched, but for those that meet such a key.   *)
(*                                                                         *)
(* The invariant follows a socket from its opening to its closing.  An     *)
(* open one is a client's, or the backend_sock of its connection (ConnOK); *)
(* a key of an open one is under its own descriptor, and a key of a closed *)
(* one is excused while that is in pending_backend_unregister and its      *)
(* dispatch goes on, or when it is lost (KeysOK).  A second invariant      *)
(* (WInv) says which keys each connection has, between dispatches and in   *)
(* one, and a third (TInv) bounds attempts, descriptors and masks.         *)
(***************************************************************************)
EXTENDS Selector, TLAPS

Steps == {"fail", "settle", "raise"}

BackendStates == {"CONNECTING_TO_BACKEND", "FORWARDING_REQUEST", "READING_RESPONSE"}

ConnOK(c) ==
  /\ conn[c].backend <= conn[c].attempts
  /\ conn[c].pending # 0 => conn[c].pending # conn[c].backend
  /\ conn[c].state \in {"NEW", "READING_REQUEST"} =>
       conn[c].backend = 0 /\ conn[c].pending = 0 /\ conn[c].attempts = 0
  /\ \A k \in Nat : <<c, k>> \in DOMAIN fd =>
       conn[c].state \notin {"NEW", "CLOSED"} /\ k \in {0, conn[c].backend}
  /\ busy # Idle /\ busy[1] = c =>
       loop = "running" /\ conn[c].state \notin {"NEW", "CLOSED"}
  /\ loop = "running" /\ conn[c].state \in BackendStates /\ ~Within(c, "raise") =>
       conn[c].backend # 0 /\ <<c, conn[c].backend>> \in DOMAIN fd
  /\ Within(c, "fail") => conn[c].state \in BackendStates

(* The key for d in keys: of a socket that its connection cn has opened,   *)
(* and which is open (in f) under d, or excused.                           *)
KeyOK(keys, d, f, cn, excused) ==
  \E c \in Connections, k \in Nat :
    /\ keys[d] = [sock |-> <<c, k>>, mask |-> keys[d].mask]
    /\ k <= cn[c].attempts /\ cn[c].state # "NEW"
    /\ <<c, k>> \in DOMAIN f => f[<<c, k>>] = d
    /\ <<c, k>> \in DOMAIN f \cup excused

KeysOK(keys, f, cn, excused) == \A d \in DOMAIN keys : KeyOK(keys, d, f, cn, excused)

Excused == lost \cup IF busy = Idle THEN {} ELSE Pending(busy[1])

Typed ==
  /\ conn \in [Connections -> [state : States, backend : Nat, pending : Nat,
                               attempts : Nat]]
  /\ busy \in {Idle} \cup (Connections \X States \X Steps)
  /\ DOMAIN fd \subseteq Connections \X Nat

IInv ==
  /\ Typed
  /\ \A c \in Connections : ConnOK(c)
  /\ KeysOK(table, fd, conn, Excused)

LEMMA InitIInv == Init => IInv
<1> SUFFICES ASSUME Init
             PROVE  IInv
  OBVIOUS
<1>1. /\ conn = [c \in Connections |->
                   [state |-> "NEW", backend |-> 0, pending |-> 0, attempts |-> 0]]
      /\ DOMAIN fd = {} /\ DOMAIN table = {} /\ busy = Idle
  BY DEF Init
<1>2. Typed
  BY <1>1 DEF Typed, States
<1>3. ASSUME NEW c \in Connections
      PROVE  ConnOK(c)
  BY <1>1 DEF ConnOK, BackendStates, Within
<1> QED
  BY <1>1, <1>2, <1>3 DEF IInv, KeysOK

-----------------------------------------------------------------------------
(* Keys that stay are in order as long as their sockets are. *)

LEMMA KeysStay ==
  ASSUME NEW keys, NEW f, NEW cn, NEW ex, NEW keys1, NEW f1, NEW cn1, NEW ex1,
         KeysOK(keys, f, cn, ex),
         \A d \in DOMAIN keys1 : d \in DOMAIN keys /\ keys1[d] = keys[d],
         \A c \in Connections :
           /\ cn[c].attempts \in Nat /\ cn1[c].attempts \in Nat
           /\ cn[c].attempts <= cn1[c].attempts
           /\ cn1[c].state = "NEW" => cn[c].state = "NEW",
         \A d \in DOMAIN keys1 :
           LET s == keys[d].sock
           IN /\ s \in DOMAIN f1 => s \in DOMAIN f /\ f1[s] = f[s]
              /\ s \in DOMAIN f \cup ex => s \in DOMAIN f1 \cup ex1
  PROVE  KeysOK(keys1, f1, cn1, ex1)
<1> SUFFICES ASSUME NEW d \in DOMAIN keys1
             PROVE  KeyOK(keys1, d, f1, cn1, ex1)
  BY DEF KeysOK
<1>1. PICK c \in Connections, k \in Nat :
        /\ keys[d] = [sock |-> <<c, k>>, mask |-> keys[d].mask]
        /\ k <= cn[c].attempts /\ cn[c].state # "NEW"
        /\ <<c, k>> \in DOMAIN f => f[<<c, k>>] = d
        /\ <<c, k>> \in DOMAIN f \cup ex
  BY DEF KeysOK, KeyOK
<1>2. keys1[d] = keys[d] /\ keys[d].sock = <<c, k>>
  BY <1>1
<1>3. k <= cn1[c].attempts /\ cn1[c].state # "NEW"
  BY <1>1
<1>4. /\ <<c, k>> \in DOMAIN f1 => f1[<<c, k>>] = d
      /\ <<c, k>> \in DOMAIN f1 \cup ex1
  BY <1>1, <1>2
<1> QED
  BY <1>1, <1>2, <1>3, <1>4 DEF KeyOK

-----------------------------------------------------------------------------
(* What the selector's calls do to the keys. *)

IsSelector(sel) ==
  sel = [table |-> sel.table, epoll |-> sel.epoll, raised |-> sel.raised]

Ordered(sel) == IsSelector(sel) /\ KeysOK(sel.table, fd, conn, lost)

LEMMA NewLists ==
  ASSUME NEW sel, IsSelector(sel), NEW keys, NEW list
  PROVE  [sel EXCEPT !.table = keys, !.epoll = list]
           = [table |-> keys, epoll |-> list, raised |-> sel.raised]
<1> DEFINE fields == {"table", "epoll", "raised"}
           x == [sel EXCEPT !.table = keys, !.epoll = list]
           y == [table |-> keys, epoll |-> list, raised |-> sel.raised]
<1>1. DOMAIN x = fields
  BY DEF IsSelector
<1>2. x["table"] = keys /\ x["epoll"] = list /\ x["raised"] = sel.raised
  BY DEF IsSelector
<1>3. x = [f \in fields |-> x[f]]
  BY <1>1 DEF IsSelector
<1>4. /\ y = [f \in fields |-> y[f]]
      /\ y["table"] = keys /\ y["epoll"] = list /\ y["raised"] = sel.raised
  OBVIOUS
<1>5. \A f \in fields : x[f] = y[f]
  BY <1>2, <1>4
<1> HIDE DEF x, y
<1>6. x = y
  BY <1>3, <1>4, <1>5
<1> QED
  BY <1>6 DEF x, y

LEMMA RegisterOrdered ==
  ASSUME NEW sel, Ordered(sel), NEW c \in Connections, NEW k \in Nat, NEW mask,
         <<c, k>> \in DOMAIN fd, k <= conn[c].attempts, conn[c].state # "NEW"
  PROVE  Ordered(Register(sel, <<c, k>>, mask))
<1> DEFINE s == <<c, k>>
           d == fd[s]
           keys == With(sel.table, d, [sock |-> s, mask |-> mask])
           list == With(sel.epoll, d, mask)
<1>1. CASE Has(sel, s)
  BY <1>1 DEF Register
<1>2. CASE ~Has(sel, s)
  <2> DEFINE r == Register(sel, s, mask)
  <2>1. r = [table |-> keys, epoll |-> list, raised |-> sel.raised]
    <3>1. [sel EXCEPT !.table = keys, !.epoll = list]
            = [table |-> keys, epoll |-> list, raised |-> sel.raised]
      BY NewLists DEF Ordered
    <3> QED
      BY <1>2, <3>1 DEF Register, With
  <2>2. /\ DOMAIN keys = DOMAIN sel.table \cup {d}
        /\ \A e \in DOMAIN keys :
             keys[e] = IF e = d THEN [sock |-> s, mask |-> mask] ELSE sel.table[e]
    BY DEF With
  <2>3. KeysOK(keys, fd, conn, lost)
    <3> SUFFICES ASSUME NEW e \in DOMAIN keys
                 PROVE  KeyOK(keys, e, fd, conn, lost)
      BY DEF KeysOK
    <3>1. CASE e = d
      <4>1. keys[e] = [sock |-> s, mask |-> mask]
        BY <2>2, <3>1
      <4>2. keys[e] = [sock |-> <<c, k>>, mask |-> keys[e].mask]
        BY <4>1
      <4> HIDE DEF keys
      <4> QED
        BY <3>1, <4>2 DEF KeyOK
    <3>2. CASE e # d
      <4>1. KeyOK(sel.table, e, fd, conn, lost) /\ keys[e] = sel.table[e]
        BY <2>2, <3>2 DEF Ordered, KeysOK
      <4> QED
        BY <4>1 DEF KeyOK
    <3> QED
      BY <3>1, <3>2
  <2> HIDE DEF keys, list
  <2> QED
    BY <2>1, <2>3 DEF Ordered, IsSelector
<1> QED
  BY <1>1, <1>2

LEMMA ModifyOrdered ==
  ASSUME NEW sel, Ordered(sel), NEW s, NEW mask
  PROVE  Ordered(Modify(sel, s, mask))
<1> DEFINE d == fd[s]
<1>1. CASE ~Has(sel, s) \/ sel.table[d].mask = mask
  BY <1>1 DEF Modify
<1>2. CASE Has(sel, s) /\ sel.table[d].mask # mask /\ d \in DOMAIN sel.epoll
  <2> DEFINE keys == [sel.table EXCEPT ![d].mask = mask]
             list == [sel.epoll EXCEPT ![d] = mask]
  <2>1. Modify(sel, s, mask) = [table |-> keys, epoll |-> list, raised |-> sel.raised]
    <3>1. Modify(sel, s, mask) = [sel EXCEPT !.table[d].mask = mask, !.epoll[d] = mask]
      BY <1>2 DEF Modify
    <3> QED
      BY <3>1 DEF Ordered, IsSelector
  <2>2. KeysOK(keys, fd, conn, lost)
    <3> SUFFICES ASSUME NEW e \in DOMAIN keys
                 PROVE  KeyOK(keys, e, fd, conn, lost)
      BY DEF KeysOK
    <3>1. e \in DOMAIN sel.table /\ KeyOK(sel.table, e, fd, conn, lost)
      BY DEF Ordered, KeysOK
    <3>2. PICK c \in Connections, k \in Nat :
            /\ sel.table[e] = [sock |-> <<c, k>>, mask |-> sel.table[e].mask]
            /\ k <= conn[c].attempts /\ conn[c].state # "NEW"
            /\ <<c, k>> \in DOMAIN fd => fd[<<c, k>>] = e
            /\ <<c, k>> \in DOMAIN fd \cup lost
      BY <3>1 DEF KeyOK
    <3>3. keys[e] = [sock |-> <<c, k>>, mask |-> keys[e].mask]
      BY <3>1, <3>2
    <3> HIDE DEF keys
    <3> QED
      BY <3>2, <3>3 DEF KeyOK
  <2> HIDE DEF keys, list
  <2> QED
    BY <2>1, <2>2 DEF Ordered, IsSelector
<1>3. CASE Has(sel, s) /\ sel.table[d].mask # mask /\ d \notin DOMAIN sel.epoll
  <2> DEFINE keys == Without(sel.table, {d})
  <2>1. Modify(sel, s, mask) = [table |-> keys, epoll |-> sel.epoll, raised |-> TRUE]
    <3> HIDE DEF keys
    <3>1. Modify(sel, s, mask) = [sel EXCEPT !.table = keys, !.raised = TRUE]
      BY <1>3 DEF Modify, keys
    <3> QED
      BY <3>1 DEF Ordered, IsSelector
  <2>2. KeysOK(keys, fd, conn, lost)
    <3>1. \A e \in DOMAIN keys : e \in DOMAIN sel.table /\ keys[e] = sel.table[e]
      BY DEF Without, Restrict
    <3> HIDE DEF keys
    <3> QED
      BY <3>1 DEF Ordered, KeysOK, KeyOK
  <2> HIDE DEF keys
  <2> QED
    BY <2>1, <2>2 DEF Ordered, IsSelector
<1> QED
  BY <1>1, <1>2, <1>3

(* Keys are only taken out, those of s if s is closed. *)
LEMMA UnregisterKeys ==
  ASSUME NEW sel, IsSelector(sel), NEW s
  PROVE  /\ IsSelector(Unregister(sel, s))
         /\ \A d \in DOMAIN Unregister(sel, s).table :
              /\ d \in DOMAIN sel.table
              /\ Unregister(sel, s).table[d] = sel.table[d]
              /\ s \notin DOMAIN fd => Unregister(sel, s).table[d].sock # s
<1> DEFINE keys == Without(sel.table, KeysOf(sel.table, s))
           list == Without(sel.epoll, KeysOf(sel.table, s))
<1>1. Unregister(sel, s) = [table |-> keys, epoll |-> list, raised |-> sel.raised]
  <2>1. [sel EXCEPT !.table = keys, !.epoll = list]
          = [table |-> keys, epoll |-> list, raised |-> sel.raised]
    BY NewLists
  <2> QED
    BY <2>1 DEF Unregister, With
<1>2. /\ \A d \in DOMAIN keys : d \in DOMAIN sel.table /\ keys[d] = sel.table[d]
      /\ s \notin DOMAIN fd => \A d \in DOMAIN keys : keys[d].sock # s
  BY DEF Without, Restrict, KeysOf
<1> HIDE DEF keys, list
<1> QED
  BY <1>1, <1>2 DEF IsSelector

LEMMA UnregisterOrdered ==
  ASSUME NEW sel, Ordered(sel), NEW s
  PROVE  Ordered(Unregister(sel, s))
<1>1. IsSelector(Unregister(sel, s))
  BY UnregisterKeys DEF Ordered
<1>2. \A d \in DOMAIN Unregister(sel, s).table :
        d \in DOMAIN sel.table /\ Unregister(sel, s).table[d] = sel.table[d]
  BY UnregisterKeys DEF Ordered
<1> QED
  BY <1>1, <1>2 DEF Ordered, KeysOK, KeyOK
-----------------------------------------------------------------------------
(* The end of a dispatch: the keys of the socket that waited to be         *)
(* unregistered go, and those that are added are of open sockets.          *)

(* Once the pending socket, which is closed, is unregistered, no key but   *)
(* the lost ones' needs an excuse.                                         *)
LEMMA PendingUnregistered ==
  ASSUME IInv, NEW c \in Connections, Within(c, "settle"), conn[c].pending # 0
  PROVE  Ordered(Unregister(Present, <<c, conn[c].pending>>))
<1> DEFINE s == <<c, conn[c].pending>>
           u == Unregister(Present, s)
<1>1. /\ IsSelector(Present) /\ Present.table = table
      /\ KeysOK(table, fd, conn, lost \cup Pending(c))
  BY DEF IInv, Excused, Within, IsSelector, Present
<1>2. s \notin DOMAIN fd
  BY DEF IInv, Typed, ConnOK
<1>3. /\ IsSelector(u)
      /\ \A d \in DOMAIN u.table : d \in DOMAIN table /\ u.table[d] = table[d]
      /\ \A d \in DOMAIN u.table : u.table[d].sock # s
  <2>1. /\ IsSelector(u)
        /\ \A d \in DOMAIN u.table :
             /\ d \in DOMAIN Present.table
             /\ u.table[d] = Present.table[d]
             /\ s \notin DOMAIN fd => u.table[d].sock # s
    BY <1>1, UnregisterKeys
  <2> HIDE DEF u, s
  <2> QED
    BY <1>1, <1>2, <2>1
<1> SUFFICES ASSUME NEW d \in DOMAIN u.table
             PROVE  KeyOK(u.table, d, fd, conn, lost)
  BY <1>3 DEF Ordered, KeysOK
<1>4. PICK b \in Connections, k \in Nat :
        /\ table[d] = [sock |-> <<b, k>>, mask |-> table[d].mask]
        /\ k <= conn[b].attempts /\ conn[b].state # "NEW"
        /\ <<b, k>> \in DOMAIN fd => fd[<<b, k>>] = d
        /\ <<b, k>> \in DOMAIN fd \cup (lost \cup Pending(c))
  BY <1>1, <1>3 DEF KeysOK, KeyOK
<1>5. u.table[d] = table[d] /\ <<b, k>> # s
  BY <1>3, <1>4
<1>6. <<b, k>> \in DOMAIN fd \cup lost
  BY <1>4, <1>5 DEF Pending
<1> HIDE DEF u
<1> QED
  BY <1>4, <1>5, <1>6 DEF KeyOK

LEMMA FlushOrdered ==
  ASSUME IInv, NEW c \in Connections, Within(c, "settle")
  PROVE  Ordered(FlushPendingUnregister(Present, c))
<1> DEFINE x == conn[c]
           s == <<c, x.pending>>
           u == Unregister(Present, s)
<1>1. /\ ConnOK(c) /\ loop = "running"
      /\ x.pending \in Nat /\ x.backend \in Nat /\ x.attempts \in Nat
  BY DEF IInv, Typed, ConnOK, Within
<1>2. /\ IsSelector(Present) /\ Present.table = table
      /\ KeysOK(table, fd, conn, lost \cup Pending(c))
  BY DEF IInv, Excused, Within, IsSelector, Present
<1>3. CASE x.pending = 0
  <2>1. Pending(c) = {}
    BY <1>3 DEF Pending, Client
  <2>2. KeysOK(table, fd, conn, lost)
    BY <1>2, <2>1
  <2> QED
    BY <1>2, <1>3, <2>2 DEF FlushPendingUnregister, Ordered
<1>4. CASE x.pending # 0
  <2>3. Ordered(u)
    BY <1>4, PendingUnregistered
  <2>4. CASE x.backend # 0 /\ x.state \in {"CONNECTING_TO_BACKEND", "FORWARDING_REQUEST"}
    <3>1. <<c, x.backend>> \in DOMAIN fd /\ x.backend <= x.attempts /\ x.state # "NEW"
      BY <1>1, <2>4 DEF ConnOK, BackendStates, Within
    <3>2. Ordered(Ensure(u, <<c, x.backend>>, "WRITE"))
      BY <1>1, <2>3, <3>1, RegisterOrdered, ModifyOrdered DEF Ensure
    <3> QED
      BY <1>4, <2>4, <3>2 DEF FlushPendingUnregister
  <2>5. CASE ~(x.backend # 0 /\ x.state \in {"CONNECTING_TO_BACKEND", "FORWARDING_REQUEST"})
    BY <1>4, <2>3, <2>5 DEF FlushPendingUnregister
  <2> QED
    BY <2>4, <2>5
<1> QED
  BY <1>3, <1>4

LEMMA TransitionOrdered ==
  ASSUME IInv, NEW c \in Connections, Within(c, "settle"),
         NEW sel, Ordered(sel), NEW prev
  PROVE  Ordered(Transition(sel, c, prev))
<1> DEFINE x == conn[c]
           sock == <<c, x.backend>>
<1>1. /\ ConnOK(c) /\ loop = "running" /\ ~Within(c, "raise")
      /\ x.backend \in Nat /\ x.attempts \in Nat
  BY DEF IInv, Typed, ConnOK, Within
<1>2. CASE x.state = prev \/ sel.raised
  BY <1>2 DEF Transition
<1>3. CASE ~(x.state = prev \/ sel.raised) /\ x.state \in {"CONNECTING_TO_BACKEND", "FORWARDING_REQUEST"}
  <2>1. sock \in DOMAIN fd /\ x.backend <= x.attempts /\ x.state # "NEW"
    BY <1>1, <1>3 DEF ConnOK, BackendStates
  <2>2. /\ Ordered(Register(sel, sock, "WRITE"))
        /\ Ordered(Ensure(sel, sock, "WRITE"))
    BY <1>1, <2>1, RegisterOrdered, ModifyOrdered DEF Ensure
  <2> QED
    BY <1>3, <2>2 DEF Transition
<1>4. CASE ~(x.state = prev \/ sel.raised) /\ x.state = "READING_RESPONSE"
  BY <1>4, ModifyOrdered DEF Transition
<1>5. CASE ~(x.state = prev \/ sel.raised) /\ x.state = "FORWARDING_RESPONSE"
  <2> DEFINE m == Modify(sel, Client(c), "WRITE")
  <2>1. Ordered(m)
    BY ModifyOrdered
  <2>2. Ordered(Unregister(m, sock))
    BY <2>1, UnregisterOrdered
  <2> QED
    BY <1>5, <2>1, <2>2 DEF Transition
<1>6. CASE /\ ~(x.state = prev \/ sel.raised)
           /\ x.state \notin {"CONNECTING_TO_BACKEND", "FORWARDING_REQUEST",
                              "READING_RESPONSE", "FORWARDING_RESPONSE"}
  BY <1>6 DEF Transition
<1> QED
  BY <1>2, <1>3, <1>4, <1>5, <1>6

-----------------------------------------------------------------------------
(* Steps of one connection leave the others as they are. *)

LEMMA OthersOK ==
  ASSUME IInv, NEW c \in Connections, NEW b \in Connections, b # c,
         conn'[b] = conn[b], loop' = loop,
         \A k \in Nat : <<b, k>> \in DOMAIN fd' <=> <<b, k>> \in DOMAIN fd,
         busy = Idle \/ busy[1] = c,
         busy' = Idle \/ busy'[1] = c
  PROVE  ConnOK(b)'
BY DEF IInv, Typed, ConnOK, Within

(* A key's socket, as far as the invariant knows it. *)
LEMMA KeySocket ==
  ASSUME IInv, NEW d \in DOMAIN table
  PROVE  \E c \in Connections, k \in Nat :
           /\ table[d].sock = <<c, k>>
           /\ k <= conn[c].attempts /\ conn[c].state # "NEW"
           /\ <<c, k>> \in DOMAIN fd => fd[<<c, k>>] = d
           /\ <<c, k>> \in DOMAIN fd \cup Excused
<1>1. PICK c \in Connections, k \in Nat :
        /\ table[d] = [sock |-> <<c, k>>, mask |-> table[d].mask]
        /\ k <= conn[c].attempts /\ conn[c].state # "NEW"
        /\ <<c, k>> \in DOMAIN fd => fd[<<c, k>>] = d
        /\ <<c, k>> \in DOMAIN fd \cup Excused
  BY DEF IInv, KeysOK, KeyOK
<1>2. table[d].sock = <<c, k>>
  BY <1>1
<1> QED
  BY <1>1, <1>2

(* No key is added, and a socket that is closed is one that is unregistered *)
(* or one that is excused.                                                  *)
LEMMA KeysKept ==
  ASSUME IInv, Typed',
         \A d \in DOMAIN table' : d \in DOMAIN table /\ table'[d] = table[d],
         \A c \in Connections :
           /\ conn[c].attempts <= conn'[c].attempts
           /\ conn'[c].state = "NEW" => conn[c].state = "NEW",
         \A c \in Connections, k \in Nat :
           /\ k <= conn[c].attempts /\ conn[c].state # "NEW"
           /\ <<c, k>> \in DOMAIN fd'
           => <<c, k>> \in DOMAIN fd /\ fd'[<<c, k>>] = fd[<<c, k>>],
         \A d \in DOMAIN table' : \A c \in Connections, k \in Nat :
           <<c, k>> \in DOMAIN fd /\ fd[<<c, k>>] = d =>
             <<c, k>> \in DOMAIN fd' \cup Excused',
         Excused \subseteq Excused'
  PROVE  KeysOK(table', fd', conn', Excused')
<1>1. \A c \in Connections : conn[c].attempts \in Nat /\ conn'[c].attempts \in Nat
  BY DEF IInv, Typed
<1>2. ASSUME NEW d \in DOMAIN table'
      PROVE  /\ table[d].sock \in DOMAIN fd' =>
                  table[d].sock \in DOMAIN fd /\ fd'[table[d].sock] = fd[table[d].sock]
             /\ table[d].sock \in DOMAIN fd' \cup Excused'
  <2>1. d \in DOMAIN table
    BY <1>2
  <2>2. PICK c \in Connections, k \in Nat :
          /\ table[d].sock = <<c, k>>
          /\ k <= conn[c].attempts /\ conn[c].state # "NEW"
          /\ <<c, k>> \in DOMAIN fd => fd[<<c, k>>] = d
          /\ <<c, k>> \in DOMAIN fd \cup Excused
    BY <2>1, KeySocket
  <2> QED
    BY <1>2, <2>2
<1>3. KeysOK(table, fd, conn, Excused)
  BY DEF IInv
<1> HIDE DEF Excused
<1> QED
  BY <1>1, <1>2, <1>3, KeysStay

-----------------------------------------------------------------------------
(* One step each. *)

LEMMA SettleStep ==
  ASSUME IInv, NEW c \in Connections, Settle(c)
  PROVE  IInv'
<1> DEFINE sel == Transition(FlushPendingUnregister(Present, c), c, busy[2])
<1>1. /\ Within(c, "settle") /\ table' = sel.table /\ busy' = Idle
      /\ conn' = [conn EXCEPT ![c].pending = 0,
                              ![c].state = IF sel.raised THEN "DONE" ELSE @]
      /\ UNCHANGED <<fd, loop, lost>>
  BY DEF Settle
<1>2. Ordered(sel)
  BY <1>1, FlushOrdered, TransitionOrdered
<1> HIDE DEF sel
<1>3. Typed'
  BY <1>1 DEF IInv, Typed, States
<1>4. /\ \A b \in Connections \ {c} : conn'[b] = conn[b]
      /\ \A b \in Connections : conn'[b].attempts = conn[b].attempts
      /\ conn'[c].backend = conn[c].backend /\ conn'[c].pending = 0
      /\ conn'[c].state \in {conn[c].state, "DONE"}
  BY <1>1 DEF IInv, Typed
<1>5. ConnOK(c)'
  <2>1. ConnOK(c) /\ conn[c].state \notin {"NEW", "CLOSED"} /\ ~Within(c, "raise")
    BY <1>1 DEF IInv, ConnOK, Within
  <2> QED
    BY <1>1, <1>4, <2>1 DEF ConnOK, BackendStates, Within
<1>6. ASSUME NEW b \in Connections, b # c
      PROVE  ConnOK(b)'
  BY <1>1, <1>4, <1>6, OthersOK DEF Within
<1>7. KeysOK(table', fd', conn', Excused')
  <2>1. KeysOK(sel.table, fd, conn, lost)
    BY <1>2 DEF Ordered
  <2>2. Excused' = lost
    BY <1>1 DEF Excused
  <2>3. \A b \in Connections :
          /\ conn[b].attempts \in Nat /\ conn'[b].attempts \in Nat
          /\ conn[b].attempts <= conn'[b].attempts
          /\ conn'[b].state = "NEW" => conn[b].state = "NEW"
    BY <1>3, <1>4 DEF IInv, Typed
  <2>4. KeysOK(table', fd, conn, lost)
    BY <1>1, <2>1
  <2>5. KeysOK(table', fd, conn', lost)
    BY <2>3, <2>4, KeysStay
  <2> QED
    BY <1>1, <2>2, <2>5
<1> QED
  BY <1>3, <1>5, <1>6, <1>7 DEF IInv

LEMMA GotoStep ==
  ASSUME IInv, NEW c \in Connections, busy = Idle, loop = "running",
         NEW state \in States, Goto(c, state), conn[c].state \notin {"NEW", "CLOSED"},
         state \notin {"NEW", "READING_REQUEST", "CLOSED"},
         state \in BackendStates => conn[c].state \in BackendStates
  PROVE  IInv'
<1>1. /\ conn' = [conn EXCEPT ![c].state = state]
      /\ busy' = <<c, conn[c].state, "settle">>
      /\ UNCHANGED <<fd, table, loop, lost>>
  BY DEF Goto, Then
<1>2. Typed'
  BY <1>1 DEF IInv, Typed, Steps
<1>3. /\ \A b \in Connections \ {c} : conn'[b] = conn[b]
      /\ conn'[c].backend = conn[c].backend /\ conn'[c].pending = conn[c].pending
      /\ conn'[c].attempts = conn[c].attempts /\ conn'[c].state = state
  BY <1>1 DEF IInv, Typed
<1>4. ConnOK(c)'
  BY <1>1, <1>3 DEF IInv, ConnOK, BackendStates, Within, Idle
<1>5. ASSUME NEW b \in Connections, b # c
      PROVE  ConnOK(b)'
  BY <1>1, <1>3, <1>5, OthersOK
<1>6. Excused \subseteq Excused'
  BY <1>1 DEF Excused
<1>7. KeysOK(table', fd', conn', Excused')
  <2>1. \A b \in Connections :
          /\ conn[b].attempts <= conn'[b].attempts
          /\ conn'[b].state = "NEW" => conn[b].state = "NEW"
    BY <1>3 DEF IInv, Typed
  <2> HIDE DEF Excused
  <2> QED
    BY <1>1, <1>2, <1>6, <2>1, KeysKept
<1> QED
  BY <1>2, <1>4, <1>5, <1>7 DEF IInv

(* A new attempt has a number that no socket and no key has yet. *)
LEMMA InitiateStep ==
  ASSUME IInv, NEW c \in Connections, NEW x, NEW open, NEW prev \in States,
         InitiateBackendConnect(c, x, open, prev),
         x \in [state : States, backend : Nat, pending : Nat, attempts : Nat],
         x.backend = 0, x.attempts = conn[c].attempts, x.pending <= x.attempts,
         loop = "running", busy = Idle \/ busy[1] = c,
         conn[c].state \notin {"NEW", "CLOSED"},
         DOMAIN open \subseteq DOMAIN fd,
         \A s \in DOMAIN open : open[s] = fd[s],
         \A s \in DOMAIN fd \ DOMAIN open : x.pending # 0 /\ s = <<c, x.pending>>,
         \A k \in Nat : <<c, k>> \in DOMAIN open => k = 0,
         UNCHANGED <<table, loop>>, Excused \subseteq lost'
  PROVE  IInv'
<1> DEFINE n == x.attempts + 1
<1>1. PICK state \in {"CONNECTING_TO_BACKEND", "FORWARDING_REQUEST"},
           backend \in {0, n}, step \in Steps :
        /\ conn' = [conn EXCEPT ![c] =
                      [x EXCEPT !.state = state, !.backend = backend, !.attempts = @ + 1]]
        /\ busy' = <<c, prev, step>>
        /\ backend = 0 => step = "raise" /\ fd' = open
        /\ backend = n => \E d : fd' = With(open, <<c, n>>, d)
  BY DEF InitiateBackendConnect, Steps
<1>2. /\ conn'[c].backend = backend /\ conn'[c].pending = x.pending
      /\ conn'[c].attempts = n /\ conn'[c].state = state
      /\ \A b \in Connections \ {c} : conn'[b] = conn[b]
      /\ conn[c].attempts \in Nat /\ n \in Nat
  BY <1>1 DEF IInv, Typed
<1>3. /\ DOMAIN open \subseteq DOMAIN fd'
      /\ \A s \in DOMAIN fd' : s \in DOMAIN open \/ (backend = n /\ s = <<c, n>>)
      /\ \A s \in DOMAIN open : s # <<c, n>> => fd'[s] = fd[s]
      /\ backend = n => <<c, n>> \in DOMAIN fd'
  BY <1>1, <1>2 DEF With
<1>4. Typed'
  <2>1. conn' \in [Connections -> [state : States, backend : Nat, pending : Nat,
                                   attempts : Nat]]
    BY <1>1, <1>2 DEF IInv, Typed, States
  <2>2. DOMAIN fd' \subseteq Connections \X Nat
    BY <1>2, <1>3 DEF IInv, Typed
  <2> QED
    BY <1>1, <2>1, <2>2 DEF Typed, Steps
<1>5. ConnOK(c)'
  <2>1. \A k \in Nat : <<c, k>> \in DOMAIN fd' => k \in {0, backend}
    BY <1>3
  <2>2. x.pending # n /\ n # 0
    BY <1>2
  <2>3. backend = 0 => Within(c, "raise")'
    BY <1>1 DEF Within, Idle
  <2>4. backend # 0 => <<c, backend>> \in DOMAIN fd'
    BY <1>1, <1>3
  <2>5. backend <= n
    BY <1>2
  <2> QED
    BY <1>1, <1>2, <2>1, <2>2, <2>3, <2>4, <2>5 DEF ConnOK, BackendStates, Within
<1>6. ASSUME NEW b \in Connections, b # c
      PROVE  ConnOK(b)'
  <2>1. \A k \in Nat : <<b, k>> \in DOMAIN fd' <=> <<b, k>> \in DOMAIN fd
    BY <1>3, <1>6
  <2> QED
    BY <1>1, <1>2, <1>6, <2>1, OthersOK
<1>7. KeysOK(table', fd', conn', Excused')
  <2>1. \A b \in Connections :
          /\ conn[b].attempts <= conn'[b].attempts
          /\ conn'[b].state = "NEW" => conn[b].state = "NEW"
    BY <1>1, <1>2 DEF IInv, Typed
  <2>2. \A b \in Connections, k \in Nat :
          /\ k <= conn[b].attempts /\ conn[b].state # "NEW"
          /\ <<b, k>> \in DOMAIN fd'
          => <<b, k>> \in DOMAIN fd /\ fd'[<<b, k>>] = fd[<<b, k>>]
    <3> SUFFICES ASSUME NEW b \in Connections, NEW k \in Nat,
                        k <= conn[b].attempts, <<b, k>> \in DOMAIN fd'
                 PROVE  <<b, k>> \in DOMAIN fd /\ fd'[<<b, k>>] = fd[<<b, k>>]
      OBVIOUS
    <3>1. <<b, k>> # <<c, n>>
      BY <1>2
    <3> QED
      BY <1>3, <3>1
  <2>3. Excused' = lost' \cup Pending(c)'
    BY <1>1 DEF Excused, Idle
  <2>4. \A s \in DOMAIN fd : s \in DOMAIN fd' \cup Excused'
    BY <1>2, <1>3, <2>3 DEF Pending, Client
  <2>5. Excused \subseteq Excused'
    BY <2>3
  <2> HIDE DEF Excused
  <2> QED
    BY <1>4, <2>1, <2>2, <2>4, <2>5, KeysKept
<1> QED
  BY <1>4, <1>5, <1>6, <1>7 DEF IInv

LEMMA RequestCompleteStep ==
  ASSUME IInv, NEW c \in Connections, RequestComplete(c)
  PROVE  IInv'
<1>1. /\ busy = Idle /\ loop = "running" /\ conn[c].state = "READING_REQUEST"
      /\ InitiateBackendConnect(c, conn[c], fd, "READING_REQUEST")
      /\ UNCHANGED <<table, epoll, loop, lost>>
  BY DEF RequestComplete, Ready
<1>2. /\ conn[c] \in [state : States, backend : Nat, pending : Nat, attempts : Nat]
      /\ conn[c].backend = 0 /\ conn[c].pending <= conn[c].attempts
      /\ \A k \in Nat : <<c, k>> \in DOMAIN fd => k = 0
  <2>1. ConnOK(c) /\ conn[c] \in [state : States, backend : Nat, pending : Nat,
                                  attempts : Nat]
    BY DEF IInv, Typed
  <2>2. conn[c].backend = 0 /\ conn[c].pending = 0 /\ conn[c].attempts = 0
    BY <1>1, <2>1 DEF ConnOK
  <2>3. \A k \in Nat : <<c, k>> \in DOMAIN fd => k \in {0, conn[c].backend}
    BY <2>1 DEF ConnOK
  <2> QED
    BY <2>1, <2>2, <2>3
<1>3. Excused \subseteq lost'
  BY <1>1 DEF Excused
<1>4. "READING_REQUEST" \in States
  BY DEF States
<1> HIDE DEF Excused
<1> QED
  BY <1>1, <1>2, <1>3, <1>4, InitiateStep

LEMMA FailBackendStep ==
  ASSUME IInv, NEW c \in Connections, FailBackend(c)
  PROVE  IInv'
<1> DEFINE b0 == conn[c].backend
           x == [conn[c] EXCEPT !.pending = b0, !.backend = 0]
           open == OpenAfterClose(c)
<1>1. /\ busy # Idle /\ busy[1] = c /\ busy[2] \in States
      /\ Within(c, "fail") /\ ~Within(c, "raise")
      /\ ConnOK(c) /\ loop = "running" /\ conn[c].state \in BackendStates
  BY DEF FailBackend, Within, IInv, Typed, ConnOK
<1>2. /\ lost' = lost \cup Pending(c) /\ UNCHANGED <<table, loop>>
      /\ \/ InitiateBackendConnect(c, x, open, busy[2])
         \/ /\ conn' = [conn EXCEPT ![c] = [x EXCEPT !.state = "DONE"]]
            /\ busy' = <<c, busy[2], "settle">>
            /\ fd' = open
  BY DEF FailBackend
<1>3. /\ conn[c] \in [state : States, backend : Nat, pending : Nat, attempts : Nat]
      /\ b0 # 0 /\ <<c, b0>> \in DOMAIN fd /\ b0 <= conn[c].attempts
  BY <1>1 DEF IInv, Typed, ConnOK
<1>4. /\ DOMAIN open = DOMAIN fd \ {<<c, b0>>}
      /\ \A s \in DOMAIN open : open[s] = fd[s]
      /\ \A k \in Nat : <<c, k>> \in DOMAIN open => k = 0
  <2>1. /\ DOMAIN open = DOMAIN fd \ {<<c, b0>>}
        /\ \A s \in DOMAIN open : open[s] = fd[s]
    BY DEF OpenAfterClose, Without, Restrict
  <2> HIDE DEF open
  <2> QED
    BY <1>1, <2>1 DEF ConnOK
<1>5. Excused = lost'
  BY <1>1, <1>2 DEF Excused
<1>6. /\ x \in [state : States, backend : Nat, pending : Nat, attempts : Nat]
      /\ x.backend = 0 /\ x.pending = b0 /\ x.attempts = conn[c].attempts
      /\ x.state = conn[c].state
  BY <1>3
<1> HIDE DEF open, x
<1>7. CASE InitiateBackendConnect(c, x, open, busy[2])
  <2>1. \A s \in DOMAIN fd \ DOMAIN open : x.pending # 0 /\ s = <<c, x.pending>>
    BY <1>3, <1>4, <1>6
  <2>2. conn[c].state \notin {"NEW", "CLOSED"}
    BY <1>1 DEF BackendStates
  <2> HIDE DEF Excused, b0
  <2> QED
    BY <1>1, <1>2, <1>3, <1>4, <1>5, <1>6, <1>7, <2>1, <2>2, InitiateStep
<1>8. CASE /\ conn' = [conn EXCEPT ![c] = [x EXCEPT !.state = "DONE"]]
           /\ busy' = <<c, busy[2], "settle">>
           /\ fd' = open
  <2>1. Typed'
    BY <1>1, <1>4, <1>6, <1>8 DEF IInv, Typed, States, Steps
  <2>2. /\ conn'[c].backend = 0 /\ conn'[c].pending = b0 /\ conn'[c].state = "DONE"
        /\ conn'[c].attempts = conn[c].attempts
        /\ \A b \in Connections \ {c} : conn'[b] = conn[b]
    BY <1>6, <1>8 DEF IInv, Typed
  <2>3. ConnOK(c)'
    BY <1>1, <1>2, <1>3, <1>4, <1>8, <2>2 DEF ConnOK, BackendStates, Within
  <2>4. ASSUME NEW b \in Connections, b # c
        PROVE  ConnOK(b)'
    <3>1. \A k \in Nat : <<b, k>> \in DOMAIN fd' <=> <<b, k>> \in DOMAIN fd
      BY <1>4, <1>8, <2>4
    <3> QED
      BY <1>1, <1>2, <1>8, <2>2, <2>4, <3>1, OthersOK
  <2>5. KeysOK(table', fd', conn', Excused')
    <3>1. Excused' = lost' \cup {<<c, b0>>}
      BY <1>3, <1>8, <2>2 DEF Excused, Pending, Client, Idle
    <3>2. Excused \subseteq Excused' /\ DOMAIN fd \subseteq DOMAIN fd' \cup Excused'
      BY <1>4, <1>5, <1>8, <3>1
    <3>3. \A b \in Connections :
            /\ conn[b].attempts <= conn'[b].attempts
            /\ conn'[b].state = "NEW" => conn[b].state = "NEW"
      BY <2>2 DEF IInv, Typed
    <3>4. \A s \in DOMAIN fd' : s \in DOMAIN fd /\ fd'[s] = fd[s]
      BY <1>4, <1>8
    <3> HIDE DEF Excused, b0
    <3> QED
      BY <1>2, <2>1, <3>2, <3>3, <3>4, KeysKept
  <2> QED
    BY <2>1, <2>3, <2>4, <2>5 DEF IInv
<1> QED
  BY <1>2, <1>7, <1>8

LEMMA HandleStep ==
  ASSUME IInv, NEW c \in Connections, Handle(c)
  PROVE  IInv'
<1>1. busy = Idle /\ loop = "running"
  BY DEF Handle, RequestFails, RequestComplete, HandleClientWritable, BackendProgress,
         BackendFails, BackendReady, Ready
<1>2. CASE RequestFails(c) \/ HandleClientWritable(c) \/ BackendProgress(c)
  <2>1. PICK state \in States :
          /\ Goto(c, state) /\ conn[c].state \notin {"NEW", "CLOSED"}
          /\ state \notin {"NEW", "READING_REQUEST", "CLOSED"}
          /\ state \in BackendStates => conn[c].state \in BackendStates
    BY <1>2 DEF RequestFails, HandleClientWritable, BackendProgress, BackendReady, Ready,
                States, BackendStates
  <2> QED
    BY <1>1, <2>1, GotoStep
<1>3. CASE RequestComplete(c)
  BY <1>3, RequestCompleteStep
<1>4. CASE BackendFails(c)
  <2>1. /\ conn[c].state \in BackendStates /\ busy' = <<c, conn[c].state, "fail">>
        /\ UNCHANGED <<conn, fd, table, loop, lost>>
    BY <1>4 DEF BackendFails, BackendReady, Ready, Then, BackendStates
  <2>2. Typed'
    BY <2>1 DEF IInv, Typed, Steps
  <2>3. ConnOK(c)'
    BY <1>1, <2>1 DEF IInv, ConnOK, BackendStates, Within
  <2>4. ASSUME NEW b \in Connections, b # c
        PROVE  ConnOK(b)'
    BY <1>1, <2>1, <2>4, OthersOK
  <2>5. Excused \subseteq Excused'
    BY <1>1, <2>1 DEF Excused
  <2>6. KeysOK(table', fd', conn', Excused')
    <3>1. \A b \in Connections :
            /\ conn[b].attempts <= conn'[b].attempts
            /\ conn'[b].state = "NEW" => conn[b].state = "NEW"
      BY <2>1 DEF IInv, Typed
    <3> HIDE DEF Excused
    <3> QED
      BY <2>1, <2>2, <2>5, <3>1, KeysKept
  <2> QED
    BY <2>2, <2>3, <2>4, <2>6 DEF IInv
<1> QED
  BY <1>2, <1>3, <1>4 DEF Handle

(* Between dispatches, or at the end of one, a connection is done with. *)
LEMMA DoneStep ==
  ASSUME IInv, NEW c \in Connections, busy = Idle \/ busy[1] = c,
         loop = "running", conn[c].state \notin {"NEW", "CLOSED"},
         conn' = [conn EXCEPT ![c].state = "DONE"],
         busy' = Idle, UNCHANGED <<fd, table, loop>>, lost' = Excused
  PROVE  IInv'
<1>1. Typed'
  BY DEF IInv, Typed, States
<1>2. /\ \A b \in Connections \ {c} : conn'[b] = conn[b]
      /\ conn'[c].backend = conn[c].backend /\ conn'[c].pending = conn[c].pending
      /\ conn'[c].attempts = conn[c].attempts /\ conn'[c].state = "DONE"
  BY DEF IInv, Typed
<1>3. ConnOK(c)'
  BY <1>2 DEF IInv, ConnOK, BackendStates, Within
<1>4. ASSUME NEW b \in Connections, b # c
      PROVE  ConnOK(b)'
  BY <1>2, <1>4, OthersOK
<1>5. Excused' = Excused
  BY DEF Excused
<1>6. KeysOK(table', fd', conn', Excused')
  <2>1. \A b \in Connections :
          /\ conn[b].attempts <= conn'[b].attempts
          /\ conn'[b].state = "NEW" => conn[b].state = "NEW"
    BY <1>2 DEF IInv, Typed
  <2> HIDE DEF Excused
  <2> QED
    BY <1>1, <1>5, <2>1, KeysKept
<1> QED
  BY <1>1, <1>3, <1>4, <1>6 DEF IInv

LEMMA ShutdownStep ==
  ASSUME IInv, busy = Idle, NEW how \in {"stopped", "crashed"}, Shutdown(how)
  PROVE  IInv'
<1>1. /\ loop' = how /\ DOMAIN fd' = {} /\ DOMAIN table' = {}
      /\ UNCHANGED <<conn, busy, lost>>
  BY DEF Shutdown
<1>2. Typed'
  BY <1>1 DEF IInv, Typed
<1>3. ASSUME NEW c \in Connections
      PROVE  ConnOK(c)'
  <2>1. ConnOK(c) /\ busy' = Idle /\ loop' # "running"
    BY <1>1 DEF IInv
  <2> QED
    BY <1>1, <2>1 DEF ConnOK, Within
<1> QED
  BY <1>1, <1>2, <1>3 DEF IInv, KeysOK

LEMMA AcceptStep ==
  ASSUME IInv, NEW c \in Connections, Accept(c)
  PROVE  IInv'
<1>1. busy = Idle /\ loop = "running" /\ conn[c].state = "NEW"
  BY DEF Accept
<1>2. PICK d \in NewDescriptors(fd) :
        IF d \in DOMAIN table THEN Shutdown("crashed")
        ELSE /\ conn' = [conn EXCEPT ![c].state = "READING_REQUEST"]
             /\ fd' = With(fd, Client(c), d)
             /\ table' = With(table, d, [sock |-> Client(c), mask |-> "READ"])
             /\ epoll' = With(epoll, d, "READ")
             /\ UNCHANGED <<busy, loop, lost>>
  BY DEF Accept
<1>3. CASE d \in DOMAIN table
  BY <1>1, <1>2, <1>3, ShutdownStep
<1>4. CASE d \notin DOMAIN table
  <2>1. /\ conn' = [conn EXCEPT ![c].state = "READING_REQUEST"]
        /\ fd' = With(fd, <<c, 0>>, d)
        /\ table' = With(table, d, [sock |-> <<c, 0>>, mask |-> "READ"])
        /\ UNCHANGED <<busy, loop, lost>>
    BY <1>2, <1>4 DEF Client
  <2>2. /\ \A b \in Connections \ {c} : conn'[b] = conn[b]
        /\ conn'[c].backend = 0 /\ conn'[c].pending = 0
        /\ conn'[c].attempts = 0 /\ conn[c].attempts = 0
        /\ conn'[c].state = "READING_REQUEST"
    <3>1. /\ conn[c].backend = 0 /\ conn[c].pending = 0 /\ conn[c].attempts = 0
          /\ conn \in [Connections -> [state : States, backend : Nat, pending : Nat,
                                       attempts : Nat]]
      BY <1>1 DEF IInv, Typed, ConnOK
    <3> QED
      BY <2>1, <3>1
  <2>3. /\ DOMAIN fd' = DOMAIN fd \cup {<<c, 0>>}
        /\ fd'[<<c, 0>>] = d
        /\ \A s \in DOMAIN fd : s # <<c, 0>> => fd'[s] = fd[s]
    BY <2>1 DEF With
  <2>4. Typed'
    <3>1. DOMAIN fd' \subseteq Connections \X Nat
      BY <2>3 DEF IInv, Typed
    <3> QED
      BY <2>1, <3>1 DEF IInv, Typed, States
  <2>5. ConnOK(c)'
    <3>1. \A k \in Nat : <<c, k>> \notin DOMAIN fd
      BY <1>1 DEF IInv, ConnOK
    <3> QED
      BY <1>1, <2>1, <2>2, <2>3, <3>1 DEF ConnOK, BackendStates, Within
  <2>6. ASSUME NEW b \in Connections, b # c
        PROVE  ConnOK(b)'
    <3>1. \A k \in Nat : <<b, k>> \in DOMAIN fd' <=> <<b, k>> \in DOMAIN fd
      BY <2>3, <2>6
    <3> QED
      BY <1>1, <2>1, <2>2, <2>6, <3>1, OthersOK
  <2>7. KeysOK(table', fd', conn', Excused')
    <3> SUFFICES ASSUME NEW e \in DOMAIN table'
                 PROVE  KeyOK(table', e, fd', conn', Excused')
      BY DEF KeysOK
    <3>1. Excused' = lost /\ Excused = lost
      BY <1>1, <2>1 DEF Excused
    <3>2. CASE e = d
      <4>1. table'[e] = [sock |-> <<c, 0>>, mask |-> "READ"]
        BY <2>1, <3>2 DEF With
      <4>2. table'[e] = [sock |-> <<c, 0>>, mask |-> table'[e].mask]
        BY <4>1
      <4> HIDE DEF Excused
      <4> QED
        BY <2>2, <2>3, <3>2, <4>2 DEF KeyOK
    <3>3. CASE e # d
      <4>1. e \in DOMAIN table /\ table'[e] = table[e]
        BY <2>1, <3>3 DEF With
      <4>2. KeyOK(table, e, fd, conn, lost)
        BY <3>1, <4>1 DEF IInv, KeysOK
      <4>3. PICK b \in Connections, k \in Nat :
              /\ table[e] = [sock |-> <<b, k>>, mask |-> table[e].mask]
              /\ k <= conn[b].attempts /\ conn[b].state # "NEW"
              /\ <<b, k>> \in DOMAIN fd => fd[<<b, k>>] = e
              /\ <<b, k>> \in DOMAIN fd \cup lost
        BY <4>2 DEF KeyOK
      <4>4. b # c
        BY <1>1, <4>3
      <4>5. /\ conn'[b] = conn[b]
            /\ <<b, k>> \in DOMAIN fd' => fd'[<<b, k>>] = e
            /\ <<b, k>> \in DOMAIN fd' \cup Excused'
        BY <2>2, <2>3, <3>1, <4>3, <4>4
      <4> HIDE DEF Excused
      <4> QED
        BY <4>1, <4>3, <4>5 DEF KeyOK
    <3> QED
      BY <3>2, <3>3
  <2> QED
    BY <2>4, <2>5, <2>6, <2>7 DEF IInv
<1> QED
  BY <1>3, <1>4

LEMMA ReapStep ==
  ASSUME IInv, NEW c \in Connections, Reap(c)
  PROVE  IInv'
<1>1. /\ busy = Idle /\ loop = "running" /\ conn[c].state = "DONE"
      /\ table' = Without(table, Reaped(c)) /\ fd' = Without(fd, Named(c))
      /\ conn' = [conn EXCEPT ![c].state = "CLOSED"]
      /\ UNCHANGED <<busy, loop, lost>>
  BY DEF Reap
<1>2. /\ DOMAIN fd' = DOMAIN fd \ Named(c)
      /\ \A s \in DOMAIN fd' : s \in DOMAIN fd /\ fd'[s] = fd[s]
      /\ \A d \in DOMAIN table' : d \in DOMAIN table \ Reaped(c) /\ table'[d] = table[d]
  BY <1>1 DEF Without, Restrict
<1>3. Typed'
  BY <1>1, <1>2 DEF IInv, Typed, States
<1>4. /\ \A b \in Connections \ {c} : conn'[b] = conn[b]
      /\ conn'[c].backend = conn[c].backend /\ conn'[c].pending = conn[c].pending
      /\ conn'[c].attempts = conn[c].attempts /\ conn'[c].state = "CLOSED"
  BY <1>1 DEF IInv, Typed
<1>5. ConnOK(c)'
  <2>1. \A k \in Nat : <<c, k>> \notin DOMAIN fd'
    BY <1>1, <1>2 DEF IInv, ConnOK, Named, Client
  <2> QED
    BY <1>1, <1>4, <2>1 DEF IInv, ConnOK, BackendStates, Within
<1>6. ASSUME NEW b \in Connections, b # c
      PROVE  ConnOK(b)'
  <2>1. \A k \in Nat : <<b, k>> \in DOMAIN fd' <=> <<b, k>> \in DOMAIN fd
    BY <1>2, <1>6 DEF Named, Client
  <2> QED
    BY <1>1, <1>4, <1>6, <2>1, OthersOK
<1>7. KeysOK(table', fd', conn', Excused')
  <2>1. Excused' = Excused
    BY <1>1 DEF Excused
  <2>2. \A b \in Connections :
          /\ conn[b].attempts <= conn'[b].attempts
          /\ conn'[b].state = "NEW" => conn[b].state = "NEW"
    BY <1>4 DEF IInv, Typed
  <2>3. \A d \in DOMAIN table', s \in DOMAIN fd : fd[s] = d => s \in DOMAIN fd'
    BY <1>2 DEF Reaped
  <2> HIDE DEF Excused
  <2> QED
    BY <1>2, <1>3, <2>1, <2>2, <2>3, KeysKept
<1> QED
  BY <1>3, <1>5, <1>6, <1>7 DEF IInv

-----------------------------------------------------------------------------
(* The invariant. *)

LEMMA NextIInv == IInv /\ [Next]_vars => IInv'
<1> SUFFICES ASSUME IInv, [Next]_vars
             PROVE  IInv'
  OBVIOUS
<1>1. CASE UNCHANGED vars
  <2>1. UNCHANGED <<conn, fd, table, busy, loop, lost>>
    BY <1>1 DEF vars
  <2>2. Typed' /\ \A c \in Connections : ConnOK(c)'
    BY <2>1 DEF IInv, Typed, ConnOK, Within
  <2>3. KeysOK(table', fd', conn', Excused')
    BY <2>1 DEF IInv, Excused, Pending
  <2> QED
    BY <2>2, <2>3 DEF IInv
<1>2. ASSUME NEW c \in Connections, Raise(c)
      PROVE  IInv'
  <2>1. /\ busy # Idle /\ busy[1] = c
        /\ conn[c].state \notin {"NEW", "CLOSED"} /\ loop = "running"
    BY <1>2 DEF Raise, Within, IInv, ConnOK
  <2>2. lost' = Excused
    BY <1>2, <2>1 DEF Raise, Excused
  <2> QED
    BY <1>2, <2>1, <2>2, DoneStep DEF Raise
<1>3. ASSUME NEW c \in Connections, Expire(c)
      PROVE  IInv'
  <2>1. lost' = Excused
    BY <1>3 DEF Expire, Excused
  <2> QED
    BY <1>3, <2>1, DoneStep DEF Expire
<1>4. CASE Stop
  BY <1>4, ShutdownStep DEF Stop
<1> QED
  BY <1>1, <1>2, <1>3, <1>4, HandleStep, FailBackendStep, SettleStep, AcceptStep, ReapStep
     DEF Next

THEOREM Invariant == Spec => []IInv
BY InitIInv, NextIInv, PTL DEF Spec

(* No descriptor leaks, whatever failed, was retried, raised or timed out  *)
(* (_fail_backend, cleanup): an open socket is one that its connection,    *)
(* not yet reaped, still names.                                            *)
THEOREM NothingLeaks == Spec => []NoDescriptorLeak
<1>1. IInv => NoDescriptorLeak
  <2>1. Attempts \subseteq Nat
    BY SelectorAssumption DEF Attempts
  <2> QED
    BY <2>1 DEF IInv, ConnOK, NoDescriptorLeak
<1> QED
  BY <1>1, Invariant, PTL

(* Between dispatches the selector has a key of a closed socket only if    *)
(* that was lost (_flush_pending_unregister, _transition, _reap).          *)
THEOREM StaleKeysAreLost == Spec => []StaleOnlyIfLost
<1>1. IInv => StaleOnlyIfLost
  BY KeySocket DEF StaleOnlyIfLost, Excused
<1> QED
  BY <1>1, Invariant, PTL

(* The reactor only goes down when a client gets the number of a socket    *)
(* that was lost (register in _accept).                                    *)
THEOREM OnlyLostKeysCrash == Spec => CrashOnlyIfLost
<1> DEFINE Step == loop' = "crashed" => \E d \in DOMAIN table : table[d].sock \in lost
<1>1. IInv /\ [Next]_vars => [Step]_loop
  <2> SUFFICES ASSUME IInv, Next, loop' # loop, loop' = "crashed"
               PROVE  \E d \in DOMAIN table : table[d].sock \in lost
    BY DEF vars
  <2>1. PICK c \in Connections : Accept(c)
    <3>1. ASSUME NEW c \in Connections,
                 Handle(c) \/ FailBackend(c) \/ Raise(c) \/ Settle(c) \/ Expire(c) \/ Reap(c)
          PROVE  loop' = loop
      <4>1. CASE Handle(c)
        BY <4>1 DEF Handle, RequestFails, RequestComplete, HandleClientWritable,
                    BackendProgress, BackendFails, Goto
      <4>2. CASE FailBackend(c) \/ Raise(c) \/ Settle(c) \/ Expire(c) \/ Reap(c)
        BY <4>2 DEF FailBackend, Raise, Settle, Expire, Reap
      <4> QED
        BY <3>1, <4>1, <4>2
    <3>2. ~Stop
      BY DEF Stop, Shutdown
    <3> QED
      BY <3>1, <3>2 DEF Next
  <2>2. busy = Idle
    BY <2>1 DEF Accept
  <2>3. PICK d \in NewDescriptors(fd) : d \in DOMAIN table
    BY <2>1 DEF Accept
  <2>4. \A s \in DOMAIN fd : fd[s] # d
    BY <2>3 DEF NewDescriptors, Free, Range
  <2>5. table[d].sock \in lost
    BY <2>2, <2>3, <2>4, KeySocket DEF Excused
  <2> QED
    BY <2>3, <2>5
<1> QED
  BY <1>1, Invariant, PTL DEF Spec, CrashOnlyIfLost

-----------------------------------------------------------------------------
(* Who waits is watched.  The selector's calls for a socket change the key *)
(* under its descriptor and no other, so a connection's keys are its own   *)
(* business: its client's key is there from accept to reap, and that of    *)
(* its backend socket is put there at the end of the dispatch that opened  *)
(* it, unless one of a lost socket is in the way.                          *)

OneEach == \A s, t \in DOMAIN fd : fd[s] = fd[t] => s = t

Sound(sel) ==
  /\ Ordered(sel)
  /\ DOMAIN sel.epoll \subseteq DOMAIN sel.table
  /\ \A d \in DOMAIN sel.epoll : sel.epoll[d] = sel.table[d].mask
  /\ \A d \in DOMAIN sel.table :
       sel.table[d].sock \in DOMAIN fd => d \in DOMAIN sel.epoll

SameBut(sel, r, d0) ==
  \A d : d # d0 =>
    /\ d \in DOMAIN r.table <=> d \in DOMAIN sel.table
    /\ d \in DOMAIN sel.table => r.table[d] = sel.table[d]

(* Under the descriptor of s in keys is its own key, for mask. *)
Own(keys, s, mask) ==
  fd[s] \in DOMAIN keys /\ keys[fd[s]].sock = s /\ keys[fd[s]].mask = mask

OwnOrLost(keys, s, mask) ==
  \/ Own(keys, s, mask)
  \/ fd[s] \in DOMAIN keys /\ keys[fd[s]].sock \in lost

LEMMA RegisterSound ==
  ASSUME NEW sel, Sound(sel), NEW c \in Connections, NEW k \in Nat, NEW mask,
         <<c, k>> \in DOMAIN fd, k <= conn[c].attempts, conn[c].state # "NEW",
         ~Has(sel, <<c, k>>)
  PROVE  LET r == Register(sel, <<c, k>>, mask)
         IN /\ Sound(r) /\ r.raised = sel.raised
            /\ SameBut(sel, r, fd[<<c, k>>]) /\ Own(r.table, <<c, k>>, mask)
<1> DEFINE s == <<c, k>>
           d == fd[s]
           key == [sock |-> s, mask |-> mask]
           keys == With(sel.table, d, key)
           list == With(sel.epoll, d, mask)
           r == Register(sel, s, mask)
<1>1. r = [table |-> keys, epoll |-> list, raised |-> sel.raised]
  <2>1. [sel EXCEPT !.table = keys, !.epoll = list]
          = [table |-> keys, epoll |-> list, raised |-> sel.raised]
    BY NewLists DEF Sound, Ordered
  <2> QED
    BY <2>1 DEF Register, With
<1>2. Ordered(r)
  BY RegisterOrdered DEF Sound
<1>3. /\ DOMAIN keys = DOMAIN sel.table \cup {d} /\ keys[d] = key
      /\ \A e \in DOMAIN sel.table : e # d => keys[e] = sel.table[e]
      /\ DOMAIN list = DOMAIN sel.epoll \cup {d} /\ list[d] = mask
      /\ \A e \in DOMAIN sel.epoll : e # d => list[e] = sel.epoll[e]
  BY DEF With
<1>4. key.sock = s /\ key.mask = mask
  OBVIOUS
<1>5. r.table = keys /\ r.epoll = list /\ r.raised = sel.raised
  BY <1>1
<1> HIDE DEF r, keys, list, key
<1>6. Sound(r)
  BY <1>2, <1>3, <1>4, <1>5 DEF Sound
<1>7. SameBut(sel, r, d) /\ Own(r.table, s, mask)
  BY <1>3, <1>4, <1>5 DEF SameBut, Own
<1> QED
  BY <1>5, <1>6, <1>7 DEF r

LEMMA ModifySound ==
  ASSUME NEW sel, Sound(sel), OneEach, NEW s \in DOMAIN fd, NEW mask, Has(sel, s)
  PROVE  LET r == Modify(sel, s, mask)
         IN /\ Sound(r) /\ SameBut(sel, r, fd[s])
            /\ sel.table[fd[s]].sock = s => r.raised = sel.raised
            /\ r.raised
               \/ /\ r.raised = sel.raised /\ fd[s] \in DOMAIN r.table
                  /\ r.table[fd[s]].sock = sel.table[fd[s]].sock
                  /\ r.table[fd[s]].mask = mask
<1> DEFINE d == fd[s]
           r == Modify(sel, s, mask)
<1>1. Ordered(r)
  BY ModifyOrdered DEF Sound
<1>2. CASE sel.table[d].mask = mask
  <2>1. r = sel
    BY <1>2 DEF Modify
  <2> QED
    BY <2>1, <1>2 DEF SameBut, Has
<1>3. CASE sel.table[d].mask # mask /\ d \in DOMAIN sel.epoll
  <2> DEFINE keys == [sel.table EXCEPT ![d].mask = mask]
             list == [sel.epoll EXCEPT ![d] = mask]
  <2>1. r = [table |-> keys, epoll |-> list, raised |-> sel.raised]
    <3>1. r = [sel EXCEPT !.table[d].mask = mask, !.epoll[d] = mask]
      BY <1>3 DEF Modify
    <3> QED
      BY <3>1 DEF Sound, Ordered, IsSelector
  <2>2. PICK c \in Connections, k \in Nat :
          sel.table[d] = [sock |-> <<c, k>>, mask |-> sel.table[d].mask]
    BY DEF Sound, Ordered, KeysOK, KeyOK, Has
  <2>3. d \in DOMAIN sel.table
    BY DEF Has
  <2>4. /\ DOMAIN keys = DOMAIN sel.table
        /\ keys[d].sock = sel.table[d].sock /\ keys[d].mask = mask
        /\ \A e \in DOMAIN sel.table : e # d => keys[e] = sel.table[e]
        /\ DOMAIN list = DOMAIN sel.epoll /\ list[d] = mask
        /\ \A e \in DOMAIN sel.epoll : e # d => list[e] = sel.epoll[e]
    BY <1>3, <2>2, <2>3
  <2>5. r.table = keys /\ r.epoll = list /\ r.raised = sel.raised
    BY <2>1
  <2> HIDE DEF r, keys, list
  <2>6. Sound(r)
    BY <1>1, <2>3, <2>4, <2>5 DEF Sound
  <2>7. SameBut(sel, r, d)
    BY <2>4, <2>5 DEF SameBut
  <2> QED
    BY <2>3, <2>4, <2>5, <2>6, <2>7 DEF r
<1>4. CASE sel.table[d].mask # mask /\ d \notin DOMAIN sel.epoll
  <2> DEFINE keys == Without(sel.table, {d})
  <2>1. r = [table |-> keys, epoll |-> sel.epoll, raised |-> TRUE]
    <3> HIDE DEF keys
    <3>1. r = [sel EXCEPT !.table = keys, !.raised = TRUE]
      BY <1>4 DEF Modify, Has, keys
    <3> QED
      BY <3>1 DEF Sound, Ordered, IsSelector
  <2>2. /\ DOMAIN keys = DOMAIN sel.table \ {d}
        /\ \A e \in DOMAIN keys : keys[e] = sel.table[e]
    BY DEF Without, Restrict
  <2>3. r.table = keys /\ r.epoll = sel.epoll /\ r.raised
    BY <2>1
  <2> HIDE DEF r, keys
  <2>4. Sound(r)
    BY <1>1, <1>4, <2>2, <2>3 DEF Sound
  <2>5. SameBut(sel, r, d)
    BY <2>2, <2>3 DEF SameBut
  <2>6. sel.table[d].sock # s
    BY <1>4 DEF Sound, Has
  <2> QED
    BY <2>3, <2>4, <2>5, <2>6 DEF r
<1> QED
  BY <1>2, <1>3, <1>4

LEMMA UnregisterLists ==
  ASSUME NEW sel, IsSelector(sel), NEW s
  PROVE  LET r == Unregister(sel, s)
             gone == KeysOf(sel.table, s)
         IN /\ IsSelector(r) /\ r.raised = sel.raised
            /\ DOMAIN r.table = DOMAIN sel.table \ gone
            /\ \A d \in DOMAIN r.table : r.table[d] = sel.table[d]
            /\ DOMAIN r.epoll = DOMAIN sel.epoll \ gone
            /\ \A d \in DOMAIN r.epoll : r.epoll[d] = sel.epoll[d]
<1> DEFINE keys == Without(sel.table, KeysOf(sel.table, s))
           list == Without(sel.epoll, KeysOf(sel.table, s))
           r == Unregister(sel, s)
<1>1. r = [table |-> keys, epoll |-> list, raised |-> sel.raised]
  <2>1. [sel EXCEPT !.table = keys, !.epoll = list]
          = [table |-> keys, epoll |-> list, raised |-> sel.raised]
    BY NewLists
  <2> QED
    BY <2>1 DEF Unregister, With
<1>2. /\ DOMAIN keys = DOMAIN sel.table \ KeysOf(sel.table, s)
      /\ \A d \in DOMAIN keys : keys[d] = sel.table[d]
      /\ DOMAIN list = DOMAIN sel.epoll \ KeysOf(sel.table, s)
      /\ \A d \in DOMAIN list : list[d] = sel.epoll[d]
  BY DEF Without, Restrict
<1> HIDE DEF keys, list
<1>3. r.table = keys /\ r.epoll = list /\ r.raised = sel.raised /\ IsSelector(r)
  BY <1>1 DEF IsSelector
<1> QED
  BY <1>2, <1>3

LEMMA UnregisterSound ==
  ASSUME NEW sel, Sound(sel), NEW s \in DOMAIN fd
  PROVE  LET r == Unregister(sel, s)
         IN Sound(r) /\ SameBut(sel, r, fd[s]) /\ r.raised = sel.raised
<1> DEFINE r == Unregister(sel, s)
<1>1. KeysOf(sel.table, s) = {fd[s]}
  BY DEF KeysOf
<1>2. /\ r.raised = sel.raised
      /\ DOMAIN r.table = DOMAIN sel.table \ {fd[s]}
      /\ \A d \in DOMAIN r.table : r.table[d] = sel.table[d]
      /\ DOMAIN r.epoll = DOMAIN sel.epoll \ {fd[s]}
      /\ \A d \in DOMAIN r.epoll : r.epoll[d] = sel.epoll[d]
  BY <1>1, UnregisterLists DEF Sound, Ordered
<1>3. Ordered(r)
  BY UnregisterOrdered DEF Sound
<1> HIDE DEF r
<1>4. Sound(r)
  BY <1>2, <1>3 DEF Sound
<1>5. SameBut(sel, r, fd[s])
  BY <1>2 DEF SameBut
<1> QED
  BY <1>2, <1>4, <1>5 DEF r

(* A key under an open socket's descriptor is its own or a lost one's. *)
LEMMA OwnOrLostKey ==
  ASSUME NEW sel, Sound(sel), OneEach, NEW s \in DOMAIN fd, Has(sel, s)
  PROVE  sel.table[fd[s]].sock \in {s} \cup lost
<1>1. PICK c \in Connections, k \in Nat :
        /\ sel.table[fd[s]] = [sock |-> <<c, k>>, mask |-> sel.table[fd[s]].mask]
        /\ <<c, k>> \in DOMAIN fd => fd[<<c, k>>] = fd[s]
        /\ <<c, k>> \in DOMAIN fd \cup lost
  BY DEF Sound, Ordered, KeysOK, KeyOK, Has
<1>2. sel.table[fd[s]].sock = <<c, k>>
  BY <1>1
<1> QED
  BY <1>1, <1>2 DEF OneEach

LEMMA EnsureSound ==
  ASSUME NEW sel, Sound(sel), OneEach, NEW c \in Connections, NEW k \in Nat, NEW mask,
         <<c, k>> \in DOMAIN fd, k <= conn[c].attempts, conn[c].state # "NEW"
  PROVE  LET r == Ensure(sel, <<c, k>>, mask)
         IN /\ Sound(r) /\ SameBut(sel, r, fd[<<c, k>>])
            /\ r.raised \/ r.raised = sel.raised
            /\ r.raised \/ OwnOrLost(r.table, <<c, k>>, mask)
<1> DEFINE s == <<c, k>>
           r == Ensure(sel, s, mask)
<1>1. CASE Has(sel, s)
  <2>1. r = Modify(sel, s, mask)
    BY <1>1 DEF Ensure
  <2>2. sel.table[fd[s]].sock \in {s} \cup lost
    BY <1>1, OwnOrLostKey
  <2>3. /\ Sound(r) /\ SameBut(sel, r, fd[s])
        /\ r.raised
           \/ /\ r.raised = sel.raised /\ fd[s] \in DOMAIN r.table
              /\ r.table[fd[s]].sock = sel.table[fd[s]].sock
              /\ r.table[fd[s]].mask = mask
    BY <1>1, <2>1, ModifySound
  <2> HIDE DEF r
  <2>4. r.raised \/ OwnOrLost(r.table, s, mask)
    BY <2>2, <2>3 DEF OwnOrLost, Own
  <2> QED
    BY <2>3, <2>4 DEF r
<1>2. CASE ~Has(sel, s)
  <2>1. r = Register(sel, s, mask)
    BY <1>2 DEF Ensure
  <2>2. /\ Sound(r) /\ r.raised = sel.raised
        /\ SameBut(sel, r, fd[s]) /\ Own(r.table, s, mask)
    BY <1>2, <2>1, RegisterSound
  <2> HIDE DEF r
  <2> QED
    BY <2>2 DEF OwnOrLost, r
<1> QED
  BY <1>1, <1>2

-----------------------------------------------------------------------------
(* The second invariant. *)

Busy(c) == busy # Idle /\ busy[1] = c

Tables ==
  /\ DOMAIN epoll \subseteq DOMAIN table
  /\ \A d \in DOMAIN epoll : epoll[d] = table[d].mask
  /\ \A d \in DOMAIN table : table[d].sock \in DOMAIN fd => d \in DOMAIN epoll

LostOK ==
  \A c \in Connections :
    /\ conn[c].pending <= conn[c].attempts
    /\ \A k \in Nat : <<c, k>> \in lost =>
         /\ k # 0 /\ k <= conn[c].attempts /\ <<c, k>> \notin DOMAIN fd
         /\ Busy(c) => k # conn[c].pending

(* The client's key, and that of the backend socket between dispatches. *)
ClientWatched(c) ==
  /\ Client(c) \in DOMAIN fd /\ fd[Client(c)] \in DOMAIN table
  /\ table[fd[Client(c)]].sock = Client(c)
  /\ ~Busy(c) /\ conn[c].state = "READING_REQUEST" =>
       table[fd[Client(c)]].mask = "READ"
  /\ ~Busy(c) /\ conn[c].state = "FORWARDING_RESPONSE" =>
       table[fd[Client(c)]].mask = "WRITE"

BackendWatched(c) ==
  /\ conn[c].state \in DOMAIN Waits => conn[c].pending = 0
  /\ conn[c].state \in BackendStates =>
       OwnOrLost(table, <<c, conn[c].backend>>, Waits[conn[c].state])

(* What is left to be done by Settle. *)
Unsettled(c) ==
  LET sock == <<c, conn[c].backend>>
  IN /\ conn[c].state # "READING_REQUEST"
     /\ conn[c].pending # 0 =>
          conn[c].state \in {"CONNECTING_TO_BACKEND", "FORWARDING_REQUEST", "DONE"}
     /\ conn[c].pending = 0 /\ conn[c].state \in BackendStates =>
          /\ conn[c].state # busy[2]
          /\ \A d \in DOMAIN table : table[d].sock = sock => table[d].mask = "WRITE"
          /\ conn[c].state = "READING_RESPONSE" => Own(table, sock, "WRITE")
     /\ conn[c].state = "FORWARDING_RESPONSE" =>
          /\ conn[c].state # busy[2]
          /\ conn[c].backend # 0 /\ sock \in DOMAIN fd

WatchedOK(c) ==
  loop = "running" =>
    /\ conn[c].state \notin {"NEW", "CLOSED"} => ClientWatched(c)
    /\ ~Busy(c) => BackendWatched(c)
    /\ Within(c, "settle") => Unsettled(c)

WInv == OneEach /\ Tables /\ LostOK /\ \A c \in Connections : WatchedOK(c)

-----------------------------------------------------------------------------
(* Settle does what is left. *)

(* The keys under the descriptors of open sockets other than sock, but for *)
(* those of c's pending one. *)
Kept(c, sock, sel) ==
  \A s \in DOMAIN fd :
    s # sock /\ fd[s] \in DOMAIN table /\ table[fd[s]].sock \notin Pending(c) =>
      fd[s] \in DOMAIN sel.table /\ sel.table[fd[s]] = table[fd[s]]

LEMMA FlushSound ==
  ASSUME IInv, WInv, NEW c \in Connections, Within(c, "settle")
  PROVE  LET u == FlushPendingUnregister(Present, c)
             sock == <<c, conn[c].backend>>
         IN /\ Sound(u) /\ Kept(c, sock, u)
            /\ conn[c].pending = 0 => u = Present
            /\ conn[c].pending # 0 /\ conn[c].state \in BackendStates =>
                 u.raised \/ OwnOrLost(u.table, sock, "WRITE")
<1> DEFINE x == conn[c]
           s == <<c, x.pending>>
           sock == <<c, x.backend>>
           u == Unregister(Present, s)
           f == FlushPendingUnregister(Present, c)
<1>1. /\ ConnOK(c) /\ loop = "running" /\ ~Within(c, "raise")
      /\ x.pending \in Nat /\ x.backend \in Nat /\ x.attempts \in Nat
      /\ x.pending # 0 /\ x.state \in BackendStates =>
           x.state \in {"CONNECTING_TO_BACKEND", "FORWARDING_REQUEST"}
  BY DEF IInv, Typed, ConnOK, Within, WInv, WatchedOK, Unsettled, BackendStates
<1>2. /\ IsSelector(Present) /\ Present.table = table /\ Present.epoll = epoll
      /\ Ordered(f)
  BY FlushOrdered DEF IsSelector, Present
<1>3. CASE x.pending = 0
  <2>1. f = Present
    BY <1>3 DEF FlushPendingUnregister
  <2>2. Sound(f)
    BY <1>2, <2>1 DEF Sound, WInv, Tables
  <2>3. Kept(c, sock, f)
    BY <1>2, <2>1 DEF Kept
  <2> QED
    BY <1>3, <2>1, <2>2, <2>3
<1>4. CASE x.pending # 0
  <2>1. s \notin DOMAIN fd
    BY <1>1, <1>4 DEF ConnOK
  <2> DEFINE gone == {d \in DOMAIN table : table[d].sock = s}
  <2>2. KeysOf(Present.table, s) = gone
    BY <1>2, <2>1 DEF KeysOf
  <2>3. /\ IsSelector(u)
        /\ DOMAIN u.table = DOMAIN table \ gone
        /\ \A d \in DOMAIN u.table : u.table[d] = table[d]
        /\ DOMAIN u.epoll = DOMAIN epoll \ gone
        /\ \A d \in DOMAIN u.epoll : u.epoll[d] = epoll[d]
    <3>1. LET gone1 == KeysOf(Present.table, s)
          IN /\ IsSelector(u)
             /\ DOMAIN u.table = DOMAIN Present.table \ gone1
             /\ \A d \in DOMAIN u.table : u.table[d] = Present.table[d]
             /\ DOMAIN u.epoll = DOMAIN Present.epoll \ gone1
             /\ \A d \in DOMAIN u.epoll : u.epoll[d] = Present.epoll[d]
      BY <1>2, UnregisterLists
    <3> HIDE DEF u
    <3> QED
      BY <1>2, <2>2, <3>1
  <2>4. Ordered(u)
    BY <1>4, PendingUnregistered
  <2>5. Sound(u)
    BY <2>3, <2>4 DEF Sound, WInv, Tables
  <2>6. \A t \in DOMAIN fd :
          fd[t] \in DOMAIN table /\ table[fd[t]].sock \notin Pending(c) =>
            fd[t] \in DOMAIN u.table /\ u.table[fd[t]] = table[fd[t]]
    <3>1. Pending(c) = {s}
      BY <1>4 DEF Pending, Client
    <3> QED
      BY <2>3, <3>1
  <2>7. CASE x.state \in {"CONNECTING_TO_BACKEND", "FORWARDING_REQUEST"} /\ x.backend # 0
    <3> DEFINE e == Ensure(u, sock, "WRITE")
    <3>1. f = e
      BY <1>4, <2>7 DEF FlushPendingUnregister
    <3>2. sock \in DOMAIN fd /\ x.backend <= x.attempts /\ x.state # "NEW"
      BY <1>1, <2>7 DEF ConnOK, BackendStates
    <3>3. /\ Sound(e) /\ SameBut(u, e, fd[sock])
          /\ e.raised \/ OwnOrLost(e.table, sock, "WRITE")
      BY <1>1, <2>5, <3>2, EnsureSound DEF WInv
    <3> HIDE DEF e, u, f
    <3>4. Kept(c, sock, e)
      BY <2>6, <3>2, <3>3 DEF Kept, SameBut, WInv, OneEach
    <3> QED
      BY <1>4, <3>1, <3>3, <3>4 DEF f
  <2>8. CASE ~(x.state \in {"CONNECTING_TO_BACKEND", "FORWARDING_REQUEST"} /\ x.backend # 0)
    <3>1. f = u
      BY <1>4, <2>8 DEF FlushPendingUnregister
    <3>2. x.state \notin BackendStates
      BY <1>1, <1>4, <2>8 DEF ConnOK, BackendStates
    <3>3. Kept(c, sock, u)
      BY <2>6 DEF Kept
    <3> HIDE DEF u, f
    <3> QED
      BY <1>4, <2>5, <3>1, <3>2, <3>3 DEF f
  <2> QED
    BY <2>7, <2>8
<1> QED
  BY <1>3, <1>4

Settled(c, sel) ==
  LET sock == <<c, conn[c].backend>>
      d == fd[Client(c)]
  IN /\ Sound(sel)
     /\ \A s \in DOMAIN fd \ {sock, Client(c)} :
          fd[s] \in DOMAIN table /\ table[fd[s]].sock \notin Pending(c) =>
            fd[s] \in DOMAIN sel.table /\ sel.table[fd[s]] = table[fd[s]]
     /\ d \in DOMAIN sel.table /\ sel.table[d].sock = Client(c)
     /\ sel.raised \/ conn[c].state # "FORWARDING_RESPONSE" \/ sel.table[d].mask = "WRITE"
     /\ sel.raised \/ conn[c].state \notin BackendStates
          \/ OwnOrLost(sel.table, sock, Waits[conn[c].state])

LEMMA TransitionSound ==
  ASSUME IInv, WInv, NEW c \in Connections, Within(c, "settle")
  PROVE  Settled(c, Transition(FlushPendingUnregister(Present, c), c, busy[2]))
<1> DEFINE x == conn[c]
           sock == <<c, x.backend>>
           prev == busy[2]
           u == FlushPendingUnregister(Present, c)
           sel == Transition(u, c, prev)
           cl == Client(c)
           d == fd[cl]
<1>1. /\ ConnOK(c) /\ loop = "running" /\ ~Within(c, "raise")
      /\ x.pending \in Nat /\ x.backend \in Nat /\ x.attempts \in Nat
      /\ x.state \notin {"NEW", "CLOSED"}
  BY DEF IInv, Typed, ConnOK, Within
<1>2. Unsettled(c) /\ ClientWatched(c) /\ OneEach
  BY <1>1 DEF WInv, WatchedOK
<1>3. /\ Sound(u) /\ Kept(c, sock, u)
      /\ x.pending = 0 => u = Present
      /\ x.pending # 0 /\ x.state \in BackendStates =>
           u.raised \/ OwnOrLost(u.table, sock, "WRITE")
  BY FlushSound
<1>4. /\ Present.table = table /\ ~Present.raised
  BY DEF Present
<1>5. cl \in DOMAIN fd /\ d \in DOMAIN table /\ table[d].sock = cl /\ cl \notin Pending(c)
  BY <1>2 DEF ClientWatched, Pending
<1>6. x.state \in BackendStates =>
        /\ x.backend # 0 /\ sock # cl /\ sock \in DOMAIN fd
        /\ x.backend <= x.attempts
  BY <1>1 DEF ConnOK, Client
<1>7. Waits = [READING_REQUEST |-> "READ", CONNECTING_TO_BACKEND |-> "WRITE",
               FORWARDING_REQUEST |-> "WRITE", READING_RESPONSE |-> "READ",
               FORWARDING_RESPONSE |-> "WRITE"]
  BY DEF Waits
<1> HIDE DEF u
<1>9. d \in DOMAIN u.table /\ u.table[d].sock = cl
  <2>1. CASE sock # cl
    BY <1>3, <1>5, <2>1 DEF Kept
  <2>2. CASE x.pending = 0
    BY <1>3, <1>4, <1>5, <2>2
  <2>3. CASE x.pending # 0 /\ sock = cl
    \* the backend's slot is empty: nothing was ensured, and cl is as any other
    <3>1. x.state \notin BackendStates
      BY <1>6, <2>3
    <3>2. x.backend = 0
      BY <1>1, <2>3 DEF Client
    <3>3. u = Unregister(Present, <<c, x.pending>>)
      BY <2>3, <3>2 DEF u, FlushPendingUnregister
    <3>4. <<c, x.pending>> \notin DOMAIN fd /\ <<c, x.pending>> # cl
      BY <1>1, <2>3 DEF ConnOK, Client
    <3>5. d \notin KeysOf(Present.table, <<c, x.pending>>)
      BY <1>4, <1>5, <3>4 DEF KeysOf
    <3>6. IsSelector(Present)
      BY DEF IsSelector, Present
    <3>7. /\ DOMAIN u.table = DOMAIN Present.table \ KeysOf(Present.table, <<c, x.pending>>)
          /\ \A e \in DOMAIN u.table : u.table[e] = Present.table[e]
      BY <3>3, <3>6, UnregisterLists
    <3> QED
      BY <1>4, <1>5, <3>5, <3>7
  <2> QED
    BY <2>1, <2>2, <2>3
<1>10. CASE x.state \notin BackendStates \cup {"FORWARDING_RESPONSE"}
  <2>1. sel = u
    BY <1>10 DEF Transition, BackendStates
  <2> HIDE DEF sel
  <2>2. Settled(c, sel)
    BY <1>3, <1>9, <1>10, <2>1 DEF Settled, Kept
  <2> QED
    BY <2>2 DEF sel, u
<1>11. CASE x.state \in BackendStates /\ (x.state = prev \/ u.raised)
  <2>1. sel = u
    BY <1>11 DEF Transition
  <2>2. u.raised \/ OwnOrLost(u.table, sock, Waits[x.state])
    <3>1. ~u.raised => x.pending # 0
      BY <1>2, <1>11 DEF Unsettled
    <3>2. ~u.raised => Waits[x.state] = "WRITE"
      BY <1>2, <1>7, <1>11, <3>1 DEF Unsettled, BackendStates
    <3> QED
      BY <1>3, <1>11, <3>1, <3>2
  <2> HIDE DEF sel
  <2>3. Settled(c, sel)
    BY <1>3, <1>9, <1>11, <2>1, <2>2 DEF Settled, Kept, BackendStates
  <2> QED
    BY <2>3 DEF sel, u
<1>12. CASE /\ x.state \in BackendStates /\ x.state # prev /\ ~u.raised
            /\ SameBut(u, sel, fd[sock]) /\ Sound(sel)
            /\ sel.raised \/ OwnOrLost(sel.table, sock, Waits[x.state])
  <2> HIDE DEF sel
  <2>1. fd[sock] # d
    BY <1>2, <1>5, <1>6, <1>12 DEF OneEach
  <2>2. d \in DOMAIN sel.table /\ sel.table[d].sock = cl
    BY <1>9, <1>12, <2>1 DEF SameBut
  <2>3. \A s \in DOMAIN fd \ {sock, cl} :
          fd[s] \in DOMAIN table /\ table[fd[s]].sock \notin Pending(c) =>
            fd[s] \in DOMAIN sel.table /\ sel.table[fd[s]] = table[fd[s]]
    BY <1>2, <1>3, <1>6, <1>12 DEF SameBut, Kept, OneEach
  <2>4. Settled(c, sel)
    BY <1>12, <2>2, <2>3 DEF Settled, BackendStates
  <2> QED
    BY <2>4 DEF sel, u
<1>13. CASE /\ x.state = "CONNECTING_TO_BACKEND" /\ x.state # prev /\ ~u.raised
  <2>1. sel = Register(u, sock, "WRITE") /\ Waits[x.state] = "WRITE"
        /\ x.state \in BackendStates
    BY <1>7, <1>13 DEF Transition, BackendStates
  <2>2. CASE Has(u, sock)
    <3>1. sel = u
      BY <2>1, <2>2 DEF Register
    <3>2. OwnOrLost(u.table, sock, "WRITE")
      <4>1. CASE x.pending # 0
        BY <1>3, <1>13, <2>1, <4>1
      <4>2. CASE x.pending = 0
        <5>1. u.table[fd[sock]].sock \in {sock} \cup lost
          BY <1>2, <1>3, <1>6, <2>1, <2>2, OwnOrLostKey
        <5>2. u.table[fd[sock]].sock = sock => u.table[fd[sock]].mask = "WRITE"
          BY <1>2, <1>3, <1>4, <2>1, <2>2, <4>2 DEF Unsettled, Has
        <5> QED
          BY <2>2, <5>1, <5>2 DEF OwnOrLost, Own, Has
      <4> QED
        BY <4>1, <4>2
    <3>3. SameBut(u, u, fd[sock])
      BY DEF SameBut
    <3> HIDE DEF sel
    <3> QED
      BY <1>3, <1>12, <1>13, <2>1, <3>1, <3>2, <3>3
  <2>3. CASE ~Has(u, sock)
    <3>1. Sound(sel) /\ SameBut(u, sel, fd[sock]) /\ Own(sel.table, sock, "WRITE")
      BY <1>1, <1>3, <1>6, <2>1, <2>3, RegisterSound
    <3>2. OwnOrLost(sel.table, sock, Waits[x.state])
      BY <2>1, <3>1 DEF OwnOrLost
    <3> HIDE DEF sel
    <3> QED
      BY <1>12, <1>13, <2>1, <3>1, <3>2
  <2> QED
    BY <2>2, <2>3
<1>14. CASE x.state = "FORWARDING_REQUEST" /\ x.state # prev /\ ~u.raised
  <2>1. sel = Ensure(u, sock, "WRITE") /\ Waits[x.state] = "WRITE"
        /\ x.state \in BackendStates
    BY <1>7, <1>14 DEF Transition, BackendStates
  <2>2. /\ Sound(sel) /\ SameBut(u, sel, fd[sock])
        /\ sel.raised \/ OwnOrLost(sel.table, sock, Waits[x.state])
    BY <1>1, <1>2, <1>3, <1>6, <2>1, EnsureSound
  <2> HIDE DEF sel
  <2> QED
    BY <1>12, <1>14, <2>1, <2>2
<1>15. CASE x.state = "READING_RESPONSE" /\ x.state # prev /\ ~u.raised
  <2>1. sel = Modify(u, sock, "READ") /\ Waits[x.state] = "READ"
        /\ x.state \in BackendStates
    BY <1>7, <1>15 DEF Transition, BackendStates
  <2>2. u.table = table /\ Own(u.table, sock, "WRITE")
    BY <1>2, <1>3, <1>4, <1>15, <2>1 DEF Unsettled
  <2>3. Has(u, sock)
    BY <2>2 DEF Own, Has
  <2>4. /\ Sound(sel) /\ SameBut(u, sel, fd[sock])
        /\ sel.raised
           \/ /\ fd[sock] \in DOMAIN sel.table
              /\ sel.table[fd[sock]].sock = u.table[fd[sock]].sock
              /\ sel.table[fd[sock]].mask = "READ"
    BY <1>2, <1>3, <1>6, <2>1, <2>3, ModifySound
  <2> HIDE DEF sel
  <2>5. sel.raised \/ OwnOrLost(sel.table, sock, "READ")
    BY <2>2, <2>4 DEF OwnOrLost, Own
  <2> QED
    BY <1>12, <1>15, <2>1, <2>4, <2>5
<1>16. CASE x.state = "FORWARDING_RESPONSE" /\ ~u.raised
  <2> DEFINE m == Modify(u, cl, "WRITE")
             r == Unregister(m, sock)
  <2>1. x.state # prev /\ x.backend # 0 /\ sock \in DOMAIN fd /\ sock # cl
    BY <1>2, <1>16 DEF Unsettled, Client
  <2>2. /\ Sound(m) /\ SameBut(u, m, d) /\ m.raised = u.raised
        /\ m.raised \/ (d \in DOMAIN m.table /\ m.table[d].sock = u.table[d].sock
                          /\ m.table[d].mask = "WRITE")
    BY <1>2, <1>3, <1>5, <1>9, ModifySound DEF Has
  <2>3. sel = r
    BY <1>16, <2>1, <2>2 DEF Transition
  <2>4. Sound(r) /\ SameBut(m, r, fd[sock])
    BY <2>1, <2>2, UnregisterSound
  <2> HIDE DEF m, r, sel
  <2>5. fd[sock] # d
    BY <1>2, <1>5, <2>1 DEF OneEach
  <2>6. d \in DOMAIN r.table /\ r.table[d].sock = cl /\ r.table[d].mask = "WRITE"
    BY <1>9, <1>16, <2>2, <2>4, <2>5 DEF SameBut
  <2>7. \A s \in DOMAIN fd \ {sock, cl} :
          fd[s] \in DOMAIN table /\ table[fd[s]].sock \notin Pending(c) =>
            fd[s] \in DOMAIN r.table /\ r.table[fd[s]] = table[fd[s]]
    BY <1>2, <1>3, <1>5, <2>1, <2>2, <2>4 DEF SameBut, Kept, OneEach
  <2>8. Settled(c, sel)
    BY <1>16, <2>3, <2>4, <2>6, <2>7 DEF Settled, BackendStates
  <2> QED
    BY <2>8 DEF sel, u
<1>17. CASE x.state = "FORWARDING_RESPONSE" /\ u.raised
  <2>1. sel = u
    BY <1>17 DEF Transition
  <2> HIDE DEF sel
  <2>2. Settled(c, sel)
    BY <1>3, <1>9, <1>17, <2>1 DEF Settled, Kept
  <2> QED
    BY <2>2 DEF sel, u
<1> QED
  BY <1>10, <1>11, <1>13, <1>14, <1>15, <1>16, <1>17 DEF BackendStates

-----------------------------------------------------------------------------
(* One step each, again. *)

LEMMA InitWInv == Init => WInv
<1> SUFFICES ASSUME Init
             PROVE  WInv
  OBVIOUS
<1>1. /\ conn = [c \in Connections |->
                   [state |-> "NEW", backend |-> 0, pending |-> 0, attempts |-> 0]]
      /\ DOMAIN fd = {} /\ DOMAIN table = {} /\ DOMAIN epoll = {}
      /\ busy = Idle /\ lost = {}
  BY DEF Init
<1>2. ASSUME NEW c \in Connections
      PROVE  WatchedOK(c)
  <2>1. conn[c].state = "NEW" /\ ~Busy(c) /\ ~Within(c, "settle") /\ "NEW" \notin DOMAIN Waits
    BY <1>1 DEF Busy, Within, Waits
  <2> QED
    BY <2>1 DEF WatchedOK, BackendWatched, BackendStates
<1>3. LostOK
  BY <1>1 DEF LostOK
<1> QED
  BY <1>1, <1>2, <1>3 DEF WInv, OneEach, Tables

LEMMA OthersWatched ==
  ASSUME IInv, WInv, NEW c \in Connections, NEW b \in Connections, b # c,
         conn'[b] = conn[b], loop' = loop, lost \subseteq lost',
         busy = Idle \/ busy[1] = c, busy' = Idle \/ busy'[1] = c,
         \A k \in Nat : <<b, k>> \in DOMAIN fd =>
           <<b, k>> \in DOMAIN fd' /\ fd'[<<b, k>>] = fd[<<b, k>>],
         \A k \in Nat :
           LET d == fd[<<b, k>>]
           IN /\ <<b, k>> \in DOMAIN fd /\ d \in DOMAIN table
              /\ table[d].sock \in {<<b, k>>} \cup lost
              => d \in DOMAIN table' /\ table'[d] = table[d]
  PROVE  WatchedOK(b)'
<1> SUFFICES ASSUME loop = "running"
             PROVE  WatchedOK(b)'
  BY DEF WatchedOK
<1>1. WatchedOK(b) /\ ConnOK(b) /\ conn[b].backend \in Nat /\ ~Busy(b)
  BY DEF WInv, IInv, Typed, Busy
<1>2. ~Busy(b)' /\ ~Within(b, "settle")' /\ ~Within(b, "raise")
  BY DEF Busy, Within
<1>3. ASSUME conn[b].state \notin {"NEW", "CLOSED"}
      PROVE  ClientWatched(b)'
  BY <1>1, <1>2, <1>3 DEF WatchedOK, ClientWatched, Client
<1>4. BackendWatched(b)'
  <2> DEFINE s == <<b, conn[b].backend>>
  <2>1. BackendWatched(b)
    BY <1>1 DEF WatchedOK
  <2>2. ASSUME conn[b].state \in BackendStates
        PROVE  OwnOrLost(table, s, Waits[conn[b].state])'
    <3>1. s \in DOMAIN fd
      BY <1>1, <1>2, <2>2 DEF ConnOK
    <3>2. OwnOrLost(table, s, Waits[conn[b].state])
      BY <2>1, <2>2 DEF BackendWatched
    <3>3. fd[s] \in DOMAIN table /\ table[fd[s]].sock \in {s} \cup lost
      BY <3>2 DEF OwnOrLost, Own
    <3>4. fd'[s] = fd[s] /\ fd[s] \in DOMAIN table' /\ table'[fd[s]] = table[fd[s]]
      BY <1>1, <3>1, <3>3
    <3> QED
      BY <3>2, <3>4 DEF OwnOrLost, Own, Waits
  <2> QED
    BY <2>1, <2>2 DEF BackendWatched, Waits
<1> QED
  BY <1>2, <1>3, <1>4 DEF WatchedOK

LEMMA SettleWatched ==
  ASSUME IInv, WInv, NEW c \in Connections, Settle(c)
  PROVE  WInv'
<1> DEFINE sel == Transition(FlushPendingUnregister(Present, c), c, busy[2])
           sock == <<c, conn[c].backend>>
           d == fd[Client(c)]
<1>1. /\ Within(c, "settle") /\ table' = sel.table /\ epoll' = sel.epoll /\ busy' = Idle
      /\ conn' = [conn EXCEPT ![c].pending = 0,
                              ![c].state = IF sel.raised THEN "DONE" ELSE @]
      /\ UNCHANGED <<fd, loop, lost>>
  BY DEF Settle
<1>2. Settled(c, sel)
  BY <1>1, TransitionSound
<1> HIDE DEF sel
<1>3. /\ \A b \in Connections \ {c} : conn'[b] = conn[b]
      /\ \A b \in Connections : conn'[b].attempts = conn[b].attempts /\ conn[b].attempts \in Nat
      /\ conn'[c].backend = conn[c].backend /\ conn'[c].pending = 0
      /\ conn'[c].state = IF sel.raised THEN "DONE" ELSE conn[c].state
  BY <1>1 DEF IInv, Typed
<1>4. ConnOK(c) /\ loop = "running" /\ Unsettled(c) /\ ClientWatched(c) /\ Busy(c)
  BY <1>1 DEF IInv, ConnOK, WInv, WatchedOK, Within, Busy
<1>5. OneEach' /\ Tables'
  BY <1>1, <1>2 DEF WInv, OneEach, Tables, Settled, Sound
<1>6. LostOK'
  <2>1. \A b \in Connections : conn'[b].pending <= conn[b].attempts /\ ~Busy(b)'
    <3>1. \A b \in Connections : conn[b].pending <= conn[b].attempts
      BY DEF WInv, LostOK
    <3>2. conn'[c].pending <= conn[c].attempts
      BY <1>3
    <3>3. \A b \in Connections \ {c} : conn'[b].pending = conn[b].pending
      BY <1>3
    <3> QED
      BY <1>1, <3>1, <3>2, <3>3 DEF Busy
  <2> QED
    BY <1>1, <1>3, <2>1 DEF WInv, LostOK
<1>7. WatchedOK(c)'
  <2>1. ~Busy(c)' /\ ~Within(c, "settle")'
    BY <1>1 DEF Busy, Within
  <2>2. ClientWatched(c)'
    <3>1. conn'[c].state # "READING_REQUEST"
      BY <1>3, <1>4 DEF Unsettled
    <3>2. conn'[c].state = "FORWARDING_RESPONSE" => sel.table[d].mask = "WRITE"
      BY <1>2, <1>3 DEF Settled
    <3> QED
      BY <1>1, <1>2, <1>4, <3>1, <3>2 DEF ClientWatched, Settled, Client
  <2>3. BackendWatched(c)'
    <3>1. conn'[c].state \in BackendStates =>
            OwnOrLost(sel.table, sock, Waits[conn'[c].state])
      BY <1>2, <1>3 DEF Settled, BackendStates
    <3>2. <<c, conn'[c].backend>> = sock /\ table' = sel.table /\ UNCHANGED <<fd, lost>>
      BY <1>1, <1>3
    <3>3. conn'[c].state \in BackendStates =>
            OwnOrLost(table, <<c, conn[c].backend>>, Waits[conn[c].state])'
      BY <3>1, <3>2 DEF OwnOrLost, Own, Waits
    <3> QED
      BY <1>3, <3>3 DEF BackendWatched, Waits
  <2> QED
    BY <2>1, <2>2, <2>3 DEF WatchedOK
<1>8. ASSUME NEW b \in Connections, b # c
      PROVE  WatchedOK(b)'
  <2>1. ASSUME NEW k \in Nat, <<b, k>> \in DOMAIN fd, fd[<<b, k>>] \in DOMAIN table,
               table[fd[<<b, k>>]].sock \in {<<b, k>>} \cup lost
        PROVE  /\ fd[<<b, k>>] \in DOMAIN table'
               /\ table'[fd[<<b, k>>]] = table[fd[<<b, k>>]]
    <3>1. table[fd[<<b, k>>]].sock \notin Pending(c)
      <4>1. conn[c].pending \in Nat
        BY DEF IInv, Typed
      <4>2. <<c, conn[c].pending>> \notin lost
        BY <1>4, <4>1 DEF WInv, LostOK
      <4> QED
        BY <1>8, <2>1, <4>2 DEF Pending
    <3>2. <<b, k>> \notin {sock, Client(c)}
      BY <1>8 DEF Client
    <3> QED
      BY <1>1, <1>2, <2>1, <3>1, <3>2 DEF Settled
  <2> QED
    BY <1>1, <1>3, <1>8, <2>1, OthersWatched DEF Within
<1> QED
  BY <1>5, <1>6, <1>7, <1>8 DEF WInv

(* The key of an event is the socket's own. *)
LEMMA ReadyOwn ==
  ASSUME IInv, WInv, NEW c \in Connections, NEW k \in Nat, NEW mask, NEW state,
         Ready(c, <<c, k>>, mask, state)
  PROVE  <<c, k>> \in DOMAIN fd => Own(table, <<c, k>>, mask)
<1>1. PICK d \in DOMAIN epoll : table[d] = [sock |-> <<c, k>>, mask |-> mask]
  BY DEF Ready
<1>2. table[d].sock = <<c, k>> /\ table[d].mask = mask
  BY <1>1
<1>3. d \in DOMAIN table
  BY <1>1 DEF WInv, Tables
<1>4. <<c, k>> \in DOMAIN fd => fd[<<c, k>>] = d
  BY <1>2, <1>3, KeySocket
<1> QED
  BY <1>2, <1>3, <1>4 DEF Own

LEMMA GotoWatched ==
  ASSUME IInv, WInv, NEW c \in Connections, busy = Idle, loop = "running",
         NEW state \in States, Goto(c, state),
         conn[c].state \in DOMAIN Waits, conn[c].state # state,
         state \notin {"NEW", "READING_REQUEST", "CLOSED"},
         state \in BackendStates => Own(table, <<c, conn[c].backend>>, "WRITE"),
         state \in BackendStates \cup {"FORWARDING_RESPONSE"} =>
           conn[c].backend # 0 /\ <<c, conn[c].backend>> \in DOMAIN fd
  PROVE  WInv'
<1> DEFINE sock == <<c, conn[c].backend>>
<1>1. /\ conn' = [conn EXCEPT ![c].state = state]
      /\ busy' = <<c, conn[c].state, "settle">>
      /\ UNCHANGED <<fd, table, epoll, loop, lost>>
  BY DEF Goto, Then
<1>2. /\ \A b \in Connections \ {c} : conn'[b] = conn[b]
      /\ conn'[c].backend = conn[c].backend /\ conn'[c].pending = conn[c].pending
      /\ conn'[c].attempts = conn[c].attempts /\ conn'[c].state = state
      /\ conn[c].backend \in Nat
  BY <1>1 DEF IInv, Typed
<1>3. WatchedOK(c) /\ ~Busy(c) /\ conn[c].pending = 0
      /\ conn[c].state \notin {"NEW", "CLOSED"}
  BY DEF WInv, WatchedOK, BackendWatched, Busy, Waits
<1>4. OneEach' /\ Tables'
  BY <1>1 DEF WInv, OneEach, Tables
<1>5. LostOK'
  BY <1>1, <1>2, <1>3 DEF WInv, LostOK, Busy, Idle
<1>6. WatchedOK(c)'
  <2>1. Busy(c)' /\ busy'[2] = conn[c].state
    BY <1>1 DEF Busy, Idle
  <2>2. ClientWatched(c)'
    BY <1>1, <1>3, <2>1 DEF WatchedOK, ClientWatched, Client
  <2>3. ASSUME NEW d \in DOMAIN table, table[d].sock = sock, state \in BackendStates
        PROVE  table[d].mask = "WRITE"
    <3>1. d = fd[sock]
      BY <1>2, <2>3, KeySocket
    <3> QED
      BY <2>3, <3>1 DEF Own
  <2>4. state = "READING_RESPONSE" => Own(table, sock, "WRITE")'
    BY <1>1 DEF Own, BackendStates
  <2>5. Unsettled(c)'
    BY <1>1, <1>2, <1>3, <2>1, <2>3, <2>4 DEF Unsettled, Own
  <2> QED
    BY <2>1, <2>2, <2>5 DEF WatchedOK
<1>7. ASSUME NEW b \in Connections, b # c
      PROVE  WatchedOK(b)'
  BY <1>1, <1>2, <1>7, OthersWatched DEF Idle
<1> QED
  BY <1>4, <1>5, <1>6, <1>7 DEF WInv

LEMMA InitiateWatched ==
  ASSUME IInv, WInv, NEW c \in Connections, NEW x, NEW open, NEW prev \in States,
         InitiateBackendConnect(c, x, open, prev),
         x \in [state : States, backend : Nat, pending : Nat, attempts : Nat],
         x.attempts = conn[c].attempts, x.pending <= x.attempts,
         x.pending = 0 => prev = "READING_REQUEST",
         loop = "running", busy = Idle \/ busy[1] = c,
         conn[c].state \notin {"NEW", "CLOSED"},
         DOMAIN open \subseteq DOMAIN fd,
         \A s \in DOMAIN open : open[s] = fd[s],
         \A s \in DOMAIN fd \ DOMAIN open : s = <<c, x.pending>> /\ x.pending # 0,
         \A k \in Nat : <<c, k>> \in DOMAIN open => k = 0,
         UNCHANGED <<table, loop>>, lost' = lost \cup Pending(c),
         <<c, x.pending>> \notin lost \cup Pending(c),
         DOMAIN epoll' \subseteq DOMAIN epoll,
         \A d \in DOMAIN epoll' : epoll'[d] = epoll[d],
         \A d \in DOMAIN table : table[d].sock \in DOMAIN open => d \in DOMAIN epoll'
  PROVE  WInv'
<1> DEFINE n == x.attempts + 1
<1>1. PICK state \in {"CONNECTING_TO_BACKEND", "FORWARDING_REQUEST"},
           backend \in {0, n}, step \in Steps :
        /\ conn' = [conn EXCEPT ![c] =
                      [x EXCEPT !.state = state, !.backend = backend, !.attempts = @ + 1]]
        /\ busy' = <<c, prev, step>>
        /\ backend = 0 => step = "raise" /\ fd' = open
        /\ backend = n => \E d \in NewDescriptors(open) : fd' = With(open, <<c, n>>, d)
  BY DEF InitiateBackendConnect, Steps
<1>2. /\ conn'[c].backend = backend /\ conn'[c].pending = x.pending
      /\ conn'[c].attempts = n /\ conn'[c].state = state
      /\ \A b \in Connections \ {c} : conn'[b] = conn[b]
      /\ conn[c].attempts \in Nat /\ n \in Nat /\ conn[c].pending \in Nat
      /\ conn[c].pending <= conn[c].attempts
  BY <1>1 DEF IInv, Typed, WInv, LostOK
<1>3. /\ DOMAIN open \subseteq DOMAIN fd'
      /\ \A s \in DOMAIN fd' : s \in DOMAIN open \/ (backend = n /\ s = <<c, n>>)
      /\ \A s \in DOMAIN open : s # <<c, n>> => fd'[s] = fd[s]
  BY <1>1, <1>2 DEF With
<1>4. <<c, n>> \notin DOMAIN open
  BY <1>2
<1>5. OneEach'
  <2>1. \A s, t \in DOMAIN open : fd'[s] = fd'[t] => s = t
    BY <1>3, <1>4 DEF WInv, OneEach
  <2>2. backend = n => \A s \in DOMAIN open : fd'[s] # fd'[<<c, n>>]
    BY <1>1, <1>3, <1>4 DEF NewDescriptors, Free, Range, With
  <2> QED
    BY <1>3, <2>1, <2>2 DEF OneEach
<1>6. ASSUME NEW d \in DOMAIN table
      PROVE  table[d].sock # <<c, n>>
  <2>1. PICK b \in Connections, k \in Nat :
          table[d].sock = <<b, k>> /\ k <= conn[b].attempts
    BY KeySocket
  <2> QED
    BY <1>2, <2>1
<1>7. Tables'
  <2>1. \A d \in DOMAIN table : table[d].sock \in DOMAIN fd' => d \in DOMAIN epoll'
    BY <1>3, <1>6
  <2> QED
    BY <2>1 DEF WInv, Tables
<1>8. LostOK'
  <2> SUFFICES ASSUME NEW b \in Connections
               PROVE  /\ conn'[b].pending <= conn'[b].attempts
                      /\ \A k \in Nat : <<b, k>> \in lost' =>
                           /\ k # 0 /\ k <= conn'[b].attempts /\ <<b, k>> \notin DOMAIN fd'
                           /\ Busy(b)' => k # conn'[b].pending
    BY DEF LostOK
  <2>1. CASE b # c
    <3>1. \A k \in Nat : <<b, k>> \in lost' => <<b, k>> \in lost
      BY <2>1 DEF Pending
    <3>2. \A k \in Nat : <<b, k>> \in DOMAIN fd' => <<b, k>> \in DOMAIN fd
      BY <1>3, <2>1
    <3>3. ~Busy(b)'
      BY <1>1, <2>1 DEF Busy
    <3> QED
      BY <1>2, <2>1, <3>1, <3>2, <3>3 DEF WInv, LostOK
  <2>2. CASE b = c
    <3> SUFFICES ASSUME NEW k \in Nat, <<c, k>> \in lost'
                 PROVE  k # 0 /\ k < n /\ <<c, k>> \notin DOMAIN fd' /\ k # x.pending
      BY <1>2, <2>2
    <3>1. k # 0 /\ k <= conn[c].attempts
      BY <1>2 DEF WInv, LostOK, Pending, Client
    <3>2. <<c, k>> \notin DOMAIN fd'
      BY <1>2, <1>3, <3>1
    <3> QED
      BY <1>2, <3>1, <3>2
  <2> QED
    BY <2>1, <2>2
<1>9. WatchedOK(c)'
  <2>1. Busy(c)' /\ busy'[2] = prev
    BY <1>1 DEF Busy, Idle
  <2>2. ClientWatched(c)'
    <3>1. ClientWatched(c)
      BY DEF WInv, WatchedOK
    <3>2. Client(c) \in DOMAIN open /\ Client(c) # <<c, n>>
      BY <1>2, <3>1 DEF ClientWatched, Client
    <3>3. Client(c) \in DOMAIN fd' /\ fd'[Client(c)] = fd[Client(c)]
      BY <1>3, <3>2
    <3> QED
      BY <2>1, <3>1, <3>3 DEF ClientWatched, Client
  <2>3. Within(c, "settle")' => backend = n
    BY <1>1 DEF Within
  <2>4. Within(c, "settle")' => Unsettled(c)'
    BY <1>1, <1>2, <1>6, <2>1, <2>3 DEF Unsettled
  <2> QED
    BY <2>1, <2>2, <2>4 DEF WatchedOK
<1>10. ASSUME NEW b \in Connections, b # c
       PROVE  WatchedOK(b)'
  <2>1. \A k \in Nat : <<b, k>> \in DOMAIN fd =>
          <<b, k>> \in DOMAIN fd' /\ fd'[<<b, k>>] = fd[<<b, k>>]
    BY <1>3, <1>10
  <2> QED
    BY <1>1, <1>2, <1>10, <2>1, OthersWatched
<1> QED
  BY <1>5, <1>7, <1>8, <1>9, <1>10 DEF WInv

LEMMA RequestCompleteWatched ==
  ASSUME IInv, WInv, NEW c \in Connections, RequestComplete(c)
  PROVE  WInv'
<1>1. /\ busy = Idle /\ loop = "running" /\ conn[c].state = "READING_REQUEST"
      /\ InitiateBackendConnect(c, conn[c], fd, "READING_REQUEST")
      /\ UNCHANGED <<table, epoll, loop, lost>>
  BY DEF RequestComplete, Ready
<1>2. /\ conn[c] \in [state : States, backend : Nat, pending : Nat, attempts : Nat]
      /\ conn[c].backend = 0 /\ conn[c].pending = 0 /\ conn[c].pending <= conn[c].attempts
      /\ \A k \in Nat : <<c, k>> \in DOMAIN fd => k = 0
  <2>1. ConnOK(c) /\ conn[c] \in [state : States, backend : Nat, pending : Nat,
                                  attempts : Nat]
    BY DEF IInv, Typed
  <2>2. conn[c].backend = 0 /\ conn[c].pending = 0 /\ conn[c].attempts = 0
    BY <1>1, <2>1 DEF ConnOK
  <2>3. \A k \in Nat : <<c, k>> \in DOMAIN fd => k \in {0, conn[c].backend}
    BY <2>1 DEF ConnOK
  <2> QED
    BY <2>1, <2>2, <2>3
<1>3. Pending(c) = {} /\ <<c, conn[c].pending>> \notin lost
  BY <1>2 DEF Pending, Client, WInv, LostOK
<1>4. /\ DOMAIN epoll' \subseteq DOMAIN epoll
      /\ \A d \in DOMAIN epoll' : epoll'[d] = epoll[d]
      /\ \A d \in DOMAIN table : table[d].sock \in DOMAIN fd => d \in DOMAIN epoll'
  BY <1>1 DEF WInv, Tables
<1>5. "READING_REQUEST" \in States
  BY DEF States
<1> QED
  BY <1>1, <1>2, <1>3, <1>4, <1>5, InitiateWatched

LEMMA FailBackendWatched ==
  ASSUME IInv, WInv, NEW c \in Connections, FailBackend(c)
  PROVE  WInv'
<1> DEFINE b0 == conn[c].backend
           x == [conn[c] EXCEPT !.pending = b0, !.backend = 0]
           open == OpenAfterClose(c)
<1>1. /\ busy # Idle /\ busy[1] = c /\ busy[2] \in States
      /\ Within(c, "fail") /\ ~Within(c, "raise")
      /\ ConnOK(c) /\ loop = "running" /\ conn[c].state \in BackendStates
  BY DEF FailBackend, Within, IInv, Typed, ConnOK
<1>2. /\ lost' = lost \cup Pending(c) /\ UNCHANGED <<table, loop>>
      /\ epoll' = Without(epoll, {fd[<<c, b0>>]})
      /\ \/ InitiateBackendConnect(c, x, open, busy[2])
         \/ /\ conn' = [conn EXCEPT ![c] = [x EXCEPT !.state = "DONE"]]
            /\ busy' = <<c, busy[2], "settle">>
            /\ fd' = open
  BY DEF FailBackend
<1>3. /\ conn[c] \in [state : States, backend : Nat, pending : Nat, attempts : Nat]
      /\ b0 # 0 /\ <<c, b0>> \in DOMAIN fd /\ b0 <= conn[c].attempts
      /\ conn[c].pending # 0 => conn[c].pending # b0
      /\ conn[c].pending <= conn[c].attempts
  BY <1>1 DEF IInv, Typed, ConnOK, WInv, LostOK
<1>4. /\ DOMAIN open = DOMAIN fd \ {<<c, b0>>}
      /\ \A s \in DOMAIN open : open[s] = fd[s]
      /\ \A k \in Nat : <<c, k>> \in DOMAIN open => k = 0
  <2>1. /\ DOMAIN open = DOMAIN fd \ {<<c, b0>>}
        /\ \A s \in DOMAIN open : open[s] = fd[s]
    BY DEF OpenAfterClose, Without, Restrict
  <2> HIDE DEF open
  <2> QED
    BY <1>1, <2>1 DEF ConnOK
<1>5. <<c, b0>> \notin lost \cup Pending(c)
  BY <1>3 DEF WInv, LostOK, Pending
<1>6. /\ x \in [state : States, backend : Nat, pending : Nat, attempts : Nat]
      /\ x.backend = 0 /\ x.pending = b0 /\ x.attempts = conn[c].attempts
      /\ x.state = conn[c].state
  BY <1>3
<1>7. /\ DOMAIN epoll' = DOMAIN epoll \ {fd[<<c, b0>>]}
      /\ \A d \in DOMAIN epoll' : epoll'[d] = epoll[d]
  BY <1>2 DEF Without, Restrict
<1> HIDE DEF open, x
<1>8. \A d \in DOMAIN table : table[d].sock \in DOMAIN open => d \in DOMAIN epoll'
  <2> SUFFICES ASSUME NEW d \in DOMAIN table, table[d].sock \in DOMAIN open
               PROVE  d \in DOMAIN epoll'
    OBVIOUS
  <2>1. d \in DOMAIN epoll
    BY <1>4 DEF WInv, Tables
  <2>2. fd[table[d].sock] = d /\ table[d].sock # <<c, b0>>
    BY <1>4, KeySocket
  <2> QED
    BY <1>3, <1>4, <1>7, <2>1, <2>2 DEF WInv, OneEach
<1>9. CASE InitiateBackendConnect(c, x, open, busy[2])
  <2>1. \A s \in DOMAIN fd \ DOMAIN open : s = <<c, x.pending>> /\ x.pending # 0
    BY <1>3, <1>4, <1>6
  <2>2. conn[c].state \notin {"NEW", "CLOSED"}
    BY <1>1 DEF BackendStates
  <2> HIDE DEF b0
  <2> QED
    BY <1>1, <1>2, <1>3, <1>4, <1>5, <1>6, <1>7, <1>8, <1>9, <2>1, <2>2, InitiateWatched
<1>10. CASE /\ conn' = [conn EXCEPT ![c] = [x EXCEPT !.state = "DONE"]]
            /\ busy' = <<c, busy[2], "settle">>
            /\ fd' = open
  <2>1. /\ conn'[c].backend = 0 /\ conn'[c].pending = b0 /\ conn'[c].state = "DONE"
        /\ conn'[c].attempts = conn[c].attempts
        /\ \A b \in Connections \ {c} : conn'[b] = conn[b]
    BY <1>6, <1>10 DEF IInv, Typed
  <2>2. OneEach' /\ Tables'
    BY <1>2, <1>4, <1>7, <1>8, <1>10 DEF WInv, OneEach, Tables
  <2>3. LostOK'
    <3> SUFFICES ASSUME NEW b \in Connections
                 PROVE  /\ conn'[b].pending <= conn'[b].attempts
                        /\ \A k \in Nat : <<b, k>> \in lost' =>
                             /\ k # 0 /\ k <= conn'[b].attempts /\ <<b, k>> \notin DOMAIN fd'
                             /\ Busy(b)' => k # conn'[b].pending
      BY DEF LostOK
    <3>1. CASE b # c
      <4>1. ~Busy(b)'
        BY <1>10, <3>1 DEF Busy
      <4>2. \A k \in Nat : <<b, k>> \in lost' => <<b, k>> \in lost
        BY <1>2, <3>1 DEF Pending
      <4> QED
        BY <1>4, <1>10, <2>1, <3>1, <4>1, <4>2 DEF WInv, LostOK
    <3>2. CASE b = c
      <4> SUFFICES ASSUME NEW k \in Nat, <<c, k>> \in lost'
                   PROVE  k # 0 /\ k <= conn[c].attempts /\ <<c, k>> \notin DOMAIN fd' /\ k # b0
        BY <1>3, <2>1, <3>2
      <4>1. k # 0 /\ k <= conn[c].attempts
        BY <1>2, <1>3 DEF WInv, LostOK, Pending, Client
      <4>2. k # b0 /\ <<c, k>> \notin DOMAIN fd'
        BY <1>2, <1>4, <1>5, <1>10, <4>1
      <4> QED
        BY <4>1, <4>2
    <3> QED
      BY <3>1, <3>2
  <2>4. WatchedOK(c)'
    <3>1. Busy(c)'
      BY <1>10 DEF Busy, Idle
    <3>2. ClientWatched(c)
      BY <1>1 DEF WInv, WatchedOK, BackendStates
    <3>3. Client(c) \in DOMAIN fd' /\ fd'[Client(c)] = fd[Client(c)]
      BY <1>3, <1>4, <1>10, <3>2 DEF ClientWatched, Client
    <3>4. ClientWatched(c)'
      BY <1>2, <3>1, <3>2, <3>3 DEF ClientWatched, Client
    <3> QED
      BY <2>1, <3>1, <3>4 DEF WatchedOK, Unsettled, BackendStates
  <2>5. ASSUME NEW b \in Connections, b # c
        PROVE  WatchedOK(b)'
    <3>1. \A k \in Nat : <<b, k>> \in DOMAIN fd =>
            <<b, k>> \in DOMAIN fd' /\ fd'[<<b, k>>] = fd[<<b, k>>]
      BY <1>4, <1>10, <2>5
    <3> QED
      BY <1>1, <1>2, <1>10, <2>1, <2>5, <3>1, OthersWatched
  <2> QED
    BY <2>2, <2>3, <2>4, <2>5 DEF WInv
<1> QED
  BY <1>2, <1>9, <1>10

LEMMA HandleWatched ==
  ASSUME IInv, WInv, NEW c \in Connections, Handle(c)
  PROVE  WInv'
<1>1. busy = Idle /\ loop = "running"
  BY DEF Handle, RequestFails, RequestComplete, HandleClientWritable, BackendProgress,
         BackendFails, BackendReady, Ready
<1>2. /\ conn[c].backend \in Nat
      /\ conn[c].state \in BackendStates =>
           conn[c].backend # 0 /\ <<c, conn[c].backend>> \in DOMAIN fd
  BY <1>1 DEF IInv, Typed, ConnOK, Within
<1>3. CASE RequestFails(c) \/ HandleClientWritable(c)
  <2>1. /\ Goto(c, "DONE") /\ conn[c].state \in DOMAIN Waits /\ conn[c].state # "DONE"
    BY <1>3 DEF RequestFails, HandleClientWritable, Ready, Waits
  <2> QED
    BY <1>1, <2>1, GotoWatched DEF States, BackendStates
<1>4. CASE BackendProgress(c)
  <2>1. PICK state \in {"FORWARDING_REQUEST", "READING_RESPONSE", "FORWARDING_RESPONSE"} :
          /\ Goto(c, state) /\ conn[c].state # state /\ conn[c].state \in BackendStates
          /\ state # "FORWARDING_RESPONSE" => BackendReady(c, "WRITE", conn[c].state)
    BY <1>4 DEF BackendProgress, BackendReady, Ready, BackendStates
  <2>2. state \in BackendStates => Own(table, <<c, conn[c].backend>>, "WRITE")
    BY <1>2, <2>1, ReadyOwn DEF BackendReady, BackendStates
  <2>3. state \in States /\ conn[c].state \in DOMAIN Waits
    BY <2>1 DEF States, Waits, BackendStates
  <2> QED
    BY <1>1, <1>2, <2>1, <2>2, <2>3, GotoWatched
<1>5. CASE RequestComplete(c)
  BY <1>5, RequestCompleteWatched
<1>6. CASE BackendFails(c)
  <2>1. /\ conn[c].state \in BackendStates /\ busy' = <<c, conn[c].state, "fail">>
        /\ UNCHANGED <<conn, fd, table, epoll, loop, lost>>
    BY <1>6 DEF BackendFails, BackendReady, Ready, Then, BackendStates
  <2>2. WatchedOK(c) /\ ~Busy(c) /\ Busy(c)' /\ ~Within(c, "settle")'
    BY <1>1, <2>1 DEF WInv, Busy, Within, Idle
  <2>3. conn[c].pending = 0 /\ ClientWatched(c)
    BY <1>1, <2>1, <2>2 DEF WatchedOK, BackendWatched, BackendStates, Waits
  <2>4. WatchedOK(c)'
    <3>1. ClientWatched(c)'
      BY <2>1, <2>2, <2>3 DEF ClientWatched, Client
    <3> QED
      BY <2>2, <3>1 DEF WatchedOK
  <2>5. LostOK'
    BY <1>1, <2>1, <2>3 DEF WInv, LostOK, Busy, Idle
  <2>6. OneEach' /\ Tables'
    BY <2>1 DEF WInv, OneEach, Tables
  <2>7. ASSUME NEW b \in Connections, b # c
        PROVE  WatchedOK(b)'
    BY <1>1, <2>1, <2>7, OthersWatched
  <2> QED
    BY <2>4, <2>5, <2>6, <2>7 DEF WInv
<1> QED
  BY <1>3, <1>4, <1>5, <1>6 DEF Handle

LEMMA DoneWatched ==
  ASSUME IInv, WInv, NEW c \in Connections, busy = Idle \/ busy[1] = c,
         loop = "running", conn[c].state \notin {"NEW", "CLOSED"},
         conn' = [conn EXCEPT ![c].state = "DONE"], busy' = Idle,
         UNCHANGED <<fd, table, epoll, loop>>, lost' \in {lost, lost \cup Pending(c)}
  PROVE  WInv'
<1>1. /\ \A b \in Connections \ {c} : conn'[b] = conn[b]
      /\ conn'[c].backend = conn[c].backend /\ conn'[c].pending = conn[c].pending
      /\ conn'[c].attempts = conn[c].attempts /\ conn'[c].state = "DONE"
      /\ conn[c].pending \in Nat
  BY DEF IInv, Typed
<1>2. OneEach' /\ Tables'
  BY DEF WInv, OneEach, Tables
<1>3. <<c, conn[c].pending>> \in Pending(c) => <<c, conn[c].pending>> \notin DOMAIN fd
  BY <1>1 DEF IInv, ConnOK, Pending, Client
<1>4. LostOK'
  <2> SUFFICES ASSUME NEW b \in Connections
               PROVE  /\ conn'[b].pending <= conn'[b].attempts
                      /\ \A k \in Nat : <<b, k>> \in lost' =>
                           k # 0 /\ k <= conn'[b].attempts /\ <<b, k>> \notin DOMAIN fd'
    BY DEF LostOK, Busy
  <2>1. conn'[b].pending = conn[b].pending /\ conn'[b].attempts = conn[b].attempts
    BY <1>1
  <2>2. ASSUME NEW k \in Nat, <<b, k>> \in Pending(c)
        PROVE  k # 0 /\ k <= conn[b].attempts /\ <<b, k>> \notin DOMAIN fd
    BY <1>3, <2>2 DEF WInv, LostOK, Pending, Client
  <2> QED
    BY <2>1, <2>2 DEF WInv, LostOK
<1>5. WatchedOK(c)'
  <2>1. ClientWatched(c)
    BY DEF WInv, WatchedOK
  <2> QED
    BY <1>1, <2>1 DEF WatchedOK, ClientWatched, BackendWatched, BackendStates, Waits,
                      Client, Within
<1>6. ASSUME NEW b \in Connections, b # c
      PROVE  WatchedOK(b)'
  BY <1>1, <1>6, OthersWatched
<1> QED
  BY <1>2, <1>4, <1>5, <1>6 DEF WInv

LEMMA ShutdownWatched ==
  ASSUME IInv, WInv, NEW how \in {"stopped", "crashed"}, Shutdown(how)
  PROVE  WInv'
<1>1. /\ loop' = how /\ DOMAIN fd' = {} /\ DOMAIN table' = {} /\ DOMAIN epoll' = {}
      /\ UNCHANGED <<conn, busy, lost>>
  BY DEF Shutdown
<1>2. OneEach' /\ Tables' /\ \A c \in Connections : WatchedOK(c)'
  BY <1>1 DEF OneEach, Tables, WatchedOK
<1>3. LostOK'
  BY <1>1 DEF WInv, LostOK, Busy
<1> QED
  BY <1>2, <1>3 DEF WInv

LEMMA AcceptWatched ==
  ASSUME IInv, WInv, NEW c \in Connections, Accept(c)
  PROVE  WInv'
<1>1. busy = Idle /\ loop = "running" /\ conn[c].state = "NEW"
  BY DEF Accept
<1>2. PICK d \in NewDescriptors(fd) :
        IF d \in DOMAIN table THEN Shutdown("crashed")
        ELSE /\ conn' = [conn EXCEPT ![c].state = "READING_REQUEST"]
             /\ fd' = With(fd, Client(c), d)
             /\ table' = With(table, d, [sock |-> Client(c), mask |-> "READ"])
             /\ epoll' = With(epoll, d, "READ")
             /\ UNCHANGED <<busy, loop, lost>>
  BY DEF Accept
<1>3. CASE d \in DOMAIN table
  BY <1>2, <1>3, ShutdownWatched
<1>4. CASE d \notin DOMAIN table
  <2> DEFINE s == <<c, 0>>
             key == [sock |-> s, mask |-> "READ"]
  <2>1. /\ conn' = [conn EXCEPT ![c].state = "READING_REQUEST"]
        /\ fd' = With(fd, s, d) /\ table' = With(table, d, key)
        /\ epoll' = With(epoll, d, "READ")
        /\ UNCHANGED <<busy, loop, lost>>
    BY <1>2, <1>4 DEF Client
  <2>2. /\ \A b \in Connections \ {c} : conn'[b] = conn[b]
        /\ conn'[c].pending = 0 /\ conn'[c].attempts = conn[c].attempts
        /\ conn'[c].state = "READING_REQUEST"
        /\ \A k \in Nat : <<c, k>> \notin DOMAIN fd
    <3>1. /\ conn[c].pending = 0 /\ \A k \in Nat : <<c, k>> \notin DOMAIN fd
          /\ conn \in [Connections -> [state : States, backend : Nat, pending : Nat,
                                       attempts : Nat]]
      BY <1>1 DEF IInv, Typed, ConnOK
    <3> QED
      BY <2>1, <3>1
  <2>3. /\ DOMAIN fd' = DOMAIN fd \cup {s} /\ s \notin DOMAIN fd /\ fd'[s] = d
        /\ \A t \in DOMAIN fd : fd'[t] = fd[t] /\ fd[t] # d
    BY <1>2, <2>1, <2>2 DEF With, NewDescriptors, Free, Range
  <2>4. key.sock = s /\ key.mask = "READ"
    OBVIOUS
  <2> HIDE DEF key
  <2>5. /\ DOMAIN table' = DOMAIN table \cup {d} /\ table'[d] = key
        /\ \A e \in DOMAIN table : e # d /\ table'[e] = table[e]
        /\ DOMAIN epoll' = DOMAIN epoll \cup {d} /\ epoll'[d] = "READ"
        /\ \A e \in DOMAIN epoll : e # d => epoll'[e] = epoll[e]
    BY <1>4, <2>1 DEF With
  <2>6. OneEach'
    BY <2>3 DEF WInv, OneEach
  <2>7. Tables'
    <3>1. ASSUME NEW e \in DOMAIN table
          PROVE  table[e].sock # s
      <4>1. PICK b \in Connections, k \in Nat :
              table[e].sock = <<b, k>> /\ conn[b].state # "NEW"
        BY KeySocket
      <4> QED
        BY <1>1, <4>1
    <3> QED
      BY <2>3, <2>4, <2>5, <3>1 DEF WInv, Tables
  <2>8. LostOK'
    <3> SUFFICES ASSUME NEW b \in Connections
                 PROVE  /\ conn'[b].pending <= conn'[b].attempts
                        /\ \A k \in Nat : <<b, k>> \in lost =>
                             k # 0 /\ k <= conn'[b].attempts /\ <<b, k>> \notin DOMAIN fd'
      BY <1>1, <2>1 DEF LostOK, Busy
    <3>1. conn'[b].attempts = conn[b].attempts /\ conn'[b].pending <= conn[b].attempts
      <4>1. CASE b = c
        BY <2>2, <4>1 DEF IInv, Typed
      <4>2. CASE b # c
        BY <2>2, <4>2 DEF WInv, LostOK
      <4> QED
        BY <4>1, <4>2
    <3> QED
      BY <2>3, <3>1 DEF WInv, LostOK
  <2>9. WatchedOK(c)'
    BY <1>1, <2>1, <2>2, <2>3, <2>4, <2>5
       DEF WatchedOK, ClientWatched, BackendWatched, BackendStates, Client, Within, Busy
  <2>10. ASSUME NEW b \in Connections, b # c
         PROVE  WatchedOK(b)'
    BY <1>1, <2>1, <2>2, <2>3, <2>5, <2>10, OthersWatched
  <2> QED
    BY <2>6, <2>7, <2>8, <2>9, <2>10 DEF WInv
<1> QED
  BY <1>3, <1>4

LEMMA ReapWatched ==
  ASSUME IInv, WInv, NEW c \in Connections, Reap(c)
  PROVE  WInv'
<1>1. /\ busy = Idle /\ loop = "running" /\ conn[c].state = "DONE"
      /\ table' = Without(table, Reaped(c)) /\ fd' = Without(fd, Named(c))
      /\ epoll' = Without(epoll, {fd[s] : s \in Named(c)})
      /\ conn' = [conn EXCEPT ![c].state = "CLOSED"]
      /\ UNCHANGED <<busy, loop, lost>>
  BY DEF Reap
<1>2. /\ DOMAIN fd' = DOMAIN fd \ Named(c)
      /\ \A s \in DOMAIN fd' : s \in DOMAIN fd /\ fd'[s] = fd[s]
      /\ DOMAIN table' = DOMAIN table \ Reaped(c)
      /\ \A d \in DOMAIN table' : table'[d] = table[d]
      /\ DOMAIN epoll' = DOMAIN epoll \ Reaped(c)
      /\ \A d \in DOMAIN epoll' : epoll'[d] = epoll[d]
  BY <1>1 DEF Without, Restrict, Reaped
<1>3. /\ \A b \in Connections \ {c} : conn'[b] = conn[b]
      /\ conn'[c].pending = conn[c].pending
      /\ conn'[c].attempts = conn[c].attempts /\ conn'[c].state = "CLOSED"
  BY <1>1 DEF IInv, Typed
<1>4. OneEach' /\ Tables'
  BY <1>2 DEF WInv, OneEach, Tables
<1>5. LostOK'
  BY <1>1, <1>2, <1>3 DEF WInv, LostOK, Busy
<1>6. WatchedOK(c)'
  BY <1>1, <1>3 DEF WatchedOK, BackendWatched, BackendStates, Waits, Within
<1>7. ASSUME NEW b \in Connections, b # c
      PROVE  WatchedOK(b)'
  <2>1. \A k \in Nat : <<b, k>> \in DOMAIN fd =>
          /\ <<b, k>> \in DOMAIN fd' /\ fd'[<<b, k>>] = fd[<<b, k>>]
          /\ fd[<<b, k>>] \notin Reaped(c)
    BY <1>2, <1>7 DEF Named, Client, Reaped, WInv, OneEach
  <2> QED
    BY <1>1, <1>2, <1>3, <1>7, <2>1, OthersWatched
<1> QED
  BY <1>4, <1>5, <1>6, <1>7 DEF WInv

LEMMA NextWInv == IInv /\ WInv /\ [Next]_vars => WInv'
<1> SUFFICES ASSUME IInv, WInv, [Next]_vars
             PROVE  WInv'
  OBVIOUS
<1>1. CASE UNCHANGED vars
  BY <1>1 DEF vars, WInv, OneEach, Tables, LostOK, WatchedOK, ClientWatched, BackendWatched,
              Unsettled, OwnOrLost, Own, Busy, Within, Client, Waits
<1>2. ASSUME NEW c \in Connections, Raise(c)
      PROVE  WInv'
  <2>1. busy[1] = c /\ conn[c].state \notin {"NEW", "CLOSED"} /\ loop = "running"
    BY <1>2 DEF Raise, Within, IInv, ConnOK
  <2> QED
    BY <1>2, <2>1, DoneWatched DEF Raise
<1>3. ASSUME NEW c \in Connections, Expire(c)
      PROVE  WInv'
  BY <1>3, DoneWatched DEF Expire
<1>4. CASE Stop
  BY <1>4, ShutdownWatched DEF Stop
<1> QED
  BY <1>1, <1>2, <1>3, <1>4, HandleWatched, FailBackendWatched, SettleWatched,
     AcceptWatched, ReapWatched DEF Next

(* Between dispatches, whoever waits for a socket is watched by the kernel *)
(* for its event, under its own key, but for the number of a lost socket   *)
(* (_flush_pending_unregister, _transition).                               *)
THEOREM NobodyWaitsUnwatched == Spec => []WaitingIsWatched
<1>1. IInv /\ WInv => WaitingIsWatched
  <2> SUFFICES ASSUME IInv, WInv, loop = "running", busy = Idle,
                      NEW c \in Connections, conn[c].state \in DOMAIN Waits
               PROVE  LET s == Awaited(c)
                          mask == Waits[conn[c].state]
                      IN /\ s \in DOMAIN fd /\ fd[s] \in DOMAIN table
                         /\ \/ table[fd[s]] = [sock |-> s, mask |-> mask] /\ epoll[fd[s]] = mask
                            \/ table[fd[s]].sock \in lost
    BY DEF WaitingIsWatched
  <2> DEFINE s == Awaited(c)
             mask == Waits[conn[c].state]
  <2>1. WatchedOK(c) /\ ConnOK(c) /\ ~Busy(c)
    BY DEF WInv, IInv, Busy
  <2>2. s \in DOMAIN fd /\ OwnOrLost(table, s, mask)
    <3>1. CASE conn[c].state \in {"READING_REQUEST", "FORWARDING_RESPONSE"}
      BY <2>1, <3>1 DEF WatchedOK, ClientWatched, Awaited, OwnOrLost, Own, Waits
    <3>2. CASE conn[c].state \in BackendStates
      BY <2>1, <3>2 DEF WatchedOK, BackendWatched, ConnOK, Awaited, BackendStates, Within
    <3> QED
      BY <3>1, <3>2 DEF BackendStates, Waits
  <2> HIDE DEF s, mask
  <2>3. CASE Own(table, s, mask)
    <3>1. PICK b \in Connections, k \in Nat :
            table[fd[s]] = [sock |-> <<b, k>>, mask |-> table[fd[s]].mask]
      BY <2>3 DEF IInv, KeysOK, KeyOK, Own
    <3>2. table[fd[s]] = [sock |-> s, mask |-> mask]
      BY <2>3, <3>1 DEF Own
    <3>3. epoll[fd[s]] = mask
      BY <2>2, <2>3 DEF Own, WInv, Tables
    <3> QED
      BY <2>2, <2>3, <3>2, <3>3 DEF Own, s, mask
  <2>4. CASE fd[s] \in DOMAIN table /\ table[fd[s]].sock \in lost
    BY <2>2, <2>4 DEF s, mask
  <2> QED
    BY <2>2, <2>3, <2>4 DEF OwnOrLost
<1>2. Spec => []WInv
  BY InitWInv, NextWInv, Invariant, PTL DEF Spec
<1> QED
  BY <1>1, <1>2, Invariant, PTL

-----------------------------------------------------------------------------
(* Types: what the two invariants do not say of them. *)

Ranged(keys) == \A d \in DOMAIN keys : d \in Descriptors /\ keys[d].mask \in Masks

TInv ==
  /\ \A c \in Connections : conn[c].attempts <= 1 + MaxRetries
  /\ \A s \in DOMAIN fd : fd[s] \in Descriptors
  /\ Ranged(table)
  /\ loop \in {"running", "stopped", "crashed"}
  /\ lost \subseteq Connections \X Nat

LEMMA RegisterRanged ==
  ASSUME NEW sel, IsSelector(sel), Ranged(sel.table), TInv,
         NEW s \in DOMAIN fd, NEW mask \in Masks
  PROVE  Ranged(Register(sel, s, mask).table)
<1> DEFINE keys == With(sel.table, fd[s], [sock |-> s, mask |-> mask])
           list == With(sel.epoll, fd[s], mask)
<1>1. CASE Has(sel, s)
  BY <1>1 DEF Register
<1>2. CASE ~Has(sel, s)
  <2>1. [sel EXCEPT !.table = keys, !.epoll = list]
          = [table |-> keys, epoll |-> list, raised |-> sel.raised]
    BY NewLists
  <2>2. Register(sel, s, mask) = [table |-> keys, epoll |-> list, raised |-> sel.raised]
    BY <1>2, <2>1 DEF Register, With
  <2>3. Ranged(keys)
    BY DEF Ranged, TInv, With
  <2> HIDE DEF keys, list
  <2> QED
    BY <2>2, <2>3
<1> QED
  BY <1>1, <1>2

LEMMA ModifyRanged ==
  ASSUME NEW sel, Ordered(sel), Ranged(sel.table), NEW s, NEW mask \in Masks
  PROVE  Ranged(Modify(sel, s, mask).table)
<1> DEFINE d == fd[s]
           r == Modify(sel, s, mask)
<1>1. CASE ~Has(sel, s) \/ sel.table[d].mask = mask
  BY <1>1 DEF Modify
<1>2. CASE Has(sel, s) /\ sel.table[d].mask # mask /\ d \in DOMAIN sel.epoll
  <2> DEFINE keys == [sel.table EXCEPT ![d].mask = mask]
  <2>1. r = [sel EXCEPT !.table[d].mask = mask, !.epoll[d] = mask]
    BY <1>2 DEF Modify
  <2>2. r.table = keys
    BY <2>1 DEF Ordered, IsSelector
  <2>3. PICK c \in Connections, k \in Nat :
          sel.table[d] = [sock |-> <<c, k>>, mask |-> sel.table[d].mask]
    BY <1>2 DEF Ordered, KeysOK, KeyOK, Has
  <2>4. Ranged(keys)
    BY <2>3 DEF Ranged
  <2> HIDE DEF keys, r
  <2> QED
    BY <2>2, <2>4 DEF r
<1>3. CASE Has(sel, s) /\ sel.table[d].mask # mask /\ d \notin DOMAIN sel.epoll
  <2> DEFINE keys == Without(sel.table, {d})
  <2>1. r.table = keys
    <3> HIDE DEF keys
    <3>1. r = [sel EXCEPT !.table = keys, !.raised = TRUE]
      BY <1>3 DEF Modify, keys
    <3> QED
      BY <3>1 DEF Ordered, IsSelector
  <2>2. Ranged(keys)
    BY DEF Ranged, Without, Restrict
  <2> HIDE DEF keys, r
  <2> QED
    BY <2>1, <2>2 DEF r
<1> QED
  BY <1>1, <1>2, <1>3

LEMMA UnregisterRanged ==
  ASSUME NEW sel, Ordered(sel), Ranged(sel.table), NEW s
  PROVE  Ranged(Unregister(sel, s).table)
<1>1. \A d \in DOMAIN Unregister(sel, s).table :
        d \in DOMAIN sel.table /\ Unregister(sel, s).table[d] = sel.table[d]
  BY UnregisterKeys DEF Ordered
<1> QED
  BY <1>1 DEF Ranged

LEMMA SettleRanged ==
  ASSUME IInv, WInv, TInv, NEW c \in Connections, Within(c, "settle")
  PROVE  Ranged(Transition(FlushPendingUnregister(Present, c), c, busy[2]).table)
<1> DEFINE x == conn[c]
           sock == <<c, x.backend>>
           u == FlushPendingUnregister(Present, c)
<1>1. /\ ConnOK(c) /\ loop = "running" /\ ~Within(c, "raise") /\ x.backend \in Nat
      /\ x.state \in BackendStates => sock \in DOMAIN fd
  BY DEF IInv, Typed, ConnOK, Within
<1>2. IsSelector(Present) /\ Present.table = table /\ "WRITE" \in Masks /\ "READ" \in Masks
  BY DEF IsSelector, Present, Masks
<1>3. Ordered(u)
  BY FlushOrdered
<1>4. Ranged(u.table)
  <2> DEFINE w == Unregister(Present, <<c, x.pending>>)
  <2>1. CASE x.pending = 0
    BY <1>2, <2>1 DEF FlushPendingUnregister, TInv
  <2>2. Ranged(w.table)
    <3>1. \A d \in DOMAIN w.table : d \in DOMAIN Present.table /\ w.table[d] = Present.table[d]
      BY <1>2, UnregisterKeys
    <3> HIDE DEF w
    <3> QED
      BY <1>2, <3>1 DEF Ranged, TInv
  <2>3. CASE /\ x.pending # 0 /\ x.backend # 0
             /\ x.state \in {"CONNECTING_TO_BACKEND", "FORWARDING_REQUEST"}
    <3>1. u = Ensure(w, sock, "WRITE") /\ sock \in DOMAIN fd
      BY <1>1, <2>3 DEF FlushPendingUnregister, BackendStates
    <3>2. IsSelector(w)
      BY <1>2, UnregisterKeys
    <3>3. CASE ~Has(w, sock)
      <4>1. Ranged(Register(w, sock, "WRITE").table)
        BY <1>2, <2>2, <3>1, <3>2, RegisterRanged
      <4> QED
        BY <3>1, <3>3, <4>1 DEF Ensure
    <3>4. CASE Has(w, sock)
      <4>1. u = Modify(w, sock, "WRITE")
        BY <3>1, <3>4 DEF Ensure
      <4>2. Ordered(w)
        BY <2>3, PendingUnregistered
      <4>3. Ranged(Modify(w, sock, "WRITE").table)
        BY <1>2, <2>2, <4>2, ModifyRanged
      <4> QED
        BY <4>1, <4>3
    <3> QED
      BY <3>3, <3>4
  <2>4. CASE /\ x.pending # 0
             /\ ~(x.backend # 0 /\ x.state \in {"CONNECTING_TO_BACKEND", "FORWARDING_REQUEST"})
    BY <2>2, <2>4 DEF FlushPendingUnregister
  <2> QED
    BY <2>1, <2>3, <2>4
<1> DEFINE sel == Transition(u, c, busy[2])
<1> HIDE DEF u
<1>5. CASE x.state \notin BackendStates \cup {"FORWARDING_RESPONSE"} \/ x.state = busy[2] \/ u.raised
  <2>1. sel = u
    BY <1>5 DEF Transition, BackendStates
  <2> QED
    BY <1>4, <2>1 DEF u
<1>6. CASE ~(x.state = busy[2] \/ u.raised) /\ x.state \in BackendStates
  <2>1. /\ Ranged(Register(u, sock, "WRITE").table)
        /\ Ranged(Modify(u, sock, "WRITE").table)
        /\ Ranged(Modify(u, sock, "READ").table)
    BY <1>1, <1>2, <1>3, <1>4, <1>6, RegisterRanged, ModifyRanged DEF Ordered
  <2>2. sel \in {Register(u, sock, "WRITE"), Modify(u, sock, "WRITE"), Modify(u, sock, "READ")}
    BY <1>6 DEF Transition, Ensure, BackendStates
  <2> HIDE DEF sel
  <2>3. Ranged(sel.table)
    BY <2>1, <2>2
  <2> QED
    BY <2>3 DEF sel, u
<1>7. CASE ~(x.state = busy[2] \/ u.raised) /\ x.state = "FORWARDING_RESPONSE"
  <2> DEFINE m == Modify(u, Client(c), "WRITE")
  <2>1. Ranged(m.table) /\ Ordered(m)
    BY <1>2, <1>3, <1>4, ModifyRanged, ModifyOrdered
  <2>2. Ranged(Unregister(m, sock).table)
    BY <2>1, UnregisterRanged
  <2>3. sel \in {m, Unregister(m, sock)}
    BY <1>7 DEF Transition
  <2> HIDE DEF sel, m
  <2>4. Ranged(sel.table)
    BY <2>1, <2>2, <2>3
  <2> QED
    BY <2>4 DEF sel, u
<1> QED
  BY <1>5, <1>6, <1>7

LEMMA InitiateTypes ==
  ASSUME IInv, TInv, NEW c \in Connections, NEW x, NEW open, NEW prev,
         InitiateBackendConnect(c, x, open, prev),
         x \in [state : States, backend : Nat, pending : Nat, attempts : Nat],
         x.attempts <= MaxRetries, \A s \in DOMAIN open : open[s] \in Descriptors
  PROVE  /\ \A b \in Connections : conn'[b].attempts <= 1 + MaxRetries
         /\ \A s \in DOMAIN fd' : fd'[s] \in Descriptors
<1>1. PICK state, backend :
        conn' = [conn EXCEPT ![c] =
                   [x EXCEPT !.state = state, !.backend = backend, !.attempts = @ + 1]]
  BY DEF InitiateBackendConnect
<1>2. \A b \in Connections : conn'[b].attempts <= 1 + MaxRetries
  <2>1. conn'[c].attempts = x.attempts + 1 /\ \A b \in Connections \ {c} : conn'[b] = conn[b]
    BY <1>1 DEF IInv, Typed
  <2> QED
    BY <2>1, SelectorAssumption DEF TInv
<1>3. \A s \in DOMAIN fd' : fd'[s] \in Descriptors
  <2>1. CASE \E d \in NewDescriptors(open) : fd' = With(open, <<c, x.attempts + 1>>, d)
    BY <2>1 DEF With, NewDescriptors, Free
  <2>2. CASE fd' = open
    BY <2>2
  <2> QED
    BY <2>1, <2>2 DEF InitiateBackendConnect
<1> QED
  BY <1>2, <1>3

LEMMA InitTInv == Init => TInv
BY SelectorAssumption DEF Init, TInv, Ranged

LEMMA NextTInv == IInv /\ WInv /\ TInv /\ [Next]_vars => TInv'
<1> SUFFICES ASSUME IInv, WInv, TInv, [Next]_vars
             PROVE  TInv'
  OBVIOUS
<1>1. \A c \in Connections : Pending(c) \subseteq Connections \X Nat
  BY DEF IInv, Typed, Pending
<1>2. CASE UNCHANGED vars
  BY <1>2 DEF vars, TInv, Ranged
<1>3. ASSUME NEW c \in Connections, Handle(c)
      PROVE  TInv'
  <2>1. CASE RequestComplete(c)
    <3>1. /\ conn[c].state = "READING_REQUEST" /\ UNCHANGED <<table, loop, lost>>
          /\ InitiateBackendConnect(c, conn[c], fd, "READING_REQUEST")
      BY <2>1 DEF RequestComplete, Ready
    <3>2. /\ conn[c] \in [state : States, backend : Nat, pending : Nat, attempts : Nat]
          /\ conn[c].attempts <= MaxRetries
      <4>1. ConnOK(c) /\ conn[c] \in [state : States, backend : Nat, pending : Nat,
                                      attempts : Nat]
        BY DEF IInv, Typed
      <4>2. conn[c].attempts = 0
        BY <3>1, <4>1 DEF ConnOK
      <4> QED
        BY <4>1, <4>2, SelectorAssumption
    <3>3. \A s \in DOMAIN fd : fd[s] \in Descriptors
      BY DEF TInv
    <3>4. /\ \A b \in Connections : conn'[b].attempts <= 1 + MaxRetries
          /\ \A s \in DOMAIN fd' : fd'[s] \in Descriptors
      BY <3>1, <3>2, <3>3, InitiateTypes
    <3> QED
      BY <3>1, <3>4 DEF TInv, Ranged
  <2>2. CASE ~RequestComplete(c)
    <3>1. UNCHANGED <<fd, table, loop, lost>>
      BY <1>3, <2>2 DEF Handle, RequestFails, HandleClientWritable, BackendProgress,
                        BackendFails, Goto
    <3>2. conn' = conn \/ \E state : conn' = [conn EXCEPT ![c].state = state]
      BY <1>3, <2>2 DEF Handle, RequestFails, HandleClientWritable, BackendProgress,
                        BackendFails, Goto
    <3>3. \A b \in Connections : conn'[b].attempts = conn[b].attempts
      BY <3>2 DEF IInv, Typed
    <3> QED
      BY <3>1, <3>3 DEF TInv, Ranged
  <2> QED
    BY <2>1, <2>2
<1>4. ASSUME NEW c \in Connections, FailBackend(c)
      PROVE  TInv'
  <2> DEFINE x == [conn[c] EXCEPT !.pending = conn[c].backend, !.backend = 0]
             open == OpenAfterClose(c)
  <2>1. /\ lost' = lost \cup Pending(c) /\ UNCHANGED <<table, loop>>
        /\ \/ CanRetry(x) /\ InitiateBackendConnect(c, x, open, busy[2])
           \/ conn' = [conn EXCEPT ![c] = [x EXCEPT !.state = "DONE"]] /\ fd' = open
    BY <1>4 DEF FailBackend
  <2>2. /\ x \in [state : States, backend : Nat, pending : Nat, attempts : Nat]
        /\ x.attempts = conn[c].attempts
    BY DEF IInv, Typed
  <2>3. \A s \in DOMAIN open : open[s] \in Descriptors
    BY DEF OpenAfterClose, Without, Restrict, TInv
  <2> HIDE DEF x, open
  <2>4. /\ \A b \in Connections : conn'[b].attempts <= 1 + MaxRetries
        /\ \A s \in DOMAIN fd' : fd'[s] \in Descriptors
    <3>1. CASE CanRetry(x) /\ InitiateBackendConnect(c, x, open, busy[2])
      BY <2>2, <2>3, <3>1, InitiateTypes DEF CanRetry
    <3>2. CASE conn' = [conn EXCEPT ![c] = [x EXCEPT !.state = "DONE"]] /\ fd' = open
      <4>1. \A b \in Connections : conn'[b].attempts = conn[b].attempts
        BY <2>2, <3>2 DEF IInv, Typed
      <4> QED
        BY <2>3, <3>2, <4>1 DEF TInv
    <3> QED
      BY <2>1, <3>1, <3>2
  <2> QED
    BY <1>1, <2>1, <2>4 DEF TInv, Ranged
<1>5. ASSUME NEW c \in Connections, Settle(c)
      PROVE  TInv'
  <2> DEFINE sel == Transition(FlushPendingUnregister(Present, c), c, busy[2])
  <2>1. Within(c, "settle") /\ table' = sel.table /\ UNCHANGED <<fd, loop, lost>>
    BY <1>5 DEF Settle
  <2>2. Ranged(sel.table)
    BY <2>1, SettleRanged
  <2>3. \A b \in Connections : conn'[b].attempts = conn[b].attempts
    BY <1>5 DEF Settle, IInv, Typed
  <2> HIDE DEF sel
  <2> QED
    BY <2>1, <2>2, <2>3 DEF TInv, Ranged
<1>6. ASSUME NEW c \in Connections, Raise(c) \/ Expire(c)
      PROVE  TInv'
  <2>1. /\ \A b \in Connections : conn'[b].attempts = conn[b].attempts
        /\ UNCHANGED <<fd, table, loop>> /\ lost' \subseteq lost \cup Pending(c)
    BY <1>6 DEF Raise, Expire, IInv, Typed
  <2> QED
    BY <1>1, <2>1 DEF TInv, Ranged
<1>7. ASSUME NEW how \in {"stopped", "crashed"}, Shutdown(how)
      PROVE  TInv'
  BY <1>7 DEF Shutdown, TInv, Ranged
<1>8. ASSUME NEW c \in Connections, Accept(c)
      PROVE  TInv'
  <2>1. PICK d \in NewDescriptors(fd) :
          IF d \in DOMAIN table THEN Shutdown("crashed")
          ELSE /\ conn' = [conn EXCEPT ![c].state = "READING_REQUEST"]
               /\ fd' = With(fd, Client(c), d)
               /\ table' = With(table, d, [sock |-> Client(c), mask |-> "READ"])
               /\ UNCHANGED <<loop, lost>>
    BY <1>8 DEF Accept
  <2>2. CASE d \in DOMAIN table
    BY <1>7, <2>1, <2>2
  <2>3. CASE d \notin DOMAIN table
    <3>1. \A b \in Connections : conn'[b].attempts = conn[b].attempts
      BY <2>1, <2>3 DEF IInv, Typed
    <3>2. d \in Descriptors
      BY DEF NewDescriptors, Free
    <3>3. \A s \in DOMAIN fd' : fd'[s] \in Descriptors
      BY <2>1, <2>3, <3>2 DEF With, TInv
    <3>4. Ranged(table')
      BY <2>1, <2>3, <3>2 DEF With, Ranged, TInv, Masks
    <3> QED
      BY <2>1, <2>3, <3>1, <3>3, <3>4 DEF TInv, Ranged
  <2> QED
    BY <2>2, <2>3
<1>9. ASSUME NEW c \in Connections, Reap(c)
      PROVE  TInv'
  <2>1. \A b \in Connections : conn'[b].attempts = conn[b].attempts
    BY <1>9 DEF Reap, IInv, Typed
  <2> QED
    BY <1>9, <2>1 DEF Reap, Without, Restrict, TInv, Ranged
<1>10. CASE Stop
  BY <1>7, <1>10 DEF Stop
<1> QED
  BY <1>2, <1>3, <1>4, <1>5, <1>6, <1>8, <1>9, <1>10 DEF Next

(* The state keeps its types (ProxyConnection's fields, the selector's     *)
(* table, the descriptors): no attempt is made too many, and no two open   *)
(* sockets have one number.                                                *)
THEOREM TypeCorrect == Spec => []TypeOK
<1>1. IInv /\ WInv /\ TInv => TypeOK
  <2> SUFFICES ASSUME IInv, WInv, TInv
               PROVE  TypeOK
    OBVIOUS
  <2>1. ASSUME NEW c \in Connections
        PROVE  /\ conn[c].attempts \in Attempts /\ conn[c].backend \in Attempts
               /\ conn[c].pending \in Attempts /\ conn[c].state \in States
               /\ \A k \in Nat : k <= conn[c].attempts => k \in Attempts
    <3>1. conn[c] \in [state : States, backend : Nat, pending : Nat, attempts : Nat]
      BY DEF IInv, Typed
    <3>2. /\ conn[c].backend <= conn[c].attempts /\ conn[c].pending <= conn[c].attempts
          /\ conn[c].attempts <= 1 + MaxRetries
      BY DEF IInv, ConnOK, WInv, LostOK, TInv
    <3> QED
      BY <3>1, <3>2, SelectorAssumption DEF Attempts
  <2>2. conn \in [Connections -> [state : States, backend : Attempts, pending : Attempts,
                                  attempts : Attempts]]
    BY <2>1 DEF IInv, Typed
  <2>3. /\ DOMAIN fd \subseteq Sockets /\ Range(fd) \subseteq Descriptors /\ IsInjective(fd)
    <3>1. 0 \in Attempts
      BY SelectorAssumption DEF Attempts
    <3>2. DOMAIN fd \subseteq Sockets
      <4> SUFFICES ASSUME NEW c \in Connections, NEW k \in Nat, <<c, k>> \in DOMAIN fd
                   PROVE  k \in Attempts
        BY DEF IInv, Typed, Sockets
      <4>1. k \in {0, conn[c].backend}
        BY DEF IInv, ConnOK
      <4> QED
        BY <2>1, <3>1, <4>1
    <3> QED
      BY <3>2 DEF TInv, Range, WInv, OneEach, IsInjective
  <2>4. Range(table) \subseteq [sock : Sockets, mask : Masks]
    <3> SUFFICES ASSUME NEW d \in DOMAIN table
                 PROVE  table[d] \in [sock : Sockets, mask : Masks]
      BY DEF Range
    <3>1. PICK c \in Connections, k \in Nat :
            /\ table[d] = [sock |-> <<c, k>>, mask |-> table[d].mask]
            /\ k <= conn[c].attempts
      BY DEF IInv, KeysOK, KeyOK
    <3>2. <<c, k>> \in Sockets /\ table[d].mask \in Masks
      BY <2>1, <3>1 DEF Sockets, TInv, Ranged
    <3> QED
      BY <3>1, <3>2
  <2>5. DOMAIN epoll \subseteq DOMAIN table /\ Range(epoll) \subseteq Masks
    BY DEF WInv, Tables, TInv, Ranged, Range
  <2>6. lost \subseteq Sockets
    BY <2>1 DEF TInv, WInv, LostOK, Sockets
  <2> QED
    BY <2>2, <2>3, <2>4, <2>5, <2>6 DEF TypeOK, IInv, Typed, Steps, TInv, Ranged
<1>2. Spec => [](IInv /\ WInv /\ TInv)
  BY InitIInv, InitWInv, InitTInv, NextIInv, NextWInv, NextTInv, PTL DEF Spec
<1> QED
  BY <1>1, <1>2, PTL
=============================================================================
