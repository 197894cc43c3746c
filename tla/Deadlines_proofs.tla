---------------------------- MODULE Deadlines_proofs ----------------------------
(***************************************************************************)
(* Theorems about Deadlines for any number of connections, any timeouts    *)
(* and any reuse of ids: no deadline is lost, none is slept past, and none *)
(* comes early but by a reused id.                                         *)
(*                                                                         *)
(* LiveAreScheduled is not inductive: _reap takes the id of a connection   *)
(* that is done out of _conn_by_id, so it must be known that no live       *)
(* connection has that id.  Registered says it, for both kinds.            *)
(***************************************************************************)
EXTENDS Deadlines, TLAPS

Alive(c) == Live(c) \/ state[c] = "DONE"

Registered ==
  \A c \in Conns : Alive(c) => addr[c] \in Ids /\ connById[addr[c]] = c

Scheduled ==
  \A c \in Conns : Live(c) => EntryOf(deadline[c], gen[c], addr[c]) \in heap

IInv == TypeOK /\ Registered /\ Scheduled

LEMMA InvImpliesScheduled == IInv => LiveAreScheduled
BY DEF IInv, Registered, Scheduled, Alive, LiveAreScheduled

LEMMA StateNames ==
  /\ "NEW" \notin Active /\ "DONE" \notin Active /\ "CLOSED" \notin Active
  /\ "READING_REQUEST" \in Active
BY DEF Active

LEMMA InitInv == Init => IInv
<1> SUFFICES ASSUME Init PROVE IInv
  OBVIOUS
<1>1. TypeOK
  BY DeadlineAssumption DEF Init, TypeOK
<1>2. \A c \in Conns : ~Alive(c) /\ ~Live(c)
  BY StateNames DEF Init, Alive, Live
<1> QED
  BY <1>1, <1>2 DEF IInv, Registered, Scheduled

-----------------------------------------------------------------------------
(* Each action keeps the invariant. *)

LEMMA SelectKeeps == IInv /\ Select => IInv'
<1> SUFFICES ASSUME IInv, Select PROVE IInv'
  OBVIOUS
<1>1. TypeOK'
  BY DEF IInv, TypeOK, Select, conns
<1>2. Registered'
  BY DEF IInv, Registered, Alive, Live, Select, conns
<1>3. ASSUME NEW c \in Conns, Live(c)
      PROVE  Valid(EntryOf(deadline[c], gen[c], addr[c]))
  BY <1>3, DeadlineAssumption
     DEF IInv, Registered, Alive, Valid, EntryOf
<1>4. Scheduled'
  BY <1>3 DEF IInv, Scheduled, Live, Select, conns, EntryOf
<1> QED
  BY <1>1, <1>2, <1>4 DEF IInv

LEMMA AcceptKeeps == ASSUME NEW c \in Conns, IInv, Accept(c) PROVE IInv'
<1> DEFINE due == now + Timeout["READING_REQUEST"]
<1>1. PICK i \in FreeIds :
        /\ addr' = [addr EXCEPT ![c] = i]
        /\ connById' = [connById EXCEPT ![i] = c]
        /\ heap' = heap \cup {EntryOf(due, 1, i)}
        /\ deadline' = [deadline EXCEPT ![c] = due]
  BY DEF Accept
<1>2. /\ state' = [state EXCEPT ![c] = "READING_REQUEST"]
      /\ gen' = [gen EXCEPT ![c] = 1]
      /\ fresh' = fresh \cup {c}
      /\ UNCHANGED <<now, pc, pinned>>
  BY DEF Accept
<1>3. i \in Ids /\ due \in Nat
  BY <1>1, StateNames, DeadlineAssumption DEF FreeIds, IInv, TypeOK
<1>4. TypeOK'
  <2>1. EntryOf(due, 1, i) \in Entry
    BY <1>3 DEF EntryOf, Entry
  <2> QED
    BY <1>1, <1>2, <1>3, <2>1, StateNames DEF IInv, TypeOK
<1>5. ASSUME NEW d \in Conns, d # c, Alive(d)
      PROVE  addr[d] # i
  BY <1>1, <1>5 DEF FreeIds, Referenced, Alive
<1>6. ASSUME NEW d \in Conns, d # c
      PROVE  /\ Live(d)' = Live(d) /\ Alive(d)' = Alive(d)
             /\ addr'[d] = addr[d] /\ gen'[d] = gen[d]
             /\ deadline'[d] = deadline[d]
  BY <1>1, <1>2, <1>6 DEF IInv, TypeOK, Live, Alive
<1>7. addr'[c] = i /\ gen'[c] = 1 /\ deadline'[c] = due /\ connById'[i] = c
  BY <1>1, <1>2, <1>3 DEF IInv, TypeOK
<1>8. Registered'
  <2> SUFFICES ASSUME NEW d \in Conns, Alive(d)'
               PROVE  addr'[d] \in Ids /\ connById'[addr'[d]] = d
    BY DEF Registered
  <2>1. CASE d = c
    BY <1>3, <1>7, <2>1
  <2>2. CASE d # c
    BY <1>1, <1>3, <1>5, <1>6, <2>2 DEF IInv, TypeOK, Registered
  <2> QED
    BY <2>1, <2>2
<1>9. Scheduled'
  <2> SUFFICES ASSUME NEW d \in Conns, Live(d)'
               PROVE  EntryOf(deadline'[d], gen'[d], addr'[d]) \in heap'
    BY DEF Scheduled, EntryOf
  <2>1. CASE d = c
    BY <1>1, <1>7, <2>1
  <2>2. CASE d # c
    BY <1>1, <1>6, <2>2 DEF IInv, Scheduled
  <2> QED
    BY <2>1, <2>2
<1> QED
  BY <1>4, <1>8, <1>9 DEF IInv

LEMMA RefreshKeeps ==
  ASSUME NEW c \in Conns, NEW n \in 1..MaxGen, IInv, Refresh(c, n) PROVE IInv'
<1>1. PICK s \in Successors(state[c]) :
        /\ state' = [state EXCEPT ![c] = s]
        /\ deadline' = [deadline EXCEPT ![c] = now + Timeout[s]]
        /\ heap' = heap \cup {EntryOf(now + Timeout[s], gen[c] + n, addr[c])}
  BY DEF Refresh
<1> DEFINE due == now + Timeout[s]
<1>2. /\ Live(c)
      /\ gen' = [gen EXCEPT ![c] = @ + n]
      /\ connById' = [connById EXCEPT ![addr[c]] = c]
      /\ pinned' = c
      /\ UNCHANGED <<now, pc, addr, fresh>>
  BY DEF Refresh, Dispatched
<1>3. s \in Active
  BY DEF Successors, Active
<1>4. addr[c] \in Ids /\ due \in Nat /\ gen[c] + n \in Nat
  BY <1>2, <1>3, DeadlineAssumption DEF IInv, TypeOK, Registered, Alive
<1>5. TypeOK'
  <2>1. EntryOf(due, gen[c] + n, addr[c]) \in Entry
    BY <1>4 DEF EntryOf, Entry
  <2> QED
    BY <1>1, <1>2, <1>3, <1>4, <2>1 DEF IInv, TypeOK
<1>6. Registered'
  <2>1. connById' = connById
    BY <1>2, <1>4 DEF IInv, TypeOK, Registered, Alive
  <2>2. \A d \in Conns : Alive(d)' => Alive(d)
    BY <1>1, <1>2 DEF IInv, TypeOK, Alive, Live
  <2> QED
    BY <1>2, <2>1, <2>2 DEF IInv, Registered
<1>7. Scheduled'
  <2> SUFFICES ASSUME NEW d \in Conns, Live(d)'
               PROVE  EntryOf(deadline'[d], gen'[d], addr'[d]) \in heap'
    BY DEF Scheduled, EntryOf
  <2>1. CASE d = c
    BY <1>1, <1>2, <2>1 DEF IInv, TypeOK
  <2>2. CASE d # c
    BY <1>1, <1>2, <2>2 DEF IInv, TypeOK, Scheduled, Live
  <2> QED
    BY <2>1, <2>2
<1> QED
  BY <1>5, <1>6, <1>7 DEF IInv

LEMMA IgnoreKeeps == ASSUME NEW c \in Conns, IInv, Ignore(c) PROVE IInv'
<1>1. /\ Live(c)
      /\ heap' = heap \cup {EntryOf(deadline[c], gen[c], addr[c])}
      /\ connById' = [connById EXCEPT ![addr[c]] = c]
      /\ pinned' = c
      /\ UNCHANGED <<now, pc, conns, fresh>>
  BY DEF Ignore, Dispatched
<1>2. connById' = connById /\ heap' = heap
  BY <1>1 DEF IInv, TypeOK, Registered, Scheduled, Alive
<1> QED
  BY <1>1, <1>2
     DEF IInv, TypeOK, Registered, Scheduled, Alive, Live, conns, EntryOf

LEMMA FinishKeeps == ASSUME NEW c \in Conns, IInv, Finish(c) PROVE IInv'
<1>1. /\ Live(c)
      /\ state' = [state EXCEPT ![c] = "DONE"]
      /\ pinned' = c
      /\ UNCHANGED <<now, pc, addr, deadline, gen, connById, heap, fresh>>
  BY DEF Finish, Dispatched
<1>2. \A d \in Conns : (Alive(d)' => Alive(d)) /\ (Live(d)' => Live(d))
  BY <1>1, StateNames DEF IInv, TypeOK, Alive, Live
<1> QED
  BY <1>1, <1>2 DEF IInv, TypeOK, Registered, Scheduled, EntryOf

LEMMA EndDispatchKeeps == IInv /\ EndDispatch => IInv'
BY DEF EndDispatch, conns, IInv, TypeOK, Registered, Scheduled, Alive, Live,
       EntryOf

(* A live connection that does not time out keeps its entry: that entry is *)
(* valid, so were it due the connection would have timed out.              *)
LEMMA ExpireKeeps == IInv /\ Expire => IInv'
<1> SUFFICES ASSUME IInv, Expire PROVE IInv'
  OBVIOUS
<1>1. /\ heap' = {e \in heap : e.deadline > now}
      /\ state' = [c \in Conns |-> IF c \in TimedOut THEN "DONE" ELSE state[c]]
      /\ pc' = "reap"
      /\ UNCHANGED <<now, addr, deadline, gen, connById, fresh, pinned>>
  BY DEF Expire
<1>2. \A c \in TimedOut : Live(c)
  BY DEF TimedOut, Valid
<1>3. TypeOK'
  BY <1>1 DEF IInv, TypeOK
<1>4. \A c \in Conns : Alive(c)' => Alive(c)
  BY <1>1, <1>2 DEF Alive, Live
<1>5. Registered'
  BY <1>1, <1>4 DEF IInv, Registered
<1>6. ASSUME NEW c \in Conns, Live(c)'
      PROVE  EntryOf(deadline[c], gen[c], addr[c]) \in heap'
  <2> DEFINE e == EntryOf(deadline[c], gen[c], addr[c])
  <2>1. Live(c) /\ c \notin TimedOut
    BY <1>1, <1>6, StateNames DEF Live
  <2>2. e \in heap /\ connById[e.id] = c /\ e.gen = gen[c] /\ e.deadline = deadline[c]
    BY <2>1 DEF IInv, Registered, Scheduled, Alive, EntryOf
  <2>3. Valid(e)
    BY <2>1, <2>2, DeadlineAssumption DEF Valid
  <2>4. ~(e.deadline <= now)
    BY <2>1, <2>2, <2>3 DEF TimedOut
  <2>5. now \in Nat /\ deadline[c] \in Nat
    BY DEF IInv, TypeOK
  <2> QED
    BY <1>1, <2>2, <2>4, <2>5
<1>7. Scheduled'
  BY <1>1, <1>6 DEF Scheduled, EntryOf
<1> QED
  BY <1>3, <1>5, <1>7 DEF IInv

LEMMA ReapKeeps == IInv /\ Reap => IInv'
<1> SUFFICES ASSUME IInv, Reap PROVE IInv'
  OBVIOUS
<1>1. /\ state' = [c \in Conns |-> IF state[c] = "DONE" THEN "CLOSED" ELSE state[c]]
      /\ connById' = [i \in Ids |->
                        IF \E c \in Conns : state[c] = "DONE" /\ addr[c] = i
                        THEN NoConn ELSE connById[i]]
      /\ pc' = "select"
      /\ UNCHANGED <<now, addr, deadline, gen, heap, fresh, pinned>>
  BY DEF Reap
<1>2. TypeOK'
  BY <1>1 DEF IInv, TypeOK
<1>3. \A c \in Conns : Alive(c)' => Live(c) /\ state[c] # "DONE"
  BY <1>1, StateNames DEF Alive, Live
<1>4. \A c \in Conns : Live(c)' => Live(c)
  BY <1>1, StateNames DEF Live
<1>5. Registered'
  <2> SUFFICES ASSUME NEW c \in Conns, Live(c), state[c] # "DONE"
               PROVE  addr[c] \in Ids /\ connById'[addr[c]] = c
    BY <1>1, <1>3 DEF Registered
  <2>1. addr[c] \in Ids /\ connById[addr[c]] = c
    BY DEF IInv, Registered, Alive
  <2>2. ASSUME NEW d \in Conns, state[d] = "DONE"
        PROVE  addr[d] # addr[c]
    BY <2>1, <2>2 DEF IInv, Registered, Alive
  <2> QED
    BY <1>1, <2>1, <2>2
<1>6. Scheduled'
  BY <1>1, <1>4 DEF IInv, Scheduled, EntryOf
<1> QED
  BY <1>2, <1>5, <1>6 DEF IInv

LEMMA NextKeepsInv == IInv /\ [Next]_vars => IInv'
<1>1. IInv /\ UNCHANGED vars => IInv'
  BY DEF vars, IInv, TypeOK, Registered, Scheduled, Alive, Live, EntryOf
<1> QED
  BY <1>1, SelectKeeps, AcceptKeeps, RefreshKeeps, IgnoreKeeps, FinishKeeps,
     EndDispatchKeeps, ExpireKeeps, ReapKeeps DEF Next

LEMMA Invariant == Spec => []IInv
BY InitInv, NextKeepsInv, PTL DEF Spec

(* Type correctness of the scheduler's state.                              *)
THEOREM Types == Spec => []TypeOK
<1>1. IInv => TypeOK
  BY DEF IInv
<1> QED
  BY <1>1, Invariant, PTL

(* Lazy deletion never loses the deadline of a live connection, even when  *)
(* ids are used again and old entries are taken for new ones.              *)
THEOREM NoDeadlineLost == Spec => []LiveAreScheduled
BY Invariant, InvImpliesScheduled, PTL

-----------------------------------------------------------------------------

LEMMA NextNeverOverdue ==
  IInv /\ NeverOverdue /\ [Next]_vars => NeverOverdue'
<1> SUFFICES ASSUME IInv, NeverOverdue, [Next]_vars,
                    NEW d \in Conns, Live(d)'
             PROVE  now' <= deadline'[d]
  BY DEF NeverOverdue
<1> USE DEF IInv, TypeOK
<1>1. Live(d) => now <= deadline[d]
  BY DEF NeverOverdue
<1>2. CASE Select
  <2> DEFINE e == EntryOf(deadline[d], gen[d], addr[d])
  <2>1. Live(d) /\ deadline'[d] = deadline[d]
    BY <1>2 DEF Select, conns, Live
  <2>2. e \in heap /\ Valid(e)
    BY <2>1, DeadlineAssumption DEF Registered, Scheduled, Alive, Valid, EntryOf
  <2>3. PICK wait \in 0..SelectCap :
          /\ now + wait <= e.deadline \/ wait = 0
          /\ now' = now + wait
    BY <1>2, <2>2 DEF Select
  <2> QED
    BY <1>1, <2>1, <2>3 DEF EntryOf
<1>3. ASSUME NEW c \in Conns, Accept(c)
      PROVE  now' <= deadline'[d]
  <2>1. /\ now' = now
        /\ deadline' = [deadline EXCEPT ![c] = now + Timeout["READING_REQUEST"]]
        /\ state' = [state EXCEPT ![c] = "READING_REQUEST"]
    BY <1>3 DEF Accept
  <2>2. Timeout["READING_REQUEST"] \in Nat
    BY StateNames, DeadlineAssumption
  <2> QED
    BY <1>1, <2>1, <2>2 DEF Live
<1>4. ASSUME NEW c \in Conns, NEW n \in 1..MaxGen, Refresh(c, n)
      PROVE  now' <= deadline'[d]
  <2>1. PICK s \in Successors(state[c]) :
          /\ state' = [state EXCEPT ![c] = s]
          /\ deadline' = [deadline EXCEPT ![c] = now + Timeout[s]]
    BY <1>4 DEF Refresh
  <2>2. s \in Active /\ now' = now
    BY <1>4 DEF Refresh, Successors, Active
  <2>3. Timeout[s] \in Nat
    BY <2>2, DeadlineAssumption
  <2> QED
    BY <1>1, <2>1, <2>2, <2>3 DEF Live
<1>5. ASSUME NEW c \in Conns, Ignore(c) \/ Finish(c)
      PROVE  now' <= deadline'[d]
  BY <1>1, <1>5, StateNames DEF Ignore, Finish, conns, Live
<1>6. CASE EndDispatch \/ UNCHANGED vars
  BY <1>1, <1>6 DEF EndDispatch, conns, vars, Live
<1>7. CASE Expire \/ Reap
  BY <1>1, <1>7, StateNames DEF Expire, Reap, Live
<1> QED
  BY <1>2, <1>3, <1>4, <1>5, <1>6, <1>7 DEF Next

(* The reactor never sleeps past the deadline of a live connection: the    *)
(* select timeout comes from an entry no later than the connection's own.  *)
THEOREM NoDeadlineMissed == Spec => []NeverOverdue
<1>1. Init => NeverOverdue
  BY StateNames DEF Init, NeverOverdue, Live
<1>2. Spec => []IInv
  BY Invariant
<1> QED
  BY <1>1, <1>2, NextNeverOverdue, PTL DEF Spec
-----------------------------------------------------------------------------

(* Every entry was pushed for a connection that has, or had, its id; and   *)
(* an entry of the latest generation of that connection has its deadline.  *)
PushedFor(e, d) ==
  /\ addr[d] = e.id
  /\ e.gen <= gen[d]
  /\ e.gen = gen[d] => e.deadline = deadline[d]

Provenance == \A e \in heap : \E d \in Conns : PushedFor(e, d)

(* A connection not accepted yet has no id, so _accept changes none; and   *)
(* what _conn_by_id finds under an id is a connection that has it.         *)
Addressed ==
  /\ \A c \in Conns : state[c] = "NEW" => addr[c] = NoId
  /\ \A i \in Ids : connById[i] # NoConn => addr[connById[i]] = i

LEMMA NextAddressed == IInv /\ Addressed /\ [Next]_vars => Addressed'
<1> SUFFICES ASSUME IInv, Addressed, [Next]_vars PROVE Addressed'
  OBVIOUS
<1> USE DEF IInv, TypeOK, Addressed
<1>1. CASE Select \/ EndDispatch \/ UNCHANGED vars
  BY <1>1 DEF Select, EndDispatch, conns, vars
<1>2. CASE Expire \/ Reap
  BY <1>2 DEF Expire, Reap
<1>3. ASSUME NEW c \in Conns, Accept(c)
      PROVE  Addressed'
  <2>1. PICK i \in Ids :
          /\ addr' = [addr EXCEPT ![c] = i]
          /\ connById' = [connById EXCEPT ![i] = c]
    BY <1>3 DEF Accept, FreeIds
  <2>2. addr[c] = NoId /\ state' = [state EXCEPT ![c] = "READING_REQUEST"]
    BY <1>3 DEF Accept
  <2>3. \A d \in Conns : state'[d] = "NEW" => addr'[d] = NoId
    BY <2>1, <2>2
  <2>4. \A j \in Ids : connById'[j] # NoConn => addr'[connById'[j]] = j
    BY <2>1, <2>2, DeadlineAssumption
  <2> QED
    BY <2>3, <2>4
<1>4. ASSUME NEW c \in Conns, NEW n \in 1..MaxGen, Refresh(c, n)
      PROVE  Addressed'
  <2>1. PICK s \in Successors(state[c]) : state' = [state EXCEPT ![c] = s]
    BY <1>4 DEF Refresh
  <2>2. s \in Active /\ addr' = addr
    BY <1>4 DEF Refresh, Successors, Active
  <2>3. connById' = connById
    BY <1>4 DEF Refresh, Dispatched, Registered, Alive
  <2> QED
    BY <2>1, <2>2, <2>3, StateNames
<1>5. ASSUME NEW c \in Conns, Ignore(c) \/ Finish(c)
      PROVE  Addressed'
  <2>1. connById' = connById
    BY <1>5 DEF Ignore, Finish, Dispatched, Registered, Alive
  <2> QED
    BY <1>5, <2>1 DEF Ignore, Finish, conns
<1> QED
  BY <1>1, <1>2, <1>3, <1>4, <1>5 DEF Next

LEMMA NextProvenance ==
  IInv /\ Addressed /\ Provenance /\ [Next]_vars => Provenance'
<1> SUFFICES ASSUME IInv, Addressed, Provenance, [Next]_vars,
                    NEW e \in heap'
             PROVE  \E d \in Conns : PushedFor(e, d)'
  BY DEF Provenance
<1> USE DEF IInv, TypeOK
<1>1. ASSUME e \in heap, UNCHANGED <<addr, deadline, gen>>
      PROVE  \E d \in Conns : PushedFor(e, d)'
  BY <1>1 DEF Provenance, PushedFor
<1>2. CASE Select \/ EndDispatch \/ Expire \/ Reap \/ UNCHANGED vars
  BY <1>1, <1>2 DEF Select, EndDispatch, Expire, Reap, conns, vars
<1>3. ASSUME NEW c \in Conns, Accept(c)
      PROVE  \E d \in Conns : PushedFor(e, d)'
  <2> DEFINE due == now + Timeout["READING_REQUEST"]
  <2>1. PICK i \in FreeIds :
          /\ addr' = [addr EXCEPT ![c] = i]
          /\ heap' = heap \cup {EntryOf(due, 1, i)}
          /\ deadline' = [deadline EXCEPT ![c] = due]
    BY <1>3 DEF Accept
  <2>2. state[c] = "NEW" /\ gen' = [gen EXCEPT ![c] = 1]
    BY <1>3 DEF Accept
  <2>3. CASE e = EntryOf(due, 1, i)
    <3>1. PushedFor(e, c)'
      BY <2>1, <2>2, <2>3 DEF PushedFor, EntryOf
    <3> QED
      BY <3>1
  <2>4. CASE e \in heap
    <3>1. PICK d \in Conns : PushedFor(e, d)
      BY <2>4 DEF Provenance
    <3>2. d # c
      BY <2>2, <2>4, <3>1, DeadlineAssumption
         DEF Addressed, PushedFor, Entry
    <3>3. addr'[d] = addr[d] /\ gen'[d] = gen[d] /\ deadline'[d] = deadline[d]
      BY <2>1, <2>2, <3>2
    <3>4. PushedFor(e, d)'
      BY <3>1, <3>3 DEF PushedFor
    <3> QED
      BY <3>4
  <2> QED
    BY <2>1, <2>3, <2>4
<1>4. ASSUME NEW c \in Conns, NEW n \in 1..MaxGen, Refresh(c, n)
      PROVE  \E d \in Conns : PushedFor(e, d)'
  <2>1. PICK s \in Successors(state[c]) :
          /\ deadline' = [deadline EXCEPT ![c] = now + Timeout[s]]
          /\ heap' = heap \cup {EntryOf(now + Timeout[s], gen[c] + n, addr[c])}
    BY <1>4 DEF Refresh
  <2>2. gen' = [gen EXCEPT ![c] = @ + n] /\ addr' = addr
    BY <1>4 DEF Refresh
  <2>3. CASE e = EntryOf(now + Timeout[s], gen[c] + n, addr[c])
    <3>1. PushedFor(e, c)'
      BY <2>1, <2>2, <2>3, DeadlineAssumption DEF PushedFor, EntryOf
    <3> QED
      BY <3>1
  <2>4. CASE e \in heap
    <3>1. PICK d \in Conns : PushedFor(e, d)
      BY <2>4 DEF Provenance
    <3>2. CASE d # c
      <4>1. PushedFor(e, d)'
        BY <2>1, <2>2, <3>1, <3>2 DEF PushedFor
      <4> QED
        BY <4>1
    <3>3. CASE d = c
      <4>1. e.gen \in Int /\ gen[c] \in Nat /\ gen'[c] = gen[c] + n /\ n >= 1
        BY <2>2, <2>4, DeadlineAssumption DEF Entry
      <4>2. e.gen < gen'[c]
        BY <3>1, <3>3, <4>1 DEF PushedFor
      <4>3. PushedFor(e, c)'
        BY <2>2, <3>1, <3>3, <4>1, <4>2 DEF PushedFor
      <4> QED
        BY <4>3
    <3> QED
      BY <3>2, <3>3
  <2> QED
    BY <2>1, <2>3, <2>4
<1>5. ASSUME NEW c \in Conns, Ignore(c)
      PROVE  \E d \in Conns : PushedFor(e, d)'
  <2>1. e \in heap
    BY <1>5 DEF Ignore, Dispatched, Registered, Scheduled, Alive
  <2> QED
    BY <1>1, <1>5, <2>1 DEF Ignore, conns
<1>6. ASSUME NEW c \in Conns, Finish(c)
      PROVE  \E d \in Conns : PushedFor(e, d)'
  BY <1>1, <1>6 DEF Finish
<1> QED
  BY <1>2, <1>3, <1>4, <1>5, <1>6 DEF Next

(* Provenance makes an entry that is due before the deadline of the        *)
(* connection it is taken for an entry of another one: of another          *)
(* connection, since the generations are the same; of one that is over,    *)
(* since Registered lets no two live or unreaped ones share an id.         *)
LEMMA EarlyStep ==
  ASSUME IInv, Addressed, Provenance, [Next]_vars,
         NEW c \in Conns, TimesOutEarly(c)
  PROVE  \E d \in Conns \ {c} : addr[d] = addr[c] /\ state[d] = "CLOSED"
<1> USE DEF IInv, TypeOK
<1>1. c \in TimedOut
  BY StateNames
     DEF Next, TimesOutEarly, Select, Accept, Refresh, Ignore, Finish, Dispatched,
         EndDispatch, Expire, Reap, Live, vars
<1>2. PICK e \in heap : e.deadline <= now /\ Valid(e) /\ connById[e.id] = c
  BY <1>1 DEF TimedOut
<1>3. PICK d \in Conns : PushedFor(e, d)
  BY <1>2 DEF Provenance
<1>4. ~Alive(d) \/ d = c
  BY <1>2, <1>3 DEF Registered, PushedFor
<1>5. d # c
  BY <1>2, <1>3 DEF PushedFor, Valid, TimesOutEarly, Entry
<1>6. addr[d] \in Ids
  BY <1>3 DEF PushedFor, Entry
<1>7. state[d] = "CLOSED"
  BY <1>4, <1>5, <1>6, DeadlineAssumption DEF Addressed, Alive, Live
<1>8. addr[d] = addr[c]
  BY <1>2, <1>3, DeadlineAssumption DEF Addressed, PushedFor, Entry
<1> QED
  BY <1>5, <1>7, <1>8

(* A connection is timed out before its deadline only on the entry of an   *)
(* earlier connection, closed since, whose id it was given.                *)
THEOREM EarlyTimeoutsAreReusedIds == Spec => EarlyOnlyByReuse
<1>1. Init => Addressed /\ Provenance
  BY DEF Init, Addressed, Provenance
<1>2. Spec => []IInv
  BY Invariant
<1>3. IInv /\ Addressed /\ Provenance /\ [Next]_vars =>
        [\A c \in Conns : TimesOutEarly(c) =>
           \E d \in Conns \ {c} : addr[d] = addr[c] /\ state[d] = "CLOSED"]_vars
  BY EarlyStep
<1> QED
  BY <1>1, <1>2, <1>3, NextAddressed, NextProvenance, PTL
     DEF Spec, EarlyOnlyByReuse
=============================================================================
