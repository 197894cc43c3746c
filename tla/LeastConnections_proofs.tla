------------------------ MODULE LeastConnections_proofs ------------------------
(***************************************************************************)
(* Theorems about LeastConnections for every configuration: its types, the *)
(* invariants of lazy deletion, that it implements LeastLoaded, and that   *)
(* its rotation is fair until a backend comes back to the pool.            *)
(***************************************************************************)
EXTENDS LeastConnectionsTurns, TLAPS

(* The operations, without the call that the history variable records. *)
Operation ==
  \/ \E exclude \in SUBSET Backends, e \in heap : Choose(exclude, e)
  \/ \E exclude \in SUBSET Backends : ChooseNone(exclude)
  \/ \E b \in Backends : OnDisconnect(b) \/ MarkUnhealthy(b) \/ MarkHealthy(b)

LEMMA NextIsOperation ==
  ASSUME [Next]_vars
  PROVE  \/ Operation
         \/ UNCHANGED <<heap, counts, tiebreak, healthy>>
BY DEF Next, Operation, Call, NextBackend, Release, HealthChange, vars

LEMMA InitIsTyped == Init => TypeOK
<1> SUFFICES ASSUME Init PROVE TypeOK
  OBVIOUS
<1> USE DEF Init
<1>1. heap \subseteq Entry
  BY ConfigAssumption DEF Entry, Backends
<1>2. tiebreak \in Nat
  BY ConfigAssumption
<1> QED
  BY <1>1, <1>2 DEF TypeOK

(* An entry that is pushed with a natural count is an entry. *)
LEMMA PushedIsEntry ==
  ASSUME TypeOK, NEW n \in Nat, NEW b \in Backends
  PROVE  Pushed(n, b) \in Entry
BY DEF TypeOK, Pushed, Entry

LEMMA NextKeepsTypes == TypeOK /\ [Next]_vars => TypeOK'
<1> SUFFICES ASSUME TypeOK, [Next]_vars PROVE TypeOK'
  OBVIOUS
<1>1. last' \in [exclude : SUBSET Backends, ret : Backends \cup {NoBackend}]
  BY DEF Next, Call, Release, HealthChange, vars, TypeOK
<1> DEFINE Rest == /\ heap' \subseteq Entry
                   /\ counts' \in [Backends -> Nat]
                   /\ tiebreak' \in Nat
                   /\ healthy' \subseteq Backends
<1>2. ASSUME NEW exclude \in SUBSET Backends, NEW e \in heap,
             Choose(exclude, e)
      PROVE  Rest
  <2>1. e \in Entry /\ e.count \in Nat /\ e.backend \in Backends
    BY DEF TypeOK, Entry
  <2>2. Pushed(e.count + 1, e.backend) \in Entry
    BY <2>1, PushedIsEntry
  <2>3. heap' \subseteq Entry
    BY <1>2, <2>2 DEF Choose, Deferred, TypeOK
  <2> QED
    BY <1>2, <2>1, <2>3 DEF Choose, TakeTiebreak, TypeOK
<1>3. ASSUME NEW exclude \in SUBSET Backends, ChooseNone(exclude)
      PROVE  Rest
  BY <1>3 DEF ChooseNone, Deferred, TypeOK
<1>4. ASSUME NEW b \in Backends, OnDisconnect(b)
      PROVE  Rest
  <2> DEFINE n == IF counts[b] = 0 THEN 0 ELSE counts[b] - 1
  <2>1. n \in Nat
    BY DEF TypeOK
  <2>2. Pushed(n, b) \in Entry
    BY <2>1, PushedIsEntry
  <2> QED
    BY <1>4, <2>1, <2>2 DEF OnDisconnect, TakeTiebreak, TypeOK
<1>5. ASSUME NEW b \in Backends, MarkUnhealthy(b)
      PROVE  Rest
  BY <1>5 DEF MarkUnhealthy, TypeOK
<1>6. ASSUME NEW b \in Backends, MarkHealthy(b)
      PROVE  Rest
  <2>1. counts[b] \in Nat
    BY DEF TypeOK
  <2>2. Pushed(counts[b], b) \in Entry
    BY <2>1, PushedIsEntry
  <2> QED
    BY <1>6, <2>2 DEF MarkHealthy, TakeTiebreak, TypeOK
<1>7. ASSUME UNCHANGED <<heap, counts, tiebreak, healthy>>
      PROVE  Rest
  BY <1>7 DEF TypeOK
<1>8. Rest
  BY NextIsOperation, <1>2, <1>3, <1>4, <1>5, <1>6, <1>7 DEF Operation
<1> QED
  BY <1>1, <1>8 DEF TypeOK

(* Type correctness of the router's state, for every configuration.        *)
THEOREM Types == Spec => []TypeOK
BY InitIsTyped, NextKeepsTypes, PTL DEF Spec

-----------------------------------------------------------------------------

LEMMA InitIsUnique == Init => TiebreaksUnique
BY ConfigAssumption DEF Init, TiebreaksUnique

(* A step that only drops entries, and a step that pushes one under the    *)
(* next tiebreak, keep the tiebreaks unique.                               *)
LEMMA DropKeepsUnique ==
  ASSUME TypeOK, TiebreaksUnique, heap' \subseteq heap, UNCHANGED tiebreak
  PROVE  TiebreaksUnique'
BY DEF TiebreaksUnique, TypeOK, Entry

LEMMA PushKeepsUnique ==
  ASSUME TypeOK, TiebreaksUnique, TakeTiebreak,
         NEW n \in Nat, NEW b \in Backends,
         heap' \subseteq heap \cup {Pushed(n, b)}
  PROVE  TiebreaksUnique'
<1>1. \A e \in heap : e.tb \in Nat /\ e.tb <= tiebreak /\ tiebreak \in Nat
  BY DEF TypeOK, Entry, TiebreaksUnique
<1>2. Pushed(n, b).tb = tiebreak + 1 /\ tiebreak' = tiebreak + 1
  BY DEF Pushed, TakeTiebreak
<1>3. \A e \in heap' : e.tb <= tiebreak'
  BY <1>1, <1>2 DEF TypeOK
<1>4. \A e, f \in heap' : e.tb = f.tb => e = f
  BY <1>1, <1>2 DEF TiebreaksUnique
<1> QED
  BY <1>3, <1>4 DEF TiebreaksUnique

LEMMA NextKeepsUnique == TypeOK /\ TiebreaksUnique /\ [Next]_vars => TiebreaksUnique'
<1> SUFFICES ASSUME TypeOK, TiebreaksUnique, [Next]_vars PROVE TiebreaksUnique'
  OBVIOUS
<1>1. ASSUME NEW exclude \in SUBSET Backends, NEW e \in heap,
             Choose(exclude, e)
      PROVE  TiebreaksUnique'
  <2>1. e.count + 1 \in Nat /\ e.backend \in Backends
    BY DEF TypeOK, Entry
  <2>2. heap' \subseteq heap \cup {Pushed(e.count + 1, e.backend)}
    BY <1>1 DEF Choose, Deferred
  <2> QED
    BY <1>1, <2>1, <2>2, PushKeepsUnique DEF Choose
<1>2. ASSUME NEW exclude \in SUBSET Backends, ChooseNone(exclude)
      PROVE  TiebreaksUnique'
  BY <1>2, DropKeepsUnique DEF ChooseNone, Deferred
<1>3. ASSUME NEW b \in Backends, OnDisconnect(b)
      PROVE  TiebreaksUnique'
  <2> DEFINE n == IF counts[b] = 0 THEN 0 ELSE counts[b] - 1
  <2>1. n \in Nat
    BY DEF TypeOK
  <2>2. heap' \subseteq heap \cup {Pushed(n, b)}
    BY <1>3 DEF OnDisconnect
  <2> QED
    BY <1>3, <2>1, <2>2, PushKeepsUnique DEF OnDisconnect
<1>4. ASSUME NEW b \in Backends, MarkUnhealthy(b)
      PROVE  TiebreaksUnique'
  BY <1>4, DropKeepsUnique DEF MarkUnhealthy
<1>5. ASSUME NEW b \in Backends, MarkHealthy(b)
      PROVE  TiebreaksUnique'
  <2>1. counts[b] \in Nat
    BY DEF TypeOK
  <2> QED
    BY <1>5, <2>1, PushKeepsUnique DEF MarkHealthy
<1>6. CASE UNCHANGED <<heap, counts, tiebreak, healthy>>
  BY <1>6, DropKeepsUnique
<1> QED
  BY NextIsOperation, <1>1, <1>2, <1>3, <1>4, <1>5, <1>6 DEF Operation

(* No two heap entries ever share a tiebreak: the pop order is total and   *)
(* heapq never compares two backends.                                      *)
THEOREM UniqueTiebreaks == Spec => []TiebreaksUnique
<1>1. Init => TypeOK /\ TiebreaksUnique
  BY InitIsTyped, InitIsUnique
<1>2. TypeOK /\ TiebreaksUnique /\ [Next]_vars => (TypeOK /\ TiebreaksUnique)'
  BY NextKeepsTypes, NextKeepsUnique
<1> QED
  BY <1>1, <1>2, PTL DEF Spec
-----------------------------------------------------------------------------

LEMMA InitIsSelectable == Init => HealthyAreSelectable
<1> SUFFICES ASSUME Init, NEW b \in healthy
             PROVE  \E e \in heap : e.backend = b /\ e.count = counts[b]
  BY DEF HealthyAreSelectable
<1>1. PICK i \in 1..Len(Configured) : b = Configured[i]
  BY DEF Init, Backends
<1>2. [count |-> 0, tb |-> i, backend |-> Configured[i]] \in heap
  BY DEF Init
<1>3. counts[b] = 0
  BY DEF Init
<1> QED
  BY <1>1, <1>2, <1>3

(* b has the entry that HealthyAreSelectable asks for. *)
HasEntry(b) == \E e \in heap : e.backend = b /\ e.count = counts[b]

LEMMA NextKeepsSelectable ==
  TypeOK /\ HealthyAreSelectable /\ [Next]_vars => HealthyAreSelectable'
<1> SUFFICES ASSUME TypeOK, HealthyAreSelectable, [Next]_vars,
                    NEW h \in healthy'
             PROVE  HasEntry(h)'
  BY DEF HealthyAreSelectable, HasEntry
<1>1. h \in healthy => HasEntry(h)
  BY DEF HealthyAreSelectable, HasEntry
<1>2. ASSUME NEW exclude \in SUBSET Backends, NEW e \in heap,
             Choose(exclude, e)
      PROVE  HasEntry(h)'
  <2>1. e.backend \in Backends /\ counts[e.backend] = e.count
    BY <1>2 DEF Choose, Selectable, Current, TypeOK, Entry
  <2>2. CASE h = e.backend
    <3>1. counts'[h] = e.count + 1
      BY <1>2, <2>1, <2>2 DEF Choose, TypeOK
    <3>2. Pushed(e.count + 1, e.backend) \in heap'
      BY <1>2 DEF Choose
    <3> QED
      BY <2>2, <3>1, <3>2 DEF HasEntry, Pushed
  <2>3. CASE h # e.backend
    <3>1. h \in healthy /\ counts'[h] = counts[h]
      BY <1>2, <2>1, <2>3 DEF Choose, TypeOK
    <3>2. PICK f \in heap : f.backend = h /\ f.count = counts[h]
      BY <1>1, <3>1 DEF HasEntry
    <3>3. Current(f)
      BY <3>1, <3>2 DEF Current
    <3>4. f \in heap'
      \* An entry popped before e was current only if its backend is excluded.
      <4>1. CASE h \in exclude
        BY <1>2, <3>2, <3>3, <4>1 DEF Choose, Deferred
      <4>2. CASE h \notin exclude
        <5>1. f \in Selectable(exclude)
          BY <3>2, <3>3, <4>2 DEF Selectable
        <5>2. f # e /\ Before(e, f)
          BY <1>2, <2>3, <3>2, <5>1 DEF Choose
        <5>3. ~Before(f, e)
          BY <5>2 DEF Before, TypeOK, Entry
        <5> QED
          BY <1>2, <5>2, <5>3 DEF Choose
      <4> QED
        BY <4>1, <4>2
    <3> QED
      BY <3>1, <3>2, <3>4 DEF HasEntry
  <2> QED
    BY <2>2, <2>3
<1>3. ASSUME NEW exclude \in SUBSET Backends, ChooseNone(exclude)
      PROVE  HasEntry(h)'
  <2>1. h \in healthy /\ UNCHANGED counts
    BY <1>3 DEF ChooseNone
  <2>2. PICK f \in heap : f.backend = h /\ f.count = counts[h]
    BY <1>1, <2>1 DEF HasEntry
  <2>3. f \in heap'
    BY <1>3, <2>1, <2>2 DEF ChooseNone, Selectable, Deferred, Current
  <2> QED
    BY <2>1, <2>2, <2>3 DEF HasEntry
<1>4. ASSUME NEW b \in Backends, OnDisconnect(b)
      PROVE  HasEntry(h)'
  <2> DEFINE n == IF counts[b] = 0 THEN 0 ELSE counts[b] - 1
  <2>1. /\ counts' = [counts EXCEPT ![b] = n]
        /\ heap' = heap \cup {Pushed(n, b)}
        /\ h \in healthy
    BY <1>4 DEF OnDisconnect
  <2>2. CASE h = b
    <3>1. counts'[h] = n
      BY <2>1, <2>2 DEF TypeOK
    <3>2. Pushed(n, b).backend = b /\ Pushed(n, b).count = n
      BY DEF Pushed
    <3> QED
      BY <2>1, <2>2, <3>1, <3>2 DEF HasEntry
  <2>3. CASE h # b
    BY <1>1, <2>1, <2>3 DEF HasEntry, TypeOK
  <2> QED
    BY <2>2, <2>3
<1>5. ASSUME NEW b \in Backends, MarkUnhealthy(b)
      PROVE  HasEntry(h)'
  BY <1>1, <1>5 DEF MarkUnhealthy, HasEntry
<1>6. ASSUME NEW b \in Backends, MarkHealthy(b)
      PROVE  HasEntry(h)'
  <2>1. CASE h = b
    <3>1. Pushed(counts[b], b).backend = b /\ Pushed(counts[b], b).count = counts[b]
      BY DEF Pushed
    <3> QED
      BY <1>6, <2>1, <3>1 DEF MarkHealthy, HasEntry
  <2>2. CASE h # b
    BY <1>1, <1>6, <2>2 DEF MarkHealthy, HasEntry
  <2> QED
    BY <2>1, <2>2
<1>7. ASSUME UNCHANGED <<heap, counts, tiebreak, healthy>>
      PROVE  HasEntry(h)'
  BY <1>1, <1>7 DEF HasEntry
<1> QED
  BY NextIsOperation, <1>2, <1>3, <1>4, <1>5, <1>6, <1>7 DEF Operation

(* Lazy deletion never loses a healthy backend, whatever the order of      *)
(* picks, releases and health changes.                                     *)
THEOREM Selectability == Spec => []HealthyAreSelectable
<1>1. Init => TypeOK /\ HealthyAreSelectable
  BY InitIsTyped, InitIsSelectable
<1>2. TypeOK /\ HealthyAreSelectable /\ [Next]_vars
        => (TypeOK /\ HealthyAreSelectable)'
  BY NextKeepsTypes, NextKeepsSelectable
<1> QED
  BY <1>1, <1>2, PTL DEF Spec

-----------------------------------------------------------------------------

LEMMA InitImplements == Init => LL!Init
BY DEF Init, LL!Init, LL!NoCall

(* The entry that the loop stops at belongs to a least loaded candidate:   *)
(* any other candidate has a current entry, which would have been popped   *)
(* first if its count were lower.                                          *)
LEMMA ChosenIsLightest ==
  ASSUME TypeOK, HealthyAreSelectable,
         NEW exclude \in SUBSET Backends, NEW e \in heap, Choose(exclude, e)
  PROVE  e.backend \in LL!LightestOf(healthy \ exclude)
<1>1. /\ e.backend \in healthy \ exclude
      /\ e.count = counts[e.backend]
      /\ e.count \in Nat
  BY DEF Choose, Selectable, Current, TypeOK, Entry
<1>2. ASSUME NEW d \in healthy \ exclude
      PROVE  counts[e.backend] <= counts[d]
  <2>1. PICK f \in heap : f.backend = d /\ f.count = counts[d]
    BY DEF HealthyAreSelectable
  <2>2. f \in Selectable(exclude)
    BY <2>1 DEF Selectable, Current
  <2>3. f = e \/ Before(e, f)
    BY <2>2 DEF Choose
  <2>4. f.count \in Nat
    BY DEF TypeOK, Entry
  <2> QED
    BY <1>1, <2>1, <2>3, <2>4 DEF Before
<1> QED
  BY <1>1, <1>2 DEF LL!LightestOf

LEMMA CallImplements ==
  ASSUME TypeOK, HealthyAreSelectable,
         NEW exclude \in SUBSET Backends, NEW ret \in Backends \cup {NoBackend},
         Call(exclude, ret)
  PROVE  LL!Call(exclude, ret)
<1>1. ASSUME NEW e \in heap, ret = e.backend, Choose(exclude, e)
      PROVE  LL!NextBackend(exclude, ret)
  <2>1. ret \in LL!LightestOf(healthy \ exclude)
    BY <1>1, ChosenIsLightest
  <2>2. counts' = [counts EXCEPT ![ret] = @ + 1] /\ UNCHANGED healthy
    BY <1>1 DEF Choose, Selectable, Current
  <2> QED
    BY <2>1, <2>2 DEF LL!NextBackend
<1>2. ASSUME ret = NoBackend, ChooseNone(exclude)
      PROVE  LL!NextBackend(exclude, ret)
  <2>1. healthy \subseteq exclude
    BY <1>2 DEF ChooseNone, Selectable, Current, HealthyAreSelectable
  <2> QED
    BY <1>2, <2>1 DEF ChooseNone, LL!NextBackend
<1> QED
  BY <1>1, <1>2 DEF Call, NextBackend, LL!Call

LEMMA NextImplements ==
  TypeOK /\ HealthyAreSelectable /\ [Next]_vars => [LL!Next]_(LL!vars)
<1> SUFFICES ASSUME TypeOK, HealthyAreSelectable, [Next]_vars
             PROVE  LL!Next \/ UNCHANGED LL!vars
  OBVIOUS
<1>1. ASSUME NEW exclude \in SUBSET Backends,
             NEW ret \in Backends \cup {NoBackend}, Call(exclude, ret)
      PROVE  LL!Next
  BY <1>1, CallImplements DEF LL!Next
<1>2. ASSUME NEW b \in Backends, Release(b)
      PROVE  LL!Next
  <2>1. LL!OnDisconnect(b) /\ UNCHANGED last
    BY <1>2 DEF Release, OnDisconnect, LL!OnDisconnect
  <2> QED
    BY <2>1 DEF LL!Next, LL!Notify
<1>3. ASSUME NEW b \in Backends, HealthChange(b)
      PROVE  LL!Next
  <2>1. (LL!MarkUnhealthy(b) \/ LL!MarkHealthy(b)) /\ UNCHANGED last
    BY <1>3 DEF HealthChange, MarkUnhealthy, MarkHealthy,
                LL!MarkUnhealthy, LL!MarkHealthy
  <2> QED
    BY <2>1 DEF LL!Next, LL!Notify
<1>4. ASSUME UNCHANGED vars
      PROVE  UNCHANGED LL!vars
  BY <1>4 DEF vars, LL!vars
<1> QED
  BY <1>1, <1>2, <1>3, <1>4 DEF Next

(* The heap with lazy deletion implements a search for the least loaded    *)
(* backend: every next_backend returns a healthy backend, not excluded,    *)
(* that no other such backend undercuts, and None only if there is none.   *)
THEOREM Implementation == Spec => ImplementsLeastLoaded
<1>1. Init => TypeOK /\ HealthyAreSelectable
  BY InitIsTyped, InitIsSelectable
<1>2. TypeOK /\ HealthyAreSelectable /\ [Next]_vars
        => (TypeOK /\ HealthyAreSelectable)'
  BY NextKeepsTypes, NextKeepsSelectable
<1> QED
  BY <1>1, <1>2, InitImplements, NextImplements, PTL
     DEF Spec, ImplementsLeastLoaded, LL!Spec

-----------------------------------------------------------------------------
(* LeastLoaded is a BackendPool, as the counts only narrow down the        *)
(* choice; hence so is the router with its heap.                           *)

Pool == INSTANCE BackendPool

ImplementsPool == Pool!Spec

LEMMA LightestAreCandidates ==
  ASSUME NEW candidates
  PROVE  LL!LightestOf(candidates) \subseteq candidates
BY DEF LL!LightestOf

LEMMA StepMaps == [LL!Next]_(LL!vars) => [Pool!Next]_(Pool!vars)
<1> SUFFICES ASSUME [LL!Next]_(LL!vars) PROVE [Pool!Next]_(Pool!vars)
  OBVIOUS
<1>1. ASSUME NEW exclude \in SUBSET Backends,
             NEW ret \in Backends \cup {NoBackend}, LL!Call(exclude, ret)
      PROVE  Pool!Call(exclude, ret)
  BY <1>1, LightestAreCandidates
     DEF LL!Call, LL!NextBackend, Pool!Call, Pool!NextBackend
<1>2. ASSUME NEW b \in Backends, LL!Notify(b)
      PROVE  Pool!Notify(b)
  BY <1>2 DEF LL!Notify, LL!OnDisconnect, LL!MarkUnhealthy, LL!MarkHealthy,
              Pool!Notify, Pool!OnDisconnect, Pool!MarkUnhealthy, Pool!MarkHealthy
<1>3. CASE UNCHANGED LL!vars
  BY <1>3 DEF LL!vars, Pool!vars
<1> QED
  BY <1>1, <1>2, <1>3 DEF LL!Next, Pool!Next

(* The least loaded of the candidates is one of them, and None is returned *)
(* only if there is none: what ProxyConnection needs of either router      *)
(* (router.py, next_backend).                                              *)
THEOREM LeastLoadedIsPool == LL!Spec => ImplementsPool
<1>1. LL!Init => Pool!Init
  BY DEF LL!Init, LL!NoCall, Pool!Init, Pool!NoCall
<1> QED
  BY <1>1, StepMaps, PTL DEF LL!Spec, ImplementsPool, Pool!Spec

(* So a caller may put the router with its heap for any backend pool, as   *)
(* connection.py does when the configuration names it: what next_backend   *)
(* returns is healthy and not excluded, and None only if nothing is.       *)
THEOREM HeapIsPool == Spec => ImplementsPool
BY Implementation, LeastLoadedIsPool, PTL DEF ImplementsLeastLoaded

-----------------------------------------------------------------------------
(* The rotation.  Until a backend comes back, an idle one has one entry    *)
(* with count 0 and a busy one none, whatever stale entries with other     *)
(* counts there are (OneZeroEntry).  Turns then go by the age of these     *)
(* entries: whoever b owes a turn is idle and has an older one than b      *)
(* (OwedAreOlder).                                                         *)

OneZeroEntry ==
  /\ \A e \in heap : e.count = 0 => counts[e.backend] = 0
  /\ \A e, f \in heap :
       e.backend = f.backend /\ e.count = 0 /\ f.count = 0 => e = f

OlderAtZero(x, b) ==
  \A e, f \in heap :
    e.backend = x /\ f.backend = b /\ e.count = 0 /\ f.count = 0 => e.tb < f.tb

OwedAreOlder ==
  \A b \in Backends : \A x \in owed[b] :
    x # b /\ x \in healthy /\ counts[x] = 0 /\ OlderAtZero(x, b)

RotationInv ==
  /\ TypeOK /\ TiebreaksUnique /\ HealthyAreSelectable
  /\ owed \in [Backends -> SUBSET Backends]
  /\ flapped \in BOOLEAN
  /\ ~flapped => OneZeroEntry /\ OwedAreOlder

(* What Choose does, for a reader of the heap who looks at zeros.          *)
LEMMA ChooseIs ==
  ASSUME TypeOK, NEW exclude \in SUBSET Backends, NEW e \in heap, Choose(exclude, e)
  PROVE  /\ e \in Entry /\ e.backend \in healthy /\ e.count = counts[e.backend]
         /\ counts' = [counts EXCEPT ![e.backend] = e.count + 1]
         /\ \A f \in heap' : f.count = 0 => f \in heap /\ f # e
         /\ UNCHANGED healthy
<1>1. e \in Entry /\ e.count + 1 # 0
  BY DEF TypeOK, Entry
<1>2. e.backend \in healthy /\ e.count = counts[e.backend] /\ e.backend \notin exclude
  BY DEF Choose, Selectable, Current
<1>3. Pushed(e.count + 1, e.backend).count # 0
  BY <1>1 DEF Pushed
<1>4. ASSUME NEW f \in heap', f.count = 0
      PROVE  f \in heap /\ f # e
  <2>1. f # Pushed(e.count + 1, e.backend)
    BY <1>3, <1>4
  <2> QED
    BY <1>2, <1>4, <2>1 DEF Choose, Deferred
<1> QED
  BY <1>1, <1>2, <1>4 DEF Choose

LEMMA ChooseKeepsZero ==
  ASSUME TypeOK, OneZeroEntry, NEW exclude \in SUBSET Backends, NEW e \in heap,
         Choose(exclude, e)
  PROVE  OneZeroEntry'
<1>1. /\ e \in Entry /\ e.count = counts[e.backend]
      /\ counts' = [counts EXCEPT ![e.backend] = e.count + 1]
      /\ \A f \in heap' : f.count = 0 => f \in heap /\ f # e
  BY ChooseIs
<1>2. ASSUME NEW f \in heap', f.count = 0
      PROVE  counts'[f.backend] = 0
  <2>1. f \in heap /\ f # e /\ f.backend \in Backends
    BY <1>1, <1>2 DEF TypeOK, Entry
  <2>2. counts[f.backend] = 0
    BY <1>2, <2>1 DEF OneZeroEntry
  <2>3. f.backend # e.backend
    BY <1>1, <1>2, <2>1, <2>2 DEF OneZeroEntry
  <2> QED
    BY <1>1, <2>1, <2>2, <2>3 DEF TypeOK
<1>3. ASSUME NEW f \in heap', NEW g \in heap', f.backend = g.backend,
             f.count = 0, g.count = 0
      PROVE  f = g
  BY <1>1, <1>3 DEF OneZeroEntry
<1> QED
  BY <1>2, <1>3 DEF OneZeroEntry

(* A turn: b's entry with count 0 is gone, so that everyone healthy who is *)
(* owed a turn by it from now on has an older one.                         *)
LEMMA TurnKeepsOlder ==
  ASSUME RotationInv, ~flapped, AllIdle, NEW e \in heap, Choose({}, e),
         History!Turn(e.backend, healthy)
  PROVE  OwedAreOlder'
<1>1. /\ TypeOK /\ OneZeroEntry /\ OwedAreOlder
      /\ owed \in [Backends -> SUBSET Backends]
  BY DEF RotationInv
<1>2. /\ e \in Entry /\ e.backend \in healthy /\ e.count = counts[e.backend]
      /\ counts' = [counts EXCEPT ![e.backend] = e.count + 1]
      /\ \A f \in heap' : f.count = 0 => f \in heap /\ f # e
      /\ healthy' = healthy
  BY <1>1, ChooseIs
<1> DEFINE c == e.backend
<1>3. c \in Backends /\ e.count = 0 /\ healthy \subseteq Backends
  BY <1>1, <1>2 DEF Entry, AllIdle, TypeOK
<1>4. owed' = [y \in Backends |-> IF y = c THEN healthy \ {c} ELSE owed[y] \ {c}]
  BY DEF History!Turn
<1>5. \A x \in Backends \ {c} : counts'[x] = 0
  BY <1>1, <1>2 DEF AllIdle, TypeOK
<1>6. \A f \in heap' : f.count = 0 => f.backend # c
  BY <1>1, <1>2, <1>3 DEF OneZeroEntry
<1> SUFFICES ASSUME NEW b \in Backends, NEW x \in owed'[b]
             PROVE  x # b /\ x \in healthy' /\ counts'[x] = 0 /\ OlderAtZero(x, b)'
  BY DEF OwedAreOlder
<1>7. CASE b = c
  <2>1. x \in healthy /\ x # c
    BY <1>4, <1>7
  <2>2. OlderAtZero(x, b)'
    BY <1>6, <1>7 DEF OlderAtZero
  <2> QED
    BY <1>2, <1>3, <1>5, <1>7, <2>1, <2>2
<1>8. CASE b # c
  <2>1. x \in owed[b] /\ x # c
    BY <1>4, <1>8
  <2>2. x # b /\ x \in healthy /\ OlderAtZero(x, b)
    BY <1>1, <2>1 DEF OwedAreOlder
  <2>3. OlderAtZero(x, b)'
    BY <1>2, <2>2 DEF OlderAtZero
  <2> QED
    BY <1>2, <1>3, <1>5, <2>1, <2>2, <2>3
<1> QED
  BY <1>7, <1>8

LEMMA ReleaseKeepsRotation ==
  ASSUME RotationInv, ~flapped, NEW b \in Backends, Release(b), UNCHANGED owed
  PROVE  OneZeroEntry' /\ OwedAreOlder'
<1> DEFINE n == counts[b] - 1
           p == Pushed(n, b)
<1>1. /\ TypeOK /\ TiebreaksUnique /\ OneZeroEntry /\ OwedAreOlder
      /\ owed \in [Backends -> SUBSET Backends]
  BY DEF RotationInv
<1>2. counts[b] \in Nat \ {0} /\ n \in Nat
  BY <1>1 DEF Release, TypeOK
<1>3. /\ counts' = [counts EXCEPT ![b] = n] /\ heap' = heap \cup {p}
      /\ healthy' = healthy
  BY <1>2 DEF Release, OnDisconnect
<1>4. p.count = n /\ p.backend = b /\ p.tb = tiebreak + 1
  BY DEF Pushed
<1>5. /\ counts'[b] = n
      /\ \A x \in Backends \ {b} : counts'[x] = counts[x]
  BY <1>1, <1>3 DEF TypeOK
<1> HIDE DEF n, p
<1>6. \A e \in heap : /\ e.backend \in Backends /\ e.tb \in Nat /\ e.tb <= tiebreak
                      /\ tiebreak \in Nat /\ (e.count = 0 => e.backend # b)
  BY <1>1, <1>2 DEF TypeOK, Entry, TiebreaksUnique, OneZeroEntry
<1>7. OneZeroEntry'
  BY <1>1, <1>3, <1>4, <1>5, <1>6 DEF OneZeroEntry
<1>8. ASSUME NEW y \in Backends, NEW x \in owed[y]
      PROVE  x # y /\ x \in healthy' /\ counts'[x] = 0 /\ OlderAtZero(x, y)'
  <2>1. x # y /\ x \in healthy /\ counts[x] = 0 /\ OlderAtZero(x, y) /\ x \in Backends
    BY <1>1 DEF OwedAreOlder
  <2>2. x # b
    BY <1>2, <2>1
  <2>3. ASSUME NEW e \in heap', NEW f \in heap', e.backend = x, f.backend = y,
               e.count = 0, f.count = 0
        PROVE  e.tb < f.tb
    <3>1. e \in heap
      BY <1>3, <1>4, <2>2, <2>3
    <3>2. CASE f \in heap
      BY <2>1, <2>3, <3>1, <3>2 DEF OlderAtZero
    <3>3. CASE f = p
      BY <1>4, <1>6, <3>1, <3>3
    <3> QED
      BY <1>3, <3>2, <3>3
  <2> QED
    BY <1>3, <1>5, <2>1, <2>2, <2>3 DEF OlderAtZero
<1>9. OwedAreOlder'
  BY <1>8 DEF OwedAreOlder
<1> QED
  BY <1>7, <1>9

LEMMA ResetKeepsOlder ==
  ASSUME History!Reset
  PROVE  owed' \in [Backends -> SUBSET Backends] /\ OwedAreOlder'
BY DEF History!Reset, History!Nothing, OwedAreOlder

LEMMA NextKeepsRotation == RotationInv /\ [TNext]_tvars => RotationInv'
<1> SUFFICES ASSUME RotationInv, [TNext]_tvars
             PROVE  RotationInv'
  OBVIOUS
<1> DEFINE Fairly == ~flapped => OneZeroEntry /\ OwedAreOlder
           Owed == owed \in [Backends -> SUBSET Backends]
<1>1. TypeOK' /\ TiebreaksUnique' /\ HealthyAreSelectable'
  <2>1. [Next]_vars
    BY DEF TNext, TCall, TRelease, TLeave, TReturn, Next, HealthChange, vars, tvars
  <2> QED
    BY <2>1, NextKeepsTypes, NextKeepsUnique, NextKeepsSelectable DEF RotationInv
<1>2. flapped' \in BOOLEAN
  BY DEF RotationInv, TNext, TCall, TRelease, TLeave, TReturn, tvars
<1>3. ASSUME NEW exclude \in SUBSET Backends, NEW ret \in Backends \cup {NoBackend},
             TCall(exclude, ret)
      PROVE  Owed' /\ Fairly'
  <2>1. flapped' = flapped /\ healthy \subseteq Backends
    BY <1>3 DEF TCall, RotationInv, TypeOK
  <2>2. ASSUME NEW e \in heap, ret = e.backend, Choose(exclude, e)
        PROVE  Owed' /\ Fairly'
    <3>1. e.backend \in Backends
      BY DEF RotationInv, TypeOK, Entry
    <3>2. ~flapped => OneZeroEntry'
      BY <2>2, ChooseKeepsZero DEF RotationInv
    <3>3. CASE History!Reset
      BY <2>1, <3>2, <3>3, ResetKeepsOlder
    <3>4. CASE AllIdle /\ exclude = {} /\ History!Turn(e.backend, healthy)
      <4>1. Owed'
        BY <2>1, <3>4 DEF History!Turn, RotationInv
      <4>2. ~flapped => OwedAreOlder'
        BY <2>2, <3>4, TurnKeepsOlder
      <4> QED
        BY <2>1, <3>2, <4>1, <4>2
    <3> QED
      BY <1>3, <2>2, <3>3, <3>4 DEF TCall
  <2>3. CASE ret = NoBackend /\ ChooseNone(exclude)
    <3>1. heap' \subseteq heap /\ counts' = counts
      BY <2>3 DEF ChooseNone, Deferred
    <3>2. ~flapped => OneZeroEntry'
      BY <3>1 DEF RotationInv, OneZeroEntry
    <3>3. History!Reset
      BY <1>3, <2>3 DEF TCall
    <3> QED
      BY <2>1, <3>2, <3>3, ResetKeepsOlder
  <2> QED
    BY <1>3, <2>2, <2>3 DEF TCall, Call, NextBackend
<1>4. ASSUME NEW b \in Backends, TRelease(b)
      PROVE  Owed' /\ Fairly'
  BY <1>4, ReleaseKeepsRotation DEF TRelease, RotationInv
<1>5. ASSUME NEW b \in Backends, TLeave(b)
      PROVE  Owed' /\ Fairly'
  <2>1. /\ UNCHANGED <<heap, counts, flapped>> /\ healthy' = healthy \ {b}
        /\ owed' = [y \in Backends |-> owed[y] \ {b}]
    BY <1>5 DEF TLeave, MarkUnhealthy, History!Leave
  <2>2. ~flapped => OneZeroEntry'
    BY <2>1 DEF RotationInv, OneZeroEntry
  <2>3. ASSUME ~flapped, NEW y \in Backends, NEW x \in owed'[y]
        PROVE  x # y /\ x \in healthy' /\ counts'[x] = 0 /\ OlderAtZero(x, y)'
    <3>1. x \in owed[y] /\ x # b
      BY <2>1
    <3>2. x # y /\ x \in healthy /\ counts[x] = 0 /\ OlderAtZero(x, y)
      BY <2>3, <3>1 DEF RotationInv, OwedAreOlder
    <3> QED
      BY <2>1, <3>1, <3>2 DEF OlderAtZero
  <2>4. Owed'
    BY <2>1 DEF RotationInv
  <2> QED
    BY <2>1, <2>2, <2>3, <2>4 DEF OwedAreOlder
<1>6. ASSUME NEW b \in Backends, TReturn(b)
      PROVE  Owed' /\ Fairly'
  BY <1>6 DEF TReturn, RotationInv
<1>7. ASSUME UNCHANGED tvars
      PROVE  Owed' /\ Fairly'
  BY <1>7 DEF tvars, RotationInv, OneZeroEntry, OwedAreOlder, OlderAtZero
<1>8. Owed' /\ Fairly'
  BY <1>3, <1>4, <1>5, <1>6, <1>7 DEF TNext
<1> QED
  BY <1>1, <1>2, <1>8 DEF RotationInv

(* Whoever waits has an older entry, which would have been chosen.         *)
LEMMA TurnIsFair ==
  ASSUME RotationInv, ~flapped, AllIdle, NEW b \in Backends, Call({}, b)
  PROVE  History!Fair(b)
<1>1. PICK e \in heap : b = e.backend /\ Choose({}, e)
  BY ConfigAssumption DEF Call, NextBackend
<1>2. SUFFICES ASSUME NEW x \in owed[b]
               PROVE  FALSE
  BY DEF History!Fair
<1>3. x \in Backends /\ x # b /\ x \in healthy /\ counts[x] = 0 /\ OlderAtZero(x, b)
  BY DEF RotationInv, OwedAreOlder
<1>4. PICK f \in heap : f.backend = x /\ f.count = counts[x]
  BY <1>3 DEF RotationInv, HealthyAreSelectable
<1>5. e.count = 0
  BY <1>1 DEF Choose, Selectable, Current, AllIdle
<1>6. f.tb < e.tb
  BY <1>1, <1>3, <1>4, <1>5 DEF OlderAtZero
<1>7. f \in Selectable({}) /\ f # e
  BY <1>1, <1>3, <1>4 DEF Selectable, Current
<1>8. Before(e, f)
  BY <1>1, <1>7 DEF Choose
<1>9. e.tb \in Nat /\ f.tb \in Nat
  BY DEF RotationInv, TypeOK, Entry
<1> QED
  BY <1>3, <1>4, <1>5, <1>6, <1>8, <1>9 DEF Before

(* If no backend is configured twice, then under sequential load none gets *)
(* a turn while another healthy one has waited since its last, until a     *)
(* backend comes back to the pool (mark_healthy), whatever concurrent load *)
(* and stale entries there were before.                                    *)
THEOREM TurnsAreFair ==
  ASSUME \A i, j \in 1..Len(Configured) : Configured[i] = Configured[j] => i = j
  PROVE  TSpec => RotationBeforeFlaps
<1> DEFINE Step == ~flapped => TakesTurnFairly
<1>1. TInit => RotationInv
  <2> SUFFICES ASSUME TInit
               PROVE  RotationInv
    OBVIOUS
  <2>1. TypeOK /\ TiebreaksUnique /\ HealthyAreSelectable
    BY InitIsTyped, InitIsUnique, InitIsSelectable DEF TInit
  <2>2. owed = [b \in Backends |-> {}] /\ flapped = FALSE
    BY DEF TInit, History!Init, History!Nothing
  <2>3. OwedAreOlder
    BY <2>2 DEF OwedAreOlder
  <2>4. OneZeroEntry
    <3>1. /\ heap = {[count |-> 0, tb |-> i, backend |-> Configured[i]] :
                       i \in 1..Len(Configured)}
          /\ counts = [b \in Backends |-> 0]
      BY DEF TInit, Init
    <3>2. ASSUME NEW e \in heap, NEW f \in heap, e.backend = f.backend
          PROVE  e = f
      <4>1. PICK i \in 1..Len(Configured) :
              e = [count |-> 0, tb |-> i, backend |-> Configured[i]]
        BY <3>1
      <4>2. PICK j \in 1..Len(Configured) :
              f = [count |-> 0, tb |-> j, backend |-> Configured[j]]
        BY <3>1
      <4>3. Configured[i] = Configured[j]
        BY <3>2, <4>1, <4>2
      <4>4. i = j
        BY <4>3
      <4> QED
        BY <4>1, <4>2, <4>4
    <3>3. \A e \in heap : e.backend \in Backends
      BY <2>1 DEF TypeOK, Entry
    <3> QED
      BY <3>1, <3>2, <3>3 DEF OneZeroEntry
  <2> QED
    BY <2>1, <2>2, <2>3, <2>4 DEF RotationInv
<1>2. RotationInv => Step
  BY TurnIsFair DEF TakesTurnFairly, TCall
<1> QED
  BY <1>1, <1>2, NextKeepsRotation, PTL DEF TSpec, RotationBeforeFlaps
=============================================================================
