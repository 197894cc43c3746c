---------------------------- MODULE LeastConnections ----------------------------
(***************************************************************************)
(* LeastConnectionsRouter of router.py: a min-heap of                      *)
(* (count, tiebreak, backend) entries with lazy deletion beside the        *)
(* canonical counts.  Each operation runs under the router's lock, so it   *)
(* is one action.                                                          *)
(*                                                                         *)
(* heapq is modelled by what it is used for: _heap is the SET of its       *)
(* entries, and popping takes them in their order.  That is exact, because *)
(* no two entries have the same tiebreak.                                  *)
(***************************************************************************)
EXTENDS Naturals, Sequences

CONSTANTS
  Configured,    \* the sequence of backends the router is built from
  NoBackend,     \* Python's None
  MaxTiebreak    \* bound of the model: entries pushed, in all

Backends == {Configured[i] : i \in 1..Len(Configured)}

ASSUME ConfigAssumption ==
  /\ Len(Configured) \in Nat
  /\ NoBackend \notin Backends
  /\ MaxTiebreak \in Nat

VARIABLES
  heap,       \* _heap
  counts,     \* _counts
  tiebreak,   \* _tiebreak
  healthy,    \* _healthy_set
  last        \* the latest next_backend call: its argument and its result

vars == <<heap, counts, tiebreak, healthy, last>>

Entry == [count : Nat, tb : Nat, backend : Backends]

TypeOK ==
  /\ heap \subseteq Entry
  /\ counts \in [Backends -> Nat]
  /\ tiebreak \in Nat
  /\ healthy \subseteq Backends
  /\ last \in [exclude : SUBSET Backends, ret : Backends \cup {NoBackend}]

-----------------------------------------------------------------------------

Init ==
  /\ heap = {[count |-> 0, tb |-> i, backend |-> Configured[i]] :
                i \in 1..Len(Configured)}
  /\ counts = [b \in Backends |-> 0]
  /\ tiebreak = Len(Configured)
  /\ healthy = Backends
  /\ last = [exclude |-> {}, ret |-> NoBackend]

(* Mutant: the counter moves after the push, not before it. *)
PushedBeforeCounting(n, b) == [count |-> n, tb |-> tiebreak, backend |-> b]

(* The entry that the next push adds. *)
Pushed(n, b) == [count |-> n, tb |-> tiebreak + 1, backend |-> b]

TakeTiebreak ==
  /\ tiebreak < MaxTiebreak
  /\ tiebreak' = tiebreak + 1

(* Mutant: among equals the youngest comes first. *)
BeforeYoungest(e, f) ==
  \/ e.count < f.count
  \/ e.count = f.count /\ e.tb > f.tb

(* The order in which heapq pops two entries. *)
Before(e, f) ==
  \/ e.count < f.count
  \/ e.count = f.count /\ e.tb < f.tb

(* Mutant: stale counts are not looked at. *)
CurrentIfHealthy(e) == e.backend \in healthy

(* An entry that next_backend does not throw away. *)
Current(e) == e.backend \in healthy /\ e.count = counts[e.backend]

Selectable(exclude) == {e \in heap : Current(e) /\ e.backend \notin exclude}

(* Mutant: the excluded backends' entries are not pushed back. *)
DeferredLost(popped, exclude) == {}

(* Of the entries popped, those that are pushed back. *)
Deferred(popped, exclude) == {e \in popped : Current(e) /\ e.backend \in exclude}

(* The loop of next_backend ends at e, the first entry it can select. *)
Choose(exclude, e) ==
  LET popped == {f \in heap : f = e \/ Before(f, e)}
  IN /\ e \in Selectable(exclude)
     /\ \A f \in Selectable(exclude) : f = e \/ Before(e, f)
     /\ TakeTiebreak
     /\ heap' = (heap \ popped) \cup Deferred(popped, exclude)
                    \cup {Pushed(e.count + 1, e.backend)}
     /\ counts' = [counts EXCEPT ![e.backend] = e.count + 1]
     /\ UNCHANGED healthy

(* The loop of next_backend empties the heap. *)
ChooseNone(exclude) ==
  /\ Selectable(exclude) = {}
  /\ heap' = Deferred(heap, exclude)
  /\ UNCHANGED <<counts, tiebreak, healthy>>

NextBackend(exclude, ret) ==
  \/ \E e \in heap : ret = e.backend /\ Choose(exclude, e)
  \/ ret = NoBackend /\ ChooseNone(exclude)

OnDisconnect(b) ==
  LET n == IF counts[b] = 0 THEN 0 ELSE counts[b] - 1
  IN /\ TakeTiebreak
     /\ counts' = [counts EXCEPT ![b] = n]
     /\ heap' = heap \cup {Pushed(n, b)}
     /\ UNCHANGED healthy

(* Mutant: the backend's count goes with it. *)
MarkUnhealthyForgetting(b) ==
  /\ healthy' = healthy \ {b}
  /\ counts' = [x \in DOMAIN counts \ {b} |-> counts[x]]
  /\ UNCHANGED <<heap, tiebreak>>

(* Entries of b stay in the heap until next_backend meets them. *)
MarkUnhealthy(b) ==
  /\ healthy' = healthy \ {b}
  /\ UNCHANGED <<heap, counts, tiebreak>>

MarkHealthy(b) ==
  /\ b \notin healthy
  /\ TakeTiebreak
  /\ healthy' = healthy \cup {b}
  /\ heap' = heap \cup {Pushed(counts[b], b)}
  /\ UNCHANGED counts

-----------------------------------------------------------------------------

Call(exclude, ret) ==
  /\ NextBackend(exclude, ret)
  /\ last' = [exclude |-> exclude, ret |-> ret]

(* A connection gives back only what next_backend counted for it. *)
Release(b) ==
  /\ counts[b] > 0
  /\ OnDisconnect(b)
  /\ UNCHANGED last

(* The health checker's thread. *)
HealthChange(b) ==
  /\ MarkUnhealthy(b) \/ MarkHealthy(b)
  /\ UNCHANGED last

Next ==
  \/ \E exclude \in SUBSET Backends, ret \in Backends \cup {NoBackend} :
        Call(exclude, ret)
  \/ \E b \in Backends : Release(b)
  \/ \E b \in Backends : HealthChange(b)

Spec == Init /\ [][Next]_vars

-----------------------------------------------------------------------------

(* Tiebreaks come from one counter, so a pop never has to compare two      *)
(* backends and the heap is the set it is modelled by.                     *)
TiebreaksUnique ==
  /\ \A e \in heap : e.tb <= tiebreak
  /\ \A e, f \in heap : e.tb = f.tb => e = f

(* Lazy deletion never loses a backend: whatever was popped, deferred or   *)
(* left stale, a healthy backend has an entry with its canonical count,    *)
(* so next_backend can find it (router.py, _heap and _counts).             *)
HealthyAreSelectable ==
  \A b \in healthy : \E e \in heap : e.backend = b /\ e.count = counts[b]

(* The heap with its stale entries behaves as a search for the least       *)
(* loaded of the healthy backends not excluded (next_backend).             *)
LL == INSTANCE LeastLoaded

ImplementsLeastLoaded == LL!Spec
=============================================================================
