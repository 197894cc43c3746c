------------------------------- MODULE RoundRobin -------------------------------
(***************************************************************************)
(* RoundRobinRouter of router.py: a list of the healthy backends and an    *)
(* index that only grows, taken modulo the list's current length.  Each    *)
(* operation runs under the router's lock, so it is one action.            *)
(***************************************************************************)
EXTENDS Naturals, SequencesExt

CONSTANTS
  Configured,   \* the sequence of backends the router is built from
  NoBackend,    \* Python's None
  MaxIndex      \* bound of the model: positions scanned, in all

Backends == {Configured[i] : i \in 1..Len(Configured)}

ASSUME ConfigAssumption ==
  /\ Configured \in Seq(Backends)
  /\ NoBackend \notin Backends
  /\ MaxIndex \in Nat

VARIABLES
  pool,    \* _healthy
  index,   \* _index
  last     \* the latest next_backend call: its argument and its result

vars == <<pool, index, last>>

TypeOK ==
  /\ pool \in Seq(Backends)
  /\ index \in Nat
  /\ last \in [exclude : SUBSET Backends, ret : Backends \cup {NoBackend}]

Healthy == {pool[i] : i \in 1..Len(pool)}

-----------------------------------------------------------------------------

Init ==
  /\ pool = Configured
  /\ index = 0
  /\ last = [exclude |-> {}, ret |-> NoBackend]

(* Mutant: the index does not move past an excluded backend. *)
ScannedInPlace(k) == pool[(index % Len(pool)) + 1]

(* The backend that the scan of next_backend meets at its k-th step. *)
Scanned(k) == pool[((index + k) % Len(pool)) + 1]

(* Mutant: the index moves once too often. *)
AdvanceTooFar(n) ==
  /\ index + n <= MaxIndex
  /\ index' = index + n + 1

Advance(n) ==
  /\ index + n <= MaxIndex
  /\ index' = index + n

(* The scan stops at the first backend that is not excluded; the index has *)
(* moved past it, and past the excluded ones before it.                    *)
NextBackend(exclude, ret) ==
  /\ \/ \E k \in 0..(Len(pool) - 1) :
          /\ ret = Scanned(k)
          /\ ret \notin exclude
          /\ \A j \in 0..(k - 1) : Scanned(j) \in exclude
          /\ Advance(k + 1)
     \/ /\ ret = NoBackend
        /\ \A k \in 0..(Len(pool) - 1) : Scanned(k) \in exclude
        /\ Advance(Len(pool))
  /\ UNCHANGED pool

(* Mutant: the index is moved back to make up for the removal. *)
MarkUnhealthyShifting(b) ==
  /\ \/ \E i \in 1..Len(pool) :
          /\ pool[i] = b
          /\ pool' = RemoveAt(pool, i)
          /\ index' = index - 1
     \/ b \notin Healthy /\ UNCHANGED <<pool, index>>

(* list.remove takes out the first occurrence; the index stays. *)
MarkUnhealthy(b) ==
  /\ \/ \E i \in 1..Len(pool) :
          /\ pool[i] = b
          /\ \A j \in 1..(i - 1) : pool[j] # b
          /\ pool' = RemoveAt(pool, i)
     \/ b \notin Healthy /\ UNCHANGED pool
  /\ UNCHANGED index

MarkHealthy(b) ==
  /\ b \notin Healthy
  /\ pool' = Append(pool, b)
  /\ UNCHANGED index

-----------------------------------------------------------------------------

Call(exclude, ret) ==
  /\ NextBackend(exclude, ret)
  /\ last' = [exclude |-> exclude, ret |-> ret]

(* The health checker's thread. *)
HealthChange(b) ==
  /\ MarkUnhealthy(b) \/ MarkHealthy(b)
  /\ UNCHANGED last

Next ==
  \/ \E exclude \in SUBSET Backends, ret \in Backends \cup {NoBackend} :
        Call(exclude, ret)
  \/ \E b \in Backends : HealthChange(b)

Spec == Init /\ [][Next]_vars

-----------------------------------------------------------------------------

(* The scan modulo the current length meets every member of the list,      *)
(* wherever the index stands and however the list has changed since:       *)
(* next_backend returns a healthy backend that is not excluded, and None   *)
(* only when there is none.                                                *)
Pool == INSTANCE BackendPool WITH healthy <- Healthy

ImplementsPool == Pool!Spec
=============================================================================
