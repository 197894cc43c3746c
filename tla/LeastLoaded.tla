------------------------------ MODULE LeastLoaded ------------------------------
(***************************************************************************)
(* What LeastConnectionsRouter promises, without its heap: next_backend    *)
(* returns a healthy backend, not excluded, that has the fewest active     *)
(* connections among those, and counts the connection it hands out;        *)
(* on_disconnect takes it back.  LeastConnections implements this module   *)
(* and ProxyConnection is composed with it.                                *)
(***************************************************************************)
EXTENDS Naturals

CONSTANTS Backends, NoBackend

VARIABLES
  healthy,   \* _healthy_set
  counts,    \* _counts: active connections, by backend
  last       \* the latest next_backend call: its argument and its result

vars == <<healthy, counts, last>>

NoCall == [exclude |-> {}, ret |-> NoBackend]

(* The candidates with the fewest active connections. *)
LightestOf(candidates) ==
  {b \in candidates : \A c \in candidates : counts[b] <= counts[c]}

NextBackend(exclude, ret) ==
  /\ \/ /\ ret \in LightestOf(healthy \ exclude)
        /\ counts' = [counts EXCEPT ![ret] = @ + 1]
     \/ /\ ret = NoBackend
        /\ healthy \subseteq exclude
        /\ UNCHANGED counts
  /\ UNCHANGED healthy

OnDisconnect(b) ==
  /\ counts' = [counts EXCEPT ![b] = IF @ = 0 THEN 0 ELSE @ - 1]
  /\ UNCHANGED healthy

MarkUnhealthy(b) ==
  /\ healthy' = healthy \ {b}
  /\ UNCHANGED counts

(* A backend that comes back keeps the connections it still has. *)
MarkHealthy(b) ==
  /\ healthy' = healthy \cup {b}
  /\ UNCHANGED counts

-----------------------------------------------------------------------------

Init ==
  /\ healthy = Backends
  /\ counts = [b \in Backends |-> 0]
  /\ last = NoCall

Call(exclude, ret) ==
  /\ NextBackend(exclude, ret)
  /\ last' = [exclude |-> exclude, ret |-> ret]

Notify(b) ==
  /\ \/ OnDisconnect(b)
     \/ MarkUnhealthy(b)
     \/ MarkHealthy(b)
  /\ UNCHANGED last

Next ==
  \/ \E exclude \in SUBSET Backends, ret \in Backends \cup {NoBackend} :
        Call(exclude, ret)
  \/ \E b \in Backends : Notify(b)

Spec == Init /\ [][Next]_vars
=============================================================================
