------------------------------ MODULE BackendPool ------------------------------
(***************************************************************************)
(* What either router of router.py promises to the connections that call   *)
(* it: next_backend returns a backend that is healthy and not excluded,    *)
(* and returns None only when there is none.  Nothing is said about which  *)
(* one; LeastLoaded and RoundRobin refine this module.                     *)
(*                                                                         *)
(* An operation is an action on the router's own state.  Next also         *)
(* records the last call of next_backend and its result in last, which is  *)
(* how a caller observes the choice.                                       *)
(***************************************************************************)
CONSTANTS Backends, NoBackend

VARIABLES
  healthy,   \* the pool that the health checker maintains
  last       \* the latest next_backend call: its argument and its result

vars == <<healthy, last>>

NoCall == [exclude |-> {}, ret |-> NoBackend]

NextBackend(exclude, ret) ==
  /\ \/ ret \in healthy \ exclude
     \/ ret = NoBackend /\ healthy \subseteq exclude
  /\ UNCHANGED healthy

OnDisconnect(b) == UNCHANGED healthy

MarkUnhealthy(b) == healthy' = healthy \ {b}

MarkHealthy(b) == healthy' = healthy \cup {b}

-----------------------------------------------------------------------------

Init ==
  /\ healthy = Backends
  /\ last = NoCall

Call(exclude, ret) ==
  /\ NextBackend(exclude, ret)
  /\ last' = [exclude |-> exclude, ret |-> ret]

Notify(b) ==
  /\ \/ OnDisconnect(b)
     \/ MarkUnhealthy(b)
     \/ MarkHealthy(b)
  /\ UNCHANGED last

Next ==
  \/ \E exclude \in SUBSET Backends, ret \in Backends \cup {NoBackend} :
        Call(exclude, ret)
  \/ \E b \in Backends : Notify(b)

Spec == Init /\ [][Next]_vars
=============================================================================
