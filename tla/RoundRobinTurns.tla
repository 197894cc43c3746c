---------------------------- MODULE RoundRobinTurns ----------------------------
(***************************************************************************)
(* RoundRobin with the history of its turns, which starts afresh when the  *)
(* pool changes or a retry excludes backends.                              *)
(***************************************************************************)
EXTENDS RoundRobin

VARIABLE owed   \* see Turns

History == INSTANCE Turns

tvars == <<pool, index, last, owed>>

TInit == Init /\ History!Init

TCall(exclude, ret) ==
  /\ Call(exclude, ret)
  /\ IF exclude = {} /\ ret # NoBackend
     THEN History!Turn(ret, Healthy)
     ELSE History!Reset

THealthChange(b) == HealthChange(b) /\ History!Reset

TNext ==
  \/ \E exclude \in SUBSET Backends, ret \in Backends \cup {NoBackend} :
        TCall(exclude, ret)
  \/ \E b \in Backends : THealthChange(b)

TSpec == TInit /\ [][TNext]_tvars

(* While the pool stays as it is and nothing is excluded, no backend gets  *)
(* two turns before each other has had one, wherever the index stood and   *)
(* whatever the pool was before (router.py:24, "Cycle through healthy      *)
(* backends with modulo arithmetic").                                      *)
Rotation ==
  [][\A b \in Backends : TCall({}, b) => History!Fair(b)]_tvars
=============================================================================
