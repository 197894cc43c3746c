-------------------------- MODULE LeastConnectionsTurns --------------------------
(***************************************************************************)
(* LeastConnections with the history of its turns.  Only first attempts    *)
(* that find every backend idle take turns: the load of tests/TESTING.md,  *)
(* where each connection finishes before the next begins, so that all      *)
(* counts are equal and the tiebreaks alone decide.                        *)
(***************************************************************************)
EXTENDS LeastConnections

VARIABLES
  owed,     \* see Turns
  flapped   \* has a backend come back to the pool?

History == INSTANCE Turns

tvars == <<heap, counts, tiebreak, healthy, last, owed, flapped>>

TInit ==
  /\ Init
  /\ History!Init
  /\ flapped = FALSE

AllIdle == \A b \in Backends : counts[b] = 0

TCall(exclude, ret) ==
  /\ Call(exclude, ret)
  /\ IF AllIdle /\ exclude = {} /\ ret # NoBackend
     THEN History!Turn(ret, healthy)
     ELSE History!Reset
  /\ UNCHANGED flapped

TRelease(b) == Release(b) /\ UNCHANGED <<owed, flapped>>

TLeave(b) ==
  /\ MarkUnhealthy(b)
  /\ History!Leave(b)
  /\ UNCHANGED <<last, flapped>>

TReturn(b) ==
  /\ MarkHealthy(b)
  /\ flapped' = TRUE
  /\ UNCHANGED <<last, owed>>

TNext ==
  \/ \E exclude \in SUBSET Backends, ret \in Backends \cup {NoBackend} :
        TCall(exclude, ret)
  \/ \E b \in Backends : TRelease(b) \/ TLeave(b) \/ TReturn(b)

TSpec == TInit /\ [][TNext]_tvars

TakesTurnFairly ==
  \A b \in Backends : AllIdle /\ TCall({}, b) => History!Fair(b)

(* Under sequential load b gets no turn while another backend has been     *)
(* waiting, healthy, since b's last one: equal counts rotate               *)
(* (tests/TESTING.md:403, and router.py:89 on biased tiebreaks).           *)
Rotation == [][TakesTurnFairly]_tvars

(* The same while no backend has come back to the pool.  Before that, the  *)
(* load may have been concurrent, and the heap full of stale entries.      *)
RotationBeforeFlaps == [][~flapped => TakesTurnFairly]_tvars
=============================================================================
