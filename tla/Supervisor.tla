------------------------------ MODULE Supervisor ------------------------------
(***************************************************************************)
(* main.py: the supervisor forks its workers, passes stop signals on and   *)
(* waits for them; each worker goes from the handlers it inherits to its   *)
(* own and into the reactor's loop.  SIGINT and SIGTERM are handled alike. *)
(*                                                                         *)
(* A signal is pending until the process it was sent to runs its handler,  *)
(* between any two of its steps; the same signal is not pending twice.     *)
(***************************************************************************)
EXTENDS Naturals

CONSTANTS
  N,            \* --workers
  MaxSignals    \* bound of the signals that come from outside

ASSUME ProcessAssumption == N \in Nat \ {0} /\ MaxSignals \in Nat

Workers == 1..N
Boss == 0       \* the supervisor's own process

VARIABLES
  pc,         \* the supervisor: forking, just forked (in the parent, before
              \* the pid is appended), waiting, gone
  children,   \* its list of pids
  exitCode,   \* 0, or not
  worker,     \* how far each worker is, or how it ended
  inherited,  \* each worker's copy of children, as of the fork
  pending,    \* processes that have a stop signal pending
  signals,    \* signals from outside so far
  heard,      \* history: has the supervisor run its handler?
  deaf,       \* history: workers that ran a handler to no effect
  unlisted    \* history: workers that were not in children when it ran

vars == <<pc, children, exitCode, worker, inherited, pending, signals,
          heard, deaf, unlisted>>

Ends == {"exit 0", "exit 1", "killed"}

Stages == {"unborn", "born", "default", "handled", "running", "stopping"} \cup Ends

Ended(w) == worker[w] \in Ends

Live == {w \in Workers : worker[w] # "unborn" /\ ~Ended(w)}

TypeOK ==
  /\ pc \in {"forking", "forked", "waiting", "gone"}
  /\ children \subseteq Workers
  /\ exitCode \in {0, 1}
  /\ worker \in [Workers -> Stages]
  /\ inherited \in [Workers -> SUBSET Workers]
  /\ pending \subseteq Workers \cup {Boss}
  /\ signals \in 0..MaxSignals
  /\ heard \in BOOLEAN
  /\ deaf \subseteq Workers
  /\ unlisted \subseteq Workers

Init ==
  /\ pc = "forking" /\ children = {} /\ exitCode = 0
  /\ worker = [w \in Workers |-> "unborn"]
  /\ inherited = [w \in Workers |-> {}]
  /\ pending = {} /\ signals = 0
  /\ heard = FALSE /\ deaf = {} /\ unlisted = {}

histories == <<signals, heard, deaf, unlisted>>

(* os.kill of each process in ps; one that has ended does not mind. *)
Kill(ps) == pending \cup (ps \cap (Live \cup {Boss}))

Become(w, stage) == worker' = [worker EXCEPT ![w] = stage]

-----------------------------------------------------------------------------
(* The supervisor. *)

Fork(w) ==
  /\ pc = "forking"
  /\ \A v \in Workers : worker[v] # "unborn" <=> v < w
  /\ pc' = "forked"
  /\ Become(w, "born")
  /\ inherited' = [inherited EXCEPT ![w] = children]
  /\ UNCHANGED <<children, exitCode, pending, histories>>

(* children.append, and on to the next fork or to the wait. *)
Append(w) ==
  /\ pc = "forked" /\ worker[w] # "unborn" /\ w \notin children
  /\ children' = children \cup {w}
  /\ pc' = IF \E v \in Workers : worker[v] = "unborn" THEN "forking" ELSE "waiting"
  /\ UNCHANGED <<exitCode, worker, inherited, pending, histories>>

(* Mutants: a clean exit resets the code; failures are counted; the others *)
(* are left alone.                                                         *)
CodeOfLast(w) == IF worker[w] = "exit 0" THEN 0 ELSE 1

CodeCounted(w) == IF worker[w] = "exit 0" THEN exitCode ELSE exitCode + 1

NoneToStop(w) == {}

(* The exit code once w has been waited for, and who is then stopped. *)
CodeAfter(w) == IF worker[w] = "exit 0" THEN exitCode ELSE 1

Remaining(w) == children \ {w}

(* waitpid returns w, and the rest of the loop's body. *)
Wait(w) ==
  /\ pc = "waiting" /\ w \in children /\ Ended(w)
  /\ children' = children \ {w}
  /\ exitCode' = CodeAfter(w)
  /\ pending' = Kill(Remaining(w))
  /\ UNCHANGED <<pc, worker, inherited, histories>>

(* Mutant: the supervisor leaves with the first worker. *)
SomeWaitedFor == children # Workers

AllWaitedFor == children = {}

Exit ==
  /\ pc = "waiting" /\ AllWaitedFor
  /\ pc' = "gone"
  /\ UNCHANGED <<children, exitCode, worker, inherited, pending, histories>>

(* Mutant: the handler forgets whom to tell. *)
NoneTold == {}

Told == children

(* _forward_and_exit, which does not exit. *)
Forward ==
  /\ Boss \in pending /\ pc # "gone"
  /\ pending' = Kill(Told) \ {Boss}
  /\ heard' = TRUE
  /\ unlisted' = unlisted \cup {w \in Workers \ children : ~Ended(w)}
  /\ UNCHANGED <<pc, children, exitCode, worker, inherited, signals, deaf>>

-----------------------------------------------------------------------------
(* A worker. *)

(* The handlers are reset; then _run_worker installs its own; then the     *)
(* reactor listens and sets _running.                                      *)
Following == [born |-> "default", default |-> "handled", handled |-> "running"]

Proceed(w) ==
  /\ worker[w] \in DOMAIN Following
  /\ Become(w, Following[worker[w]])
  /\ UNCHANGED <<pc, children, exitCode, inherited, pending, histories>>

EndAs(w, how) ==
  /\ Become(w, how)
  /\ pending' = pending \ {w}
  /\ UNCHANGED <<pc, children, exitCode, inherited, histories>>

(* The loop has ended, and the health checker is stopped, for which join   *)
(* waits a limited time only.                                              *)
Leave(w) == worker[w] = "stopping" /\ EndAs(w, "exit 0")

(* An exception, from bind or out of the loop. *)
Crash(w) == worker[w] \in {"default", "handled", "running"} /\ EndAs(w, "exit 1")

(* The signal finds the handler inherited from the supervisor, which runs  *)
(* with the child's copy of the list ...                                   *)
ForwardInChild(w) ==
  /\ worker[w] = "born"
  /\ pending' = Kill(inherited[w]) \ {w}
  /\ deaf' = deaf \cup {w}
  /\ UNCHANGED worker

(* ... or the default action ... *)
Killed(w) ==
  /\ worker[w] = "default"
  /\ Become(w, "killed")
  /\ pending' = pending \ {w}
  /\ UNCHANGED deaf

(* ... or the worker's handler, which sets _running to False; start() sets *)
(* it to True again if it comes later.                                     *)
StopReactor(w) ==
  /\ worker[w] \in {"handled", "running", "stopping"}
  /\ IF worker[w] = "handled"
     THEN deaf' = deaf \cup {w} /\ UNCHANGED worker
     ELSE Become(w, "stopping") /\ UNCHANGED deaf
  /\ pending' = pending \ {w}

Deliver(w) ==
  /\ w \in pending
  /\ ForwardInChild(w) \/ Killed(w) \/ StopReactor(w)
  /\ UNCHANGED <<pc, children, exitCode, inherited, signals, heard, unlisted>>

-----------------------------------------------------------------------------
(* A signal to one process, a worker too, or from the terminal to all. *)
Signal(ps) ==
  /\ signals < MaxSignals
  /\ signals' = signals + 1
  /\ pending' = Kill(ps)
  /\ UNCHANGED <<pc, children, exitCode, worker, inherited, heard, deaf, unlisted>>

Supervise == Exit \/ \E w \in Workers : Fork(w) \/ Append(w) \/ Wait(w)

Next ==
  \/ Supervise \/ Forward
  \/ \E w \in Workers : Proceed(w) \/ Leave(w) \/ Crash(w) \/ Deliver(w)
  \/ Signal(Workers \cup {Boss}) \/ \E p \in Workers \cup {Boss} : Signal({p})

(* Every process gets to run, and runs its handlers. *)
Fairness ==
  /\ WF_vars(Supervise) /\ WF_vars(Forward)
  /\ \A w \in Workers : WF_vars(Proceed(w) \/ Leave(w)) /\ WF_vars(Deliver(w))

Spec == Init /\ [][Next]_vars

FairSpec == Spec /\ Fairness

-----------------------------------------------------------------------------
(* The supervisor leaves no worker behind, whatever came between a fork    *)
(* and the list that it waits by (_run_supervisor).                        *)
NoneLeftBehind == pc = "gone" => \A w \in Workers : Ended(w)

(* The supervisor's exit code tells whether a worker crashed or was        *)
(* killed, in whatever order they ended.                                   *)
CodeTellsCrash ==
  pc = "gone" => (exitCode = 0 <=> \A w \in Workers : worker[w] = "exit 0")

(* "shut down if any child exits": once a worker has ended, however and    *)
(* whenever, they all end, except for one that was sent a signal before    *)
(* it could heed one (main.py:153, "avoid a half-dead fleet").             *)
OneEndsAllEnd ==
  (\E w \in Workers : Ended(w)) ~> (\A w \in Workers : Ended(w) \/ w \in deaf)

(* "forward signals": once the supervisor's handler has run, every worker  *)
(* ends, except for those that could not heed the signal, and those that   *)
(* were not yet in the list.                                               *)
SignalEndsListed ==
  heard ~> (\A w \in Workers : Ended(w) \/ w \in deaf \cup unlisted)
=============================================================================
