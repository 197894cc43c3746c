--------------------------- MODULE Supervisor_proofs ---------------------------
(***************************************************************************)
(* Theorems about Supervisor for any number of workers and signals: the    *)
(* supervisor leaves no worker behind, and its exit code tells whether one *)
(* crashed.                                                                *)
(*                                                                         *)
(* Neither is inductive: the list that the supervisor waits by lags behind *)
(* the forks.  Listed says how far: while it forks, every worker that was  *)
(* born is in the list, but for the one of the present fork; from then on  *)
(* whoever is not in it has ended.  CodeSoFar says what the exit code      *)
(* tells before all have ended.                                            *)
(***************************************************************************)
EXTENDS Supervisor, TLAPS

Born(w) == worker[w] # "unborn"

Listed ==
  /\ pc = "forking" => \A w \in Workers : Born(w) => w \in children
  /\ pc = "forked" =>
       \A v, w \in Workers :
         Born(v) /\ Born(w) /\ v \notin children /\ w \notin children => v = w
  /\ pc \in {"waiting", "gone"} =>
       \A w \in Workers : Born(w) /\ (w \in children \/ Ended(w))
  /\ pc = "gone" => children = {}

CodeSoFar ==
  IF pc \in {"waiting", "gone"}
  THEN exitCode = 0 <=> \A w \in Workers \ children : worker[w] = "exit 0"
  ELSE exitCode = 0

IInv == TypeOK /\ Listed /\ CodeSoFar

LEMMA InitIInv == Init => IInv
<1> SUFFICES ASSUME Init
             PROVE  IInv
  OBVIOUS
<1>1. TypeOK
  <2>1. worker \in [Workers -> Stages] /\ inherited \in [Workers -> SUBSET Workers]
    BY DEF Init, Stages
  <2>2. signals \in 0..MaxSignals
    BY ProcessAssumption DEF Init
  <2> QED
    BY <2>1, <2>2 DEF Init, TypeOK
<1>2. Listed /\ CodeSoFar
  BY DEF Init, Listed, CodeSoFar, Born
<1> QED
  BY <1>1, <1>2 DEF IInv

LEMMA InvImplies == IInv => NoneLeftBehind /\ CodeTellsCrash
BY DEF IInv, Listed, CodeSoFar, NoneLeftBehind, CodeTellsCrash, Ended, Ends

(* What is pending is pending for a process. *)
LEMMA KillTypes ==
  ASSUME TypeOK, NEW ps
  PROVE  Kill(ps) \subseteq Workers \cup {Boss}
BY DEF TypeOK, Kill, Live

-----------------------------------------------------------------------------
(* A step of one worker, which is alive, to another stage. *)
Advances(w) ==
  \E stage \in Stages \ {"unborn"} :
    /\ Born(w) /\ ~Ended(w)
    /\ worker' = [worker EXCEPT ![w] = stage]
    /\ UNCHANGED <<pc, children, exitCode>>

LEMMA AdvanceKeeps ==
  ASSUME IInv, NEW w \in Workers, Advances(w)
  PROVE  Listed' /\ CodeSoFar' /\ worker' \in [Workers -> Stages]
<1>1. PICK stage \in Stages \ {"unborn"} :
        /\ Born(w) /\ ~Ended(w)
        /\ worker' = [worker EXCEPT ![w] = stage]
        /\ UNCHANGED <<pc, children, exitCode>>
  BY DEF Advances
<1>2. worker \in [Workers -> Stages]
  BY DEF IInv, TypeOK
<1>3. /\ worker'[w] = stage
      /\ \A v \in Workers : v # w => worker'[v] = worker[v]
      /\ \A v \in Workers : Born(v)' <=> Born(v)
  BY <1>1, <1>2 DEF Born
<1>4. pc \in {"waiting", "gone"} => w \in children
  BY <1>1 DEF IInv, Listed
<1>5. Listed'
  BY <1>1, <1>3, <1>4 DEF IInv, Listed, Ended
<1>6. CodeSoFar'
  BY <1>1, <1>3, <1>4 DEF IInv, CodeSoFar
<1> QED
  BY <1>1, <1>2, <1>5, <1>6

(* A step that leaves the processes where they are. *)
LEMMA StillKeeps ==
  ASSUME IInv, UNCHANGED <<pc, children, exitCode, worker>>
  PROVE  Listed' /\ CodeSoFar'
BY DEF IInv, Listed, CodeSoFar, Born, Ended

-----------------------------------------------------------------------------

LEMMA ForkKeeps ==
  ASSUME IInv, NEW w \in Workers, Fork(w)
  PROVE  IInv'
<1>1. worker \in [Workers -> Stages] /\ worker[w] = "unborn"
  BY DEF IInv, TypeOK, Fork, Workers
<1>2. /\ worker' = [worker EXCEPT ![w] = "born"] /\ pc = "forking" /\ pc' = "forked"
      /\ UNCHANGED <<children, exitCode>>
  BY DEF Fork, Become
<1>3. Listed'
  BY <1>1, <1>2 DEF IInv, Listed, Born
<1>4. TypeOK'
  BY <1>1 DEF IInv, TypeOK, Fork, Become, histories, Stages
<1>5. CodeSoFar'
  BY <1>2 DEF IInv, CodeSoFar
<1> QED
  BY <1>3, <1>4, <1>5 DEF IInv

LEMMA AppendKeeps ==
  ASSUME IInv, NEW w \in Workers, Append(w)
  PROVE  IInv'
<1>1. /\ pc = "forked" /\ Born(w) /\ w \notin children
      /\ children' = children \cup {w}
      /\ pc' = IF \E v \in Workers : worker[v] = "unborn" THEN "forking" ELSE "waiting"
      /\ UNCHANGED <<worker, exitCode>>
  BY DEF Append, Born
<1>2. \A v \in Workers : Born(v) => v \in children'
  BY <1>1 DEF IInv, Listed
<1>3. Listed'
  BY <1>1, <1>2 DEF Listed, Born
<1>4. CodeSoFar'
  BY <1>1, <1>2 DEF IInv, CodeSoFar, Born
<1>5. TypeOK'
  BY DEF IInv, TypeOK, Append, histories
<1> QED
  BY <1>3, <1>4, <1>5 DEF IInv

LEMMA WaitKeeps ==
  ASSUME IInv, NEW w \in Workers, Wait(w)
  PROVE  IInv'
<1>1. /\ pc = "waiting" /\ w \in children /\ Ended(w)
      /\ children' = children \ {w}
      /\ exitCode' = IF worker[w] = "exit 0" THEN exitCode ELSE 1
      /\ UNCHANGED <<pc, worker>>
  BY DEF Wait, CodeAfter
<1>2. Listed'
  BY <1>1 DEF IInv, Listed, Born, Ended
<1>3. CodeSoFar'
  <2>1. \A v \in Workers : v \notin children' <=> v \notin children \/ v = w
    BY <1>1
  <2>2. exitCode = 0 <=> \A v \in Workers \ children : worker[v] = "exit 0"
    BY <1>1 DEF IInv, CodeSoFar
  <2>3. exitCode' = 0 <=> exitCode = 0 /\ worker[w] = "exit 0"
    <3>1. CASE worker[w] = "exit 0"
      BY <1>1, <3>1
    <3>2. CASE worker[w] # "exit 0"
      <4>1. exitCode' = 1
        BY <1>1, <3>2
      <4>2. exitCode' # 0
        BY <4>1
      <4> QED
        BY <3>2, <4>2
    <3> QED
      BY <3>1, <3>2
  <2> QED
    BY <1>1, <2>1, <2>2, <2>3 DEF CodeSoFar
<1>4. TypeOK'
  BY <1>1, KillTypes DEF IInv, TypeOK, Wait, histories
<1> QED
  BY <1>2, <1>3, <1>4 DEF IInv

LEMMA ExitKeeps ==
  ASSUME IInv, Exit
  PROVE  IInv'
BY DEF IInv, Exit, AllWaitedFor, TypeOK, Listed, CodeSoFar, Born, Ended, histories

LEMMA ForwardKeeps ==
  ASSUME IInv, Forward
  PROVE  IInv'
<1>1. Listed' /\ CodeSoFar'
  BY StillKeeps DEF Forward
<1>2. TypeOK'
  BY KillTypes DEF IInv, TypeOK, Forward
<1> QED
  BY <1>1, <1>2 DEF IInv

LEMMA SignalKeeps ==
  ASSUME IInv, NEW ps, Signal(ps)
  PROVE  IInv'
<1>1. Listed' /\ CodeSoFar'
  BY StillKeeps DEF Signal
<1>2. signals' \in 0..MaxSignals
  BY ProcessAssumption DEF IInv, TypeOK, Signal
<1>3. TypeOK'
  BY <1>2, KillTypes DEF IInv, TypeOK, Signal
<1> QED
  BY <1>1, <1>3 DEF IInv

-----------------------------------------------------------------------------

LEMMA ProceedKeeps ==
  ASSUME IInv, NEW w \in Workers, Proceed(w)
  PROVE  IInv'
<1>1. worker[w] \in {"born", "default", "handled"}
      /\ Following[worker[w]] \in {"default", "handled", "running"}
  BY DEF Proceed, Following
<1>2. Advances(w)
  BY <1>1 DEF Proceed, Advances, Become, Born, Ended, Ends, Stages
<1>3. TypeOK'
  BY <1>2, AdvanceKeeps DEF IInv, TypeOK, Proceed, histories
<1> QED
  BY <1>2, <1>3, AdvanceKeeps DEF IInv

LEMMA EndKeeps ==
  ASSUME IInv, NEW w \in Workers, Leave(w) \/ Crash(w)
  PROVE  IInv'
<1>1. PICK how \in Ends : EndAs(w, how)
  BY DEF Leave, Crash, Ends
<1>2. Advances(w)
  BY <1>1 DEF Leave, Crash, EndAs, Advances, Become, Born, Ended, Ends, Stages
<1>3. TypeOK'
  BY <1>1, <1>2, AdvanceKeeps DEF IInv, TypeOK, EndAs, histories
<1> QED
  BY <1>2, <1>3, AdvanceKeeps DEF IInv

LEMMA DeliverKeeps ==
  ASSUME IInv, NEW w \in Workers, Deliver(w)
  PROVE  IInv'
<1>1. pending' \subseteq Workers \cup {Boss} /\ deaf' \subseteq Workers
  <2>1. Kill(inherited[w]) \subseteq Workers \cup {Boss}
    BY KillTypes DEF IInv
  <2> QED
    BY <2>1 DEF IInv, TypeOK, Deliver, ForwardInChild, Killed, StopReactor
<1>2. UNCHANGED <<pc, children, exitCode, inherited, signals, heard, unlisted>>
  BY DEF Deliver
<1>3. UNCHANGED worker \/ Advances(w)
  BY <1>2 DEF Deliver, ForwardInChild, Killed, StopReactor, Advances, Become, Born,
              Ended, Ends, Stages
<1>4. Listed' /\ CodeSoFar' /\ worker' \in [Workers -> Stages]
  BY <1>2, <1>3, StillKeeps, AdvanceKeeps DEF IInv, TypeOK
<1> QED
  BY <1>1, <1>2, <1>4 DEF IInv, TypeOK

LEMMA NextKeeps == IInv /\ [Next]_vars => IInv'
<1> SUFFICES ASSUME IInv, [Next]_vars
             PROVE  IInv'
  OBVIOUS
<1>1. CASE Supervise
  BY <1>1, ExitKeeps, ForkKeeps, AppendKeeps, WaitKeeps DEF Supervise
<1>2. CASE Forward
  BY <1>2, ForwardKeeps
<1>3. ASSUME NEW w \in Workers, Proceed(w) \/ Leave(w) \/ Crash(w) \/ Deliver(w)
      PROVE  IInv'
  BY <1>3, ProceedKeeps, EndKeeps, DeliverKeeps
<1>4. CASE \/ Signal(Workers \cup {Boss})
           \/ \E p \in Workers \cup {Boss} : Signal({p})
  BY <1>4, SignalKeeps
<1>5. CASE UNCHANGED vars
  BY <1>5 DEF vars, IInv, TypeOK, Listed, CodeSoFar, Born, Ended
<1> QED
  BY <1>1, <1>2, <1>3, <1>4, <1>5 DEF Next

LEMMA Invariant == Spec => []IInv
BY InitIInv, NextKeeps, PTL DEF Spec

-----------------------------------------------------------------------------

(* The supervisor's list, its exit code and the workers' stages keep their *)
(* types (_run_supervisor, _run_worker).                                   *)
THEOREM TypeCorrect == Spec => []TypeOK
<1>1. IInv => TypeOK
  BY DEF IInv
<1> QED
  BY <1>1, Invariant, PTL

(* When the supervisor of any number of workers has left, they all have    *)
(* ended: none was forked that it did not wait for (_run_supervisor).      *)
THEOREM NobodyLeftBehind == Spec => []NoneLeftBehind
<1>1. IInv => NoneLeftBehind
  BY InvImplies
<1> QED
  BY <1>1, Invariant, PTL

(* The supervisor exits with 0 just if every worker did, in whatever order *)
(* they ended and whatever signals came (_run_supervisor).                 *)
THEOREM CodeTells == Spec => []CodeTellsCrash
<1>1. IInv => CodeTellsCrash
  BY InvImplies
<1> QED
  BY <1>1, Invariant, PTL
=============================================================================
