--------------------------------- MODULE Turns ---------------------------------
(***************************************************************************)
(* A history of the turns that a router gives: owed[b] is the set of the   *)
(* backends that have been healthy, and have had no turn, ever since b had *)
(* its last one.  A rotation is fair when b gets a turn only if it owes    *)
(* none.  The history is not part of the program.                          *)
(***************************************************************************)
CONSTANTS Backends

VARIABLE owed

Nothing == [b \in Backends |-> {}]

Init == owed = Nothing

(* b gets a turn while the backends of pool are healthy. *)
Turn(b, pool) ==
  owed' = [x \in Backends |-> IF x = b THEN pool \ {b} ELSE owed[x] \ {b}]

(* b leaves the pool and loses its claim. *)
Leave(b) == owed' = [x \in Backends |-> owed[x] \ {b}]

(* Something other than rotation decided: it starts afresh. *)
Reset == owed' = Nothing

Fair(b) == owed[b] = {}
=============================================================================
