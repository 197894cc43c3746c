--------------------------- MODULE ProxyConnectionMC ---------------------------
EXTENDS ProxyConnection, TLC

(* One of each framing, each with a body. *)
AllShapes == [framing : {"length", "chunked", "close"}, size : {1}]

(* The shortest responses: with no body, or of one empty chunk. *)
EmptyShapes == [framing : {"length", "chunked"}, size : {0}]

Symmetry == Permutations(Connections) \cup Permutations(Backends)
=============================================================================
