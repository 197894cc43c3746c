-------------------------------- MODULE Exchange --------------------------------
(***************************************************************************)
(* What the proxy promises to its clients: a client that is accepted gets  *)
(* at most one answer, either one error page or the response of one        *)
(* backend, which nothing follows or replaces; then its connection is      *)
(* over, and is closed.  A client may get no answer: it may be gone.       *)
(***************************************************************************)
CONSTANTS Connections, Pages, Backends, NoAnswer

VARIABLES
  phase,    \* of each connection: "new", "open", "over" or "closed"
  answer    \* the error page, or the backend whose response the client gets

vars == <<phase, answer>>

Init ==
  /\ phase = [c \in Connections |-> "new"]
  /\ answer = [c \in Connections |-> NoAnswer]

Accept(c) ==
  /\ phase[c] = "new"
  /\ phase' = [phase EXCEPT ![c] = "open"]
  /\ UNCHANGED answer

(* An error page is the end of the exchange. *)
Refuse(c, page) ==
  /\ phase[c] = "open" /\ answer[c] = NoAnswer
  /\ answer' = [answer EXCEPT ![c] = page]
  /\ phase' = [phase EXCEPT ![c] = "over"]

(* The first bytes of b's response, which may be all of it. *)
Respond(c, b) ==
  /\ phase[c] = "open" /\ answer[c] = NoAnswer
  /\ answer' = [answer EXCEPT ![c] = b]
  /\ \/ UNCHANGED phase
     \/ phase' = [phase EXCEPT ![c] = "over"]

End(c) ==
  /\ phase[c] = "open"
  /\ phase' = [phase EXCEPT ![c] = "over"]
  /\ UNCHANGED answer

Close(c) ==
  /\ phase[c] = "over"
  /\ phase' = [phase EXCEPT ![c] = "closed"]
  /\ UNCHANGED answer

Next ==
  \E c \in Connections :
    \/ Accept(c) \/ End(c) \/ Close(c)
    \/ \E page \in Pages : Refuse(c, page)
    \/ \E b \in Backends : Respond(c, b)

Spec == Init /\ [][Next]_vars
=============================================================================
