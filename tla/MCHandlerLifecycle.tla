------------------------- MODULE MCHandlerLifecycle -------------------------
(* The instance of HandlerLifecycle for TLC. *)
EXTENDS HandlerLifecycle
CONSTANTS c1, c2, p1, p2, i1

MCClients == {c1, c2}
MCControllers == {p1, p2}
MCInternals == {i1}
MCHandlers == 1..2
==============================================================================
