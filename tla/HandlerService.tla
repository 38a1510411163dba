--------------------------- MODULE HandlerService ---------------------------
(***************************************************************************)
(* What inbound/handler.go promises to the listeners of cmd/main.go, with  *)
(* no locks and no steps: there is at most one handler in service; a query *)
(* is served from beginning to end by the handler that was in service when *)
(* it began, or refused when there is none; a handler is retired only when *)
(* it has left service and no query uses it; after the service is closed   *)
(* no handler enters it again.                                             *)
(***************************************************************************)
CONSTANTS Clients, Handlers, NoHandler

VARIABLES
    current,    \* the handler in service
    serving,    \* the handler each client's query is served by
    retired,    \* the handlers that have been told to stop
    closed      \* the service is closed for good

vars == <<current, serving, retired, closed>>

Init ==
    /\ current \in Handlers
    /\ serving = [c \in Clients |-> NoHandler]
    /\ retired = {}
    /\ closed = FALSE

Begin(c) ==
    /\ serving[c] = NoHandler /\ current # NoHandler
    /\ serving' = [serving EXCEPT ![c] = current]
    /\ UNCHANGED <<current, retired, closed>>

End(c) ==
    /\ serving' = [serving EXCEPT ![c] = NoHandler]
    /\ UNCHANGED <<current, retired, closed>>

Switch(h) ==
    /\ ~closed /\ h \notin retired
    /\ current' = h
    /\ UNCHANGED <<serving, retired, closed>>

Close ==
    /\ ~closed
    /\ closed' = TRUE
    /\ current' = NoHandler
    /\ UNCHANGED <<serving, retired>>

Retire(h) ==
    /\ h # current /\ \A c \in Clients : serving[c] # h
    /\ retired' = retired \cup {h}
    /\ UNCHANGED <<current, serving, closed>>

Next ==
    \/ \E c \in Clients : Begin(c) \/ End(c)
    \/ \E h \in Handlers : Switch(h) \/ Retire(h)
    \/ Close

Spec == Init /\ [][Next]_vars
==============================================================================
