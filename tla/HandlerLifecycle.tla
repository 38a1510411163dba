-------------------------- MODULE HandlerLifecycle --------------------------
(***************************************************************************)
(* The life of a handler of inbound/handler.go: built, started, put in     *)
(* service by ReloadConfig, drained of its queries, replaced or withdrawn  *)
(* by Stop, and stopped together with its group (outbound/groups.go Start  *)
(* and Stop) while clients keep asking.  One group stands for the groups   *)
(* of a handler, which start() and stop() treat one after the other alike. *)
(*                                                                         *)
(* The internal queries with which a DoH upstream resolves its server's    *)
(* name call handlerImpl.ServeDNS directly: they hold no drain lock.       *)
(***************************************************************************)
EXTENDS Naturals, Sequences

CONSTANTS
    Clients,        \* goroutines of the listeners that call ServeDNS
    Controllers,    \* goroutines that call ReloadConfig and Stop
    Internals,      \* goroutines of DoH resolution that call the handler itself
    Handlers,       \* the handlers that can be built: bounds the reloads
    NoHandler,      \* the nil pointer
    Nobody,         \* the owner of a free lock
    QueueCap        \* capacity of ipSetCh

ASSUME HandlersAssumption == Handlers # {}
ASSUME NoHandlerAssumption == NoHandler \notin Handlers
ASSUME NobodyAssumption == Nobody \notin Controllers
ASSUME QueueCapAssumption == QueueCap \in Nat \ {0}

VARIABLES
    (* handlerWrapper *)
    ptr,            \* handlerPtr
    stopped,
    lifecycle,      \* owner of lifecycleMu
    drain,          \* who has called drainMu.Lock() and not yet unlocked
    (* the handlers, their groups and caches *)
    hstate,         \* "started": group started; "stopping": stopCh closed;
                    \* "stopped": group stopped and cache closed;
                    \* "lost": only a cache was made, which nobody closes
    worker,         \* the ipset worker of the handler's group
    queue,          \* ipSetCh, by the kind of query each task comes from
    (* the callers *)
    cpc, using,     \* ServeDNS: where the client is, the handler it loaded
    kpc, mine, old, \* ReloadConfig and Stop: where, the new and the old handler
    internal        \* the handler an internal query runs on

wrapper == <<ptr, stopped, lifecycle, drain>>
groups == <<hstate, worker, queue>>
clients == <<cpc, using>>
controllers == <<kpc, mine, old>>
vars == <<wrapper, groups, clients, controllers, internal>>

(***************************************************************************)
(* NewHandler builds the wrapper and runs the first ReloadConfig before    *)
(* anyone sees it: the program starts with one handler in service.         *)
(***************************************************************************)
Init ==
    /\ ptr = CHOOSE h \in Handlers : TRUE
    /\ stopped = FALSE
    /\ lifecycle = Nobody
    /\ drain = Nobody
    /\ hstate = [h \in Handlers |-> IF h = ptr THEN "started" ELSE "unborn"]
    /\ worker = [h \in Handlers |-> IF h = ptr THEN "running" ELSE "off"]
    /\ queue = [h \in Handlers |-> <<>>]
    /\ cpc = [c \in Clients |-> "idle"]
    /\ using = [c \in Clients |-> NoHandler]
    /\ kpc = [p \in Controllers |-> "idle"]
    /\ mine = [p \in Controllers |-> NoHandler]
    /\ old = [p \in Controllers |-> NoHandler]
    /\ internal = [i \in Internals |-> NoHandler]

(***************************************************************************)
(* ServeDNS of the wrapper.                                                *)
(***************************************************************************)

\* The clients that hold drainMu for reading, from RLock to the deferred RUnlock.
ReadersUnlockedBeforeReply == {c \in Clients : cpc[c] = "serving"}
Readers == {c \in Clients : cpc[c] \in {"serving", "answered"}}

Ask(c) ==
    /\ cpc[c] = "idle"
    /\ cpc' = [cpc EXCEPT ![c] = "asking"]
    /\ UNCHANGED <<wrapper, groups, using, controllers, internal>>

\* RLock, which a waiting writer holds up too, and handlerPtr.Load().
BeginQuery(c) ==
    /\ cpc[c] = "asking" /\ drain = Nobody
    /\ ptr # NoHandler
    /\ using' = [using EXCEPT ![c] = ptr]
    /\ cpc' = [cpc EXCEPT ![c] = "serving"]
    /\ UNCHANGED <<wrapper, groups, controllers, internal>>

\* No handler is in service: the reply is SERVFAIL.
Refuse(c) ==
    /\ cpc[c] = "asking" /\ drain = Nobody
    /\ ptr = NoHandler
    /\ cpc' = [cpc EXCEPT ![c] = "answered"]
    /\ UNCHANGED <<wrapper, groups, using, controllers, internal>>

HasRoomForOneTooMany(q) == Len(q) <= QueueCap
HasRoom(q) == Len(q) < QueueCap

\* PostProcess: a task for the ipset worker, or none when the channel is full.
Posted(q, task) == IF HasRoom(q) THEN Append(q, task) ELSE q

\* handle(): answered from hosts or cache, or by a group that posts its task.
Answer(c) ==
    /\ cpc[c] = "serving"
    /\ cpc' = [cpc EXCEPT ![c] = "answered"]
    /\ \/ queue' = queue
       \/ queue' = [queue EXCEPT ![using[c]] = Posted(@, "client")]
    /\ UNCHANGED <<wrapper, hstate, worker, using, controllers, internal>>

\* The reply is cached and written, RUnlock.
EndQuery(c) ==
    /\ cpc[c] = "answered"
    /\ cpc' = [cpc EXCEPT ![c] = "idle"]
    /\ using' = [using EXCEPT ![c] = NoHandler]
    /\ UNCHANGED <<wrapper, groups, controllers, internal>>

(***************************************************************************)
(* ReloadConfig.                                                           *)
(***************************************************************************)

Unborn == {h \in Handlers : hstate[h] = "unborn"}

\* newHandle, outside the locks.  It can fail before it makes the cache (unknown
\* query type, bad hosts), which changes nothing, or after (groups, redirectors):
\* the error return drops the handler and leaves its cache running.
NewHandle(p) ==
    /\ kpc[p] = "idle"
    /\ Unborn # {}
    /\ LET h == CHOOSE h \in Unborn : TRUE
       IN  \/ /\ hstate' = [hstate EXCEPT ![h] = "built"]
              /\ mine' = [mine EXCEPT ![p] = h]
              /\ kpc' = [kpc EXCEPT ![p] = "reload"]
           \/ /\ hstate' = [hstate EXCEPT ![h] = "lost"]
              /\ UNCHANGED <<mine, kpc>>
    /\ UNCHANGED <<wrapper, worker, queue, clients, old, internal>>

\* lifecycleMu.Lock() and the test of w.stopped, which unlocks at once if set.
NeverRefused == FALSE
RefusedByStop == stopped

AfterRefusalStillLocked(p) == p
AfterRefusal(p) == Nobody

LockForReload(p) ==
    /\ kpc[p] = "reload" /\ lifecycle = Nobody
    /\ \/ /\ RefusedByStop
          /\ lifecycle' = AfterRefusal(p)
          /\ kpc' = [kpc EXCEPT ![p] = "discard"]
       \/ /\ ~RefusedByStop
          /\ lifecycle' = p
          /\ kpc' = [kpc EXCEPT ![p] = "start"]
    /\ UNCHANGED <<ptr, stopped, drain, groups, clients, mine, old, internal>>

\* h.stop() of a handler that was never started: the group's Stop returns at
\* once, the cache is closed.
DiscardedLeaks == "built"
Discarded == "stopped"

Discard(p) ==
    /\ kpc[p] = "discard"
    /\ hstate' = [hstate EXCEPT ![mine[p]] = Discarded]
    /\ mine' = [mine EXCEPT ![p] = NoHandler]
    /\ kpc' = [kpc EXCEPT ![p] = "idle"]
    /\ UNCHANGED <<wrapper, worker, queue, clients, old, internal>>

\* h.start(): the upstreams' run() and the ipset worker are running.
StartHandler(p) ==
    /\ kpc[p] = "start"
    /\ hstate' = [hstate EXCEPT ![mine[p]] = "started"]
    /\ worker' = [worker EXCEPT ![mine[p]] = "running"]
    /\ kpc' = [kpc EXCEPT ![p] = "lockDrain"]
    /\ UNCHANGED <<wrapper, queue, clients, mine, old, internal>>

(***************************************************************************)
(* Stop, and what the two operations share.                                *)
(***************************************************************************)

CallStop(p) ==
    /\ kpc[p] = "idle"
    /\ kpc' = [kpc EXCEPT ![p] = "stop"]
    /\ UNCHANGED <<wrapper, groups, clients, mine, old, internal>>

LockForStop(p) ==
    /\ kpc[p] = "stop" /\ lifecycle = Nobody
    /\ \/ /\ stopped
          /\ kpc' = [kpc EXCEPT ![p] = "idle"]
          /\ UNCHANGED <<stopped, lifecycle>>
       \/ /\ ~stopped
          /\ stopped' = TRUE
          /\ lifecycle' = p
          /\ kpc' = [kpc EXCEPT ![p] = "lockDrain"]
    /\ UNCHANGED <<ptr, drain, groups, clients, mine, old, internal>>

\* drainMu.Lock() is called: from here on new readers wait.
LockDrain(p) ==
    /\ kpc[p] = "lockDrain"
    /\ drain' = p
    /\ kpc' = [kpc EXCEPT ![p] = "swap"]
    /\ UNCHANGED <<ptr, stopped, lifecycle, groups, clients, mine, old, internal>>

\* The write lock is granted when the last reader has left.  Swap, and both
\* unlocks; Stop swaps nil in, which is what mine[p] is then.
DrainStillLocked(p) == p
DrainUnlocked(p) == Nobody

Swap(p) ==
    /\ kpc[p] = "swap" /\ Readers = {}
    /\ old' = [old EXCEPT ![p] = ptr]
    /\ ptr' = mine[p]
    /\ mine' = [mine EXCEPT ![p] = NoHandler]
    /\ drain' = DrainUnlocked(p)
    /\ lifecycle' = Nobody
    /\ kpc' = [kpc EXCEPT ![p] = IF ptr = NoHandler THEN "idle" ELSE "retire"]
    /\ UNCHANGED <<stopped, groups, clients, internal>>

\* group.Stop(): the upstreams are told to exit and stopCh is closed...
CloseStopCh(p) ==
    /\ kpc[p] = "retire"
    /\ hstate' = [hstate EXCEPT ![old[p]] = "stopping"]
    /\ kpc' = [kpc EXCEPT ![p] = "await"]
    /\ UNCHANGED <<wrapper, worker, queue, clients, mine, old, internal>>

\* ... the worker is waited for; then cache.Stop().
Stopped(p) ==
    /\ kpc[p] = "await" /\ worker[old[p]] = "exited"
    /\ hstate' = [hstate EXCEPT ![old[p]] = "stopped"]
    /\ old' = [old EXCEPT ![p] = NoHandler]
    /\ kpc' = [kpc EXCEPT ![p] = "idle"]
    /\ UNCHANGED <<wrapper, worker, queue, clients, mine, internal>>

(***************************************************************************)
(* The goroutines of a started group.                                      *)
(***************************************************************************)

WorkerTakes(h) ==
    /\ worker[h] = "running" /\ queue[h] # <<>>
    /\ queue' = [queue EXCEPT ![h] = Tail(@)]
    /\ UNCHANGED <<wrapper, hstate, worker, clients, controllers, internal>>

\* stopCh is closed: the worker empties the channel before it returns.
ReturnsAtOnce(h) == hstate[h] = "stopping"
Emptied(h) == hstate[h] = "stopping" /\ queue[h] = <<>>

WorkerExits(h) ==
    /\ worker[h] = "running" /\ Emptied(h)
    /\ worker' = [worker EXCEPT ![h] = "exited"]
    /\ UNCHANGED <<wrapper, hstate, queue, clients, controllers, internal>>

\* run() of an upstream looks its server's name up.  The group does not wait for
\* run() to see that it is to exit, and the lookup's one second timeout abandons
\* the query without ending it.
InternalBegins(i, h) ==
    /\ internal[i] = NoHandler /\ hstate[h] \in {"started", "stopping", "stopped"}
    /\ worker[h] # "off"
    /\ internal' = [internal EXCEPT ![i] = h]
    /\ UNCHANGED <<wrapper, groups, clients, controllers>>

InternalEnds(i) ==
    /\ internal[i] # NoHandler
    /\ internal' = [internal EXCEPT ![i] = NoHandler]
    /\ \/ queue' = queue
       \/ queue' = [queue EXCEPT ![internal[i]] = Posted(@, "internal")]
    /\ UNCHANGED <<wrapper, hstate, worker, clients, controllers>>

(***************************************************************************)

ClientStep(c) == BeginQuery(c) \/ Refuse(c) \/ Answer(c) \/ EndQuery(c)

ControllerStep(p) ==
    \/ LockForReload(p) \/ Discard(p) \/ StartHandler(p)
    \/ LockForStop(p)
    \/ LockDrain(p) \/ Swap(p) \/ CloseStopCh(p) \/ Stopped(p)

GroupStep(h) == WorkerTakes(h) \/ WorkerExits(h)

Next ==
    \/ \E c \in Clients : Ask(c) \/ ClientStep(c)
    \/ \E p \in Controllers : NewHandle(p) \/ CallStop(p) \/ ControllerStep(p)
    \/ \E h \in Handlers : GroupStep(h) \/ \E i \in Internals : InternalBegins(i, h)
    \/ \E i \in Internals : InternalEnds(i)

(***************************************************************************)
(* Fairness.  A query ends (its context times out), goroutines are         *)
(* scheduled, and a Go mutex hands itself over to a waiter that has been   *)
(* starved: strong fairness where a lock is awaited.  No fairness on Ask,  *)
(* NewHandle, CallStop and the internal queries, which nobody waits for.   *)
(***************************************************************************)
Fairness ==
    /\ \A c \in Clients : SF_vars(BeginQuery(c) \/ Refuse(c)) /\ WF_vars(ClientStep(c))
    /\ \A p \in Controllers :
         /\ SF_vars(LockForReload(p) \/ LockForStop(p))
         /\ WF_vars(ControllerStep(p))
    /\ \A h \in Handlers :
         /\ SF_vars(WorkerExits(h))
         /\ WF_vars(GroupStep(h))

SafetySpec == Init /\ [][Next]_vars

Spec == SafetySpec /\ Fairness

(***************************************************************************)
(* Properties.                                                             *)
(***************************************************************************)
Tasks == {"client", "internal"}

\* The type of every variable; ipSetCh keeps to its capacity.
TypeOK ==
    /\ ptr \in Handlers \cup {NoHandler}
    /\ stopped \in BOOLEAN
    /\ lifecycle \in Controllers \cup {Nobody}
    /\ drain \in Controllers \cup {Nobody}
    /\ hstate \in [Handlers -> {"unborn", "lost", "built", "started", "stopping", "stopped"}]
    /\ worker \in [Handlers -> {"off", "running", "exited"}]
    /\ queue \in [Handlers -> Seq(Tasks)]
    /\ \A h \in Handlers : Len(queue[h]) <= QueueCap
    /\ cpc \in [Clients -> {"idle", "asking", "serving", "answered"}]
    /\ using \in [Clients -> Handlers \cup {NoHandler}]
    /\ kpc \in [Controllers -> {"idle", "reload", "discard", "start", "stop",
                                "lockDrain", "swap", "retire", "await"}]
    /\ mine \in [Controllers -> Handlers \cup {NoHandler}]
    /\ old \in [Controllers -> Handlers \cup {NoHandler}]
    /\ internal \in [Internals -> Handlers \cup {NoHandler}]

\* No client's query runs on a handler that is being stopped or is stopped, so
\* none uses a closed cache or posts to a worker that has gone, however many
\* reloads and stops overtake it.
NoQueryOnRetired ==
    \A c \in Clients : using[c] # NoHandler => hstate[using[c]] = "started"

\* A handler whose newHandle succeeded and that holds resources is in service, or
\* is in the hands of the one controller that will stop or start it: no reload
\* whose configuration could be built, also one that loses the race with Stop,
\* leaks a cache, a worker or an upstream.  The property is not about a newHandle
\* that fails after it made the cache: that cache is leaked ("lost").
NothingLeaks ==
    \A h \in Handlers :
      hstate[h] \in {"built", "started", "stopping"} =>
        \/ h = ptr
        \/ \E p \in Controllers : h \in {mine[p], old[p]}

\* Once Stop has withdrawn the handler, none enters service again.
StoppedForGood == [][stopped /\ ptr = NoHandler => ptr' = NoHandler]_vars

\* When a handler is stopped, every task its clients have posted was handled.
ClientTasksDrained ==
    \A h \in Handlers :
      hstate[h] = "stopped" => \A k \in 1..Len(queue[h]) : queue[h][k] # "client"

\* ReloadConfig and Stop return: the drain is not starved by new queries, and
\* neither a refused reload nor a stopping group keeps a lock.
ControllersReturn == \A p \in Controllers : kpc[p] # "idle" ~> kpc[p] = "idle"

\* Every query is answered, also one that arrives in the middle of a reload.
QueriesAnswered == \A c \in Clients : cpc[c] = "asking" ~> cpc[c] = "idle"

\* The handler keeps the promise of HandlerService.
Service == INSTANCE HandlerService WITH
    current <- ptr,
    serving <- using,
    retired <- {h \in Handlers : hstate[h] \in {"stopping", "stopped"}},
    closed  <- stopped /\ ptr = NoHandler

ImplementsService == Service!Spec
==============================================================================
