----------------------- MODULE HandlerLifecycle_proofs -----------------------
(***************************************************************************)
(* Proofs about HandlerLifecycle, for any number of clients, controllers   *)
(* and reloads: the type invariant, that no query runs on a handler that   *)
(* is being stopped, that nothing leaks, that Stop is final, and that the  *)
(* lock protocol implements HandlerService.                                *)
(***************************************************************************)
EXTENDS HandlerLifecycle, TLAPS

(***************************************************************************)
(* The type invariant.                                                     *)
(***************************************************************************)

LEMMA InitTypeOK == Init => TypeOK
<1> SUFFICES ASSUME Init PROVE TypeOK
  OBVIOUS
<1>1. ptr \in Handlers
  BY HandlersAssumption DEF Init
<1>2. queue \in [Handlers -> Seq(Tasks)] /\ \A h \in Handlers : Len(queue[h]) <= QueueCap
  BY QueueCapAssumption DEF Init
<1> QED
  BY <1>1, <1>2 DEF Init, TypeOK

\* PostProcess keeps the channel within its capacity.
LEMMA PostedType ==
  ASSUME NEW q \in Seq(Tasks), Len(q) <= QueueCap, NEW task \in Tasks
  PROVE  Posted(q, task) \in Seq(Tasks) /\ Len(Posted(q, task)) <= QueueCap
  BY QueueCapAssumption DEF Posted, HasRoom

LEMMA PostingKeepsType ==
  ASSUME TypeOK, NEW h \in Handlers \cup {NoHandler}, NEW task \in Tasks,
         queue' = queue \/ queue' = [queue EXCEPT ![h] = Posted(@, task)]
  PROVE  /\ queue' \in [Handlers -> Seq(Tasks)]
         /\ \A g \in Handlers : Len(queue'[g]) <= QueueCap
<1>1. CASE queue' = queue
  BY <1>1 DEF TypeOK
<1>2. CASE queue' = [queue EXCEPT ![h] = Posted(@, task)]
  <2>1. \A g \in Handlers : /\ Posted(queue[g], task) \in Seq(Tasks)
                            /\ Len(Posted(queue[g], task)) <= QueueCap
    BY PostedType DEF TypeOK
  <2> QED
    BY <1>2, <2>1 DEF TypeOK
<1> QED
  BY <1>1, <1>2

LEMMA NextTypeOK == TypeOK /\ [Next]_vars => TypeOK'
<1> SUFFICES ASSUME TypeOK, [Next]_vars PROVE TypeOK'
  OBVIOUS
<1> USE DEF TypeOK, wrapper, groups, clients, controllers
<1>1. ASSUME NEW c \in Clients, Ask(c) PROVE TypeOK'
  BY <1>1 DEF Ask
<1>2. ASSUME NEW c \in Clients, BeginQuery(c) PROVE TypeOK'
  BY <1>2 DEF BeginQuery
<1>3. ASSUME NEW c \in Clients, Refuse(c) PROVE TypeOK'
  BY <1>3 DEF Refuse
<1>4. ASSUME NEW c \in Clients, Answer(c) PROVE TypeOK'
  <2>1. queue' \in [Handlers -> Seq(Tasks)] /\ \A h \in Handlers : Len(queue'[h]) <= QueueCap
    BY <1>4, PostingKeepsType DEF Answer, Tasks
  <2> QED BY <1>4, <2>1 DEF Answer
<1>5. ASSUME NEW c \in Clients, EndQuery(c) PROVE TypeOK'
  BY <1>5 DEF EndQuery
<1>6. ASSUME NEW p \in Controllers, NewHandle(p) PROVE TypeOK'
  BY <1>6 DEF NewHandle, Unborn
<1>7. ASSUME NEW p \in Controllers, LockForReload(p) PROVE TypeOK'
  BY <1>7 DEF LockForReload, AfterRefusal
<1>8. ASSUME NEW p \in Controllers, Discard(p) PROVE TypeOK'
  BY <1>8 DEF Discard, Discarded
<1>9. ASSUME NEW p \in Controllers, StartHandler(p) PROVE TypeOK'
  BY <1>9 DEF StartHandler
<1>10. ASSUME NEW p \in Controllers, CallStop(p) PROVE TypeOK'
  BY <1>10 DEF CallStop
<1>11. ASSUME NEW p \in Controllers, LockForStop(p) PROVE TypeOK'
  BY <1>11 DEF LockForStop
<1>12. ASSUME NEW p \in Controllers, LockDrain(p) PROVE TypeOK'
  BY <1>12 DEF LockDrain
<1>13. ASSUME NEW p \in Controllers, Swap(p) PROVE TypeOK'
  BY <1>13 DEF Swap, DrainUnlocked
<1>14. ASSUME NEW p \in Controllers, CloseStopCh(p) PROVE TypeOK'
  BY <1>14 DEF CloseStopCh
<1>15. ASSUME NEW p \in Controllers, Stopped(p) PROVE TypeOK'
  BY <1>15 DEF Stopped
<1>16. ASSUME NEW h \in Handlers, WorkerTakes(h) PROVE TypeOK'
  <2>1. Tail(queue[h]) \in Seq(Tasks) /\ Len(Tail(queue[h])) <= QueueCap
    BY <1>16, QueueCapAssumption DEF WorkerTakes
  <2> QED BY <1>16, <2>1 DEF WorkerTakes
<1>17. ASSUME NEW h \in Handlers, WorkerExits(h) PROVE TypeOK'
  BY <1>17 DEF WorkerExits
<1>18. ASSUME NEW i \in Internals, NEW h \in Handlers, InternalBegins(i, h) PROVE TypeOK'
  BY <1>18 DEF InternalBegins
<1>19. ASSUME NEW i \in Internals, InternalEnds(i) PROVE TypeOK'
  <2>1. queue' \in [Handlers -> Seq(Tasks)] /\ \A h \in Handlers : Len(queue'[h]) <= QueueCap
    BY <1>19, PostingKeepsType DEF InternalEnds, Tasks
  <2> QED BY <1>19, <2>1 DEF InternalEnds
<1>20. CASE UNCHANGED vars
  BY <1>20 DEF vars
<1> QED
  BY <1>1, <1>2, <1>3, <1>4, <1>5, <1>6, <1>7, <1>8, <1>9, <1>10, <1>11, <1>12, <1>13,
     <1>14, <1>15, <1>16, <1>17, <1>18, <1>19, <1>20
     DEF Next, ClientStep, ControllerStep, GroupStep

\* Every variable keeps its type and ipSetCh its capacity.
THEOREM TypeCorrect == Spec => []TypeOK
  BY InitTypeOK, NextTypeOK, PTL DEF Spec, SafetySpec

(***************************************************************************)
(* The inductive invariant.                                                *)
(***************************************************************************)

Publishing == {"start", "lockDrain", "swap"}

\* What a client uses is in service, and the client holds the lock to keep it so.
ReadersUseCurrent ==
    \A c \in Clients : using[c] # NoHandler => using[c] = ptr /\ c \in Readers

CurrentIsStarted == ptr # NoHandler => hstate[ptr] = "started"

\* Only a Stop that has gone through has left the service empty.
CurrentUntilStop ==
    ptr = NoHandler => stopped /\ \A p \in Controllers : kpc[p] \notin Publishing

\* A controller between the test of stopped and the swap owns lifecycleMu; after
\* Stop's test no reload is among them, and a nil to swap in is Stop's.
LockHeld ==
    \A p \in Controllers :
      /\ kpc[p] \in Publishing => lifecycle = p
      /\ kpc[p] = "start" => ~stopped
      /\ kpc[p] \in {"lockDrain", "swap"} => (mine[p] = NoHandler <=> stopped)

\* The handler a reload has in hand, from newHandle to Swap or Discard.
NewHandlers ==
    \A p \in Controllers :
      /\ kpc[p] \in {"reload", "discard", "start"} =>
           mine[p] # NoHandler /\ hstate[mine[p]] = "built"
      /\ kpc[p] \in {"lockDrain", "swap"} /\ mine[p] # NoHandler =>
           hstate[mine[p]] = "started" /\ mine[p] # ptr
      /\ kpc[p] \in {"idle", "stop", "retire", "await"} => mine[p] = NoHandler

\* The handler it has taken out of service, from Swap to the end of stop().
OldHandlers ==
    \A p \in Controllers :
      /\ kpc[p] = "retire" => old[p] # NoHandler /\ old[p] # ptr /\ hstate[old[p]] = "started"
      /\ kpc[p] = "await" => old[p] # NoHandler /\ hstate[old[p]] = "stopping"
      /\ kpc[p] \notin {"retire", "await"} => old[p] = NoHandler

\* No two controllers have the same handler in hand.
HandsApart ==
    \A p, q \in Controllers :
      /\ p # q /\ mine[p] # NoHandler => mine[p] # mine[q]
      /\ p # q /\ old[p] # NoHandler => old[p] # old[q]
      /\ mine[p] # NoHandler => mine[p] # old[q]

IInv ==
    /\ TypeOK
    /\ ReadersUseCurrent
    /\ CurrentIsStarted
    /\ CurrentUntilStop
    /\ LockHeld
    /\ NewHandlers
    /\ OldHandlers
    /\ HandsApart
    /\ NothingLeaks

LEMMA InitIInv == Init => IInv
<1> SUFFICES ASSUME Init PROVE IInv
  OBVIOUS
<1>1. ptr \in Handlers /\ ptr # NoHandler
  BY HandlersAssumption, NoHandlerAssumption DEF Init
<1> QED
  BY <1>1, InitTypeOK
     DEF Init, IInv, ReadersUseCurrent, CurrentIsStarted, CurrentUntilStop, LockHeld, NewHandlers,
         OldHandlers, HandsApart, NothingLeaks, Publishing

\* Steps that touch neither the wrapper, nor a handler's state, nor a controller.
LEMMA QuietStep ==
  ASSUME IInv, TypeOK', ReadersUseCurrent',
         UNCHANGED <<ptr, stopped, lifecycle, hstate, kpc, mine, old>>
  PROVE  IInv'
  BY DEF IInv, CurrentIsStarted, CurrentUntilStop, LockHeld, NewHandlers, OldHandlers, HandsApart,
         NothingLeaks, Publishing

LEMMA NextIInv == IInv /\ [Next]_vars => IInv'
<1> SUFFICES ASSUME IInv, [Next]_vars PROVE IInv'
  OBVIOUS
<1>t. TypeOK /\ TypeOK'
  BY NextTypeOK DEF IInv
<1> USE <1>t, NoHandlerAssumption, NobodyAssumption
<1> USE DEF wrapper, groups, clients, controllers
<1>1. ASSUME NEW c \in Clients, Ask(c) \/ BeginQuery(c) \/ Refuse(c) \/ Answer(c) \/ EndQuery(c)
      PROVE  IInv'
  <2>1. UNCHANGED <<ptr, stopped, lifecycle, hstate, kpc, mine, old>>
    BY <1>1 DEF Ask, BeginQuery, Refuse, Answer, EndQuery
  <2>2. ASSUME NEW d \in Clients, d # c PROVE cpc'[d] = cpc[d] /\ using'[d] = using[d]
    BY <1>1, <2>2 DEF TypeOK, Ask, BeginQuery, Refuse, Answer, EndQuery
  <2>3. using'[c] # NoHandler => using'[c] = ptr /\ cpc'[c] \in {"serving", "answered"}
    BY <1>1 DEF TypeOK, IInv, ReadersUseCurrent, Readers, Ask, BeginQuery, Refuse, Answer, EndQuery
  <2>4. ReadersUseCurrent'
    BY <2>1, <2>2, <2>3 DEF IInv, ReadersUseCurrent, Readers
  <2> QED
    BY <2>1, <2>4, QuietStep
<1>2. ASSUME NEW h \in Handlers,
             WorkerTakes(h) \/ WorkerExits(h) \/ \E i \in Internals : InternalBegins(i, h)
      PROVE  IInv'
  BY <1>2, QuietStep DEF IInv, ReadersUseCurrent, Readers, WorkerTakes, WorkerExits, InternalBegins
<1>3. ASSUME NEW i \in Internals, InternalEnds(i) PROVE IInv'
  BY <1>3, QuietStep DEF IInv, ReadersUseCurrent, Readers, InternalEnds
<1>4. CASE UNCHANGED vars
  BY <1>4, QuietStep DEF vars, IInv, ReadersUseCurrent, Readers
<1>5. ASSUME UNCHANGED <<ptr, cpc, using>> PROVE ReadersUseCurrent'
  BY <1>5 DEF IInv, ReadersUseCurrent, Readers
<1> USE DEF Publishing
<1>6. ASSUME NEW p \in Controllers, NewHandle(p) PROVE IInv'
  <2>1. ReadersUseCurrent'
    BY <1>6, <1>5 DEF NewHandle
  <2>h. PICK h \in Unborn :
          \/ /\ hstate' = [hstate EXCEPT ![h] = "built"]
             /\ mine' = [mine EXCEPT ![p] = h]
             /\ kpc' = [kpc EXCEPT ![p] = "reload"]
          \/ /\ hstate' = [hstate EXCEPT ![h] = "lost"]
             /\ UNCHANGED <<mine, kpc>>
    BY <1>6 DEF NewHandle
  <2>2. CurrentIsStarted'
    BY <1>6 DEF TypeOK, IInv, CurrentIsStarted, NewHandlers, OldHandlers, HandsApart,
       NewHandle, Unborn
  <2>3. CurrentUntilStop'
    BY <1>6 DEF TypeOK, IInv, CurrentUntilStop, LockHeld, NewHandle, Unborn
  <2>4. LockHeld'
    BY <1>6 DEF TypeOK, IInv, LockHeld, NewHandlers, CurrentUntilStop, NewHandle, Unborn
  <2>5. NewHandlers'
    <3>1. kpc[p] = "idle" /\ mine[p] = NoHandler
      BY <1>6 DEF NewHandle, IInv, NewHandlers
    <3>2. \A q \in Controllers : mine[q] # NoHandler => mine[q] # h
      BY <2>h DEF IInv, NewHandlers, TypeOK, Unborn
    <3>3. \A g \in Handlers \ {h} : hstate'[g] = hstate[g]
      BY <2>h DEF TypeOK, Unborn
    <3>4. CASE hstate' = [hstate EXCEPT ![h] = "lost"] /\ UNCHANGED <<mine, kpc>>
      BY <1>6, <3>2, <3>3, <3>4 DEF NewHandle, IInv, TypeOK, NewHandlers
    <3>5. CASE /\ hstate' = [hstate EXCEPT ![h] = "built"]
               /\ mine' = [mine EXCEPT ![p] = h]
               /\ kpc' = [kpc EXCEPT ![p] = "reload"]
      BY <1>6, <2>h, <3>1, <3>2, <3>3, <3>5 DEF NewHandle, IInv, TypeOK, NewHandlers, Unborn
    <3> QED
      BY <2>h, <3>4, <3>5
  <2>6. OldHandlers'
    BY <1>6 DEF TypeOK, IInv, OldHandlers, NewHandlers, CurrentIsStarted, HandsApart,
       NewHandle, Unborn
  <2>7. HandsApart'
    BY <1>6 DEF TypeOK, IInv, HandsApart, NewHandlers, OldHandlers, CurrentIsStarted,
       NothingLeaks, NewHandle, Unborn
  <2>8. NothingLeaks'
    <3>1. kpc[p] = "idle" /\ mine[p] = NoHandler /\ UNCHANGED <<ptr, old>>
      BY <1>6 DEF NewHandle, IInv, NewHandlers
    <3>2. \A g \in Handlers \ {h} : hstate'[g] = hstate[g]
      BY <2>h DEF TypeOK, Unborn
    <3>3. CASE hstate' = [hstate EXCEPT ![h] = "lost"] /\ UNCHANGED <<mine, kpc>>
      BY <2>h, <3>1, <3>2, <3>3 DEF IInv, TypeOK, NothingLeaks, Unborn
    <3>4. CASE /\ hstate' = [hstate EXCEPT ![h] = "built"]
               /\ mine' = [mine EXCEPT ![p] = h]
      <4>1. mine'[p] = h /\ \A q \in Controllers \ {p} : mine'[q] = mine[q]
        BY <3>4 DEF IInv, TypeOK
      <4> QED
        BY <3>1, <3>2, <4>1 DEF IInv, TypeOK, NothingLeaks
    <3> QED
      BY <2>h, <3>3, <3>4
  <2> QED
    BY <2>1, <2>2, <2>3, <2>4, <2>5, <2>6, <2>7, <2>8 DEF IInv
<1>7. ASSUME NEW p \in Controllers, LockForReload(p) PROVE IInv'
  <2>1. ReadersUseCurrent'
    BY <1>7, <1>5 DEF LockForReload
  <2>2. CurrentIsStarted'
    BY <1>7 DEF TypeOK, IInv, CurrentIsStarted, NewHandlers, OldHandlers, HandsApart,
       LockForReload, AfterRefusal, RefusedByStop
  <2>3. CurrentUntilStop'
    BY <1>7 DEF TypeOK, IInv, CurrentUntilStop, LockHeld, LockForReload, AfterRefusal,
       RefusedByStop
  <2>4. LockHeld'
    BY <1>7 DEF TypeOK, IInv, LockHeld, NewHandlers, CurrentUntilStop, LockForReload,
       AfterRefusal, RefusedByStop
  <2>5. NewHandlers'
    BY <1>7 DEF TypeOK, IInv, NewHandlers, CurrentIsStarted, OldHandlers, HandsApart,
       LockHeld, LockForReload, AfterRefusal, RefusedByStop
  <2>6. OldHandlers'
    BY <1>7 DEF TypeOK, IInv, OldHandlers, NewHandlers, CurrentIsStarted, HandsApart,
       LockForReload, AfterRefusal, RefusedByStop
  <2>7. HandsApart'
    BY <1>7 DEF TypeOK, IInv, HandsApart, NewHandlers, OldHandlers, CurrentIsStarted,
       NothingLeaks, LockForReload, AfterRefusal, RefusedByStop
  <2>8. NothingLeaks'
    BY <1>7 DEF TypeOK, IInv, NothingLeaks, NewHandlers, OldHandlers, LockForReload,
       AfterRefusal, RefusedByStop
  <2> QED
    BY <2>1, <2>2, <2>3, <2>4, <2>5, <2>6, <2>7, <2>8 DEF IInv
<1>8. ASSUME NEW p \in Controllers, Discard(p) PROVE IInv'
  <2>1. ReadersUseCurrent'
    BY <1>8, <1>5 DEF Discard
  <2>2. CurrentIsStarted' /\ CurrentUntilStop' /\ LockHeld'
    BY <1>8 DEF TypeOK, IInv, CurrentIsStarted, CurrentUntilStop, LockHeld, NewHandlers,
       OldHandlers, HandsApart, Discard, Discarded
  <2>3. NewHandlers' /\ OldHandlers' /\ HandsApart' /\ NothingLeaks'
    BY <1>8 DEF TypeOK, IInv, CurrentIsStarted, CurrentUntilStop, LockHeld, NewHandlers,
       OldHandlers, HandsApart, NothingLeaks, Discard, Discarded
  <2> QED
    BY <2>1, <2>2, <2>3 DEF IInv
<1>9. ASSUME NEW p \in Controllers, StartHandler(p) PROVE IInv'
  <2>1. ReadersUseCurrent'
    BY <1>9, <1>5 DEF StartHandler
  <2>2. CurrentIsStarted' /\ CurrentUntilStop' /\ LockHeld'
    BY <1>9 DEF TypeOK, IInv, CurrentIsStarted, CurrentUntilStop, LockHeld, NewHandlers,
       OldHandlers, HandsApart, StartHandler
  <2>3. NewHandlers' /\ OldHandlers' /\ HandsApart' /\ NothingLeaks'
    BY <1>9 DEF TypeOK, IInv, CurrentIsStarted, CurrentUntilStop, LockHeld, NewHandlers,
       OldHandlers, HandsApart, NothingLeaks, StartHandler
  <2> QED
    BY <2>1, <2>2, <2>3 DEF IInv
<1>10. ASSUME NEW p \in Controllers, CallStop(p) PROVE IInv'
  <2>1. ReadersUseCurrent'
    BY <1>10, <1>5 DEF CallStop
  <2>2. CurrentIsStarted' /\ CurrentUntilStop' /\ LockHeld'
    BY <1>10 DEF TypeOK, IInv, CurrentIsStarted, CurrentUntilStop, LockHeld, NewHandlers,
       OldHandlers, HandsApart, CallStop
  <2>3. NewHandlers' /\ OldHandlers' /\ HandsApart' /\ NothingLeaks'
    BY <1>10 DEF TypeOK, IInv, CurrentIsStarted, CurrentUntilStop, LockHeld, NewHandlers,
       OldHandlers, HandsApart, NothingLeaks, CallStop
  <2> QED
    BY <2>1, <2>2, <2>3 DEF IInv
<1>11. ASSUME NEW p \in Controllers, LockForStop(p) PROVE IInv'
  <2>1. ReadersUseCurrent'
    BY <1>11, <1>5 DEF LockForStop
  <2>2. CurrentIsStarted' /\ CurrentUntilStop' /\ LockHeld'
    BY <1>11 DEF TypeOK, IInv, CurrentIsStarted, CurrentUntilStop, LockHeld, NewHandlers,
       OldHandlers, HandsApart, LockForStop
  <2>3. NewHandlers' /\ OldHandlers' /\ HandsApart' /\ NothingLeaks'
    BY <1>11 DEF TypeOK, IInv, CurrentIsStarted, CurrentUntilStop, LockHeld, NewHandlers,
       OldHandlers, HandsApart, NothingLeaks, LockForStop
  <2> QED
    BY <2>1, <2>2, <2>3 DEF IInv
<1>12. ASSUME NEW p \in Controllers, LockDrain(p) PROVE IInv'
  <2>1. ReadersUseCurrent'
    BY <1>12, <1>5 DEF LockDrain
  <2>2. CurrentIsStarted' /\ CurrentUntilStop' /\ LockHeld'
    BY <1>12 DEF TypeOK, IInv, CurrentIsStarted, CurrentUntilStop, LockHeld, NewHandlers,
       OldHandlers, HandsApart, LockDrain
  <2>3. NewHandlers' /\ OldHandlers' /\ HandsApart' /\ NothingLeaks'
    BY <1>12 DEF TypeOK, IInv, CurrentIsStarted, CurrentUntilStop, LockHeld, NewHandlers,
       OldHandlers, HandsApart, NothingLeaks, LockDrain
  <2> QED
    BY <2>1, <2>2, <2>3 DEF IInv
<1>13. ASSUME NEW p \in Controllers, Swap(p) PROVE IInv'
  <2>1. ReadersUseCurrent'
    BY <1>13 DEF TypeOK, IInv, ReadersUseCurrent, Swap
  <2>2. CurrentIsStarted'
    BY <1>13 DEF TypeOK, IInv, CurrentIsStarted, NewHandlers, OldHandlers, HandsApart, Swap
  <2>3. CurrentUntilStop'
    BY <1>13 DEF TypeOK, IInv, CurrentUntilStop, LockHeld, Swap
  <2>4. LockHeld'
    BY <1>13 DEF TypeOK, IInv, LockHeld, NewHandlers, CurrentUntilStop, Swap
  <2>5. NewHandlers'
    BY <1>13 DEF TypeOK, IInv, NewHandlers, CurrentIsStarted, OldHandlers, HandsApart,
       LockHeld, Swap
  <2>6. OldHandlers'
    BY <1>13 DEF TypeOK, IInv, OldHandlers, NewHandlers, CurrentIsStarted, HandsApart, Swap
  <2>7. HandsApart'
    BY <1>13 DEF TypeOK, IInv, HandsApart, NewHandlers, OldHandlers, CurrentIsStarted,
       NothingLeaks, Swap
  <2>8. NothingLeaks'
    BY <1>13 DEF TypeOK, IInv, NothingLeaks, NewHandlers, OldHandlers, Swap
  <2> QED
    BY <2>1, <2>2, <2>3, <2>4, <2>5, <2>6, <2>7, <2>8 DEF IInv
<1>14. ASSUME NEW p \in Controllers, CloseStopCh(p) PROVE IInv'
  <2>1. ReadersUseCurrent'
    BY <1>14, <1>5 DEF CloseStopCh
  <2>2. CurrentIsStarted' /\ CurrentUntilStop' /\ LockHeld'
    BY <1>14 DEF TypeOK, IInv, CurrentIsStarted, CurrentUntilStop, LockHeld, NewHandlers,
       OldHandlers, HandsApart, CloseStopCh
  <2>3. NewHandlers' /\ OldHandlers' /\ HandsApart' /\ NothingLeaks'
    BY <1>14 DEF TypeOK, IInv, CurrentIsStarted, CurrentUntilStop, LockHeld, NewHandlers,
       OldHandlers, HandsApart, NothingLeaks, CloseStopCh
  <2> QED
    BY <2>1, <2>2, <2>3 DEF IInv
<1>15. ASSUME NEW p \in Controllers, Stopped(p) PROVE IInv'
  <2>1. ReadersUseCurrent'
    BY <1>15, <1>5 DEF Stopped
  <2>2. CurrentIsStarted' /\ CurrentUntilStop' /\ LockHeld'
    BY <1>15 DEF TypeOK, IInv, CurrentIsStarted, CurrentUntilStop, LockHeld, NewHandlers,
       OldHandlers, HandsApart, Stopped
  <2>3. NewHandlers' /\ OldHandlers' /\ HandsApart' /\ NothingLeaks'
    BY <1>15 DEF TypeOK, IInv, CurrentIsStarted, CurrentUntilStop, LockHeld, NewHandlers,
       OldHandlers, HandsApart, NothingLeaks, Stopped
  <2> QED
    BY <2>1, <2>2, <2>3 DEF IInv
<1> QED
  BY <1>1, <1>2, <1>3, <1>4, <1>6, <1>7, <1>8, <1>9, <1>10, <1>11, <1>12, <1>13, <1>14,
     <1>15
     DEF Next, ClientStep, ControllerStep, GroupStep

\* The inductive invariant holds throughout.
THEOREM InvariantCorrect == SafetySpec => []IInv
  BY InitIInv, NextIInv, PTL DEF SafetySpec

(***************************************************************************)
(* What follows from it.                                                   *)
(***************************************************************************)

\* No client's query runs on a handler that is being stopped or is stopped: the
\* reader's lock keeps what it uses in service, and what is in service is started.
THEOREM RetiredUnused == Spec => []NoQueryOnRetired
<1>1. IInv => NoQueryOnRetired
  BY DEF IInv, ReadersUseCurrent, CurrentIsStarted, NoQueryOnRetired
<1> QED
  BY <1>1, InvariantCorrect, PTL DEF Spec

\* Every handler that newHandle has returned and that holds resources is in service
\* or in the hands of the controller that will start, stop or discard it.
THEOREM LeakFree == Spec => []NothingLeaks
<1>1. IInv => NothingLeaks
  BY DEF IInv
<1> QED
  BY <1>1, InvariantCorrect, PTL DEF Spec

\* After Stop has withdrawn the handler no reload puts another in service: none
\* is left between the test of stopped and the swap.
THEOREM StopIsFinal == Spec => StoppedForGood
<1>1. IInv /\ [Next]_vars => [stopped /\ ptr = NoHandler => ptr' = NoHandler]_vars
  <2> SUFFICES ASSUME IInv, [Next]_vars, ptr = NoHandler PROVE ptr' = NoHandler
    OBVIOUS
  <2>1. ASSUME NEW p \in Controllers PROVE ~Swap(p)
    BY DEF IInv, CurrentUntilStop, Publishing, Swap
  <2> QED
    BY <2>1 DEF Next, ClientStep, ControllerStep, GroupStep, vars, wrapper, groups, clients,
       controllers, Ask, BeginQuery, Refuse, Answer, EndQuery, NewHandle, LockForReload, Discard,
       StartHandler, CallStop, LockForStop, LockDrain, CloseStopCh, Stopped, WorkerTakes,
       WorkerExits, InternalBegins, InternalEnds
<1> QED
  BY <1>1, InvariantCorrect, PTL DEF Spec, SafetySpec, StoppedForGood

(***************************************************************************)
(* The ipset channel.                                                      *)
(***************************************************************************)

NoClientTask(q) == \A k \in 1..Len(q) : q[k] # "client"

\* A worker returns only after stopCh is closed, and from then on, as before the
\* start, there are no tasks of clients.
DrainInv ==
    \A h \in Handlers :
      /\ worker[h] = "exited" => hstate[h] \in {"stopping", "stopped"}
      /\ worker[h] = "exited" \/ hstate[h] \in {"unborn", "built", "stopped"} =>
           NoClientTask(queue[h])

LEMMA InitDrainInv == Init => DrainInv
<1> SUFFICES ASSUME Init PROVE DrainInv
  OBVIOUS
<1> QED
  BY DEF Init, DrainInv, NoClientTask

\* Neither the worker nor an internal query brings a client's task in.
LEMMA TailNoClient ==
  ASSUME NEW q \in Seq(Tasks), q # <<>>, NoClientTask(q)
  PROVE  NoClientTask(Tail(q))
  BY DEF NoClientTask, Tasks

LEMMA PostedNoClient ==
  ASSUME NEW q \in Seq(Tasks), NoClientTask(q)
  PROVE  NoClientTask(Posted(q, "internal"))
<1>1. CASE HasRoom(q)
  <2>1. Posted(q, "internal") = Append(q, "internal")
    BY <1>1 DEF Posted
  <2>2. \A k \in 1..Len(Append(q, "internal")) :
          Append(q, "internal")[k] = IF k \in 1..Len(q) THEN q[k] ELSE "internal"
    OBVIOUS
  <2> QED
    BY <2>1, <2>2 DEF NoClientTask
<1>2. CASE ~HasRoom(q)
  BY <1>2 DEF Posted
<1> QED
  BY <1>1, <1>2

LEMMA NextDrainInv == IInv /\ DrainInv /\ [Next]_vars => DrainInv'
<1> SUFFICES ASSUME IInv, DrainInv, [Next]_vars PROVE DrainInv'
  OBVIOUS
<1> USE NoHandlerAssumption DEF wrapper, groups, clients, controllers
<1>t. TypeOK
  BY DEF IInv
<1>1. ASSUME UNCHANGED <<hstate, worker, queue>> PROVE DrainInv'
  BY <1>1 DEF DrainInv
<1>2. ASSUME NEW c \in Clients, Ask(c) \/ BeginQuery(c) \/ Refuse(c) \/ EndQuery(c) PROVE DrainInv'
  BY <1>1, <1>2 DEF Ask, BeginQuery, Refuse, EndQuery
<1>3. ASSUME NEW c \in Clients, Answer(c) PROVE DrainInv'
  <2>1. using[c] \in Handlers => hstate[using[c]] = "started"
    BY DEF IInv, ReadersUseCurrent, CurrentIsStarted
  <2>2. \A h \in Handlers : queue'[h] = queue[h] \/ hstate[h] = "started"
    BY <1>t, <1>3, <2>1 DEF TypeOK, Answer
  <2> QED
    BY <1>3, <2>2 DEF Answer, DrainInv
<1>4. ASSUME NEW p \in Controllers,
             NewHandle(p) \/ Discard(p) \/ StartHandler(p) \/ CloseStopCh(p) \/ Stopped(p)
      PROVE  DrainInv'
  BY <1>t, <1>4 DEF TypeOK, IInv, NewHandlers, OldHandlers, DrainInv, NewHandle, Unborn, Discard,
     Discarded, StartHandler, CloseStopCh, Stopped
<1>5. ASSUME NEW p \in Controllers,
             LockForReload(p) \/ CallStop(p) \/ LockForStop(p) \/ LockDrain(p) \/ Swap(p)
      PROVE  DrainInv'
  BY <1>1, <1>5 DEF LockForReload, CallStop, LockForStop, LockDrain, Swap
<1>6. ASSUME NEW h \in Handlers, WorkerTakes(h) PROVE DrainInv'
  <2>1. NoClientTask(queue[h]) => NoClientTask(Tail(queue[h]))
    BY <1>t, <1>6, TailNoClient DEF TypeOK, WorkerTakes
  <2> QED
    BY <1>t, <1>6, <2>1 DEF TypeOK, WorkerTakes, DrainInv
<1>7. ASSUME NEW h \in Handlers, WorkerExits(h) PROVE DrainInv'
  <2>1. NoClientTask(queue[h])
    BY <1>7 DEF WorkerExits, Emptied, NoClientTask
  <2> QED
    BY <1>t, <1>7, <2>1 DEF TypeOK, WorkerExits, Emptied, DrainInv
<1>8. ASSUME NEW i \in Internals, NEW h \in Handlers, InternalBegins(i, h) PROVE DrainInv'
  BY <1>1, <1>8 DEF InternalBegins
<1>9. ASSUME NEW i \in Internals, InternalEnds(i) PROVE DrainInv'
  <2>1. \A h \in Handlers : NoClientTask(queue[h]) => NoClientTask(Posted(queue[h], "internal"))
    BY <1>t, PostedNoClient DEF TypeOK
  <2>2. ASSUME NEW h \in Handlers
        PROVE  queue'[h] \in {queue[h], Posted(queue[h], "internal")}
    BY <1>t, <1>9, <2>2 DEF TypeOK, InternalEnds
  <2>3. \A h \in Handlers : NoClientTask(queue[h]) => NoClientTask(queue'[h])
    BY <2>1, <2>2
  <2> QED
    BY <1>9, <2>3 DEF InternalEnds, DrainInv
<1>10. CASE UNCHANGED vars
  BY <1>1, <1>10 DEF vars
<1> QED
  BY <1>2, <1>3, <1>4, <1>5, <1>6, <1>7, <1>8, <1>9, <1>10
     DEF Next, ClientStep, ControllerStep, GroupStep

\* When a handler is stopped, every task its clients have posted was handled:
\* none uses it any more when stopCh is closed, and the worker empties the channel.
THEOREM TasksDrained == Spec => []ClientTasksDrained
<1>1. DrainInv => ClientTasksDrained
  BY DEF DrainInv, NoClientTask, ClientTasksDrained
<1> QED
  BY <1>1, InitDrainInv, NextDrainInv, InvariantCorrect, PTL DEF Spec, SafetySpec

(***************************************************************************)
(* The lock protocol implements HandlerService.                            *)
(***************************************************************************)

LEMMA InitRefines == Init => Service!Init
<1> SUFFICES ASSUME Init PROVE Service!Init
  OBVIOUS
<1>1. ptr \in Handlers /\ ptr # NoHandler
  BY HandlersAssumption, NoHandlerAssumption DEF Init
<1> QED
  BY <1>1 DEF Init, Service!Init

\* A step that leaves the handler in service, the queries and the handlers'
\* states alone, and does not withdraw the service, is invisible.
LEMMA Invisible ==
  ASSUME UNCHANGED <<ptr, using, hstate>>, stopped' = stopped \/ ptr # NoHandler
  PROVE  UNCHANGED Service!vars
  BY DEF Service!vars

LEMMA SwapRefines ==
  ASSUME IInv, NEW p \in Controllers, Swap(p)
  PROVE  Service!Next
<1> USE NoHandlerAssumption
<1>1. kpc[p] = "swap" /\ ptr # NoHandler
  BY DEF Swap, IInv, CurrentUntilStop, Publishing
<1>2. ptr' = mine[p] /\ UNCHANGED <<using, hstate, stopped>>
  BY DEF Swap, groups, clients
<1>3. CASE mine[p] = NoHandler
  <2>1. stopped
    BY <1>1, <1>3 DEF IInv, LockHeld
  <2>2. Service!Close
    BY <1>1, <1>2, <1>3, <2>1 DEF Service!Close
  <2> QED
    BY <2>2 DEF Service!Next
<1>4. CASE mine[p] # NoHandler
  <2>1. mine[p] \in Handlers /\ hstate[mine[p]] = "started" /\ ~stopped
    BY <1>1, <1>4 DEF IInv, TypeOK, LockHeld, NewHandlers
  <2>2. Service!Switch(mine[p])
    BY <1>1, <1>2, <1>4, <2>1 DEF Service!Switch
  <2> QED
    BY <2>1, <2>2 DEF Service!Next
<1> QED
  BY <1>3, <1>4

\* Telling a handler to stop is allowed: it is out of service and unused.
LEMMA RetireRefines ==
  ASSUME IInv, NEW h \in Handlers, h # ptr,
         NEW to \in {"stopping", "stopped"},
         hstate' = [hstate EXCEPT ![h] = to], UNCHANGED <<ptr, using, stopped>>
  PROVE  Service!Next
<1>1. \A c \in Clients : using[c] # h
  BY NoHandlerAssumption DEF IInv, ReadersUseCurrent
<1>2. {g \in Handlers : hstate'[g] \in {"stopping", "stopped"}}
        = {g \in Handlers : hstate[g] \in {"stopping", "stopped"}} \cup {h}
  BY DEF IInv, TypeOK
<1>3. Service!Retire(h)
  BY <1>1, <1>2 DEF Service!Retire
<1> QED
  BY <1>3 DEF Service!Next

LEMMA NextRefines == IInv /\ [Next]_vars => [Service!Next]_(Service!vars)
<1> SUFFICES ASSUME IInv, [Next]_vars PROVE Service!Next \/ UNCHANGED Service!vars
  OBVIOUS
<1> USE NoHandlerAssumption DEF wrapper, groups, clients, controllers
<1>1. ASSUME NEW c \in Clients, BeginQuery(c) PROVE Service!Next
  <2>1. using[c] = NoHandler
    BY <1>1 DEF BeginQuery, IInv, ReadersUseCurrent, Readers
  <2>2. Service!Begin(c)
    BY <1>1, <2>1 DEF BeginQuery, Service!Begin
  <2> QED
    BY <2>2 DEF Service!Next
<1>2. ASSUME NEW c \in Clients, EndQuery(c) PROVE Service!Next
  <2>1. Service!End(c)
    BY <1>2 DEF EndQuery, Service!End
  <2> QED
    BY <2>1 DEF Service!Next
<1>3. ASSUME NEW p \in Controllers, CloseStopCh(p) PROVE Service!Next
  <2>1. old[p] \in Handlers /\ old[p] # ptr
    BY <1>3 DEF CloseStopCh, IInv, TypeOK, OldHandlers
  <2> QED
    BY <1>3, <2>1, RetireRefines DEF CloseStopCh
<1>4. ASSUME NEW p \in Controllers, Discard(p) PROVE Service!Next
  <2>1. mine[p] \in Handlers /\ hstate[mine[p]] = "built"
    BY <1>4 DEF Discard, IInv, TypeOK, NewHandlers
  <2>2. mine[p] # ptr
    BY <2>1 DEF IInv, CurrentIsStarted
  <2> QED
    BY <1>4, <2>1, <2>2, RetireRefines DEF Discard, Discarded
<1>5. ASSUME NEW p \in Controllers, Stopped(p) PROVE UNCHANGED Service!vars
  <2>1. old[p] \in Handlers /\ hstate[old[p]] = "stopping"
    BY <1>5 DEF Stopped, IInv, TypeOK, OldHandlers
  <2>2. \A g \in Handlers : hstate'[g] = IF g = old[p] THEN "stopped" ELSE hstate[g]
    BY <1>5 DEF Stopped, IInv, TypeOK
  <2>3. {g \in Handlers : hstate'[g] \in {"stopping", "stopped"}}
          = {g \in Handlers : hstate[g] \in {"stopping", "stopped"}}
    BY <2>1, <2>2
  <2> QED
    BY <1>5, <2>3 DEF Stopped, Service!vars
<1>6. ASSUME NEW p \in Controllers, NewHandle(p) \/ StartHandler(p) PROVE UNCHANGED Service!vars
  <2>1. PICK h \in Handlers, was \in {"unborn", "built"}, to \in {"lost", "built", "started"} :
          hstate[h] = was /\ hstate' = [hstate EXCEPT ![h] = to]
    BY <1>6 DEF NewHandle, StartHandler, Unborn, IInv, TypeOK, NewHandlers
  <2>2. {g \in Handlers : hstate'[g] \in {"stopping", "stopped"}}
          = {g \in Handlers : hstate[g] \in {"stopping", "stopped"}}
    BY <2>1 DEF IInv, TypeOK
  <2> QED
    BY <1>6, <2>2 DEF NewHandle, StartHandler, Service!vars
<1>7. ASSUME NEW p \in Controllers, LockForStop(p) PROVE UNCHANGED Service!vars
  <2>1. stopped' = stopped \/ ptr # NoHandler
    BY <1>7 DEF LockForStop, IInv, CurrentUntilStop
  <2> QED
    BY <1>7, <2>1, Invisible DEF LockForStop
<1>8. ASSUME NEW p \in Controllers, LockForReload(p) \/ CallStop(p) \/ LockDrain(p)
      PROVE  UNCHANGED Service!vars
  BY <1>8, Invisible DEF LockForReload, CallStop, LockDrain
<1>9. ASSUME NEW c \in Clients, Ask(c) \/ Refuse(c) \/ Answer(c) PROVE UNCHANGED Service!vars
  BY <1>9, Invisible DEF Ask, Refuse, Answer
<1>10. ASSUME NEW h \in Handlers,
              WorkerTakes(h) \/ WorkerExits(h) \/ \E i \in Internals : InternalBegins(i, h)
       PROVE  UNCHANGED Service!vars
  BY <1>10, Invisible DEF WorkerTakes, WorkerExits, InternalBegins
<1>11. ASSUME NEW i \in Internals, InternalEnds(i) PROVE UNCHANGED Service!vars
  BY <1>11, Invisible DEF InternalEnds
<1>12. CASE UNCHANGED vars
  BY <1>12, Invisible DEF vars
<1> QED
  BY <1>1, <1>2, <1>3, <1>4, <1>5, <1>6, <1>7, <1>8, <1>9, <1>10, <1>11, <1>12, SwapRefines
     DEF Next, ClientStep, ControllerStep, GroupStep

\* A client's query is served from beginning to end by the handler that was in
\* service when it began, a handler is retired only when it is out of service and
\* unused, and the service once closed stays closed.
THEOREM LifecycleImplementsService == Spec => ImplementsService
  BY InitRefines, NextRefines, InvariantCorrect, PTL
     DEF Spec, SafetySpec, ImplementsService, Service!Spec
==============================================================================
