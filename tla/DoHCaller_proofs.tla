-------------------------- MODULE DoHCaller_proofs --------------------------
(***************************************************************************)
(* Proofs about DoHCaller, for any number of callers and addresses: the    *)
(* type invariant, that no wakeup is lost, that a caller leaves with empty *)
(* hands only after a failed resolution, and that clients are never lost.  *)
(***************************************************************************)
EXTENDS DoHCaller, FiniteSetTheorems, TLAPS

(***************************************************************************)
(* The type invariant.                                                     *)
(***************************************************************************)

LEMMA InitTypeOK == Init => TypeOK
<1> SUFFICES ASSUME Init PROVE TypeOK
  OBVIOUS
<1>1. clients \in SUBSET Addrs
  BY AddrsAssumption DEF Init
<1>2. requireCh \in Seq(Questions) /\ Len(requireCh) <= 1
  BY DEF Init
<1> QED
  BY <1>1, <1>2 DEF Init, TypeOK, Questions

LEMMA NextTypeOK == TypeOK /\ [Next]_vars => TypeOK'
<1> SUFFICES ASSUME TypeOK, [Next]_vars PROVE TypeOK'
  OBVIOUS
<1> USE DEF TypeOK, Questions
<1>1. CASE Start
  BY <1>1 DEF Start
<1>2. CASE TickerFires
  BY <1>2 DEF TickerFires
<1>3. CASE Exit
  BY <1>3 DEF Exit
<1>4. CASE TakeTick
  BY <1>4 DEF TakeTick
<1>5. CASE TakeRequest
  BY <1>5 DEF TakeRequest, AfterTaking
<1>6. CASE Resolve
  <2>1. PICK ips \in Outcomes : clients' = NewClients(ips) /\ failed' = (failed \/ ips = {})
    BY <1>6 DEF Resolve
  <2>2. ips \in SUBSET Addrs
    BY DEF Outcomes
  <2>3. clients' \in SUBSET Addrs
    BY <2>1, <2>2 DEF NewClients
  <2>4. failed' \in BOOLEAN
    BY <2>1
  <2> QED BY <1>6, <2>3, <2>4 DEF Resolve, AfterResolve
<1>7. CASE Notify
  BY <1>7 DEF Notify, HasRoom, OneMoreToken
<1>8. CASE NotifyCancelled
  BY <1>8 DEF NotifyCancelled
<1>9. CASE RunExits
  BY <1>9 DEF RunExits
<1>10. ASSUME NEW w \in Waiters, NoClient(w) PROVE TypeOK'
  BY <1>10 DEF NoClient, Move
<1>11. ASSUME NEW w \in Waiters, Require(w) PROVE TypeOK'
  BY <1>11 DEF Require, Move, HasRoom
<1>12. ASSUME NEW w \in Waiters, Satisfied(w) PROVE TypeOK'
  BY <1>12 DEF Satisfied, Move
<1>13. ASSUME NEW w \in Waiters, Reread(w) PROVE TypeOK'
  BY <1>13 DEF Reread, Move
<1>14. ASSUME NEW w \in Waiters, LeaveSelect(w) PROVE TypeOK'
  BY <1>14 DEF LeaveSelect, Move
<1>15. CASE UNCHANGED vars
  BY <1>15 DEF vars
<1> QED
  BY <1>1, <1>2, <1>3, <1>4, <1>5, <1>6, <1>7, <1>8, <1>9, <1>10, <1>11,
     <1>12, <1>13, <1>14, <1>15 DEF Next, RunStep, GiveUp, ReturnCancelled

\* Every variable keeps its type and both channels their capacity, whatever the
\* number of callers.
THEOREM TypeCorrect == Spec => []TypeOK
  BY InitTypeOK, NextTypeOK, PTL DEF Spec

(***************************************************************************)
(* No wakeup is lost.  NoLostWakeup is inductive together with TypeOK: the *)
(* steps of run() leave the sum on its right alone, a waiter that joins    *)
(* adds its request, one that is served takes a token along.               *)
(***************************************************************************)

LEMMA WaitingFinite == IsFiniteSet(Waiting)
  BY WaitersAssumption, FS_Subset DEF Waiting

\* The sum that matches the waiting callers.
Matched == Len(requireCh) + InHand + satisfyCh

LEMMA InitNoLostWakeup == Init => NoLostWakeup
<1> SUFFICES ASSUME Init PROVE Cardinality(Waiting) <= Matched
  BY DEF NoLostWakeup, Matched
<1>1. Waiting = {}
  BY DEF Init, Waiting
<1>2. Cardinality(Waiting) = 0
  BY <1>1, FS_EmptySet
<1> QED
  BY <1>2 DEF Init, Matched, InHand, Questions

LEMMA NextNoLostWakeup == TypeOK /\ NoLostWakeup /\ [Next]_vars => NoLostWakeup'
<1> SUFFICES ASSUME TypeOK, NoLostWakeup, [Next]_vars, ~cancelled'
             PROVE  Cardinality(Waiting') <= Matched'
  BY DEF NoLostWakeup, Matched
<1>a. ~cancelled
  BY DEF Next, RunStep, vars, Start, TickerFires, Exit, TakeTick, TakeRequest, Resolve, Notify,
         NotifyCancelled, RunExits, NoClient, Require, Satisfied, Reread, GiveUp,
         ReturnCancelled, LeaveSelect
<1>b. Cardinality(Waiting) <= Matched
  BY <1>a DEF NoLostWakeup, Matched
<1>c. Cardinality(Waiting) \in Nat
  BY WaitingFinite, FS_CardinalityType
<1>d. Matched \in Nat /\ InHand \in {0, 1} /\ Len(requireCh) \in Nat
  BY DEF TypeOK, Matched, InHand
<1>1. ASSUME pc' = pc, Matched' >= Matched PROVE Cardinality(Waiting') <= Matched'
  <2>1. Waiting' = Waiting
    BY <1>1 DEF Waiting
  <2>2. Matched' \in Nat
    BY NextTypeOK DEF TypeOK, Matched, InHand
  <2> QED
    BY <1>1, <1>b, <1>c, <1>d, <2>1, <2>2
<1>2. ASSUME Start \/ TickerFires \/ Exit \/ RunExits PROVE Matched' >= Matched
  BY <1>2, <1>d DEF Start, TickerFires, Exit, RunExits, Matched, InHand
<1>3. ASSUME TakeTick PROVE Matched' >= Matched
  BY <1>3, <1>d DEF TakeTick, Matched, InHand, Questions
<1>4. ASSUME TakeRequest PROVE Matched' >= Matched
  <2>1. Len(requireCh') = Len(requireCh) - 1
    BY <1>4 DEF TakeRequest, TypeOK
  <2>2. InHand = 0 /\ InHand' = 1
    BY <1>4 DEF TakeRequest, TypeOK, InHand, AfterTaking
  <2>3. satisfyCh' = satisfyCh /\ satisfyCh \in Nat
    BY <1>4 DEF TakeRequest, TypeOK
  <2> QED
    BY <1>d, <2>1, <2>2, <2>3 DEF Matched
<1>5. ASSUME Resolve PROVE Matched' >= Matched
  BY <1>5, <1>d DEF Resolve, AfterResolve, Matched, InHand, Questions
<1>6. ASSUME Notify PROVE Matched' >= Matched
  <2>1. InHand' = 0 /\ satisfyCh' = satisfyCh + 1 /\ requireCh' = requireCh
    BY <1>6 DEF Notify, InHand, OneMoreToken
  <2> QED
    BY <1>d, <2>1 DEF Matched, TypeOK
<1>7. ASSUME NotifyCancelled PROVE FALSE
  BY <1>7, <1>a DEF NotifyCancelled
<1>8. ASSUME NEW w \in Waiters, NoClient(w) \/ Reread(w)
      PROVE  Cardinality(Waiting') <= Matched'
  <2>1. Waiting' = Waiting
    BY <1>8 DEF NoClient, Reread, Move, Waiting, TypeOK
  <2>2. Matched' = Matched
    BY <1>8 DEF NoClient, Reread, Matched, InHand
  <2> QED
    BY <2>1, <2>2, <1>b
<1>9. ASSUME NEW w \in Waiters, Require(w) PROVE Cardinality(Waiting') <= Matched'
  <2>1. Waiting' = Waiting \cup {w}
    BY <1>9 DEF Require, Move, Waiting, TypeOK
  <2>2. Cardinality(Waiting') <= Cardinality(Waiting) + 1
    BY <2>1, <1>c, WaitingFinite, FS_AddElement
  <2>3. Cardinality(Waiting') \in Nat
    BY <2>1, WaitingFinite, FS_AddElement, FS_CardinalityType
  <2>4. Matched' = Matched + 1
    <3>1. Len(requireCh') = Len(requireCh) + 1
      BY <1>9 DEF Require, TypeOK
    <3>2. InHand' = InHand /\ satisfyCh' = satisfyCh
      BY <1>9 DEF Require, InHand
    <3> QED
      BY <1>d, <3>1, <3>2 DEF Matched, TypeOK
  <2> QED
    BY <1>b, <1>c, <1>d, <2>2, <2>3, <2>4
<1>10. ASSUME NEW w \in Waiters, Satisfied(w) PROVE Cardinality(Waiting') <= Matched'
  <2>1. Waiting' = Waiting \ {w} /\ w \in Waiting
    BY <1>10 DEF Satisfied, Move, Waiting, TypeOK
  <2>2. Cardinality(Waiting') = Cardinality(Waiting) - 1
    BY <2>1, WaitingFinite, FS_RemoveElement
  <2>3. Matched' = Matched - 1
    BY <1>10, <1>d DEF Satisfied, Matched, InHand, TypeOK
  <2> QED
    BY <1>b, <1>c, <1>d, <2>2, <2>3
<1>11. ASSUME NEW w \in Waiters, LeaveSelect(w) PROVE Cardinality(Waiting') <= Matched'
  <2>1. Waiting' \in SUBSET Waiting
    BY <1>11 DEF LeaveSelect, Move, Waiting, TypeOK
  <2>2. Cardinality(Waiting') <= Cardinality(Waiting)
    BY <2>1, WaitingFinite, FS_Subset
  <2>3. Cardinality(Waiting') \in Nat
    BY <2>1, WaitingFinite, FS_Subset, FS_CardinalityType
  <2>4. Matched' = Matched
    BY <1>11 DEF LeaveSelect, Matched, InHand
  <2> QED
    BY <1>b, <1>c, <1>d, <2>2, <2>3, <2>4
<1>12. ASSUME UNCHANGED vars PROVE pc' = pc /\ Matched' = Matched
  BY <1>12 DEF vars, Matched, InHand
<1>13. ASSUME Start \/ TickerFires \/ Exit \/ RunStep PROVE pc' = pc
  BY <1>13 DEF Start, TickerFires, Exit, RunStep, TakeTick, TakeRequest, Resolve, Notify,
               NotifyCancelled, RunExits
<1>14. CASE Start \/ TickerFires \/ Exit \/ RunStep
  <2>1. Matched' >= Matched
    BY <1>14, <1>2, <1>3, <1>4, <1>5, <1>6, <1>7 DEF RunStep
  <2> QED
    BY <1>14, <1>13, <1>1, <2>1
<1>15. CASE UNCHANGED vars
  BY <1>15, <1>1, <1>12, <1>d
<1> QED
  BY <1>8, <1>9, <1>10, <1>11, <1>14, <1>15 DEF Next, GiveUp, ReturnCancelled

\* Until Exit(), every caller that waits on satisfyCh is matched by a token, a
\* queued request or the request in hand, for any number of callers.
THEOREM WakeupsKept == Spec => []NoLostWakeup
  BY TypeCorrect, InitNoLostWakeup, NextNoLostWakeup, PTL DEF Spec

(***************************************************************************)
(* A caller comes back empty-handed only after a failure.  The strengthened*)
(* invariant follows the token back to run(): while there is no client and *)
(* nothing has failed, no token exists and none is about to be sent.       *)
(***************************************************************************)

NoTokenBeforeFirstResolution ==
    clients = {} /\ ~failed =>
      /\ satisfyCh = 0
      /\ runPc # "notify"
      /\ \A w \in Waiters : pc[w] # "reread"

LEMMA InitNoToken == Init => NoTokenBeforeFirstResolution
  BY DEF Init, NoTokenBeforeFirstResolution

LEMMA NextNoToken ==
    TypeOK /\ NoTokenBeforeFirstResolution /\ [Next]_vars => NoTokenBeforeFirstResolution'
<1> SUFFICES ASSUME TypeOK, NoTokenBeforeFirstResolution, [Next]_vars
             PROVE  NoTokenBeforeFirstResolution'
  OBVIOUS
<1> USE DEF NoTokenBeforeFirstResolution, TypeOK
<1>1. CASE Start \/ TickerFires \/ Exit
  BY <1>1 DEF Start, TickerFires, Exit
<1>2. CASE TakeTick
  BY <1>2 DEF TakeTick
<1>3. CASE TakeRequest
  BY <1>3 DEF TakeRequest, AfterTaking
<1>4. CASE Resolve
  <2>1. PICK ips \in Outcomes : clients' = NewClients(ips) /\ failed' = (failed \/ ips = {})
    BY <1>4 DEF Resolve
  <2>2. clients' # {} \/ failed'
    BY <2>1 DEF NewClients
  <2> QED BY <2>2
<1>5. CASE Notify
  BY <1>5 DEF Notify
<1>6. CASE NotifyCancelled \/ RunExits
  BY <1>6 DEF NotifyCancelled, RunExits
<1>7. ASSUME NEW w \in Waiters, NoClient(w) \/ Reread(w) \/ LeaveSelect(w)
      PROVE  NoTokenBeforeFirstResolution'
  BY <1>7 DEF NoClient, Reread, LeaveSelect, Move
<1>8. ASSUME NEW w \in Waiters, Require(w) PROVE NoTokenBeforeFirstResolution'
  BY <1>8 DEF Require, Move
<1>9. ASSUME NEW w \in Waiters, Satisfied(w) PROVE NoTokenBeforeFirstResolution'
  BY <1>9 DEF Satisfied, Move
<1>10. CASE UNCHANGED vars
  BY <1>10 DEF vars
<1> QED
  BY <1>1, <1>2, <1>3, <1>4, <1>5, <1>6, <1>7, <1>8, <1>9, <1>10
     DEF Next, RunStep, GiveUp, ReturnCancelled

\* getClient() comes back from satisfyCh without a client only after a resolution
\* that ended without an address.
THEOREM EmptyHandedCorrect == Spec => []EmptyHandedOnlyAfterFailure
<1>1. NoTokenBeforeFirstResolution => EmptyHandedOnlyAfterFailure
  BY DEF NoTokenBeforeFirstResolution, EmptyHandedOnlyAfterFailure
<1> QED
  BY <1>1, TypeCorrect, InitNoToken, NextNoToken, PTL DEF Spec

\* No step of any goroutine takes the last client away.
THEOREM ClientsKept == Spec => ClientsNeverLost
<1>1. [Next]_vars => [clients # {} => clients' # {}]_clients
  <2> SUFFICES ASSUME [Next]_vars, clients' # clients, clients # {} PROVE clients' # {}
    OBVIOUS
  <2>1. Resolve
    BY DEF Next, RunStep, vars, Start, TickerFires, Exit, TakeTick, TakeRequest, Notify,
           NotifyCancelled, RunExits, NoClient, Require, Satisfied, Reread, GiveUp,
           ReturnCancelled, LeaveSelect
  <2> QED
    BY <2>1 DEF Resolve, NewClients
<1> QED
  BY <1>1, PTL DEF Spec, ClientsNeverLost
==============================================================================
