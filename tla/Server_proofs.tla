---------------------------- MODULE Server_proofs ----------------------------
(***************************************************************************)
(* Proofs about Server, for every combination of services and any number   *)
(* of failed calls and signals: the type invariant, that run() returns     *)
(* with every socket closed and every goroutine gone, and that the exit    *)
(* code tells the truth.                                                   *)
(***************************************************************************)
EXTENDS Server, TLAPS

(***************************************************************************)
(* The inductive invariant.                                                *)
(***************************************************************************)

Running == {"udp", "tcp", "cert", "plain", "runtimes", "select"}

\* What has not been started yet.
NotYet ==
    /\ pc = "udp" => \A s \in Services : state[s] = "off"
    /\ pc \in {"tcp", "cert"} => \A s \in Services \ {"udp"} : state[s] = "off"
    /\ pc = "plain" => state["plain"] = "off"
    /\ pc \in Running \ {"select"} /\ ~setup.doh =>
         \A s \in Services \ {"plain"} : state[s] = "off"

\* What has been opened so far.
OpenedSoFar ==
    /\ pc = "udp" => open = {}
    /\ pc = "tcp" => open \subseteq {"udp"}
    /\ pc = "cert" => open \subseteq {"udp", "tcp"} /\ setup.doh /\ WantsTCP
    /\ "udp" \in open => WantsUDP
    /\ "udp" \in open /\ setup.doh => state["udp"] # "off"
    /\ "tcp" \in open /\ setup.doh /\ pc \in {"plain", "runtimes"} => state["tcp"] # "off"
    /\ "plain" \in open => state["plain"] # "off"

\* An open socket has a service that will close it when it ends - or is not yet
\* served, and then it is the one that cleaning up closes.
SocketsServed ==
    \A k \in open :
      /\ state[k] \in {"off", "spawned", "serving"}
      /\ pc \in {"select", "return", "exited"} => state[k] # "off"
      /\ pc = "close" /\ state[k] = "off" => todo = <<k>>

\* As long as nothing fails and run() does not close anything, nothing ends.
Quiet ==
    pc \in Running /\ failures = 0 =>
      /\ told = {} /\ errs = 0
      /\ \A s \in Services : /\ state[s] \in {"off", "spawned", "serving"}
                             /\ state[s] # "off" => Sockets(s) \subseteq open
      /\ WantsUDP /\ pc # "udp" => "udp" \in open
      /\ WantsTCP /\ pc \notin {"udp", "tcp"} => "tcp" \in open

\* A failure that does not end the start is reported, or about to be.
Noticed ==
    pc \in Running /\ failures > 0 => errs > 0 \/ \E s \in Services : state[s] = "failed"

Verdicts ==
    /\ verdict = "error" => failures > 0
    /\ pc \notin Running /\ verdict = "ok" => terminated

IInv == TypeOK /\ NotYet /\ OpenedSoFar /\ SocketsServed /\ Quiet /\ Noticed /\ Verdicts /\ CleanExit
LEMMA ScenarioType ==
  ASSUME NEW s \in Scenarios
  PROVE  s.failures \in Nat /\ s.signals \in Nat
<1>1. s \in [doh : BOOLEAN, net : {"", "udp", "tcp"}, plain : BOOLEAN,
            failures : Nat, signals : Nat]
  BY ScenariosAssumption
<1> QED
  BY <1>1

LEMMA InitTypeOK == Init => TypeOK
<1> SUFFICES ASSUME Init PROVE TypeOK
  OBVIOUS
<1>1. failures \in 0..setup.failures /\ signalsLeft \in Nat
  BY ScenarioType DEF Init
<1>2. {disk, got, service, asked} \subseteq 0..MaxEdits
  BY MaxEditsAssumption DEF Init
<1>3. /\ open \subseteq {"udp", "tcp", "plain"} /\ told \subseteq Services
      /\ errs \in 0..16 /\ todo \in Seq(Services) /\ hup \in {0, 1} /\ bad \subseteq 1..MaxEdits
      /\ state \in [Services -> {"off", "spawned", "serving", "failed", "reported", "done"}]
  BY DEF Init
<1>4. /\ setup \in Scenarios /\ pc = "udp" /\ verdict = "ok" /\ terminated = FALSE /\ rpc = "wait"
  BY DEF Init
<1> QED
  BY <1>1, <1>2, <1>3, <1>4 DEF TypeOK

LEMMA CallsType ==
  ASSUME NEW a \in Services, NEW b \in Services, NEW c \in Services,
         NEW d \in Services, NEW e \in Services
  PROVE  /\ <<>> \in Seq(Services)
         /\ <<a>> \in Seq(Services)
         /\ <<a, b, c>> \in Seq(Services)
         /\ <<a, b, c, d, e>> \in Seq(Services)
  OBVIOUS

LEMMA ShutdownType == Shutdown \in Seq(Services) /\ CleanUp \in Seq(Services)
<1>1. {"udp", "tcp", "doh", "mux", "cert", "plain"} \subseteq Services
  BY DEF Services
<1> QED
  BY <1>1, CallsType DEF Shutdown, CleanUp

LEMMA GiveUpType ==
  ASSUME TypeOK, NEW calls \in Seq(Services), GiveUp(calls), setup' = setup
  PROVE  /\ failures' \in 0..setup'.failures
         /\ verdict' = "error" /\ pc' = "close" /\ todo' \in Seq(Services)
<1>1. setup.failures \in Nat /\ failures \in Nat /\ failures < setup.failures
  BY ScenarioType DEF TypeOK, GiveUp, MayFail
<1>2. failures' \in 0..setup.failures
  BY <1>1 DEF GiveUp
<1> QED
  BY <1>2 DEF GiveUp

LEMMA NextTypeOK == TypeOK /\ [Next]_vars => TypeOK'
<1> SUFFICES ASSUME TypeOK, [Next]_vars PROVE TypeOK'
  OBVIOUS
<1>f. setup.failures \in Nat /\ failures \in Nat
  BY ScenarioType DEF TypeOK
<1>m. ASSUME MayFail, setup' = setup, failures' = failures + 1 PROVE failures' \in 0..setup'.failures
  BY <1>f, <1>m DEF MayFail
<1>s. ASSUME NEW S \in SUBSET Services, Spawn(S)
      PROVE  state' \in [Services -> {"off", "spawned", "serving", "failed", "reported", "done"}]
  BY <1>s DEF TypeOK, Spawn
<1>e. ASSUME HasRoom PROVE errs + 1 \in 0..16
  BY <1>e DEF TypeOK, HasRoom
<1> USE DEF running, reloading
<1>1. CASE OpenUDP
  <2>1. state' \in [Services -> {"off", "spawned", "serving", "failed", "reported", "done"}]
    BY <1>1, <1>s DEF TypeOK, OpenUDP, Services
  <2>2. todo' \in Seq(Services) /\ failures' \in 0..setup'.failures
    <3>1. <<>> \in Seq(Services)
      OBVIOUS
    <3> QED
      BY <1>1, <3>1, GiveUpType DEF TypeOK, OpenUDP
  <2> QED
    BY <1>1, <2>1, <2>2 DEF TypeOK, OpenUDP, GiveUp
<1>2. CASE OpenTCP
  <2>1. todo' \in Seq(Services) /\ failures' \in 0..setup'.failures
    BY <1>2, GiveUpType, ShutdownType DEF TypeOK, OpenTCP
  <2> QED
    BY <1>2, <2>1 DEF TypeOK, OpenTCP, GiveUp
<1>3. CASE LoadCert
  <2>1. state' \in [Services -> {"off", "spawned", "serving", "failed", "reported", "done"}]
    BY <1>3, <1>s DEF TypeOK, LoadCert, Services
  <2>2. todo' \in Seq(Services) /\ failures' \in 0..setup'.failures
    BY <1>3, GiveUpType, ShutdownType DEF TypeOK, LoadCert
  <2> QED
    BY <1>3, <2>1, <2>2 DEF TypeOK, LoadCert, GiveUp
<1>4. CASE OpenPlain
  <2>1. state' \in [Services -> {"off", "spawned", "serving", "failed", "reported", "done"}]
    BY <1>4, <1>s DEF TypeOK, OpenPlain, Services
  <2>2. errs' \in 0..16 /\ failures' \in 0..setup'.failures
    BY <1>4, <1>e, <1>m DEF TypeOK, OpenPlain
  <2> QED
    BY <1>4, <2>1, <2>2 DEF TypeOK, OpenPlain
<1>5. CASE StartRuntimes
  <2>1. state' \in [Services -> {"off", "spawned", "serving", "failed", "reported", "done"}]
    BY <1>5, <1>s DEF TypeOK, StartRuntimes, Runtimes, Services
  <2> QED
    BY <1>5, <2>1 DEF TypeOK, StartRuntimes
<1>6. CASE OnSignal
  BY <1>6, ShutdownType DEF TypeOK, OnSignal
<1>7. CASE OnError
  BY <1>7, ShutdownType DEF TypeOK, OnError
<1>8. CASE OnDone
  BY <1>8 DEF TypeOK, OnDone, DoneVerdict
<1>9. CASE Close
  <2>1. Head(todo) \in Services /\ Tail(todo) \in Seq(Services)
    BY <1>9 DEF TypeOK, Close
  <2> QED
    BY <1>9, <2>1 DEF TypeOK, Close
<1>10. CASE Await \/ Exit \/ Terminate
  BY <1>10 DEF TypeOK, Await, Exit, Terminate
<1>11. ASSUME NEW s \in Services, Begin(s) \/ End(s) \/ Leave(s) PROVE TypeOK'
  BY <1>11 DEF TypeOK, Begin, End, Leave
<1>12. ASSUME NEW s \in Services, Report(s) PROVE TypeOK'
  BY <1>12, <1>e DEF TypeOK, Report
<1>13. ASSUME NEW s \in Services, Fail(s) PROVE TypeOK'
  BY <1>13, <1>m DEF TypeOK, Fail
<1>14. CASE Edit
  <2>1. disk + 1 \in 0..MaxEdits /\ disk + 1 \in 1..MaxEdits
    BY <1>14, MaxEditsAssumption DEF TypeOK, Edit
  <2> QED
    BY <1>14, <2>1 DEF TypeOK, Edit
<1>15. CASE Hangup
  <2>1. signalsLeft - 1 \in Nat
    BY <1>15 DEF TypeOK, Hangup
  <2> QED
    BY <1>15, <2>1 DEF TypeOK, Hangup, Queued
<1>16. CASE ReloadStep
  <2>1. CASE Receive
    BY <2>1 DEF TypeOK, Receive
  <2>2. CASE ReadFile
    BY <2>2 DEF TypeOK, ReadFile
  <2>3. CASE Apply
    BY <2>3 DEF TypeOK, Apply
  <2>4. CASE LeaveReload
    BY <2>4 DEF TypeOK, LeaveReload
  <2> QED
    BY <1>16, <2>1, <2>2, <2>3, <2>4 DEF ReloadStep
<1>17. CASE UNCHANGED vars
  BY <1>17 DEF TypeOK, vars
<1> QED
  BY <1>1, <1>2, <1>3, <1>4, <1>5, <1>6, <1>7, <1>8, <1>9, <1>10, <1>11, <1>12, <1>13, <1>14,
     <1>15, <1>16, <1>17 DEF Next, RunStep, ServiceStep

\* Every variable keeps its type; errCh never needs more than its 16 places.
THEOREM TypeCorrect == Spec => []TypeOK
  BY InitTypeOK, NextTypeOK, PTL DEF Spec

(***************************************************************************)
(* It is inductive.                                                        *)
(***************************************************************************)

LEMMA InitIInv == Init => IInv
<1> SUFFICES ASSUME Init PROVE IInv
  OBVIOUS
<1> QED
  BY InitTypeOK
     DEF Init, IInv, NotYet, OpenedSoFar, SocketsServed, Quiet, Noticed, Verdicts, CleanExit,
         Running

\* reloadConf and the file leave run() alone.
LEMMA Beside == ASSUME IInv, TypeOK', UNCHANGED running PROVE IInv'
  BY DEF IInv, running, NotYet, OpenedSoFar, SocketsServed, Quiet, Noticed, Verdicts, CleanExit,
     AllDone, WantsUDP, WantsTCP

LEMMA NextIInv == IInv /\ [Next]_vars => IInv'
<1> SUFFICES ASSUME IInv, [Next]_vars PROVE IInv'
  OBVIOUS
<1>t. TypeOK /\ TypeOK'
  BY NextTypeOK DEF IInv
<1>f. failures \in Nat /\ failures + 1 > 0
  BY ScenarioType, <1>t DEF TypeOK
<1>i. NotYet /\ OpenedSoFar /\ SocketsServed /\ Quiet /\ Noticed /\ Verdicts /\ CleanExit
  BY DEF IInv
<1> USE DEF Running, Services, Sockets, WantsUDP, WantsTCP
<1>1. CASE OpenUDP
  <2>1. NotYet'
    BY <1>t, <1>f, <1>i, <1>1 DEF TypeOK, OpenUDP, GiveUp, Spawn, NotYet, OpenedSoFar
  <2>2. OpenedSoFar'
    BY <1>t, <1>f, <1>i, <1>1 DEF TypeOK, OpenUDP, GiveUp, Spawn, OpenedSoFar, NotYet
  <2>3. SocketsServed'
    BY <1>t, <1>f, <1>i, <1>1 DEF TypeOK, OpenUDP, GiveUp, Spawn, SocketsServed, OpenedSoFar,
        NotYet
  <2>4. Quiet'
    BY <1>t, <1>f, <1>i, <1>1 DEF TypeOK, OpenUDP, GiveUp, Spawn, Quiet, NotYet, OpenedSoFar
  <2>5. Noticed'
    BY <1>t, <1>f, <1>i, <1>1 DEF TypeOK, OpenUDP, GiveUp, Spawn, Noticed, NotYet, Quiet
  <2>6. Verdicts'
    BY <1>t, <1>f, <1>i, <1>1 DEF TypeOK, OpenUDP, GiveUp, Spawn, Verdicts, Noticed, Quiet,
        SocketsServed
  <2>7. CleanExit'
    BY <1>t, <1>f, <1>i, <1>1 DEF TypeOK, OpenUDP, GiveUp, Spawn, CleanExit, SocketsServed,
        AllDone
  <2> QED
    BY <1>t, <2>1, <2>2, <2>3, <2>4, <2>5, <2>6, <2>7 DEF IInv
<1>2. CASE OpenTCP
  <2>1. NotYet'
    BY <1>t, <1>f, <1>i, <1>2 DEF TypeOK, OpenTCP, GiveUp, CleanUp, NotYet, OpenedSoFar
  <2>2. OpenedSoFar'
    BY <1>t, <1>f, <1>i, <1>2 DEF TypeOK, OpenTCP, GiveUp, CleanUp, OpenedSoFar, NotYet
  <2>3. SocketsServed'
    BY <1>t, <1>f, <1>i, <1>2 DEF TypeOK, OpenTCP, GiveUp, CleanUp, SocketsServed, OpenedSoFar,
        NotYet
  <2>4. Quiet'
    BY <1>t, <1>f, <1>i, <1>2 DEF TypeOK, OpenTCP, GiveUp, CleanUp, Quiet, NotYet, OpenedSoFar
  <2>5. Noticed'
    BY <1>t, <1>f, <1>i, <1>2 DEF TypeOK, OpenTCP, GiveUp, CleanUp, Noticed, NotYet, Quiet
  <2>6. Verdicts'
    BY <1>t, <1>f, <1>i, <1>2 DEF TypeOK, OpenTCP, GiveUp, CleanUp, Verdicts, Noticed, Quiet,
        SocketsServed
  <2>7. CleanExit'
    BY <1>t, <1>f, <1>i, <1>2 DEF TypeOK, OpenTCP, GiveUp, CleanUp, CleanExit, SocketsServed,
        AllDone
  <2> QED
    BY <1>t, <2>1, <2>2, <2>3, <2>4, <2>5, <2>6, <2>7 DEF IInv
<1>3. CASE LoadCert
  <2>1. NotYet'
    BY <1>t, <1>f, <1>i, <1>3 DEF TypeOK, LoadCert, GiveUp, Spawn, CleanUp, NotYet, OpenedSoFar
  <2>2. OpenedSoFar'
    BY <1>t, <1>f, <1>i, <1>3 DEF TypeOK, LoadCert, GiveUp, Spawn, CleanUp, OpenedSoFar, NotYet
  <2>3. SocketsServed'
    BY <1>t, <1>f, <1>i, <1>3 DEF TypeOK, LoadCert, GiveUp, Spawn, CleanUp, SocketsServed,
        OpenedSoFar, NotYet
  <2>4. Quiet'
    BY <1>t, <1>f, <1>i, <1>3 DEF TypeOK, LoadCert, GiveUp, Spawn, CleanUp, Quiet, NotYet,
        OpenedSoFar
  <2>5. Noticed'
    BY <1>t, <1>f, <1>i, <1>3 DEF TypeOK, LoadCert, GiveUp, Spawn, CleanUp, Noticed, NotYet,
        Quiet
  <2>6. Verdicts'
    BY <1>t, <1>f, <1>i, <1>3 DEF TypeOK, LoadCert, GiveUp, Spawn, CleanUp, Verdicts, Noticed,
        Quiet, SocketsServed
  <2>7. CleanExit'
    BY <1>t, <1>f, <1>i, <1>3 DEF TypeOK, LoadCert, GiveUp, Spawn, CleanUp, CleanExit,
        SocketsServed, AllDone
  <2> QED
    BY <1>t, <2>1, <2>2, <2>3, <2>4, <2>5, <2>6, <2>7 DEF IInv
<1>4. CASE OpenPlain
  <2>1. NotYet'
    BY <1>t, <1>f, <1>i, <1>4 DEF TypeOK, OpenPlain, Spawn, NotYet, OpenedSoFar
  <2>2. OpenedSoFar'
    BY <1>t, <1>f, <1>i, <1>4 DEF TypeOK, OpenPlain, Spawn, OpenedSoFar, NotYet
  <2>3. SocketsServed'
    BY <1>t, <1>f, <1>i, <1>4 DEF TypeOK, OpenPlain, Spawn, SocketsServed, OpenedSoFar, NotYet
  <2>4. Quiet'
    BY <1>t, <1>f, <1>i, <1>4 DEF TypeOK, OpenPlain, Spawn, Quiet, NotYet, OpenedSoFar
  <2>5. Noticed'
    BY <1>t, <1>f, <1>i, <1>4 DEF TypeOK, OpenPlain, Spawn, Noticed, NotYet, Quiet
  <2>6. Verdicts'
    BY <1>t, <1>f, <1>i, <1>4 DEF TypeOK, OpenPlain, Spawn, Verdicts, Noticed, Quiet,
        SocketsServed
  <2>7. CleanExit'
    BY <1>t, <1>f, <1>i, <1>4 DEF TypeOK, OpenPlain, Spawn, CleanExit, SocketsServed, AllDone
  <2> QED
    BY <1>t, <2>1, <2>2, <2>3, <2>4, <2>5, <2>6, <2>7 DEF IInv
<1>5. CASE StartRuntimes
  <2>1. NotYet'
    BY <1>t, <1>f, <1>i, <1>5 DEF TypeOK, StartRuntimes, Spawn, Runtimes, NotYet, OpenedSoFar
  <2>2. OpenedSoFar'
    BY <1>t, <1>f, <1>i, <1>5 DEF TypeOK, StartRuntimes, Spawn, Runtimes, OpenedSoFar, NotYet
  <2>3. SocketsServed'
    BY <1>t, <1>f, <1>i, <1>5 DEF TypeOK, StartRuntimes, Spawn, Runtimes, SocketsServed,
        OpenedSoFar, NotYet
  <2>4. Quiet'
    BY <1>t, <1>f, <1>i, <1>5 DEF TypeOK, StartRuntimes, Spawn, Runtimes, Quiet, NotYet,
        OpenedSoFar
  <2>5. Noticed'
    BY <1>t, <1>f, <1>i, <1>5 DEF TypeOK, StartRuntimes, Spawn, Runtimes, Noticed, NotYet, Quiet
  <2>6. Verdicts'
    BY <1>t, <1>f, <1>i, <1>5 DEF TypeOK, StartRuntimes, Spawn, Runtimes, Verdicts, Noticed,
        Quiet, SocketsServed
  <2>7. CleanExit'
    BY <1>t, <1>f, <1>i, <1>5 DEF TypeOK, StartRuntimes, Spawn, Runtimes, CleanExit,
        SocketsServed, AllDone
  <2> QED
    BY <1>t, <2>1, <2>2, <2>3, <2>4, <2>5, <2>6, <2>7 DEF IInv
<1>6. CASE OnSignal
  <2>1. NotYet'
    BY <1>t, <1>f, <1>i, <1>6 DEF TypeOK, OnSignal, NotYet, OpenedSoFar
  <2>2. OpenedSoFar'
    BY <1>t, <1>f, <1>i, <1>6 DEF TypeOK, OnSignal, OpenedSoFar, NotYet
  <2>3. SocketsServed'
    BY <1>t, <1>f, <1>i, <1>6 DEF TypeOK, OnSignal, SocketsServed, OpenedSoFar, NotYet
  <2>4. Quiet'
    BY <1>t, <1>f, <1>i, <1>6 DEF TypeOK, OnSignal, Quiet, NotYet, OpenedSoFar
  <2>5. Noticed'
    BY <1>t, <1>f, <1>i, <1>6 DEF TypeOK, OnSignal, Noticed, NotYet, Quiet
  <2>6. Verdicts'
    BY <1>t, <1>f, <1>i, <1>6 DEF TypeOK, OnSignal, Verdicts, Noticed, Quiet, SocketsServed
  <2>7. CleanExit'
    BY <1>t, <1>f, <1>i, <1>6 DEF TypeOK, OnSignal, CleanExit, SocketsServed, AllDone
  <2> QED
    BY <1>t, <2>1, <2>2, <2>3, <2>4, <2>5, <2>6, <2>7 DEF IInv
<1>7. CASE OnDone
  <2>1. NotYet'
    BY <1>t, <1>f, <1>i, <1>7 DEF TypeOK, OnDone, DoneVerdict, AllDone, NotYet, OpenedSoFar
  <2>2. OpenedSoFar'
    BY <1>t, <1>f, <1>i, <1>7 DEF TypeOK, OnDone, DoneVerdict, AllDone, OpenedSoFar, NotYet
  <2>3. SocketsServed'
    BY <1>t, <1>f, <1>i, <1>7 DEF TypeOK, OnDone, DoneVerdict, AllDone, SocketsServed,
        OpenedSoFar, NotYet
  <2>4. Quiet'
    BY <1>t, <1>f, <1>i, <1>7 DEF TypeOK, OnDone, DoneVerdict, AllDone, Quiet, NotYet,
        OpenedSoFar
  <2>5. Noticed'
    BY <1>t, <1>f, <1>i, <1>7 DEF TypeOK, OnDone, DoneVerdict, AllDone, Noticed, NotYet, Quiet
  <2>6. Verdicts'
    BY <1>t, <1>f, <1>i, <1>7 DEF TypeOK, OnDone, DoneVerdict, AllDone, Verdicts, Noticed,
        Quiet, SocketsServed
  <2>7. CleanExit'
    BY <1>t, <1>f, <1>i, <1>7 DEF TypeOK, OnDone, DoneVerdict, AllDone, CleanExit, SocketsServed
  <2> QED
    BY <1>t, <2>1, <2>2, <2>3, <2>4, <2>5, <2>6, <2>7 DEF IInv
<1>8. CASE OnError
  <2>1. NotYet'
    BY <1>t, <1>f, <1>i, <1>8 DEF TypeOK, OnError, NotYet, OpenedSoFar
  <2>2. OpenedSoFar'
    BY <1>t, <1>f, <1>i, <1>8 DEF TypeOK, OnError, OpenedSoFar, NotYet
  <2>3. SocketsServed'
    BY <1>t, <1>f, <1>i, <1>8 DEF TypeOK, OnError, SocketsServed, OpenedSoFar, NotYet
  <2>4. Quiet'
    BY <1>t, <1>f, <1>i, <1>8 DEF TypeOK, OnError, Quiet, NotYet, OpenedSoFar
  <2>5. Noticed'
    BY <1>t, <1>f, <1>i, <1>8 DEF TypeOK, OnError, Noticed, NotYet, Quiet
  <2>6. Verdicts'
    BY <1>t, <1>f, <1>i, <1>8 DEF TypeOK, OnError, Verdicts, Noticed, Quiet, SocketsServed
  <2>7. CleanExit'
    BY <1>t, <1>f, <1>i, <1>8 DEF TypeOK, OnError, CleanExit, SocketsServed, AllDone
  <2> QED
    BY <1>t, <2>1, <2>2, <2>3, <2>4, <2>5, <2>6, <2>7 DEF IInv
<1>9. CASE Close
  <2>1. NotYet'
    BY <1>t, <1>f, <1>i, <1>9 DEF TypeOK, Close, Refuses, ClosesLater, NotYet, OpenedSoFar
  <2>2. OpenedSoFar'
    BY <1>t, <1>f, <1>i, <1>9 DEF TypeOK, Close, Refuses, ClosesLater, OpenedSoFar, NotYet
  <2>3. SocketsServed'
    BY <1>t, <1>f, <1>i, <1>9 DEF TypeOK, Close, Refuses, ClosesLater, SocketsServed,
        OpenedSoFar, NotYet
  <2>4. Quiet'
    BY <1>t, <1>f, <1>i, <1>9 DEF TypeOK, Close, Refuses, ClosesLater, Quiet, NotYet,
        OpenedSoFar
  <2>5. Noticed'
    BY <1>t, <1>f, <1>i, <1>9 DEF TypeOK, Close, Refuses, ClosesLater, Noticed, NotYet, Quiet
  <2>6. Verdicts'
    BY <1>t, <1>f, <1>i, <1>9 DEF TypeOK, Close, Refuses, ClosesLater, Verdicts, Noticed, Quiet,
        SocketsServed
  <2>7. CleanExit'
    BY <1>t, <1>f, <1>i, <1>9 DEF TypeOK, Close, Refuses, ClosesLater, CleanExit, SocketsServed,
        AllDone
  <2> QED
    BY <1>t, <2>1, <2>2, <2>3, <2>4, <2>5, <2>6, <2>7 DEF IInv
<1>10. CASE Await
  <2>1. NotYet'
    BY <1>t, <1>f, <1>i, <1>10 DEF TypeOK, Await, AllDone, NotYet, OpenedSoFar
  <2>2. OpenedSoFar'
    BY <1>t, <1>f, <1>i, <1>10 DEF TypeOK, Await, AllDone, OpenedSoFar, NotYet
  <2>3. SocketsServed'
    BY <1>t, <1>f, <1>i, <1>10 DEF TypeOK, Await, AllDone, SocketsServed, OpenedSoFar, NotYet
  <2>4. Quiet'
    BY <1>t, <1>f, <1>i, <1>10 DEF TypeOK, Await, AllDone, Quiet, NotYet, OpenedSoFar
  <2>5. Noticed'
    BY <1>t, <1>f, <1>i, <1>10 DEF TypeOK, Await, AllDone, Noticed, NotYet, Quiet
  <2>6. Verdicts'
    BY <1>t, <1>f, <1>i, <1>10 DEF TypeOK, Await, AllDone, Verdicts, Noticed, Quiet,
        SocketsServed
  <2>7. CleanExit'
    BY <1>t, <1>f, <1>i, <1>10 DEF TypeOK, Await, AllDone, CleanExit, SocketsServed
  <2> QED
    BY <1>t, <2>1, <2>2, <2>3, <2>4, <2>5, <2>6, <2>7 DEF IInv
<1>11. CASE Exit
  <2>1. NotYet'
    BY <1>t, <1>f, <1>i, <1>11 DEF TypeOK, Exit, NotYet, OpenedSoFar
  <2>2. OpenedSoFar'
    BY <1>t, <1>f, <1>i, <1>11 DEF TypeOK, Exit, OpenedSoFar, NotYet
  <2>3. SocketsServed'
    BY <1>t, <1>f, <1>i, <1>11 DEF TypeOK, Exit, SocketsServed, OpenedSoFar, NotYet
  <2>4. Quiet'
    BY <1>t, <1>f, <1>i, <1>11 DEF TypeOK, Exit, Quiet, NotYet, OpenedSoFar
  <2>5. Noticed'
    BY <1>t, <1>f, <1>i, <1>11 DEF TypeOK, Exit, Noticed, NotYet, Quiet
  <2>6. Verdicts'
    BY <1>t, <1>f, <1>i, <1>11 DEF TypeOK, Exit, Verdicts, Noticed, Quiet, SocketsServed
  <2>7. CleanExit'
    BY <1>t, <1>f, <1>i, <1>11 DEF TypeOK, Exit, CleanExit, SocketsServed, AllDone
  <2> QED
    BY <1>t, <2>1, <2>2, <2>3, <2>4, <2>5, <2>6, <2>7 DEF IInv
<1>12. CASE Terminate
  <2>1. NotYet'
    BY <1>t, <1>f, <1>i, <1>12 DEF TypeOK, Terminate, NotYet, OpenedSoFar
  <2>2. OpenedSoFar'
    BY <1>t, <1>f, <1>i, <1>12 DEF TypeOK, Terminate, OpenedSoFar, NotYet
  <2>3. SocketsServed'
    BY <1>t, <1>f, <1>i, <1>12 DEF TypeOK, Terminate, SocketsServed, OpenedSoFar, NotYet
  <2>4. Quiet'
    BY <1>t, <1>f, <1>i, <1>12 DEF TypeOK, Terminate, Quiet, NotYet, OpenedSoFar
  <2>5. Noticed'
    BY <1>t, <1>f, <1>i, <1>12 DEF TypeOK, Terminate, Noticed, NotYet, Quiet
  <2>6. Verdicts'
    BY <1>t, <1>f, <1>i, <1>12 DEF TypeOK, Terminate, Verdicts, Noticed, Quiet, SocketsServed
  <2>7. CleanExit'
    BY <1>t, <1>f, <1>i, <1>12 DEF TypeOK, Terminate, CleanExit, SocketsServed, AllDone
  <2> QED
    BY <1>t, <2>1, <2>2, <2>3, <2>4, <2>5, <2>6, <2>7 DEF IInv
<1>13. ASSUME NEW s \in Services, Begin(s) PROVE IInv'
  <2>1. NotYet'
    BY <1>t, <1>f, <1>i, <1>13 DEF TypeOK, Begin, Over, NotYet, OpenedSoFar
  <2>2. OpenedSoFar'
    BY <1>t, <1>f, <1>i, <1>13 DEF TypeOK, Begin, Over, OpenedSoFar, NotYet
  <2>3. SocketsServed'
    BY <1>t, <1>f, <1>i, <1>13 DEF TypeOK, Begin, Over, SocketsServed, OpenedSoFar, NotYet
  <2>4. Quiet'
    BY <1>t, <1>f, <1>i, <1>13 DEF TypeOK, Begin, Over, Quiet, NotYet, OpenedSoFar
  <2>5. Noticed'
    BY <1>t, <1>f, <1>i, <1>13 DEF TypeOK, Begin, Over, Noticed, NotYet, Quiet
  <2>6. Verdicts'
    BY <1>t, <1>f, <1>i, <1>13 DEF TypeOK, Begin, Over, Verdicts, Noticed, Quiet, SocketsServed
  <2>7. CleanExit'
    BY <1>t, <1>f, <1>i, <1>13 DEF TypeOK, Begin, Over, CleanExit, SocketsServed, AllDone
  <2> QED
    BY <1>t, <2>1, <2>2, <2>3, <2>4, <2>5, <2>6, <2>7 DEF IInv
<1>14. ASSUME NEW s \in Services, End(s) PROVE IInv'
  <2>1. NotYet'
    BY <1>t, <1>f, <1>i, <1>14 DEF TypeOK, End, Over, Silent, NotYet, OpenedSoFar
  <2>2. OpenedSoFar'
    BY <1>t, <1>f, <1>i, <1>14 DEF TypeOK, End, Over, Silent, OpenedSoFar, NotYet
  <2>3. SocketsServed'
    BY <1>t, <1>f, <1>i, <1>14 DEF TypeOK, End, Over, Silent, SocketsServed, OpenedSoFar, NotYet
  <2>4. Quiet'
    BY <1>t, <1>f, <1>i, <1>14 DEF TypeOK, End, Over, Silent, Quiet, NotYet, OpenedSoFar
  <2>5. Noticed'
    BY <1>t, <1>f, <1>i, <1>14 DEF TypeOK, End, Over, Silent, Noticed, NotYet, Quiet
  <2>6. Verdicts'
    BY <1>t, <1>f, <1>i, <1>14 DEF TypeOK, End, Over, Silent, Verdicts, Noticed, Quiet,
        SocketsServed
  <2>7. CleanExit'
    BY <1>t, <1>f, <1>i, <1>14 DEF TypeOK, End, Over, Silent, CleanExit, SocketsServed, AllDone
  <2> QED
    BY <1>t, <2>1, <2>2, <2>3, <2>4, <2>5, <2>6, <2>7 DEF IInv
<1>15. ASSUME NEW s \in Services, Fail(s) PROVE IInv'
  <2>1. NotYet'
    BY <1>t, <1>f, <1>i, <1>15 DEF TypeOK, Fail, Over, NotYet, OpenedSoFar
  <2>2. OpenedSoFar'
    BY <1>t, <1>f, <1>i, <1>15 DEF TypeOK, Fail, Over, OpenedSoFar, NotYet
  <2>3. SocketsServed'
    BY <1>t, <1>f, <1>i, <1>15 DEF TypeOK, Fail, Over, SocketsServed, OpenedSoFar, NotYet
  <2>4. Quiet'
    BY <1>t, <1>f, <1>i, <1>15 DEF TypeOK, Fail, Over, Quiet, NotYet, OpenedSoFar
  <2>5. Noticed'
    BY <1>t, <1>f, <1>i, <1>15 DEF TypeOK, Fail, Over, Noticed, NotYet, Quiet
  <2>6. Verdicts'
    BY <1>t, <1>f, <1>i, <1>15 DEF TypeOK, Fail, Over, Verdicts, Noticed, Quiet, SocketsServed
  <2>7. CleanExit'
    BY <1>t, <1>f, <1>i, <1>15 DEF TypeOK, Fail, Over, CleanExit, SocketsServed, AllDone
  <2> QED
    BY <1>t, <2>1, <2>2, <2>3, <2>4, <2>5, <2>6, <2>7 DEF IInv
<1>16. ASSUME NEW s \in Services, Report(s) PROVE IInv'
  <2>1. NotYet'
    BY <1>t, <1>f, <1>i, <1>16 DEF TypeOK, Report, HasRoom, NotYet, OpenedSoFar
  <2>2. OpenedSoFar'
    BY <1>t, <1>f, <1>i, <1>16 DEF TypeOK, Report, HasRoom, OpenedSoFar, NotYet
  <2>3. SocketsServed'
    BY <1>t, <1>f, <1>i, <1>16 DEF TypeOK, Report, HasRoom, SocketsServed, OpenedSoFar, NotYet
  <2>4. Quiet'
    BY <1>t, <1>f, <1>i, <1>16 DEF TypeOK, Report, HasRoom, Quiet, NotYet, OpenedSoFar
  <2>5. Noticed'
    BY <1>t, <1>f, <1>i, <1>16 DEF TypeOK, Report, HasRoom, Noticed, NotYet, Quiet
  <2>6. Verdicts'
    BY <1>t, <1>f, <1>i, <1>16 DEF TypeOK, Report, HasRoom, Verdicts, Noticed, Quiet,
        SocketsServed
  <2>7. CleanExit'
    BY <1>t, <1>f, <1>i, <1>16 DEF TypeOK, Report, HasRoom, CleanExit, SocketsServed, AllDone
  <2> QED
    BY <1>t, <2>1, <2>2, <2>3, <2>4, <2>5, <2>6, <2>7 DEF IInv
<1>17. ASSUME NEW s \in Services, Leave(s) PROVE IInv'
  <2>1. NotYet'
    BY <1>t, <1>f, <1>i, <1>17 DEF TypeOK, Leave, NotYet, OpenedSoFar
  <2>2. OpenedSoFar'
    BY <1>t, <1>f, <1>i, <1>17 DEF TypeOK, Leave, OpenedSoFar, NotYet
  <2>3. SocketsServed'
    BY <1>t, <1>f, <1>i, <1>17 DEF TypeOK, Leave, SocketsServed, OpenedSoFar, NotYet
  <2>4. Quiet'
    BY <1>t, <1>f, <1>i, <1>17 DEF TypeOK, Leave, Quiet, NotYet, OpenedSoFar
  <2>5. Noticed'
    BY <1>t, <1>f, <1>i, <1>17 DEF TypeOK, Leave, Noticed, NotYet, Quiet
  <2>6. Verdicts'
    BY <1>t, <1>f, <1>i, <1>17 DEF TypeOK, Leave, Verdicts, Noticed, Quiet, SocketsServed
  <2>7. CleanExit'
    BY <1>t, <1>f, <1>i, <1>17 DEF TypeOK, Leave, CleanExit, SocketsServed, AllDone
  <2> QED
    BY <1>t, <2>1, <2>2, <2>3, <2>4, <2>5, <2>6, <2>7 DEF IInv
<1>18. CASE Edit \/ Hangup \/ ReloadStep
  BY <1>t, <1>18, Beside DEF Edit, Hangup, ReloadStep, Receive, ReadFile, Apply, LeaveReload
<1>19. CASE UNCHANGED vars
  BY <1>t, <1>19, Beside DEF vars
<1> QED
  BY <1>1, <1>2, <1>3, <1>4, <1>5, <1>6, <1>7, <1>8, <1>9, <1>10, <1>11, <1>12, <1>13, <1>14,
     <1>15, <1>16, <1>17, <1>18, <1>19 DEF Next, RunStep, ServiceStep

(***************************************************************************)
(* What follows from it.                                                   *)
(***************************************************************************)

\* run() returns only when no socket is open and no goroutine of a service is
\* left, wherever the start failed and whichever service ended first.
THEOREM EndsCleanly == Spec => []CleanExit
<1>1. IInv => CleanExit
  BY DEF IInv
<1> QED
  BY <1>1, InitIInv, NextIInv, PTL DEF Spec

\* The exit code is 0 only for a program that was told to stop, and 1 only for one
\* in which something failed.
THEOREM ExitCodeTrue == Spec => []ExitCodeHonest
<1>1. IInv => ExitCodeHonest
  BY DEF IInv, Verdicts, Running, TypeOK, ExitCodeHonest, ExitCode
<1> QED
  BY <1>1, InitIInv, NextIInv, PTL DEF Spec
==============================================================================
