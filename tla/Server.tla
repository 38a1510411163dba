------------------------------- MODULE Server -------------------------------
(***************************************************************************)
(* cmd/main.go: what happens between the construction of the handler and   *)
(* the end of the process.  run() opens the sockets and spawns a goroutine *)
(* per service, waits for a signal, an error or the end of all services,   *)
(* closes what is left in a fixed order and returns; reloadConf() answers  *)
(* SIGHUP beside it.                                                       *)
(*                                                                         *)
(* Services: "udp" and "tcp" (DNS), "plain" (DoH over HTTP) and, with a    *)
(* certificate, "doh", the multiplexer "mux" that gives "doh" and "tcp"    *)
(* their connections, and "cert", which rereads the certificate.  The last *)
(* four of runDoH share one listening socket, called "tcp".                *)
(*                                                                         *)
(* A service's Serve call returns because its socket was closed, because   *)
(* it was told to shut down, or because it fails; net/http and miekg/dns   *)
(* close the socket themselves on the way out.                             *)
(***************************************************************************)
EXTENDS Naturals, Sequences, FiniteSets

CONSTANTS
    Scenarios,      \* what the configuration asks for, and two bounds: how many calls
                    \* of the operating system fail, how many SIGHUPs come
    MaxEdits        \* bound: new versions of the configuration file

ASSUME ScenariosAssumption ==
    Scenarios \subseteq [doh : BOOLEAN, net : {"", "udp", "tcp"}, plain : BOOLEAN, failures : Nat, signals : Nat]
ASSUME MaxEditsAssumption == MaxEdits \in Nat

VARIABLES
    setup,          \* the scenario
    pc,             \* run(): where it is
    open,           \* the sockets that are open
    state,          \* the goroutine of each service
    told,           \* services whose Shutdown was called while they ran
    errs,           \* number of errors in errCh
    todo,           \* the calls of the shutdown function still to make
    verdict,        \* what run() will return: "ok" or "error"
    terminated,     \* SIGINT or SIGTERM has cancelled runCtx
    failures,       \* history: failed calls
    rpc,            \* reloadConf(): where it is
    hup,            \* signals in signCh
    signalsLeft,    \* bound: SIGHUPs still to come
    disk, bad,      \* the version of the configuration file; the invalid ones
    got, service,   \* the version read, the version in service
    asked           \* history: the version on disk at the last SIGHUP

running == <<setup, pc, open, state, told, errs, todo, verdict, terminated, failures>>
reloading == <<rpc, hup, signalsLeft, disk, bad, got, service, asked>>
vars == <<running, reloading>>

Services == {"udp", "tcp", "doh", "mux", "cert", "plain"}

WantsUDP == setup.net # "tcp"
WantsTCP == setup.net # "udp"

\* The socket a service reads from; the certificate watcher has none.
Sockets(s) == IF s \in {"doh", "mux"} THEN {"tcp"} ELSE {s} \ {"cert"}

Init ==
    /\ setup \in Scenarios
    /\ pc = "udp" /\ open = {} /\ state = [s \in Services |-> "off"]
    /\ told = {} /\ errs = 0 /\ todo = <<>> /\ verdict = "ok"
    /\ terminated = FALSE /\ failures = 0
    /\ rpc = "wait" /\ hup = 0 /\ signalsLeft = setup.signals
    /\ disk = 0 /\ bad = {} /\ got = 0 /\ service = 0 /\ asked = 0

Spawn(S) == state' = [s \in Services |-> IF s \in S THEN "spawned" ELSE state[s]]

\* wg has come to zero: no goroutine of a service is left.
AllDone == \A s \in Services : state[s] \in {"off", "done"}

MayFail == failures < setup.failures

\* errCh has 16 places and is read once: a send must find room.
HasRoom == errs < 16

(***************************************************************************)
(* Opening the sockets.  A failure closes what is open and is returned;    *)
(* that of the plaintext DoH is reported like one of a running service.    *)
(***************************************************************************)

GiveUp(calls) ==
    /\ MayFail
    /\ failures' = failures + 1
    /\ verdict' = "error"
    /\ pc' = "close" /\ todo' = calls

\* runDoH spawns the UDP service at once, runPlain when every socket is open.
OpenUDP ==
    /\ pc = "udp"
    /\ \/ /\ WantsUDP
          /\ open' = open \cup {"udp"}
          /\ Spawn(IF setup.doh THEN {"udp"} ELSE {})
          /\ pc' = "tcp"
          /\ UNCHANGED <<todo, verdict, failures>>
       \/ /\ WantsUDP
          /\ GiveUp(<<>>)
          /\ UNCHANGED <<open, state>>
       \/ /\ ~WantsUDP
          /\ pc' = "tcp"
          /\ UNCHANGED <<open, state, todo, verdict, failures>>
    /\ UNCHANGED <<setup, told, errs, terminated, reloading>>

\* closeRuntimes and cleanupStarted.  These calls have no deadline, unlike those at
\* the end of run(): ShutdownContext of a server that has started returns with the
\* last query on it, and each query has the deadline of ServeDNS.
NothingToCleanUp == <<>>
CleanUp == IF WantsUDP THEN <<"udp">> ELSE <<>>

OpenTCP ==
    /\ pc = "tcp"
    /\ \/ /\ WantsTCP
          /\ open' = open \cup {"tcp"}
          /\ pc' = IF setup.doh THEN "cert" ELSE "plain"
          /\ UNCHANGED <<todo, verdict, failures>>
       \/ /\ WantsTCP
          /\ GiveUp(CleanUp)
          /\ UNCHANGED open
       \/ /\ ~WantsTCP
          /\ pc' = "plain"
          /\ UNCHANGED <<open, todo, verdict, failures>>
    /\ UNCHANGED <<setup, state, told, errs, terminated, reloading>>

LoadCert ==
    /\ pc = "cert"
    /\ \/ /\ Spawn({"cert", "doh", "tcp", "mux"})
          /\ pc' = "plain"
          /\ UNCHANGED <<open, todo, verdict, failures>>
       \/ /\ GiveUp(CleanUp)
          /\ open' = open \ {"tcp"}
          /\ UNCHANGED state
    /\ UNCHANGED <<setup, told, errs, terminated, reloading>>

\* startPlaintextDoH.
OpenPlain ==
    /\ pc = "plain"
    /\ \/ /\ setup.plain
          /\ open' = open \cup {"plain"}
          /\ Spawn({"plain"})
          /\ UNCHANGED <<errs, failures>>
       \/ /\ setup.plain /\ MayFail /\ HasRoom
          /\ failures' = failures + 1
          /\ errs' = errs + 1
          /\ UNCHANGED <<open, state>>
       \/ /\ ~setup.plain
          /\ UNCHANGED <<open, state, errs, failures>>
    /\ pc' = "runtimes"
    /\ UNCHANGED <<setup, told, todo, verdict, terminated, reloading>>

\* runPlain spawns its DNS servers; then both functions go to their select.
LastRuntimeOnly == IF "tcp" \in open THEN {"tcp"} ELSE open \cap {"udp"}
Runtimes == open \cap {"udp", "tcp"}

StartRuntimes ==
    /\ pc = "runtimes"
    /\ Spawn(IF setup.doh THEN {} ELSE Runtimes)
    /\ pc' = "select"
    /\ UNCHANGED <<setup, open, told, errs, todo, verdict, terminated, failures, reloading>>

(***************************************************************************)
(* The goroutine of a service.                                             *)
(***************************************************************************)

\* Its socket was closed, it was told to stop, or the multiplexer has ended.
Over(s) ==
    \/ s \in told
    \/ \E k \in Sockets(s) : k \notin open
    \/ /\ s \in {"doh", "tcp"}
       /\ state["mux"] \in {"failed", "reported", "done"}

Begin(s) ==
    /\ state[s] = "spawned" /\ ~Over(s)
    /\ state' = [state EXCEPT ![s] = "serving"]
    /\ UNCHANGED <<setup, pc, open, told, errs, todo, verdict, terminated, failures, reloading>>

\* The errors that closing causes are recognised by udp and tcp; net/http
\* returns the one it recognises only after Shutdown, and that of the
\* multiplexer's Accept is not among the two it looks for, so it is reported.
Silent(s) == s \in {"udp", "tcp", "cert"} \/ s \in told

\* Serve returns, also when the socket was closed before it was called.
End(s) ==
    /\ state[s] \in {"spawned", "serving"} /\ Over(s)
    /\ state' = [state EXCEPT ![s] = IF Silent(s) THEN "done" ELSE "failed"]
    /\ open' = IF s = "mux" THEN open ELSE open \ Sockets(s)
    /\ UNCHANGED <<setup, pc, told, errs, todo, verdict, terminated, failures, reloading>>

\* Serve returns of its own accord.
Fail(s) ==
    /\ state[s] \in {"spawned", "serving"} /\ ~Over(s) /\ s # "cert"
    /\ MayFail
    /\ failures' = failures + 1
    /\ state' = [state EXCEPT ![s] = "failed"]
    /\ open' = IF s = "mux" THEN open ELSE open \ Sockets(s)
    /\ UNCHANGED <<setup, pc, told, errs, todo, verdict, terminated, reloading>>

\* The error goes to errCh, ...
Report(s) ==
    /\ state[s] = "failed" /\ HasRoom
    /\ errs' = errs + 1
    /\ state' = [state EXCEPT ![s] = "reported"]
    /\ UNCHANGED <<setup, pc, open, told, todo, verdict, terminated, failures, reloading>>

\* ... and then the deferred wg.Done() is run.
Leave(s) ==
    /\ state[s] = "reported"
    /\ state' = [state EXCEPT ![s] = "done"]
    /\ UNCHANGED <<setup, pc, open, told, errs, todo, verdict, terminated, failures, reloading>>

(***************************************************************************)
(* The select of run(), and what follows each of its cases.                *)
(***************************************************************************)

\* In this order; for what was never started nothing is done.  shutdown() that
\* forgets the watcher of the certificate:
ShutdownWithoutCert ==
    IF setup.doh THEN <<"doh", "plain", "udp", "mux">> ELSE <<"udp", "tcp", "plain">>
Shutdown ==
    IF setup.doh THEN <<"cert", "doh", "plain", "udp", "mux">> ELSE <<"udp", "tcp", "plain">>

OnSignal ==
    /\ pc = "select" /\ terminated
    /\ pc' = "close" /\ todo' = Shutdown
    /\ UNCHANGED <<setup, open, state, told, errs, verdict, terminated, failures, reloading>>

\* An error may lie in errCh although this case was taken.
DoneIsFine == "ok"
DoneVerdict == IF errs > 0 THEN "error" ELSE "ok"

OnDone ==
    /\ pc = "select" /\ AllDone
    /\ verdict' = DoneVerdict
    /\ errs' = IF errs > 0 THEN errs - 1 ELSE errs
    /\ pc' = "return"
    /\ UNCHANGED <<setup, open, state, told, todo, terminated, failures, reloading>>

OnError ==
    /\ pc = "select" /\ errs > 0
    /\ errs' = errs - 1
    /\ verdict' = "error"
    /\ pc' = "close" /\ todo' = Shutdown
    /\ UNCHANGED <<setup, open, state, told, terminated, failures, reloading>>

\* A DNS server that does not serve yet refuses to shut down, and its socket is
\* closed instead; an HTTP server closes its socket when it is about to serve.
Refuses(s) == s \in {"udp", "tcp"} /\ state[s] # "serving"
ClosesLater(s) == s \in {"doh", "plain"} /\ state[s] # "serving"

\* One call of the shutdown function.  It returns: what waits for queries under way
\* has a deadline of five seconds, or, in CleanUp, ends with these queries; the
\* others only close something.
Close ==
    /\ pc = "close" /\ todo # <<>>
    /\ LET s == Head(todo)
       IN  /\ told' = IF s = "mux" \/ Refuses(s) THEN told ELSE told \cup {s}
           /\ open' = IF ClosesLater(s) THEN open ELSE open \ Sockets(s)
    /\ todo' = Tail(todo)
    /\ UNCHANGED <<setup, pc, state, errs, verdict, terminated, failures, reloading>>

\* <-done, or wg.Wait() of cleanupStarted.
Await ==
    /\ pc = "close" /\ todo = <<>> /\ AllDone
    /\ pc' = "return"
    /\ UNCHANGED <<setup, open, state, told, errs, todo, verdict, terminated, failures, reloading>>

\* main() returns: the deferred calls stop the signals and the handler, os.Exit.
Exit ==
    /\ pc = "return"
    /\ pc' = "exited"
    /\ UNCHANGED <<setup, open, state, told, errs, todo, verdict, terminated, failures, reloading>>

ExitCode == IF verdict = "ok" THEN 0 ELSE 1

\* SIGINT or SIGTERM.
Terminate ==
    /\ pc # "exited"
    /\ terminated' = TRUE
    /\ UNCHANGED <<setup, pc, open, state, told, errs, todo, verdict, failures, reloading>>

(***************************************************************************)
(* reloadConf.                                                             *)
(***************************************************************************)

ContextDone == terminated \/ pc = "exited"

\* Somebody writes the configuration file, well or badly.
Edit ==
    /\ disk < MaxEdits /\ signalsLeft > 0 /\ pc # "exited"
    /\ disk' = disk + 1
    /\ bad' \in {bad, bad \cup {disk + 1}}
    /\ UNCHANGED <<running, rpc, hup, signalsLeft, got, service, asked>>

\* signal.Notify does not wait: a signal that finds signCh full is dropped.
OnlyIfWaiting == IF rpc = "wait" THEN 1 ELSE hup
Queued == 1

Hangup ==
    /\ signalsLeft > 0 /\ pc # "exited"
    /\ signalsLeft' = signalsLeft - 1
    /\ hup' = Queued
    /\ asked' = disk
    /\ UNCHANGED <<running, rpc, disk, bad, got, service>>

Receive ==
    /\ rpc = "wait" /\ hup > 0 /\ pc # "exited"
    /\ hup' = hup - 1
    /\ rpc' = "read"
    /\ UNCHANGED <<running, signalsLeft, disk, bad, got, service, asked>>

\* os.ReadFile and yaml.Unmarshal.
ReadFile ==
    /\ rpc = "read" /\ pc # "exited"
    /\ got' = disk
    /\ rpc' = "apply"
    /\ UNCHANGED <<running, hup, signalsLeft, disk, bad, service, asked>>

\* A file that cannot be parsed or built leaves the old handler in service.
Apply ==
    /\ rpc = "apply" /\ pc # "exited"
    /\ service' = IF got \in bad THEN service ELSE got
    /\ rpc' = "wait"
    /\ UNCHANGED <<running, hup, signalsLeft, disk, bad, got, asked>>

LeaveReload ==
    /\ rpc = "wait" /\ ContextDone
    /\ rpc' = "off"
    /\ UNCHANGED <<running, hup, signalsLeft, disk, bad, got, service, asked>>

(***************************************************************************)

RunStep ==
    \/ OpenUDP \/ OpenTCP \/ LoadCert \/ OpenPlain \/ StartRuntimes
    \/ OnSignal \/ OnDone \/ OnError \/ Close \/ Await \/ Exit

ServiceStep(s) == Begin(s) \/ End(s) \/ Report(s) \/ Leave(s)

ReloadStep == Receive \/ ReadFile \/ Apply \/ LeaveReload

Next ==
    \/ RunStep \/ Terminate
    \/ \E s \in Services : ServiceStep(s) \/ Fail(s)
    \/ Edit \/ Hangup \/ ReloadStep

\* Goroutines are scheduled and every call of a shutdown returns.  Nothing has
\* to fail, nobody has to send a signal or edit the file.
Fairness ==
    /\ WF_vars(RunStep)
    /\ \A s \in Services : WF_vars(ServiceStep(s))
    /\ WF_vars(ReloadStep)

Spec == Init /\ [][Next]_vars /\ Fairness

(***************************************************************************)
(* Properties.                                                             *)
(***************************************************************************)

\* The type of every variable.
TypeOK ==
    /\ setup \in Scenarios
    /\ pc \in {"udp", "tcp", "cert", "plain", "runtimes", "select", "close", "return", "exited"}
    /\ open \subseteq {"udp", "tcp", "plain"}
    /\ state \in [Services -> {"off", "spawned", "serving", "failed", "reported", "done"}]
    /\ told \subseteq Services
    /\ errs \in 0..16
    /\ todo \in Seq(Services)
    /\ verdict \in {"ok", "error"}
    /\ terminated \in BOOLEAN
    /\ failures \in 0..setup.failures
    /\ rpc \in {"wait", "read", "apply", "off"}
    /\ hup \in {0, 1}
    /\ signalsLeft \in Nat
    /\ {disk, got, service, asked} \subseteq 0..MaxEdits
    /\ bad \subseteq 1..MaxEdits

\* When run() has returned, no socket of the program is open and no goroutine of
\* a service is left, wherever in the start something failed and whichever
\* service ended first.
CleanExit == pc \in {"return", "exited"} => open = {} /\ AllDone

\* The exit code tells the truth: 0 only if the program was told to stop, 1 only
\* if something failed - not because of the errors that closing causes.
ExitCodeHonest ==
    pc = "exited" => \/ ExitCode = 0 /\ terminated
                     \/ ExitCode = 1 /\ failures > 0

\* The program does not live on by halves: after a signal, or after any service
\* has failed to start or to serve, it comes to its end.
EndsAsAWhole == (terminated \/ failures > 0) ~> pc = "exited"

\* Unless something fails or stops it, every service asked for comes to serve.
Wanted ==
    (IF WantsUDP THEN {"udp"} ELSE {}) \cup
    (IF WantsTCP THEN {"tcp"} \cup (IF setup.doh THEN {"doh", "mux", "cert"} ELSE {}) ELSE {}) \cup
    (IF setup.plain THEN {"plain"} ELSE {})

ComesUp == <>(\/ terminated \/ failures > 0
              \/ \A s \in Services : state[s] = "serving" <=> s \in Wanted)

\* Whoever writes a valid file and then sends SIGHUP gets it into service, or a
\* later one, also when reloads overlap with the signal and signals are dropped -
\* unless the program ends first, or an invalid file is written after it.
SignalsHeeded ==
    \A v \in 1..MaxEdits :
      asked = v /\ v \notin bad ~> \/ service >= v \/ ContextDone
                                   \/ \E w \in bad : w > v
==============================================================================
