------------------------------ MODULE DoHCaller ------------------------------
(***************************************************************************)
(* The DoH upstream of outbound/caller.go (type DoHCallerV2).              *)
(*                                                                         *)
(* A query that finds no HTTP client asks the background goroutine run()   *)
(* to resolve the DoH server's own host name: it puts its request in       *)
(* requireCh and waits for a token of satisfyCh.  run() also resolves once *)
(* a day, when its ticker fires, and leaves when Exit() closes cancelCh.   *)
(* A query stops waiting when its context ends, which is what happens to   *)
(* the losers as soon as another upstream of the group has answered.       *)
(***************************************************************************)
EXTENDS Naturals, Sequences, FiniteSets

CONSTANTS
    Waiters,    \* the goroutines that call getClient(); each may call again
    Addrs       \* the IP addresses a lookup of the host can return

ASSUME WaitersAssumption == IsFiniteSet(Waiters)
ASSUME AddrsAssumption == Addrs # {} /\ "name" \notin Addrs

VARIABLES
    host,       \* the host of the URL: "name", or the IP literal it is
    clients,    \* caller.clients, one per address
    requireCh,  \* channel of requests, capacity 1
    satisfyCh,  \* number of tokens in the channel, capacity 1
    cancelled,  \* cancelCh is closed
    tick,       \* tick.C holds a tick (a ticker's channel has capacity 1)
    runPc,      \* where run() is
    job,        \* what run() took: the tick, or the kind of request
    pc,         \* where each getClient() is; "idle" is outside of it
    failed      \* history: some resolution has ended without an address

vars == <<host, clients, requireCh, satisfyCh, cancelled, tick, runPc, job, pc, failed>>

\* What a request asks: for the DoH server's own name, or for another one.
Questions == {"own", "other"}

Waiting == {w \in Waiters : pc[w] = "satisfy"}

\* Room in a channel of capacity 1 that holds n elements.
HasRoom(n) == n < 1

Init ==
    /\ host \in {"name"} \cup Addrs
    /\ clients = IF host = "name" THEN {} ELSE {host}
    /\ requireCh = <<>>
    /\ satisfyCh = 0
    /\ cancelled = FALSE
    /\ tick = FALSE
    /\ runPc = "off"
    /\ job = "none"
    /\ pc = [w \in Waiters |-> "idle"]
    /\ failed = FALSE

(***************************************************************************)
(* The background goroutine.                                               *)
(***************************************************************************)

Start ==
    /\ runPc = "off"
    /\ runPc' = "select"
    /\ UNCHANGED <<host, clients, requireCh, satisfyCh, cancelled, tick, job, pc, failed>>

\* The ticker fires; the tick is dropped when the previous one is still there.
TickerFires ==
    /\ runPc \notin {"off", "exited"}
    /\ tick' = TRUE
    /\ UNCHANGED <<host, clients, requireCh, satisfyCh, cancelled, runPc, job, pc, failed>>

TakeTick ==
    /\ runPc = "select" /\ tick
    /\ tick' = FALSE
    /\ job' = "tick"
    /\ runPc' = "resolve"
    /\ UNCHANGED <<host, clients, requireCh, satisfyCh, cancelled, pc, failed>>

\* A request is resolved only while there is no client, and answered anyway.
AnswerAtOnce == "notify"
AfterTaking == IF clients = {} THEN "resolve" ELSE "notify"

TakeRequest ==
    /\ runPc = "select" /\ requireCh # <<>>
    /\ requireCh' = Tail(requireCh)
    /\ job' = Head(requireCh)
    /\ runPc' = AfterTaking
    /\ UNCHANGED <<host, clients, satisfyCh, cancelled, tick, pc, failed>>

\* The addresses resolve() can end with: the literal's own, none when the
\* request asks for the host itself (a loop through ts-dns), else whatever the
\* A and the AAAA lookup bring before their timeouts.
Outcomes ==
    IF host # "name" THEN {{host}}
    ELSE IF job = "own" THEN {{}}
    ELSE SUBSET Addrs

\* The clients are replaced only by a lookup that found something.
WhateverWasFound(ips) == ips
NewClients(ips) == IF ips # {} THEN ips ELSE clients

NeverNotify == "select"
AfterResolve == IF job = "tick" THEN "select" ELSE "notify"

Resolve ==
    /\ runPc = "resolve"
    /\ \E ips \in Outcomes :
         /\ clients' = NewClients(ips)
         /\ failed' = (failed \/ ips = {})
    /\ runPc' = AfterResolve
    /\ UNCHANGED <<host, requireCh, satisfyCh, cancelled, tick, job, pc>>

\* satisfyCh <- struct{}{} puts one more token in the channel.
DroppedToken == satisfyCh
OneMoreToken == satisfyCh + 1

\* The send of run()'s last select: it blocks while an unclaimed token is in the channel.
Notify ==
    /\ runPc = "notify" /\ HasRoom(satisfyCh)
    /\ satisfyCh' = OneMoreToken
    /\ runPc' = "select"
    /\ UNCHANGED <<host, clients, requireCh, cancelled, tick, job, pc, failed>>

\* The other branch of that select: cancelCh.  The loop then goes round again.
NotifyForgetsCancel == FALSE /\ UNCHANGED vars
NotifyCancelled ==
    /\ runPc = "notify" /\ cancelled
    /\ runPc' = "select"
    /\ UNCHANGED <<host, clients, requireCh, satisfyCh, cancelled, tick, job, pc, failed>>

RunExits ==
    /\ runPc = "select" /\ cancelled
    /\ runPc' = "exited"
    /\ UNCHANGED <<host, clients, requireCh, satisfyCh, cancelled, tick, job, pc, failed>>

\* Exit(), called by groupImpl.Stop() once the group was started.
Exit ==
    /\ runPc # "off" /\ ~cancelled
    /\ cancelled' = TRUE
    /\ UNCHANGED <<host, clients, requireCh, satisfyCh, tick, runPc, job, pc, failed>>

(***************************************************************************)
(* getClient().  With a client at hand it returns at once and changes      *)
(* nothing, which is a stuttering step here.                               *)
(***************************************************************************)

Move(w, from, to) == pc[w] = from /\ pc' = [pc EXCEPT ![w] = to]

NoClient(w) ==
    /\ clients = {}
    /\ Move(w, "idle", "require")
    /\ UNCHANGED <<host, clients, requireCh, satisfyCh, cancelled, tick, runPc, job, failed>>

Require(w) ==
    /\ HasRoom(Len(requireCh))
    /\ Move(w, "require", "satisfy")
    /\ \E q \in Questions : requireCh' = Append(requireCh, q)
    /\ UNCHANGED <<host, clients, satisfyCh, cancelled, tick, runPc, job, failed>>

Satisfied(w) ==
    /\ satisfyCh > 0
    /\ Move(w, "satisfy", "reread")
    /\ satisfyCh' = satisfyCh - 1
    /\ UNCHANGED <<host, clients, requireCh, cancelled, tick, runPc, job, failed>>

\* The client list is read again: a client of it is returned, or nil if empty.
Reread(w) ==
    /\ Move(w, "reread", "idle")
    /\ UNCHANGED <<host, clients, requireCh, satisfyCh, cancelled, tick, runPc, job, failed>>

LeaveSelect(w) ==
    /\ \/ Move(w, "require", "idle")
       \/ Move(w, "satisfy", "idle")
    /\ UNCHANGED <<host, clients, requireCh, satisfyCh, cancelled, tick, runPc, job, failed>>

\* ctx.Done(): the query timed out, or another upstream answered first.
GiveUp(w) == LeaveSelect(w)

\* The cancelCh branch of either select.
ReturnCancelled(w) == cancelled /\ LeaveSelect(w)

(***************************************************************************)

RunStep == TakeTick \/ TakeRequest \/ Resolve \/ Notify \/ NotifyCancelled \/ RunExits

Next ==
    \/ Start \/ TickerFires \/ Exit
    \/ RunStep
    \/ \E w \in Waiters :
         \/ NoClient(w) \/ Require(w) \/ Satisfied(w) \/ Reread(w)
         \/ GiveUp(w) \/ ReturnCancelled(w)

(***************************************************************************)
(* Fairness.  A Go select picks among its ready branches at random, and    *)
(* the goroutines blocked on a channel are served in the order they came:  *)
(* both are strong fairness.  Lookups end (a one second timeout).  No      *)
(* fairness on NoClient, TickerFires, GiveUp and Exit: nobody need ask, no *)
(* day need pass, nobody need give up, the group may run for ever.         *)
(***************************************************************************)
RunFairness ==
    /\ WF_vars(Start)
    /\ WF_vars(Resolve)
    /\ WF_vars(Notify \/ NotifyCancelled)
    /\ SF_vars(TakeTick)
    /\ SF_vars(TakeRequest)
    /\ SF_vars(RunExits)

WaiterFairness(w) ==
    /\ SF_vars(Require(w))
    /\ SF_vars(Satisfied(w))
    /\ WF_vars(Reread(w))
    /\ WF_vars(ReturnCancelled(w))

Fairness == RunFairness /\ \A w \in Waiters : WaiterFairness(w)

Spec == Init /\ [][Next]_vars /\ Fairness

(***************************************************************************)
(* Properties.                                                             *)
(***************************************************************************)

\* The type of every variable; both channels stay within their capacity of 1.
TypeOK ==
    /\ host \in {"name"} \cup Addrs
    /\ clients \in SUBSET Addrs
    /\ requireCh \in Seq(Questions) /\ Len(requireCh) <= 1
    /\ satisfyCh \in {0, 1}
    /\ cancelled \in BOOLEAN
    /\ tick \in BOOLEAN
    /\ runPc \in {"off", "select", "resolve", "notify", "exited"}
    /\ job \in {"none", "tick"} \cup Questions
    /\ pc \in [Waiters -> {"idle", "require", "satisfy", "reread"}]
    /\ failed \in BOOLEAN

\* A request run() has taken and not answered yet.
InHand == IF runPc \in {"resolve", "notify"} /\ job \in Questions THEN 1 ELSE 0

\* No wakeup is lost: until Exit(), every getClient() that waits on satisfyCh
\* is matched by a token, by a request still queued or by the one run() works
\* on, whatever waiters gave up in between and whoever took whose token.
NoLostWakeup ==
    ~cancelled => Cardinality(Waiting) <= Len(requireCh) + InHand + satisfyCh

\* getClient() comes back from satisfyCh without a client (and the upstream is
\* counted as failing) only if a resolution really ended without an address:
\* a token, even one left by a waiter that gave up, always follows the attempt
\* it announces.
EmptyHandedOnlyAfterFailure ==
    (\E w \in Waiters : pc[w] = "reread") /\ clients = {} => failed

\* A failing daily or on-demand lookup never takes away the clients that work.
ClientsNeverLost == [][clients # {} => clients' # {}]_clients

\* The one state in which nobody is served any more: a token nobody waits for
\* fills satisfyCh, run() is blocked on a second one, and the request of a
\* third waiter that gave up fills requireCh.
Wedged ==
    /\ runPc = "notify" /\ satisfyCh = 1 /\ requireCh # <<>>
    /\ Waiting = {}

\* A getClient() that neither gives up nor is cancelled comes back, unless the
\* three abandoned requests of Wedged have come together.
ServedUnlessWedged ==
    \A w \in Waiters : pc[w] # "idle" ~> (pc[w] = "idle" \/ Wedged)

\* Exit() ends run() from wherever it is, also from a blocked notification,
\* and leaves no getClient() behind: the goroutines of a replaced group go away.
ExitEndsAll ==
    /\ cancelled ~> runPc = "exited"
    /\ \A w \in Waiters : (cancelled /\ pc[w] # "idle") ~> pc[w] = "idle"

\* caller.go:189: the goroutine resolves the server's name at every tick.  The
\* tick is taken, or the caller is stopped.
TickServed == (tick /\ ~cancelled) ~> (~tick \/ cancelled)
==============================================================================
