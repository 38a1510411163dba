---------------------------- MODULE CallerSelect ----------------------------
(***************************************************************************)
(* How a group of outbound/groups.go answers a query from its upstreams    *)
(* (Handle, runCallerAttempts, firstResponse, fastestResp) and which       *)
(* upstreams it asks: all of them, racing, or only the one that is active  *)
(* for the host (hostStats).                                               *)
(*                                                                         *)
(* Instants are kept as distances from now, capped where the code stops    *)
(* telling them apart, so that time may pass for ever: what is left of an  *)
(* active caller's window (reselectAfter), how long an entry has not been  *)
(* used (lastUsed), how long ago the last cleanup was (lastCleanup).       *)
(*                                                                         *)
(* hostStats keeps three fields that say less than they could: an entry is *)
(* active exactly when activeIndex is not -1, and it is "seen" as soon as  *)
(* the critical section that made it ends.                                 *)
(***************************************************************************)
EXTENDS Integers, Sequences, FiniteSets

CONSTANTS
    Requests,       \* concurrent calls of Handle; each is used again and again
    Hosts,          \* the names asked for
    Callers,        \* allCallers of the group
    NoCaller,       \* no active caller (index -1); a nil result
    NoEntry,        \* the host is not in hostStats
    Reselect,       \* callerReselectInterval
    TTL,            \* callerStatsTTL
    CleanupEvery    \* callerStatsCleanupInterval

ASSUME CallersAssumption == Callers # {} /\ IsFiniteSet(Callers) /\ NoCaller \notin Callers
ASSUME HostsAssumption == Hosts # {}
ASSUME TimesAssumption == {Reselect, TTL, CleanupEvery} \subseteq Nat \ {0}

VARIABLES
    stats,          \* hostStats
    sinceCleanup,   \* since lastCleanup; CleanupEvery when one is due
    phase,          \* where Handle is
    host,           \* the host it asks for
    cand,           \* candidates
    attempt,        \* what became of the goroutine of each candidate
    respCh,         \* results sent and not received
    received,       \* the loop counter of firstResponse and fastestResp
    result,         \* the caller whose answer Handle returns
    (* history *)
    expired,        \* the query's context has ended by its deadline
    won,            \* callers whose answer was the result for a host
    fallen,         \* callers that failed for a host after their last success
    askedAgo        \* how long ago the host was last asked for, up to TTL + 1

queries == <<phase, host, cand, attempt, respCh, received, result, expired>>
vars == <<stats, sinceCleanup, queries, won, fallen, askedAgo>>

Entry == [active : Callers \cup {NoCaller}, window : 0..Reselect, unused : 0..(TTL + 1)]
ASSUME EntryAssumption == NoEntry \notin Entry

Init ==
    /\ stats = [h \in Hosts |-> NoEntry]
    /\ sinceCleanup = CleanupEvery      \* lastCleanup.IsZero()
    /\ phase = [r \in Requests |-> "idle"]
    /\ host = [r \in Requests |-> CHOOSE h \in Hosts : TRUE]
    /\ cand = [r \in Requests |-> {}]
    /\ attempt = [r \in Requests |-> [c \in Callers |-> "none"]]
    /\ respCh = [r \in Requests |-> <<>>]
    /\ received = [r \in Requests |-> 0]
    /\ result = [r \in Requests |-> NoCaller]
    /\ expired = [r \in Requests |-> FALSE]
    /\ won = {}
    /\ fallen = {}
    /\ askedAgo = [h \in Hosts |-> TTL + 1]

(***************************************************************************)
(* hostStats, each operator one critical section of stateMu.               *)
(***************************************************************************)

\* cleanupHostStatsLocked: at most once per interval.
CleanupDue == sinceCleanup >= CleanupEvery

Cleaned(s) ==
    IF CleanupDue
    THEN [h \in Hosts |-> IF s[h] # NoEntry /\ s[h].unused > TTL THEN NoEntry ELSE s[h]]
    ELSE s

\* candidatesForHost refreshes lastUsed of an entry it finds...
NotRefreshed(s, h) == s
Refreshed(s, h) == IF s[h] = NoEntry THEN s ELSE [s EXCEPT ![h].unused = 0]

\* ... and lets only the active caller be asked while its window lasts.
Candidates(e) ==
    IF e # NoEntry /\ e.active # NoCaller /\ e.window > 0 THEN {e.active} ELSE Callers

\* recordCallerSuccess: the window starts afresh unless this caller is active
\* already and its window still open.
SucceededExtends(e, c) ==
    [active |-> c,
     window |-> IF e # NoEntry /\ e.active = c THEN e.window + Reselect ELSE Reselect,
     unused |-> 0]
Succeeded(e, c) ==
    [active |-> c,
     window |-> IF e # NoEntry /\ e.active = c /\ e.window > 0 THEN e.window ELSE Reselect,
     unused |-> 0]

\* recordCallerFailure: it only demotes the caller that failed.
FailureForgiven(e, c) ==
    IF e # NoEntry /\ e.window > 0
    THEN [e EXCEPT !.unused = 0]
    ELSE [active |-> NoCaller, window |-> 0, unused |-> 0]
Failed(e, c) ==
    IF e # NoEntry /\ e.active # c
    THEN [e EXCEPT !.unused = 0]
    ELSE [active |-> NoCaller, window |-> 0, unused |-> 0]

(***************************************************************************)
(* Handle.                                                                 *)
(***************************************************************************)

\* A group without upstreams would return nil at once; CallersAssumption leaves it out.
Handle(r, h) ==
    /\ phase[r] = "idle"
    /\ LET s == Refreshed(Cleaned(stats), h)
           asked == Candidates(s[h])
       IN  /\ stats' = s
           /\ cand' = [cand EXCEPT ![r] = asked]
           /\ attempt' = [attempt EXCEPT ![r] =
                            [c \in Callers |-> IF c \in asked THEN "calling" ELSE "none"]]
    /\ sinceCleanup' = IF CleanupDue THEN 0 ELSE sinceCleanup
    /\ phase' = [phase EXCEPT ![r] = "racing"]
    /\ host' = [host EXCEPT ![r] = h]
    /\ askedAgo' = [askedAgo EXCEPT ![h] = 0]
    /\ UNCHANGED <<respCh, received, result, expired, won, fallen>>

\* The goroutine of an attempt sends its result; respCh has room for all of them.
Send(ch, c) == Append(ch, c)

\* What an attempt that was answered does to hostStats: nothing yet.
RecordedEarly(r, c) == [stats EXCEPT ![host[r]] = Succeeded(@, c)]
NotRecordedYet(r, c) == stats

\* runCallerAttempt: the upstream has answered.
CallAnswered(r, c) ==
    /\ attempt[r][c] = "calling"
    /\ attempt' = [attempt EXCEPT ![r][c] = "answered"]
    /\ respCh' = [respCh EXCEPT ![r] = Send(@, c)]
    /\ stats' = NotRecordedYet(r, c)
    /\ UNCHANGED <<sinceCleanup, phase, host, cand, received, result, expired, won, fallen, askedAgo>>

\* A failed attempt sends nil.
FailureNotSent(ch) == ch
SendFailure(ch) == Send(ch, NoCaller)

\* An error other than context.Canceled is recorded, also after Handle has
\* returned: sockets do not always notice that the query is over.
CallFailed(r, c) ==
    /\ attempt[r][c] = "calling"
    /\ attempt' = [attempt EXCEPT ![r][c] = "failed"]
    /\ stats' = [stats EXCEPT ![host[r]] = Failed(@, c)]
    /\ fallen' = fallen \cup {<<host[r], c>>}
    /\ respCh' = [respCh EXCEPT ![r] = SendFailure(@)]
    /\ UNCHANGED <<sinceCleanup, phase, host, cand, received, result, expired, won, askedAgo>>

\* Handle has returned, its deferred cancel() ends the call.
CallCancelled(r, c) ==
    /\ attempt[r][c] = "calling" /\ phase[r] = "done" /\ ~expired[r]
    /\ attempt' = [attempt EXCEPT ![r][c] = "cancelled"]
    /\ UNCHANGED <<stats, sinceCleanup, phase, host, cand, respCh, received, result,
                   expired, won, fallen, askedAgo>>

\* One turn of the receive loop, common to firstResponse and fastestResp.
Received(r) ==
    /\ phase[r] = "racing" /\ respCh[r] # <<>>
    /\ respCh' = [respCh EXCEPT ![r] = Tail(@)]
    /\ received' = [received EXCEPT ![r] = @ + 1]

GivesUpAtFirstFailure(r) == TRUE
LoopEnds(r) == received[r] + 1 = Cardinality(cand[r])

ReceiveFailure(r) ==
    /\ Received(r) /\ Head(respCh[r]) = NoCaller
    /\ phase' = [phase EXCEPT ![r] = IF LoopEnds(r) THEN "done" ELSE "racing"]
    /\ UNCHANGED <<stats, sinceCleanup, host, cand, attempt, result, expired, won, fallen, askedAgo>>

\* The success of caller c is recorded and its answer returned.
Return(r, c) ==
    /\ phase' = [phase EXCEPT ![r] = "done"]
    /\ stats' = [stats EXCEPT ![host[r]] = Succeeded(@, c)]
    /\ fallen' = fallen \ {<<host[r], c>>}

ReceiveAnswer(r) ==
    /\ Received(r) /\ Head(respCh[r]) # NoCaller
    /\ result' = [result EXCEPT ![r] = Head(respCh[r])]
    /\ won' = won \cup {<<host[r], Head(respCh[r])>>}
    /\ \/ Return(r, Head(respCh[r]))
       \/ /\ phase' = [phase EXCEPT ![r] = "pinging"]   \* two addresses or more
          /\ UNCHANGED <<stats, fallen>>
    /\ UNCHANGED <<sinceCleanup, host, cand, attempt, expired, askedAgo>>

\* FastestPingIP has returned, an address or an error: recorded only now.
PingReturns(r) ==
    /\ phase[r] = "pinging"
    /\ Return(r, result[r])
    /\ UNCHANGED <<sinceCleanup, host, cand, attempt, respCh, received, result, expired, won, askedAgo>>

\* The context ends while Handle waits for a result.
Expire(r) ==
    /\ phase[r] = "racing"
    /\ phase' = [phase EXCEPT ![r] = "done"]
    /\ expired' = [expired EXCEPT ![r] = TRUE]
    /\ UNCHANGED <<stats, sinceCleanup, host, cand, attempt, respCh, received, result, won, fallen, askedAgo>>

\* All goroutines of a finished query are gone: r stands for another query.
Forget(r) ==
    /\ phase[r] = "done" /\ \A c \in Callers : attempt[r][c] # "calling"
    /\ phase' = [phase EXCEPT ![r] = "idle"]
    /\ cand' = [cand EXCEPT ![r] = {}]
    /\ attempt' = [attempt EXCEPT ![r] = [c \in Callers |-> "none"]]
    /\ respCh' = [respCh EXCEPT ![r] = <<>>]
    /\ received' = [received EXCEPT ![r] = 0]
    /\ result' = [result EXCEPT ![r] = NoCaller]
    /\ expired' = [expired EXCEPT ![r] = FALSE]
    /\ UNCHANGED <<stats, sinceCleanup, host, won, fallen, askedAgo>>

(***************************************************************************)
(* Time.                                                                   *)
(***************************************************************************)
Later(n, cap) == IF n < cap THEN n + 1 ELSE cap

Tick ==
    /\ stats' = [h \in Hosts |->
                   IF stats[h] = NoEntry THEN NoEntry
                   ELSE [stats[h] EXCEPT !.window = IF @ > 0 THEN @ - 1 ELSE 0,
                                         !.unused = Later(@, TTL + 1)]]
    /\ sinceCleanup' = Later(sinceCleanup, CleanupEvery)
    /\ askedAgo' = [h \in Hosts |-> Later(askedAgo[h], TTL + 1)]
    /\ UNCHANGED <<queries, won, fallen>>

Next ==
    \/ \E r \in Requests :
         \/ \E h \in Hosts : Handle(r, h)
         \/ \E c \in Callers : CallAnswered(r, c) \/ CallFailed(r, c) \/ CallCancelled(r, c)
         \/ ReceiveFailure(r) \/ ReceiveAnswer(r) \/ PingReturns(r) \/ Expire(r) \/ Forget(r)
    \/ Tick

Spec == Init /\ [][Next]_vars

(***************************************************************************)
(* Properties.                                                             *)
(***************************************************************************)

\* The type of every variable.
TypeOK ==
    /\ stats \in [Hosts -> Entry \cup {NoEntry}]
    /\ sinceCleanup \in 0..CleanupEvery
    /\ phase \in [Requests -> {"idle", "racing", "pinging", "done"}]
    /\ host \in [Requests -> Hosts]
    /\ cand \in [Requests -> SUBSET Callers]
    /\ attempt \in [Requests -> [Callers -> {"none", "calling", "answered", "failed", "cancelled"}]]
    /\ respCh \in [Requests -> Seq(Callers \cup {NoCaller})]
    /\ received \in [Requests -> Nat]
    /\ result \in [Requests -> Callers \cup {NoCaller}]
    /\ expired \in [Requests -> BOOLEAN]
    /\ won \in SUBSET (Hosts \X Callers)
    /\ fallen \in SUBSET (Hosts \X Callers)
    /\ askedAgo \in [Hosts -> 0..(TTL + 1)]

Calling(r) == {c \in Callers : attempt[r][c] = "calling"}

\* Handle never waits for a result nobody will send: the attempts under way and
\* the results in the channel are exactly the turns its loop has left, whatever
\* attempts failed in whatever order.  Only its context can make it wait longer
\* than the slowest upstream.
EnoughResultsComing ==
    \A r \in Requests :
      phase[r] = "racing" =>
        /\ Cardinality(Calling(r)) + Len(respCh[r]) + received[r] = Cardinality(cand[r])
        /\ received[r] < Cardinality(cand[r])

\* Handle returns nothing before its deadline only if every upstream it asked
\* has failed: one slow upstream that answers is enough.
NothingOnlyIfAllFailed ==
    \A r \in Requests :
      phase[r] = "done" /\ result[r] = NoCaller /\ ~expired[r] =>
        \A c \in cand[r] : attempt[r][c] = "failed"

\* groups_test.go:582: only the caller whose answer was chosen becomes active for
\* the host: an upstream that merely answered, too late or cancelled, never does.
ActiveHasWon ==
    \A h \in Hosts :
      stats[h] # NoEntry /\ stats[h].active # NoCaller => <<h, stats[h].active>> \in won

\* groups_test.go:475: an upstream that has failed for a host since its last
\* recorded success is never asked alone, even when the failure comes from a
\* query that was overtaken by others.
FallenNotAskedAlone ==
    [][\A r \in Requests :
         phase[r] = "idle" /\ phase'[r] = "racing" /\ cand'[r] # Callers =>
           \A c \in cand'[r] : <<host'[r], c>> \notin fallen]_vars

\* A host that was asked for within the last callerStatsTTL keeps its entry,
\* whichever host's query runs the cleanup.
RecentHostsKept ==
    [][\A h \in Hosts :
         stats[h] # NoEntry /\ stats'[h] = NoEntry => askedAgo[h] > TTL]_vars
==============================================================================
