------------------------- MODULE CallerSelect_proofs -------------------------
(***************************************************************************)
(* Proofs about CallerSelect, for any number of concurrent queries, hosts  *)
(* and upstreams and any intervals: the type invariant, that Handle never  *)
(* waits for a result nobody sends and comes back empty-handed only when   *)
(* every upstream failed, and what hostStats may say of an upstream.       *)
(***************************************************************************)
EXTENDS CallerSelect, FiniteSetTheorems, SequenceTheorems, TLAPS

Entries == Entry \cup {NoEntry}
Outcomes == {"none", "calling", "answered", "failed", "cancelled"}

(***************************************************************************)
(* The operators on hostStats.                                             *)
(***************************************************************************)

LEMMA EntryFields ==
  ASSUME NEW e \in Entry
  PROVE  /\ e # NoEntry
         /\ e.active \in Callers \cup {NoCaller} /\ e.window \in 0..Reselect
         /\ e.unused \in 0..(TTL + 1)
BY EntryAssumption DEF Entry

LEMMA Constant ==
  /\ TTL \in Nat /\ Reselect \in Nat /\ CleanupEvery \in Nat /\ Reselect > 0
  /\ 0 \in 0..Reselect /\ Reselect \in 0..Reselect /\ 0 \in 0..(TTL + 1) /\ TTL + 1 \in 0..(TTL + 1)
BY TimesAssumption

\* What a success and a failure make of an entry (groups.go:596-647).
LEMMA Recorded ==
  ASSUME NEW e \in Entries, NEW c \in Callers
  PROVE  /\ Succeeded(e, c) \in Entry /\ Succeeded(e, c).active = c /\ Succeeded(e, c).unused = 0
         /\ Failed(e, c) \in Entry /\ Failed(e, c).unused = 0
         /\ \/ Failed(e, c).active = NoCaller
            \/ e # NoEntry /\ Failed(e, c).active = e.active /\ e.active # c
<1>1. e # NoEntry => e \in Entry /\ e.active \in Callers \cup {NoCaller} /\ e.window \in 0..Reselect
  BY EntryFields DEF Entries
<1>2. Succeeded(e, c) \in Entry /\ Succeeded(e, c).active = c /\ Succeeded(e, c).unused = 0
  BY <1>1, Constant DEF Succeeded, Entry
<1>3. CASE e # NoEntry /\ e.active # c
  <2>1. Failed(e, c) = [active |-> e.active, window |-> e.window, unused |-> 0]
    BY <1>1, <1>3 DEF Failed, Entry
  <2> QED
    BY <1>1, <1>2, <1>3, <2>1, Constant DEF Entry
<1>4. CASE ~(e # NoEntry /\ e.active # c)
  <2>1. Failed(e, c) = [active |-> NoCaller, window |-> 0, unused |-> 0]
    BY <1>4 DEF Failed
  <2> QED
    BY <1>2, <2>1, Constant DEF Entry
<1> QED
  BY <1>3, <1>4

\* Candidates are callers of the group, and there is one (groups.go:545-594).
LEMMA SomeCandidate ==
  ASSUME NEW e \in Entries
  PROVE  /\ Candidates(e) \subseteq Callers /\ Candidates(e) # {}
         /\ \/ Candidates(e) = Callers
            \/ e # NoEntry /\ e.active # NoCaller /\ Candidates(e) = {e.active}
<1>1. e # NoEntry => e.active \in Callers \cup {NoCaller}
  BY EntryFields DEF Entries
<1>2. CASE e # NoEntry /\ e.active # NoCaller /\ e.window > 0
  <2>1. Candidates(e) = {e.active} /\ e.active \in Callers
    BY <1>1, <1>2 DEF Candidates
  <2> QED
    BY <1>2, <2>1
<1>3. CASE ~(e # NoEntry /\ e.active # NoCaller /\ e.window > 0)
  <2>1. Candidates(e) = Callers
    BY <1>3 DEF Candidates
  <2> QED
    BY <2>1, CallersAssumption
<1> QED
  BY <1>2, <1>3

\* cleanupHostStatsLocked keeps an entry as it is or forgets it (groups.go:649-667).
LEMMA CleanedOrKept ==
  ASSUME NEW s \in [Hosts -> Entries]
  PROVE  \A k \in Hosts :
           \/ Cleaned(s)[k] = s[k]
           \/ Cleaned(s)[k] = NoEntry /\ s[k] # NoEntry /\ s[k].unused > TTL
<1> TAKE k \in Hosts
<1>1. CASE CleanupDue
  <2>1. Cleaned(s)[k] = IF s[k] # NoEntry /\ s[k].unused > TTL THEN NoEntry ELSE s[k]
    BY <1>1 DEF Cleaned
  <2> QED
    BY <2>1
<1>2. CASE ~CleanupDue
  <2>1. Cleaned(s) = s
    BY <1>2 DEF Cleaned
  <2> QED
    BY <2>1
<1> QED
  BY <1>1, <1>2

\* A query's view of hostStats: entries refreshed or forgotten, none changed
\* otherwise (groups.go:545-594, 649-667).
LEMMA Viewed ==
  ASSUME NEW s \in [Hosts -> Entries], NEW h \in Hosts, NEW g \in Hosts,
         NEW t, t = Refreshed(Cleaned(s), h)
  PROVE  /\ t \in [Hosts -> Entries]
         /\ \/ t[g] = NoEntry /\ (s[g] = NoEntry \/ s[g].unused > TTL)
            \/ /\ s[g] # NoEntry /\ t[g] # NoEntry
               /\ t[g].active = s[g].active
               /\ t[g].unused = IF g = h THEN 0 ELSE s[g].unused
<1> DEFINE u == Cleaned(s)
<1>1. u \in [Hosts -> Entries]
  BY DEF Cleaned, Entries
<1>2. \A k \in Hosts : u[k] = s[k] \/ (u[k] = NoEntry /\ s[k] # NoEntry /\ s[k].unused > TTL)
  BY CleanedOrKept
<1>t. t = Refreshed(u, h)
  OBVIOUS
<1> HIDE DEF u
<1>3. CASE u[h] = NoEntry
  <2>1. t = u
    BY <1>3, <1>t DEF Refreshed
  <2>2. u[g] \in Entries
    BY <1>1
  <2> QED
    BY <1>1, <1>2, <1>3, <2>1, <2>2
<1>4. CASE u[h] # NoEntry
  <2>1. u[h] \in Entry
    BY <1>1, <1>4 DEF Entries
  <2>2. [u[h] EXCEPT !.unused = 0] \in Entry
    BY <2>1, Constant DEF Entry
  <2>3. t = [u EXCEPT ![h] = [u[h] EXCEPT !.unused = 0]]
    BY <1>4, <1>t DEF Refreshed
  <2>4. t \in [Hosts -> Entries]
    BY <1>1, <2>2, <2>3 DEF Entries
  <2>5. /\ [u[h] EXCEPT !.unused = 0].active = u[h].active
        /\ [u[h] EXCEPT !.unused = 0].unused = 0
    BY <2>1 DEF Entry
  <2>6. t[h] # NoEntry
    BY <1>1, <2>2, <2>3, EntryAssumption
  <2> QED
    BY <1>1, <1>2, <1>4, <2>3, <2>4, <2>5, <2>6
<1> QED
  BY <1>3, <1>4

LEMMA LaterType ==
  ASSUME NEW n \in Nat, NEW cap \in Nat, n <= cap
  PROVE  Later(n, cap) \in 0..cap
BY DEF Later

\* A unit of time later an entry is still one.
LEMMA Older ==
  ASSUME NEW e \in Entry
  PROVE  [e EXCEPT !.window = IF @ > 0 THEN @ - 1 ELSE 0, !.unused = Later(@, TTL + 1)] \in Entry
<1>1. /\ (IF e.window > 0 THEN e.window - 1 ELSE 0) \in 0..Reselect
      /\ Later(e.unused, TTL + 1) \in 0..(TTL + 1)
  BY LaterType, EntryFields, Constant
<1> QED
  BY <1>1 DEF Entry

(***************************************************************************)
(* Types.                                                                  *)
(***************************************************************************)

LEMMA InitTypeOK == Init => TypeOK
<1> SUFFICES ASSUME Init PROVE TypeOK
  OBVIOUS
<1>1. (CHOOSE h \in Hosts : TRUE) \in Hosts
  BY HostsAssumption
<1>2. <<>> \in Seq(Callers \cup {NoCaller})
  OBVIOUS
<1>3. sinceCleanup \in 0..CleanupEvery /\ askedAgo \in [Hosts -> 0..(TTL + 1)]
  BY Constant DEF Init
<1> QED
  BY <1>1, <1>2, <1>3 DEF Init, TypeOK

LEMMA HandleType ==
  ASSUME TypeOK, NEW r \in Requests, NEW h \in Hosts, Handle(r, h)
  PROVE  TypeOK'
<1>1. stats \in [Hosts -> Entries]
  BY DEF TypeOK, Entries
<1>2. stats' \in [Hosts -> Entries] /\ stats'[h] \in Entries
  BY <1>1, Viewed DEF Handle
<1>3. Candidates(stats'[h]) \subseteq Callers
  BY <1>2, SomeCandidate
<1>4. cand' \in [Requests -> SUBSET Callers]
  BY <1>3 DEF Handle, TypeOK
<1>5. attempt' \in [Requests -> [Callers -> Outcomes]]
  BY DEF Handle, TypeOK, Outcomes
<1>6. sinceCleanup' \in 0..CleanupEvery
  BY Constant DEF Handle, TypeOK
<1>7. askedAgo' \in [Hosts -> 0..(TTL + 1)]
  BY Constant DEF Handle, TypeOK
<1> QED
  BY <1>2, <1>4, <1>5, <1>6, <1>7 DEF Handle, TypeOK, Entries, Outcomes

LEMMA CallType ==
  ASSUME TypeOK, NEW r \in Requests, NEW c \in Callers,
         CallAnswered(r, c) \/ CallFailed(r, c) \/ CallCancelled(r, c)
  PROVE  TypeOK'
<1>1. stats[host[r]] \in Entries
  BY DEF TypeOK, Entries
<1>2. stats' \in [Hosts -> Entries]
  <2>1. Failed(stats[host[r]], c) \in Entries
    BY <1>1, Recorded DEF Entries
  <2> QED
    BY <2>1 DEF CallAnswered, CallFailed, CallCancelled, NotRecordedYet, TypeOK, Entries
<1>3. respCh' \in [Requests -> Seq(Callers \cup {NoCaller})]
  <2>1. Append(respCh[r], c) \in Seq(Callers \cup {NoCaller})
    BY DEF TypeOK
  <2>2. Append(respCh[r], NoCaller) \in Seq(Callers \cup {NoCaller})
    BY DEF TypeOK
  <2> QED
    BY <2>1, <2>2 DEF CallAnswered, CallFailed, CallCancelled, Send, SendFailure, TypeOK
<1>4. attempt' \in [Requests -> [Callers -> Outcomes]]
  <2>1. ASSUME NEW o \in Outcomes PROVE [attempt[r] EXCEPT ![c] = o] \in [Callers -> Outcomes]
    BY DEF TypeOK, Outcomes
  <2>2. \E o \in Outcomes : attempt' = [attempt EXCEPT ![r] = [attempt[r] EXCEPT ![c] = o]]
    BY DEF CallAnswered, CallFailed, CallCancelled, Outcomes
  <2> QED
    BY <2>1, <2>2 DEF TypeOK, Outcomes
<1>5. fallen' \in SUBSET (Hosts \X Callers)
  BY DEF CallAnswered, CallFailed, CallCancelled, TypeOK
<1> QED
  BY <1>2, <1>3, <1>4, <1>5
     DEF CallAnswered, CallFailed, CallCancelled, TypeOK, Entries, Outcomes

LEMMA ReceiveType ==
  ASSUME TypeOK, NEW r \in Requests, Received(r)
  PROVE  /\ respCh' \in [Requests -> Seq(Callers \cup {NoCaller})]
         /\ received' \in [Requests -> Nat]
         /\ Head(respCh[r]) \in Callers \cup {NoCaller}
         /\ Tail(respCh[r]) \in Seq(Callers \cup {NoCaller})
         /\ Len(Tail(respCh[r])) = Len(respCh[r]) - 1
         /\ \A i \in 1..Len(Tail(respCh[r])) : Tail(respCh[r])[i] = respCh[r][i + 1]
<1>1. respCh[r] \in Seq(Callers \cup {NoCaller}) /\ respCh[r] # <<>>
  BY DEF TypeOK, Received
<1>2. /\ Head(respCh[r]) \in Callers \cup {NoCaller}
      /\ Tail(respCh[r]) \in Seq(Callers \cup {NoCaller})
      /\ Len(Tail(respCh[r])) = Len(respCh[r]) - 1
      /\ \A i \in 1..Len(Tail(respCh[r])) : Tail(respCh[r])[i] = respCh[r][i + 1]
  BY <1>1, HeadTailProperties
<1> QED
  BY <1>2 DEF Received, TypeOK

LEMMA ReturnType ==
  ASSUME TypeOK, NEW r \in Requests, NEW c \in Callers, Return(r, c)
  PROVE  /\ stats' \in [Hosts -> Entries] /\ fallen' \in SUBSET (Hosts \X Callers)
         /\ phase' \in [Requests -> {"idle", "racing", "pinging", "done"}]
<1>1. Succeeded(stats[host[r]], c) \in Entries
  BY Recorded DEF TypeOK, Entries
<1> QED
  BY <1>1 DEF Return, TypeOK, Entries

\* What TypeOK does not say, and its preservation needs: the pinging query has an answer.
Pinging == \A r \in Requests : phase[r] = "pinging" => <<host[r], result[r]>> \in won

LEMMA NextTypeOK == TypeOK /\ Pinging /\ [Next]_vars => TypeOK'
<1> SUFFICES ASSUME TypeOK, Pinging, [Next]_vars PROVE TypeOK'
  OBVIOUS
<1>1. ASSUME NEW r \in Requests, NEW h \in Hosts, Handle(r, h) PROVE TypeOK'
  BY <1>1, HandleType
<1>2. ASSUME NEW r \in Requests, NEW c \in Callers,
             CallAnswered(r, c) \/ CallFailed(r, c) \/ CallCancelled(r, c)
      PROVE  TypeOK'
  BY <1>2, CallType
<1>3. ASSUME NEW r \in Requests, ReceiveFailure(r) PROVE TypeOK'
  BY <1>3, ReceiveType DEF ReceiveFailure, TypeOK
<1>4. ASSUME NEW r \in Requests, ReceiveAnswer(r) PROVE TypeOK'
  <2>1. Head(respCh[r]) \in Callers
    BY <1>4, ReceiveType DEF ReceiveAnswer
  <2>2. /\ respCh' \in [Requests -> Seq(Callers \cup {NoCaller})] /\ received' \in [Requests -> Nat]
        /\ result' \in [Requests -> Callers \cup {NoCaller}]
        /\ won' \in SUBSET (Hosts \X Callers)
    BY <1>4, <2>1, ReceiveType DEF ReceiveAnswer, TypeOK
  <2>3. /\ stats' \in [Hosts -> Entries] /\ fallen' \in SUBSET (Hosts \X Callers)
        /\ phase' \in [Requests -> {"idle", "racing", "pinging", "done"}]
    BY <1>4, <2>1, ReturnType DEF ReceiveAnswer, TypeOK, Entries
  <2> QED
    BY <1>4, <2>2, <2>3 DEF ReceiveAnswer, TypeOK, Entries
<1>5. ASSUME NEW r \in Requests, PingReturns(r) PROVE TypeOK'
  <2>1. result[r] \in Callers
    BY <1>5 DEF PingReturns, Pinging, TypeOK
  <2> QED
    BY <1>5, <2>1, ReturnType DEF PingReturns, TypeOK, Entries
<1>6. ASSUME NEW r \in Requests, Expire(r) PROVE TypeOK'
  BY <1>6 DEF Expire, TypeOK
<1>7. ASSUME NEW r \in Requests, Forget(r) PROVE TypeOK'
  <2>1. <<>> \in Seq(Callers \cup {NoCaller})
    OBVIOUS
  <2> QED
    BY <1>7, <2>1 DEF Forget, TypeOK
<1>8. CASE Tick
  <2>3. stats' \in [Hosts -> Entry \cup {NoEntry}]
    BY <1>8, Older DEF Tick, TypeOK
  <2>4. sinceCleanup' \in 0..CleanupEvery /\ askedAgo' \in [Hosts -> 0..(TTL + 1)]
    <3>1. Later(sinceCleanup, CleanupEvery) \in 0..CleanupEvery
      BY LaterType, Constant DEF TypeOK
    <3>2. \A h \in Hosts : Later(askedAgo[h], TTL + 1) \in 0..(TTL + 1)
      <4> TAKE h \in Hosts
      <4>1. askedAgo[h] \in Nat /\ askedAgo[h] <= TTL + 1 /\ TTL + 1 \in Nat
        BY Constant DEF TypeOK
      <4> QED
        BY <4>1, LaterType
    <3> QED
      BY <1>8, <3>1, <3>2 DEF Tick
  <2> QED
    BY <1>8, <2>3, <2>4 DEF Tick, TypeOK, queries
<1>9. CASE UNCHANGED vars
  BY <1>9 DEF vars, queries, TypeOK
<1> QED
  BY <1>1, <1>2, <1>3, <1>4, <1>5, <1>6, <1>7, <1>8, <1>9 DEF Next

(***************************************************************************)
(* What hostStats says of a host.                                          *)
(***************************************************************************)

\* An entry was used no later than its host was asked for, and the active caller is
\* one whose answer was chosen and that has not failed since it was recorded.
Tracks(h) ==
    stats[h] # NoEntry =>
      /\ stats[h].unused <= askedAgo[h]
      /\ stats[h].active # NoCaller =>
           <<h, stats[h].active>> \in won /\ <<h, stats[h].active>> \notin fallen

HostsTracked == \A h \in Hosts : Tracks(h)

\* Return records a caller that has won (groups.go:319-443).
LEMMA ReturnTracks ==
  ASSUME TypeOK, HostsTracked, NEW r \in Requests, NEW c \in Callers, Return(r, c),
         won \subseteq won', <<host[r], c>> \in won', askedAgo' = askedAgo
  PROVE  HostsTracked'
<1> SUFFICES ASSUME NEW h \in Hosts PROVE Tracks(h)'
  BY DEF HostsTracked
<1>1. stats' = [stats EXCEPT ![host[r]] = Succeeded(stats[host[r]], c)] /\ fallen' = fallen \ {<<host[r], c>>}
  BY DEF Return
<1>2. CASE h = host[r]
  <2>1. stats'[h].active = c /\ stats'[h].unused = 0
    BY <1>1, <1>2, Recorded DEF TypeOK, Entries
  <2>2. askedAgo[h] \in Nat
    BY Constant DEF TypeOK
  <2> QED
    BY <1>1, <1>2, <2>1, <2>2 DEF Tracks
<1>3. CASE h # host[r]
  <2>1. stats'[h] = stats[h]
    BY <1>1, <1>3 DEF TypeOK
  <2>2. Tracks(h)
    BY DEF HostsTracked
  <2> QED
    BY <1>1, <2>1, <2>2 DEF Tracks
<1> QED
  BY <1>2, <1>3

LEMMA LaterMonotonic ==
  ASSUME NEW m \in Nat, NEW n \in Nat, NEW cap \in Nat, m <= n, n <= cap
  PROVE  Later(m, cap) <= Later(n, cap)
BY DEF Later

LEMMA NextTracked == TypeOK /\ HostsTracked /\ Pinging /\ [Next]_vars => HostsTracked'
<1> SUFFICES ASSUME TypeOK, HostsTracked, Pinging, [Next]_vars PROVE HostsTracked'
  OBVIOUS
<1>1. ASSUME NEW r \in Requests, NEW h \in Hosts, Handle(r, h) PROVE HostsTracked'
  <2> SUFFICES ASSUME NEW g \in Hosts PROVE Tracks(g)'
    BY DEF HostsTracked
  <2>1. \/ stats'[g] = NoEntry
        \/ /\ stats[g] # NoEntry
           /\ stats'[g].active = stats[g].active
           /\ stats'[g].unused = IF g = h THEN 0 ELSE stats[g].unused
    BY <1>1, Viewed DEF Handle, TypeOK, Entries
  <2>2. askedAgo'[g] = IF g = h THEN 0 ELSE askedAgo[g]
    BY <1>1 DEF Handle, TypeOK
  <2>3. won' = won /\ fallen' = fallen
    BY <1>1 DEF Handle
  <2>4. Tracks(g)
    BY DEF HostsTracked
  <2> QED
    BY <2>1, <2>2, <2>3, <2>4 DEF Tracks
<1>2. ASSUME NEW r \in Requests, NEW c \in Callers, CallFailed(r, c) PROVE HostsTracked'
  <2> SUFFICES ASSUME NEW h \in Hosts PROVE Tracks(h)'
    BY DEF HostsTracked
  <2>1. /\ stats' = [stats EXCEPT ![host[r]] = Failed(stats[host[r]], c)]
        /\ fallen' = fallen \cup {<<host[r], c>>} /\ won' = won /\ askedAgo' = askedAgo
    BY <1>2 DEF CallFailed
  <2>2. Tracks(h)
    BY DEF HostsTracked
  <2>3. CASE h = host[r]
    <3>1. /\ stats'[h].unused = 0
          /\ \/ stats'[h].active = NoCaller
             \/ stats[h] # NoEntry /\ stats'[h].active = stats[h].active /\ stats[h].active # c
      BY <2>1, <2>3, Recorded DEF TypeOK, Entries
    <3>2. askedAgo[h] \in Nat
      BY Constant DEF TypeOK
    <3> QED
      BY <2>1, <2>2, <3>1, <3>2 DEF Tracks
  <2>4. CASE h # host[r]
    <3>1. stats'[h] = stats[h]
      BY <2>1, <2>4 DEF TypeOK
    <3> QED
      BY <2>1, <2>2, <2>4, <3>1 DEF Tracks
  <2> QED
    BY <2>3, <2>4
<1>3. ASSUME NEW r \in Requests, ReceiveAnswer(r) PROVE HostsTracked'
  <2>1. Head(respCh[r]) \in Callers
    BY <1>3, ReceiveType DEF ReceiveAnswer
  <2>2. won' = won \cup {<<host[r], Head(respCh[r])>>} /\ askedAgo' = askedAgo
    BY <1>3 DEF ReceiveAnswer
  <2>3. CASE Return(r, Head(respCh[r]))
    BY <2>1, <2>2, <2>3, ReturnTracks
  <2>4. CASE UNCHANGED <<stats, fallen>>
    BY <2>2, <2>4 DEF HostsTracked, Tracks
  <2> QED
    BY <1>3, <2>3, <2>4 DEF ReceiveAnswer
<1>4. ASSUME NEW r \in Requests, PingReturns(r) PROVE HostsTracked'
  <2>1. result[r] \in Callers /\ <<host[r], result[r]>> \in won
    BY <1>4 DEF PingReturns, Pinging, TypeOK
  <2> QED
    BY <1>4, <2>1, ReturnTracks DEF PingReturns
<1>5. CASE Tick
  <2> SUFFICES ASSUME NEW h \in Hosts, stats'[h] # NoEntry PROVE Tracks(h)'
    BY DEF HostsTracked, Tracks
  <2>1. stats[h] # NoEntry /\ stats[h] \in Entry
    BY <1>5 DEF Tick, TypeOK
  <2>2. stats'[h].active = stats[h].active /\ stats'[h].unused = Later(stats[h].unused, TTL + 1)
    BY <1>5, <2>1 DEF Tick, Entry
  <2>3. /\ stats[h].unused \in Nat /\ askedAgo[h] \in Nat /\ askedAgo[h] <= TTL + 1
        /\ TTL + 1 \in Nat
    BY <2>1, EntryFields, Constant DEF TypeOK
  <2>4. askedAgo'[h] = Later(askedAgo[h], TTL + 1) /\ won' = won /\ fallen' = fallen
    BY <1>5 DEF Tick
  <2>5. Tracks(h)
    BY DEF HostsTracked
  <2> QED
    BY <2>1, <2>2, <2>3, <2>4, <2>5, LaterMonotonic DEF Tracks
<1>6. CASE UNCHANGED <<stats, won, fallen, askedAgo>>
  BY <1>6 DEF HostsTracked, Tracks
<1> QED
  BY <1>1, <1>2, <1>3, <1>4, <1>5, <1>6
     DEF Next, CallAnswered, NotRecordedYet, CallCancelled, ReceiveFailure, Expire, Forget, vars

(***************************************************************************)
(* The receive loop.                                                       *)
(***************************************************************************)

\* The results still to come are the turns the loop has left.
TurnsLeft(r) ==
    /\ Cardinality(Calling(r)) + Len(respCh[r]) + received[r] = Cardinality(cand[r])
    /\ received[r] < Cardinality(cand[r])

\* An answer that was sent and not received is in the channel.
AnswersInFlight(r) ==
    \A c \in Callers : attempt[r][c] = "answered" => \E i \in 1..Len(respCh[r]) : respCh[r][i] = c

OnlyIfAllFailed(r) ==
    phase[r] = "done" /\ result[r] = NoCaller /\ ~expired[r] =>
      \A c \in cand[r] : attempt[r][c] = "failed"

QueryOK(r) ==
    /\ \A c \in Callers : attempt[r][c] = "none" <=> c \notin cand[r]
    /\ phase[r] = "idle" =>
         cand[r] = {} /\ respCh[r] = <<>> /\ received[r] = 0 /\ result[r] = NoCaller /\ ~expired[r]
    /\ phase[r] = "racing" =>
         /\ result[r] = NoCaller /\ ~expired[r]
         /\ \A c \in Callers : attempt[r][c] # "cancelled"
         /\ TurnsLeft(r) /\ AnswersInFlight(r)
    /\ OnlyIfAllFailed(r)

QueriesOK == \A r \in Requests : QueryOK(r)

\* Nothing of query q changes.
Same(q) ==
    /\ phase'[q] = phase[q] /\ cand'[q] = cand[q] /\ attempt'[q] = attempt[q]
    /\ respCh'[q] = respCh[q] /\ received'[q] = received[q]
    /\ result'[q] = result[q] /\ expired'[q] = expired[q]

LEMMA SameOK ==
  ASSUME NEW q \in Requests, QueryOK(q), Same(q)
  PROVE  QueryOK(q)'
<1>1. Calling(q)' = Calling(q)
  BY DEF Calling, Same
<1> QED
  BY <1>1 DEF QueryOK, Same, TurnsLeft, AnswersInFlight, OnlyIfAllFailed

\* A step of one query leaves the others alone.
StepOf(r) ==
    \/ \E h \in Hosts : Handle(r, h)
    \/ \E c \in Callers : CallAnswered(r, c) \/ CallFailed(r, c) \/ CallCancelled(r, c)
    \/ ReceiveFailure(r) \/ ReceiveAnswer(r) \/ PingReturns(r) \/ Expire(r) \/ Forget(r)

LEMMA OthersSame ==
  ASSUME TypeOK, NEW r \in Requests, StepOf(r), NEW q \in Requests, q # r
  PROVE  Same(q) /\ host'[q] = host[q]
<1> USE DEF TypeOK, Same
<1>1. CASE \E h \in Hosts : Handle(r, h)
  BY <1>1 DEF Handle
<1>2. CASE \E c \in Callers : CallAnswered(r, c) \/ CallFailed(r, c) \/ CallCancelled(r, c)
  BY <1>2 DEF CallAnswered, CallFailed, CallCancelled
<1>3. CASE ReceiveFailure(r) \/ ReceiveAnswer(r)
  BY <1>3 DEF ReceiveFailure, ReceiveAnswer, Received, Return
<1>4. CASE PingReturns(r) \/ Expire(r) \/ Forget(r)
  BY <1>4 DEF PingReturns, Expire, Forget, Return
<1> QED
  BY <1>1, <1>2, <1>3, <1>4 DEF StepOf

LEMMA FiniteCalling ==
  ASSUME NEW r \in Requests
  PROVE  IsFiniteSet(Calling(r)) /\ Cardinality(Calling(r)) \in Nat
<1>1. Calling(r) \in SUBSET Callers
  BY DEF Calling
<1>2. IsFiniteSet(Calling(r))
  BY <1>1, CallersAssumption, FS_Subset
<1> QED
  BY <1>2, FS_CardinalityType

LEMMA HandleOK ==
  ASSUME TypeOK, NEW r \in Requests, QueryOK(r), NEW h \in Hosts, Handle(r, h)
  PROVE  QueryOK(r)'
<1> DEFINE asked == cand'[r]
<1>1. asked \in SUBSET Callers /\ asked # {}
  <2>1. stats'[h] \in Entries
    <3>1. stats \in [Hosts -> Entries]
      BY DEF TypeOK, Entries
    <3> QED
      BY <3>1, Viewed DEF Handle
  <2>2. asked = Candidates(stats'[h])
    BY DEF Handle, TypeOK
  <2> QED
    BY <2>1, <2>2, SomeCandidate
<1>2. \A c \in Callers : attempt'[r][c] = IF c \in asked THEN "calling" ELSE "none"
  BY DEF Handle, TypeOK
<1>3. /\ phase'[r] = "racing" /\ respCh'[r] = <<>> /\ received'[r] = 0
      /\ result'[r] = NoCaller /\ ~expired'[r]
  BY DEF Handle, TypeOK, QueryOK
<1> HIDE DEF asked
<1>4. Calling(r)' = asked
  BY <1>1, <1>2 DEF Calling
<1>5. Cardinality(asked) \in Nat /\ Cardinality(asked) # 0
  <2>1. IsFiniteSet(asked)
    BY <1>1, CallersAssumption, FS_Subset
  <2> QED
    BY <1>1, <2>1, FS_CardinalityType, FS_EmptySet
<1>6. TurnsLeft(r)'
  BY <1>3, <1>4, <1>5 DEF TurnsLeft, asked
<1>7. AnswersInFlight(r)'
  BY <1>2 DEF AnswersInFlight
<1>8. \A c \in Callers : attempt'[r][c] = "none" <=> c \notin cand'[r]
  BY <1>2 DEF asked
<1> QED
  BY <1>2, <1>3, <1>6, <1>7, <1>8 DEF QueryOK, OnlyIfAllFailed

\* One attempt ends; what it sends, if it sends, goes to the end of the channel.
LEMMA CallOK ==
  ASSUME TypeOK, NEW r \in Requests, QueryOK(r), NEW c \in Callers,
         CallAnswered(r, c) \/ CallFailed(r, c) \/ CallCancelled(r, c)
  PROVE  QueryOK(r)'
<1>1. PICK o \in {"answered", "failed", "cancelled"} :
        \A d \in Callers : attempt'[r][d] = IF d = c THEN o ELSE attempt[r][d]
  BY DEF CallAnswered, CallFailed, CallCancelled, TypeOK
<1>2. /\ attempt[r][c] = "calling" /\ phase' = phase /\ cand' = cand /\ received' = received
      /\ result' = result /\ expired' = expired
  BY DEF CallAnswered, CallFailed, CallCancelled
<1>3. phase[r] # "idle" /\ c \in cand[r]
  <2>1. c \in cand[r]
    BY <1>2 DEF QueryOK
  <2> QED
    BY <2>1 DEF QueryOK
<1>4. \A d \in Callers : attempt'[r][d] = "none" <=> d \notin cand'[r]
  BY <1>1, <1>2, <1>3 DEF QueryOK
<1>5. CASE phase[r] = "racing"
  <2>1. PICK x \in Callers \cup {NoCaller} :
          respCh'[r] = Append(respCh[r], x) /\ (o = "answered" => x = c) /\ o # "cancelled"
    <3>1. respCh \in [Requests -> Seq(Callers \cup {NoCaller})]
      BY DEF TypeOK
    <3>2. CASE CallAnswered(r, c)
      <4>1. respCh'[r] = Append(respCh[r], c)
        BY <3>1, <3>2 DEF CallAnswered, Send
      <4>2. attempt'[r][c] = "answered"
        BY <3>2 DEF CallAnswered, TypeOK
      <4> QED
        BY <1>1, <4>1, <4>2
    <3>3. CASE CallFailed(r, c)
      <4>1. respCh'[r] = Append(respCh[r], NoCaller)
        BY <3>1, <3>3 DEF CallFailed, SendFailure, Send
      <4>2. attempt'[r][c] = "failed"
        BY <3>3 DEF CallFailed, TypeOK
      <4> QED
        BY <1>1, <4>1, <4>2
    <3>4. ~CallCancelled(r, c)
      BY <1>5 DEF CallCancelled
    <3> QED
      BY <3>2, <3>3, <3>4
  <2>2. respCh[r] \in Seq(Callers \cup {NoCaller})
    BY DEF TypeOK
  <2>3. /\ Len(Append(respCh[r], x)) = Len(respCh[r]) + 1 /\ Len(respCh[r]) \in Nat
        /\ \A i \in 1..Len(respCh[r]) : Append(respCh[r], x)[i] = respCh[r][i]
        /\ Append(respCh[r], x)[Len(respCh[r]) + 1] = x
    BY <2>2, AppendProperties, LenProperties
  <2>4. Cardinality(Calling(r)') = Cardinality(Calling(r)) - 1 /\ Cardinality(Calling(r)) \in Nat
    <3>1. Calling(r)' = Calling(r) \ {c} /\ c \in Calling(r)
      BY <1>1, <1>2 DEF Calling
    <3> QED
      BY <3>1, FiniteCalling, FS_RemoveElement
  <2>5. TurnsLeft(r)'
    <3>1. TurnsLeft(r)
      BY <1>5 DEF QueryOK
    <3>2. received[r] \in Nat
      BY DEF TypeOK
    <3> QED
      BY <1>2, <2>1, <2>3, <2>4, <3>1, <3>2 DEF TurnsLeft
  <2>6. AnswersInFlight(r)'
    <3> SUFFICES ASSUME NEW d \in Callers, attempt'[r][d] = "answered"
                 PROVE  \E i \in 1..Len(respCh'[r]) : respCh'[r][i] = d
      BY DEF AnswersInFlight
    <3>1. CASE d = c
      <4>1. x = c
        BY <1>1, <2>1, <3>1
      <4> QED
        BY <2>1, <2>3, <3>1, <4>1
    <3>2. CASE d # c
      <4>1. PICK i \in 1..Len(respCh[r]) : respCh[r][i] = d
        BY <1>1, <1>5, <3>2 DEF QueryOK, AnswersInFlight
      <4> QED
        BY <2>1, <2>3, <4>1
    <3> QED
      BY <3>1, <3>2
  <2>7. \A d \in Callers : attempt'[r][d] # "cancelled"
    BY <1>1, <1>5, <2>1 DEF QueryOK
  <2> QED
    BY <1>2, <1>4, <1>5, <2>5, <2>6, <2>7 DEF QueryOK, OnlyIfAllFailed
<1>6. CASE phase[r] \in {"pinging", "done"}
  BY <1>2, <1>3, <1>4, <1>6 DEF QueryOK, OnlyIfAllFailed
<1> QED
  BY <1>3, <1>5, <1>6 DEF TypeOK

LEMMA ReceiveFailureOK ==
  ASSUME TypeOK, NEW r \in Requests, QueryOK(r), ReceiveFailure(r)
  PROVE  QueryOK(r)'
<1>1. /\ phase[r] = "racing" /\ respCh[r] # <<>> /\ respCh[r][1] = NoCaller
      /\ respCh'[r] = Tail(respCh[r]) /\ received'[r] = received[r] + 1
      /\ phase'[r] = IF LoopEnds(r) THEN "done" ELSE "racing"
      /\ cand' = cand /\ attempt' = attempt /\ result' = result /\ expired' = expired
  BY DEF ReceiveFailure, Received, TypeOK
<1>2. respCh[r] \in Seq(Callers \cup {NoCaller}) /\ received[r] \in Nat
  BY DEF TypeOK
<1>3. /\ Len(Tail(respCh[r])) = Len(respCh[r]) - 1
      /\ \A i \in 1..Len(Tail(respCh[r])) : Tail(respCh[r])[i] = respCh[r][i + 1]
      /\ Len(respCh[r]) \in Nat
  BY <1>1, <1>2, HeadTailProperties, LenProperties
<1>4. Calling(r)' = Calling(r) /\ IsFiniteSet(Calling(r)) /\ Cardinality(Calling(r)) \in Nat
  BY <1>1, FiniteCalling DEF Calling
<1>5. /\ result[r] = NoCaller /\ ~expired[r] /\ TurnsLeft(r) /\ AnswersInFlight(r)
      /\ \A c \in Callers : attempt[r][c] # "cancelled"
      /\ \A c \in Callers : attempt[r][c] = "none" <=> c \notin cand[r]
  BY <1>1 DEF QueryOK
<1>6. CASE LoopEnds(r)
  <2>1. Cardinality(Calling(r)) = 0 /\ Len(respCh[r]) = 1
    <3>1. Len(respCh[r]) # 0
      BY <1>1, <1>2, EmptySeq
    <3>2. Cardinality(Calling(r)) + Len(respCh[r]) + received[r] = received[r] + 1
      BY <1>5, <1>6 DEF TurnsLeft, LoopEnds
    <3>3. Cardinality(Calling(r)) \in Nat /\ Len(respCh[r]) \in Nat /\ received[r] \in Nat
      BY <1>2, <1>3, <1>4
    <3>4. ASSUME NEW C \in Nat, NEW L \in Nat, NEW R \in Nat, L # 0, C + L + R = R + 1
          PROVE  C = 0 /\ L = 1
      BY <3>4
    <3> QED
      BY <3>1, <3>2, <3>3, <3>4
  <2>2. Calling(r) = {}
    BY <1>4, <2>1, FS_EmptySet
  <2>3. \A c \in Callers : attempt[r][c] # "answered"
    BY <1>1, <1>5, <2>1, CallersAssumption DEF AnswersInFlight
  <2>4. \A c \in cand[r] : attempt[r][c] = "failed"
    <3> TAKE c \in cand[r]
    <3>1. c \in Callers /\ attempt[r][c] \in {"none", "calling", "answered", "failed", "cancelled"}
      BY DEF TypeOK
    <3> QED
      BY <1>5, <2>2, <2>3, <3>1 DEF Calling
  <2> QED
    BY <1>1, <1>5, <1>6, <2>4 DEF QueryOK, OnlyIfAllFailed
<1>7. CASE ~LoopEnds(r)
  <2>1. TurnsLeft(r)'
    <3>1. /\ Cardinality(Calling(r)) + Len(respCh[r]) + received[r] = Cardinality(cand[r])
          /\ received[r] < Cardinality(cand[r]) /\ received[r] + 1 # Cardinality(cand[r])
      BY <1>5, <1>7 DEF TurnsLeft, LoopEnds
    <3>2. /\ Cardinality(Calling(r)) + Len(Tail(respCh[r])) + (received[r] + 1) = Cardinality(cand[r])
          /\ received[r] + 1 < Cardinality(cand[r])
      BY <1>2, <1>3, <1>4, <3>1
    <3> QED
      BY <1>1, <1>4, <3>2 DEF TurnsLeft
  <2>2. AnswersInFlight(r)'
    <3> SUFFICES ASSUME NEW c \in Callers, attempt[r][c] = "answered"
                 PROVE  \E i \in 1..Len(Tail(respCh[r])) : Tail(respCh[r])[i] = c
      BY <1>1 DEF AnswersInFlight
    <3>1. PICK i \in 1..Len(respCh[r]) : respCh[r][i] = c
      BY <1>5 DEF AnswersInFlight
    <3>2. i # 1
      BY <1>1, <3>1, CallersAssumption
    <3>3. i - 1 \in 1..Len(Tail(respCh[r])) /\ (i - 1) + 1 = i
      BY <1>3, <3>2
    <3> QED
      BY <1>3, <3>1, <3>3
  <2> QED
    BY <1>1, <1>5, <1>7, <2>1, <2>2 DEF QueryOK, OnlyIfAllFailed
<1> QED
  BY <1>6, <1>7

LEMMA NextQueriesOK == TypeOK /\ Pinging /\ QueriesOK /\ [Next]_vars => (QueriesOK /\ Pinging)'
<1> SUFFICES ASSUME TypeOK, Pinging, QueriesOK, [Next]_vars, NEW q \in Requests
             PROVE  QueryOK(q)' /\ (phase'[q] = "pinging" => <<host'[q], result'[q]>> \in won')
  BY DEF QueriesOK, Pinging
<1>q. QueryOK(q)
  BY DEF QueriesOK
<1>p. phase[q] = "pinging" => <<host[q], result[q]>> \in won
  BY DEF Pinging
<1>w. ASSUME NEW r \in Requests, StepOf(r) PROVE won \subseteq won'
  BY <1>w DEF StepOf, Handle, CallAnswered, CallFailed, CallCancelled, ReceiveFailure,
              ReceiveAnswer, PingReturns, Expire, Forget
<1>1. ASSUME NEW r \in Requests, StepOf(r), r # q
      PROVE  QueryOK(q)' /\ (phase'[q] = "pinging" => <<host'[q], result'[q]>> \in won')
  <2>1. Same(q) /\ host'[q] = host[q]
    BY <1>1, OthersSame
  <2>2. QueryOK(q)'
    BY <2>1, <1>q, SameOK
  <2> QED
    BY <1>1, <1>p, <1>w, <2>1, <2>2 DEF Same
<1>2. ASSUME NEW h \in Hosts, Handle(q, h)
      PROVE  QueryOK(q)' /\ phase'[q] # "pinging"
  BY <1>2, <1>q, HandleOK DEF Handle, TypeOK
<1>3. ASSUME NEW c \in Callers, CallAnswered(q, c) \/ CallFailed(q, c) \/ CallCancelled(q, c)
      PROVE  QueryOK(q)' /\ phase' = phase /\ host' = host /\ result' = result /\ won' = won
  BY <1>3, <1>q, CallOK DEF CallAnswered, CallFailed, CallCancelled
<1>4. CASE ReceiveFailure(q)
  BY <1>4, <1>q, ReceiveFailureOK DEF ReceiveFailure, TypeOK
<1>5. CASE ReceiveAnswer(q)
  <2>1. /\ result'[q] = Head(respCh[q]) /\ Head(respCh[q]) # NoCaller
        /\ won' = won \cup {<<host[q], Head(respCh[q])>>} /\ host' = host
        /\ phase'[q] \in {"done", "pinging"} /\ cand' = cand /\ attempt' = attempt
    BY <1>5 DEF ReceiveAnswer, Return, TypeOK
  <2> QED
    BY <1>q, <2>1 DEF QueryOK, OnlyIfAllFailed
<1>6. CASE PingReturns(q)
  <2>1. result[q] # NoCaller
    BY <1>6, CallersAssumption DEF PingReturns, Pinging, TypeOK
  <2>2. phase'[q] = "done" /\ result' = result /\ cand' = cand /\ attempt' = attempt
    BY <1>6 DEF PingReturns, Return, TypeOK
  <2> QED
    BY <1>q, <2>1, <2>2 DEF QueryOK, OnlyIfAllFailed
<1>7. CASE Expire(q)
  <2>1. phase'[q] = "done" /\ expired'[q] /\ cand' = cand /\ attempt' = attempt
    BY <1>7 DEF Expire, TypeOK
  <2> QED
    BY <1>q, <2>1 DEF QueryOK, OnlyIfAllFailed
<1>8. CASE Forget(q)
  <2>1. /\ phase'[q] = "idle" /\ cand'[q] = {} /\ respCh'[q] = <<>> /\ received'[q] = 0
        /\ result'[q] = NoCaller /\ ~expired'[q]
        /\ \A c \in Callers : attempt'[q][c] = "none"
    BY <1>8 DEF Forget, TypeOK
  <2> QED
    BY <2>1 DEF QueryOK, OnlyIfAllFailed
<1>9. CASE UNCHANGED <<queries, won>>
  <2>1. Same(q) /\ host' = host /\ won' = won
    BY <1>9 DEF queries, Same
  <2> QED
    BY <2>1, <1>q, <1>p, SameOK DEF Same
<1>10. (\E r \in Requests : StepOf(r)) \/ UNCHANGED <<queries, won>>
  BY DEF Next, StepOf, Tick, vars
<1>11. CASE StepOf(q)
  BY <1>p, <1>2, <1>3, <1>4, <1>5, <1>6, <1>7, <1>8, <1>11 DEF StepOf
<1> QED
  BY <1>1, <1>9, <1>10, <1>11

(***************************************************************************)
(* The inductive invariant and the theorems.                               *)
(***************************************************************************)

IInv == TypeOK /\ Pinging /\ HostsTracked /\ QueriesOK

LEMMA InitIInv == Init => IInv
<1> SUFFICES ASSUME Init PROVE Pinging /\ HostsTracked /\ QueriesOK
  BY InitTypeOK DEF IInv
<1> QED
  BY DEF Init, Pinging, HostsTracked, Tracks, QueriesOK, QueryOK, OnlyIfAllFailed

LEMMA NextIInv == IInv /\ [Next]_vars => IInv'
BY NextTypeOK, NextTracked, NextQueriesOK DEF IInv

\* Every variable of the selection keeps its type.
THEOREM TypeCorrect == Spec => []TypeOK
<1>1. IInv => TypeOK
  BY DEF IInv
<1> QED
  BY <1>1, InitIInv, NextIInv, PTL DEF Spec

\* For any number of upstreams and queries, the attempts under way and the results
\* in the channel are the turns the receive loop has left (groups.go:319-443): Handle
\* never waits for a result nobody sends.
THEOREM LoopIsFed == Spec => []EnoughResultsComing
<1>1. IInv => EnoughResultsComing
  BY DEF IInv, QueriesOK, QueryOK, TurnsLeft, EnoughResultsComing
<1> QED
  BY <1>1, InitIInv, NextIInv, PTL DEF Spec

\* Handle comes back without an answer before its deadline only if every upstream
\* it asked has failed (groups.go:319-443).
THEOREM EmptyMeansAllFailed == Spec => []NothingOnlyIfAllFailed
<1>1. IInv => NothingOnlyIfAllFailed
  BY DEF IInv, QueriesOK, QueryOK, OnlyIfAllFailed, NothingOnlyIfAllFailed
<1> QED
  BY <1>1, InitIInv, NextIInv, PTL DEF Spec

\* Only a caller whose answer was chosen for a host is ever active for it
\* (groups.go:596-620).
THEOREM ActiveCallerHasWon == Spec => []ActiveHasWon
<1>1. IInv => ActiveHasWon
  BY DEF IInv, HostsTracked, Tracks, ActiveHasWon
<1> QED
  BY <1>1, InitIInv, NextIInv, PTL DEF Spec

\* Every step of Handle obeys the record of failures.
LEMMA StepNotAlone ==
  ASSUME IInv, [Next]_vars, NEW r \in Requests,
         phase[r] = "idle", phase'[r] = "racing", cand'[r] # Callers, NEW c \in cand'[r]
  PROVE  <<host'[r], c>> \notin fallen
<1> USE DEF IInv
<1>1. PICK q \in Requests : StepOf(q)
  BY DEF Next, StepOf, Tick, vars, queries
<1>2. q = r
  BY <1>1, OthersSame DEF Same
<1>3. PICK h \in Hosts : Handle(r, h)
  BY <1>1, <1>2 DEF StepOf, CallAnswered, CallFailed, CallCancelled, ReceiveFailure,
                    ReceiveAnswer, Received, PingReturns, Expire, Forget
<1>4. host'[r] = h /\ cand'[r] = Candidates(stats'[h]) /\ fallen' = fallen
  BY <1>3 DEF Handle, TypeOK
<1>5. stats'[h] \in Entries
  BY NextIInv DEF TypeOK, Entries
<1>6. stats'[h] # NoEntry /\ stats'[h].active # NoCaller /\ c = stats'[h].active
  BY <1>4, <1>5, SomeCandidate
<1>7. Tracks(h)'
  BY NextIInv DEF HostsTracked
<1> QED
  BY <1>4, <1>6, <1>7 DEF Tracks

\* An upstream that has failed for a host since its last recorded success is never
\* asked alone, whichever of the overlapping queries records its failure last
\* (groups.go:596-647).
THEOREM FallenNeverAlone == Spec => FallenNotAskedAlone
<1>1. IInv /\ [Next]_vars =>
        [\A r \in Requests :
           phase[r] = "idle" /\ phase'[r] = "racing" /\ cand'[r] # Callers =>
             \A c \in cand'[r] : <<host'[r], c>> \notin fallen]_vars
  BY StepNotAlone
<1> QED
  BY <1>1, InitIInv, NextIInv, PTL DEF Spec, FallenNotAskedAlone

\* Only the cleanup drops an entry, and only one that is old.
LEMMA StepKeepsRecent ==
  ASSUME IInv, [Next]_vars, NEW h \in Hosts, stats[h] # NoEntry, stats'[h] = NoEntry
  PROVE  askedAgo[h] > TTL
<1> USE DEF IInv
<1>1. stats \in [Hosts -> Entries] /\ stats[h] \in Entry
  BY DEF TypeOK, Entries
<1>2. ASSUME NEW r \in Requests, NEW g \in Hosts, Handle(r, g) PROVE stats[h].unused > TTL
  BY <1>1, <1>2, Viewed DEF Handle
<1>3. ASSUME NEW r \in Requests, NEW c \in Callers, stats' = [stats EXCEPT ![host[r]] = Failed(@, c)]
      PROVE  FALSE
  BY <1>1, <1>3, Recorded, EntryAssumption DEF TypeOK, Entries
<1>4. ASSUME NEW r \in Requests, NEW c \in Callers, Return(r, c) PROVE FALSE
  BY <1>1, <1>4, Recorded, EntryAssumption DEF Return, TypeOK, Entries
<1>5. ~Tick
  BY <1>1, Older, EntryAssumption DEF Tick
<1>6. ASSUME NEW r \in Requests, NEW c \in Callers,
             CallAnswered(r, c) \/ CallFailed(r, c) \/ CallCancelled(r, c)
      PROVE  FALSE
  BY <1>3, <1>6 DEF CallAnswered, NotRecordedYet, CallFailed, CallCancelled
<1>7. ASSUME NEW r \in Requests, ReceiveAnswer(r) PROVE FALSE
  <2>1. Head(respCh[r]) \in Callers
    BY <1>7, ReceiveType DEF ReceiveAnswer
  <2> QED
    BY <1>4, <1>7, <2>1 DEF ReceiveAnswer
<1>8. ASSUME NEW r \in Requests, PingReturns(r) PROVE FALSE
  <2>1. result[r] \in Callers
    BY <1>8 DEF PingReturns, Pinging, TypeOK
  <2> QED
    BY <1>4, <1>8, <2>1 DEF PingReturns
<1>9. stats[h].unused > TTL
  BY <1>2, <1>5, <1>6, <1>7, <1>8 DEF Next, ReceiveFailure, Expire, Forget, vars
<1> QED
  <2>1. stats[h].unused <= askedAgo[h]
    BY DEF HostsTracked, Tracks
  <2>2. stats[h].unused \in Nat /\ askedAgo[h] \in Nat /\ TTL \in Nat
    BY <1>1, EntryFields, Constant DEF TypeOK
  <2> QED
    BY <1>9, <2>1, <2>2

\* A host that was asked for within callerStatsTTL keeps its entry, whichever
\* host's query runs the cleanup (groups.go:649-667).
THEOREM RecentKept == Spec => RecentHostsKept
<1>1. IInv /\ [Next]_vars =>
        [\A h \in Hosts : stats[h] # NoEntry /\ stats'[h] = NoEntry => askedAgo[h] > TTL]_vars
  BY StepKeepsRecent
<1> QED
  BY <1>1, InitIInv, NextIInv, PTL DEF Spec, RecentHostsKept
==============================================================================
