------------------------ MODULE QueryPipeline_proofs ------------------------
(***************************************************************************)
(* Proofs about QueryPipeline, for any groups, rules, redirectors, lists   *)
(* and answers and any number of concurrent queries: the type invariant,   *)
(* whose answer a client is given, by which group, with which subnet and   *)
(* with what life.                                                         *)
(***************************************************************************)
EXTENDS QueryPipeline, WellFoundedInduction, TLAPS

(***************************************************************************)
(* The first group to match.                                               *)
(***************************************************************************)

LEMMA Least ==
  ASSUME NEW S \in SUBSET Nat, S # {}
  PROVE  \E m \in S : \A n \in S : m <= n
<1>1. PICK m \in S : \A n \in S : ~ (<<n, m>> \in OpToRel(<, Nat))
  BY NatLessThanWellFounded, WFMin
<1>2. ASSUME NEW n \in S PROVE m <= n
  <2>1. ~(<<n, m>> \in {ss \in Nat \X Nat : ss[1] < ss[2]})
    BY <1>1 DEF OpToRel
  <2> QED
    BY <2>1
<1> QED
  BY <1>2

\* Whatever groups match, one of them comes before all others (handler.go:152-161).
LEMMA FirstExists ==
  ASSUME NEW S \in SUBSET Groups, S # {}
  PROVE  \E g \in S : \A h \in S \ {g} : Before(g, h)
<1> DEFINE own == S \ {Fallback, ListGroup}
<1>1. CASE own # {}
  <2>1. PICK g \in own : \A h \in own : g <= h
    BY <1>1, Least, GroupsAssumption
  <2>2. ASSUME NEW h \in S \ {g} PROVE Before(g, h)
    <3>1. CASE h \in own
      <4>1. g < h
        BY <2>1, <2>2, <3>1, GroupsAssumption
      <4> QED
        BY <3>1, <4>1 DEF Before, HasGFWList
    <3>2. CASE h \notin own
      BY <2>2, <3>2 DEF Before, HasGFWList
    <3> QED
      BY <3>1, <3>2
  <2> QED
    BY <2>2
<1>2. CASE own = {} /\ ListGroup \in S /\ ListGroup # Fallback
  <2>1. ASSUME NEW h \in S \ {ListGroup} PROVE Before(ListGroup, h)
    <3>1. h = Fallback /\ ListGroup # Fallback
      BY <1>2, <2>1
    <3> QED
      BY <3>1 DEF Before
  <2> QED
    BY <1>2, <2>1
<1>3. CASE own = {} /\ ~(ListGroup \in S /\ ListGroup # Fallback)
  <2>1. S = {Fallback}
    BY <1>3
  <2> QED
    BY <2>1
<1> QED
  BY <1>1, <1>2, <1>3

\* The group asked is one of the groups, and never the GFW list's or the fallback
\* when another one matches (handler.go:339-353).
LEMMA MatchedType ==
  ASSUME NEW q
  PROVE  /\ Matched(q) \in Groups
         /\ \A g \in Groups \ {Fallback, ListGroup} :
              q \in Rules[g] => Matched(q) \notin {Fallback, ListGroup}
<1> DEFINE matching == {g \in Groups : Match(g, q)}
<1>1. CASE matching = {}
  <2>1. Matched(q) = Fallback
    BY <1>1 DEF Matched
  <2>2. \A g \in Groups : q \notin Rules[g]
    BY <1>1 DEF Match
  <2> QED
    BY <2>1, <2>2, GroupsAssumption
<1>2. CASE matching # {}
  <2> DEFINE First(g) == \A h \in matching \ {g} : Before(g, h)
  <2>1. \E g \in matching : First(g)
    BY <1>2, FirstExists
  <2>2. Matched(q) = CHOOSE g \in matching : First(g)
    BY <1>2 DEF Matched
  <2> HIDE DEF First
  <2>3. Matched(q) \in matching /\ First(Matched(q))
    BY <2>1, <2>2
  <2>4. ASSUME NEW g \in Groups \ {Fallback, ListGroup}, q \in Rules[g],
               Matched(q) \in {Fallback, ListGroup}
        PROVE  FALSE
    <3>1. g \in matching \ {Matched(q)}
      BY <2>4 DEF Match
    <3>2. Before(Matched(q), g)
      BY <2>3, <3>1 DEF First
    <3> QED
      BY <2>4, <3>2 DEF Before, HasGFWList
  <2> QED
    BY <2>3, <2>4
<1> QED
  BY <1>1, <1>2

\* The order of the groups has no two of them each before the other.
LEMMA BeforeAsymmetric ==
  ASSUME NEW g \in Groups, NEW h \in Groups, Before(g, h), Before(h, g)
  PROVE  FALSE
<1>1. g \in Nat /\ h \in Nat
  BY GroupsAssumption
<1>2. (g = Fallback) = (h = Fallback)
  BY DEF Before
<1>3. HasGFWList(g) = HasGFWList(h)
  BY <1>2 DEF Before, HasGFWList
<1>4. g < h /\ h < g
  BY <1>2, <1>3 DEF Before, HasGFWList
<1> QED
  BY <1>1, <1>4

\* The loop of handle() walks through the list that newHandle has sorted and takes
\* the first group that matches, or else the fallback group (handler.go:339-353): for
\* any sorted list of the groups that is Matched, which needs no list.
THEOREM LoopTakesMatched ==
  ASSUME NEW list \in Seq(Groups),
         \A g \in Groups : \E i \in 1..Len(list) : list[i] = g,
         \A i, j \in 1..Len(list) : i < j => Before(list[i], list[j]),
         NEW q
  PROVE  /\ \A k \in 1..Len(list) :
              Match(list[k], q) /\ (\A i \in 1..(k - 1) : ~Match(list[i], q)) => Matched(q) = list[k]
         /\ (\A k \in 1..Len(list) : ~Match(list[k], q)) => Matched(q) = Fallback
<1> DEFINE matching == {g \in Groups : Match(g, q)}
           First(g) == \A h \in matching \ {g} : Before(g, h)
<1>1. ASSUME NEW k \in 1..Len(list), Match(list[k], q), \A i \in 1..(k - 1) : ~Match(list[i], q)
      PROVE  Matched(q) = list[k]
  <2>1. list[k] \in matching
    BY <1>1
  <2>2. First(list[k])
    <3>1. ASSUME NEW h \in matching \ {list[k]} PROVE Before(list[k], h)
      <4>1. PICK i \in 1..Len(list) : list[i] = h
        OBVIOUS
      <4>2. i \notin 1..(k - 1) /\ i # k
        BY <1>1, <3>1, <4>1
      <4>3. k < i
        BY <4>2
      <4> QED
        BY <4>1, <4>3
    <3> QED
      BY <3>1
  <2>3. ASSUME NEW g \in matching, First(g) PROVE g = list[k]
    <3>1. ASSUME g # list[k] PROVE FALSE
      <4>1. Before(g, list[k]) /\ Before(list[k], g)
        BY <2>1, <2>2, <2>3, <3>1
      <4> QED
        BY <2>1, <4>1, BeforeAsymmetric
    <3> QED
      BY <3>1
  <2>4. Matched(q) = CHOOSE g \in matching : First(g)
    BY <2>1 DEF Matched
  <2> HIDE DEF First, matching
  <2> QED
    BY <2>1, <2>2, <2>3, <2>4
<1>2. ASSUME \A k \in 1..Len(list) : ~Match(list[k], q) PROVE Matched(q) = Fallback
  <2>1. matching = {}
    BY <1>2
  <2> QED
    BY <2>1 DEF Matched
<1> QED
  BY <1>1, <1>2

(***************************************************************************)
(* What the cache makes of an answer.                                      *)
(***************************************************************************)

LEMMA ClampedType ==
  ASSUME NEW t \in Nat
  PROVE  Clamped(t) \in MinTTL..MaxTTL /\ Clamped(t) \in Nat
BY TTLAssumption DEF Clamped

LEMMA StoredType ==
  ASSUME NEW rr \in Seq(Records)
  PROVE  /\ Stored(rr) \in Seq(Records) /\ DOMAIN Stored(rr) = DOMAIN rr
         /\ TTLs(Stored(rr)) \subseteq MinTTL..MaxTTL
         /\ IPs(Stored(rr)) = IPs(rr)
         /\ (rr # <<>> => Stored(rr) # <<>>)
<1>1. \A i \in DOMAIN rr : rr[i] \in Records
  OBVIOUS
<1>2. ASSUME NEW i \in DOMAIN rr
      PROVE  /\ [rr[i] EXCEPT !.ttl = Clamped(@)] \in Records
             /\ [rr[i] EXCEPT !.ttl = Clamped(@)].ip = rr[i].ip
             /\ [rr[i] EXCEPT !.ttl = Clamped(@)].ttl \in MinTTL..MaxTTL
  <2>1. rr[i] \in Records /\ rr[i].ttl \in Nat
    BY <1>1, <1>2 DEF Records
  <2>2. Clamped(rr[i].ttl) \in MinTTL..MaxTTL /\ Clamped(rr[i].ttl) \in Nat
    BY <2>1, ClampedType
  <2> QED
    BY <2>1, <2>2 DEF Records
<1>3. Stored(rr) \in Seq(Records) /\ DOMAIN Stored(rr) = DOMAIN rr
  BY <1>2 DEF Stored
<1>4. \A i \in DOMAIN rr : Stored(rr)[i].ip = rr[i].ip /\ Stored(rr)[i].ttl \in MinTTL..MaxTTL
  BY <1>2 DEF Stored
<1>5. IPs(Stored(rr)) = IPs(rr) /\ TTLs(Stored(rr)) \subseteq MinTTL..MaxTTL
  BY <1>3, <1>4 DEF IPs, TTLs
<1>6. rr # <<>> => Stored(rr) # <<>>
  BY <1>3
<1> QED
  BY <1>3, <1>5, <1>6

LEMMA ShortestType ==
  ASSUME NEW S \in SUBSET (MinTTL..MaxTTL)
  PROVE  Min(S \cup {MaxTTL}) \in 0..MaxTTL
<1> DEFINE T == S \cup {MaxTTL}
<1>1. T \in SUBSET Nat /\ T # {} /\ T \subseteq 0..MaxTTL
  BY TTLAssumption
<1>2. \E m \in T : \A n \in T : m <= n
  BY <1>1, Least
<1>3. Min(T) = CHOOSE m \in T : \A n \in T : m =< n
  BY DEF Min
<1> HIDE DEF T
<1>4. Min(T) \in T
  BY <1>2, <1>3
<1> QED
  BY <1>1, <1>4 DEF T

\* Set makes a proper entry of an answer with records (dns.go:145-172).
LEMMA EntryType ==
  ASSUME NEW x, IsAnswer(x), Cacheable(x), NEW t \in 0..MaxTime
  PROVE  /\ IsEntry(Entry(x, t)) /\ Entry(x, t).cachedAt = t
         /\ Entry(x, t).resp = [x EXCEPT !.rr = Stored(x.rr)]
<1> DEFINE rr == Stored(x.rr)
           y == [x EXCEPT !.rr = rr]
<1>1. x \in Responses /\ x.rr \in Seq(Records) /\ x.rr # <<>>
  BY DEF IsAnswer, Responses, Cacheable
<1>2. rr \in Seq(Records) /\ rr # <<>> /\ TTLs(rr) \in SUBSET (MinTTL..MaxTTL)
  BY <1>1, StoredType
<1>3. y \in Responses /\ y.rr = rr /\ y.asked = x.asked /\ y.from = x.from /\ y.routed = x.routed
  BY <1>1, <1>2 DEF Responses
<1>4. t + Min(TTLs(rr) \cup {MaxTTL}) \in 0..(MaxTime + MaxTTL)
  <2>1. Min(TTLs(rr) \cup {MaxTTL}) \in 0..MaxTTL
    BY <1>2, ShortestType
  <2> QED
    BY <2>1, TTLAssumption, MaxTimeAssumption
<1>5. Entry(x, t) = [resp |-> y, cachedAt |-> t, expiredAt |-> t + Min(TTLs(rr) \cup {MaxTTL})]
  BY DEF Entry
<1> HIDE DEF rr, y
<1>6. Entry(x, t) \in Entries /\ Entry(x, t).resp = y /\ Entry(x, t).cachedAt = t
  BY <1>3, <1>4, <1>5 DEF Entries
<1>7. IsEntry(Entry(x, t))
  BY <1>2, <1>3, <1>6 DEF IsEntry, IsAnswer
<1> QED
  BY <1>6, <1>7 DEF y, rr

\* Get counts a living entry down to a proper answer, each record to a life no
\* longer than its own and no later than its end (dns.go:107-127).
LEMMA CountedType ==
  ASSUME NEW e, IsEntry(e), NEW t \in 0..MaxTime, ~Expired(e, t)
  PROVE  /\ CountedDown(e, t) \in Seq(Records)
         /\ DOMAIN CountedDown(e, t) = DOMAIN e.resp.rr
         /\ IPs(CountedDown(e, t)) = IPs(e.resp.rr)
         /\ \A i \in DOMAIN CountedDown(e, t) :
              /\ CountedDown(e, t)[i].ttl \in 1..e.resp.rr[i].ttl
              /\ t + CountedDown(e, t)[i].ttl <= e.cachedAt + e.resp.rr[i].ttl
<1> DEFINE rr == e.resp.rr
           dd == CountedDown(e, t)
<1>1. rr \in Seq(Records) /\ e.cachedAt \in Nat /\ t \in Nat
  BY MaxTimeAssumption DEF IsEntry, Entries, Responses
<1>2. Elapsed(e, t) \in Nat /\ t - e.cachedAt <= Elapsed(e, t)
  BY <1>1 DEF Elapsed
<1>3. DOMAIN dd = DOMAIN rr
  BY DEF CountedDown
<1>4. \A i \in DOMAIN rr : dd[i] = [rr[i] EXCEPT !.ttl = @ - Elapsed(e, t)]
  BY DEF CountedDown
<1>5. \A i \in DOMAIN rr : ~(dd[i].ttl <= 0)
  BY DEF Expired
<1>6. ASSUME NEW i \in DOMAIN rr
      PROVE  /\ dd[i] \in Records /\ dd[i].ip = rr[i].ip /\ dd[i].ttl \in 1..rr[i].ttl
             /\ t + dd[i].ttl <= e.cachedAt + rr[i].ttl
  <2>1. rr[i] \in Records /\ rr[i].ttl \in Nat
    <3>1. rr[i] \in Records
      BY <1>1
    <3> QED
      BY <3>1 DEF Records
  <2>2. dd[i].ttl = rr[i].ttl - Elapsed(e, t) /\ dd[i].ip = rr[i].ip
    BY <1>4, <2>1 DEF Records
  <2>3. dd[i].ttl \in 1..rr[i].ttl
    BY <1>2, <1>5, <2>1, <2>2
  <2>4. dd[i] \in Records
    <3>1. dd[i] = [rr[i] EXCEPT !.ttl = @ - Elapsed(e, t)]
      BY <1>4
    <3>2. rr[i].ttl - Elapsed(e, t) \in Nat
      BY <2>2, <2>3
    <3> HIDE DEF dd, rr
    <3> QED
      BY <2>1, <3>1, <3>2 DEF Records
  <2>5. t + dd[i].ttl <= e.cachedAt + rr[i].ttl
    BY <1>1, <1>2, <2>1, <2>2
  <2> QED
    BY <2>2, <2>3, <2>4, <2>5
<1>7. dd \in Seq(Records)
  <2>1. dd = [i \in DOMAIN rr |-> [rr[i] EXCEPT !.ttl = @ - Elapsed(e, t)]]
    BY DEF CountedDown
  <2>2. rr \in Seq(Records)
    BY <1>1
  <2> HIDE DEF rr, dd
  <2>3. DOMAIN dd = 1..Len(rr) /\ Len(rr) \in Nat
    BY <1>3, <2>2
  <2>4. dd \in [1..Len(rr) -> Records]
    BY <1>6, <2>1, <2>3, <1>3
  <2> QED
    BY <2>3, <2>4
<1>8. IPs(dd) = IPs(rr)
  BY <1>3, <1>6 DEF IPs
<1> QED
  BY <1>3, <1>6, <1>7, <1>8

(***************************************************************************)
(* The inductive invariant.                                                *)
(***************************************************************************)

\* The group asked for x added its own subnet, or nothing.
RightSubnet(x) == x.sent = IF x.for.ecs # NoECS THEN x.for.ecs ELSE OwnECS[x.from]

\* The redirector of the group has seen x.
Settled(x) ==
    x.from = x.routed =>
      (Redirectors[x.from] # NoGroup =>
         \/ Redirectors[x.from].dst \in x.asked
         \/ \A ip \in IPs(x.rr) : (ip \in Redirectors[x.from].cidr) = Redirectors[x.from].notIn)

\* An entry stored under a key holds an answer to a request with that key, with which
\* the redirector is done.
EntryOK(e, key) ==
    IsEntry(e) /\ Key(e.resp.for) = key /\ RightSubnet(e.resp) /\ Settled(e.resp)

QueryOK(c) ==
    /\ pc[c] # "idle" => req[c] \in Requests
    /\ pc[c] \in {"asked", "redirected", "finish"} => group[c] \in Groups
    /\ pc[c] = "found" => item[c] # None /\ EntryOK(item[c], Key(req[c]))
    /\ pc[c] = "asked" =>
         \A g \in Groups \ {Fallback, ListGroup} :
           req[c].q \in Rules[g] => group[c] \notin {Fallback, ListGroup}
    /\ pc[c] = "redirected" =>
         /\ resp[c] # None /\ resp[c].from = resp[c].routed
         /\ Redirectors[resp[c].from] # NoGroup /\ group[c] = Redirectors[resp[c].from].dst
         /\ group[c] # resp[c].from
    /\ resp[c] # None =>
         /\ pc[c] \in {"redirected", "finish", "done"}
         /\ IsAnswer(resp[c]) /\ Key(resp[c].for) = Key(req[c]) /\ RightSubnet(resp[c])
         /\ pc[c] \in {"redirected", "finish"} => resp[c].for = req[c]
         /\ pc[c] # "redirected" => Settled(resp[c])

CacheOK == \A key \in Keys : cache[key] # None => EntryOK(cache[key], key)

IInv == TypeOK /\ CacheOK /\ \A c \in Clients : QueryOK(c)

(***************************************************************************)
(* The answers.                                                            *)
(***************************************************************************)

LEMMA RequestType ==
  ASSUME NEW r \in Requests
  PROVE  /\ r \in [q : Questions, ecs : Subnets, class : Classes] /\ r.ecs \in Subnets
         /\ r # None /\ Key(r) \in Keys
BY RequestsAssumption, NoneAssumption DEF Key, Keys

LEMMA SentSubnet ==
  ASSUME NEW r \in Requests, NEW g \in Groups
  PROVE  /\ Sent(g, r).ecs = IF r.ecs # NoECS THEN r.ecs ELSE OwnECS[g]
         /\ Sent(g, r).ecs \in Subnets
<1>1. Sent(g, r).ecs = IF r.ecs = NoECS THEN OwnECS[g] ELSE r.ecs
  BY RequestType DEF Sent
<1>2. OwnECS[g] \in Subnets
  BY DEF Subnets
<1> QED
  BY <1>1, <1>2, RequestType

LEMMA RedirectorType ==
  ASSUME NEW g \in Groups, Redirectors[g] # NoGroup
  PROVE  Redirectors[g].dst \in Groups /\ Redirectors[g].notIn \in BOOLEAN
BY RedirectorsAssumption

\* What the redirector lets through, it has examined (redirector.go:55-107).
LEMMA NotRedirected ==
  ASSUME NEW g \in Groups, NEW rr \in Seq(Records), Redirect(g, rr) = NoGroup,
         Redirectors[g] # NoGroup
  PROVE  \/ Redirectors[g].dst = g
         \/ \A ip \in IPs(rr) : (ip \in Redirectors[g].cidr) = Redirectors[g].notIn
<1>1. CASE SomeMatches(Redirectors[g], rr)
  <2>1. Redirectors[g].dst # NoGroup
    BY RedirectorType, ListGroupAssumption
  <2> QED
    BY <1>1, <2>1 DEF Redirect
<1>2. CASE ~SomeMatches(Redirectors[g], rr)
  <2>1. \A i \in DOMAIN rr : (rr[i].ip \in Redirectors[g].cidr) = Redirectors[g].notIn
    BY <1>2, RedirectorType DEF SomeMatches
  <2> QED
    BY <2>1 DEF IPs
<1> QED
  BY <1>1, <1>2

LEMMA Redirected ==
  ASSUME NEW g \in Groups, NEW rr, Redirect(g, rr) # NoGroup
  PROVE  /\ Redirectors[g] # NoGroup /\ Redirect(g, rr) = Redirectors[g].dst
         /\ Redirect(g, rr) # g /\ Redirect(g, rr) \in Groups
<1>1. Redirectors[g] # NoGroup /\ Redirect(g, rr) = Redirectors[g].dst /\ Redirectors[g].dst # g
  BY DEF Redirect
<1> QED
  BY <1>1, RedirectorType

\* The answer of a group asked first, and of one redirected to.
LEMMA ResponseType ==
  ASSUME NEW c \in Clients, NEW g \in Groups, NEW rr \in Seq(Records), req[c] \in Requests,
         NEW before,
         before # None => IsAnswer(before) /\ before.for = req[c]
  PROVE  LET x == Response(c, g, rr, before) IN
         /\ IsAnswer(x) /\ x # None /\ x.for = req[c] /\ RightSubnet(x) /\ x.rr = rr /\ x.from = g
         /\ x.routed = IF before = None THEN g ELSE before.routed
         /\ g \in x.asked
<1> DEFINE x == Response(c, g, rr, before)
           routed == IF before = None THEN g ELSE before.routed
           asked == IF before = None THEN {g} ELSE before.asked \cup {g}
<1>1. before # None => /\ before.routed \in before.asked /\ before.asked \in SUBSET Groups
                       /\ before.routed \in Groups
  BY DEF IsAnswer, Responses
<1>2. routed \in asked /\ asked \in SUBSET Groups /\ g \in asked
  BY <1>1
<1>3. (IF before = None THEN req[c] ELSE before.for) = req[c]
  OBVIOUS
<1> HIDE DEF routed, asked
<1>4. x = [rr |-> rr, for |-> req[c], sent |-> Sent(g, req[c]).ecs, from |-> g,
           routed |-> routed, asked |-> asked]
  BY <1>3 DEF Response, routed, asked
<1>5. routed \in Groups
  BY <1>2
<1> HIDE DEF x
<1>6. x \in Responses
  BY <1>2, <1>4, <1>5, SentSubnet DEF Responses
<1>7. IsAnswer(x) /\ x # None
  BY <1>2, <1>4, <1>6, NoneAssumption DEF IsAnswer
<1>8. RightSubnet(x)
  BY <1>4, SentSubnet DEF RightSubnet
<1> QED
  BY <1>2, <1>4, <1>7, <1>8 DEF x, routed

(***************************************************************************)
(* The steps of one query.                                                 *)
(***************************************************************************)
Kept(c) == TypeOK /\ CacheOK /\ QueryOK(c)

LEMMA ReceiveOK ==
  ASSUME IInv, NEW c \in Clients, NEW r \in Requests, Receive(c, r)
  PROVE  Kept(c)'
<1>1. TypeOK'
  BY DEF IInv, TypeOK, Receive
<1>2. CacheOK'
  BY DEF IInv, CacheOK, Receive
<1>3. pc'[c] \in {"done", "lookup"} /\ req'[c] = r /\ resp'[c] = None
  BY DEF IInv, TypeOK, QueryOK, Receive
<1> QED
  BY <1>1, <1>2, <1>3 DEF Kept, QueryOK

LEMMA LookupOK ==
  ASSUME IInv, NEW c \in Clients, Miss(c) \/ Find(c)
  PROVE  Kept(c)'
<1>1. req[c] \in Requests /\ resp[c] = None /\ pc[c] = "lookup" /\ Key(req[c]) \in Keys
  BY RequestType DEF IInv, QueryOK, Miss, Find
<1>2. CASE Miss(c)
  <2>1. TypeOK'
    BY <1>2 DEF IInv, TypeOK, Miss
  <2>2. CacheOK'
    BY <1>2 DEF IInv, CacheOK, Miss
  <2>3. pc'[c] = "route" /\ req' = req /\ resp' = resp
    BY <1>2 DEF IInv, TypeOK, Miss
  <2> QED
    BY <1>1, <2>1, <2>2, <2>3 DEF Kept, QueryOK
<1>3. CASE Find(c)
  <2>1. /\ cache[Key(req[c])] # None /\ item' = [item EXCEPT ![c] = cache[Key(req[c])]]
        /\ EntryOK(cache[Key(req[c])], Key(req[c]))
    BY <1>1, <1>3 DEF IInv, CacheOK, Find
  <2>2. TypeOK'
    BY <1>1, <1>3, <2>1 DEF IInv, TypeOK, Find
  <2>3. CacheOK'
    BY <1>3 DEF IInv, CacheOK, Find
  <2>4. pc'[c] = "found" /\ req' = req /\ resp' = resp /\ item'[c] = cache[Key(req[c])]
    BY <1>3, <2>1 DEF IInv, TypeOK, Find
  <2> QED
    BY <1>1, <2>1, <2>2, <2>3, <2>4 DEF Kept, QueryOK
<1> QED
  BY <1>2, <1>3

\* What the cache gives out (dns.go:107-141).
LEMMA ServeOK ==
  ASSUME IInv, NEW c \in Clients, ServeFromCache(c)
  PROVE  Kept(c)'
<1> DEFINE e == item[c]
           y == [e.resp EXCEPT !.rr = CountedDown(e, now)]
<1>1. /\ req[c] \in Requests /\ resp[c] = None /\ e # None /\ EntryOK(e, Key(req[c]))
      /\ now \in 0..MaxTime /\ ~Expired(e, now)
  BY DEF IInv, TypeOK, QueryOK, ServeFromCache
<1>2. CountedDown(e, now) \in Seq(Records) /\ IPs(CountedDown(e, now)) = IPs(e.resp.rr)
  BY <1>1, CountedType DEF EntryOK
<1>3. e.resp \in Responses /\ IsAnswer(e.resp)
  BY <1>1 DEF EntryOK, IsEntry, IsAnswer
<1>4. y = [e.resp EXCEPT !.rr = CountedDown(e, now)]
  OBVIOUS
<1>5. resp' = [resp EXCEPT ![c] = y]
  BY DEF ServeFromCache
<1> HIDE DEF e, y
<1>6. /\ y \in Responses /\ y.rr = CountedDown(e, now) /\ y.for = e.resp.for /\ y.sent = e.resp.sent
      /\ y.from = e.resp.from /\ y.routed = e.resp.routed /\ y.asked = e.resp.asked
  BY <1>2, <1>3, <1>4 DEF Responses
<1>7. /\ IsAnswer(y) /\ Key(y.for) = Key(req[c]) /\ RightSubnet(y) /\ Settled(y) /\ y # None
  BY <1>1, <1>2, <1>3, <1>6, NoneAssumption DEF EntryOK, IsAnswer, RightSubnet, Settled
<1>8. TypeOK'
  BY <1>5, <1>6, <1>7 DEF IInv, TypeOK, ServeFromCache
<1>9. CacheOK'
  BY DEF IInv, CacheOK, ServeFromCache
<1>10. pc'[c] = "done" /\ req' = req /\ resp'[c] = y
  BY <1>5 DEF IInv, TypeOK, ServeFromCache
<1> QED
  BY <1>1, <1>7, <1>8, <1>9, <1>10 DEF Kept, QueryOK

LEMMA DropOK ==
  ASSUME IInv, NEW c \in Clients, DropExpired(c)
  PROVE  Kept(c)'
<1>1. req[c] \in Requests /\ resp[c] = None /\ Key(req[c]) \in Keys
  BY RequestType DEF IInv, QueryOK, DropExpired
<1>2. TypeOK'
  BY <1>1 DEF IInv, TypeOK, DropExpired
<1>3. CacheOK'
  BY <1>1 DEF IInv, TypeOK, CacheOK, DropExpired
<1>4. pc'[c] = "route" /\ req' = req /\ resp' = resp
  BY DEF IInv, TypeOK, DropExpired
<1> QED
  BY <1>1, <1>2, <1>3, <1>4 DEF Kept, QueryOK

LEMMA RouteOK ==
  ASSUME IInv, NEW c \in Clients, Route(c)
  PROVE  Kept(c)'
<1> DEFINE g == Matched(req[c].q)
<1>1. /\ req[c] \in Requests /\ resp[c] = None /\ g \in Groups
      /\ \A h \in Groups \ {Fallback, ListGroup} :
           req[c].q \in Rules[h] => g \notin {Fallback, ListGroup}
  BY MatchedType DEF IInv, QueryOK, Route
<1>2. group' = [group EXCEPT ![c] = g]
  BY DEF Route
<1> HIDE DEF g
<1>3. TypeOK'
  BY <1>1, <1>2 DEF IInv, TypeOK, Route
<1>4. CacheOK'
  BY DEF IInv, CacheOK, Route
<1>5. pc'[c] = "asked" /\ req' = req /\ resp' = resp /\ group'[c] = g
  BY <1>2 DEF IInv, TypeOK, Route
<1> QED
  BY <1>1, <1>3, <1>4, <1>5 DEF Kept, QueryOK

\* A group answers, and the redirector looks at the first answer (handler.go:354-371).
LEMMA AnswersOK ==
  ASSUME IInv, NEW c \in Clients, NEW rr \in Answers, HandleAnswers(c, rr)
  PROVE  Kept(c)'
<1> DEFINE g == group[c]
           x == Response(c, g, rr, resp[c])
           to == IF pc[c] = "asked" THEN Redirect(g, rr) ELSE NoGroup
<1>1. /\ rr \in Seq(Records) /\ req[c] \in Requests /\ g \in Groups
      /\ resp[c] # None => IsAnswer(resp[c]) /\ resp[c].for = req[c]
      /\ pc[c] = "asked" => resp[c] = None
      /\ pc[c] = "redirected" => resp[c] # None /\ resp[c].from = resp[c].routed /\ g # resp[c].from
      /\ pc[c] \in {"asked", "redirected"}
  BY AnswersAssumption DEF IInv, QueryOK, HandleAnswers
<1>2. /\ IsAnswer(x) /\ x # None /\ x.for = req[c] /\ RightSubnet(x) /\ x.rr = rr /\ x.from = g
      /\ x.routed = IF resp[c] = None THEN g ELSE resp[c].routed
      /\ g \in x.asked
  BY <1>1, ResponseType
<1>3. /\ resp' = [resp EXCEPT ![c] = x] /\ req' = [req EXCEPT ![c] = req[c]]
      /\ to = NoGroup => pc' = [pc EXCEPT ![c] = "finish"] /\ group' = group
      /\ to # NoGroup => /\ pc' = [pc EXCEPT ![c] = "redirected"]
                         /\ group' = [group EXCEPT ![c] = to]
      /\ UNCHANGED <<now, gfwList, cache, ipset, item>>
  BY DEF HandleAnswers, HandledOnCopy
<1>4. to # NoGroup => /\ to \in Groups /\ pc[c] = "asked" /\ Redirectors[g] # NoGroup
                      /\ to = Redirectors[g].dst /\ to # g
  BY <1>1, Redirected
<1>5. to = NoGroup => Settled(x)
  <2>1. CASE pc[c] = "redirected"
    BY <1>1, <1>2, <2>1 DEF Settled
  <2>2. CASE pc[c] = "asked" /\ to = NoGroup /\ Redirectors[g] # NoGroup
    <3>1. \/ Redirectors[g].dst = g
          \/ \A ip \in IPs(rr) : (ip \in Redirectors[g].cidr) = Redirectors[g].notIn
      BY <1>1, <2>2, NotRedirected
    <3> QED
      BY <1>2, <3>1 DEF Settled
  <2>3. CASE Redirectors[g] = NoGroup
    BY <1>2, <2>3 DEF Settled
  <2> QED
    BY <1>1, <2>1, <2>2, <2>3
<1> HIDE DEF x, g, to
<1>6. x \in Responses
  BY <1>2 DEF IsAnswer
<1>7. req' = req
  BY <1>3 DEF IInv, TypeOK
<1>8. resp'[c] = x
  BY <1>3 DEF IInv, TypeOK
<1>9. CacheOK'
  BY <1>3 DEF IInv, CacheOK
<1>10. CASE to = NoGroup
  <2>1. TypeOK'
    BY <1>2, <1>3, <1>6, <1>7, <1>10 DEF IInv, TypeOK
  <2>2. pc'[c] = "finish" /\ group'[c] = g
    BY <1>3, <1>10 DEF IInv, TypeOK, g
  <2> QED
    BY <1>1, <1>2, <1>5, <1>7, <1>8, <1>9, <1>10, <2>1, <2>2 DEF Kept, QueryOK
<1>11. CASE to # NoGroup
  <2>1. TypeOK'
    BY <1>2, <1>3, <1>4, <1>6, <1>7, <1>11 DEF IInv, TypeOK
  <2>2. pc'[c] = "redirected" /\ group'[c] = to
    BY <1>3, <1>11 DEF IInv, TypeOK
  <2>3. x.routed = g
    BY <1>1, <1>2, <1>4, <1>11
  <2> QED
    BY <1>1, <1>2, <1>4, <1>7, <1>8, <1>9, <1>11, <2>1, <2>2, <2>3 DEF Kept, QueryOK
<1> QED
  BY <1>10, <1>11

\* A group gives no answer: what another one answered before stands, and it has been
\* checked now (handler.go:362-371).
LEMMA FailsOK ==
  ASSUME IInv, NEW c \in Clients, HandleFails(c)
  PROVE  Kept(c)'
<1> DEFINE y == IF resp[c] = None THEN None ELSE AlsoAsked(resp[c], group[c])
<1>1. /\ req[c] \in Requests /\ group[c] \in Groups
      /\ resp[c] # None =>
           /\ IsAnswer(resp[c]) /\ resp[c].for = req[c] /\ RightSubnet(resp[c])
           /\ Redirectors[resp[c].from] # NoGroup /\ group[c] = Redirectors[resp[c].from].dst
  BY DEF IInv, QueryOK, HandleFails
<1>2. resp' = [resp EXCEPT ![c] = y]
  BY DEF HandleFails
<1>3. resp[c] # None =>
        /\ y \in Responses /\ y.rr = resp[c].rr /\ y.for = resp[c].for /\ y.sent = resp[c].sent
        /\ y.from = resp[c].from /\ y.routed = resp[c].routed
        /\ y.asked = resp[c].asked \cup {group[c]}
  BY <1>1 DEF IsAnswer, Responses, AlsoAsked
<1>4. resp[c] = None => y = None
  OBVIOUS
<1> HIDE DEF y
<1>5. y # None => /\ resp[c] # None /\ IsAnswer(y) /\ y.for = req[c] /\ RightSubnet(y) /\ Settled(y)
  BY <1>1, <1>3, <1>4 DEF IsAnswer, RightSubnet, Settled
<1>6. y \in Responses \cup {None}
  BY <1>3, <1>4
<1>7. TypeOK'
  BY <1>2, <1>5, <1>6 DEF IInv, TypeOK, HandleFails
<1>8. CacheOK'
  BY DEF IInv, CacheOK, HandleFails
<1>9. pc'[c] = "finish" /\ req' = req /\ group' = group /\ resp'[c] = y
  BY <1>2 DEF IInv, TypeOK, HandleFails
<1> QED
  BY <1>1, <1>5, <1>7, <1>8, <1>9 DEF Kept, QueryOK

\* What is stored is an answer to a request with the key it is stored under
\* (handler.go:373-382).
LEMMA StoredOK ==
  ASSUME NEW x, IsAnswer(x), RightSubnet(x), Settled(x), Cacheable(x), NEW t \in 0..MaxTime
  PROVE  EntryOK(Entry(x, t), Key(x.for)) /\ Entry(x, t) # None
<1> DEFINE e == Entry(x, t)
<1>1. IsEntry(e) /\ e.resp = [x EXCEPT !.rr = Stored(x.rr)]
  BY EntryType
<1>2. x \in Responses /\ IPs(Stored(x.rr)) = IPs(x.rr)
  BY StoredType DEF IsAnswer, Responses
<1> HIDE DEF e
<1>3. /\ e.resp.rr = Stored(x.rr) /\ e.resp.for = x.for /\ e.resp.sent = x.sent
      /\ e.resp.from = x.from /\ e.resp.routed = x.routed /\ e.resp.asked = x.asked
  BY <1>1, <1>2 DEF Responses
<1>4. e # None
  BY <1>1, NoneAssumption DEF IsEntry
<1>5. EntryOK(e, Key(x.for))
  BY <1>1, <1>2, <1>3 DEF EntryOK, RightSubnet, Settled
<1> QED
  BY <1>4, <1>5 DEF e

LEMMA FinishOK ==
  ASSUME IInv, NEW c \in Clients, Finish(c)
  PROVE  Kept(c)'
<1>1. /\ req[c] \in Requests /\ Key(req[c]) \in Keys
      /\ group[c] \in Groups /\ now \in 0..MaxTime
      /\ resp[c] # None => /\ IsAnswer(resp[c]) /\ resp[c].for = req[c]
                           /\ RightSubnet(resp[c]) /\ Settled(resp[c])
  BY RequestType DEF IInv, TypeOK, QueryOK, Finish
<1>2. resp[c] # None => Posted(group[c], resp[c].rr) \subseteq Addresses
  <2> SUFFICES ASSUME resp[c] # None PROVE IPs(resp[c].rr) \subseteq Addresses
    BY DEF Posted
  <2>1. resp[c].rr \in Seq(Records)
    BY <1>1 DEF IsAnswer, Responses
  <2>2. \A i \in DOMAIN resp[c].rr : resp[c].rr[i] \in Records
    BY <2>1
  <2>3. \A i \in DOMAIN resp[c].rr : resp[c].rr[i].ip \in Addresses
    BY <2>2 DEF Records
  <2> QED
    BY <2>3 DEF IPs
<1>3. ipset' \in [Groups -> SUBSET Addresses]
  BY <1>2 DEF Finish, IInv, TypeOK
<1>4. CASE cache' = cache
  <2>1. TypeOK'
    BY <1>3, <1>4 DEF IInv, TypeOK, Finish
  <2>2. CacheOK'
    BY <1>4 DEF IInv, CacheOK
  <2>3. pc'[c] = "done" /\ req' = req /\ resp' = resp
    BY DEF IInv, TypeOK, Finish
  <2> QED
    BY <1>1, <2>1, <2>2, <2>3 DEF Kept, QueryOK
<1>5. CASE /\ resp[c] # None /\ Cacheable(resp[c])
           /\ cache' = [cache EXCEPT ![Key(req[c])] = Entry(resp[c], now)]
  <2> DEFINE e == Entry(resp[c], now)
  <2>1. EntryOK(e, Key(req[c])) /\ IsEntry(e) /\ e \in Entries
    BY <1>1, <1>5, StoredOK DEF EntryOK, IsEntry
  <2>2. cache' = [cache EXCEPT ![Key(req[c])] = e]
    BY <1>5
  <2> HIDE DEF e
  <2>3. TypeOK'
    BY <1>1, <1>3, <2>1, <2>2 DEF IInv, TypeOK, Finish
  <2>4. CacheOK'
    BY <1>1, <2>1, <2>2 DEF IInv, TypeOK, CacheOK
  <2>5. pc'[c] = "done" /\ req' = req /\ resp' = resp
    BY DEF IInv, TypeOK, Finish
  <2> QED
    BY <1>1, <2>3, <2>4, <2>5 DEF Kept, QueryOK
<1> QED
  BY <1>4, <1>5 DEF Finish

LEMMA ReplyOK ==
  ASSUME IInv, NEW c \in Clients, Reply(c)
  PROVE  Kept(c)'
<1>1. TypeOK'
  BY DEF IInv, TypeOK, Reply
<1>2. CacheOK'
  BY DEF IInv, CacheOK, Reply
<1>3. pc'[c] = "idle" /\ resp'[c] = None
  BY DEF IInv, TypeOK, Reply
<1> QED
  BY <1>1, <1>2, <1>3 DEF Kept, QueryOK

(***************************************************************************)
(* All steps.                                                              *)
(***************************************************************************)
Same(c) ==
    /\ pc'[c] = pc[c] /\ req'[c] = req[c] /\ item'[c] = item[c]
    /\ group'[c] = group[c] /\ resp'[c] = resp[c]

StepOf(c) ==
    \/ \E r \in Requests : Receive(c, r)
    \/ Miss(c) \/ Find(c) \/ ServeFromCache(c) \/ DropExpired(c) \/ Route(c)
    \/ \E rr \in Answers : HandleAnswers(c, rr)
    \/ HandleFails(c) \/ Finish(c) \/ Reply(c)

LEMMA OthersSame ==
  ASSUME TypeOK, NEW c \in Clients, StepOf(c), NEW d \in Clients, d # c
  PROVE  Same(d)
<1> USE DEF TypeOK, Same
<1>1. CASE \E r \in Requests : Receive(c, r)
  BY <1>1 DEF Receive
<1>2. CASE Miss(c) \/ Find(c) \/ ServeFromCache(c) \/ DropExpired(c) \/ Route(c)
  BY <1>2 DEF Miss, Find, ServeFromCache, DropExpired, Route
<1>3. CASE \E rr \in Answers : HandleAnswers(c, rr)
  BY <1>3 DEF HandleAnswers
<1>4. CASE HandleFails(c) \/ Finish(c) \/ Reply(c)
  BY <1>4 DEF HandleFails, Finish, Reply
<1> QED
  BY <1>1, <1>2, <1>3, <1>4 DEF StepOf

\* The cache loses entries and the clock and the list change: no query is touched.
Around ==
    \/ \E key \in Keys : Evict(key)
    \/ \E list \in Lists : RefreshList(list)
    \/ Tick \/ ClockBack \/ UNCHANGED vars

LEMMA AroundOK ==
  ASSUME IInv, Around
  PROVE  TypeOK' /\ CacheOK' /\ \A c \in Clients : Same(c)
<1>1. CASE \E key \in Keys : Evict(key)
  BY <1>1 DEF IInv, TypeOK, CacheOK, Same, Evict, query
<1>2. CASE \E list \in Lists : RefreshList(list)
  BY <1>2 DEF IInv, TypeOK, CacheOK, Same, RefreshList, query
<1>3. CASE Tick \/ ClockBack
  BY <1>3, MaxTimeAssumption DEF IInv, TypeOK, CacheOK, Same, Tick, ClockBack, query
<1>4. CASE UNCHANGED vars
  BY <1>4 DEF IInv, TypeOK, CacheOK, Same, vars, query
<1> QED
  BY <1>1, <1>2, <1>3, <1>4 DEF Around

LEMMA SameOK ==
  ASSUME NEW c \in Clients, QueryOK(c), Same(c)
  PROVE  QueryOK(c)'
BY DEF QueryOK, Same

LEMMA InitIInv == Init => IInv
<1> SUFFICES ASSUME Init PROVE IInv
  OBVIOUS
<1>1. TypeOK
  BY MaxTimeAssumption DEF Init, TypeOK
<1> QED
  BY <1>1 DEF Init, IInv, CacheOK, QueryOK

LEMMA NextIInv == IInv /\ [Next]_vars => IInv'
<1> SUFFICES ASSUME IInv, [Next]_vars PROVE IInv'
  OBVIOUS
<1>1. ASSUME NEW c \in Clients, StepOf(c) PROVE IInv'
  <2>1. Kept(c)'
    BY <1>1, ReceiveOK, LookupOK, ServeOK, DropOK, RouteOK, AnswersOK, FailsOK, FinishOK, ReplyOK
       DEF StepOf
  <2>2. ASSUME NEW d \in Clients, d # c PROVE QueryOK(d)'
    BY <1>1, <2>2, OthersSame, SameOK DEF IInv
  <2> QED
    BY <2>1, <2>2 DEF IInv, Kept
<1>2. CASE Around
  BY <1>2, AroundOK, SameOK DEF IInv
<1> QED
  BY <1>1, <1>2 DEF Next, StepOf, Around

LEMMA Invariant == Spec => []IInv
BY InitIInv, NextIInv, PTL DEF Spec

(***************************************************************************)
(* The theorems.                                                           *)
(***************************************************************************)

\* Every variable keeps its type, and every cached record a TTL within the limits
\* (dns.go:145-172).
THEOREM TypeCorrect == Spec => []TypeOK
<1>1. IInv => TypeOK
  BY DEF IInv
<1> QED
  BY <1>1, Invariant, PTL

\* A client is only ever given an answer that was fetched for a request with its name,
\* type and subnet, and when it was not the cache's, for its very request: no two
\* requests that differ in them have a key in common, and no group's subnet gets into
\* a key (handler.go:330-382, groups.go:450-457, dns.go:88-95).
THEOREM OwnAnswer == Spec => []AnswersOwnRequest
<1>1. IInv => AnswersOwnRequest
  BY DEF IInv, QueryOK, Key, AnswersOwnRequest
<1> QED
  BY <1>1, Invariant, PTL

\* No group is sent the subnet that another one adds (utils/dns.go:61-91).
THEOREM OwnSubnet == Spec => []OwnSubnetSent
<1>1. IInv => OwnSubnetSent
  BY DEF IInv, QueryOK, RightSubnet, OwnSubnetSent
<1> QED
  BY <1>1, Invariant, PTL

\* Whatever the redirectors point at, an answer they act on is given out only when
\* the other group was asked and gave none (handler.go:362-371).
THEOREM RedirectObeyed == Spec => []RedirectRespected
<1>1. IInv => RedirectRespected
  BY DEF IInv, QueryOK, Settled, RedirectRespected
<1> QED
  BY <1>1, Invariant, PTL

\* Rules of a group come before the GFW list and the fallback, for any rules and any
\* list (handler.go:152-161, 339-353).
THEOREM RulesFirst == Spec => []RulesBeforeList
<1>1. IInv => RulesBeforeList
  BY DEF IInv, QueryOK, RulesBeforeList
<1> QED
  BY <1>1, Invariant, PTL

\* The steps that give out a cached answer count it down truthfully.
LEMMA StepHonest ==
  ASSUME IInv, [Next]_vars, NEW c \in Clients, pc[c] = "found", pc'[c] = "done",
         NEW i \in DOMAIN resp'[c].rr
  PROVE  /\ resp'[c].rr[i].ttl \in 1..item[c].resp.rr[i].ttl
         /\ now + resp'[c].rr[i].ttl <= item[c].cachedAt + item[c].resp.rr[i].ttl
<1>1. ServeFromCache(c)
  <2>1. ~Same(c)
    BY DEF Same
  <2>2. StepOf(c)
    BY <2>1, OthersSame, AroundOK DEF Next, StepOf, Around, IInv
  <2>3. pc'[c] # "route"
    OBVIOUS
  <2>4. ~DropExpired(c)
    BY <2>3 DEF DropExpired, IInv, TypeOK
  <2> QED
    BY <2>2, <2>4 DEF StepOf, Receive, Miss, Find, Route, HandleAnswers, HandleFails, Finish, Reply
<1>2. IsEntry(item[c]) /\ now \in 0..MaxTime /\ ~Expired(item[c], now)
  BY <1>1 DEF IInv, TypeOK, QueryOK, EntryOK, ServeFromCache
<1>3. resp'[c] = [item[c].resp EXCEPT !.rr = CountedDown(item[c], now)]
  BY <1>1 DEF IInv, TypeOK, ServeFromCache
<1>4. resp'[c].rr = CountedDown(item[c], now)
  BY <1>2, <1>3 DEF IsEntry, IsAnswer, Responses
<1> QED
  BY <1>2, <1>4, CountedType

\* A reply from the cache never promises a record beyond the end of the life it was
\* stored with, however the clock is set (dns.go:107-127).
THEOREM HonestTTL == Spec => ServedTTLHonest
<1>1. IInv /\ [Next]_vars =>
        [\A c \in Clients :
           pc[c] = "found" /\ pc'[c] = "done" =>
             \A i \in DOMAIN resp'[c].rr :
               LET ttl == resp'[c].rr[i].ttl
                   life == item[c].resp.rr[i].ttl
               IN  ttl \in 1..life /\ now + ttl <= item[c].cachedAt + life]_vars
  BY StepHonest
<1> QED
  BY <1>1, InitIInv, NextIInv, PTL DEF Spec, ServedTTLHonest
==============================================================================
