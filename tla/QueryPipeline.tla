--------------------------- MODULE QueryPipeline ---------------------------
(***************************************************************************)
(* handlerImpl.handle (inbound/handler.go): what happens to a query inside *)
(* one handler, from the listener to the reply: hosts, cache, the choice   *)
(* of the group, the redirector (redirector/redirector.go), the ipset and  *)
(* the cache (cache/dns.go).  Queries run concurrently and share the cache *)
(* while time passes, the clock is corrected and the GFW list is updated.  *)
(* How a group obtains its answer is modelled in CallerSelect and Hijack,  *)
(* the ipset channel in HandlerLifecycle.                                  *)
(***************************************************************************)
EXTENDS DNSCache

CONSTANTS
    Clients,        \* goroutines that run handle()
    Requests,       \* the requests [q, ecs, class]: name (whatever its case) and
                    \* type, the client subnet as FormatECS writes it, and the
                    \* class, which stands for all that the cache key leaves out
    NoECS,          \* a request without client subnet
    Local,          \* questions answered by hosts or refused for their type
    Groups,         \* names of the groups; numbers, as names have an order
    Fallback,       \* the fallback group
    ListGroup,      \* the group with the GFW list, NoGroup if there is none
    NoGroup,
    Rules,          \* the questions each group's own rules match
    Lists,          \* what a GFW list may match: sets of questions
    Disabled,       \* the questions each group refuses for their type
    OwnECS,         \* the subnet each group adds (withECS), or NoECS
    Redirectors,    \* each group's redirector [cidr, notIn, dst], or NoGroup
    IPSets,         \* the groups that have an ipset
    Addresses,      \* the addresses a record may hold
    Answers,        \* the record sequences upstreams may answer with
    CacheSize,      \* the entries the cache has room for (maxSize)
    MaxTime,        \* bound on the clock
    None

ASSUME GroupsAssumption == Groups \subseteq Nat /\ Fallback \in Groups
ASSUME ListGroupAssumption == ListGroup \in Groups \cup {NoGroup} /\ NoGroup \notin Groups

Questions == {r.q : r \in Requests}
Classes == {r.class : r \in Requests}
Subnets == {r.ecs : r \in Requests} \cup {NoECS} \cup {OwnECS[g] : g \in Groups}
Keys == [q : Questions, ecs : Subnets]
Records == [ip : Addresses, ttl : Nat]
Responses == [rr : Seq(Records), for : Requests, sent : Subnets,
              from : Groups, routed : Groups, asked : SUBSET Groups]
Entries == [resp : Responses, cachedAt : 0..MaxTime, expiredAt : 0..(MaxTime + MaxTTL)]

ASSUME RequestsAssumption == Requests \subseteq [q : Questions, ecs : Subnets, class : Classes]
ASSUME AnswersAssumption == Answers \subseteq Seq(Records)
ASSUME RedirectorsAssumption ==
    Redirectors \in [Groups -> [cidr : SUBSET Addresses, notIn : BOOLEAN, dst : Groups] \cup {NoGroup}]
ASSUME NoGroupAssumption == NoGroup \notin [cidr : SUBSET Addresses, notIn : BOOLEAN, dst : Groups]
ASSUME NoneAssumption == None \notin Requests /\ None \notin Responses /\ None \notin Entries
ASSUME MaxTimeAssumption == MaxTime \in Nat

VARIABLES
    now,        \* the clock
    gfwList,    \* what the GFW list matches (groupImpl.gfwList)
    cache,      \* key -> entry, or None
    ipset,      \* group -> the addresses PostProcess has handed on
    pc, req,    \* of each query: where it is, and its request
    item,       \* the entry that Get has found
    group,      \* matched: the group asked, later the one redirected to
    resp        \* the answer in hand, or None

query == <<pc, req, item, group, resp>>
vars == <<now, gfwList, cache, ipset, query>>

Init ==
    /\ now = 0
    /\ gfwList \in Lists
    /\ cache = [key \in Keys |-> None]
    /\ ipset = [g \in Groups |-> {}]
    /\ pc = [c \in Clients |-> "idle"]
    /\ req = [c \in Clients |-> None]
    /\ item = [c \in Clients |-> None]
    /\ group = [c \in Clients |-> NoGroup]
    /\ resp = [c \in Clients |-> None]

(***************************************************************************)
(* The order in which newHandle sorts the groups, and the first to match.  *)
(***************************************************************************)
HasGFWList(g) == g = ListGroup

BeforeByName(g, h) == IF (g = Fallback) # (h = Fallback) THEN h = Fallback ELSE g < h

Before(g, h) ==
    IF (g = Fallback) # (h = Fallback) THEN h = Fallback
    ELSE IF HasGFWList(g) # HasGFWList(h) THEN HasGFWList(h)
    ELSE g < h

Match(g, q) == q \in Rules[g] \/ (HasGFWList(g) /\ q \in gfwList)

Matched(q) ==
    LET matching == {g \in Groups : Match(g, q)}
    IN  IF matching = {} THEN Fallback
        ELSE CHOOSE g \in matching : \A h \in matching \ {g} : Before(g, h)

(***************************************************************************)
(* What a group sends, and what its answer is.  Beside the records an      *)
(* answer carries what the properties ask about: the request it was        *)
(* fetched for, the subnet sent, the group routed to, the group it is      *)
(* from and the groups asked.                                              *)
(***************************************************************************)

\* SetDefaultECS: a subnet of the client's own stays.
Sent(g, r) == [r EXCEPT !.ecs = IF @ = NoECS THEN OwnECS[g] ELSE @]

\* Handle rewrites a copy of the request.
HandledInPlace(g, r) == IF Sent(g, r) \in Requests THEN Sent(g, r) ELSE r
HandledOnCopy(g, r) == r

Response(c, g, rr, before) ==
    [rr |-> rr, for |-> IF before = None THEN req[c] ELSE before.for, sent |-> Sent(g, req[c]).ecs, from |-> g,
     routed |-> IF before = None THEN g ELSE before.routed,
     asked |-> IF before = None THEN {g} ELSE before.asked \cup {g}]

(***************************************************************************)
(* The redirector: the group to ask instead, if one address is (or, for    *)
(* notIn, is not) in its ranges.  A redirection to itself is none.         *)
(***************************************************************************)
OnlyFirstMatches(redirector, rr) ==
    rr # <<>> /\ (rr[1].ip \in redirector.cidr) # redirector.notIn
SomeMatches(redirector, rr) ==
    \E i \in DOMAIN rr : (rr[i].ip \in redirector.cidr) # redirector.notIn

Redirect(src, rr) ==
    IF Redirectors[src] # NoGroup /\ SomeMatches(Redirectors[src], rr)
      THEN IF Redirectors[src].dst = src THEN NoGroup ELSE Redirectors[src].dst
      ELSE NoGroup

(***************************************************************************)
(* The steps of handle().                                                  *)
(***************************************************************************)

Receive(c, r) ==
    /\ pc[c] = "idle"
    /\ req' = [req EXCEPT ![c] = r]
    /\ pc' = [pc EXCEPT ![c] = IF r.q \in Local THEN "done" ELSE "lookup"]
    /\ UNCHANGED <<now, gfwList, cache, ipset, item, group, resp>>

\* cacheKey: the name, the type and the subnet the request carries.  Requests that
\* differ in their class, or in flags and options, have one entry between them.
KeyWithoutSubnet(r) == [q |-> r.q, ecs |-> NoECS]
Key(r) == [q |-> r.q, ecs |-> r.ecs]

\* cache.Get finds no entry...
Miss(c) ==
    /\ pc[c] = "lookup" /\ cache[Key(req[c])] = None
    /\ pc' = [pc EXCEPT ![c] = "route"]
    /\ UNCHANGED <<now, gfwList, cache, ipset, req, item, group, resp>>

\* ... or one, which it then looks at: meanwhile others replace or delete it.
Find(c) ==
    /\ pc[c] = "lookup" /\ cache[Key(req[c])] # None
    /\ item' = [item EXCEPT ![c] = cache[Key(req[c])]]
    /\ pc' = [pc EXCEPT ![c] = "found"]
    /\ UNCHANGED <<now, gfwList, cache, ipset, req, group, resp>>

ServeFromCache(c) ==
    /\ pc[c] = "found" /\ ~Expired(item[c], now)
    /\ resp' = [resp EXCEPT ![c] = [item[c].resp EXCEPT !.rr = CountedDown(item[c], now)]]
    /\ item' = [item EXCEPT ![c] = None]
    /\ pc' = [pc EXCEPT ![c] = "done"]
    /\ UNCHANGED <<now, gfwList, cache, ipset, req, group>>

\* Del removes whatever is under the key by now.
DropExpired(c) ==
    /\ pc[c] = "found" /\ Expired(item[c], now)
    /\ cache' = [cache EXCEPT ![Key(req[c])] = None]
    /\ item' = [item EXCEPT ![c] = None]
    /\ pc' = [pc EXCEPT ![c] = "route"]
    /\ UNCHANGED <<now, gfwList, ipset, req, group, resp>>

Route(c) ==
    /\ pc[c] = "route"
    /\ group' = [group EXCEPT ![c] = Matched(req[c].q)]
    /\ pc' = [pc EXCEPT ![c] = "asked"]
    /\ UNCHANGED <<now, gfwList, cache, ipset, req, item, resp>>

\* group.Handle answers; the answer of the group first asked goes through the
\* redirector, that of the group redirected to does not.
HandleAnswers(c, rr) ==
    /\ pc[c] \in {"asked", "redirected"}
    /\ req[c].q \notin Disabled[group[c]]
    /\ resp' = [resp EXCEPT ![c] = Response(c, group[c], rr, resp[c])]
    /\ req' = [req EXCEPT ![c] = HandledOnCopy(group[c], @)]
    /\ LET to == IF pc[c] = "asked" THEN Redirect(group[c], rr) ELSE NoGroup
       IN  IF to = NoGroup
             THEN /\ pc' = [pc EXCEPT ![c] = "finish"]
                  /\ group' = group
             ELSE /\ pc' = [pc EXCEPT ![c] = "redirected"]
                  /\ group' = [group EXCEPT ![c] = to]
    /\ UNCHANGED <<now, gfwList, cache, ipset, item>>

AlsoAsked(r, g) == [r EXCEPT !.asked = @ \cup {g}]

\* group.Handle returns nil: its upstreams failed, the query's time is up, or it
\* refuses the type.  What was answered before a redirection stands.
HandleFails(c) ==
    /\ pc[c] \in {"asked", "redirected"}
    /\ resp' = [resp EXCEPT ![c] = IF @ = None THEN None ELSE AlsoAsked(@, group[c])]
    /\ pc' = [pc EXCEPT ![c] = "finish"]
    /\ UNCHANGED <<now, gfwList, cache, ipset, req, item, group>>

IPs(rr) == {rr[i].ip : i \in DOMAIN rr}
Posted(g, rr) == IF g \in IPSets THEN IPs(rr) ELSE {}

HasRoomFor(key) == Cardinality({k \in Keys \ {key} : cache[k] # None}) < CacheSize

\* PostProcess of the group last asked, then cache.Set.  The cache may not admit
\* the answer, and does so only when it has evicted what is in the way.
Finish(c) ==
    /\ pc[c] = "finish"
    /\ IF resp[c] = None
         THEN UNCHANGED <<ipset, cache>>
         ELSE /\ ipset' = [ipset EXCEPT ![group[c]] = @ \cup Posted(group[c], resp[c].rr)]
              /\ \/ UNCHANGED cache
                 \/ /\ Cacheable(resp[c]) /\ HasRoomFor(Key(req[c]))
                    /\ cache' = [cache EXCEPT ![Key(req[c])] = Entry(resp[c], now)]
    /\ pc' = [pc EXCEPT ![c] = "done"]
    /\ group' = [group EXCEPT ![c] = NoGroup]
    /\ UNCHANGED <<now, gfwList, req, item, resp>>

\* The reply is written: resp, or SERVFAIL for nil.
Reply(c) ==
    /\ pc[c] = "done"
    /\ pc' = [pc EXCEPT ![c] = "idle"]
    /\ req' = [req EXCEPT ![c] = None]
    /\ resp' = [resp EXCEPT ![c] = None]
    /\ UNCHANGED <<now, gfwList, cache, ipset, item, group>>

(***************************************************************************)
(* The surroundings.                                                       *)
(***************************************************************************)

\* ristretto evicts an entry for room or for its age.
Evict(key) ==
    /\ cache[key] # None
    /\ cache' = [cache EXCEPT ![key] = None]
    /\ UNCHANGED <<now, gfwList, ipset, query>>

\* refreshGFWList stores a new matcher.
RefreshList(list) ==
    /\ ListGroup # NoGroup /\ list # gfwList
    /\ gfwList' = list
    /\ UNCHANGED <<now, cache, ipset, query>>

Tick ==
    /\ now < MaxTime
    /\ now' = now + 1
    /\ UNCHANGED <<gfwList, cache, ipset, query>>

\* The system clock is set back.
ClockBack ==
    /\ now > 0
    /\ now' = now - 1
    /\ UNCHANGED <<gfwList, cache, ipset, query>>

Next ==
    \/ \E c \in Clients :
         \/ \E r \in Requests : Receive(c, r)
         \/ Miss(c) \/ Find(c) \/ ServeFromCache(c) \/ DropExpired(c) \/ Route(c)
         \/ \E rr \in Answers : HandleAnswers(c, rr)
         \/ HandleFails(c) \/ Finish(c) \/ Reply(c)
    \/ \E key \in Keys : Evict(key)
    \/ \E list \in Lists : RefreshList(list)
    \/ Tick \/ ClockBack

Spec == Init /\ [][Next]_vars

(***************************************************************************)
(* Properties.                                                             *)
(***************************************************************************)
IsAnswer(r) == r \in Responses /\ r.from \in r.asked /\ r.routed \in r.asked

IsEntry(e) ==
    /\ e \in Entries /\ IsAnswer(e.resp)
    /\ e.resp.rr # <<>> /\ TTLs(e.resp.rr) \subseteq MinTTL..MaxTTL

\* The type of every variable; a cached record's TTL keeps to the limits.
TypeOK ==
    /\ now \in 0..MaxTime
    /\ gfwList \in Lists
    /\ cache \in [Keys -> Entries \cup {None}]
    /\ ipset \in [Groups -> SUBSET Addresses]
    /\ pc \in [Clients -> {"idle", "lookup", "found", "route", "asked", "redirected",
                           "finish", "done"}]
    /\ req \in [Clients -> Requests \cup {None}]
    /\ group \in [Clients -> Groups \cup {NoGroup}]
    /\ resp \in [Clients -> Responses \cup {None}]
    /\ item \in [Clients -> Entries \cup {None}]
    /\ \A c \in Clients : resp[c] # None => IsAnswer(resp[c])
    /\ \A c \in Clients : item[c] # None => IsEntry(item[c])
    /\ \A key \in Keys : cache[key] # None => IsEntry(cache[key])

\* The answer a client is given was fetched for a request with its own name, type
\* and subnet: what groups add to a request reaches neither the cache key nor
\* another client.  What a query fetched itself was fetched for its very request; an
\* answer from the cache may have been fetched for another class, which cacheKey
\* drops.
AnswersOwnRequest ==
    \A c \in Clients : resp[c] # None =>
      /\ resp[c].for.q = req[c].q /\ resp[c].for.ecs = req[c].ecs
      /\ pc[c] \in {"redirected", "finish"} => resp[c].for = req[c]

\* The group that answers has been sent the client's subnet or, when there was
\* none, its own: never that of the group that redirected the query to it.  This
\* is whatever its upstreams are: groupImpl.Handle adds the subnet and DoHCallerV2
\* sends it on, although ts-dns-full.yaml:60 and README.md:108 say that ecs is not
\* supported for DoH yet.
OwnSubnetSent ==
    \A c \in Clients : resp[c] # None =>
      resp[c].sent = IF resp[c].for.ecs # NoECS THEN resp[c].for.ecs ELSE OwnECS[resp[c].from]

\* An answer of the group the query was routed to that has an address its
\* redirector acts on is given out, also from the cache, only when the group to
\* ask instead was asked and gave none; however the groups redirect in circles.
RedirectRespected ==
    \A c \in Clients :
      pc[c] = "done" /\ resp[c] # None /\ resp[c].from = resp[c].routed =>
        LET redirector == Redirectors[resp[c].from]
        IN  redirector # NoGroup =>
              \/ redirector.dst \in resp[c].asked
              \/ \A ip \in IPs(resp[c].rr) : (ip \in redirector.cidr) = redirector.notIn

\* A name that a group's own rules claim is never taken by the GFW list nor left
\* to the fallback, however the list is updated in the middle of a query.
RulesBeforeList ==
    \A c \in Clients :
      /\ pc[c] = "asked"
      /\ \E g \in Groups \ {Fallback, ListGroup} : req[c].q \in Rules[g]
      => group[c] \notin {Fallback, ListGroup}

\* A reply from the cache promises no record beyond the end of the life it was
\* stored with, and never more than that life, also when other queries replace
\* or delete the entry meanwhile or the clock is set back.
ServedTTLHonest ==
    [][\A c \in Clients :
         pc[c] = "found" /\ pc'[c] = "done" =>
           \A i \in DOMAIN resp'[c].rr :
             LET ttl == resp'[c].rr[i].ttl
                 life == item[c].resp.rr[i].ttl
             IN  ttl \in 1..life /\ now + ttl <= item[c].cachedAt + life]_vars

\* ts-dns-full.yaml: all addresses the names of a group resolve to are added to
\* the group's ipset.
ResultsInOwnIPSet ==
    \A c \in Clients :
      pc[c] = "done" /\ resp[c] # None /\ resp[c].from \in IPSets =>
        IPs(resp[c].rr) \subseteq ipset[resp[c].from]
==============================================================================
