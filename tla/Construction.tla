---------------------------- MODULE Construction ----------------------------
(***************************************************************************)
(* newHandle (inbound/handler.go) with what it calls: NewDNSHosts, the     *)
(* checks of NewDNSCache, BuildGroups and NewRedirector.  A configuration  *)
(* becomes a handler, or an error that leaves nothing in service, or a     *)
(* panic, which nothing recovers from: the process ends.  Hosts,           *)
(* groups and redirectors are maps, which Go walks in any order; each turn *)
(* of a loop is a step.                                                    *)
(*                                                                         *)
(* A configuration is a record:                                            *)
(*   qtypes       whether every disabled query type exists                 *)
(*   hosts        a set of entries, each a sequence of pairs [key, ip] in  *)
(*                the order in which load adds them                        *)
(*   hostsFiles   a sequence of files, each a sequence of pairs, line by   *)
(*                line                                                     *)
(*   minTTL, maxTTL                                                        *)
(*   groups       a set of [name, fallback, rules, rulesFile, gfwlist,     *)
(*                sound, malformed, redirector]; names are numbers, as     *)
(*                they have an order; sound says that the rest of the      *)
(*                section (update cycle and types, which come before the   *)
(*                rules; list file, subnet, proxy, DoH addresses, ipsets,  *)
(*                which come behind) can be used; malformed, that the list *)
(*                file holds a broken rule; no redirector is ""            *)
(*   redirectors  a set of [name, type, dst, sound]; sound says that the   *)
(*                ranges and their file can be read                        *)
(* What the lines on upstreams and hijack rules become are the constants   *)
(* of CallerSelect and Hijack.                                             *)
(***************************************************************************)
EXTENDS Hosts, Matcher, Integers, FiniteSets

CONSTANTS
    Confs,          \* the configurations
    BadIP,          \* what does not parse as an address, or stands for a
                    \* pattern that does not compile: load fails either way
    NoFile,         \* no rules_file is given
    Unreadable,     \* a file that cannot be read
    DefaultMinTTL, DefaultMaxTTL

Pair == [key : Keys, ip : {BadIP} \cup Address]

ASSUME FilesAssumption == BadIP \notin Address /\ NoFile # Unreadable
ASSUME ConfsAssumption ==
    \A c \in Confs :
      /\ c.hosts \subseteq Seq(Pair)
      /\ c.hostsFiles \in Seq({Unreadable} \cup Seq(Pair))
      /\ c.qtypes \in BOOLEAN /\ c.minTTL \in Int /\ c.maxTTL \in Int
      /\ IsFiniteSet(c.groups)
      /\ \A g \in c.groups :
           /\ g.name \in Nat
           /\ g.fallback \in BOOLEAN /\ g.gfwlist \in BOOLEAN
           /\ g.sound \in BOOLEAN /\ g.malformed \in BOOLEAN
           /\ g.rules \in Seq(RuleLine)
           /\ g.rulesFile \in {NoFile, Unreadable} \cup Seq(RuleLine)
      /\ \A g, h \in c.groups : g.name = h.name => g = h
      /\ \A r, t \in c.redirectors : r.name = t.name => r = t
ASSUME TTLAssumption == DefaultMinTTL \in Nat \ {0} /\ DefaultMaxTTL \in Nat \ {0}

VARIABLES
    conf,
    pc,             \* the part of newHandle under way; at its end "built",
                    \* "failed" or "panicked"
    left,           \* what the loop of this part has still to visit
    reading,        \* the entry, the file or the rules that are read one by one
    at,             \* how many of them are
    table,          \* the hosts
    files,          \* files of hosts opened
    seenFallback, seenGFWList,
    building,       \* the group in hand
    matcher,        \* the rules that are being read
    section,        \* those of the section, while the file is read
    groups,         \* name -> [fallback, gfwlist, matcher] of the groups built
    fallbackGroup,  \* the names of the groups that can become it
    groupList,      \* the names in the order in which a query tries them
    redirectors,    \* name -> [dst, notIn]
    group2redir     \* name of a group -> name of its redirector

loopVars == <<left, reading, at>>
hostVars == <<table, files>>
groupVars == <<seenFallback, seenGFWList, building, matcher, section, groups>>
listVars == <<fallbackGroup, groupList>>
redirVars == <<redirectors, group2redir>>
vars == <<conf, pc, loopVars, hostVars, groupVars, listVars, redirVars>>

Nothing == [x \in {} |-> x]

Init ==
    /\ conf \in Confs
    /\ pc = "types" /\ left = {} /\ reading = <<>> /\ at = 0
    /\ table = EmptyTable /\ files = 0
    /\ seenFallback = FALSE /\ seenGFWList = FALSE
    /\ building = Nothing /\ matcher = EmptyMatcher /\ section = EmptyMatcher
    /\ groups = Nothing /\ fallbackGroup = {} /\ groupList = <<>>
    /\ redirectors = Nothing /\ group2redir = Nothing

\* An error is returned, or the process ends.
GiveUp(as) ==
    /\ pc' = as /\ left' = {}
    /\ UNCHANGED <<conf, reading, at, hostVars, groupVars, listVars, redirVars>>
Abort == GiveUp("failed")
Panic == GiveUp("panicked")

\* From one part to the next, which walks through a set.
Proceed(part, set) ==
    /\ pc' = part /\ left' = set
    /\ UNCHANGED <<conf, reading, at, hostVars, groupVars, listVars, redirVars>>

\* A loop through a sequence starts.
Read(sequence) == reading' = sequence /\ at' = 0

CheckTypes ==
    /\ pc = "types"
    /\ IF conf.qtypes THEN Proceed("hosts", conf.hosts) ELSE Abort

(***************************************************************************)
(* NewDNSHosts.                                                            *)
(***************************************************************************)

Parses(pair) == pair.ip # BadIP

\* An entry of the map is taken up.
LoadHosts(entry) ==
    /\ pc = "hosts" /\ at = Len(reading) /\ entry \in left
    /\ Read(entry)
    /\ left' = left \ {entry}
    /\ UNCHANGED <<conf, pc, hostVars, groupVars, listVars, redirVars>>

\* A file is opened when the map is done.
OpenFile ==
    /\ pc = "hosts" /\ at = Len(reading) /\ left = {} /\ files < Len(conf.hostsFiles)
    /\ \/ /\ conf.hostsFiles[files + 1] # Unreadable
          /\ Read(conf.hostsFiles[files + 1])
          /\ files' = files + 1
          /\ UNCHANGED <<conf, pc, left, table, groupVars, listVars, redirVars>>
       \/ conf.hostsFiles[files + 1] = Unreadable /\ Abort

\* One address for one name.
AddHost ==
    /\ pc = "hosts" /\ at < Len(reading)
    /\ LET pair == reading[at + 1]
       IN  \/ /\ Parses(pair)
              /\ table' = AddIP(table, pair.key, pair.ip)
              /\ at' = at + 1
              /\ UNCHANGED <<conf, pc, left, reading, files, groupVars, listVars, redirVars>>
           \/ ~Parses(pair) /\ Abort

HostsRead ==
    /\ pc = "hosts" /\ at = Len(reading) /\ left = {} /\ files = Len(conf.hostsFiles)
    /\ Proceed("cache", {})

(***************************************************************************)
(* NewDNSCache.                                                            *)
(***************************************************************************)
Given(ttl, default) == IF ttl > 0 THEN ttl ELSE default

MakeCache ==
    /\ pc = "cache"
    /\ IF Given(conf.minTTL, DefaultMinTTL) > Given(conf.maxTTL, DefaultMaxTTL)
       THEN Abort ELSE Proceed("groups", conf.groups)

(***************************************************************************)
(* BuildGroups.                                                            *)
(***************************************************************************)
IsSetGFWList(g) == g.gfwlist
IsEmptyRule(g) == g.rules = <<>> /\ g.rulesFile = NoFile /\ ~IsSetGFWList(g)

\* A group without rules becomes a fallback group.
AsWritten(g) == g.fallback
Fallback(g) == g.fallback \/ IsEmptyRule(g)

\* The second of its kind is refused.
Refused(g) ==
    \/ Fallback(g) /\ seenFallback
    \/ IsSetGFWList(g) /\ seenGFWList

\* A group is taken up, and the rules of its section, unless a part before them is
\* not sound.
BuildGroup(g) ==
    /\ pc = "groups" /\ g \in left
    /\ \/ /\ ~Refused(g)
          /\ seenFallback' = (seenFallback \/ Fallback(g))
          /\ seenGFWList' = (seenGFWList \/ IsSetGFWList(g))
          /\ pc' = "section" /\ left' = left \ {g} /\ building' = g
          /\ Read(g.rules) /\ matcher' = EmptyMatcher
          /\ UNCHANGED <<conf, hostVars, section, groups, listVars, redirVars>>
       \/ (Refused(g) \/ ~g.sound) /\ Abort

\* NewABPByText takes one line after the other.
AddRule ==
    /\ pc \in {"section", "file"} /\ at < Len(reading)
    /\ \/ /\ reading[at + 1].kind # "broken"
          /\ matcher' = WithLine(matcher, reading[at + 1])
          /\ at' = at + 1
          /\ UNCHANGED <<conf, pc, left, reading, hostVars, seenFallback, seenGFWList,
                         building, section, groups, listVars, redirVars>>
       \/ reading[at + 1].kind = "broken" /\ Panic

\* The rules of the file are read on their own.
OpenRulesFile ==
    /\ pc = "section" /\ at = Len(reading) /\ building.rulesFile # NoFile
    /\ \/ /\ building.rulesFile # Unreadable
          /\ pc' = "file" /\ Read(building.rulesFile)
          /\ section' = matcher /\ matcher' = EmptyMatcher
          /\ UNCHANGED <<conf, left, hostVars, seenFallback, seenGFWList, building, groups,
                         listVars, redirVars>>
       \/ building.rulesFile = Unreadable /\ Abort

\* With what was read of the file those of the section are extended.  Then come
\* the other parts of the section.
RulesRead ==
    /\ at = Len(reading)
    /\ \/ pc = "section" /\ building.rulesFile = NoFile /\ UNCHANGED matcher
       \/ pc = "file" /\ matcher' = Extend(section, matcher)
    /\ pc' = "parts"
    /\ UNCHANGED <<conf, loopVars, hostVars, seenFallback, seenGFWList, building, section,
                   groups, listVars, redirVars>>

\* With the list file, the upstreams and the ipsets the group is complete.
AddGroup ==
    /\ pc = "parts"
    /\ \/ /\ building.sound /\ ~building.malformed
          /\ groups' = [n \in DOMAIN groups \cup {building.name} |->
                          IF n = building.name
                          THEN [fallback |-> Fallback(building),
                                gfwlist |-> IsSetGFWList(building), matcher |-> matcher]
                          ELSE groups[n]]
          /\ pc' = "groups"
          /\ UNCHANGED <<conf, loopVars, hostVars, seenFallback, seenGFWList, building,
                         matcher, section, listVars, redirVars>>
       \/ ~building.sound /\ Abort
       \/ building.malformed /\ Panic

\* The fallback group last, the one with the list before it, the others by name.
TriedBefore(n, k) ==
    IF groups[n].fallback # groups[k].fallback THEN groups[k].fallback
    ELSE IF groups[n].gfwlist # groups[k].gfwlist THEN groups[k].gfwlist
    ELSE n < k

Sorted(names) ==
    {s \in [1..Cardinality(names) -> names] :
       ToSet(s) = names /\ \A i, j \in DOMAIN s : i < j => TriedBefore(s[i], s[j])}

\* newHandle looks for the fallback group among the groups built.
FindFallback ==
    /\ pc = "groups" /\ left = {}
    /\ groupList' \in Sorted(DOMAIN groups)
    /\ fallbackGroup' = {n \in DOMAIN groups : groups[n].fallback}
    /\ \/ /\ fallbackGroup' # {}
          /\ pc' = "redirectors" /\ left' = conf.redirectors
       \/ /\ fallbackGroup' = {}
          /\ pc' = "failed" /\ left' = {}
    /\ UNCHANGED <<conf, reading, at, hostVars, groupVars, redirVars>>

(***************************************************************************)
(* NewRedirector.                                                          *)
(***************************************************************************)

\* The type is looked up in lower case, but compared as it is written.
KnownType(r) == r.type \in {"match_cidr", "mismatch_cidr", "MISMATCH_CIDR"}
NotIn(r) == r.type = "mismatch_cidr"

DstUnchecked(r) == KnownType(r) /\ r.sound
Usable(r) == KnownType(r) /\ r.dst \in DOMAIN groups /\ r.sound

BuildRedirector(r) ==
    /\ pc = "redirectors" /\ r \in left
    /\ \/ /\ Usable(r)
          /\ redirectors' = [n \in DOMAIN redirectors \cup {r.name} |->
                IF n = r.name THEN [dst |-> r.dst, notIn |-> NotIn(r)] ELSE redirectors[n]]
          /\ left' = left \ {r}
          /\ UNCHANGED <<conf, pc, reading, at, hostVars, groupVars, listVars, group2redir>>
       \/ ~Usable(r) /\ Abort

RedirectorsBuilt ==
    /\ pc = "redirectors" /\ left = {}
    /\ Proceed("assign", {g \in conf.groups : g.redirector # ""})

Assign(g) ==
    /\ pc = "assign" /\ g \in left
    /\ \/ /\ g.redirector \in DOMAIN redirectors
          /\ group2redir' = [n \in DOMAIN group2redir \cup {g.name} |->
                IF n = g.name THEN g.redirector ELSE group2redir[n]]
          /\ left' = left \ {g}
          /\ UNCHANGED <<conf, pc, reading, at, hostVars, groupVars, listVars, redirectors>>
       \/ g.redirector \notin DOMAIN redirectors /\ Abort

Built ==
    /\ pc = "assign" /\ left = {}
    /\ Proceed("built", {})

Next ==
    \/ CheckTypes
    \/ (\E entry \in left : LoadHosts(entry)) \/ OpenFile \/ AddHost \/ HostsRead
    \/ MakeCache
    \/ (\E g \in left : BuildGroup(g)) \/ AddRule \/ OpenRulesFile \/ RulesRead
    \/ AddGroup \/ FindFallback
    \/ (\E r \in left : BuildRedirector(r)) \/ RedirectorsBuilt
    \/ (\E g \in left : Assign(g)) \/ Built

Spec == Init /\ [][Next]_vars

(***************************************************************************)
(* Properties.                                                             *)
(***************************************************************************)

\* The type of every variable; and nothing built refers to what is not there.
TypeOK ==
    /\ pc \in {"types", "hosts", "cache", "groups", "section", "file", "parts",
               "redirectors", "assign", "built", "failed", "panicked"}
    /\ pc = "hosts" => left \subseteq conf.hosts
    /\ pc \in {"groups", "section", "file", "parts", "assign"} => left \subseteq conf.groups
    /\ pc = "redirectors" => left \subseteq conf.redirectors
    /\ pc \in {"types", "cache", "built", "failed", "panicked"} => left = {}
    /\ reading \in Seq(Pair) \cup Seq(RuleLine) /\ at \in 0..Len(reading)
    /\ table \in [Keys -> Seq(Address)]
    /\ files \in 0..Len(conf.hostsFiles)
    /\ seenFallback \in BOOLEAN /\ seenGFWList \in BOOLEAN
    /\ pc \in {"section", "file", "parts"} => building \in conf.groups
    /\ IsMatcher(matcher) /\ IsMatcher(section)
    /\ DOMAIN groups \subseteq {g.name : g \in conf.groups}
    /\ \A n \in DOMAIN groups : IsMatcher(groups[n].matcher)
    /\ fallbackGroup \cup ToSet(groupList) \subseteq DOMAIN groups
    /\ \A r \in DOMAIN redirectors : redirectors[r].dst \in DOMAIN groups
    /\ \A g \in DOMAIN group2redir :
         g \in DOMAIN groups /\ group2redir[g] \in DOMAIN redirectors

\* Every pair of a name or a pattern with an address, in whatever entry or file.
AllPairs ==
    UNION {ToSet(list) : list \in conf.hosts \cup (ToSet(conf.hostsFiles) \ {Unreadable})}

NamesOf(S) == {g.name : g \in S}

\* groups.go:51: a group without rules is a fallback group.
Fallbacks ==
    {g \in conf.groups : g.fallback \/ (g.rules = <<>> /\ g.rulesFile = NoFile /\ ~g.gfwlist)}

\* A rule of the group, in its section, its file or its list file, is broken.
Breaks(g) ==
    \/ HasBroken(g.rules) \/ g.malformed
    \/ g.rulesFile \notin {NoFile, Unreadable} /\ HasBroken(g.rulesFile)

\* What a configuration must fulfil, said without an order.
Valid ==
    /\ conf.qtypes
    /\ \A k \in 1..Len(conf.hostsFiles) : conf.hostsFiles[k] # Unreadable
    /\ \A pair \in AllPairs : pair.ip # BadIP
    /\ Given(conf.minTTL, DefaultMinTTL) <= Given(conf.maxTTL, DefaultMaxTTL)
    /\ \E g \in conf.groups : Fallbacks = {g}
    /\ \A g, h \in conf.groups : g.gfwlist /\ h.gfwlist => g = h
    /\ \A g \in conf.groups :
         /\ g.sound /\ g.rulesFile # Unreadable /\ ~Breaks(g)
         /\ g.redirector \in NamesOf(conf.redirectors) \cup {""}
    /\ \A r \in conf.redirectors : KnownType(r) /\ r.sound /\ r.dst \in NamesOf(conf.groups)

\* Whether a configuration is accepted does not depend on the order in which its
\* maps are walked, nor on what else is wrong; an accepted one has every group, and
\* the fallback group it asks for, which is the last one tried.  A broken rule is
\* never accepted, and nothing else ends the process; whether it does, or another
\* fault is reported first, depends on the order.
VerdictAsConfigured ==
    /\ pc = "failed" => ~Valid
    /\ pc = "panicked" => \E g \in conf.groups : Breaks(g)
    /\ pc = "built" =>
         /\ Valid
         /\ ToSet(groupList) = NamesOf(conf.groups)
         /\ fallbackGroup = NamesOf(Fallbacks) /\ fallbackGroup = {Last(groupList)}

\* The addresses that the configuration gives to a name or a pattern.
GivenTo(key) == {pair.ip : pair \in {p \in AllPairs : p.key = key}}

\* Where the answer for a name has to come from: its own entry, or else the first
\* pattern, by length and then by the alphabet, that matches it.
SourceOf(name) ==
    LET patterns == {p \in Patterns : GivenTo(p) # {} /\ name \in Covers[p]}
    IN  IF GivenTo(name) # {} THEN {name}
        ELSE {p \in patterns :
                \A r \in patterns : \/ Length[r] < Length[p]
                                    \/ Length[r] = Length[p] /\ Place[p] <= Place[r]}

\* A question gets every address given to the source of its name that a record of
\* its type can be written for, each spelling once, and no other, in whatever order
\* entries and files were read.  An address such as ::ffff:1.2.3.4 is accepted in
\* the configuration and given to no question; two spellings of one address are
\* both given.  The name with its final dot is looked up first, so that a pattern
\* that matches the dot goes before an entry of the name itself.
HostsAnswer ==
    pc = "built" =>
      \A name \in {n \in Names : Bare[n] # n}, qtype \in {"A", "AAAA"} :
        LET ips == Get(table, name, qtype)
            source == IF SourceOf(name) # {} THEN SourceOf(name) ELSE SourceOf(Bare[name])
        IN  /\ \A j, k \in DOMAIN ips : ips[j] = ips[k] => j = k
            /\ {ips[k] : k \in DOMAIN ips} =
                 {ip \in UNION {GivenTo(key) : key \in source} :
                    TypeOf[ip] = qtype /\ ip \in Writable}

\* Of the rules for a domain and for domains above it the most specific decides,
\* of several for the same domain the last, the file being behind the section;
\* only without any a wildcard does, one that blocks before one that does not.
RulesOf(g) == IF g.rulesFile = NoFile THEN g.rules ELSE g.rules \o g.rulesFile

Decision(lines, domain) ==
    LET above == {k \in 1..Len(lines) :
                    lines[k].kind = "domain" /\ lines[k].domain \in Suffixes(domain)}
        deciding == {k \in above : \A other \in above :
                       \/ Len(lines[other].domain) < Len(lines[k].domain)
                       \/ Len(lines[other].domain) = Len(lines[k].domain) /\ other <= k}
        wild == {k \in 1..Len(lines) : lines[k].kind = "wild" /\ domain \in lines[k].covers}
        senses == {lines[k].block : k \in IF above # {} THEN deciding ELSE wild}
    IN  IF senses = {} THEN "none" ELSE IF TRUE \in senses THEN "blocked" ELSE "unblocked"

MostSpecificRuleWins ==
    pc = "built" =>
      \A g \in conf.groups, domain \in Domains :
        Match(groups[g.name].matcher, domain) = Decision(RulesOf(g), domain)
==============================================================================
