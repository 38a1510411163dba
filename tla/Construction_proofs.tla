------------------------ MODULE Construction_proofs ------------------------
(***************************************************************************)
(* Theorems about newHandle: what TypeOK, VerdictAsConfigured, HostsAnswer *)
(* and MostSpecificRuleWins rest on, for every set of configurations.      *)
(***************************************************************************)
EXTENDS Construction, FiniteSetTheorems, WellFoundedInduction, TLAPS

(***************************************************************************)
(* What has been walked through at each part of newHandle.                 *)
(***************************************************************************)
InGroup == pc \in {"section", "file", "parts"}
AtGroups == pc = "groups" \/ InGroup
GroupsDone == pc \in {"redirectors", "assign", "built"}
HostsDone == pc = "cache" \/ AtGroups \/ GroupsDone

\* The groups taken up, and those of them that are built.
Visited == IF AtGroups THEN conf.groups \ left ELSE IF GroupsDone THEN conf.groups ELSE {}
Done == IF InGroup THEN Visited \ {building} ELSE Visited

RedirectorsDone ==
    IF pc = "redirectors" THEN conf.redirectors \ left
    ELSE IF pc \in {"assign", "built"} THEN conf.redirectors ELSE {}

\* newHandle ends early, by an error or by a panic.
GivesUp == Abort \/ Panic

\* Where newHandle is: what it reads and what it has made so far.
Progress ==
    /\ conf \in Confs
    /\ pc \in {"types", "hosts"} => reading \in Seq(Pair)
    /\ InGroup => building \notin left
    /\ pc = "section" => reading = building.rules
    /\ pc = "file" =>
         /\ reading = building.rulesFile /\ reading \in Seq(RuleLine)
         /\ reading \notin {NoFile, Unreadable}
    /\ pc \notin {"failed", "panicked"} =>
         DOMAIN groups = NamesOf(Done) /\ DOMAIN redirectors = NamesOf(RedirectorsDone)

(***************************************************************************)
(* The hosts: every pair is in the table or still to come.                 *)
(***************************************************************************)
Coming(pair) ==
    \/ \E entry \in left : pair \in ToSet(entry)
    \/ \E k \in (at + 1)..Len(reading) : pair = reading[k]
    \/ \E k \in (files + 1)..Len(conf.hostsFiles) :
         conf.hostsFiles[k] # Unreadable /\ pair \in ToSet(conf.hostsFiles[k])

InTable(pair) == pair.ip \in ToSet(table[pair.key])

\* Nothing is twice in a sequence.
Once(s) == \A j, k \in 1..Len(s) : s[j] = s[k] => j = k

HostsLoaded ==
    /\ pc = "hosts" \/ HostsDone => conf.qtypes
    /\ pc = "types" => reading = <<>> /\ at = 0 /\ files = 0
    /\ pc = "hosts" =>
         /\ \A k \in 1..files : conf.hostsFiles[k] # Unreadable
         /\ \A k \in 1..Len(reading) : reading[k] \in AllPairs
         /\ \A pair \in AllPairs : InTable(pair) \/ Coming(pair)
    /\ HostsDone =>
         /\ \A k \in 1..Len(conf.hostsFiles) : conf.hostsFiles[k] # Unreadable
         /\ \A pair \in AllPairs : InTable(pair)
    /\ \A key \in Keys :
         /\ ToSet(table[key]) \subseteq GivenTo(key)
         /\ Once(table[key])

(***************************************************************************)
(* The groups: flags and checks of those visited.                          *)
(***************************************************************************)
GroupsChecked ==
    /\ AtGroups \/ GroupsDone =>
         Given(conf.minTTL, DefaultMinTTL) <= Given(conf.maxTTL, DefaultMaxTTL)
    /\ pc \in {"types", "hosts", "cache"} => ~seenFallback /\ ~seenGFWList
    /\ AtGroups \/ GroupsDone =>
         /\ seenFallback <=> \E g \in Visited : Fallback(g)
         /\ seenGFWList <=> \E g \in Visited : g.gfwlist
         /\ \A g, h \in Visited : Fallback(g) /\ Fallback(h) => g = h
         /\ \A g, h \in Visited : g.gfwlist /\ h.gfwlist => g = h
         /\ \A g \in Done :
              /\ g.sound /\ g.rulesFile # Unreadable
              /\ groups[g.name].fallback = Fallback(g) /\ groups[g.name].gfwlist = g.gfwlist
    /\ pc = "parts" => building.rulesFile # Unreadable

(***************************************************************************)
(* The rest: the list, the redirectors and their groups.                   *)
(***************************************************************************)
RestChecked ==
    /\ GroupsDone =>
         /\ \E g \in conf.groups : Fallbacks = {g}
         /\ ToSet(groupList) = NamesOf(conf.groups)
         /\ fallbackGroup = NamesOf(Fallbacks) /\ fallbackGroup = {Last(groupList)}
    /\ \A r \in RedirectorsDone : KnownType(r) /\ r.sound /\ r.dst \in NamesOf(conf.groups)
    /\ pc \in {"assign", "built"} =>
         \A g \in conf.groups \ left : g.redirector \in NamesOf(conf.redirectors) \cup {""}
    /\ pc = "assign" => \A g \in left : g.redirector # ""

(***************************************************************************)
(* The rules: what a matcher holds of the first n lines.                   *)
(***************************************************************************)
RulesFor(lines, n, node) == {k \in 1..n : lines[k].kind = "domain" /\ lines[k].domain = node}
WildFor(lines, n, block, domain) ==
    {k \in 1..n : lines[k].kind = "wild" /\ lines[k].block = block /\ domain \in lines[k].covers}

Holds(m, lines, n) ==
    \A domain \in Domains :
      /\ \A node \in Suffixes(domain) \ {<<>>} :
           /\ NodeOf(m.trie, node).isEnd <=> RulesFor(lines, n, node) # {}
           /\ \A k \in RulesFor(lines, n, node) :
                (\A j \in RulesFor(lines, n, node) : j <= k) =>
                   NodeOf(m.trie, node).isBlock = lines[k].block
      /\ Covered(m.blocked, domain) <=> WildFor(lines, n, TRUE, domain) # {}
      /\ Covered(m.unblocked, domain) <=> WildFor(lines, n, FALSE, domain) # {}

\* What was read of the rules so far is not broken.
NoneBroken(lines, n) == \A k \in 1..n : lines[k].kind # "broken"

RulesCompiled ==
    /\ pc \in {"section", "file"} => NoneBroken(reading, at)
    /\ pc = "file" => ~HasBroken(building.rules)
    /\ pc = "parts" =>
         /\ ~HasBroken(building.rules)
         /\ building.rulesFile \notin {NoFile, Unreadable} => ~HasBroken(building.rulesFile)
    /\ pc \notin {"failed", "panicked"} => \A g \in Done : ~Breaks(g)

RulesHeld ==
    /\ pc \in {"section", "file"} => Holds(matcher, reading, at)
    /\ pc = "file" => Holds(section, building.rules, Len(building.rules))
    /\ pc = "parts" => Holds(matcher, RulesOf(building), Len(RulesOf(building)))
    /\ pc \notin {"failed", "panicked"} =>
         \A g \in Done : Holds(groups[g.name].matcher, RulesOf(g), Len(RulesOf(g)))

(***************************************************************************)
(* Sequences.                                                              *)
(***************************************************************************)
\* Append adds its element to what a sequence holds.
LEMMA AppendedSet ==
  ASSUME NEW S, NEW s \in Seq(S), NEW x \in S
  PROVE  ToSet(Append(s, x)) = ToSet(s) \cup {x}
<1> DEFINE t == Append(s, x)
<1>1. /\ DOMAIN t = 1..(Len(s) + 1) /\ DOMAIN s = 1..Len(s) /\ Len(s) \in Nat
      /\ t[Len(s) + 1] = x /\ \A i \in 1..Len(s) : t[i] = s[i]
  OBVIOUS
<1> HIDE DEF t
<1>2. ToSet(t) = ToSet(s) \cup {x}
  BY <1>1 DEF ToSet
<1> QED
  BY <1>2 DEF t

\* The end of a sequence from the l-th element on.
LEMMA SuffixLength ==
  ASSUME NEW S, NEW d \in Seq(S), NEW l \in 1..Len(d)
  PROVE  /\ SubSeq(d, l, Len(d)) \in Seq(S)
         /\ Len(SubSeq(d, l, Len(d))) = Len(d) - l + 1
<1>1. Len(d) \in Nat /\ \A i \in 1..Len(d) : d[i] \in S
  OBVIOUS
<1> QED
  BY <1>1

\* A suffix is known by its length.
LEMMA SuffixByLength ==
  ASSUME NEW S, NEW d \in Seq(S)
  PROVE  /\ Suffixes(d) \subseteq Seq(S)
         /\ \A a, b \in Suffixes(d) : Len(a) = Len(b) => a = b
         /\ \A a \in Suffixes(d) : Len(a) \in 0..Len(d)
<1>1. Len(d) \in Nat /\ <<>> \in Seq(S) /\ Len(<<>>) = 0
  OBVIOUS
<1>2. ASSUME NEW a \in Suffixes(d)
      PROVE  a = <<>> \/ \E l \in 1..Len(d) : a = SubSeq(d, l, Len(d))
  BY DEF Suffixes
<1>3. ASSUME NEW a \in Suffixes(d)
      PROVE  a \in Seq(S) /\ Len(a) \in 0..Len(d)
  <2>1. CASE a = <<>>
    BY <1>1, <2>1
  <2>2. ASSUME NEW l \in 1..Len(d), a = SubSeq(d, l, Len(d))
        PROVE  a \in Seq(S) /\ Len(a) \in 0..Len(d)
    <3>1. a \in Seq(S) /\ Len(a) = Len(d) - l + 1
      BY <2>2, SuffixLength
    <3> QED
      BY <1>1, <3>1
  <2> QED
    BY <1>2, <2>1, <2>2
<1>4. ASSUME NEW a \in Suffixes(d), NEW b \in Suffixes(d), Len(a) = Len(b)
      PROVE  a = b
  <2>1. CASE a = <<>>
    BY <1>1, <1>2, <1>4, <2>1, SuffixLength
  <2>2. CASE b = <<>>
    BY <1>1, <1>2, <1>4, <2>2, SuffixLength
  <2>3. CASE a # <<>> /\ b # <<>>
    <3>1. PICK k \in 1..Len(d) : a = SubSeq(d, k, Len(d))
      BY <1>2, <2>3
    <3>2. PICK l \in 1..Len(d) : b = SubSeq(d, l, Len(d))
      BY <1>2, <2>3
    <3>3. Len(a) = Len(d) - k + 1 /\ Len(b) = Len(d) - l + 1
      BY <3>1, <3>2, SuffixLength
    <3> QED
      BY <1>1, <1>4, <3>1, <3>2, <3>3
  <2> QED
    BY <2>1, <2>2, <2>3
<1> QED
  BY <1>3, <1>4

(***************************************************************************)
(* Matchers: what a line and a file make of one is one again.              *)
(***************************************************************************)
\* What NewABPByText starts from is a matcher.
LEMMA EmptyMatcherType == IsMatcher(EmptyMatcher)
<1>1. /\ DOMAIN EmptyTrie = {<<>>} /\ <<>> \in Seq(Labels)
      /\ EmptyTrie \in [{<<>>} -> [isEnd : BOOLEAN, isBlock : BOOLEAN]]
  BY DEF EmptyTrie, NewNode
<1>2. <<>> \in Seq(SUBSET Domains)
  OBVIOUS
<1> QED
  BY <1>1, <1>2 DEF IsMatcher, EmptyMatcher

\* A line of rules is of one of four kinds.
LEMMA LineType ==
  ASSUME NEW line \in RuleLine
  PROVE  /\ line.kind \in {"domain", "wild", "skip", "broken"}
         /\ line.kind = "domain" =>
              line.domain \in Seq(Labels) \ {<<>>} /\ line.block \in BOOLEAN
         /\ line.kind = "wild" => line.covers \in SUBSET Domains /\ line.block \in BOOLEAN
  BY DEF RuleLine

\* A node that is not in the trie looks like a new one.
LEMMA NodeType ==
  ASSUME NEW m, IsMatcher(m), NEW node
  PROVE  NodeOf(m.trie, node) \in [isEnd : BOOLEAN, isBlock : BOOLEAN]
  BY DEF IsMatcher, NodeOf, NewNode

\* A matcher with one line more is a matcher (adblock.go:120-166).
LEMMA WithLineType ==
  ASSUME NEW m, IsMatcher(m), NEW line \in RuleLine
  PROVE  IsMatcher(WithLine(m, line))
<1> USE DEF IsMatcher
<1>1. CASE line.kind = "domain"
  <2> DEFINE t == Add(m.trie, line.domain, line.block)
  <2>1. line.domain \in Seq(Labels) /\ line.block \in BOOLEAN
    BY <1>1, LineType
  <2>2. DOMAIN m.trie \cup Suffixes(line.domain) \subseteq Seq(Labels)
    BY <2>1, SuffixByLength
  <2>3. \A node : NodeOf(m.trie, node) \in [isEnd : BOOLEAN, isBlock : BOOLEAN]
    BY NodeType
  <2>4. t \in [DOMAIN t -> [isEnd : BOOLEAN, isBlock : BOOLEAN]] /\ DOMAIN t \subseteq Seq(Labels)
    BY <2>1, <2>2, <2>3 DEF Add
  <2>5. WithLine(m, line) = [m EXCEPT !.trie = t]
    BY <1>1 DEF WithLine
  <2> HIDE DEF t
  <2> QED
    BY <2>4, <2>5
<1>2. CASE line.kind = "wild" /\ line.block
  <2>1. Append(m.blocked, line.covers) \in Seq(SUBSET Domains)
    BY <1>2, LineType
  <2>2. WithLine(m, line) = [m EXCEPT !.blocked = Append(m.blocked, line.covers)]
    BY <1>2 DEF WithLine
  <2> QED
    BY <2>1, <2>2
<1>3. CASE line.kind = "wild" /\ ~line.block
  <2>1. Append(m.unblocked, line.covers) \in Seq(SUBSET Domains)
    BY <1>3, LineType
  <2>2. WithLine(m, line) = [m EXCEPT !.unblocked = Append(m.unblocked, line.covers)]
    BY <1>3 DEF WithLine
  <2> QED
    BY <2>1, <2>2
<1>4. CASE line.kind \notin {"domain", "wild"}
  BY <1>4 DEF WithLine
<1> QED
  BY <1>1, <1>2, <1>3, <1>4

\* A matcher extended with another is a matcher (adblock.go:87-97).
LEMMA ExtendType ==
  ASSUME NEW m, IsMatcher(m), NEW target, IsMatcher(target)
  PROVE  IsMatcher(Extend(m, target))
<1> DEFINE t == Merged(m.trie, target.trie)
<1>1. \A node : /\ NodeOf(m.trie, node) \in [isEnd : BOOLEAN, isBlock : BOOLEAN]
                /\ NodeOf(target.trie, node) \in [isEnd : BOOLEAN, isBlock : BOOLEAN]
  BY NodeType
<1>2. \A node : NodeOf(target.trie, node).isEnd => target.trie[node] = NodeOf(target.trie, node)
  BY DEF NodeOf, NewNode
<1>3. /\ t \in [DOMAIN t -> [isEnd : BOOLEAN, isBlock : BOOLEAN]]
      /\ DOMAIN t \subseteq Seq(Labels)
  BY <1>1, <1>2 DEF Merged, IsMatcher
<1>4. /\ m.blocked \o target.blocked \in Seq(SUBSET Domains)
      /\ m.unblocked \o target.unblocked \in Seq(SUBSET Domains)
  BY DEF IsMatcher
<1>5. Extend(m, target) = [trie |-> t, blocked |-> m.blocked \o target.blocked,
                           unblocked |-> m.unblocked \o target.unblocked]
  BY DEF Extend
<1> HIDE DEF t
<1> QED
  BY <1>3, <1>4, <1>5 DEF IsMatcher

(***************************************************************************)
(* Matchers: what they hold of the lines read.                             *)
(***************************************************************************)
\* Suffixes(d) has d itself.
LEMMA OwnSuffix ==
  ASSUME NEW d \in Seq(Labels), d # <<>>
  PROVE  d \in Suffixes(d)
<1>1. 1 \in 1..Len(d) /\ SubSeq(d, 1, Len(d)) = d
  OBVIOUS
<1> QED
  BY <1>1 DEF Suffixes

\* Add makes the node of the domain an end (trie.go:32-51).
LEMMA AddedEnd ==
  ASSUME NEW t, NEW d \in Seq(Labels), d # <<>>, NEW block
  PROVE  NodeOf(Add(t, d, block), d) = [isEnd |-> TRUE, isBlock |-> block]
  BY OwnSuffix DEF NodeOf, Add

\* Add leaves what other nodes say as it was.
LEMMA OtherNode ==
  ASSUME NEW t, NEW d \in Seq(Labels), d # <<>>, NEW block, NEW node, node # d
  PROVE  NodeOf(Add(t, d, block), node) = NodeOf(t, node)
  BY DEF NodeOf, Add

\* After Walk an end of the target decides, where it has one (trie.go:91-108).
LEMMA MergedNode ==
  ASSUME NEW t, NEW u, NEW node
  PROVE  NodeOf(Merged(t, u), node) =
           IF NodeOf(u, node).isEnd THEN NodeOf(u, node) ELSE NodeOf(t, node)
  BY DEF NodeOf, Merged, NewNode

\* One wildcard more covers what it covers.
LEMMA AppendedCover ==
  ASSUME NEW S, NEW w \in Seq(S), NEW covers \in S, NEW domain
  PROVE  Covered(Append(w, covers), domain) <=> Covered(w, domain) \/ domain \in covers
<1> DEFINE v == Append(w, covers)
<1>1. /\ Len(w) \in Nat /\ Len(v) = Len(w) + 1
      /\ v[Len(w) + 1] = covers /\ \A k \in 1..Len(w) : v[k] = w[k]
  OBVIOUS
<1> HIDE DEF v
<1>2. Covered(v, domain) <=> Covered(w, domain) \/ domain \in covers
  BY <1>1 DEF Covered
<1> QED
  BY <1>2 DEF v

\* Two lists of wildcards one behind the other cover what either covers.
LEMMA JoinedCover ==
  ASSUME NEW S, NEW w \in Seq(S), NEW v \in Seq(S), NEW domain
  PROVE  Covered(w \o v, domain) <=> Covered(w, domain) \/ Covered(v, domain)
<1> DEFINE u == w \o v
<1>1. /\ Len(w) \in Nat /\ Len(v) \in Nat /\ Len(u) = Len(w) + Len(v)
      /\ \A k \in 1..Len(w) : u[k] = w[k]
      /\ \A k \in 1..Len(v) : u[Len(w) + k] = v[k]
  OBVIOUS
<1> HIDE DEF u
<1>2. Covered(w, domain) => Covered(u, domain)
  BY <1>1 DEF Covered
<1>3. Covered(v, domain) => Covered(u, domain)
  <2>1. ASSUME NEW k \in 1..Len(v), domain \in v[k] PROVE Covered(u, domain)
    <3>1. Len(w) + k \in 1..Len(u) /\ domain \in u[Len(w) + k]
      BY <1>1, <2>1
    <3> QED
      BY <3>1 DEF Covered
  <2> QED
    BY <2>1 DEF Covered
<1>4. ASSUME NEW k \in 1..Len(u), domain \in u[k] PROVE Covered(w, domain) \/ Covered(v, domain)
  <2>1. CASE k \in 1..Len(w)
    BY <1>1, <1>4, <2>1 DEF Covered
  <2>2. CASE k \notin 1..Len(w)
    <3>1. k - Len(w) \in 1..Len(v) /\ Len(w) + (k - Len(w)) = k
      BY <1>1, <2>2
    <3>2. domain \in v[k - Len(w)]
      BY <1>1, <1>4, <3>1
    <3> QED
      BY <3>1, <3>2 DEF Covered
  <2> QED
    BY <2>1, <2>2
<1>5. Covered(u, domain) <=> Covered(w, domain) \/ Covered(v, domain)
  BY <1>2, <1>3, <1>4 DEF Covered
<1> QED
  BY <1>5 DEF u

\* No line is read: a matcher without rules holds them.
LEMMA EmptyHolds ==
  ASSUME NEW lines
  PROVE  Holds(EmptyMatcher, lines, 0)
<1>1. \A node : NodeOf(EmptyMatcher.trie, node) = NewNode
  BY DEF EmptyMatcher, EmptyTrie, NodeOf
<1>2. \A domain : ~Covered(EmptyMatcher.blocked, domain) /\ ~Covered(EmptyMatcher.unblocked, domain)
  <2>1. EmptyMatcher.blocked = <<>> /\ EmptyMatcher.unblocked = <<>> /\ 1..Len(<<>>) = {}
    BY DEF EmptyMatcher
  <2> QED
    BY <2>1 DEF Covered
<1>3. 1..0 = {}
  OBVIOUS
<1>4. \A node : RulesFor(lines, 0, node) = {}
  BY <1>3 DEF RulesFor
<1>5. \A node : ~NodeOf(EmptyMatcher.trie, node).isEnd
  BY <1>1 DEF NewNode
<1>6. \A domain : /\ WildFor(lines, 0, TRUE, domain) = {}
                  /\ WildFor(lines, 0, FALSE, domain) = {}
  BY <1>3 DEF WildFor
<1> QED
  BY <1>2, <1>4, <1>5, <1>6 DEF Holds

\* One line more: it is the last one for its domain.
LEMMA LineHeld ==
  ASSUME NEW m, IsMatcher(m), NEW lines \in Seq(RuleLine), NEW n \in Nat, n < Len(lines),
         Holds(m, lines, n)
  PROVE  Holds(WithLine(m, lines[n + 1]), lines, n + 1)
<1> DEFINE line == lines[n + 1]
           new == WithLine(m, line)
<1>1. line \in RuleLine /\ n + 1 \in 1..(n + 1) /\ n + 1 \notin 1..n
      /\ \A k : k \in 1..(n + 1) <=> k \in 1..n \/ k = n + 1
  OBVIOUS
<1>2. /\ line.kind \in {"domain", "wild", "skip", "broken"}
      /\ line.kind = "domain" =>
           line.domain \in Seq(Labels) \ {<<>>} /\ line.block \in BOOLEAN
      /\ line.kind = "wild" => line.covers \in SUBSET Domains /\ line.block \in BOOLEAN
  BY <1>1, LineType
<1>3. \A node, k : k \in RulesFor(lines, n + 1, node) <=>
                     \/ k \in RulesFor(lines, n, node)
                     \/ k = n + 1 /\ line.kind = "domain" /\ line.domain = node
  BY <1>1 DEF RulesFor
<1>4. \A block, domain, k : k \in WildFor(lines, n + 1, block, domain) <=>
                     \/ k \in WildFor(lines, n, block, domain)
                     \/ /\ k = n + 1 /\ line.kind = "wild" /\ line.block = block
                        /\ domain \in line.covers
  BY <1>1 DEF WildFor
<1>5. \A node, k : k \in RulesFor(lines, n, node) => k \in 1..n
  BY DEF RulesFor
<1>6. ASSUME NEW node
      PROVE  NodeOf(new.trie, node) =
               IF line.kind = "domain" /\ node = line.domain
               THEN [isEnd |-> TRUE, isBlock |-> line.block] ELSE NodeOf(m.trie, node)
  <2>1. CASE line.kind = "domain"
    <3>1. new.trie = Add(m.trie, line.domain, line.block)
      BY <2>1 DEF WithLine, IsMatcher
    <3> HIDE DEF new, line
    <3>2. line.domain \in Seq(Labels) /\ line.domain # <<>>
      BY <1>2, <2>1
    <3>3. NodeOf(Add(m.trie, line.domain, line.block), line.domain) =
            [isEnd |-> TRUE, isBlock |-> line.block]
      BY <3>2, AddedEnd
    <3>4. node # line.domain =>
            NodeOf(Add(m.trie, line.domain, line.block), node) = NodeOf(m.trie, node)
      BY <3>2, OtherNode
    <3> QED
      BY <2>1, <3>1, <3>3, <3>4
  <2>2. CASE line.kind # "domain"
    <3>1. new.trie = m.trie
      BY <2>2 DEF WithLine, IsMatcher
    <3> HIDE DEF new, line
    <3> QED
      BY <2>2, <3>1
  <2> QED
    BY <2>1, <2>2
<1>7. ASSUME NEW domain
      PROVE  /\ Covered(new.blocked, domain) <=>
                  \/ Covered(m.blocked, domain)
                  \/ line.kind = "wild" /\ line.block /\ domain \in line.covers
             /\ Covered(new.unblocked, domain) <=>
                  \/ Covered(m.unblocked, domain)
                  \/ line.kind = "wild" /\ ~line.block /\ domain \in line.covers
  <2>1. CASE line.kind = "wild" /\ line.block
    <3>1. new.blocked = Append(m.blocked, line.covers) /\ new.unblocked = m.unblocked
      BY <2>1 DEF WithLine, IsMatcher
    <3>2. m.blocked \in Seq(SUBSET Domains)
      BY DEF IsMatcher
    <3> HIDE DEF new, line
    <3> QED
      BY <1>2, <2>1, <3>1, <3>2, AppendedCover
  <2>2. CASE line.kind = "wild" /\ ~line.block
    <3>1. new.unblocked = Append(m.unblocked, line.covers) /\ new.blocked = m.blocked
      BY <2>2 DEF WithLine, IsMatcher
    <3>2. m.unblocked \in Seq(SUBSET Domains)
      BY DEF IsMatcher
    <3> HIDE DEF new, line
    <3> QED
      BY <1>2, <2>2, <3>1, <3>2, AppendedCover
  <2>3. CASE line.kind # "wild"
    <3>1. new.unblocked = m.unblocked /\ new.blocked = m.blocked
      BY <2>3 DEF WithLine, IsMatcher
    <3> QED
      BY <2>3, <3>1
  <2> QED
    BY <1>2, <2>1, <2>2, <2>3
<1> HIDE DEF new, line
<1>8. ASSUME NEW domain \in Domains, NEW node \in Suffixes(domain) \ {<<>>}
      PROVE  /\ NodeOf(new.trie, node).isEnd <=> RulesFor(lines, n + 1, node) # {}
             /\ \A k \in RulesFor(lines, n + 1, node) :
                  (\A j \in RulesFor(lines, n + 1, node) : j <= k) =>
                     NodeOf(new.trie, node).isBlock = lines[k].block
  <2>1. /\ NodeOf(m.trie, node).isEnd <=> RulesFor(lines, n, node) # {}
        /\ \A k \in RulesFor(lines, n, node) :
             (\A j \in RulesFor(lines, n, node) : j <= k) =>
                NodeOf(m.trie, node).isBlock = lines[k].block
    BY DEF Holds
  <2>2. CASE line.kind = "domain" /\ node = line.domain
    <3>1. n + 1 \in RulesFor(lines, n + 1, node)
      BY <1>3, <2>2
    <3>2. NodeOf(new.trie, node) = [isEnd |-> TRUE, isBlock |-> line.block]
      BY <1>6, <2>2
    <3>3. ASSUME NEW k \in RulesFor(lines, n + 1, node),
                 \A j \in RulesFor(lines, n + 1, node) : j <= k
          PROVE  k = n + 1
      <4>1. n + 1 <= k /\ k \in 1..(n + 1)
        BY <3>1, <3>3 DEF RulesFor
      <4> QED
        BY <4>1
    <3> QED
      BY <3>1, <3>2, <3>3 DEF line
  <2>3. CASE ~(line.kind = "domain" /\ node = line.domain)
    <3>1. \A k : k \in RulesFor(lines, n + 1, node) <=> k \in RulesFor(lines, n, node)
      BY <1>3, <2>3
    <3>2. NodeOf(new.trie, node) = NodeOf(m.trie, node)
      BY <1>6, <2>3
    <3> QED
      BY <2>1, <3>1, <3>2
  <2> QED
    BY <2>2, <2>3
<1>9. ASSUME NEW domain \in Domains
      PROVE  /\ Covered(new.blocked, domain) <=> WildFor(lines, n + 1, TRUE, domain) # {}
             /\ Covered(new.unblocked, domain) <=> WildFor(lines, n + 1, FALSE, domain) # {}
  <2>1. /\ Covered(m.blocked, domain) <=> WildFor(lines, n, TRUE, domain) # {}
        /\ Covered(m.unblocked, domain) <=> WildFor(lines, n, FALSE, domain) # {}
    BY DEF Holds
  <2>2. /\ WildFor(lines, n + 1, TRUE, domain) # {} <=>
             \/ WildFor(lines, n, TRUE, domain) # {}
             \/ line.kind = "wild" /\ line.block = TRUE /\ domain \in line.covers
        /\ WildFor(lines, n + 1, FALSE, domain) # {} <=>
             \/ WildFor(lines, n, FALSE, domain) # {}
             \/ line.kind = "wild" /\ line.block = FALSE /\ domain \in line.covers
    BY <1>4
  <2> QED
    BY <1>2, <1>7, <2>1, <2>2
<1>10. Holds(new, lines, n + 1)
  BY <1>8, <1>9 DEF Holds
<1> QED
  BY <1>10 DEF new, line

\* The file's lines come behind those of the section, whose rules they replace.
LEMMA ExtensionHeld ==
  ASSUME NEW m, IsMatcher(m), NEW target, IsMatcher(target),
         NEW lines \in Seq(RuleLine), NEW more \in Seq(RuleLine),
         Holds(m, lines, Len(lines)), Holds(target, more, Len(more))
  PROVE  Holds(Extend(m, target), lines \o more, Len(lines \o more))
<1> DEFINE all == lines \o more
           new == Extend(m, target)
           L == Len(lines)
           M == Len(more)
<1>1. /\ L \in Nat /\ M \in Nat /\ Len(all) = L + M
      /\ \A k \in 1..L : all[k] = lines[k]
      /\ \A k \in 1..M : all[L + k] = more[k]
  OBVIOUS
<1>2. new = [trie |-> Merged(m.trie, target.trie), blocked |-> m.blocked \o target.blocked,
             unblocked |-> m.unblocked \o target.unblocked]
  BY DEF Extend
<1> HIDE DEF all, new, L, M
<1>3. \A k : k \in 1..(L + M) <=> k \in 1..L \/ (k - L \in 1..M /\ k \in Nat)
  BY <1>1
<1>4. ASSUME NEW node, NEW k \in Nat
      PROVE  k \in RulesFor(all, L + M, node) <=>
               k \in RulesFor(lines, L, node) \/ k - L \in RulesFor(more, M, node)
  <2>1. CASE k \in 1..L
    BY <1>1, <2>1 DEF RulesFor
  <2>2. CASE k - L \in 1..M
    <3>1. all[k] = more[k - L] /\ k \in 1..(L + M) /\ k \notin 1..L
      <4>1. L + (k - L) = k
        BY <1>1
      <4> QED
        BY <1>1, <2>2, <4>1
    <3> QED
      BY <1>1, <2>2, <3>1 DEF RulesFor
  <2>3. CASE k \notin 1..L /\ k - L \notin 1..M
    BY <1>3, <2>3 DEF RulesFor
  <2> QED
    BY <2>1, <2>2, <2>3
<1>5. ASSUME NEW block, NEW domain, NEW k \in Nat
      PROVE  k \in WildFor(all, L + M, block, domain) <=>
               k \in WildFor(lines, L, block, domain) \/ k - L \in WildFor(more, M, block, domain)
  <2>1. CASE k \in 1..L
    BY <1>1, <2>1 DEF WildFor
  <2>2. CASE k - L \in 1..M
    <3>1. all[k] = more[k - L] /\ k \in 1..(L + M) /\ k \notin 1..L
      <4>1. L + (k - L) = k
        BY <1>1
      <4> QED
        BY <1>1, <2>2, <4>1
    <3> QED
      BY <1>1, <2>2, <3>1 DEF WildFor
  <2>3. CASE k \notin 1..L /\ k - L \notin 1..M
    BY <1>3, <2>3 DEF WildFor
  <2> QED
    BY <2>1, <2>2, <2>3
<1>6. ASSUME NEW node, NEW j \in RulesFor(more, M, node)
      PROVE  j \in 1..M /\ L + j \in RulesFor(all, L + M, node) /\ all[L + j] = more[j]
  <2>1. j \in 1..M
    BY <1>6 DEF RulesFor
  <2>2. L + j \in 1..(L + M) /\ all[L + j] = more[j]
    BY <1>1, <2>1
  <2> QED
    BY <1>6, <2>1, <2>2 DEF RulesFor
<1>7. ASSUME NEW domain \in Domains, NEW node \in Suffixes(domain) \ {<<>>}
      PROVE  /\ NodeOf(new.trie, node).isEnd <=> RulesFor(all, L + M, node) # {}
             /\ \A k \in RulesFor(all, L + M, node) :
                  (\A j \in RulesFor(all, L + M, node) : j <= k) =>
                     NodeOf(new.trie, node).isBlock = all[k].block
  <2>1. /\ NodeOf(m.trie, node).isEnd <=> RulesFor(lines, L, node) # {}
        /\ \A k \in RulesFor(lines, L, node) :
             (\A j \in RulesFor(lines, L, node) : j <= k) =>
                NodeOf(m.trie, node).isBlock = lines[k].block
    BY DEF Holds, L
  <2>2. /\ NodeOf(target.trie, node).isEnd <=> RulesFor(more, M, node) # {}
        /\ \A k \in RulesFor(more, M, node) :
             (\A j \in RulesFor(more, M, node) : j <= k) =>
                NodeOf(target.trie, node).isBlock = more[k].block
    BY DEF Holds, M
  <2>3. NodeOf(new.trie, node) =
          IF NodeOf(target.trie, node).isEnd THEN NodeOf(target.trie, node)
          ELSE NodeOf(m.trie, node)
    BY <1>2, MergedNode
  <2>4. \A k \in RulesFor(all, L + M, node) : k \in Nat /\ k \in 1..(L + M)
    BY <1>1 DEF RulesFor
  <2>5. CASE RulesFor(more, M, node) # {}
    <3>1. PICK e \in RulesFor(more, M, node) : TRUE
      BY <2>5
    <3>2. L + e \in RulesFor(all, L + M, node) /\ e \in 1..M
      BY <1>6, <3>1
    <3>3. ASSUME NEW k \in RulesFor(all, L + M, node),
                 \A j \in RulesFor(all, L + M, node) : j <= k
          PROVE  NodeOf(new.trie, node).isBlock = all[k].block
      <4>1. L + e <= k /\ k \in Nat
        BY <2>4, <3>2, <3>3
      <4>2. k \notin RulesFor(lines, L, node)
        BY <1>1, <3>2, <4>1 DEF RulesFor
      <4>3. k - L \in RulesFor(more, M, node)
        BY <1>4, <3>3, <4>1, <4>2
      <4>4. all[k] = more[k - L]
        <5>1. L + (k - L) = k
          BY <1>1, <4>1
        <5> QED
          BY <1>6, <4>3, <5>1
      <4>5. ASSUME NEW j \in RulesFor(more, M, node) PROVE j <= k - L
        <5>1. L + j <= k /\ j \in 1..M
          BY <1>6, <3>3
        <5> QED
          BY <1>1, <4>1, <5>1
      <4> QED
        BY <2>2, <2>3, <2>5, <4>3, <4>4, <4>5
    <3> QED
      BY <2>2, <2>3, <2>5, <3>2, <3>3
  <2>6. CASE RulesFor(more, M, node) = {}
    <3>1. \A k \in Nat : k \in RulesFor(all, L + M, node) <=> k \in RulesFor(lines, L, node)
      BY <1>4, <2>6
    <3>2. \A k \in RulesFor(lines, L, node) : k \in Nat /\ all[k] = lines[k]
      BY <1>1 DEF RulesFor
    <3>3. \A k : k \in RulesFor(all, L + M, node) <=> k \in RulesFor(lines, L, node)
      BY <2>4, <3>1, <3>2
    <3> QED
      BY <2>1, <2>2, <2>3, <2>6, <3>2, <3>3
  <2> QED
    BY <2>5, <2>6
<1>8. ASSUME NEW domain, NEW block
      PROVE  WildFor(all, L + M, block, domain) # {} <=>
               WildFor(lines, L, block, domain) # {} \/ WildFor(more, M, block, domain) # {}
  <2>1. /\ \A k \in WildFor(all, L + M, block, domain) : k \in Nat
        /\ \A k \in WildFor(lines, L, block, domain) : k \in Nat
    BY DEF WildFor
  <2>3. ASSUME NEW k \in WildFor(more, M, block, domain)
        PROVE  WildFor(all, L + M, block, domain) # {}
    <3>1. k \in 1..M
      BY <2>3 DEF WildFor
    <3>2. L + k \in 1..(L + M) /\ all[L + k] = more[k]
      BY <1>1, <3>1
    <3>3. L + k \in WildFor(all, L + M, block, domain)
      BY <2>3, <3>2 DEF WildFor
    <3> QED
      BY <3>3
  <2>4. ASSUME NEW k \in WildFor(all, L + M, block, domain)
        PROVE  WildFor(lines, L, block, domain) # {} \/ WildFor(more, M, block, domain) # {}
    BY <1>5, <2>1, <2>4
  <2>5. ASSUME NEW k \in WildFor(lines, L, block, domain)
        PROVE  WildFor(all, L + M, block, domain) # {}
    BY <1>5, <2>1, <2>5
  <2> QED
    BY <2>3, <2>4, <2>5
<1>9. ASSUME NEW domain \in Domains
      PROVE  /\ Covered(new.blocked, domain) <=> WildFor(all, L + M, TRUE, domain) # {}
             /\ Covered(new.unblocked, domain) <=> WildFor(all, L + M, FALSE, domain) # {}
  <2>1. /\ m.blocked \in Seq(SUBSET Domains) /\ target.blocked \in Seq(SUBSET Domains)
        /\ m.unblocked \in Seq(SUBSET Domains) /\ target.unblocked \in Seq(SUBSET Domains)
    BY DEF IsMatcher
  <2>2. /\ Covered(new.blocked, domain) <=>
             Covered(m.blocked, domain) \/ Covered(target.blocked, domain)
        /\ Covered(new.unblocked, domain) <=>
             Covered(m.unblocked, domain) \/ Covered(target.unblocked, domain)
    BY <1>2, <2>1, JoinedCover
  <2>3. /\ Covered(m.blocked, domain) <=> WildFor(lines, L, TRUE, domain) # {}
        /\ Covered(m.unblocked, domain) <=> WildFor(lines, L, FALSE, domain) # {}
        /\ Covered(target.blocked, domain) <=> WildFor(more, M, TRUE, domain) # {}
        /\ Covered(target.unblocked, domain) <=> WildFor(more, M, FALSE, domain) # {}
    BY DEF Holds, L, M
  <2>4. /\ WildFor(all, L + M, TRUE, domain) # {} <=>
             WildFor(lines, L, TRUE, domain) # {} \/ WildFor(more, M, TRUE, domain) # {}
        /\ WildFor(all, L + M, FALSE, domain) # {} <=>
             WildFor(lines, L, FALSE, domain) # {} \/ WildFor(more, M, FALSE, domain) # {}
    BY <1>8
  <2> QED
    BY <2>2, <2>3, <2>4
<1>10. Holds(new, all, L + M)
  BY <1>7, <1>9 DEF Holds
<1> QED
  BY <1>1, <1>10 DEF new, all

(***************************************************************************)
(* Match: among the ends on the way to a domain there is a longest one, so *)
(* that a matcher which holds all the lines decides as they do.            *)
(***************************************************************************)
\* A set of numbers has a least one.
LEMMA Least ==
  ASSUME NEW S \in SUBSET Nat, S # {}
  PROVE  \E m \in S : \A n \in S : m <= n
<1>1. PICK m \in S : \A n \in S : ~ (<<n, m>> \in OpToRel(<, Nat))
  BY NatLessThanWellFounded, WFMin
<1>2. ASSUME NEW n \in S PROVE m <= n
  <2>1. ~(<<n, m>> \in {ss \in Nat \X Nat : ss[1] < ss[2]})
    BY <1>1 DEF OpToRel
  <2> QED
    BY <2>1
<1> QED
  BY <1>2

\* A set of numbers with a bound has a greatest one.
LEMMA Greatest ==
  ASSUME NEW N \in Nat, NEW S \in SUBSET (0..N), S # {}
  PROVE  \E m \in S : \A n \in S : n <= m
<1> DEFINE T == {N - n : n \in S}
<1>1. T \in SUBSET Nat /\ T # {}
  <2>1. \A n \in S : N - n \in Nat
    OBVIOUS
  <2> QED
    BY <2>1
<1>2. PICK t \in T : \A u \in T : t <= u
  BY <1>1, Least
<1>3. PICK m \in S : t = N - m
  BY <1>2
<1>4. ASSUME NEW n \in S PROVE n <= m
  <2>1. N - m <= N - n
    BY <1>2, <1>3
  <2> QED
    BY <2>1
<1> QED
  BY <1>4

\* Of some suffixes of a domain one is the longest, and Longest finds it.
LEMMA LongestExists ==
  ASSUME NEW d \in Seq(Labels), NEW nodes \in SUBSET Suffixes(d), nodes # {}
  PROVE  /\ Longest(nodes) \in nodes
         /\ \A other \in nodes : Len(other) <= Len(Longest(nodes))
<1> DEFINE S == {Len(n) : n \in nodes}
<1>1. \A a \in Suffixes(d) : Len(a) \in 0..Len(d)
  BY SuffixByLength
<1>2. S \in SUBSET (0..Len(d)) /\ S # {} /\ Len(d) \in Nat
  <2>1. \A n \in nodes : Len(n) \in 0..Len(d)
    BY <1>1
  <2>2. Len(d) \in Nat
    OBVIOUS
  <2>3. PICK n \in nodes : TRUE
    OBVIOUS
  <2>4. Len(n) \in S
    OBVIOUS
  <2>5. \A l \in S : l \in 0..Len(d)
    BY <2>1
  <2> HIDE DEF S
  <2> QED
    BY <2>2, <2>4, <2>5
<1>3. PICK l \in S : \A n \in S : n <= l
  <2> HIDE DEF S
  <2> QED
    BY <1>2, Greatest
<1>4. \E n \in nodes : \A other \in nodes : Len(other) <= Len(n)
  BY <1>3
<1> QED
  BY <1>4 DEF Longest

\* A matcher that holds all lines decides as the lines do (adblock.go:43-84).
LEMMA MatchDecides ==
  ASSUME NEW m, IsMatcher(m), NEW lines \in Seq(RuleLine), NEW domain \in Domains,
         Holds(m, lines, Len(lines))
  PROVE  Match(m, domain) = Decision(lines, domain)
<1> DEFINE N == Len(lines)
           above == {k \in 1..N : lines[k].kind = "domain" /\ lines[k].domain \in Suffixes(domain)}
           deciding == {k \in above : \A other \in above :
                          \/ Len(lines[other].domain) < Len(lines[k].domain)
                          \/ Len(lines[other].domain) = Len(lines[k].domain) /\ other <= k}
           wild == {k \in 1..N : lines[k].kind = "wild" /\ domain \in lines[k].covers}
           senses == {lines[k].block : k \in IF above # {} THEN deciding ELSE wild}
           ends == Ends(m.trie, domain)
<1>1. N \in Nat /\ domain \in Seq(Labels) /\ \A k \in 1..N : lines[k] \in RuleLine
  BY DomainsAssumption
<1>2. \A k \in 1..N :
        /\ lines[k].kind \in {"domain", "wild", "skip", "broken"}
        /\ lines[k].kind = "domain" =>
             lines[k].domain \in Seq(Labels) \ {<<>>} /\ lines[k].block \in BOOLEAN
        /\ lines[k].kind = "wild" => lines[k].block \in BOOLEAN
  BY <1>1, LineType
<1>3. Decision(lines, domain) =
        IF senses = {} THEN "none" ELSE IF TRUE \in senses THEN "blocked" ELSE "unblocked"
  BY DEF Decision
<1>4. /\ \A node \in Suffixes(domain) \ {<<>>} :
           /\ NodeOf(m.trie, node).isEnd <=> RulesFor(lines, N, node) # {}
           /\ \A k \in RulesFor(lines, N, node) :
                (\A j \in RulesFor(lines, N, node) : j <= k) =>
                   NodeOf(m.trie, node).isBlock = lines[k].block
      /\ Covered(m.blocked, domain) <=> WildFor(lines, N, TRUE, domain) # {}
      /\ Covered(m.unblocked, domain) <=> WildFor(lines, N, FALSE, domain) # {}
  BY DEF Holds
<1>5. ends \subseteq Suffixes(domain) \ {<<>>} /\ \A node \in ends : m.trie[node] = NodeOf(m.trie, node)
  BY DEF Ends, NodeOf, NewNode
<1>6. \A node \in Suffixes(domain) \ {<<>>} : node \in ends <=> RulesFor(lines, N, node) # {}
  BY <1>4 DEF Ends
<1>7. above # {} <=> ends # {}
  <2>1. ASSUME NEW k \in above PROVE lines[k].domain \in ends
    <3>1. lines[k].domain \in Suffixes(domain) \ {<<>>}
      BY <1>2, <2>1
    <3>2. k \in RulesFor(lines, N, lines[k].domain)
      BY <2>1 DEF RulesFor
    <3> HIDE DEF ends
    <3> QED
      BY <1>6, <3>1, <3>2
  <2>2. ASSUME NEW node \in ends PROVE above # {}
    <3>1. PICK k \in RulesFor(lines, N, node) : TRUE
      BY <1>5, <1>6, <2>2
    <3>2. k \in above
      BY <1>5, <2>2, <3>1 DEF RulesFor
    <3> QED
      BY <3>2
  <2> QED
    BY <2>1, <2>2
<1>8. CASE ends # {}
  <2> DEFINE e == Longest(ends)
             own == RulesFor(lines, N, e)
  <2>1. e \in ends /\ \A other \in ends : Len(other) <= Len(e)
    BY <1>1, <1>5, <1>8, LongestExists
  <2>2. e \in Suffixes(domain) \ {<<>>} /\ own # {} /\ own \in SUBSET (0..N)
    BY <1>1, <1>5, <1>6, <2>1 DEF RulesFor
  <2>3. PICK k \in own : \A j \in own : j <= k
    <3> HIDE DEF own
    <3> QED
      BY <1>1, <2>2, Greatest
  <2>4. k \in above /\ lines[k].domain = e /\ k \in 1..N /\ lines[k].block \in BOOLEAN
    BY <1>2, <2>2, <2>3 DEF RulesFor
  <2>5. ASSUME NEW other \in above
        PROVE  /\ other \in 1..N
               /\ lines[other].domain \in ends /\ Len(lines[other].domain) \in Nat
               /\ Len(lines[other].domain) = Len(e) => lines[other].domain = e
               /\ lines[other].domain = e => other \in own
    <3>1. lines[other].domain \in Suffixes(domain) \ {<<>>} /\ other \in 1..N
      BY <1>2, <2>5
    <3>2. other \in RulesFor(lines, N, lines[other].domain)
      BY <2>5 DEF RulesFor
    <3>3. Len(lines[other].domain) = Len(e) => lines[other].domain = e
      BY <1>1, <2>2, <3>1, SuffixByLength
    <3>4. Len(lines[other].domain) \in Nat
      BY <1>2, <2>5
    <3> HIDE DEF ends
    <3> QED
      BY <1>6, <3>1, <3>2, <3>3, <3>4
  <2>6. Len(e) \in Nat
    BY <2>4, <2>5
  <2>7. k \in deciding
    <3>1. ASSUME NEW other \in above
          PROVE  \/ Len(lines[other].domain) < Len(lines[k].domain)
                 \/ Len(lines[other].domain) = Len(lines[k].domain) /\ other <= k
      <4> HIDE DEF above, ends, own, e
      <4>1. Len(lines[other].domain) <= Len(e) /\ Len(lines[other].domain) \in Nat
        BY <2>1, <2>5
      <4>2. CASE Len(lines[other].domain) = Len(e)
        BY <2>3, <2>4, <2>5, <4>2
      <4>3. CASE Len(lines[other].domain) # Len(e)
        BY <2>4, <2>6, <4>1, <4>3
      <4> QED
        BY <4>2, <4>3
    <3> QED
      BY <2>4, <3>1
  <2>8. ASSUME NEW j \in deciding PROVE j = k
    <3> HIDE DEF e, own, ends
    <3>1. j \in above
      BY <2>8
    <3>2. \/ Len(e) < Len(lines[j].domain)
          \/ Len(e) = Len(lines[j].domain) /\ k <= j
      BY <2>4, <2>8
    <3>3. Len(lines[j].domain) <= Len(e) /\ Len(lines[j].domain) \in Nat /\ j \in 1..N
      BY <2>1, <2>5, <3>1
    <3>4. Len(e) = Len(lines[j].domain) /\ k <= j
      BY <2>6, <3>2, <3>3
    <3>5. j <= k
      BY <2>3, <2>5, <3>1, <3>4
    <3> QED
      BY <2>4, <3>3, <3>4, <3>5
  <2>9. senses = {lines[k].block}
    <3>1. above # {}
      BY <2>4
    <3> HIDE DEF above, e, own, ends
    <3>2. deciding = {k}
      BY <2>7, <2>8
    <3> HIDE DEF deciding
    <3> QED
      BY <3>1, <3>2
  <2>10. m.trie[e].isBlock = lines[k].block
    <3> HIDE DEF e, ends
    <3> QED
      BY <1>4, <1>5, <2>1, <2>2, <2>3
  <2>11. Match(m, domain) = Verdict(m.trie[e].isBlock)
    BY <1>8 DEF Match
  <2> HIDE DEF senses, e
  <2> QED
    BY <1>3, <2>4, <2>9, <2>10, <2>11 DEF Verdict
<1>9. CASE ends = {}
  <2>1. senses = {lines[k].block : k \in wild}
    BY <1>7, <1>9
  <2>2. TRUE \in senses <=> WildFor(lines, N, TRUE, domain) # {}
    <3> HIDE DEF senses
    <3> QED
      BY <2>1 DEF WildFor
  <2>3. FALSE \in senses <=> WildFor(lines, N, FALSE, domain) # {}
    <3> HIDE DEF senses
    <3> QED
      BY <2>1 DEF WildFor
  <2>4. senses \subseteq BOOLEAN
    <3> HIDE DEF senses
    <3> QED
      BY <1>2, <2>1
  <2>5. Match(m, domain) = IF Covered(m.blocked, domain) THEN "blocked"
                           ELSE IF Covered(m.unblocked, domain) THEN "unblocked" ELSE "none"
    BY <1>9 DEF Match
  <2> HIDE DEF senses
  <2>6. senses = {} <=> ~(TRUE \in senses) /\ ~(FALSE \in senses)
    BY <2>4
  <2>7. (Covered(m.blocked, domain) <=> TRUE \in senses)
        /\ (Covered(m.unblocked, domain) <=> FALSE \in senses)
    BY <1>4, <2>2, <2>3
  <2>8. CASE TRUE \in senses
    <3>1. Match(m, domain) = "blocked"
      BY <2>5, <2>7, <2>8
    <3>2. Decision(lines, domain) = "blocked"
      BY <1>3, <2>6, <2>8
    <3> QED
      BY <3>1, <3>2
  <2>9. CASE TRUE \notin senses /\ FALSE \in senses
    <3>1. Match(m, domain) = "unblocked"
      BY <2>5, <2>7, <2>9
    <3>2. Decision(lines, domain) = "unblocked"
      BY <1>3, <2>6, <2>9
    <3> QED
      BY <3>1, <3>2
  <2>10. CASE TRUE \notin senses /\ FALSE \notin senses
    <3>1. Match(m, domain) = "none"
      BY <2>5, <2>7, <2>10
    <3>2. Decision(lines, domain) = "none"
      BY <1>3, <2>6, <2>10
    <3> QED
      BY <3>1, <3>2
  <2> QED
    BY <2>8, <2>9, <2>10
<1> QED
  BY <1>8, <1>9

(***************************************************************************)
(* The configuration.                                                      *)
(***************************************************************************)
\* What ConfsAssumption says of the configuration in hand.
LEMMA ConfType ==
  ASSUME conf \in Confs
  PROVE  /\ conf.hosts \subseteq Seq(Pair)
         /\ conf.hostsFiles \in Seq({Unreadable} \cup Seq(Pair))
         /\ IsFiniteSet(conf.groups)
         /\ \A g \in conf.groups :
              /\ g.name \in Nat
              /\ g.fallback \in BOOLEAN /\ g.gfwlist \in BOOLEAN
              /\ g.sound \in BOOLEAN /\ g.malformed \in BOOLEAN
              /\ g.rules \in Seq(RuleLine)
              /\ g.rulesFile \in {NoFile, Unreadable} \cup Seq(RuleLine)
         /\ \A g, h \in conf.groups : g.name = h.name => g = h
         /\ \A r, t \in conf.redirectors : r.name = t.name => r = t
  BY ConfsAssumption

\* What can be read of a file of hosts is a sequence of pairs.
LEMMA FilesType ==
  ASSUME conf \in Confs
  PROVE  /\ Len(conf.hostsFiles) \in Nat
         /\ \A k \in 1..Len(conf.hostsFiles) :
              conf.hostsFiles[k] # Unreadable => conf.hostsFiles[k] \in Seq(Pair)
  BY ConfType

\* An address more keeps the type of the table.
LEMMA AddIPType ==
  ASSUME NEW t \in [Keys -> Seq(Address)], NEW key \in Keys, NEW ip \in Address
  PROVE  AddIP(t, key, ip) \in [Keys -> Seq(Address)]
<1>1. Append(t[key], ip) \in Seq(Address)
  OBVIOUS
<1> QED
  BY <1>1 DEF AddIP

\* The order of the groups is a list of all of them.
LEMMA SortedType ==
  ASSUME NEW names, NEW s \in Sorted(names)
  PROVE  /\ ToSet(s) = names
         /\ \A i, j \in DOMAIN s : i < j => TriedBefore(s[i], s[j])
  BY DEF Sorted

(***************************************************************************)
(* TypeOK, with the place that newHandle has reached.                      *)
(***************************************************************************)
Typed == TypeOK /\ Progress

\* newHandle starts typed.
LEMMA TypedInit == Init => Typed
<1> SUFFICES ASSUME Init PROVE Typed
  OBVIOUS
<1>1. <<>> \in Seq(Pair) /\ Len(<<>>) = 0 /\ <<>> \in Seq(Address)
  OBVIOUS
<1>2. EmptyTable \in [Keys -> Seq(Address)]
  BY <1>1 DEF EmptyTable
<1>3. Len(conf.hostsFiles) \in Nat
  BY FilesType DEF Init
<1>4. DOMAIN Nothing = {}
  BY DEF Nothing
<1>5. ToSet(<<>>) = {}
  BY DEF ToSet
<1>6. TypeOK
  <2>1. reading \in Seq(Pair) /\ at \in 0..Len(reading) /\ files \in 0..Len(conf.hostsFiles)
    BY <1>1, <1>3 DEF Init
  <2>2. DOMAIN groups = {} /\ DOMAIN redirectors = {} /\ DOMAIN group2redir = {}
    BY <1>4 DEF Init
  <2>3. fallbackGroup \cup ToSet(groupList) = {}
    BY <1>5 DEF Init
  <2> QED
    BY <1>2, <2>1, <2>2, <2>3, EmptyMatcherType DEF Init, TypeOK
<1>7. Progress
  BY <1>1, <1>4 DEF Init, Progress, InGroup, AtGroups, GroupsDone, Visited, Done,
                    RedirectorsDone, NamesOf
<1> QED
  BY <1>6, <1>7 DEF Typed

\* An error or a panic keeps what was made and its type.
LEMMA TypedGivenUp ==
  ASSUME Typed, GivesUp
  PROVE  Typed'
<1> USE DEF GivesUp, Abort, Panic, GiveUp, hostVars, groupVars, listVars, redirVars
<1>1. TypeOK'
  BY DEF Typed, TypeOK
<1>2. Progress'
  BY DEF Typed, Progress, InGroup
<1> QED
  BY <1>1, <1>2 DEF Typed

\* Every step keeps the types and the place in newHandle.
LEMMA TypedStep == Typed /\ [Next]_vars => Typed'
<1> SUFFICES ASSUME Typed, [Next]_vars PROVE Typed'
  OBVIOUS
<1> USE DEF GivesUp, loopVars, hostVars, groupVars, listVars, redirVars
<1>0. TypeOK /\ Progress /\ conf \in Confs
  BY DEF Typed, Progress
<1>1. CASE CheckTypes
  <2>1. CASE Proceed("hosts", conf.hosts)
    <3>1. TypeOK'
      BY <1>0, <1>1, <2>1 DEF CheckTypes, Proceed, TypeOK
    <3>2. Progress'
      BY <1>0, <1>1, <2>1 DEF CheckTypes, Proceed, Progress, InGroup, AtGroups, GroupsDone,
                              Visited, Done, RedirectorsDone, NamesOf
    <3> QED
      BY <3>1, <3>2 DEF Typed
  <2> QED
    BY <1>1, <2>1, TypedGivenUp DEF CheckTypes
<1>2. ASSUME NEW entry \in left, LoadHosts(entry) PROVE Typed'
  <2>1. entry \in Seq(Pair) /\ Len(entry) \in Nat
    BY <1>0, <1>2, ConfType DEF LoadHosts, TypeOK
  <2>2. TypeOK'
    BY <1>0, <1>2, <2>1 DEF LoadHosts, Read, TypeOK
  <2>3. Progress'
    BY <1>0, <1>2, <2>1 DEF LoadHosts, Read, Progress, InGroup, AtGroups, GroupsDone,
                            Visited, Done, RedirectorsDone, NamesOf
  <2> QED
    BY <2>2, <2>3 DEF Typed
<1>3. CASE OpenFile
  <2>1. CASE GivesUp
    BY <2>1, TypedGivenUp
  <2>2. CASE ~GivesUp
    <3>1. files + 1 \in 1..Len(conf.hostsFiles) /\ files \in Nat
      BY <1>0, <1>3, FilesType DEF OpenFile, TypeOK
    <3>2. conf.hostsFiles[files + 1] \in Seq(Pair)
      BY <1>0, <1>3, <2>2, <3>1, FilesType DEF OpenFile
    <3>3. Len(conf.hostsFiles[files + 1]) \in Nat
      BY <3>2
    <3>4. TypeOK'
      BY <1>0, <1>3, <2>2, <3>1, <3>2, <3>3 DEF OpenFile, Read, TypeOK
    <3>5. Progress'
      BY <1>0, <1>3, <2>2, <3>2 DEF OpenFile, Read, Progress, InGroup, AtGroups, GroupsDone,
                                    Visited, Done, RedirectorsDone, NamesOf
    <3> QED
      BY <3>4, <3>5 DEF Typed
  <2> QED
    BY <2>1, <2>2
<1>4. CASE AddHost
  <2>1. CASE GivesUp
    BY <2>1, TypedGivenUp
  <2>2. CASE ~GivesUp
    <3>1. reading \in Seq(Pair) /\ at + 1 \in 1..Len(reading)
      BY <1>0, <1>4 DEF AddHost, TypeOK, Progress
    <3>2. reading[at + 1] \in Pair
      BY <3>1
    <3>3. reading[at + 1].key \in Keys /\ reading[at + 1].ip \in Address
      BY <1>4, <2>2, <3>2 DEF AddHost, Pair, Parses
    <3>4. table' \in [Keys -> Seq(Address)]
      <4>1. table' = AddIP(table, reading[at + 1].key, reading[at + 1].ip)
        BY <1>4, <2>2 DEF AddHost
      <4>2. table \in [Keys -> Seq(Address)]
        BY <1>0 DEF TypeOK
      <4> QED
        BY <3>3, <4>1, <4>2, AddIPType
    <3>5. TypeOK'
      BY <1>0, <1>4, <2>2, <3>1, <3>4 DEF AddHost, TypeOK
    <3>6. Progress'
      BY <1>0, <1>4, <2>2 DEF AddHost, Progress, InGroup, AtGroups, GroupsDone,
                              Visited, Done, RedirectorsDone, NamesOf
    <3> QED
      BY <3>5, <3>6 DEF Typed
  <2> QED
    BY <2>1, <2>2
<1>5. CASE HostsRead
  <2>1. TypeOK'
    BY <1>0, <1>5 DEF HostsRead, Proceed, TypeOK
  <2>2. Progress'
    BY <1>0, <1>5 DEF HostsRead, Proceed, Progress, InGroup, AtGroups, GroupsDone,
                      Visited, Done, RedirectorsDone, NamesOf
  <2> QED
    BY <2>1, <2>2 DEF Typed
<1>6. CASE MakeCache
  <2>1. CASE Proceed("groups", conf.groups)
    <3>1. TypeOK'
      BY <1>0, <1>6, <2>1 DEF MakeCache, Proceed, TypeOK
    <3>2. Progress'
      BY <1>0, <1>6, <2>1 DEF MakeCache, Proceed, Progress, InGroup, AtGroups, GroupsDone,
                              Visited, Done, RedirectorsDone, NamesOf
    <3> QED
      BY <3>1, <3>2 DEF Typed
  <2> QED
    BY <1>6, <2>1, TypedGivenUp DEF MakeCache
<1>7. ASSUME NEW g \in left, BuildGroup(g) PROVE Typed'
  <2>1. CASE GivesUp
    BY <2>1, TypedGivenUp
  <2>2. CASE ~GivesUp
    <3>1. g \in conf.groups /\ g.rules \in Seq(RuleLine) /\ Len(g.rules) \in Nat
      BY <1>0, <1>7, ConfType DEF BuildGroup, TypeOK
    <3>2. seenFallback' \in BOOLEAN /\ seenGFWList' \in BOOLEAN
      BY <1>7, <2>2 DEF BuildGroup
    <3>3. TypeOK'
      BY <1>0, <1>7, <2>2, <3>1, <3>2, EmptyMatcherType DEF BuildGroup, Read, TypeOK
    <3>4. Done' = Done /\ RedirectorsDone' = RedirectorsDone
      BY <1>7, <2>2, <3>1 DEF BuildGroup, InGroup, AtGroups, Visited, Done, RedirectorsDone
    <3>5. NamesOf(Done)' = NamesOf(Done) /\ NamesOf(RedirectorsDone)' = NamesOf(RedirectorsDone)
      BY <3>4 DEF NamesOf
    <3>6. Progress'
      BY <1>0, <1>7, <2>2, <3>5 DEF BuildGroup, Read, Progress, InGroup
    <3> QED
      BY <3>3, <3>6 DEF Typed
  <2> QED
    BY <2>1, <2>2
<1>8. CASE AddRule
  <2>1. CASE GivesUp
    BY <2>1, TypedGivenUp
  <2>2. CASE ~GivesUp
    <3>1. reading \in Seq(RuleLine) /\ at + 1 \in 1..Len(reading)
      BY <1>0, <1>8, ConfType DEF AddRule, TypeOK, Progress
    <3>2. IsMatcher(matcher')
      <4>1. reading[at + 1] \in RuleLine
        BY <3>1
      <4> QED
        BY <1>0, <1>8, <2>2, <4>1, WithLineType DEF AddRule, TypeOK
    <3>3. TypeOK'
      BY <1>0, <1>8, <2>2, <3>1, <3>2 DEF AddRule, TypeOK
    <3>4. Progress'
      BY <1>0, <1>8, <2>2 DEF AddRule, Progress, InGroup, AtGroups, GroupsDone,
                              Visited, Done, RedirectorsDone, NamesOf
    <3> QED
      BY <3>3, <3>4 DEF Typed
  <2> QED
    BY <2>1, <2>2
<1>9. CASE OpenRulesFile
  <2>1. CASE GivesUp
    BY <2>1, TypedGivenUp
  <2>2. CASE ~GivesUp
    <3>1. building.rulesFile \in Seq(RuleLine) /\ Len(building.rulesFile) \in Nat
      BY <1>0, <1>9, <2>2, ConfType DEF OpenRulesFile, TypeOK
    <3>2. TypeOK'
      BY <1>0, <1>9, <2>2, <3>1, EmptyMatcherType DEF OpenRulesFile, Read, TypeOK
    <3>3. Progress'
      BY <1>0, <1>9, <2>2, <3>1 DEF OpenRulesFile, Read, Progress, InGroup, AtGroups, GroupsDone,
                                    Visited, Done, RedirectorsDone, NamesOf
    <3> QED
      BY <3>2, <3>3 DEF Typed
  <2> QED
    BY <2>1, <2>2
<1>10. CASE RulesRead
  <2>1. IsMatcher(matcher')
    BY <1>0, <1>10, ExtendType DEF RulesRead, TypeOK
  <2>2. TypeOK'
    BY <1>0, <1>10, <2>1 DEF RulesRead, TypeOK
  <2>3. Progress'
    BY <1>0, <1>10 DEF RulesRead, Progress, InGroup, AtGroups, GroupsDone,
                       Visited, Done, RedirectorsDone, NamesOf
  <2> QED
    BY <2>2, <2>3 DEF Typed
<1>11. CASE AddGroup
  <2>1. CASE GivesUp
    BY <2>1, TypedGivenUp
  <2>2. CASE ~GivesUp
    <3>1. building \in conf.groups /\ building \notin left
      BY <1>0, <1>11 DEF AddGroup, TypeOK, Progress, InGroup
    <3>2. DOMAIN groups' = DOMAIN groups \cup {building.name}
      BY <1>11, <2>2 DEF AddGroup
    <3>3. \A n \in DOMAIN groups' : IsMatcher(groups'[n].matcher)
      BY <1>0, <1>11, <2>2, <3>2 DEF AddGroup, TypeOK
    <3>4. TypeOK'
      BY <1>0, <1>11, <2>2, <3>1, <3>2, <3>3 DEF AddGroup, TypeOK
    <3>5. Done' = Done \cup {building} /\ RedirectorsDone' = RedirectorsDone
      BY <1>11, <2>2, <3>1 DEF AddGroup, InGroup, AtGroups, Visited, Done, RedirectorsDone
    <3>6. /\ NamesOf(Done)' = NamesOf(Done) \cup {building.name}
          /\ NamesOf(RedirectorsDone)' = NamesOf(RedirectorsDone)
      BY <3>5 DEF NamesOf
    <3>7. Progress'
      BY <1>0, <1>11, <2>2, <3>2, <3>6 DEF AddGroup, Progress, InGroup
    <3> QED
      BY <3>4, <3>7 DEF Typed
  <2> QED
    BY <2>1, <2>2
<1>12. CASE FindFallback
  <2>1. ToSet(groupList') = DOMAIN groups
    BY <1>12, SortedType DEF FindFallback
  <2>2. TypeOK'
    BY <1>0, <1>12, <2>1 DEF FindFallback, TypeOK
  <2>3. Progress'
    BY <1>0, <1>12 DEF FindFallback, Progress, InGroup, AtGroups, GroupsDone,
                       Visited, Done, RedirectorsDone, NamesOf, TypeOK
  <2> QED
    BY <2>2, <2>3 DEF Typed
<1>13. ASSUME NEW r \in left, BuildRedirector(r) PROVE Typed'
  <2>1. CASE GivesUp
    BY <2>1, TypedGivenUp
  <2>2. CASE ~GivesUp
    <3>1. r \in conf.redirectors /\ r.dst \in DOMAIN groups
      BY <1>0, <1>13, <2>2 DEF BuildRedirector, TypeOK, Usable
    <3>2. DOMAIN redirectors' = DOMAIN redirectors \cup {r.name}
      BY <1>13, <2>2 DEF BuildRedirector
    <3>3. \A n \in DOMAIN redirectors' : redirectors'[n].dst \in DOMAIN groups
      BY <1>0, <1>13, <2>2, <3>1, <3>2 DEF BuildRedirector, TypeOK
    <3>4. TypeOK'
      BY <1>0, <1>13, <2>2, <3>2, <3>3 DEF BuildRedirector, TypeOK
    <3>5. Done' = Done /\ RedirectorsDone' = RedirectorsDone \cup {r}
      BY <1>13, <2>2, <3>1 DEF BuildRedirector, InGroup, AtGroups, GroupsDone, Visited, Done,
                               RedirectorsDone
    <3>6. /\ NamesOf(Done)' = NamesOf(Done)
          /\ NamesOf(RedirectorsDone)' = NamesOf(RedirectorsDone) \cup {r.name}
      BY <3>5 DEF NamesOf
    <3>7. Progress'
      BY <1>0, <1>13, <2>2, <3>2, <3>6 DEF BuildRedirector, Progress, InGroup
    <3> QED
      BY <3>4, <3>7 DEF Typed
  <2> QED
    BY <2>1, <2>2
<1>14. CASE RedirectorsBuilt
  <2>1. TypeOK'
    BY <1>0, <1>14 DEF RedirectorsBuilt, Proceed, TypeOK
  <2>2. Progress'
    BY <1>0, <1>14 DEF RedirectorsBuilt, Proceed, Progress, InGroup, AtGroups, GroupsDone,
                       Visited, Done, RedirectorsDone, NamesOf
  <2> QED
    BY <2>1, <2>2 DEF Typed
<1>15. ASSUME NEW g \in left, Assign(g) PROVE Typed'
  <2>1. CASE GivesUp
    BY <2>1, TypedGivenUp
  <2>2. CASE ~GivesUp
    <3>1. g \in conf.groups
      BY <1>0, <1>15 DEF Assign, TypeOK
    <3>2. g.name \in DOMAIN groups
      BY <1>0, <1>15, <3>1 DEF Assign, Progress, Visited, Done, InGroup, AtGroups, GroupsDone, NamesOf
    <3>3. DOMAIN group2redir' = DOMAIN group2redir \cup {g.name}
      BY <1>15, <2>2 DEF Assign
    <3>4. \A n \in DOMAIN group2redir' :
             n \in DOMAIN groups /\ group2redir'[n] \in DOMAIN redirectors
      BY <1>0, <1>15, <2>2, <3>2, <3>3 DEF Assign, TypeOK
    <3>5. TypeOK'
      BY <1>0, <1>15, <2>2, <3>4 DEF Assign, TypeOK
    <3>6. Progress'
      BY <1>0, <1>15, <2>2 DEF Assign, Progress, InGroup, AtGroups, GroupsDone,
                               Visited, Done, RedirectorsDone, NamesOf
    <3> QED
      BY <3>5, <3>6 DEF Typed
  <2> QED
    BY <2>1, <2>2
<1>16. CASE Built
  <2>1. TypeOK'
    BY <1>0, <1>16 DEF Built, Proceed, TypeOK
  <2>2. Progress'
    BY <1>0, <1>16 DEF Built, Proceed, Progress, InGroup, AtGroups, GroupsDone,
                       Visited, Done, RedirectorsDone, NamesOf
  <2> QED
    BY <2>1, <2>2 DEF Typed
<1>17. CASE UNCHANGED vars
  <2>1. TypeOK'
    BY <1>0, <1>17 DEF vars, TypeOK
  <2>2. Progress'
    BY <1>0, <1>17 DEF vars, Progress, InGroup, AtGroups, GroupsDone,
                       Visited, Done, RedirectorsDone, NamesOf
  <2> QED
    BY <2>1, <2>2 DEF Typed
<1> QED
  BY <1>1, <1>2, <1>3, <1>4, <1>5, <1>6, <1>7, <1>8, <1>9, <1>10, <1>11, <1>12, <1>13, <1>14,
     <1>15, <1>16, <1>17 DEF Next

\* Nothing that is built refers to what is not there: redirectors to groups, groups
\* to redirectors, the list to groups (handler.go:142-165, redirector.go:24-49).
THEOREM TypeCorrect == Spec => []TypeOK
<1>1. Init => Typed
  BY TypedInit
<1>2. Typed /\ [Next]_vars => Typed'
  BY TypedStep
<1>3. Typed => TypeOK
  BY DEF Typed
<1> QED
  BY <1>1, <1>2, <1>3, PTL DEF Spec

(***************************************************************************)
(* The hosts.                                                              *)
(***************************************************************************)
\* The types and the place, as a fact about every behaviour.
LEMMA TypedAlways == Spec => []Typed
<1>1. Init => Typed
  BY TypedInit
<1>2. Typed /\ [Next]_vars => Typed'
  BY TypedStep
<1> QED
  BY <1>1, <1>2, PTL DEF Spec

\* Every pair comes from an entry of the map or from a file.
LEMMA PairsOf ==
  ASSUME conf \in Confs
  PROVE  \A pair : pair \in AllPairs <=>
    \/ \E entry \in conf.hosts : pair \in ToSet(entry)
    \/ \E k \in 1..Len(conf.hostsFiles) :
         conf.hostsFiles[k] # Unreadable /\ pair \in ToSet(conf.hostsFiles[k])
<1> DEFINE lists == conf.hosts \cup (ToSet(conf.hostsFiles) \ {Unreadable})
<1>1. \A pair : pair \in AllPairs <=> \E list \in lists : pair \in ToSet(list)
  BY DEF AllPairs
<1>2. \A list : list \in lists <=>
        \/ list \in conf.hosts
        \/ \E k \in 1..Len(conf.hostsFiles) : list = conf.hostsFiles[k] /\ list # Unreadable
  BY FilesType DEF ToSet
<1> QED
  BY <1>1, <1>2

\* A new element at the end leaves nothing twice.
LEMMA AppendedOnce ==
  ASSUME NEW S, NEW s \in Seq(S), NEW x \in S, x \notin ToSet(s), Once(s)
  PROVE  Once(Append(s, x))
<1> DEFINE new == Append(s, x)
<1>1. /\ Len(s) \in Nat /\ Len(new) = Len(s) + 1 /\ new[Len(s) + 1] = x
      /\ \A k \in 1..Len(s) : new[k] = s[k] /\ s[k] # x
  <2>1. \A k \in 1..Len(s) : s[k] \in ToSet(s)
    BY DEF ToSet
  <2> QED
    BY <2>1
<1> HIDE DEF new
<1>2. Once(new)
  BY <1>1 DEF Once
<1> QED
  BY <1>2 DEF new

\* AddIP: the address is in the entry, and what was there still is (hosts.go:36-67).
LEMMA AddedIP ==
  ASSUME NEW t \in [Keys -> Seq(Address)], NEW key \in Keys, NEW ip \in Address
  PROVE  ToSet(AddIP(t, key, ip)[key]) = ToSet(t[key]) \cup {ip}
<1>1. CASE ip \in ToSet(t[key])
  BY <1>1 DEF AddIP
<1>2. CASE ip \notin ToSet(t[key])
  <2>1. AddIP(t, key, ip)[key] = Append(t[key], ip)
    BY <1>2 DEF AddIP
  <2>2. ToSet(Append(t[key], ip)) = ToSet(t[key]) \cup {ip}
    BY AppendedSet
  <2> QED
    BY <2>1, <2>2
<1> QED
  BY <1>1, <1>2

\* AddIP leaves no address twice in the entry.
LEMMA AddedOnce ==
  ASSUME NEW t \in [Keys -> Seq(Address)], NEW key \in Keys, NEW ip \in Address, Once(t[key])
  PROVE  Once(AddIP(t, key, ip)[key])
<1>1. CASE ip \in ToSet(t[key])
  BY <1>1 DEF AddIP
<1>2. CASE ip \notin ToSet(t[key])
  <2>1. AddIP(t, key, ip)[key] = Append(t[key], ip)
    BY <1>2 DEF AddIP
  <2>2. t[key] \in Seq(Address)
    OBVIOUS
  <2> QED
    BY <1>2, <2>1, <2>2, AppendedOnce
<1> QED
  BY <1>1, <1>2

\* AddIP touches no other entry.
LEMMA OtherKeys ==
  ASSUME NEW t \in [Keys -> Seq(Address)], NEW key \in Keys, NEW ip \in Address,
         NEW other \in Keys, other # key
  PROVE  AddIP(t, key, ip)[other] = t[other]
  BY DEF AddIP

\* Behind the hosts nothing touches them.
LEMMA HostsKept ==
  ASSUME HostsLoaded, UNCHANGED <<conf, table>>, pc' \notin {"types", "hosts"},
         HostsDone \/ pc' \in {"failed", "panicked"}
  PROVE  HostsLoaded'
<1>1. AllPairs' = AllPairs
  BY DEF AllPairs
<1>2. \A key : GivenTo(key)' = GivenTo(key)
  BY <1>1 DEF GivenTo
<1>3. \A pair : InTable(pair)' <=> InTable(pair)
  BY DEF InTable
<1>4. pc' \in {"failed", "panicked"} => ~HostsDone'
  BY DEF HostsDone, AtGroups, InGroup, GroupsDone
<1> QED
  BY <1>1, <1>2, <1>3, <1>4 DEF HostsLoaded

\* Before the hosts are read all pairs are to come.
LEMMA HostsLoadedInit == Init => HostsLoaded
<1> SUFFICES ASSUME Init PROVE HostsLoaded
  OBVIOUS
<1>1. \A key \in Keys : table[key] = <<>>
  BY DEF Init, EmptyTable
<1>2. ToSet(<<>>) = {} /\ Len(<<>>) = 0 /\ 1..0 = {}
  BY DEF ToSet
<1> QED
  BY <1>1, <1>2 DEF Init, HostsLoaded, Once, HostsDone, AtGroups, InGroup, GroupsDone

\* Every step puts a pair into the table or leaves it to come; none is lost.
LEMMA HostsLoadedStep == Typed /\ HostsLoaded /\ [Next]_vars => HostsLoaded'
<1> SUFFICES ASSUME Typed, HostsLoaded, [Next]_vars PROVE HostsLoaded'
  OBVIOUS
<1> USE DEF GivesUp, loopVars, hostVars, groupVars, listVars, redirVars
<1>0. TypeOK /\ conf \in Confs
  BY DEF Typed, Progress
<1>1. Len(conf.hostsFiles) \in Nat /\ files \in 0..Len(conf.hostsFiles) /\ at \in 0..Len(reading)
  BY <1>0, FilesType DEF TypeOK
<1>2. conf' = conf => AllPairs' = AllPairs /\ \A key : GivenTo(key)' = GivenTo(key)
  <2>1. conf' = conf => AllPairs' = AllPairs
    BY DEF AllPairs
  <2> QED
    BY <2>1 DEF GivenTo
<1>3. CASE GivesUp
  BY <1>3, HostsKept DEF Abort, Panic, GiveUp
<1>4. CASE CheckTypes /\ ~GivesUp
  <2>1. /\ conf' = conf /\ conf.qtypes /\ pc' = "hosts" /\ left' = conf.hosts
        /\ UNCHANGED <<reading, at, table, files>> /\ files = 0 /\ at = Len(reading)
    BY <1>4 DEF CheckTypes, Proceed, HostsLoaded
  <2>2. \A pair \in AllPairs : Coming(pair)'
    <3>1. \A k \in 1..Len(conf.hostsFiles) : k \in (files' + 1)..Len(conf'.hostsFiles)
      BY <1>1, <2>1
    <3> QED
      BY <1>0, <2>1, <3>1, PairsOf DEF Coming
  <2>3. 1..files' = {} /\ \A k \in 1..Len(reading) : reading[k] \in AllPairs
    <3>1. reading = <<>>
      BY <1>4 DEF CheckTypes, HostsLoaded
    <3> QED
      BY <2>1, <3>1
  <2> QED
    BY <1>2, <2>1, <2>2, <2>3 DEF HostsLoaded, HostsDone, AtGroups, InGroup, GroupsDone
<1>5. ASSUME NEW entry \in left, LoadHosts(entry) PROVE HostsLoaded'
  <2>1. /\ pc = "hosts" /\ at = Len(reading) /\ entry \in conf.hosts /\ entry \in Seq(Pair)
        /\ reading' = entry /\ at' = 0 /\ left' = left \ {entry}
        /\ UNCHANGED <<conf, pc, table, files>>
    BY <1>0, <1>5, ConfType DEF LoadHosts, Read, TypeOK
  <2>2. \A k \in 1..Len(entry) : entry[k] \in ToSet(entry)
    BY <2>1 DEF ToSet
  <2>3. \A k \in 1..Len(reading') : reading'[k] \in AllPairs
    BY <1>0, <2>1, <2>2, PairsOf
  <2>4. \A pair : Coming(pair) => Coming(pair)'
    <3>1. ASSUME NEW pair \in ToSet(entry) PROVE Coming(pair)'
      <4>1. PICK k \in 1..Len(entry) : pair = entry[k]
        BY <2>1, <3>1 DEF ToSet
      <4>2. k \in (at' + 1)..Len(reading')
        BY <2>1, <4>1
      <4> QED
        BY <2>1, <4>1, <4>2 DEF Coming
    <3>2. (at + 1)..Len(reading) = {}
      BY <1>1, <2>1
    <3> QED
      BY <2>1, <3>1, <3>2 DEF Coming
  <2>5. \A pair : InTable(pair)' <=> InTable(pair)
    BY <2>1 DEF InTable
  <2> QED
    BY <1>2, <2>1, <2>3, <2>4, <2>5 DEF HostsLoaded, HostsDone, AtGroups, InGroup, GroupsDone
<1>6. CASE OpenFile /\ ~GivesUp
  <2> DEFINE file == conf.hostsFiles[files + 1]
  <2>1. /\ pc = "hosts" /\ at = Len(reading) /\ left = {} /\ files < Len(conf.hostsFiles)
        /\ file # Unreadable /\ reading' = file /\ at' = 0 /\ files' = files + 1
        /\ UNCHANGED <<conf, pc, table, left>>
    BY <1>6 DEF OpenFile, Read
  <2>2. files + 1 \in 1..Len(conf.hostsFiles) /\ file \in Seq(Pair)
    BY <1>0, <1>1, <2>1, FilesType
  <2>3. ToSet(file) \subseteq AllPairs
    BY <1>0, <2>1, <2>2, PairsOf
  <2>4. ToSet(file) = {file[k] : k \in 1..Len(file)}
    BY <2>2 DEF ToSet
  <2> HIDE DEF file
  <2>5. \A k \in 1..Len(reading') : reading'[k] \in AllPairs
    BY <2>1, <2>3, <2>4
  <2>6. ASSUME NEW pair, Coming(pair) PROVE Coming(pair)'
    <3>1. (at + 1)..Len(reading) = {}
      BY <1>1, <2>1
    <3>2. PICK k \in (files + 1)..Len(conf.hostsFiles) :
             conf.hostsFiles[k] # Unreadable /\ pair \in ToSet(conf.hostsFiles[k])
      BY <2>1, <2>6, <3>1 DEF Coming
    <3>3. CASE k = files + 1
      <4>1. PICK i \in 1..Len(file) : pair = file[i]
        BY <2>4, <3>2, <3>3 DEF file
      <4>2. i \in (at' + 1)..Len(reading') /\ pair = reading'[i]
        BY <2>1, <4>1
      <4> QED
        BY <4>2 DEF Coming
    <3>4. CASE k # files + 1
      <4>1. k \in (files' + 1)..Len(conf'.hostsFiles)
        BY <1>1, <2>1, <3>4
      <4> QED
        BY <2>1, <3>2, <4>1 DEF Coming
    <3> QED
      BY <3>3, <3>4
  <2>7. \A pair : InTable(pair)' <=> InTable(pair)
    BY <2>1 DEF InTable
  <2>8. \A k \in 1..files' : conf'.hostsFiles[k] # Unreadable
    <3>1. \A k \in 1..files' : k \in 1..files \/ k = files + 1
      BY <1>1, <2>1
    <3> QED
      BY <2>1, <3>1 DEF HostsLoaded, file
  <2> QED
    BY <1>2, <2>1, <2>5, <2>6, <2>7, <2>8
       DEF HostsLoaded, HostsDone, AtGroups, InGroup, GroupsDone
<1>7. CASE AddHost /\ ~GivesUp
  <2> DEFINE p == reading[at + 1]
  <2>1. /\ pc = "hosts" /\ at < Len(reading) /\ Parses(p)
        /\ table' = AddIP(table, p.key, p.ip) /\ at' = at + 1
        /\ UNCHANGED <<conf, pc, left, reading, files>>
    BY <1>7 DEF AddHost
  <2>2. at + 1 \in 1..Len(reading) /\ reading \in Seq(Pair)
    BY <1>1, <2>1 DEF Typed, Progress
  <2>3. p \in Pair /\ p \in AllPairs
    BY <2>1, <2>2 DEF HostsLoaded
  <2>4. p.key \in Keys /\ p.ip \in Address
    BY <2>1, <2>3 DEF Pair, Parses
  <2>5. table \in [Keys -> Seq(Address)]
    BY <1>0 DEF TypeOK
  <2> HIDE DEF p
  <2>6. /\ ToSet(table'[p.key]) = ToSet(table[p.key]) \cup {p.ip}
        /\ \A other \in Keys \ {p.key} : table'[other] = table[other]
        /\ Once(table[p.key]) => Once(table'[p.key])
    <3>1. ToSet(table'[p.key]) = ToSet(table[p.key]) \cup {p.ip}
      BY <2>1, <2>4, <2>5, AddedIP
    <3>2. Once(table[p.key]) => Once(table'[p.key])
      BY <2>1, <2>4, <2>5, AddedOnce
    <3>3. \A other \in Keys \ {p.key} : table'[other] = table[other]
      BY <2>1, <2>4, <2>5, OtherKeys
    <3> QED
      BY <3>1, <3>2, <3>3
  <2>7. p.ip \in GivenTo(p.key)
    BY <2>3 DEF GivenTo
  <2>8. \A key \in Keys :
          /\ ToSet(table'[key]) \subseteq GivenTo(key)
          /\ Once(table'[key])
    <3>1. \A key \in Keys :
            /\ ToSet(table[key]) \subseteq GivenTo(key)
            /\ Once(table[key])
      BY DEF HostsLoaded
    <3>2. ASSUME NEW key \in Keys, key = p.key
          PROVE  /\ ToSet(table'[key]) \subseteq GivenTo(key)
                 /\ Once(table'[key])
      BY <2>6, <2>7, <3>1, <3>2
    <3>3. ASSUME NEW key \in Keys, key # p.key
          PROVE  /\ ToSet(table'[key]) \subseteq GivenTo(key)
                 /\ Once(table'[key])
      <4>1. table'[key] = table[key]
        BY <2>6, <3>3
      <4> QED
        BY <3>1, <4>1
    <3> QED
      BY <3>2, <3>3
  <2>9. ASSUME NEW pair \in AllPairs PROVE InTable(pair)' \/ Coming(pair)'
    <3>1. pair.key \in Keys
      <4>1. pair \in Pair
        <5>1. ASSUME NEW entry \in conf.hosts, pair \in ToSet(entry) PROVE pair \in Pair
          <6>1. entry \in Seq(Pair)
            BY <1>0, ConfType
          <6> QED
            BY <5>1, <6>1 DEF ToSet
        <5>2. ASSUME NEW k \in 1..Len(conf.hostsFiles), conf.hostsFiles[k] # Unreadable,
                     pair \in ToSet(conf.hostsFiles[k])
              PROVE  pair \in Pair
          <6>1. conf.hostsFiles[k] \in Seq(Pair)
            BY <1>0, <5>2, FilesType
          <6> QED
            BY <5>2, <6>1 DEF ToSet
        <5> QED
          BY <1>0, <2>9, <5>1, <5>2, PairsOf
      <4> QED
        BY <4>1 DEF Pair
    <3>2. CASE InTable(pair)
      BY <2>6, <3>1, <3>2 DEF InTable
    <3>3. CASE pair = p
      BY <2>6, <3>3 DEF InTable
    <3>4. CASE Coming(pair) /\ pair # p
      <4>1. CASE \E k \in (at + 1)..Len(reading) : pair = reading[k]
        <5>1. PICK k \in (at + 1)..Len(reading) : pair = reading[k]
          BY <4>1
        <5>2. k \in (at' + 1)..Len(reading')
          <6>1. k # at + 1
            BY <3>4, <5>1 DEF p
          <6> QED
            BY <1>1, <2>1, <5>1, <6>1
        <5> QED
          BY <2>1, <5>1, <5>2 DEF Coming
      <4>2. CASE ~\E k \in (at + 1)..Len(reading) : pair = reading[k]
        BY <2>1, <3>4, <4>2 DEF Coming
      <4> QED
        BY <4>1, <4>2
    <3> QED
      BY <2>1, <2>9, <3>2, <3>3, <3>4 DEF HostsLoaded
  <2> QED
    BY <1>2, <2>1, <2>8, <2>9 DEF HostsLoaded, HostsDone, AtGroups, InGroup, GroupsDone
<1>8. CASE HostsRead
  <2>1. /\ pc = "hosts" /\ at = Len(reading) /\ left = {} /\ files = Len(conf.hostsFiles)
        /\ pc' = "cache" /\ UNCHANGED <<conf, table>>
    BY <1>8 DEF HostsRead, Proceed
  <2>2. \A pair : ~Coming(pair)
    <3>1. (at + 1)..Len(reading) = {} /\ (files + 1)..Len(conf.hostsFiles) = {}
      BY <1>1, <2>1
    <3> QED
      BY <2>1, <3>1 DEF Coming
  <2>3. \A pair : InTable(pair)' <=> InTable(pair)
    BY <2>1 DEF InTable
  <2> QED
    BY <1>2, <2>1, <2>2, <2>3 DEF HostsLoaded, HostsDone, AtGroups, InGroup, GroupsDone
<1>9. CASE UNCHANGED vars
  <2>1. \A pair : Coming(pair)' <=> Coming(pair)
    BY <1>9 DEF vars, Coming
  <2>2. \A pair : InTable(pair)' <=> InTable(pair)
    BY <1>9 DEF vars, InTable
  <2> QED
    BY <1>2, <1>9, <2>1, <2>2 DEF vars, HostsLoaded, HostsDone, AtGroups, InGroup, GroupsDone
<1>10. ASSUME ~GivesUp,
              \/ MakeCache \/ AddRule \/ OpenRulesFile \/ RulesRead \/ AddGroup \/ FindFallback
              \/ RedirectorsBuilt \/ Built
              \/ \E x \in left : BuildGroup(x) \/ BuildRedirector(x) \/ Assign(x)
       PROVE  HostsLoaded'
  <2>1. /\ UNCHANGED <<conf, table>> /\ pc' \notin {"types", "hosts"} /\ HostsDone
    <3>1. CASE MakeCache \/ RedirectorsBuilt \/ Built \/ FindFallback
      BY <1>10, <3>1 DEF MakeCache, RedirectorsBuilt, Built, FindFallback, Proceed,
                         HostsDone, AtGroups, InGroup, GroupsDone
    <3>2. CASE AddRule \/ OpenRulesFile \/ RulesRead \/ AddGroup
      BY <1>10, <3>2 DEF AddRule, OpenRulesFile, RulesRead, AddGroup, HostsDone, AtGroups, InGroup
    <3>3. ASSUME NEW x \in left, BuildGroup(x) \/ BuildRedirector(x) \/ Assign(x)
          PROVE  /\ UNCHANGED <<conf, table>> /\ pc' \notin {"types", "hosts"} /\ HostsDone
      BY <1>10, <3>3 DEF BuildGroup, BuildRedirector, Assign, HostsDone, AtGroups, InGroup, GroupsDone
    <3> QED
      BY <1>10, <3>1, <3>2, <3>3
  <2> QED
    BY <2>1, HostsKept
<1> QED
  BY <1>3, <1>4, <1>5, <1>6, <1>7, <1>8, <1>9, <1>10 DEF Next

\* No pair is ever lost between the configuration and the table.
LEMMA HostsLoadedAlways == Spec => []HostsLoaded
<1>1. Init => HostsLoaded
  BY HostsLoadedInit
<1>2. Typed /\ HostsLoaded /\ [Next]_vars => HostsLoaded'
  BY HostsLoadedStep
<1> QED
  BY <1>1, <1>2, TypedAlways, PTL DEF Spec

\* Of several patterns one comes before all others (hosts.go:167-176).
LEMMA FirstPattern ==
  ASSUME NEW S \in SUBSET Patterns, S # {}
  PROVE  /\ FirstOf(S) \in S
         /\ \A r \in S \ {FirstOf(S)} : Before(FirstOf(S), r)
<1>1. PICK longest \in Patterns : \A r \in Patterns : Length[r] <= Length[longest]
  BY PatternsAssumption
<1>2. \A p \in Patterns : Length[p] \in 0..Length[longest] /\ Place[p] \in Nat
  BY <1>1, PatternsAssumption
<1> DEFINE lengths == {Length[p] : p \in S}
<1>3. PICK l \in lengths : \A n \in lengths : n <= l
  <2>1. lengths \in SUBSET (0..Length[longest]) /\ lengths # {} /\ Length[longest] \in Nat
    BY <1>2, PatternsAssumption
  <2> HIDE DEF lengths
  <2> QED
    BY <2>1, Greatest
<1> DEFINE places == {Place[p] : p \in {q \in S : Length[q] = l}}
<1>4. PICK k \in places : \A n \in places : k <= n
  <2>1. places \in SUBSET Nat /\ places # {}
    BY <1>2, <1>3
  <2> HIDE DEF places
  <2> QED
    BY <2>1, Least
<1>5. PICK p \in S : Length[p] = l /\ Place[p] = k
  BY <1>4
<1>6. ASSUME NEW r \in S \ {p} PROVE Before(p, r)
  <2>1. Length[r] <= l /\ Length[r] \in Nat /\ l \in Nat
    BY <1>2, <1>3, <1>5, PatternsAssumption
  <2>2. CASE Length[r] = l
    <3>1. k <= Place[r] /\ Place[r] # Place[p] /\ Place[r] \in Nat /\ k \in Nat
      BY <1>4, <1>5, <1>6, <2>2, PatternsAssumption
    <3> QED
      BY <1>5, <2>2, <3>1 DEF Before
  <2>3. CASE Length[r] # l
    BY <1>5, <2>1, <2>3 DEF Before
  <2> QED
    BY <2>2, <2>3
<1> QED
  BY <1>5, <1>6 DEF FirstOf

\* The order of the patterns is strict.
LEMMA BeforeStrict ==
  ASSUME NEW p \in Patterns, NEW r \in Patterns
  PROVE  /\ ~Before(p, p)
         /\ Before(p, r) => ~Before(r, p)
         /\ Before(p, r) <=>
              ~(Length[p] < Length[r] \/ (Length[p] = Length[r] /\ Place[r] <= Place[p]))
  BY PatternsAssumption DEF Before

\* With all pairs in the table every key has what is given to it.
LEMMA TableFull ==
  ASSUME Typed, HostsLoaded, HostsDone, NEW key \in Keys
  PROVE  /\ table[key] \in Seq(Address) /\ Once(table[key])
         /\ ToSet(table[key]) = GivenTo(key)
         /\ table[key] = <<>> <=> GivenTo(key) = {}
<1>1. table[key] \in Seq(Address)
  BY DEF Typed, TypeOK
<1>2. ToSet(table[key]) = GivenTo(key) /\ Once(table[key])
  <2>1. ASSUME NEW ip \in GivenTo(key) PROVE ip \in ToSet(table[key])
    <3>1. PICK pair \in AllPairs : pair.key = key /\ pair.ip = ip
      BY DEF GivenTo
    <3> QED
      BY <3>1 DEF HostsLoaded, InTable
  <2>2. ToSet(table[key]) \subseteq GivenTo(key) /\ Once(table[key])
    BY DEF HostsLoaded
  <2> QED
    BY <2>1, <2>2
<1>3. table[key] = <<>> <=> ToSet(table[key]) = {}
  <2> DEFINE s == table[key]
  <2>1. Len(s) \in Nat /\ DOMAIN s = 1..Len(s) /\ (s = <<>> <=> Len(s) = 0)
    BY <1>1
  <2> HIDE DEF s
  <2>2. CASE Len(s) = 0
    <3>1. DOMAIN s = {}
      BY <2>1, <2>2
    <3> QED
      BY <2>1, <2>2, <3>1 DEF s, ToSet
  <2>3. CASE Len(s) # 0
    <3>1. 1 \in DOMAIN s
      BY <2>1, <2>3
    <3>2. s[1] \in ToSet(s)
      BY <3>1 DEF ToSet
    <3> QED
      BY <2>1, <2>3, <3>2 DEF s
  <2> QED
    BY <2>2, <2>3
<1> QED
  BY <1>1, <1>2, <1>3

\* What is looked up is the entry of the source.
LEMMA LookupSource ==
  ASSUME Typed, HostsLoaded, HostsDone, NEW name \in Names
  PROVE  \/ SourceOf(name) = {} /\ Lookup(table, name) = <<>>
         \/ \E key \in Keys : /\ SourceOf(name) = {key} /\ Lookup(table, name) = table[key]
                              /\ table[key] # <<>>
<1> DEFINE patterns == {p \in Patterns : GivenTo(p) # {} /\ name \in Covers[p]}
<1>1. \A key \in Keys : table[key] = <<>> <=> GivenTo(key) = {}
  BY TableFull
<1>2. name \in Keys /\ Patterns \subseteq Keys
  BY DEF Keys
<1>3. Matching(table, name) = patterns
  BY <1>1, <1>2 DEF Matching
<1>4. CASE GivenTo(name) # {}
  <2>1. SourceOf(name) = {name} /\ Lookup(table, name) = table[name] /\ table[name] # <<>>
    BY <1>1, <1>2, <1>4 DEF SourceOf, Lookup
  <2> QED
    BY <1>2, <2>1
<1>5. CASE GivenTo(name) = {} /\ patterns = {}
  BY <1>1, <1>2, <1>3, <1>5 DEF SourceOf, Lookup
<1>6. CASE GivenTo(name) = {} /\ patterns # {}
  <2> DEFINE p == FirstOf(patterns)
  <2>1. patterns \in SUBSET Patterns
    OBVIOUS
  <2>2. Lookup(table, name) = table[p]
    BY <1>1, <1>2, <1>3, <1>6 DEF Lookup
  <2>3. SourceOf(name) = {q \in patterns :
            \A r \in patterns : \/ Length[r] < Length[q]
                                \/ Length[r] = Length[q] /\ Place[q] <= Place[r]}
    BY <1>6 DEF SourceOf
  <2>4. \A q \in patterns : table[q] # <<>>
    BY <1>1, <1>2
  <2> HIDE DEF patterns
  <2>5. p \in patterns /\ \A r \in patterns \ {p} : Before(p, r)
    BY <1>6, <2>1, FirstPattern
  <2> HIDE DEF p
  <2>6. ASSUME NEW r \in patterns
        PROVE  Length[r] < Length[p] \/ (Length[r] = Length[p] /\ Place[p] <= Place[r])
    <3>1. CASE r = p
      BY <2>1, <2>5, <3>1, PatternsAssumption
    <3>2. CASE r # p
      <4>1. Before(p, r)
        BY <2>5, <3>2
      <4> QED
        BY <2>1, <2>5, <4>1, PatternsAssumption DEF Before
    <3> QED
      BY <3>1, <3>2
  <2>7. ASSUME NEW q \in patterns,
               \A r \in patterns : \/ Length[r] < Length[q]
                                   \/ Length[r] = Length[q] /\ Place[q] <= Place[r]
        PROVE  q = p
    <3>1. CASE q # p
      <4>1. Before(p, q) /\ p \in Patterns /\ q \in Patterns
        BY <2>1, <2>5, <3>1
      <4>2. Length[p] < Length[q] \/ (Length[p] = Length[q] /\ Place[q] <= Place[p])
        BY <2>5, <2>7
      <4> QED
        BY <4>1, <4>2, BeforeStrict
    <3> QED
      BY <3>1
  <2>8. SourceOf(name) = {p}
    BY <2>3, <2>5, <2>6, <2>7
  <2> QED
    BY <1>2, <2>1, <2>2, <2>4, <2>5, <2>8
<1> QED
  BY <1>4, <1>5, <1>6

\* A table that has what is given answers what is given.
LEMMA AnswerAsGiven == Typed /\ HostsLoaded => HostsAnswer
<1> SUFFICES ASSUME Typed, HostsLoaded, pc = "built",
                    NEW name \in {n \in Names : Bare[n] # n}, NEW qtype \in {"A", "AAAA"}
             PROVE  LET ips == Get(table, name, qtype)
                        source == IF SourceOf(name) # {} THEN SourceOf(name) ELSE SourceOf(Bare[name])
                    IN  /\ \A j, k \in DOMAIN ips : ips[j] = ips[k] => j = k
                        /\ {ips[k] : k \in DOMAIN ips} =
                             {ip \in UNION {GivenTo(key) : key \in source} :
                                TypeOf[ip] = qtype /\ ip \in Writable}
  BY DEF HostsAnswer
<1> DEFINE source == IF SourceOf(name) # {} THEN SourceOf(name) ELSE SourceOf(Bare[name])
           full == Lookup(table, name)
           ips == IF full # <<>> THEN full ELSE Lookup(table, Bare[name])
           answer == Get(table, name, qtype)
<1>1. HostsDone /\ name \in Names /\ Bare[name] \in Names
  BY BareAssumption DEF HostsDone, GroupsDone
<1> DEFINE Fits(ip) == TypeOf[ip] = qtype /\ ip \in Writable
<1>2. /\ answer = [k \in {j \in DOMAIN ips : Fits(ips[j])} |-> ips[k]]
      /\ DOMAIN answer = {j \in DOMAIN ips : Fits(ips[j])}
  BY DEF Get
<1>3. \/ source = {} /\ ips = <<>>
      \/ \E key \in Keys : source = {key} /\ ips = table[key]
  <2>1. \/ SourceOf(name) = {} /\ full = <<>>
        \/ \E key \in Keys : SourceOf(name) = {key} /\ full = table[key] /\ full # <<>>
    BY <1>1, LookupSource
  <2>2. \/ SourceOf(Bare[name]) = {} /\ Lookup(table, Bare[name]) = <<>>
        \/ \E key \in Keys : SourceOf(Bare[name]) = {key} /\ Lookup(table, Bare[name]) = table[key]
    BY <1>1, LookupSource
  <2> HIDE DEF full
  <2> QED
    BY <2>1, <2>2
<1> HIDE DEF source, ips, answer
<1>4. ips \in Seq(Address) /\ Once(ips) /\ ToSet(ips) = UNION {GivenTo(key) : key \in source}
  <2>1. CASE source = {} /\ ips = <<>>
    <3>1. DOMAIN ips = {} /\ Len(ips) = 0 /\ ips \in Seq(Address)
      BY <2>1
    <3> QED
      BY <2>1, <3>1 DEF Once, ToSet
  <2>2. ASSUME NEW key \in Keys, source = {key}, ips = table[key]
        PROVE  ips \in Seq(Address) /\ Once(ips) /\ ToSet(ips) = UNION {GivenTo(k) : k \in source}
    <3>1. UNION {GivenTo(k) : k \in source} = GivenTo(key)
      BY <2>2
    <3> QED
      BY <1>1, <2>2, <3>1, TableFull
  <2> QED
    BY <1>3, <2>1, <2>2
<1>5. DOMAIN ips = 1..Len(ips)
  BY <1>4
<1>6. \A j, k \in DOMAIN answer : answer[j] = answer[k] => j = k
  BY <1>2, <1>4, <1>5 DEF Once
<1>7. {answer[k] : k \in DOMAIN answer} = {ip \in ToSet(ips) : Fits(ip)}
  BY <1>2 DEF ToSet
<1>8. /\ \A j, k \in DOMAIN answer : answer[j] = answer[k] => j = k
      /\ {answer[k] : k \in DOMAIN answer} =
           {ip \in UNION {GivenTo(key) : key \in source} : Fits(ip)}
  BY <1>4, <1>6, <1>7
<1> QED
  BY <1>8 DEF answer, source

\* A question gets every address of its type given to the source of its name that a
\* record can be written for, each spelling once and no other, whatever the order of
\* entries and files: also when others of the entry cannot be written, and for every
\* choice of those that can (hosts.go:103-176, 222-269).
THEOREM HostsAnswerHolds == Spec => []HostsAnswer
<1>1. Typed /\ HostsLoaded => HostsAnswer
  BY AnswerAsGiven
<1> QED
  BY <1>1, TypedAlways, HostsLoadedAlways, PTL

(***************************************************************************)
(* The groups: what their flags and checks say of those taken up.          *)
(***************************************************************************)

\* What the checks look at stays the same: no group is taken up or added.
LEMMA GroupsKept ==
  ASSUME GroupsChecked, UNCHANGED <<conf, seenFallback, seenGFWList, building, groups>>,
         Visited' = Visited, Done' = Done, AtGroups' <=> AtGroups, GroupsDone' <=> GroupsDone,
         pc' \in {"types", "hosts", "cache"} <=> pc \in {"types", "hosts", "cache"},
         pc' = "parts" => building.rulesFile # Unreadable
  PROVE  GroupsChecked'
  BY DEF GroupsChecked

\* No group is taken up before the groups.
LEMMA GroupsCheckedInit == Init => GroupsChecked
  BY DEF Init, GroupsChecked, AtGroups, InGroup, GroupsDone

\* Every step keeps the flags true to the groups taken up (groups.go:50-75).
LEMMA GroupsCheckedStep == Typed /\ GroupsChecked /\ [Next]_vars => GroupsChecked'
<1> SUFFICES ASSUME Typed, GroupsChecked, [Next]_vars PROVE GroupsChecked'
  OBVIOUS
<1> USE DEF GivesUp, loopVars, hostVars, groupVars, listVars, redirVars
<1>0. TypeOK /\ conf \in Confs /\ Progress
  BY DEF Typed, Progress
<1>1. CASE GivesUp
  BY <1>1 DEF Abort, Panic, GiveUp, GroupsChecked, AtGroups, InGroup, GroupsDone
<1>2. CASE ~GivesUp /\ (CheckTypes \/ OpenFile \/ AddHost \/ HostsRead
                      \/ \E entry \in left : LoadHosts(entry))
  <2>1. /\ UNCHANGED <<conf, seenFallback, seenGFWList, building, groups>>
        /\ pc \in {"types", "hosts"} /\ pc' \in {"types", "hosts", "cache"}
    BY <1>2 DEF CheckTypes, OpenFile, AddHost, HostsRead, LoadHosts, Proceed
  <2> QED
    BY <2>1 DEF GroupsChecked, AtGroups, InGroup, GroupsDone
<1>3. CASE MakeCache /\ ~GivesUp
  <2>1. /\ pc = "cache" /\ pc' = "groups" /\ left' = conf.groups
        /\ UNCHANGED <<conf, seenFallback, seenGFWList, building, groups>>
        /\ ~(Given(conf.minTTL, DefaultMinTTL) > Given(conf.maxTTL, DefaultMaxTTL))
    BY <1>3 DEF MakeCache, Proceed
  <2>2. Given(conf.minTTL, DefaultMinTTL) <= Given(conf.maxTTL, DefaultMaxTTL)
    <3>1. /\ Given(conf.minTTL, DefaultMinTTL) \in Int
          /\ Given(conf.maxTTL, DefaultMaxTTL) \in Int
      BY <1>0, ConfsAssumption, TTLAssumption DEF Given
    <3> QED
      BY <2>1, <3>1
  <2>3. Visited' = {} /\ Done' = {}
    BY <2>1 DEF Visited, Done, AtGroups, InGroup
  <2>4. Given(conf.minTTL, DefaultMinTTL)' <= Given(conf.maxTTL, DefaultMaxTTL)'
    BY <2>1, <2>2 DEF Given
  <2> QED
    BY <2>1, <2>3, <2>4 DEF GroupsChecked
<1>4. ASSUME NEW g \in left, BuildGroup(g), ~GivesUp PROVE GroupsChecked'
  <2>1. /\ pc = "groups" /\ pc' = "section" /\ left' = left \ {g} /\ building' = g
        /\ UNCHANGED <<conf, groups>> /\ ~Refused(g)
        /\ seenFallback' = (seenFallback \/ Fallback(g))
        /\ seenGFWList' = (seenGFWList \/ IsSetGFWList(g))
    BY <1>4 DEF BuildGroup
  <2>2. g \in conf.groups /\ g \notin Visited /\ left \subseteq conf.groups
    BY <1>0, <2>1 DEF TypeOK, Visited, AtGroups
  <2>3. Visited' = Visited \cup {g} /\ Done' = Done /\ AtGroups /\ AtGroups'
    BY <2>1, <2>2 DEF Visited, Done, AtGroups, InGroup
  <2>4. /\ seenFallback <=> \E h \in Visited : Fallback(h)
        /\ seenGFWList <=> \E h \in Visited : h.gfwlist
        /\ \A h, k \in Visited : Fallback(h) /\ Fallback(k) => h = k
        /\ \A h, k \in Visited : h.gfwlist /\ k.gfwlist => h = k
    BY <2>3 DEF GroupsChecked
  <2>5. /\ seenFallback' <=> \E h \in Visited' : Fallback(h)
        /\ \A h, k \in Visited' : Fallback(h) /\ Fallback(k) => h = k
    BY <2>1, <2>3, <2>4 DEF Refused
  <2>6. /\ seenGFWList' <=> \E h \in Visited' : h.gfwlist
        /\ \A h, k \in Visited' : h.gfwlist /\ k.gfwlist => h = k
    BY <2>1, <2>3, <2>4 DEF Refused, IsSetGFWList
  <2>7. \A h : Fallback(h)' <=> Fallback(h)
    BY DEF Fallback, IsEmptyRule, IsSetGFWList
  <2>8. /\ Given(conf.minTTL, DefaultMinTTL)' <= Given(conf.maxTTL, DefaultMaxTTL)'
        /\ pc' \notin {"types", "hosts", "cache", "parts"}
    BY <2>1, <2>3 DEF GroupsChecked, Given
  <2> QED
    BY <2>1, <2>3, <2>5, <2>6, <2>7, <2>8 DEF GroupsChecked
<1>5. CASE ~GivesUp /\ (AddRule \/ OpenRulesFile \/ RulesRead)
  <2>1. /\ UNCHANGED <<conf, left, seenFallback, seenGFWList, building, groups>>
        /\ pc \in {"section", "file"} /\ pc' \in {"section", "file", "parts"}
        /\ pc' = "parts" => RulesRead
    BY <1>5 DEF AddRule, OpenRulesFile, RulesRead
  <2>2. pc' = "parts" => building.rulesFile # Unreadable
    BY <1>0, <2>1, FilesAssumption DEF RulesRead, Progress
  <2>3. /\ AtGroups /\ AtGroups' /\ ~GroupsDone /\ ~GroupsDone'
        /\ Visited' = Visited /\ Done' = Done
    BY <2>1 DEF AtGroups, InGroup, GroupsDone, Visited, Done
  <2> QED
    BY <2>1, <2>2, <2>3, GroupsKept
<1>6. CASE AddGroup /\ ~GivesUp
  <2>1. /\ pc = "parts" /\ pc' = "groups" /\ building.sound /\ building.rulesFile # Unreadable
        /\ UNCHANGED <<conf, left, seenFallback, seenGFWList, building>>
        /\ groups' = [n \in DOMAIN groups \cup {building.name} |->
                        IF n = building.name
                        THEN [fallback |-> Fallback(building),
                              gfwlist |-> IsSetGFWList(building), matcher |-> matcher]
                        ELSE groups[n]]
    BY <1>6 DEF AddGroup, GroupsChecked
  <2>2. building \in conf.groups /\ building \notin left /\ left \subseteq conf.groups
    BY <1>0, <2>1 DEF TypeOK, Progress, InGroup
  <2>3. /\ AtGroups /\ AtGroups' /\ ~GroupsDone' /\ Visited' = Visited
        /\ Done' = Done \cup {building} /\ Done \subseteq conf.groups /\ building \notin Done
    BY <2>1, <2>2 DEF AtGroups, InGroup, GroupsDone, Visited, Done
  <2>4. ASSUME NEW g \in Done'
        PROVE  /\ g.sound /\ g.rulesFile # Unreadable
               /\ groups'[g.name].fallback = Fallback(g) /\ groups'[g.name].gfwlist = g.gfwlist
    <3>1. CASE g = building
      BY <2>1, <3>1 DEF IsSetGFWList
    <3>2. CASE g # building
      <4>1. g \in Done /\ g.name # building.name
        BY <1>0, <2>2, <2>3, <3>2, ConfType
      <4>2. g.name \in DOMAIN groups
        BY <1>0, <2>1, <4>1 DEF Progress, NamesOf
      <4>3. groups'[g.name] = groups[g.name]
        BY <2>1, <4>1, <4>2
      <4> QED
        BY <2>3, <4>1, <4>3 DEF GroupsChecked
    <3> QED
      BY <3>1, <3>2
  <2>5. \A h : Fallback(h)' <=> Fallback(h)
    BY DEF Fallback, IsEmptyRule, IsSetGFWList
  <2>6. Given(conf.minTTL, DefaultMinTTL)' <= Given(conf.maxTTL, DefaultMaxTTL)'
    BY <2>1, <2>3 DEF GroupsChecked, Given
  <2> QED
    BY <2>1, <2>3, <2>4, <2>5, <2>6 DEF GroupsChecked
<1>7. CASE FindFallback /\ pc' \notin {"failed", "panicked"}
  <2>1. /\ pc = "groups" /\ left = {} /\ pc' = "redirectors"
        /\ UNCHANGED <<conf, seenFallback, seenGFWList, building, groups>>
    BY <1>7 DEF FindFallback
  <2>2. Visited' = Visited /\ Done' = Done /\ AtGroups
    BY <2>1 DEF AtGroups, InGroup, GroupsDone, Visited, Done
  <2>3. Given(conf.minTTL, DefaultMinTTL)' <= Given(conf.maxTTL, DefaultMaxTTL)'
    BY <2>1, <2>2 DEF GroupsChecked, Given
  <2> QED
    BY <2>1, <2>2, <2>3 DEF GroupsChecked
<1>8. CASE FindFallback /\ pc' \in {"failed", "panicked"}
  BY <1>8 DEF GroupsChecked, AtGroups, InGroup, GroupsDone
<1>9. CASE ~GivesUp /\ (RedirectorsBuilt \/ Built
                      \/ \E x \in left : BuildRedirector(x) \/ Assign(x))
  <2>1. /\ UNCHANGED <<conf, seenFallback, seenGFWList, building, groups>>
        /\ pc \in {"redirectors", "assign"} /\ pc' \in {"redirectors", "assign", "built"}
    BY <1>9 DEF RedirectorsBuilt, Built, BuildRedirector, Assign, Proceed
  <2>2. /\ ~AtGroups /\ ~AtGroups' /\ GroupsDone /\ GroupsDone'
        /\ Visited' = Visited /\ Done' = Done
    BY <2>1 DEF AtGroups, InGroup, GroupsDone, Visited, Done
  <2> QED
    BY <2>1, <2>2, GroupsKept
<1>10. CASE UNCHANGED vars
  <2>1. /\ UNCHANGED <<conf, pc, left, seenFallback, seenGFWList, building, groups>>
    BY <1>10 DEF vars
  <2>2. /\ AtGroups' <=> AtGroups
        /\ GroupsDone' <=> GroupsDone
        /\ Visited' = Visited
        /\ Done' = Done
    BY <2>1 DEF AtGroups, InGroup, GroupsDone, Visited, Done
  <2>3. pc' = "parts" => building.rulesFile # Unreadable
    BY <2>1 DEF GroupsChecked
  <2> QED
    BY <2>1, <2>2, <2>3, GroupsKept
<1> QED
  BY <1>1, <1>2, <1>3, <1>4, <1>5, <1>6, <1>7, <1>8, <1>9, <1>10 DEF Next

\* The flags and the checks, as a fact about every behaviour.
LEMMA GroupsCheckedAlways == Spec => []GroupsChecked
<1>1. Init => GroupsChecked
  BY GroupsCheckedInit
<1>2. Typed /\ GroupsChecked /\ [Next]_vars => GroupsChecked'
  BY GroupsCheckedStep
<1> QED
  BY <1>1, <1>2, TypedAlways, PTL DEF Spec

(***************************************************************************)
(* The rules: what was read so far is in the matchers.                     *)
(***************************************************************************)

\* The rules of a group in hand are lines.
LEMMA LinesRead ==
  ASSUME Typed, pc \in {"section", "file"}
  PROVE  /\ reading \in Seq(RuleLine) /\ at \in Nat /\ at <= Len(reading)
         /\ building \in conf.groups /\ building.rules \in Seq(RuleLine)
<1>1. building \in conf.groups /\ conf \in Confs
  BY DEF Typed, TypeOK, Progress
<1>2. building.rules \in Seq(RuleLine)
  BY <1>1, ConfType
<1>3. reading \in Seq(RuleLine)
  BY <1>2 DEF Typed, Progress
<1> QED
  BY <1>1, <1>2, <1>3 DEF Typed, TypeOK

\* No group has a matcher before the groups.
LEMMA RulesHeldInit == Init => RulesHeld
  BY DEF Init, RulesHeld, Done, Visited, InGroup, AtGroups, GroupsDone

\* Every step keeps the matchers true to the lines read (groups.go:103-112).
LEMMA RulesHeldStep == Typed /\ RulesHeld /\ [Next]_vars => RulesHeld'
<1> SUFFICES ASSUME Typed, RulesHeld, [Next]_vars PROVE RulesHeld'
  OBVIOUS
<1> USE DEF GivesUp, loopVars, hostVars, groupVars, listVars, redirVars
<1>0. TypeOK /\ Progress /\ conf \in Confs
  BY DEF Typed, Progress
<1>1. CASE pc' \in {"failed", "panicked"}
  BY <1>1 DEF RulesHeld
<1>2. CASE /\ pc' \notin {"failed", "panicked"}
           /\ \/ CheckTypes \/ OpenFile \/ AddHost \/ HostsRead \/ MakeCache
              \/ \E entry \in left : LoadHosts(entry)
  <2>1. /\ pc' \in {"types", "hosts", "cache"} \/ (pc' = "groups" /\ left' = conf.groups)
        /\ conf' = conf
    BY <1>2 DEF CheckTypes, OpenFile, AddHost, HostsRead, MakeCache, LoadHosts, Proceed, Abort, Panic, GiveUp
  <2>2. Done' = {}
    BY <2>1 DEF Done, Visited, InGroup, AtGroups, GroupsDone
  <2> QED
    BY <2>1, <2>2 DEF RulesHeld
<1>3. ASSUME NEW g \in left, BuildGroup(g), pc' \notin {"failed", "panicked"} PROVE RulesHeld'
  <2>1. /\ pc = "groups" /\ pc' = "section" /\ left' = left \ {g} /\ building' = g
        /\ reading' = g.rules /\ at' = 0 /\ matcher' = EmptyMatcher
        /\ UNCHANGED <<conf, groups>>
    BY <1>3 DEF BuildGroup, Abort, Panic, GiveUp, Read
  <2>2. g \in conf.groups
    BY <1>0, <2>1 DEF TypeOK
  <2>3. Done' = Done
    BY <2>1, <2>2 DEF Done, Visited, InGroup, AtGroups
  <2>4. Holds(matcher', reading', at')
    BY <2>1, EmptyHolds
  <2>5. \A h \in Done' : Holds(groups'[h.name].matcher, RulesOf(h), Len(RulesOf(h)))
    BY <2>1, <2>3 DEF RulesHeld
  <2> QED
    BY <2>1, <2>4, <2>5 DEF RulesHeld
<1>4. CASE AddRule /\ pc' \notin {"failed", "panicked"}
  <2>1. /\ pc \in {"section", "file"} /\ pc' = pc /\ at < Len(reading)
        /\ matcher' = WithLine(matcher, reading[at + 1]) /\ at' = at + 1
        /\ UNCHANGED <<conf, left, reading, building, section, groups>>
    BY <1>4 DEF AddRule, Panic, GiveUp
  <2>2. Done' = Done
    BY <2>1 DEF Done, Visited, InGroup, AtGroups
  <2>3. IsMatcher(matcher)
    BY <1>0 DEF TypeOK
  <2>4. Holds(matcher, reading, at)
    BY <2>1 DEF RulesHeld
  <2>5. reading \in Seq(RuleLine) /\ at \in Nat
    BY <2>1, LinesRead
  <2>6. Holds(matcher', reading', at')
    BY <2>1, <2>3, <2>4, <2>5, LineHeld
  <2>7. \A h \in Done' : Holds(groups'[h.name].matcher, RulesOf(h), Len(RulesOf(h)))
    BY <2>1, <2>2 DEF RulesHeld
  <2> QED
    BY <2>1, <2>6, <2>7 DEF RulesHeld
<1>5. CASE OpenRulesFile /\ pc' \notin {"failed", "panicked"}
  <2>1. /\ pc = "section" /\ pc' = "file" /\ at = Len(reading)
        /\ reading' = building.rulesFile /\ at' = 0
        /\ section' = matcher /\ matcher' = EmptyMatcher
        /\ UNCHANGED <<conf, left, building, groups>>
    BY <1>5 DEF OpenRulesFile, Abort, Panic, GiveUp, Read
  <2>2. Done' = Done
    BY <2>1 DEF Done, Visited, InGroup, AtGroups
  <2>3. Holds(matcher', reading', at')
    BY <2>1, EmptyHolds
  <2>4. Holds(section', building'.rules, Len(building'.rules))
    BY <1>0, <2>1 DEF RulesHeld, Progress
  <2>5. \A h \in Done' : Holds(groups'[h.name].matcher, RulesOf(h), Len(RulesOf(h)))
    BY <2>1, <2>2 DEF RulesHeld
  <2> QED
    BY <2>1, <2>3, <2>4, <2>5 DEF RulesHeld
<1>6. CASE RulesRead
  <2>1. /\ pc \in {"section", "file"} /\ pc' = "parts" /\ at = Len(reading)
        /\ UNCHANGED <<conf, left, building, groups>>
    BY <1>6 DEF RulesRead
  <2>2. Done' = Done
    BY <2>1 DEF Done, Visited, InGroup, AtGroups
  <2>3. Holds(matcher', RulesOf(building'), Len(RulesOf(building')))
    <3>1. CASE pc = "section"
      <4>1. matcher' = matcher /\ building.rulesFile = NoFile
        BY <1>6, <3>1 DEF RulesRead
      <4>2. reading = RulesOf(building)
        BY <1>0, <3>1, <4>1 DEF Progress, RulesOf
      <4> QED
        BY <2>1, <3>1, <4>1, <4>2 DEF RulesHeld
    <3>2. CASE pc = "file"
      <4>1. matcher' = Extend(section, matcher)
        BY <1>6, <3>2 DEF RulesRead
      <4>2. /\ reading = building.rulesFile /\ reading # NoFile
            /\ RulesOf(building) = building.rules \o reading
        BY <1>0, <3>2 DEF Progress, RulesOf
      <4>3. reading \in Seq(RuleLine) /\ building.rules \in Seq(RuleLine)
        BY <2>1, LinesRead
      <4>4. /\ Holds(section, building.rules, Len(building.rules))
            /\ Holds(matcher, reading, Len(reading))
        BY <2>1, <3>2 DEF RulesHeld
      <4>5. IsMatcher(section) /\ IsMatcher(matcher)
        BY <1>0 DEF TypeOK
      <4>6. Holds(Extend(section, matcher), building.rules \o reading, Len(building.rules \o reading))
        BY <4>3, <4>4, <4>5, ExtensionHeld
      <4> QED
        BY <2>1, <4>1, <4>2, <4>6
    <3> QED
      BY <2>1, <3>1, <3>2
  <2>4. \A h \in Done' : Holds(groups'[h.name].matcher, RulesOf(h), Len(RulesOf(h)))
    BY <2>1, <2>2 DEF RulesHeld
  <2> QED
    BY <2>1, <2>3, <2>4 DEF RulesHeld
<1>7. CASE AddGroup /\ pc' \notin {"failed", "panicked"}
  <2>1. /\ pc = "parts" /\ pc' = "groups"
        /\ UNCHANGED <<conf, left, building>>
        /\ groups' = [n \in DOMAIN groups \cup {building.name} |->
                        IF n = building.name
                        THEN [fallback |-> Fallback(building),
                              gfwlist |-> IsSetGFWList(building), matcher |-> matcher]
                        ELSE groups[n]]
    BY <1>7 DEF AddGroup, Abort, Panic, GiveUp
  <2>2. building \in conf.groups /\ building \notin left /\ left \subseteq conf.groups
    BY <1>0, <2>1 DEF TypeOK, Progress, InGroup
  <2>3. Done' = Done \cup {building} /\ Done \subseteq conf.groups
    BY <2>1, <2>2 DEF AtGroups, InGroup, GroupsDone, Visited, Done
  <2>4. Holds(matcher, RulesOf(building), Len(RulesOf(building)))
    BY <2>1 DEF RulesHeld
  <2>5. ASSUME NEW g \in Done'
        PROVE  Holds(groups'[g.name].matcher, RulesOf(g), Len(RulesOf(g)))
    <3>1. CASE g = building
      <4>1. groups'[g.name].matcher = matcher
        BY <2>1, <3>1
      <4> QED
        BY <2>4, <3>1, <4>1
    <3>2. CASE g # building
      <4>1. g \in Done /\ g.name # building.name
        BY <1>0, <2>2, <2>3, <3>2, ConfType
      <4>2. g.name \in DOMAIN groups
        BY <1>0, <2>1, <4>1 DEF Progress, NamesOf
      <4>3. groups'[g.name] = groups[g.name]
        BY <2>1, <4>1, <4>2
      <4> QED
        BY <2>1, <4>1, <4>3 DEF RulesHeld
    <3> QED
      BY <3>1, <3>2
  <2> QED
    BY <2>1, <2>5 DEF RulesHeld
<1>8. CASE /\ pc' \notin {"failed", "panicked"}
           /\ \/ FindFallback \/ RedirectorsBuilt \/ Built
              \/ \E x \in left : BuildRedirector(x) \/ Assign(x)
  <2>1. /\ UNCHANGED <<conf, groups>>
        /\ pc' \in {"redirectors", "assign", "built"}
        /\ pc \in {"redirectors", "assign"} \/ (pc = "groups" /\ left = {})
    BY <1>8 DEF FindFallback, RedirectorsBuilt, Built, BuildRedirector, Assign, Proceed, Abort, Panic, GiveUp
  <2>2. Done' = Done
    BY <2>1 DEF Done, Visited, InGroup, AtGroups, GroupsDone
  <2>3. \A h \in Done' : Holds(groups'[h.name].matcher, RulesOf(h), Len(RulesOf(h)))
    BY <2>1, <2>2 DEF RulesHeld
  <2> QED
    BY <2>1, <2>3 DEF RulesHeld
<1>9. CASE UNCHANGED vars
  <2>1. UNCHANGED <<conf, pc, left, reading, at, building, matcher, section, groups>>
    BY <1>9 DEF vars
  <2>2. Done' = Done
    BY <2>1 DEF Done, Visited, InGroup, AtGroups, GroupsDone
  <2> QED
    BY <2>1, <2>2 DEF RulesHeld
<1> QED
  BY <1>1, <1>2, <1>3, <1>4, <1>5, <1>6, <1>7, <1>8, <1>9 DEF Next

\* The matchers hold what was read, as a fact about every behaviour.
LEMMA RulesHeldAlways == Spec => []RulesHeld
<1>1. Init => RulesHeld
  BY RulesHeldInit
<1>2. Typed /\ RulesHeld /\ [Next]_vars => RulesHeld'
  BY RulesHeldStep
<1> QED
  BY <1>1, <1>2, TypedAlways, PTL DEF Spec

\* No group has rules before the groups.
LEMMA RulesCompiledInit == Init => RulesCompiled
  BY DEF Init, RulesCompiled, Done, Visited, InGroup, AtGroups, GroupsDone

\* What newHandle looks at of the rules stays the same.
LEMMA RulesCompiledKept ==
  ASSUME RulesCompiled, pc \notin {"failed", "panicked"}, Done' = Done,
         pc' \notin {"section", "file", "parts"}
  PROVE  RulesCompiled'
  BY DEF RulesCompiled, Breaks

\* No step goes past a rule that is broken (adblock.go:127, 141; groups.go:103-131).
LEMMA RulesCompiledStep == Typed /\ RulesCompiled /\ [Next]_vars => RulesCompiled'
<1> SUFFICES ASSUME Typed, RulesCompiled, [Next]_vars PROVE RulesCompiled'
  OBVIOUS
<1> USE DEF GivesUp, loopVars, hostVars, groupVars, listVars, redirVars
<1>0. TypeOK /\ Progress /\ conf \in Confs
  BY DEF Typed, Progress
<1>1. CASE pc' \in {"failed", "panicked"}
  BY <1>1 DEF RulesCompiled
<1>2. CASE /\ pc' \notin {"failed", "panicked"}
           /\ \/ CheckTypes \/ OpenFile \/ AddHost \/ HostsRead \/ MakeCache
              \/ \E entry \in left : LoadHosts(entry)
  <2>1. /\ pc' \in {"types", "hosts", "cache"} \/ (pc' = "groups" /\ left' = conf.groups)
        /\ conf' = conf
    BY <1>2 DEF CheckTypes, OpenFile, AddHost, HostsRead, MakeCache, LoadHosts, Proceed,
                Abort, Panic, GiveUp
  <2>2. Done' = {}
    BY <2>1 DEF Done, Visited, InGroup, AtGroups, GroupsDone
  <2> QED
    BY <2>1, <2>2 DEF RulesCompiled
<1>3. ASSUME NEW g \in left, BuildGroup(g), pc' \notin {"failed", "panicked"}
      PROVE  RulesCompiled'
  <2>1. /\ pc = "groups" /\ pc' = "section" /\ left' = left \ {g} /\ building' = g /\ at' = 0
        /\ conf' = conf
    BY <1>3 DEF BuildGroup, Abort, Panic, GiveUp, Read
  <2>2. g \in conf.groups
    BY <1>0, <2>1 DEF TypeOK
  <2>3. Done' = Done
    BY <2>1, <2>2 DEF Done, Visited, InGroup, AtGroups
  <2> QED
    BY <2>1, <2>3 DEF RulesCompiled, NoneBroken, Breaks
<1>4. CASE AddRule /\ pc' \notin {"failed", "panicked"}
  <2>1. /\ pc \in {"section", "file"} /\ pc' = pc /\ reading[at + 1].kind # "broken"
        /\ at' = at + 1 /\ UNCHANGED <<conf, left, reading, building>>
    BY <1>4 DEF AddRule, Panic, GiveUp
  <2>2. Done' = Done
    BY <2>1 DEF Done, Visited, InGroup, AtGroups
  <2>3. at \in Nat
    BY <2>1, LinesRead
  <2>4. NoneBroken(reading', at')
    <3>1. \A k \in 1..at' : k \in 1..at \/ k = at + 1
      BY <2>1, <2>3
    <3> QED
      BY <2>1, <3>1 DEF RulesCompiled, NoneBroken
  <2> QED
    BY <2>1, <2>2, <2>4 DEF RulesCompiled, Breaks
<1>5. CASE OpenRulesFile /\ pc' \notin {"failed", "panicked"}
  <2>1. /\ pc = "section" /\ pc' = "file" /\ at = Len(reading) /\ at' = 0
        /\ UNCHANGED <<conf, left, building>>
    BY <1>5 DEF OpenRulesFile, Abort, Panic, GiveUp, Read
  <2>2. Done' = Done
    BY <2>1 DEF Done, Visited, InGroup, AtGroups
  <2>3. ~HasBroken(building.rules)
    BY <1>0, <2>1 DEF RulesCompiled, NoneBroken, HasBroken, Progress
  <2> QED
    BY <2>1, <2>2, <2>3 DEF RulesCompiled, NoneBroken, Breaks
<1>6. CASE RulesRead
  <2>1. /\ pc \in {"section", "file"} /\ pc' = "parts" /\ at = Len(reading)
        /\ pc = "section" => building.rulesFile = NoFile
        /\ UNCHANGED <<conf, left, building>>
    BY <1>6 DEF RulesRead
  <2>2. Done' = Done
    BY <2>1 DEF Done, Visited, InGroup, AtGroups
  <2>3. ~HasBroken(reading)
    BY <2>1 DEF RulesCompiled, NoneBroken, HasBroken
  <2>4. /\ ~HasBroken(building.rules)
        /\ building.rulesFile \notin {NoFile, Unreadable} => ~HasBroken(building.rulesFile)
    BY <1>0, <2>1, <2>3 DEF RulesCompiled, Progress
  <2> QED
    BY <2>1, <2>2, <2>4 DEF RulesCompiled, Breaks
<1>7. CASE AddGroup /\ pc' \notin {"failed", "panicked"}
  <2>1. /\ pc = "parts" /\ pc' = "groups" /\ ~building.malformed
        /\ UNCHANGED <<conf, left, building>>
    BY <1>7 DEF AddGroup, Abort, Panic, GiveUp
  <2>2. building \in conf.groups /\ building \notin left /\ left \subseteq conf.groups
    BY <1>0, <2>1 DEF TypeOK, Progress, InGroup
  <2>3. Done' = Done \cup {building}
    BY <2>1, <2>2 DEF AtGroups, InGroup, GroupsDone, Visited, Done
  <2>4. ~Breaks(building)
    BY <2>1 DEF RulesCompiled, Breaks
  <2>5. \A g \in Done : ~Breaks(g)
    BY <2>1 DEF RulesCompiled
  <2> QED
    BY <2>1, <2>3, <2>4, <2>5 DEF RulesCompiled, Breaks
<1>8. CASE /\ pc' \notin {"failed", "panicked"}
           /\ \/ FindFallback \/ RedirectorsBuilt \/ Built
              \/ \E x \in left : BuildRedirector(x) \/ Assign(x)
  <2>1. /\ conf' = conf
        /\ pc' \in {"redirectors", "assign", "built"}
        /\ pc \in {"redirectors", "assign"} \/ (pc = "groups" /\ left = {})
    BY <1>8 DEF FindFallback, RedirectorsBuilt, Built, BuildRedirector, Assign, Proceed,
                Abort, Panic, GiveUp
  <2>2. Done' = Done
    BY <2>1 DEF Done, Visited, InGroup, AtGroups, GroupsDone
  <2> QED
    BY <2>1, <2>2, RulesCompiledKept
<1>9. CASE UNCHANGED vars
  <2>1. UNCHANGED <<conf, pc, left, reading, at, building>>
    BY <1>9 DEF vars
  <2>2. Done' = Done
    BY <2>1 DEF Done, Visited, InGroup, AtGroups, GroupsDone
  <2> QED
    BY <2>1, <2>2 DEF RulesCompiled, NoneBroken, Breaks
<1> QED
  BY <1>1, <1>2, <1>3, <1>4, <1>5, <1>6, <1>7, <1>8, <1>9 DEF Next

\* No group with a broken rule is ever built, as a fact about every behaviour.
LEMMA RulesCompiledAlways == Spec => []RulesCompiled
<1>1. Init => RulesCompiled
  BY RulesCompiledInit
<1>2. Typed /\ RulesCompiled /\ [Next]_vars => RulesCompiled'
  BY RulesCompiledStep
<1> QED
  BY <1>1, <1>2, TypedAlways, PTL DEF Spec

\* What a matcher says of a domain is what the lines of the group say: the most
\* specific rule, of several the last, and a wildcard only without any, for every
\* set of configurations.
THEOREM MostSpecific == Spec => []MostSpecificRuleWins
<1>1. Typed /\ GroupsChecked /\ RulesHeld => MostSpecificRuleWins
  <2> SUFFICES ASSUME Typed, GroupsChecked, RulesHeld, pc = "built",
                      NEW g \in conf.groups, NEW domain \in Domains
               PROVE  Match(groups[g.name].matcher, domain) = Decision(RulesOf(g), domain)
    BY DEF MostSpecificRuleWins
  <2>1. conf \in Confs /\ Done = conf.groups /\ GroupsDone
    BY DEF Typed, Progress, Done, Visited, InGroup, AtGroups, GroupsDone
  <2>2. g.name \in DOMAIN groups
    BY <2>1 DEF Typed, Progress, NamesOf
  <2>3. IsMatcher(groups[g.name].matcher)
    BY <2>2 DEF Typed, TypeOK
  <2>4. RulesOf(g) \in Seq(RuleLine)
    <3>1. g.rules \in Seq(RuleLine) /\ g.rulesFile \in {NoFile, Unreadable} \cup Seq(RuleLine)
      BY <2>1, ConfType
    <3>2. g.rulesFile # Unreadable
      BY <2>1 DEF GroupsChecked
    <3> QED
      BY <3>1, <3>2 DEF RulesOf
  <2>5. Holds(groups[g.name].matcher, RulesOf(g), Len(RulesOf(g)))
    BY <2>1 DEF RulesHeld
  <2> QED
    BY <2>3, <2>4, <2>5, MatchDecides
<1> QED
  BY <1>1, TypedAlways, GroupsCheckedAlways, RulesHeldAlways, PTL

(***************************************************************************)
(* The rest of newHandle, and its verdict.                                 *)
(***************************************************************************)
\* What the flag of BuildGroups marks is what the configuration asks for.
LEMMA FallbacksAre == Fallbacks = {g \in conf.groups : Fallback(g)}
  BY DEF Fallbacks, Fallback, IsEmptyRule, IsSetGFWList

\* When newHandle looks for the fallback group, every group is built.
LEMMA AllBuilt ==
  ASSUME Typed, GroupsChecked, pc = "groups", left = {}
  PROVE  /\ conf \in Confs /\ DOMAIN groups = NamesOf(conf.groups)
         /\ \A g \in conf.groups : groups[g.name].fallback = Fallback(g)
         /\ \A g, h \in conf.groups : Fallback(g) /\ Fallback(h) => g = h
<1>1. AtGroups /\ Visited = conf.groups /\ Done = conf.groups
  BY DEF AtGroups, InGroup, Visited, Done
<1> QED
  BY <1>1 DEF Typed, Progress, GroupsChecked

\* The names of the groups can be counted, and so listed.
LEMMA FinitelyMany ==
  ASSUME conf \in Confs
  PROVE  Cardinality(NamesOf(conf.groups)) \in Nat
<1> DEFINE f == [g \in conf.groups |-> g.name]
<1>1. f \in Surjection(conf.groups, NamesOf(conf.groups))
  BY DEF Surjection, NamesOf
<1>2. IsFiniteSet(conf.groups)
  BY ConfType
<1>3. IsFiniteSet(NamesOf(conf.groups))
  BY <1>1, <1>2, FS_Surjection
<1> QED
  BY <1>3, FS_CardinalityType

\* In a list that is sorted the fallback group comes last.
LEMMA FallbackLast ==
  ASSUME Typed, GroupsChecked, pc = "groups", left = {},
         NEW s \in Sorted(DOMAIN groups), NEW g \in conf.groups, Fallback(g)
  PROVE  Last(s) = g.name
<1> DEFINE n == Cardinality(DOMAIN groups)
<1>1. /\ conf \in Confs /\ DOMAIN groups = NamesOf(conf.groups)
      /\ \A h \in conf.groups : groups[h.name].fallback = Fallback(h)
      /\ \A h, k \in conf.groups : Fallback(h) /\ Fallback(k) => h = k
  BY AllBuilt
<1>2. n \in Nat
  BY <1>1, FinitelyMany
<1>3. s \in [1..n -> DOMAIN groups] /\ ToSet(s) = DOMAIN groups
  BY DEF Sorted
<1>4. Len(s) = n /\ DOMAIN s = 1..n
  BY <1>2, <1>3
<1>5. PICK j \in 1..n : s[j] = g.name
  <2>1. g.name \in ToSet(s)
    BY <1>1, <1>3 DEF NamesOf
  <2> QED
    BY <1>4, <2>1 DEF ToSet
<1> HIDE DEF n
<1>6. n \in 1..n /\ j <= n
  BY <1>2, <1>5
<1>7. ASSUME j # n PROVE FALSE
  <2>1. TriedBefore(g.name, s[n])
    BY <1>2, <1>4, <1>5, <1>6, <1>7, SortedType
  <2>2. PICK h \in conf.groups : s[n] = h.name
    BY <1>1, <1>3, <1>6 DEF NamesOf
  <2>3. CASE h = g
    BY <1>1, <2>1, <2>2, <2>3, ConfType DEF TriedBefore
  <2>4. CASE h # g
    <3>1. groups[g.name].fallback = TRUE /\ groups[h.name].fallback = FALSE
      BY <1>1, <2>4
    <3> QED
      BY <2>1, <2>2, <3>1 DEF TriedBefore
  <2> QED
    BY <2>3, <2>4
<1> QED
  BY <1>4, <1>5, <1>7 DEF Last

\* Nothing is checked at the start.
LEMMA RestCheckedInit == Init => RestChecked
  BY DEF Init, RestChecked, GroupsDone, RedirectorsDone

\* Every step keeps the list and the redirectors true to the configuration.
LEMMA RestCheckedStep == Typed /\ GroupsChecked /\ RestChecked /\ [Next]_vars => RestChecked'
<1> SUFFICES ASSUME Typed, GroupsChecked, RestChecked, [Next]_vars PROVE RestChecked'
  OBVIOUS
<1> USE DEF GivesUp, loopVars, hostVars, groupVars, listVars, redirVars
<1>0. TypeOK /\ Progress /\ conf \in Confs
  BY DEF Typed, Progress
<1>1. CASE pc' \notin {"redirectors", "assign", "built"}
  BY <1>1 DEF RestChecked, GroupsDone, RedirectorsDone
<1>2. CASE FindFallback /\ pc' \notin {"failed", "panicked"}
  <2>1. /\ pc = "groups" /\ left = {} /\ pc' = "redirectors" /\ left' = conf.redirectors
        /\ conf' = conf /\ groupList' \in Sorted(DOMAIN groups) /\ fallbackGroup' # {}
        /\ fallbackGroup' = {n \in DOMAIN groups : groups[n].fallback}
    BY <1>2 DEF FindFallback
  <2>2. /\ DOMAIN groups = NamesOf(conf.groups)
        /\ \A g \in conf.groups : groups[g.name].fallback = Fallback(g)
        /\ \A g, h \in conf.groups : Fallback(g) /\ Fallback(h) => g = h
    BY <2>1, AllBuilt
  <2>3. PICK f \in conf.groups : Fallback(f)
    BY <2>1, <2>2 DEF NamesOf
  <2>4. Fallbacks = {f}
    BY <2>2, <2>3, FallbacksAre
  <2>5. fallbackGroup' = {f.name}
    <3>1. \A n : n \in fallbackGroup' <=> \E g \in conf.groups : n = g.name /\ Fallback(g)
      BY <2>1, <2>2 DEF NamesOf
    <3> QED
      BY <2>2, <2>3, <3>1
  <2>6. Last(groupList') = f.name
    BY <2>1, <2>3, FallbackLast
  <2>7. ToSet(groupList') = NamesOf(conf.groups)
    BY <2>1, <2>2, SortedType
  <2>8. Fallbacks' = Fallbacks
    BY <2>1 DEF Fallbacks
  <2>9. NamesOf(Fallbacks) = {f.name}
    BY <2>4 DEF NamesOf
  <2>10. RedirectorsDone' = {}
    BY <2>1 DEF RedirectorsDone
  <2> QED
    BY <2>1, <2>3, <2>4, <2>5, <2>6, <2>7, <2>8, <2>9, <2>10 DEF RestChecked
<1>3. ASSUME NEW r \in left, BuildRedirector(r), pc' \notin {"failed", "panicked"} PROVE RestChecked'
  <2>1. /\ pc = "redirectors" /\ pc' = pc /\ Usable(r) /\ left' = left \ {r}
        /\ UNCHANGED <<conf, groupList, fallbackGroup, groups>>
    BY <1>3 DEF BuildRedirector, Abort, Panic, GiveUp
  <2>2. GroupsDone /\ RedirectorsDone' \subseteq RedirectorsDone \cup {r}
    BY <2>1 DEF GroupsDone, RedirectorsDone
  <2>3. DOMAIN groups = NamesOf(conf.groups)
    BY <1>0, <2>1 DEF Progress, Done, Visited, InGroup, AtGroups, GroupsDone
  <2>4. KnownType(r) /\ r.sound /\ r.dst \in NamesOf(conf.groups)
    BY <2>1, <2>3 DEF Usable
  <2>5. \A t \in RedirectorsDone' : KnownType(t) /\ t.sound /\ t.dst \in NamesOf(conf.groups)
    BY <2>2, <2>4 DEF RestChecked
  <2>6. Fallbacks' = Fallbacks
    BY <2>1 DEF Fallbacks
  <2> QED
    BY <2>1, <2>2, <2>5, <2>6 DEF RestChecked
<1>4. CASE RedirectorsBuilt
  <2>1. /\ pc = "redirectors" /\ left = {} /\ pc' = "assign"
        /\ left' = {g \in conf.groups : g.redirector # ""}
        /\ UNCHANGED <<conf, groupList, fallbackGroup>>
    BY <1>4 DEF RedirectorsBuilt, Proceed
  <2>2. GroupsDone /\ RedirectorsDone' = RedirectorsDone /\ Fallbacks' = Fallbacks
    BY <2>1 DEF GroupsDone, RedirectorsDone, Fallbacks
  <2> QED
    BY <2>1, <2>2 DEF RestChecked
<1>5. ASSUME NEW g \in left, Assign(g), pc' \notin {"failed", "panicked"} PROVE RestChecked'
  <2>1. /\ pc = "assign" /\ pc' = pc /\ g.redirector \in DOMAIN redirectors /\ left' = left \ {g}
        /\ UNCHANGED <<conf, groupList, fallbackGroup>>
    BY <1>5 DEF Assign, Abort, Panic, GiveUp
  <2>2. GroupsDone /\ RedirectorsDone' = RedirectorsDone /\ Fallbacks' = Fallbacks
    BY <2>1 DEF GroupsDone, RedirectorsDone, Fallbacks
  <2>3. DOMAIN redirectors = NamesOf(conf.redirectors)
    BY <1>0, <2>1 DEF Progress, RedirectorsDone
  <2> QED
    BY <2>1, <2>2, <2>3 DEF RestChecked
<1>6. CASE Built
  <2>1. /\ pc = "assign" /\ left = {} /\ pc' = "built" /\ left' = {}
        /\ UNCHANGED <<conf, groupList, fallbackGroup>>
    BY <1>6 DEF Built, Proceed
  <2>2. GroupsDone /\ RedirectorsDone' = RedirectorsDone /\ Fallbacks' = Fallbacks
    BY <2>1 DEF GroupsDone, RedirectorsDone, Fallbacks
  <2> QED
    BY <2>1, <2>2 DEF RestChecked
<1>7. CASE UNCHANGED vars
  <2>1. UNCHANGED <<conf, pc, left, groupList, fallbackGroup>>
    BY <1>7 DEF vars
  <2>2. /\ GroupsDone' <=> GroupsDone
        /\ RedirectorsDone' = RedirectorsDone
        /\ Fallbacks' = Fallbacks
    BY <2>1 DEF GroupsDone, RedirectorsDone, Fallbacks
  <2> QED
    BY <2>1, <2>2 DEF RestChecked
<1>8. CASE /\ pc' \in {"redirectors", "assign", "built"}
           /\ \/ CheckTypes \/ OpenFile \/ AddHost \/ HostsRead \/ MakeCache
              \/ AddRule \/ OpenRulesFile \/ RulesRead \/ AddGroup
              \/ \E x \in left : LoadHosts(x) \/ BuildGroup(x)
  BY <1>8 DEF CheckTypes, OpenFile, AddHost, HostsRead, MakeCache, AddRule, OpenRulesFile,
              RulesRead, AddGroup, LoadHosts, BuildGroup, Proceed, Abort, Panic, GiveUp
<1> QED
  BY <1>1, <1>2, <1>3, <1>4, <1>5, <1>6, <1>7, <1>8 DEF Next

\* The list and the redirectors, as a fact about every behaviour.
LEMMA RestCheckedAlways == Spec => []RestChecked
<1>1. Init => RestChecked
  BY RestCheckedInit
<1>2. Typed /\ GroupsChecked /\ RestChecked /\ [Next]_vars => RestChecked'
  BY RestCheckedStep
<1> QED
  BY <1>1, <1>2, TypedAlways, GroupsCheckedAlways, PTL DEF Spec

\* Whatever step returns an error, it met something that a valid configuration
\* does not have.
Refuted == pc = "failed" => ~Valid

\* A group refused is the second of its kind, in whatever order they come.
LEMMA RefusedTwice ==
  ASSUME Typed, GroupsChecked, pc = "groups", NEW g \in left, Refused(g)
  PROVE  ~Valid
<1>1. AtGroups /\ g \in conf.groups /\ g \notin Visited /\ Visited \subseteq conf.groups
  BY DEF Typed, TypeOK, AtGroups, Visited
<1>2. CASE Fallback(g) /\ seenFallback
  <2>1. PICK h \in Visited : Fallback(h)
    BY <1>1, <1>2 DEF GroupsChecked
  <2>2. g \in Fallbacks /\ h \in Fallbacks /\ g # h
    BY <1>1, <1>2, <2>1, FallbacksAre
  <2>3. ~\E f \in conf.groups : Fallbacks = {f}
    BY <2>2
  <2> QED
    BY <2>3 DEF Valid
<1>3. CASE IsSetGFWList(g) /\ seenGFWList
  <2>1. PICK h \in Visited : h.gfwlist
    BY <1>1, <1>3 DEF GroupsChecked
  <2>2. g.gfwlist /\ h.gfwlist /\ g # h /\ h \in conf.groups
    BY <1>1, <1>3, <2>1 DEF IsSetGFWList
  <2>3. ~\A f, k \in conf.groups : f.gfwlist /\ k.gfwlist => f = k
    BY <1>1, <2>2
  <2> QED
    BY <2>3 DEF Valid
<1> QED
  BY <1>2, <1>3 DEF Refused

\* Every error names something that no valid configuration has.
LEMMA RefutedStep ==
  Typed /\ HostsLoaded /\ GroupsChecked /\ RestChecked /\ Refuted /\ [Next]_vars => Refuted'
<1> SUFFICES ASSUME Typed, HostsLoaded, GroupsChecked, RestChecked, Refuted, [Next]_vars,
                    pc' = "failed"
             PROVE  ~Valid'
  BY DEF Refuted
<1> USE DEF GivesUp, loopVars, hostVars, groupVars, listVars, redirVars
<1>0. TypeOK /\ Progress /\ conf \in Confs
  BY DEF Typed, Progress
<1>1. conf' = conf
  BY DEF Next, CheckTypes, OpenFile, AddHost, HostsRead, MakeCache, AddRule, OpenRulesFile,
         RulesRead, AddGroup, LoadHosts, BuildGroup, FindFallback, BuildRedirector,
         RedirectorsBuilt, Assign, Built, Proceed, Abort, Panic, GiveUp, vars
<1>2. Valid' <=> Valid
  BY <1>1 DEF Valid, AllPairs, Fallbacks, Breaks
<1>3. CASE CheckTypes
  BY <1>2, <1>3 DEF CheckTypes, Proceed, Valid
<1>4. CASE OpenFile
  <2>1. /\ files < Len(conf.hostsFiles) /\ files \in Nat
        /\ conf.hostsFiles[files + 1] = Unreadable
    BY <1>0, <1>4, FilesType DEF OpenFile, TypeOK
  <2>2. files + 1 \in 1..Len(conf.hostsFiles)
    BY <1>0, <2>1, FilesType
  <2> QED
    BY <1>2, <2>1, <2>2 DEF Valid
<1>5. CASE AddHost
  <2>1. pc = "hosts" /\ at < Len(reading) /\ ~Parses(reading[at + 1])
    BY <1>5 DEF AddHost
  <2>2. reading \in Seq(Pair) /\ at \in Nat
    BY <1>0, <2>1 DEF TypeOK, Progress
  <2>3. at + 1 \in 1..Len(reading)
    BY <2>1, <2>2
  <2>4. reading[at + 1] \in AllPairs
    BY <2>1, <2>3 DEF HostsLoaded
  <2> QED
    BY <1>2, <2>1, <2>4 DEF Valid, Parses
<1>6. CASE MakeCache
  <2>1. Given(conf.minTTL, DefaultMinTTL) > Given(conf.maxTTL, DefaultMaxTTL)
    BY <1>6 DEF MakeCache, Proceed
  <2>2. /\ Given(conf.minTTL, DefaultMinTTL) \in Int
        /\ Given(conf.maxTTL, DefaultMaxTTL) \in Int
    BY <1>0, ConfsAssumption, TTLAssumption DEF Given
  <2>3. ~(Given(conf.minTTL, DefaultMinTTL) <= Given(conf.maxTTL, DefaultMaxTTL))
    BY <2>1, <2>2
  <2> QED
    BY <1>2, <2>3 DEF Valid
<1>7. ASSUME NEW g \in left, BuildGroup(g) PROVE ~Valid'
  <2>1. pc = "groups" /\ (Refused(g) \/ ~g.sound)
    BY <1>7 DEF BuildGroup
  <2>2. g \in conf.groups
    BY <1>0, <2>1 DEF TypeOK
  <2>3. CASE ~g.sound
    BY <1>2, <2>2, <2>3 DEF Valid
  <2> QED
    BY <1>2, <2>1, <2>3, RefusedTwice
<1>8. CASE OpenRulesFile \/ AddGroup
  <2>1. /\ building \in conf.groups
        /\ building.rulesFile = Unreadable \/ ~building.sound
    BY <1>0, <1>8 DEF OpenRulesFile, AddGroup, Panic, GiveUp, TypeOK
  <2> QED
    BY <1>2, <2>1 DEF Valid
<1>9. CASE FindFallback
  <2>1. /\ pc = "groups" /\ left = {}
        /\ {n \in DOMAIN groups : groups[n].fallback} = {}
    BY <1>9 DEF FindFallback
  <2>2. /\ DOMAIN groups = NamesOf(conf.groups)
        /\ \A g \in conf.groups : groups[g.name].fallback = Fallback(g)
    BY <2>1, AllBuilt
  <2>3. Fallbacks = {}
    BY <2>1, <2>2, FallbacksAre DEF NamesOf
  <2> QED
    BY <1>2, <2>3 DEF Valid
<1>10. ASSUME NEW r \in left, BuildRedirector(r) PROVE ~Valid'
  <2>1. pc = "redirectors" /\ ~Usable(r)
    BY <1>10 DEF BuildRedirector
  <2>2. r \in conf.redirectors
    BY <1>0, <2>1 DEF TypeOK
  <2>3. DOMAIN groups = NamesOf(conf.groups)
    BY <1>0, <2>1 DEF Progress, Done, Visited, InGroup, AtGroups, GroupsDone
  <2> QED
    BY <1>2, <2>1, <2>2, <2>3 DEF Valid, Usable
<1>11. ASSUME NEW g \in left, Assign(g) PROVE ~Valid'
  <2>1. pc = "assign" /\ g.redirector \notin DOMAIN redirectors
    BY <1>11 DEF Assign
  <2>2. g \in conf.groups /\ g.redirector # ""
    BY <1>0, <2>1 DEF TypeOK, RestChecked
  <2>3. DOMAIN redirectors = NamesOf(conf.redirectors)
    BY <1>0, <2>1 DEF Progress, RedirectorsDone
  <2> QED
    BY <1>2, <2>1, <2>2, <2>3 DEF Valid
<1>12. CASE UNCHANGED vars
  BY <1>2, <1>12 DEF vars, Refuted
<1>13. CASE HostsRead \/ AddRule \/ RulesRead \/ RedirectorsBuilt \/ Built
            \/ \E entry \in left : LoadHosts(entry)
  BY <1>0, <1>13 DEF HostsRead, AddRule, RulesRead, RedirectorsBuilt, Built, LoadHosts, Proceed,
                     Panic, GiveUp
<1> QED
  BY <1>3, <1>4, <1>5, <1>6, <1>7, <1>8, <1>9, <1>10, <1>11, <1>12, <1>13 DEF Next

\* Whatever step panics, it met a broken rule.
BrokenMet == pc = "panicked" => \E g \in conf.groups : Breaks(g)

\* Only a broken rule ends the process: one of the section, of the file of rules or
\* of the list file (adblock.go:127, 141).
LEMMA BrokenMetStep == Typed /\ BrokenMet /\ [Next]_vars => BrokenMet'
<1> SUFFICES ASSUME Typed, BrokenMet, [Next]_vars, pc' = "panicked"
             PROVE  \E g \in conf'.groups : Breaks(g)
  BY DEF BrokenMet, Breaks
<1> USE DEF GivesUp, loopVars, hostVars, groupVars, listVars, redirVars
<1>0. TypeOK /\ Progress /\ conf \in Confs
  BY DEF Typed, Progress
<1>1. conf' = conf
  BY DEF Next, CheckTypes, OpenFile, AddHost, HostsRead, MakeCache, AddRule, OpenRulesFile,
         RulesRead, AddGroup, LoadHosts, BuildGroup, FindFallback, BuildRedirector,
         RedirectorsBuilt, Assign, Built, Proceed, Abort, Panic, GiveUp, vars
<1>2. CASE AddRule
  <2>1. /\ pc \in {"section", "file"} /\ at < Len(reading) /\ reading[at + 1].kind = "broken"
    BY <1>2 DEF AddRule
  <2>2. at + 1 \in 1..Len(reading) /\ building \in conf.groups
    BY <2>1, LinesRead
  <2>3. HasBroken(reading)
    BY <2>1, <2>2 DEF HasBroken
  <2>4. Breaks(building)
    BY <1>0, <2>1, <2>3 DEF Progress, Breaks
  <2> QED
    BY <1>1, <2>2, <2>4
<1>3. CASE AddGroup
  <2>1. building \in conf.groups /\ building.malformed
    BY <1>0, <1>3 DEF AddGroup, Abort, GiveUp, TypeOK
  <2> QED
    BY <1>1, <2>1 DEF Breaks
<1>4. CASE UNCHANGED vars
  BY <1>4 DEF vars, BrokenMet
<1>5. CASE CheckTypes \/ OpenFile \/ AddHost \/ HostsRead \/ MakeCache \/ OpenRulesFile
           \/ RulesRead \/ FindFallback \/ RedirectorsBuilt \/ Built
           \/ \E x \in left : LoadHosts(x) \/ BuildGroup(x) \/ BuildRedirector(x) \/ Assign(x)
  BY <1>0, <1>5 DEF CheckTypes, OpenFile, AddHost, HostsRead, MakeCache, OpenRulesFile, RulesRead,
           FindFallback, RedirectorsBuilt, Built, LoadHosts, BuildGroup, BuildRedirector, Assign,
           Proceed, Abort, GiveUp, TypeOK
<1> QED
  BY <1>2, <1>3, <1>4, <1>5 DEF Next

\* What was built passed every check, and no rule of it is broken.
LEMMA BuiltIsValid ==
  ASSUME Typed, HostsLoaded, GroupsChecked, RestChecked, RulesCompiled, pc = "built"
  PROVE  Valid
<1>1. /\ HostsDone /\ GroupsDone /\ Visited = conf.groups /\ Done = conf.groups
      /\ RedirectorsDone = conf.redirectors /\ left = {}
  BY DEF HostsDone, GroupsDone, Visited, Done, InGroup, AtGroups, RedirectorsDone, Typed, TypeOK
<1>2. conf.qtypes /\ \A k \in 1..Len(conf.hostsFiles) : conf.hostsFiles[k] # Unreadable
  BY <1>1 DEF HostsLoaded
<1>3. ASSUME NEW pair \in AllPairs PROVE pair.ip # BadIP
  <2>1. pair.key \in Keys
    <3>1. conf \in Confs
      BY DEF Typed, Progress
    <3>2. CASE \E entry \in conf.hosts : pair \in ToSet(entry)
      <4>1. PICK entry \in conf.hosts : pair \in ToSet(entry)
        BY <3>2
      <4>2. entry \in Seq(Pair)
        BY <3>1, <4>1, ConfType
      <4>3. pair \in Pair
        BY <4>1, <4>2 DEF ToSet
      <4> QED
        BY <4>3 DEF Pair
    <3>3. CASE \E k \in 1..Len(conf.hostsFiles) :
                 conf.hostsFiles[k] # Unreadable /\ pair \in ToSet(conf.hostsFiles[k])
      <4>1. PICK k \in 1..Len(conf.hostsFiles) :
              conf.hostsFiles[k] # Unreadable /\ pair \in ToSet(conf.hostsFiles[k])
        BY <3>3
      <4>2. conf.hostsFiles[k] \in Seq(Pair)
        BY <3>1, <4>1, FilesType
      <4>3. pair \in Pair
        BY <4>1, <4>2 DEF ToSet
      <4> QED
        BY <4>3 DEF Pair
    <3> QED
      BY <3>1, <3>2, <3>3, PairsOf
  <2>2. pair.ip \in ToSet(table[pair.key])
    BY <1>1 DEF HostsLoaded, InTable
  <2>3. table[pair.key] \in Seq(Address)
    BY <2>1 DEF Typed, TypeOK
  <2>4. pair.ip \in Address
    BY <2>2, <2>3 DEF ToSet
  <2> QED
    BY <2>4, FilesAssumption
<1>4. /\ Given(conf.minTTL, DefaultMinTTL) <= Given(conf.maxTTL, DefaultMaxTTL)
      /\ \A g, h \in conf.groups : g.gfwlist /\ h.gfwlist => g = h
      /\ \A g \in conf.groups : g.sound /\ g.rulesFile # Unreadable
  BY <1>1 DEF GroupsChecked
<1>5. /\ \E g \in conf.groups : Fallbacks = {g}
      /\ \A r \in conf.redirectors : KnownType(r) /\ r.sound /\ r.dst \in NamesOf(conf.groups)
      /\ \A g \in conf.groups : g.redirector \in NamesOf(conf.redirectors) \cup {""}
  BY <1>1 DEF RestChecked
<1>6. \A g \in conf.groups : ~Breaks(g)
  BY <1>1 DEF RulesCompiled
<1> QED
  BY <1>2, <1>3, <1>4, <1>5, <1>6 DEF Valid

\* A handler is built from a configuration that is valid and from no other, in
\* whatever order its maps are walked, and its last group is the fallback group; an
\* error means that the configuration is not valid, and the process ends by a panic
\* only at a broken rule, for every set of configurations.
THEOREM VerdictCorrect == Spec => []VerdictAsConfigured
<1>1. Init => Refuted /\ BrokenMet
  BY DEF Init, Refuted, BrokenMet
<1>2. Typed /\ HostsLoaded /\ GroupsChecked /\ RestChecked /\ Refuted /\ [Next]_vars => Refuted'
  BY RefutedStep
<1>3. Typed /\ BrokenMet /\ [Next]_vars => BrokenMet'
  BY BrokenMetStep
<1>4. /\ Typed /\ HostsLoaded /\ GroupsChecked /\ RestChecked /\ RulesCompiled
      /\ Refuted /\ BrokenMet
      => VerdictAsConfigured
  BY BuiltIsValid DEF VerdictAsConfigured, Refuted, BrokenMet, RestChecked, GroupsDone
<1> QED
  BY <1>1, <1>2, <1>3, <1>4, TypedAlways, HostsLoadedAlways, GroupsCheckedAlways,
     RestCheckedAlways, RulesCompiledAlways, PTL DEF Spec

(***************************************************************************)
(* What the query pipeline takes for granted.                              *)
(***************************************************************************)

\* The list stays as it was sorted, and no group is added behind it.
ListSorted == GroupsDone => groupList \in Sorted(DOMAIN groups)

\* What a query relies on, wherever the handler came from: there is one fallback group
\* and it is among the groups, at most one has the GFW list, the list has each
\* group once, in the order in which they are to be tried, and whoever is redirected
\* is redirected to a group that exists.
HandlerFits ==
    pc = "built" =>
      /\ DOMAIN groups \subseteq Nat
      /\ \E f \in DOMAIN groups : \A n \in DOMAIN groups : groups[n].fallback <=> n = f
      /\ \A n, k \in DOMAIN groups : groups[n].gfwlist /\ groups[k].gfwlist => n = k
      /\ Len(groupList) = Cardinality(DOMAIN groups) /\ ToSet(groupList) = DOMAIN groups
      /\ \A i, j \in 1..Len(groupList) : i < j => TriedBefore(groupList[i], groupList[j])
      /\ \A n \in DOMAIN group2redir :
           n \in DOMAIN groups /\ redirectors[group2redir[n]].dst \in DOMAIN groups

\* Only FindFallback makes the list, of the groups there are.
LEMMA ListSortedStep == ListSorted /\ [Next]_vars => ListSorted'
<1> SUFFICES ASSUME ListSorted, [Next]_vars PROVE ListSorted'
  OBVIOUS
<1> USE DEF GivesUp, loopVars, hostVars, groupVars, listVars, redirVars
<1>0. groups' = groups => Sorted(DOMAIN groups)' = Sorted(DOMAIN groups)
  BY DEF Sorted, TriedBefore
<1>1. CASE ~GroupsDone'
  BY <1>1 DEF ListSorted
<1>2. CASE FindFallback
  BY <1>0, <1>2 DEF FindFallback, ListSorted
<1>3. CASE GroupsDone /\ UNCHANGED <<groups, groupList>>
  BY <1>0, <1>3 DEF ListSorted
<1>4. CASE UNCHANGED vars
  BY <1>3, <1>4 DEF vars, GroupsDone, ListSorted
<1>5. CASE Next /\ GroupsDone' /\ ~FindFallback
  <2>1. RedirectorsBuilt \/ Built \/ \E x \in left : BuildRedirector(x) \/ Assign(x)
    BY <1>5 DEF Next, GroupsDone, CheckTypes, OpenFile, AddHost, HostsRead, MakeCache, AddRule,
                OpenRulesFile, RulesRead, AddGroup, LoadHosts, BuildGroup, Proceed, Abort, Panic, GiveUp
  <2>2. GroupsDone /\ UNCHANGED <<groups, groupList>>
    BY <2>1 DEF RedirectorsBuilt, Built, BuildRedirector, Assign, Proceed, Abort, Panic, GiveUp, GroupsDone
  <2> QED
    BY <1>3, <2>2
<1> QED
  BY <1>1, <1>2, <1>4, <1>5

\* The handler that newHandle returns is one that handle() can work with: what is
\* assumed in QueryPipeline and in its theorem LoopTakesMatched holds of it, whatever the
\* configuration was.
THEOREM HandlerFitsPipeline == Spec => []HandlerFits
<1>1. Init => ListSorted
  BY DEF Init, ListSorted, GroupsDone
<1>2. ListSorted /\ [Next]_vars => ListSorted'
  BY ListSortedStep
<1>3. Typed /\ GroupsChecked /\ RestChecked /\ ListSorted => HandlerFits
  <2> SUFFICES ASSUME Typed, GroupsChecked, RestChecked, ListSorted, pc = "built"
               PROVE  HandlerFits
    BY DEF HandlerFits
  <2>1. conf \in Confs /\ GroupsDone /\ Visited = conf.groups /\ Done = conf.groups
    BY DEF Typed, Progress, GroupsDone, Visited, Done, InGroup, AtGroups
  <2>2. DOMAIN groups = NamesOf(conf.groups)
    BY <2>1 DEF Typed, Progress
  <2>3. \A g \in conf.groups :
          /\ g.name \in DOMAIN groups
          /\ groups[g.name].fallback = Fallback(g) /\ groups[g.name].gfwlist = g.gfwlist
    BY <2>1, <2>2 DEF GroupsChecked, NamesOf
  <2>4. DOMAIN groups \subseteq Nat
    BY <2>1, <2>2, ConfType DEF NamesOf
  <2>5. \E f \in DOMAIN groups : \A n \in DOMAIN groups : groups[n].fallback <=> n = f
    <3>1. PICK g \in conf.groups : Fallbacks = {g}
      BY <2>1 DEF RestChecked
    <3>2. \A h \in conf.groups : Fallback(h) <=> h = g
      BY <3>1, FallbacksAre
    <3>3. ASSUME NEW n \in DOMAIN groups PROVE groups[n].fallback <=> n = g.name
      <4>1. PICK h \in conf.groups : n = h.name
        BY <2>2 DEF NamesOf
      <4>2. h = g <=> n = g.name
        BY <2>1, <4>1, ConfType
      <4> QED
        BY <2>3, <3>2, <4>1, <4>2
    <3> QED
      BY <2>3, <3>3
  <2>6. ASSUME NEW n \in DOMAIN groups, NEW k \in DOMAIN groups,
               groups[n].gfwlist, groups[k].gfwlist
        PROVE  n = k
    <3>1. PICK g \in conf.groups : n = g.name
      BY <2>2 DEF NamesOf
    <3>2. PICK h \in conf.groups : k = h.name
      BY <2>2 DEF NamesOf
    <3>3. g.gfwlist /\ h.gfwlist
      BY <2>3, <2>6, <3>1, <3>2
    <3> QED
      BY <2>1, <3>1, <3>2, <3>3 DEF GroupsChecked
  <2>7. groupList \in Sorted(DOMAIN groups)
    BY <2>1 DEF ListSorted
  <2>8. Len(groupList) = Cardinality(DOMAIN groups) /\ DOMAIN groupList = 1..Len(groupList)
    <3>1. Cardinality(DOMAIN groups) \in Nat
      BY <2>1, <2>2, FinitelyMany
    <3>2. groupList \in [1..Cardinality(DOMAIN groups) -> DOMAIN groups]
      BY <2>7 DEF Sorted
    <3> QED
      BY <3>1, <3>2
  <2>9. /\ ToSet(groupList) = DOMAIN groups
        /\ \A i, j \in 1..Len(groupList) : i < j => TriedBefore(groupList[i], groupList[j])
    BY <2>7, <2>8, SortedType
  <2>10. \A n \in DOMAIN group2redir :
           n \in DOMAIN groups /\ redirectors[group2redir[n]].dst \in DOMAIN groups
    BY DEF Typed, TypeOK
  <2> QED
    BY <2>4, <2>5, <2>6, <2>8, <2>9, <2>10 DEF HandlerFits
<1> QED
  BY <1>1, <1>2, <1>3, TypedAlways, GroupsCheckedAlways, RestCheckedAlways, PTL DEF Spec
==============================================================================
