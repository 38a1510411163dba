------------------------------ MODULE Matcher ------------------------------
(***************************************************************************)
(* matcher/adblock.go and trie.go: the rules of a group as a trie of       *)
(* domains, read label by label from the right, and two lists of wildcard  *)
(* rules.                                                                  *)
(*                                                                         *)
(* A domain is a sequence of labels in lower case.  A line of a rule text  *)
(* is                                                                      *)
(*   [kind |-> "domain", domain, block]   a rule for a domain              *)
(*   [kind |-> "wild", covers, block]     a rule with a *, or the form of  *)
(*                                        path that holds an expression,   *)
(*                                        by the domains that it matches   *)
(*   [kind |-> "skip"]                    a comment, a section, another    *)
(*                                        path, or a name without a valid  *)
(*                                        TLD                              *)
(*   [kind |-> "broken"]                  an expression that does not      *)
(*                                        compile, or a path too short to  *)
(*                                        hold one: regexp.MustCompile or  *)
(*                                        the slice panics                 *)
(* where block is FALSE for a line that starts with @@.  A rule with a *   *)
(* is not lowered as a domain is, so one with capital letters covers none. *)
(***************************************************************************)
EXTENDS Naturals, Sequences, SequencesExt

CONSTANTS
    Labels,
    Domains         \* the domains that are asked for

ASSUME DomainsAssumption == Domains \subseteq Seq(Labels)

RuleLine ==
    [kind : {"domain"}, domain : Seq(Labels) \ {<<>>}, block : BOOLEAN]
    \cup [kind : {"wild"}, covers : SUBSET Domains, block : BOOLEAN]
    \cup [kind : {"skip", "broken"}]

\* A rule text that no matcher is made of: NewABPByText does not return.
HasBroken(lines) == \E k \in 1..Len(lines) : lines[k].kind = "broken"

Verdict(block) == IF block THEN "blocked" ELSE "unblocked"

(***************************************************************************)
(* domainTrie: a function from its nodes, each known by the suffix that    *)
(* leads to it.                                                            *)
(***************************************************************************)
NewNode == [isEnd |-> FALSE, isBlock |-> FALSE]
EmptyTrie == [node \in {<<>>} |-> NewNode]

NodeOf(trie, node) == IF node \in DOMAIN trie THEN trie[node] ELSE NewNode

\* A later rule for the same domain replaces the earlier one.
Add(trie, domain, block) ==
    [node \in DOMAIN trie \cup Suffixes(domain) |->
       IF node = domain THEN [isEnd |-> TRUE, isBlock |-> block] ELSE NodeOf(trie, node)]

\* The ends on the way to a domain; Match looks for the longest first.
Ends(trie, domain) ==
    {node \in Suffixes(domain) \ {<<>>} : NodeOf(trie, node).isEnd}
Shortest(nodes) == CHOOSE n \in nodes : \A other \in nodes : Len(n) <= Len(other)
Longest(nodes) == CHOOSE n \in nodes : \A other \in nodes : Len(other) <= Len(n)

\* Walk visits every end in any order and Add puts it into the other trie.
Merged(trie, target) ==
    [node \in DOMAIN trie \cup DOMAIN target |->
       IF NodeOf(target, node).isEnd THEN target[node] ELSE NodeOf(trie, node)]

(***************************************************************************)
(* ABPlus.                                                                 *)
(***************************************************************************)
IsMatcher(m) ==
    /\ m \in [trie : {m.trie}, blocked : Seq(SUBSET Domains), unblocked : Seq(SUBSET Domains)]
    /\ m.trie \in [DOMAIN m.trie -> [isEnd : BOOLEAN, isBlock : BOOLEAN]]
    /\ DOMAIN m.trie \subseteq Seq(Labels)

EmptyMatcher == [trie |-> EmptyTrie, blocked |-> <<>>, unblocked |-> <<>>]

\* One line of NewABPByText; at a broken one the reader of the text panics before
\* anything is made of it.
WithLine(matcher, line) ==
    IF line.kind = "domain"
    THEN [matcher EXCEPT !.trie = Add(matcher.trie, line.domain, line.block)]
    ELSE IF line.kind = "wild" /\ line.block
    THEN [matcher EXCEPT !.blocked = Append(matcher.blocked, line.covers)]
    ELSE IF line.kind = "wild"
    THEN [matcher EXCEPT !.unblocked = Append(matcher.unblocked, line.covers)]
    ELSE matcher

Covered(wildcards, domain) == \E k \in 1..Len(wildcards) : domain \in wildcards[k]

\* The trie first, then the wildcards; joined into one regular expression they
\* match what they match one by one.
Match(matcher, domain) ==
    LET ends == Ends(matcher.trie, domain)
    IN  IF ends # {} THEN Verdict(matcher.trie[Longest(ends)].isBlock)
        ELSE IF Covered(matcher.blocked, domain) THEN "blocked"
        ELSE IF Covered(matcher.unblocked, domain) THEN "unblocked"
        ELSE "none"

Extend(matcher, target) ==
    [trie |-> Merged(matcher.trie, target.trie),
     blocked |-> matcher.blocked \o target.blocked,
     unblocked |-> matcher.unblocked \o target.unblocked]
==============================================================================
