------------------------------- MODULE Hosts -------------------------------
(***************************************************************************)
(* hosts/hosts.go: the addresses configured for names and for patterns.    *)
(*                                                                         *)
(* Names are in lower case, with or without the final dot: a question      *)
(* always has it, an entry usually has not.  A pattern is one of Patterns, *)
(* known by the names its regular expression matches.  An address is known *)
(* by its text, as containsIP compares it: two spellings of one address    *)
(* are two addresses here.                                                 *)
(***************************************************************************)
EXTENDS Naturals, Sequences, SequencesExt

CONSTANTS
    Names,          \* names, with and without the final dot
    Bare,           \* the name without its final dot
    Patterns,
    Covers,         \* the names a pattern matches
    Length,         \* the length of its regular expression
    Place,          \* its place in the alphabet
    Address,        \* texts that net.ParseIP accepts
    TypeOf,         \* "A" or "AAAA", as buildIPInfo tells them apart
    Writable        \* those of which dns.NewRR makes a record of this type

ASSUME BareAssumption == Bare \in [Names -> Names]
ASSUME PatternsAssumption ==
    /\ Patterns \cap Names = {}
    /\ Covers \in [Patterns -> SUBSET Names]
    /\ Length \in [Patterns -> Nat] /\ Place \in [Patterns -> Nat]
    /\ \A p, r \in Patterns : Place[p] = Place[r] => p = r
    /\ Patterns # {} => \E p \in Patterns : \A r \in Patterns : Length[r] <= Length[p]

\* An IPv6 text of an IPv4 address, such as ::ffff:1.2.3.4, is typed A and then
\* not writable as an A record.
ASSUME AddressAssumption == TypeOf \in [Address -> {"A", "AAAA"}] /\ Writable \subseteq Address

Keys == Names \cup Patterns

\* domainMap and patternMap in one: a key without addresses has no entry.
EmptyTable == [key \in Keys |-> <<>>]

\* addDomainIP, addPatternIP.
AddIP(table, key, ip) ==
    IF ip \in ToSet(table[key]) THEN table ELSE [table EXCEPT ![key] = Append(@, ip)]

\* The longer pattern comes first, then the alphabet decides.
AlphabetOnly(p, r) == Place[p] < Place[r]
Before(p, r) == Length[p] > Length[r] \/ (Length[p] = Length[r] /\ Place[p] < Place[r])

\* getIPs: the entry of the name itself, or of the first pattern that matches.
Matching(table, name) == {p \in Patterns : table[p] # <<>> /\ name \in Covers[p]}
FirstOf(patterns) == CHOOSE p \in patterns : \A r \in patterns \ {p} : Before(p, r)

Lookup(table, name) ==
    IF table[name] # <<>> THEN table[name]
    ELSE IF Matching(table, name) # {} THEN table[FirstOf(Matching(table, name))]
    ELSE <<>>

\* Get: the question's name, then the name without its final dot.  The answer has
\* the addresses of the type that is asked for, known by their places in the entry;
\* one that dns.NewRR refuses is logged and left out.  Without any there is no
\* answer, and the query goes on to the cache and the groups.
Get(table, name, qtype) ==
    LET full == Lookup(table, name)
        ips == IF full # <<>> THEN full ELSE Lookup(table, Bare[name])
    IN  [k \in {j \in DOMAIN ips : TypeOf[ips[j]] = qtype /\ ips[j] \in Writable} |-> ips[k]]
==============================================================================
