------------------------------- MODULE Hijack -------------------------------
(***************************************************************************)
(* The hijack rules of a group (outbound/groups.go processHijackRules,     *)
(* cleanHijackAnswer, replaceDomainSuffix): the question is rewritten rule *)
(* by rule before the upstream sees it, rewritten back in reverse order in *)
(* the reply, and the reply's answer is cleaned of the other name.         *)
(*                                                                         *)
(* A name is a sequence of labels, so that "under a domain" is a suffix of *)
(* whole labels; Lower is the case folding of a label.  Each rule of the   *)
(* two loops is a step.                                                    *)
(***************************************************************************)
EXTENDS Integers, Sequences

CONSTANTS
    Labels,         \* the labels of names
    Lower,          \* a label in lower case
    Names,          \* the names clients ask for
    RuleLists,      \* the hijackRules a group can be configured with
    Replies         \* the answer sections an upstream can send: what is done to one
                    \* depends on neither the order nor the number of its records

Name == Seq(Labels)
Rule == [source : Name, dest : Name]
Types == {"A", "AAAA", "CNAME", "other"}
\* The owner of a record is the name the upstream was asked for, or another
\* one, as at the end of a CNAME chain.
Record == [type : Types, owner : Name]

ASSUME LowerAssumption == Lower \in [Labels -> Labels]
ASSUME NamesAssumption == Names \subseteq Name
\* BuildGroups drops a rule with an empty source or destination.
ASSUME RulesAssumption ==
    RuleLists \subseteq {rs \in Seq(Rule) :
        \A k \in 1..Len(rs) : rs[k].source # <<>> /\ rs[k].dest # <<>>}
ASSUME RepliesAssumption == Replies \subseteq SUBSET Record

VARIABLES
    rules,      \* hijackRules of the group
    asked,      \* the name the client asked for
    qtype,      \* and the type
    dnssec,     \* the reply carries an OPT record with the DO bit
    phase,      \* "forward", "upstream", "backward" and "done"
    j,          \* how many rules have been passed and not passed back
    name,       \* Question[0].Name of the message in hand
    answer,     \* the answer section
    extras,     \* whether authority and additional records accompany it
    trail       \* history: the name before each rule, and after the last

vars == <<rules, asked, qtype, dnssec, phase, j, name, answer, extras, trail>>

(***************************************************************************)
(* replaceDomainSuffix.                                                    *)
(***************************************************************************)

\* strings.EqualFold of two names.
Same(m, n) ==
    Len(m) = Len(n) /\ \A i \in 1..Len(m) : Lower[m[i]] = Lower[n[i]]

\* n is the domain d or a name below it.
Ending(n, k) == SubSeq(n, Len(n) - k + 1, Len(n))
UnderCaseSensitively(n, d) == Len(d) <= Len(n) /\ Ending(n, Len(d)) = d
Under(n, d) == Len(d) <= Len(n) /\ Same(Ending(n, Len(d)), d)

Replace(n, source, dest) ==
    IF Under(n, source) THEN SubSeq(n, 1, Len(n) - Len(source)) \o dest ELSE n

Init ==
    /\ rules \in RuleLists
    /\ asked \in Names
    /\ qtype \in Types \ {"CNAME"}
    /\ dnssec \in BOOLEAN
    /\ phase = "forward"
    /\ j = 0
    /\ name = asked
    /\ answer = {}
    /\ extras = FALSE
    /\ trail = <<asked>>

(***************************************************************************)
(* processHijackRules(req, false): the rules from first to last.           *)
(***************************************************************************)

Forwarded(n, rule) == Replace(n, rule.source, rule.dest)

Forward ==
    /\ phase = "forward" /\ j < Len(rules)
    /\ name' = Forwarded(name, rules[j + 1])
    /\ trail' = Append(trail, name')
    /\ j' = j + 1
    /\ UNCHANGED <<rules, asked, qtype, dnssec, phase, answer, extras>>

Ask ==
    /\ phase = "forward" /\ j = Len(rules)
    /\ phase' = "upstream"
    /\ UNCHANGED <<rules, asked, qtype, dnssec, j, name, answer, extras, trail>>

\* An upstream answers the question it was asked, with the records it likes.
Reply(rrs) ==
    /\ phase = "upstream"
    /\ answer' = rrs
    /\ extras' \in BOOLEAN
    /\ phase' = "backward"
    /\ UNCHANGED <<rules, asked, qtype, dnssec, j, name, trail>>

(***************************************************************************)
(* processHijackRules(resp, true): back through the rules, last to first.  *)
(***************************************************************************)

ForwardOrder == Len(rules) + 1 - j
BackwardOrder == j

BackwardAgain(n, rule) == Replace(n, rule.source, rule.dest)
Backward(n, rule) == Replace(n, rule.dest, rule.source)

Back ==
    /\ phase = "backward" /\ j > 0
    /\ name' = Backward(name, rules[BackwardOrder])
    /\ j' = j - 1
    /\ UNCHANGED <<rules, asked, qtype, dnssec, phase, answer, extras, trail>>

(***************************************************************************)
(* cleanHijackAnswer, reached only by a group that has rules.              *)
(***************************************************************************)

Cleans == rules # <<>> /\ qtype \in {"A", "AAAA"} /\ ~dnssec

\* Records of the type asked for, and their owner is the question's name.
OwnersKept(rrs) == {rr \in rrs : rr.type = qtype}
Cleaned(rrs) == {[type |-> rr.type, owner |-> name] : rr \in {r \in rrs : r.type = qtype}}

Clean ==
    /\ phase = "backward" /\ j = 0
    /\ answer' = IF Cleans THEN Cleaned(answer) ELSE answer
    /\ extras' = (extras /\ ~Cleans)
    /\ phase' = "done"
    /\ UNCHANGED <<rules, asked, qtype, dnssec, j, name, trail>>

Next == Forward \/ Ask \/ (\E rrs \in Replies : Reply(rrs)) \/ Back \/ Clean

Spec == Init /\ [][Next]_vars

(***************************************************************************)
(* Properties.                                                             *)
(***************************************************************************)

\* The type of every variable.
TypeOK ==
    /\ rules \in RuleLists
    /\ asked \in Name /\ name \in Name
    /\ qtype \in Types
    /\ dnssec \in BOOLEAN
    /\ phase \in {"forward", "upstream", "backward", "done"}
    /\ j \in 0..Len(rules)
    /\ answer \subseteq Record
    /\ extras \in BOOLEAN
    /\ trail \in Seq(Name)

\* No rule that left the question alone on the way out claims it on the way
\* back: the question it let pass was not below its destination already.
Reversible ==
    \A k \in 1..Len(rules) :
      LET before == trail[k] IN
        ~Under(before, rules[k].source) => ~Under(before, rules[k].dest)

\* The client gets its own question back, up to the case of letters, when every
\* rule on its way is reversible, however long the chain: groups.go:344 as far
\* as the code keeps it.
RestoredIfReversible ==
    phase = "done" /\ Reversible => Same(name, asked)

\* groups.go:344: going back in reverse order restores chained rules.
QuestionRestored == phase = "done" => Same(name, asked)

\* groups.go:367: a cleaned reply speaks of the question's name only: nothing
\* but records of the type asked for, owned by that name, no CNAME of the name
\* the question was turned into, no authority or additional records.
AnswerSpeaksOfQuestion ==
    phase = "done" /\ rules # <<>> /\ qtype \in {"A", "AAAA"} /\ ~dnssec =>
      /\ answer \subseteq {[type |-> qtype, owner |-> name]}
      /\ ~extras
==============================================================================
