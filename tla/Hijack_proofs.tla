---------------------------- MODULE Hijack_proofs ----------------------------
(***************************************************************************)
(* Proofs about Hijack, for every list of rules, every name and every      *)
(* reply: the type invariant, that a reversible chain of rules gives the   *)
(* question back, and that a cleaned reply speaks of the question only.    *)
(***************************************************************************)
EXTENDS Hijack, SequenceTheorems, TLAPS

(***************************************************************************)
(* Names.                                                                  *)
(***************************************************************************)

LEMMA SameReflexive == ASSUME NEW n \in Name PROVE Same(n, n)
  BY DEF Same

LEMMA SameTransitive ==
  ASSUME NEW l \in Name, NEW m \in Name, NEW n \in Name, Same(l, m), Same(m, n)
  PROVE  Same(l, n)
  BY DEF Same, Name

LEMMA SameSymmetric ==
  ASSUME NEW m \in Name, NEW n \in Name, Same(m, n)
  PROVE  Same(n, m)
  BY DEF Same, Name

\* "Under", label by label.
UnderByLabel(n, d) ==
    /\ Len(d) <= Len(n)
    /\ \A i \in 1..Len(d) : Lower[n[Len(n) - Len(d) + i]] = Lower[d[i]]

LEMMA UnderLabels ==
  ASSUME NEW n \in Name, NEW d \in Name
  PROVE  Under(n, d) <=> UnderByLabel(n, d)
<1>1. CASE Len(d) <= Len(n)
  <2>1. /\ Len(n) \in Nat /\ Len(d) \in Nat
        /\ \A i \in (Len(n) - Len(d) + 1)..Len(n) : n[i] \in Labels
    BY <1>1, LenProperties DEF Name
  <2>2. /\ Len(Ending(n, Len(d))) = Len(d)
        /\ \A i \in 1..Len(d) : Ending(n, Len(d))[i] = n[Len(n) - Len(d) + i]
    BY <1>1, <2>1, SubSeqProperties DEF Ending
  <2> QED
    BY <1>1, <2>2 DEF Under, UnderByLabel, Same
<1>2. CASE ~(Len(d) <= Len(n))
  BY <1>2 DEF Under, UnderByLabel
<1> QED
  BY <1>1, <1>2

\* Whether a name is below a domain does not depend on the case of its letters.
LEMMA UnderIgnoresCase ==
  ASSUME NEW m \in Name, NEW n \in Name, NEW d \in Name, Same(m, n)
  PROVE  Under(m, d) <=> Under(n, d)
<1>1. /\ Len(m) = Len(n) /\ Len(n) \in Nat /\ Len(d) \in Nat
      /\ \A i \in 1..Len(n) : Lower[m[i]] = Lower[n[i]]
  BY LenProperties DEF Same, Name
<1>2. Len(d) <= Len(n) => \A i \in 1..Len(d) : Len(n) - Len(d) + i \in 1..Len(n)
  BY <1>1
<1>3. UnderByLabel(m, d) <=> UnderByLabel(n, d)
  BY <1>1, <1>2 DEF UnderByLabel
<1> QED
  BY <1>3, UnderLabels

LEMMA ConcatLabels ==
  ASSUME NEW f \in Name, NEW d \in Name
  PROVE  /\ f \o d \in Name
         /\ Len(f \o d) = Len(f) + Len(d)
         /\ \A i \in 1..Len(f) : (f \o d)[i] = f[i]
         /\ \A i \in 1..Len(d) : (f \o d)[Len(f) + i] = d[i]
<1>1. Len(f) \in Nat /\ Len(d) \in Nat
  BY LenProperties DEF Name
<1>2. /\ f \o d \in Name
      /\ Len(f \o d) = Len(f) + Len(d)
      /\ \A i \in 1..Len(f) + Len(d) : (f \o d)[i] = IF i <= Len(f) THEN f[i] ELSE d[i - Len(f)]
  BY ConcatProperties DEF Name
<1>3. ASSUME NEW i \in 1..Len(f) PROVE (f \o d)[i] = f[i]
  BY <1>1, <1>2, <1>3
<1>4. ASSUME NEW i \in 1..Len(d) PROVE (f \o d)[Len(f) + i] = d[i]
  <2>1. Len(f) + i \in 1..Len(f) + Len(d) /\ ~(Len(f) + i <= Len(f)) /\ Len(f) + i - Len(f) = i
    BY <1>1
  <2> QED
    BY <1>2, <2>1
<1> QED
  BY <1>2, <1>3, <1>4

\* What a replacement makes of a name below its source, label by label.
LEMMA ReplaceLabels ==
  ASSUME NEW n \in Name, NEW source \in Name, NEW dest \in Name, Under(n, source)
  PROVE  LET r == Replace(n, source, dest)
             kept == Len(n) - Len(source)
         IN  /\ r \in Name
             /\ kept \in Nat /\ kept <= Len(n)
             /\ Len(r) = kept + Len(dest)
             /\ \A i \in 1..kept : r[i] = n[i]
             /\ \A i \in 1..Len(dest) : r[kept + i] = dest[i]
<1> DEFINE kept == Len(n) - Len(source)
           front == SubSeq(n, 1, kept)
<1>1. /\ Len(n) \in Nat /\ Len(source) \in Nat /\ Len(dest) \in Nat
      /\ \A i \in 1..Len(n) : n[i] \in Labels
  BY LenProperties DEF Name
<1>2. kept \in Nat /\ kept <= Len(n)
  BY <1>1 DEF Under
<1>3. /\ front \in Name
      /\ Len(front) = kept
      /\ \A i \in 1..kept : front[i] = n[i]
  BY <1>1, <1>2, SubSeqProperties DEF Name
<1>4. Replace(n, source, dest) = front \o dest
  BY DEF Replace
<1> HIDE DEF front
<1>5. /\ front \o dest \in Name
      /\ Len(front \o dest) = Len(front) + Len(dest)
      /\ \A i \in 1..Len(front) : (front \o dest)[i] = front[i]
      /\ \A i \in 1..Len(dest) : (front \o dest)[Len(front) + i] = dest[i]
  BY <1>3, ConcatLabels
<1>6. /\ Len(front \o dest) = kept + Len(dest)
      /\ \A i \in 1..kept : (front \o dest)[i] = n[i]
      /\ \A i \in 1..Len(dest) : (front \o dest)[kept + i] = dest[i]
  BY <1>3, <1>5
<1> QED
  BY <1>2, <1>4, <1>5, <1>6

LEMMA ReplaceType ==
  ASSUME NEW n \in Name, NEW source \in Name, NEW dest \in Name
  PROVE  Replace(n, source, dest) \in Name
<1>1. CASE Under(n, source)
  BY <1>1, ReplaceLabels
<1>2. CASE ~Under(n, source)
  BY <1>2 DEF Replace
<1> QED
  BY <1>1, <1>2

\* One rule, there and back: from what it made of a name, in either case, it leads
\* back to that name, if it did not let pass a name below its own destination.
LEMMA ThereAndBack ==
  ASSUME NEW before \in Name, NEW after \in Name, NEW rule \in Rule,
         Same(after, Forwarded(before, rule)),
         ~Under(before, rule.source) => ~Under(before, rule.dest)
  PROVE  Same(Backward(after, rule), before)
<1> DEFINE sent == Forwarded(before, rule)
<1>1. rule.source \in Name /\ rule.dest \in Name
  BY DEF Rule
<1>2. sent \in Name
  BY <1>1, ReplaceType DEF Forwarded
<1>3. CASE ~Under(before, rule.source)
  <2>1. sent = before
    BY <1>3 DEF Forwarded, Replace
  <2>2. ~Under(after, rule.dest)
    BY <1>1, <1>3, <2>1, UnderIgnoresCase
  <2> QED
    BY <2>1, <2>2 DEF Backward, Replace
<1>4. CASE Under(before, rule.source)
  <2> DEFINE kept == Len(before) - Len(rule.source)
             back == Backward(after, rule)
  <2>1. /\ kept \in Nat /\ kept <= Len(before)
        /\ Len(sent) = kept + Len(rule.dest)
        /\ \A i \in 1..kept : sent[i] = before[i]
        /\ \A i \in 1..Len(rule.dest) : sent[kept + i] = rule.dest[i]
    BY <1>1, <1>4, ReplaceLabels DEF Forwarded
  <2>2. Len(before) \in Nat /\ Len(rule.dest) \in Nat /\ Len(rule.source) \in Nat
    BY <1>1, LenProperties DEF Name
  <2>3. Under(sent, rule.dest)
    <3>1. Len(sent) - Len(rule.dest) = kept /\ Len(rule.dest) <= Len(sent)
      BY <2>1, <2>2
    <3>2. \A i \in 1..Len(rule.dest) : sent[Len(sent) - Len(rule.dest) + i] = rule.dest[i]
      BY <2>1, <3>1
    <3>3. UnderByLabel(sent, rule.dest)
      BY <3>1, <3>2 DEF UnderByLabel
    <3> QED
      BY <1>1, <1>2, <3>3, UnderLabels
  <2>4. Under(after, rule.dest)
    BY <1>1, <1>2, <2>3, UnderIgnoresCase
  <2>5. Len(after) = Len(sent) /\ \A i \in 1..Len(sent) : Lower[after[i]] = Lower[sent[i]]
    BY DEF Same
  <2>6. Len(after) - Len(rule.dest) = kept
    BY <2>1, <2>2, <2>5
  <2>7. /\ Len(back) = kept + Len(rule.source)
        /\ \A i \in 1..kept : back[i] = after[i]
        /\ \A i \in 1..Len(rule.source) : back[kept + i] = rule.source[i]
    <3>1. /\ Len(back) = Len(after) - Len(rule.dest) + Len(rule.source)
          /\ \A i \in 1..(Len(after) - Len(rule.dest)) : back[i] = after[i]
          /\ \A i \in 1..Len(rule.source) :
               back[Len(after) - Len(rule.dest) + i] = rule.source[i]
      BY <1>1, <2>4, ReplaceLabels DEF Backward
    <3> QED
      BY <2>6, <3>1
  <2>8. Len(back) = Len(before)
    BY <2>1, <2>2, <2>7
  <2>9. \A i \in 1..kept : Lower[back[i]] = Lower[before[i]]
    BY <2>1, <2>2, <2>5, <2>7
  <2>10. \A i \in 1..Len(rule.source) : Lower[before[kept + i]] = Lower[rule.source[i]]
    BY <1>1, <1>4, UnderLabels DEF UnderByLabel
  <2>k. Len(before) = kept + Len(rule.source)
    BY <2>2
  <2> HIDE DEF kept, back, sent
  <2>11. ASSUME NEW i \in 1..Len(before) PROVE Lower[back[i]] = Lower[before[i]]
    <3>1. CASE i \in 1..kept
      BY <2>9, <3>1
    <3>2. CASE i \notin 1..kept
      <4>1. i - kept \in 1..Len(rule.source) /\ i = kept + (i - kept)
        BY <2>1, <2>2, <2>k, <3>2
      <4> QED
        BY <2>7, <2>10, <4>1
    <3> QED
      BY <3>1, <3>2
  <2>12. Same(back, before)
    BY <2>8, <2>11 DEF Same
  <2> QED
    BY <2>12 DEF back
<1> QED
  BY <1>3, <1>4

(***************************************************************************)
(* The type invariant.                                                     *)
(***************************************************************************)

LEMMA RuleType ==
  ASSUME rules \in RuleLists, NEW k \in 1..Len(rules)
  PROVE  rules[k] \in Rule
<1>1. rules \in Seq(Rule)
  BY RulesAssumption
<1> QED
  BY <1>1, ElementOfSeq

LEMMA RulesLength == ASSUME rules \in RuleLists PROVE Len(rules) \in Nat
<1>1. rules \in Seq(Rule)
  BY RulesAssumption
<1> QED
  BY <1>1, LenProperties

LEMMA InitTypeOK == Init => TypeOK
<1> SUFFICES ASSUME Init PROVE TypeOK
  OBVIOUS
<1>1. asked \in Name /\ trail \in Seq(Name)
  BY NamesAssumption DEF Init
<1>2. j \in 0..Len(rules)
  BY RulesLength DEF Init
<1>3. /\ rules \in RuleLists /\ name = asked /\ answer \subseteq Record
      /\ phase = "forward" /\ extras \in BOOLEAN /\ dnssec \in BOOLEAN
  BY DEF Init
<1>4. qtype \in Types
  BY DEF Init
<1> QED
  BY <1>1, <1>2, <1>3, <1>4 DEF TypeOK

LEMMA NextTypeOK == TypeOK /\ [Next]_vars => TypeOK'
<1> SUFFICES ASSUME TypeOK, [Next]_vars PROVE TypeOK'
  OBVIOUS
<1>l. Len(rules) \in Nat
  BY RulesLength DEF TypeOK
<1>1. CASE Forward
  <2>1. rules[j + 1] \in Rule
    BY <1>l, <1>1, RuleType DEF TypeOK, Forward
  <2>2. name' \in Name
    BY <1>1, <2>1, ReplaceType DEF TypeOK, Forward, Forwarded, Rule
  <2> QED
    BY <1>l, <1>1, <2>2 DEF TypeOK, Forward
<1>2. CASE Ask
  BY <1>2 DEF TypeOK, Ask
<1>3. ASSUME NEW rrs \in Replies, Reply(rrs) PROVE TypeOK'
  BY <1>3, RepliesAssumption DEF TypeOK, Reply
<1>4. CASE Back
  <2>1. rules[j] \in Rule
    BY <1>l, <1>4, RuleType DEF TypeOK, Back
  <2>2. name' \in Name
    BY <1>4, <2>1, ReplaceType DEF TypeOK, Back, Backward, BackwardOrder, Rule
  <2> QED
    BY <1>l, <1>4, <2>2 DEF TypeOK, Back
<1>5. CASE Clean
  <2>1. Cleaned(answer) \subseteq Record
    BY DEF TypeOK, Cleaned, Record
  <2> QED
    BY <1>5, <2>1 DEF TypeOK, Clean
<1>6. CASE UNCHANGED vars
  BY <1>6 DEF TypeOK, vars
<1> QED
  BY <1>1, <1>2, <1>3, <1>4, <1>5, <1>6 DEF Next

\* Every variable keeps its type, j its range.
THEOREM TypeCorrect == Spec => []TypeOK
  BY InitTypeOK, NextTypeOK, PTL DEF Spec

(***************************************************************************)
(* The way there and the way back.                                         *)
(***************************************************************************)

\* The trail is what the rules made of the question, one after the other.
Trail ==
    /\ Len(trail) = IF phase = "forward" THEN j + 1 ELSE Len(rules) + 1
    /\ trail[1] = asked
    /\ \A k \in 1..Len(rules) : k < Len(trail) => trail[k + 1] = Forwarded(trail[k], rules[k])

\* On the way there the name is the last of the trail; on the way back, when all
\* rules are reversible, it is the name of the trail at which the loop has arrived.
OnTheTrail ==
    /\ phase = "forward" => name = trail[j + 1]
    /\ phase = "upstream" => j = Len(rules) /\ name = trail[j + 1]
    /\ phase \in {"backward", "done"} /\ Reversible => Same(name, trail[j + 1])
    /\ phase = "done" => j = 0

IInv == TypeOK /\ Trail /\ OnTheTrail

LEMMA InitIInv == Init => IInv
<1> SUFFICES ASSUME Init PROVE IInv
  OBVIOUS
<1> QED
  BY InitTypeOK, RulesLength DEF Init, IInv, TypeOK, Trail, OnTheTrail

LEMMA NextIInv == IInv /\ [Next]_vars => IInv'
<1> SUFFICES ASSUME IInv, [Next]_vars PROVE IInv'
  OBVIOUS
<1>t. TypeOK /\ TypeOK'
  BY NextTypeOK DEF IInv
<1>l. Len(rules) \in Nat /\ Len(trail) \in Nat /\ j \in Nat /\ j <= Len(rules)
  BY <1>t, RulesLength, LenProperties DEF TypeOK
<1>i. Trail /\ OnTheTrail
  BY DEF IInv
<1>r. ASSUME UNCHANGED <<rules, trail>> PROVE Reversible' <=> Reversible
  BY <1>r DEF Reversible
<1>1. CASE Forward
  <2>1. Len(trail) = j + 1 /\ name = trail[j + 1]
    BY <1>1, <1>i DEF Forward, Trail, OnTheTrail
  <2>2. /\ Len(trail') = Len(trail) + 1
        /\ \A k \in 1..Len(trail) : trail'[k] = trail[k]
        /\ trail'[Len(trail) + 1] = name'
    BY <1>1, <1>t DEF Forward, TypeOK
  <2>3. trail'[j + 2] = Forwarded(trail'[j + 1], rules[j + 1])
    BY <1>1, <1>l, <2>1, <2>2 DEF Forward
  <2>4. Trail'
    BY <1>1, <1>i, <1>l, <2>1, <2>2, <2>3 DEF Forward, Trail
  <2>5. OnTheTrail'
    BY <1>1, <1>l, <2>1, <2>2 DEF Forward, OnTheTrail
  <2> QED
    BY <1>t, <2>4, <2>5 DEF IInv
<1>2. CASE Ask
  BY <1>2, <1>t, <1>i DEF Ask, IInv, Trail, OnTheTrail
<1>3. ASSUME NEW rrs \in Replies, Reply(rrs) PROVE IInv'
  <2>1. Same(name, name)
    BY <1>t, SameReflexive DEF TypeOK
  <2> QED
    BY <1>3, <1>t, <1>i, <2>1 DEF Reply, IInv, Trail, OnTheTrail
<1>4. CASE Back
  <2>1. Trail'
    BY <1>4, <1>i DEF Back, Trail
  <2>2. ASSUME Reversible PROVE Same(name', trail[j])
    <3>1. Len(trail) = Len(rules) + 1 /\ j \in 1..Len(rules)
      BY <1>4, <1>l, <1>i DEF Back, Trail
    <3>2. trail[j] \in Name /\ rules[j] \in Rule
      BY <1>t, <1>l, <3>1, ElementOfSeq, RuleType DEF TypeOK
    <3>3. trail[j + 1] = Forwarded(trail[j], rules[j])
      BY <1>i, <1>l, <3>1 DEF Trail
    <3>4. ~Under(trail[j], rules[j].source) => ~Under(trail[j], rules[j].dest)
      BY <2>2, <3>1 DEF Reversible
    <3>5. Same(name, trail[j + 1])
      BY <1>4, <1>i, <2>2 DEF Back, OnTheTrail
    <3> QED
      BY <1>4, <1>t, <3>2, <3>3, <3>4, <3>5, ThereAndBack DEF Back, BackwardOrder, TypeOK
  <2>3. OnTheTrail'
    BY <1>4, <1>l, <1>r, <2>2 DEF Back, OnTheTrail
  <2> QED
    BY <1>t, <2>1, <2>3 DEF IInv
<1>5. CASE Clean
  <2>1. Trail'
    BY <1>5, <1>i DEF Clean, Trail
  <2>2. OnTheTrail'
    BY <1>5, <1>i, <1>r DEF Clean, OnTheTrail
  <2> QED
    BY <1>t, <2>1, <2>2 DEF IInv
<1>6. CASE UNCHANGED vars
  BY <1>6, <1>t, <1>i, <1>r DEF vars, IInv, Trail, OnTheTrail
<1> QED
  BY <1>1, <1>2, <1>3, <1>4, <1>5, <1>6 DEF Next

\* The client gets its own question back, up to the case of letters, whenever every
\* rule on its way is reversible, for lists of rules of any length.
THEOREM ReversibleRestored == Spec => []RestoredIfReversible
<1>1. IInv => RestoredIfReversible
  BY DEF IInv, Trail, OnTheTrail, RestoredIfReversible
<1> QED
  BY <1>1, InitIInv, NextIInv, PTL DEF Spec

(***************************************************************************)
(* The cleaned reply.                                                      *)
(***************************************************************************)

LEMMA NextAnswerSpeaks ==
  TypeOK /\ AnswerSpeaksOfQuestion /\ [Next]_vars => AnswerSpeaksOfQuestion'
<1> SUFFICES ASSUME TypeOK, AnswerSpeaksOfQuestion, [Next]_vars
             PROVE  AnswerSpeaksOfQuestion'
  OBVIOUS
<1>1. CASE Clean
  <2>1. Cleaned(answer) \subseteq {[type |-> qtype, owner |-> name]}
    BY DEF Cleaned
  <2> QED
    BY <1>1, <2>1 DEF TypeOK, Clean, Cleans, AnswerSpeaksOfQuestion
<1>2. CASE Forward \/ Ask \/ (\E rrs \in Replies : Reply(rrs)) \/ Back
  BY <1>2 DEF Forward, Ask, Reply, Back, AnswerSpeaksOfQuestion
<1>3. CASE UNCHANGED vars
  BY <1>3 DEF vars, AnswerSpeaksOfQuestion
<1> QED
  BY <1>1, <1>2, <1>3 DEF Next

\* A cleaned reply holds nothing but records of the type asked for, owned by the
\* question's name, whatever the upstream sends.
THEOREM RepliesClean == Spec => []AnswerSpeaksOfQuestion
<1>1. Init => AnswerSpeaksOfQuestion
  BY DEF Init, AnswerSpeaksOfQuestion
<1> QED
  BY <1>1, NextAnswerSpeaks, TypeCorrect, PTL DEF Spec
==============================================================================
