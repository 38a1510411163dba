------------------------------ MODULE MCHijack ------------------------------
(* Instances of Hijack for TLC: three domains a, b and c, one of them asked  *)
(* for in either case, and a name below each.                                *)
EXTENDS Hijack

MCLabels == {"www", "a", "A", "b", "c"}
MCLower == [l \in MCLabels |-> IF l = "A" THEN "a" ELSE l]
MCDomains == {<<"a">>, <<"b">>, <<"c">>, <<"www", "b">>}
MCNames == {<<"A">>, <<"www", "a">>, <<"b">>, <<"www", "b">>, <<"c">>}

MCRules == {[source |-> s, dest |-> d] : s \in MCDomains, d \in MCDomains}

\* No rules, one rule, and every list of two.
MCRuleLists ==
    {<<>>} \cup {<<r>> : r \in MCRules} \cup {<<r, s>> : r \in MCRules, s \in MCRules}

\* The chain of groups.go:344 and its test: /a/b/ and /b/c/.
MCChain == {<<[source |-> <<"a">>, dest |-> <<"b">>], [source |-> <<"b">>, dest |-> <<"c">>]>>}

MCRecords == [type : {"A", "AAAA"}, owner : {<<"c">>}]
MCReplies ==
    {{}} \cup {{r} : r \in MCRecords} \cup
    {{[type |-> "CNAME", owner |-> <<"b">>], r} : r \in MCRecords}
==============================================================================
