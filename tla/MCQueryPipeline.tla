-------------------------- MODULE MCQueryPipeline --------------------------
(* Two queries at a time; group 1 has the GFW list, group 2 is the fallback *)
(* with a subnet of its own, group 3 has rules; foreign addresses redirect  *)
(* 2 and 3 to 1, domestic ones redirect 1 back to 2.                        *)
EXTENDS QueryPipeline, TLC

CONSTANTS c1, c2

MCClients == {c1, c2}
Symmetry == Permutations(MCClients)

Request(q, ecs, class) == [q |-> q, ecs |-> ecs, class |-> class]
MCRequests == {Request("local", "none", "IN"), Request("work", "none", "IN"),
               Request("web", "none", "IN"), Request("web", "net2", "IN"),
               Request("work", "none", "CH")}

Foreign == [cidr |-> {"home"}, notIn |-> TRUE, dst |-> 1]
Domestic == [cidr |-> {"home"}, notIn |-> FALSE, dst |-> 2]

MCGroups == 1..3
MCLists == {{}, {"work", "web"}}
MCRules == <<{}, {}, {"work"}>>
MCDisabled == <<{"work"}, {}, {}>>
MCOwnECS == <<"none", "net2", "none">>
MCRedirectors == <<Domestic, Foreign, Foreign>>

MCAddresses == {"home", "abroad"}
Record(ip, ttl) == [ip |-> ip, ttl |-> ttl]
MCAnswers == {<<>>, <<Record("home", 3)>>, <<Record("home", 1), Record("abroad", 3)>>}
=============================================================================
