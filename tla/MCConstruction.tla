--------------------------- MODULE MCConstruction ---------------------------
(***************************************************************************)
(* Five families of configurations, each exhausting one part of the file   *)
(* with the rest plain.                                                    *)
(***************************************************************************)
EXTENDS Construction

(* Names n and m, in full and bare.  The patterns: n.* matches only the full
   name; two of equal length match both bare names; one matches everything. *)
MCNames == {"n.", "n", "m.", "m"}
MCBare == [n \in MCNames |-> IF n \in {"n.", "n"} THEN "n" ELSE "m"]
MCPatterns == {"n.*", "?", "*", "??"}
MCCovers == [p \in MCPatterns |->
               CASE p = "n.*" -> {"n."} [] p = "?" -> {"n", "m"}
                 [] p = "??" -> {"n.", "m."} [] p = "*" -> MCNames]
MCLength == [p \in MCPatterns |-> CASE p = "n.*" -> 5 [] p = "?" -> 1 [] OTHER -> 2]
MCPlace == [p \in MCPatterns |->
              CASE p = "*" -> 2 [] p = "?" -> 1 [] p = "??" -> 3 [] p = "n.*" -> 4]

(* The third is typed A, but no A record can be written with it; the last two
   are spellings of one address. *)
V4 == "1.2.3.4"
Other4 == "5.6.7.8"
Mapped4 == "::ffff:1.2.3.4"
V6 == "::1"
Long6 == "0:0:0:0:0:0:0:1"
MCAddress == {V4, Other4, Mapped4, V6, Long6}
MCTypeOf == [ip \in MCAddress |-> IF ip \in {V6, Long6} THEN "AAAA" ELSE "A"]
MCWritable == MCAddress \ {Mapped4}

Domain(d) == [kind |-> "domain", domain |-> d, block |-> TRUE]
Except(line) == [line EXCEPT !.block = FALSE]
Wild(S) == [kind |-> "wild", covers |-> S, block |-> TRUE]

Com == <<"com">>
X == <<"x", "com">>
Y == <<"y", "x", "com">>
Z == <<"z", "com">>
MCLabels == {"com", "x", "y", "z", "a"}
MCDomains == {Com, X, Y, Z, <<"a", "y", "x", "com">>}

Group(n) ==
    [name |-> n, fallback |-> FALSE, rules |-> <<>>, rulesFile |-> NoFile,
     gfwlist |-> FALSE, sound |-> TRUE, malformed |-> FALSE, redirector |-> ""]

Plain ==
    [qtypes |-> TRUE, hosts |-> {}, hostsFiles |-> <<>>, minTTL |-> 0, maxTTL |-> 0,
     groups |-> {Group(1)}, redirectors |-> {}]

UpTo(k, S) == UNION {[1..i -> S] : i \in 0..k}

(* Hosts: up to two entries of the map, no or some files. *)
Pairs(keys, addrs) ==
    [k \in 1..(Len(keys) * Len(addrs)) |->
       [key |-> keys[1 + ((k - 1) \div Len(addrs))], ip |-> addrs[1 + ((k - 1) % Len(addrs))]]]
Entries == {Pairs(<<k>>, as) : k \in {"n", "n.", "n.*", "?", "*", "??"},
                               as \in {<<V4>>, <<Mapped4, V6, V4, Long6>>, <<BadIP>>}}
Lines == {Pairs(<<"n", "*">>, <<Other4>>), Pairs(<<"m">>, <<V4, V4>>),
          Pairs(<<"m">>, <<V6, BadIP>>)}
HostsFamily ==
    {[Plain EXCEPT !.hosts = {e1, e2}, !.hostsFiles = fs] :
       e1 \in Entries, e2 \in Entries,
       fs \in {<<>>, <<Unreadable>>} \cup {<<l>> : l \in Lines}}
    \cup {[Plain EXCEPT !.hostsFiles = <<l1, l2 \o l1>>] : l1 \in Lines, l2 \in Lines}

(* Rules of one group: up to two lines in the section and in the file. *)
RuleLines ==
    {Domain(d) : d \in {Com, X, Y}} \cup {Except(Domain(d)) : d \in {Com, X, Y}}
    \cup {Wild({Y, Z}), Except(Wild({Y, X})), [kind |-> "skip"], [kind |-> "broken"]}
RulesFamily ==
    {[Plain EXCEPT !.groups = {[Group(1) EXCEPT !.fallback = TRUE, !.rules = rs, !.rulesFile = f]}] :
       rs \in UpTo(2, RuleLines), f \in {NoFile, Unreadable} \cup UpTo(2, RuleLines)}

(* Three groups with and without flags, rules and faults. *)
Sections(n) ==
    {[Group(n) EXCEPT !.fallback = fb, !.rules = rs, !.gfwlist = gfw, !.sound = ok] :
       fb \in BOOLEAN, rs \in {<<>>, <<Domain(X)>>}, gfw \in BOOLEAN, ok \in {TRUE, n # 2}}
GroupsFamily ==
    {[Plain EXCEPT !.groups = {a, b, c}] :
       a \in Sections(1), b \in Sections(2),
       c \in Sections(3) \cup {Group(1), [Group(3) EXCEPT !.gfwlist = TRUE, !.malformed = TRUE]}}

(* Redirectors of two groups, and the groups that name them. *)
Redirectors(n) ==
    [name : {n}, type : {"match_cidr", "mismatch_cidr", "MISMATCH_CIDR", "match_geo"},
     dst : 1..3, sound : {TRUE, n # "r"}]
RedirectorsFamily ==
    {[Plain EXCEPT !.groups = {[Group(1) EXCEPT !.redirector = ra],
                               [Group(2) EXCEPT !.rules = <<Domain(X)>>, !.redirector = rb]},
                   !.redirectors = rs] :
       ra \in {"", "r", "s"}, rb \in {"", "s"},
       rs \in {{}} \cup {{r} : r \in Redirectors("r")}
                   \cup {{r, [name |-> "s", type |-> "match_cidr", dst |-> d, sound |-> TRUE]} :
                           r \in Redirectors("r"), d \in 2..3}}

OtherFamily ==
    {[Plain EXCEPT !.qtypes = q, !.minTTL = low, !.maxTTL = high] :
       q \in BOOLEAN, low \in 0..3, high \in 0..3}

MCConfs ==
    HostsFamily \cup RulesFamily \cup RedirectorsFamily \cup OtherFamily
    \cup {c \in GroupsFamily : \A g, h \in c.groups : g.name = h.name => g = h}
==============================================================================
