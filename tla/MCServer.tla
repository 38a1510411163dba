------------------------------ MODULE MCServer ------------------------------
(***************************************************************************)
(* Every combination of services without SIGHUP, with two failures unless  *)
(* both kinds of DoH are asked for; and the smallest one with three        *)
(* SIGHUPs, as reloadConf and run() share nothing but the context.         *)
(***************************************************************************)
EXTENDS Server

MCScenarios ==
    {s \in [doh : BOOLEAN, net : {"", "udp", "tcp"}, plain : BOOLEAN,
            failures : {1, 2}, signals : {0}] :
       s.failures = IF s.doh /\ s.plain THEN 1 ELSE 2}
    \cup [doh : {FALSE}, net : {"udp"}, plain : {FALSE}, failures : {1}, signals : {3}]
==============================================================================
