----------------------------- MODULE MCDoHCaller -----------------------------
(* Instances of DoHCaller for TLC. *)
EXTENDS DoHCaller
CONSTANTS w1, w2, w3, ip1, ip2

MCWaiters == {w1, w2, w3}
MCTwoWaiters == {w1, w2}
MCAddrs == {ip1, ip2}
MCOneAddr == {ip1}
==============================================================================
