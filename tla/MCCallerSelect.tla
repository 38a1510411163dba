--------------------------- MODULE MCCallerSelect ---------------------------
(* Instances of CallerSelect for TLC. *)
EXTENDS CallerSelect, TLC
CONSTANTS r1, r2, h1, h2, a, b

MCRequests == {r1, r2}
MCHosts == {h1, h2}
MCOneHost == {h1}
MCCallers == {a, b}

\* Requests, hosts and callers are interchangeable.
MCSymmetry == Permutations(MCRequests) \cup Permutations(MCCallers)
==============================================================================
