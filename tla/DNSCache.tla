------------------------------ MODULE DNSCache ------------------------------
(***************************************************************************)
(* What cache/dns.go does with one answer: the entry that Set makes of it  *)
(* and the countdown with which Get gives it out again.  Times are whole   *)
(* seconds, as the code keeps them (Unix()).  The order in which Get       *)
(* shuffles the addresses is left out.                                     *)
(***************************************************************************)
EXTENDS Integers, Sequences, FiniteSetsExt

CONSTANTS MinTTL, MaxTTL

\* NewDNSCache refuses a configuration in which they are the wrong way round.
ASSUME TTLAssumption ==
    MinTTL \in Nat \ {0} /\ MaxTTL \in Nat \ {0} /\ MinTTL <= MaxTTL

ClampedBelowOnly(ttl) == IF ttl < MinTTL THEN MinTTL ELSE ttl
Clamped(ttl) ==
    LET atLeast == IF ttl < MinTTL THEN MinTTL ELSE ttl
    IN  IF atLeast > MaxTTL THEN MaxTTL ELSE atLeast

\* Set: every record's TTL is clamped and the shortest is the entry's.
Stored(rr) == [i \in DOMAIN rr |-> [rr[i] EXCEPT !.ttl = Clamped(@)]]
TTLs(rr) == {rr[i].ttl : i \in DOMAIN rr}

Cacheable(resp) == resp.rr # <<>>

Entry(resp, time) ==
    LET rr == Stored(resp.rr)
    IN  [resp |-> [resp EXCEPT !.rr = rr], cachedAt |-> time,
         expiredAt |-> time + Min(TTLs(rr) \cup {MaxTTL})]

\* Get: the seconds to take off every record.  The clock may have been set back.
ElapsedUnchecked(item, time) == time - item.cachedAt
Elapsed(item, time) == IF time < item.cachedAt THEN 0 ELSE time - item.cachedAt

CountedDown(item, time) ==
    [i \in DOMAIN item.resp.rr |-> [item.resp.rr[i] EXCEPT !.ttl = @ - Elapsed(item, time)]]

\* Two tests: the entry's own expiry, and that no record runs out before it.
Expired(item, time) ==
    \/ item.expiredAt - time <= 0
    \/ \E i \in DOMAIN item.resp.rr : CountedDown(item, time)[i].ttl <= 0
==============================================================================
