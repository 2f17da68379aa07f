----------------------------- MODULE MCResolver -----------------------------
(* An instance of Resolver for TLC: two of the IPv6 addresses are in the    *)
(* same subnet, so they share a key, and a ring of three slots has room for *)
(* two addresses.                                                           *)
EXTENDS Resolver

TwoInet == {"a1", "a2"}
ThreeInet6 == {"b1", "b2", "l"}
OnlyL == {"l"}
Subnets == [a \in ThreeInet6 |-> IF a = "l" THEN "fe80" ELSE "2001"]
TwoWorkers == {"w1", "w2"}
OneCaller == {"c"}
=============================================================================
