-------------------------- MODULE MC_DhcpAllocator --------------------------
(* Model-checking instance of the allocator: two interfaces, three MACs,  *)
(* so six keys compete for a four-address pool and exhaustion happens.    *)
EXTENDS DhcpAllocator

CONSTANTS l1, l2, m1, m2, m3

MCLinks == {l1, l2}
MCMacs == {m1, m2, m3}
=============================================================================
