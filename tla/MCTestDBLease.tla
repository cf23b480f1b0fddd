--------------------------- MODULE MCTestDBLease ---------------------------
(* Instances of TestDBLease: which kinds each Acquire asks for.            *)
EXTENDS TestDBLease, TLC
CONSTANTS l1, l2, l3

WantsRedisOnly == [l \in Leases |-> <<"redis">>]
WantsPostgresOnly == [l \in Leases |-> <<"postgres">>]
WantsBoth == [l \in Leases |-> <<"postgres", "redis">>]

\* Leases and clients are interchangeable where every lease wants the same.
Alike == Permutations(Leases) \cup Permutations(Clients)
=============================================================================
