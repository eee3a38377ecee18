--------------------------- MODULE MCConnectionPool ---------------------------
(* ConnectionPool with fewer entries than origins, so that acquire has to  *)
(* evict and to refuse, and leases outlive the epoch they were given in.   *)
EXTENDS ConnectionPool, TLC

CONSTANTS c1, c2, c3, o1, o2, o3

MCCallers == {c1, c2, c3}
MCOrigins == {o1, o2, o3}
MCSymmetry == Permutations(MCCallers) \cup Permutations(MCOrigins)
=============================================================================
