---------------------------- MODULE MCDnsResolver ----------------------------
(* DnsResolver with two resolving threads, one host and one lookup slot.   *)
EXTENDS DnsResolver, TLC

CONSTANTS c1, c2, h1, j1

MCCallers == {c1, c2}
MCHosts == {h1}
MCJobs == {j1}
MCSymmetry == Permutations(MCCallers)
=============================================================================
