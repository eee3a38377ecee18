-------------------------- MODULE MCProtocolSelector --------------------------
(* ProtocolSelector with two concurrent requests to one host.              *)
EXTENDS ProtocolSelector

CONSTANTS r1, r2, h1

MCRequests == {r1, r2}
MCHosts == {h1}
=============================================================================
