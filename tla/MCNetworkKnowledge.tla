-------------------------- MODULE MCNetworkKnowledge --------------------------
(***************************************************************************)
(* What the SDK knows of the network: resolution with two resolving        *)
(* threads, one host and one lookup slot; the ranking of two addresses;    *)
(* the quality of the network; and the trace of a route.  A behaviour is   *)
(* one of a single part, whichever `part` says.                            *)
(***************************************************************************)
EXTENDS MCDnsResolver, NetworkKnowledge

CONSTANTS a1, a2

VARIABLE part

MCAddresses == {a1, a2}
MCRtts == {0, 500}

Sample(r, l, b, n) == [rtt |-> r, loss |-> l, bandwidth |-> b, net |-> n]

\* A request measures an RTT or nothing; a probe may also report a narrow link
\* or that it is wide again, loss, and a network come or gone.
MCSamples ==
    {Sample(r, -1, -1, "unknown") : r \in {-1, 20, 3000}} \cup
    {Sample(20, -1, 5000, "some"), Sample(700, -1, 5000, "some"),
     Sample(1500, 500, 50, "unknown"), Sample(-1, -1, -1, "none")}

KnowledgeInit ==
    /\ part \in {"resolver", "ranking", "prober", "trace"}
    /\ Init /\ Ranking!Init /\ Prober!Init /\ Trace!Init

KnowledgeNext ==
    \/ part = "resolver" /\ Next /\ UNCHANGED <<part, rankingVars, proberVars, traceVars>>
    \/ part = "ranking" /\ Ranking!Next /\ UNCHANGED <<part, vars, proberVars, traceVars>>
    \/ part = "prober" /\ Prober!Next /\ UNCHANGED <<part, vars, rankingVars, traceVars>>
    \/ part = "trace" /\ Trace!Next /\ UNCHANGED <<part, vars, rankingVars, proberVars>>
    \* The trace has returned.
    \/ at = "end" /\ UNCHANGED <<part, vars, rankingVars, proberVars, traceVars>>

KnowledgeSpec ==
    KnowledgeInit /\ [][KnowledgeNext]_<<part, vars, rankingVars, proberVars, traceVars>>
=============================================================================
