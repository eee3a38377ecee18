---------------------------- MODULE MCRequestPath ----------------------------
(***************************************************************************)
(* The way of a request: coalescing of three requests over two keys and a  *)
(* single flight, the retries of one request with a timeout of 12 ticks    *)
(* and back-offs that double, and the protocols of two concurrent requests *)
(* of which circuits open after two failures.  No stage reads another's    *)
(* state: a behaviour is one of the coalescer, of the retries or of the    *)
(* selector, whichever `part` says.                                        *)
(***************************************************************************)
EXTENDS MCRequestDeadline, RequestPath

CONSTANTS r1, r2, r3, k1, k2, h1

VARIABLE part

MCRequests == {r1, r2, r3}
MCKeys == {k1, k2}
MCAttempts == {r1, r2}
MCHosts == {h1}

\* Who has which key, up to the names of requests and keys.
MCKeyings ==
    {<<k1, k1, k1>>, <<k1, k1, k2>>, <<k1, k1, NoKey>>, <<k1, k2, NoKey>>,
     <<k1, NoKey, NoKey>>, <<NoKey, NoKey, NoKey>>}

\* A part that does not run has one initial state.
PathInit ==
    /\ part \in {"coalescer", "retries", "selector"}
    /\ Share!Init /\ Init /\ Selector!Init
    /\ part # "coalescer" => key = [r \in Requests |-> NoKey]
    /\ <<key[r1], key[r2], key[r3]>> \in MCKeyings
    /\ part # "retries" => retry_safe /\ link = "fine"

\* Every request of the part has returned.
Returned ==
    /\ part = "retries" => pc = "done"
    /\ part = "selector" => \A r \in Attempts : run[r].stage = "done"
    /\ part # "coalescer"
    /\ UNCHANGED <<part, vars, coalescerVars, selectorVars>>

PathNext ==
    \/ part = "coalescer" /\ Share!Next /\ UNCHANGED <<part, vars, selectorVars>>
    \/ part = "retries" /\ Next /\ UNCHANGED <<part, coalescerVars, selectorVars>>
    \/ part = "selector" /\ Selector!Next /\ UNCHANGED <<part, vars, coalescerVars>>
    \/ Returned

\* The coalescer's fairness; its steps are disabled in the other parts.
PathFairness ==
    \A r \in Requests :
        WF_coalescerVars(part = "coalescer" /\ Share!Step(r) /\ UNCHANGED part)

PathSpec ==
    PathInit /\ [][PathNext]_<<part, vars, coalescerVars, selectorVars>> /\ PathFairness

-----------------------------------------------------------------------------
(* Every request returns (RequestCoalescer).                               *)
EveryRequestReturns == part = "coalescer" => Share!EveryRequestReturns
=============================================================================
