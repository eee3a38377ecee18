------------------------------- MODULE MCClient -------------------------------
(***************************************************************************)
(* asternet::Client: its lifecycle lock with three threads, its metrics    *)
(* queue with five requests and room for two, and a collector's account of *)
(* three requests with room for two labels.  They read nothing of each     *)
(* other: a behaviour is one of the three, whichever `part` says.          *)
(***************************************************************************)
EXTENDS ClientParts

CONSTANTS t1, t2, t3, r1, r2, r3, r4, r5

VARIABLE part

MCThreads == {t1, t2, t3}
MCQualities == {"unknown", "offline"}
MCRequests == {r1, r2, r3, r4, r5}

ClientInit ==
    /\ part \in {"lock", "queue", "collector"}
    /\ Init /\ Queue!Init /\ Collector!Init

\* The bound on reports is reached.
AllReported == requests = MaxReports /\ UNCHANGED collectorVars

\* Idle threads are alike: the next call is made by a fixed one of them.
OneCalls ==
    LET idle == {t \in Threads : pc[t] = "idle"}
    IN \A t \in idle : pc'[t] = "idle" \/ t = CHOOSE u \in idle : TRUE

ClientNext ==
    \/ part = "lock" /\ Next /\ OneCalls /\ UNCHANGED <<part, queueVars, collectorVars>>
    \/ part = "queue" /\ Queue!Next /\ UNCHANGED <<part, vars, collectorVars>>
    \/ part = "collector" /\ (Collector!Next \/ AllReported) /\ UNCHANGED <<part, vars, queueVars>>

\* Each part's own fairness; the steps of the other parts are disabled.
Running(p, step) == part = p /\ step /\ UNCHANGED part

ClientFairness ==
    /\ \A t \in Threads : WF_vars(Running("lock", Finish(t)))
    /\ WF_queueVars(Running("queue", Queue!Worker))
    /\ WF_queueVars(Running("queue", Queue!Client))
    /\ \A r \in Requests : WF_queueVars(Running("queue", Queue!NotifyOne(r)))

ClientSpec ==
    ClientInit /\ [][ClientNext]_<<part, vars, queueVars, collectorVars>> /\ ClientFairness
=============================================================================
