------------------------------ MODULE MCEngines ------------------------------
(***************************************************************************)
(* The three engines, with wake-ups of XQUIC at once and within a          *)
(* millisecond.  They share nothing: a behaviour is one of a single        *)
(* engine, whichever `part` says.                                          *)
(***************************************************************************)
EXTENDS Engines

VARIABLE part

MCWakeAfter == {0, 999}

\* A part that does not run has one initial state.
Any == CHOOSE k \in Keys : TRUE
EnginesInit ==
    /\ part \in {"http3", "http2", "http1"}
    /\ Init /\ Http1!Init /\ Http2!Init
    /\ part # "http1" => req1.key = Any
    /\ part # "http2" => req2.key = Any

\* Keys are interchangeable: the first request may have any fixed one.
FirstIs(request, k) == request.number = 0 => request'.key = k

EnginesNext ==
    \/ part = "http3" /\ Next /\ UNCHANGED <<part, http1Vars, http2Vars>>
    \/ part = "http2" /\ Http2!Next /\ FirstIs(req2, Any) /\ UNCHANGED <<part, vars, http1Vars>>
    \/ part = "http1" /\ Http1!Next /\ FirstIs(req1, Any) /\ UNCHANGED <<part, vars, http2Vars>>

\* Each part's own fairness; the steps of the other parts are disabled.
Running(p, step) == part = p /\ step /\ UNCHANGED part

EnginesFairness ==
    /\ WF_vars(Running("http3", Thread)) /\ WF_vars(Running("http3", Expire))
    /\ WF_http2Vars(Running("http2", Http2!Request))
    /\ WF_http2Vars(Running("http2", Http2!DeadlinePasses))

EnginesSpec ==
    EnginesInit /\ [][EnginesNext]_<<part, vars, http1Vars, http2Vars>> /\ EnginesFairness
=============================================================================
