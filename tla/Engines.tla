-------------------------------- MODULE Engines --------------------------------
(***************************************************************************)
(* The three engines a ProtocolSelector chooses from: QuicEngine,          *)
(* Http1Engine and Http2Engine.  They share nothing.                       *)
(***************************************************************************)
EXTENDS QuicEngine

CONSTANTS None, Keys, MaxBody,                           \* of both other engines
          Timeouts, Slack, MaxParts, MaxSpent,           \* of Http1Engine
          MaxHttp1Requests,
          MaxUpload, MaxData, MaxFrames                  \* of Http2Engine

VARIABLES conn1, pc1, req1, raw, spent, result1,
          conn2, pc2, req2, ctx2, batch, late, result2, reply, upload

http1Vars == <<conn1, pc1, req1, raw, spent, result1>>
http2Vars == <<conn2, pc2, req2, ctx2, batch, late, result2, reply, upload>>

Http1 == INSTANCE Http1Engine WITH
    MaxRequests <- MaxHttp1Requests,
    conn <- conn1, pc <- pc1, req <- req1, result <- result1
Http2 == INSTANCE Http2Engine WITH
    conn <- conn2, pc <- pc2, req <- req2, ctx <- ctx2, result <- result2

ASSUME EnginesAssumption == Http1!Http1Assumption /\ Http2!Http2Assumption

-----------------------------------------------------------------------------
(* The kept connection is only reused where that is safe (Http1Engine).    *)
ImplementsReuse1 == Http1!ImplementsReuse1

(* A successful response is one's own and whole (Http1Engine).             *)
OwnWholeResponse == Http1!OwnWholeResponse

(* The kept session is only reused where that is safe (Http2Engine).       *)
ImplementsReuse2 == Http2!ImplementsReuse2

(* A successful response is whole (Http2Engine).                           *)
WholeResponse == Http2!WholeResponse

(* nghttp2 never holds a context that is gone (Http2Engine).               *)
ContextIsAlive == Http2!ContextIsAlive

(* A request returns by its deadline (Http2Engine).                        *)
Http2Returns == Http2!Http2Returns
=============================================================================
