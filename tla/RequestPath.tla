------------------------------ MODULE RequestPath ------------------------------
(***************************************************************************)
(* The way of a request through the orchestrator: it is coalesced with     *)
(* others (RequestCoalescer), retried against its deadline                 *)
(* (RequestDeadline) and handed from protocol to protocol                  *)
(* (ProtocolSelector).  What one stage hands to the next (a request, a     *)
(* result) is any the next may meet, and no stage reads another's state.   *)
(***************************************************************************)
EXTENDS RequestDeadline

CONSTANTS Requests, ShareKeys, NoKey, NoRequest, MaxFlights,        \* of RequestCoalescer
          Attempts, Hosts, Policies, Built, MaxFailures, MaxStates  \* of ProtocolSelector

VARIABLES key, stage, flights, flight, complete, published, returned, expired, lock,
          known, failures, ban, run, streak

coalescerVars == <<key, stage, flights, flight, complete, published, returned, expired, lock>>
selectorVars == <<known, failures, ban, run, streak>>

Share == INSTANCE RequestCoalescer WITH Keys <- ShareKeys, result <- returned
Selector == INSTANCE ProtocolSelector WITH Requests <- Attempts

ASSUME PathAssumption == Share!CoalescerAssumption /\ Selector!SelectorAssumption

-----------------------------------------------------------------------------
(* Two operations for one key never run together (RequestCoalescer).       *)
NoDuplicateOperation == Share!NoDuplicateOperation

(* Followers get the result of a flight still under way (RequestCoalescer).*)
FlightsAreLive == Share!FlightsAreLive

(* Circuits open on consecutive failures only (ProtocolSelector).          *)
OpensOnConsecutiveFailures == Selector!OpensOnConsecutiveFailures

(* An unsafe request reaches at most one engine (ProtocolSelector).        *)
NoDuplicateWrite == Selector!NoDuplicateWrite
=============================================================================
