----------------------------- MODULE ClientParts -----------------------------
(***************************************************************************)
(* asternet::Client with the queue of its metrics (MetricsQueue) and the   *)
(* collector they end up in (MetricsCollector).  The queue has a mutex and *)
(* a thread of its own, and of the rest of the Client it only needs that   *)
(* ~Client waits for the requests; a collector has its own mutex too.      *)
(***************************************************************************)
EXTENDS Client

CONSTANTS Requests, MaxQueued,                            \* of MetricsQueue
          OtherLabels, MaxLabels, MaxEvents, MaxReports   \* of MetricsCollector

VARIABLES queue, put, stop, request, worker, hand, reported, client,
          requests, failure, count, tally, events, blamed

queueVars == <<queue, put, stop, request, worker, hand, reported, client>>
collectorVars == <<requests, failure, count, tally, events, blamed>>

Queue == INSTANCE MetricsQueue
Collector == INSTANCE MetricsCollector

ASSUME PartsAssumption == Queue!QueueAssumption /\ Collector!CollectorAssumption

-----------------------------------------------------------------------------
(* Metrics are reported once and in order, and only a full queue loses     *)
(* any, the oldest ones (MetricsQueue).                                    *)
LossOnlyOfTheOldest == Queue!LossOnlyOfTheOldest

(* ~Client returns (MetricsQueue).                                         *)
DestructorReturns == Queue!DestructorReturns

(* Every failure is counted once, at one stage (MetricsCollector).         *)
FailuresAddUp == Collector!FailuresAddUp
=============================================================================
