----------------------------- MODULE MetricsQueue -----------------------------
(***************************************************************************)
(* How asternet::Client reports metrics (sdk/cxx/client.cpp): a request    *)
(* that ends puts its metrics into metrics_queue_, which drops its oldest  *)
(* ones when it is full, and one worker thread hands them to the           *)
(* collectors outside the mutex.  ~Client stops the worker, waits until it *)
(* has reported what is left and only then resets the collectors.          *)
(*                                                                         *)
(* The n-th metrics put into the queue are the number n.                   *)
(***************************************************************************)
EXTENDS Integers, Sequences

CONSTANTS Requests,
          MaxQueued      \* kMaxQueuedMetrics

QueueAssumption == MaxQueued \in Nat \ {0}

VARIABLES queue,      \* metrics_queue_
          put,        \* how many metrics were ever put into it
          stop,       \* metrics_worker_stop_
          request,    \* progress of a request
          worker,     \* progress of metrics_worker_loop
          hand,       \* pending: what the worker is reporting, or 0
          reported,   \* what the shadow collector was called with
          client      \* progress of ~Client

vars == <<queue, put, stop, request, worker, hand, reported, client>>

TypeOK ==
    /\ queue \in Seq(1..put) /\ put \in Nat
    /\ stop \in BOOLEAN
    /\ request \in [Requests -> {"running", "notify", "done"}]
    /\ worker \in {"ready", "asleep", "reporting", "gone"}
    /\ hand \in 0..put /\ (hand # 0 <=> worker = "reporting")
    /\ reported \in Seq(1..put)
    /\ client \in {"alive", "stopping", "joining", "gone"}

Init ==
    /\ queue = <<>> /\ put = 0 /\ stop = FALSE
    /\ request = [r \in Requests |-> "running"]
    /\ worker = "ready" /\ hand = 0 /\ reported = <<>>
    /\ client = "alive"

\* Seeded bug: the newest metrics make room.
RoomDroppingNewest == IF Len(queue) >= MaxQueued THEN SubSeq(queue, 1, MaxQueued - 1) ELSE queue

Room == IF Len(queue) >= MaxQueued THEN Tail(queue) ELSE queue

\* enqueue_metrics, as long as the request holds the lifecycle lock.
Put(r) ==
    /\ request[r] = "running" /\ client = "alive"
    /\ put' = put + 1
    /\ queue' = Append(Room, put')
    /\ request' = [request EXCEPT ![r] = "notify"]
    /\ UNCHANGED <<stop, worker, hand, reported, client>>

WokenWorker == IF worker = "asleep" THEN "ready" ELSE worker

NotifyOne(r) ==
    /\ request[r] = "notify"
    /\ request' = [request EXCEPT ![r] = "done"]
    /\ worker' = WokenWorker
    /\ UNCHANGED <<queue, put, stop, hand, reported, client>>

-----------------------------------------------------------------------------
\* Seeded bug: the predicate of the wait forgets the stop flag.
SleepAnyhow ==
    /\ worker = "ready" /\ queue = <<>>
    /\ worker' = "asleep"
    /\ UNCHANGED <<queue, put, stop, request, hand, reported, client>>

Sleep ==
    /\ worker = "ready" /\ queue = <<>> /\ ~stop
    /\ worker' = "asleep"
    /\ UNCHANGED <<queue, put, stop, request, hand, reported, client>>

Take ==
    /\ worker = "ready" /\ queue # <<>>
    /\ hand' = Head(queue)
    /\ queue' = Tail(queue)
    /\ worker' = "reporting"
    /\ UNCHANGED <<put, stop, request, reported, client>>

Report ==
    /\ worker = "reporting"
    /\ reported' = Append(reported, hand)
    /\ hand' = 0
    /\ worker' = "ready"
    /\ UNCHANGED <<queue, put, stop, request, client>>

Leave ==
    /\ worker = "ready" /\ stop /\ queue = <<>>
    /\ worker' = "gone"
    /\ UNCHANGED <<queue, put, stop, request, hand, reported, client>>

-----------------------------------------------------------------------------
\* ~Client has the lifecycle lock: no request is inside, nor will be.
Destroy ==
    /\ client = "alive"
    /\ \A r \in Requests : request[r] # "notify"
    /\ stop' = TRUE
    /\ client' = "stopping"
    /\ UNCHANGED <<queue, put, request, worker, hand, reported>>

NotifyAll ==
    /\ client = "stopping"
    /\ worker' = WokenWorker
    /\ client' = "joining"
    /\ UNCHANGED <<queue, put, stop, request, hand, reported>>

\* join has returned; the collectors are reset.
Teardown ==
    /\ client = "joining" /\ worker = "gone"
    /\ client' = "gone"
    /\ UNCHANGED <<queue, put, stop, request, worker, hand, reported>>

Gone == client = "gone" /\ UNCHANGED vars

Worker == Sleep \/ Take \/ Report \/ Leave
Client == NotifyAll \/ Teardown

Next ==
    \/ \E r \in Requests : Put(r) \/ NotifyOne(r)
    \/ Worker
    \/ Destroy \/ Client
    \/ Gone

\* The worker and the destructor run; collectors return.  Nobody has to
\* destroy the client.
Fairness == WF_vars(Worker) /\ WF_vars(Client) /\ \A r \in Requests : WF_vars(NotifyOne(r))

Spec == Init /\ [][Next]_vars
FairSpec == Spec /\ Fairness

-----------------------------------------------------------------------------
ReportedSet == {reported[i] : i \in 1..Len(reported)}
QueuedSet == {queue[i] : i \in 1..Len(queue)}

InOrder == \A i, j \in 1..Len(reported) : i < j => reported[i] < reported[j]

(* Every request's metrics are reported at most once and in the order in   *)
(* which the requests ended.  Only a full queue loses metrics, and only    *)
(* old ones: what is neither reported, nor queued, nor in the worker's     *)
(* hand was followed by at least MaxQueued others.  Once the collectors    *)
(* are reset nothing counts but what was reported.                         *)
LossOnlyOfTheOldest ==
    /\ TypeOK /\ InOrder
    /\ \A n \in 1..put :
           n \notin ReportedSet \cup (IF client = "gone" THEN {} ELSE QueuedSet \cup {hand})
               => put - n >= MaxQueued

(* A destructor that has begun returns: the worker is never asleep on the  *)
(* stop flag or on metrics with nobody about to wake it.                   *)
DestructorReturns == client = "stopping" ~> client = "gone"
=============================================================================
