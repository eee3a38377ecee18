--------------------------- MODULE RequestCoalescer ---------------------------
(***************************************************************************)
(* orchestrator::RequestCoalescer (sdk/cxx/orchestrator/interceptor.cpp):  *)
(* identical GET/HEAD requests that are under way together share one       *)
(* execution.  The first of them, the leader, runs the operation unlocked  *)
(* and then publishes the result in its Flight; the others, the followers, *)
(* wait on the Flight's condition variable until that or their deadline.   *)
(* With max_flights flights under way, a request with a new key runs its   *)
(* operation itself, and does so inside the critical section.              *)
(*                                                                         *)
(* A flight is identified by its leader; every request executes once.      *)
(***************************************************************************)
EXTENDS Integers, FiniteSets

CONSTANTS Requests,
          Keys,        \* values of dedup_key: everything the answer depends on
          NoKey,       \* the key of a request is_shareable refuses
          NoRequest,
          MaxFlights   \* State::max_flights

CoalescerAssumption ==
    /\ IsFiniteSet(Requests)
    /\ NoKey \notin Keys
    /\ NoRequest \notin Requests
    /\ MaxFlights \in Nat \ {0}     \* the constructor turns 0 into 1

Stages == {"new",         \* execute not entered
           "entering",    \* wants State::mutex to look its key up
           "leading",     \* runs the operation, unlocked
           "publishing",  \* operation done, wants State::mutex to publish
           "notifying",   \* published, State::mutex released, before notify_all
           "joining",     \* follower that wants State::mutex to test Flight::complete
           "waiting",     \* asleep in wait_until, State::mutex released
           "alone",       \* not shareable: runs the operation, unlocked
           "alone_locked",\* no flight left: runs the operation holding State::mutex
           "done"}

Running == {"leading", "alone", "alone_locked"}

\* What the operation may do, and what a request may end with.
Outcomes == {"ok", "error", "throws"}
Results == Outcomes \cup {"none", "internal", "dedup_wait"}

VARIABLES key,        \* key[r]
          stage,      \* stage[r]
          flights,    \* State::flights: flights[k] is a leader or NoRequest
          flight,     \* flight[r]: the leader of the flight r has a pointer to
          complete,   \* complete[r]: Flight::complete of r's flight
          published,  \* published[r]: Flight::result of r's flight
          result,     \* result[r]: what execute returned for r
          expired,    \* requests whose deadline has passed
          lock        \* holder of State::mutex across steps, or NoRequest

vars == <<key, stage, flights, flight, complete, published, result, expired, lock>>

TypeOK ==
    /\ key \in [Requests -> Keys \cup {NoKey}]
    /\ stage \in [Requests -> Stages]
    /\ flights \in [Keys -> Requests \cup {NoRequest}]
    /\ flight \in [Requests -> Requests \cup {NoRequest}]
    /\ complete \in [Requests -> BOOLEAN]
    /\ published \in [Requests -> {"ok", "error", "internal"}]
    /\ result \in [Requests -> Results]
    /\ expired \in SUBSET Requests
    /\ lock \in Requests \cup {NoRequest}

Init ==
    /\ key \in [Requests -> Keys \cup {NoKey}]
    /\ stage = [r \in Requests |-> "new"]
    /\ flights = [k \in Keys |-> NoRequest]
    /\ flight = [r \in Requests |-> NoRequest]
    /\ complete = [r \in Requests |-> FALSE]
    /\ published = [r \in Requests |-> "internal"]
    /\ result = [r \in Requests |-> "none"]
    /\ expired = {}
    /\ lock = NoRequest

UnderWay == {k \in Keys : flights[k] # NoRequest}
Free == lock = NoRequest

Goto(r, s) == stage' = [stage EXCEPT ![r] = s]
Return(r, res) == Goto(r, "done") /\ result' = [result EXCEPT ![r] = res]

-----------------------------------------------------------------------------
\* execute is called; a request that is not shareable goes its own way.
Execute(r) ==
    /\ stage[r] = "new"
    /\ Goto(r, IF key[r] = NoKey THEN "alone" ELSE "entering")
    /\ UNCHANGED <<key, flights, flight, complete, published, result, expired, lock>>

Lead(r) ==
    /\ stage[r] = "entering" /\ Free
    /\ flights[key[r]] = NoRequest
    /\ Cardinality(UnderWay) < MaxFlights
    /\ flights' = [flights EXCEPT ![key[r]] = r]
    /\ flight' = [flight EXCEPT ![r] = r]
    /\ Goto(r, "leading")
    /\ UNCHANGED <<key, complete, published, result, expired, lock>>

\* Seeded bug: the mutex is dropped before the operation.
GoAloneUnlocked(r) ==
    /\ stage[r] = "entering" /\ Free
    /\ flights[key[r]] = NoRequest
    /\ Cardinality(UnderWay) >= MaxFlights
    /\ Goto(r, "alone")
    /\ UNCHANGED <<key, flights, flight, complete, published, result, expired, lock>>

\* return operation(...) with the lock_guard still in scope.
GoAlone(r) ==
    /\ stage[r] = "entering" /\ Free
    /\ flights[key[r]] = NoRequest
    /\ Cardinality(UnderWay) >= MaxFlights
    /\ lock' = r
    /\ Goto(r, "alone_locked")
    /\ UNCHANGED <<key, flights, flight, complete, published, result, expired>>

Follow(r) ==
    /\ stage[r] = "entering" /\ Free
    /\ flights[key[r]] # NoRequest
    /\ flight' = [flight EXCEPT ![r] = flights[key[r]]]
    /\ Goto(r, "joining")
    /\ UNCHANGED <<key, flights, complete, published, result, expired, lock>>

\* A lone operation returns or throws to the caller.
AloneReturns(r, outcome) ==
    /\ stage[r] \in {"alone", "alone_locked"}
    /\ Return(r, outcome)
    /\ lock' = IF stage[r] = "alone_locked" THEN NoRequest ELSE lock
    /\ UNCHANGED <<key, flights, flight, complete, published, expired>>

\* The leader's operation returns; an exception becomes an internal error.
LeaderReturns(r, outcome) ==
    /\ stage[r] = "leading"
    /\ result' = [result EXCEPT ![r] = IF outcome = "throws" THEN "internal" ELSE outcome]
    /\ Goto(r, "publishing")
    /\ UNCHANGED <<key, flights, flight, complete, published, expired, lock>>

\* Seeded bug: the flight stays in the map.
PublishKeeping(r) ==
    /\ stage[r] = "publishing" /\ Free
    /\ published' = [published EXCEPT ![r] = result[r]]
    /\ complete' = [complete EXCEPT ![r] = TRUE]
    /\ Goto(r, "notifying")
    /\ UNCHANGED <<key, flights, flight, result, expired, lock>>

\* The result goes into the flight and the flight out of the map.
Publish(r) ==
    /\ stage[r] = "publishing" /\ Free
    /\ published' = [published EXCEPT ![r] = result[r]]
    /\ complete' = [complete EXCEPT ![r] = TRUE]
    /\ flights' = [flights EXCEPT ![key[r]] = NoRequest]
    /\ Goto(r, "notifying")
    /\ UNCHANGED <<key, flight, result, expired, lock>>

\* Seeded bug: nobody is notified.
NotifyNobody(r) ==
    /\ stage[r] = "notifying"
    /\ Goto(r, "done")
    /\ UNCHANGED <<key, flights, flight, complete, published, result, expired, lock>>

\* notify_all: whoever sleeps on this flight wants the mutex again.
Notify(r) ==
    /\ stage[r] = "notifying"
    /\ stage' = [s \in Requests |->
                    IF s = r THEN "done"
                    ELSE IF stage[s] = "waiting" /\ flight[s] = r THEN "joining"
                    ELSE stage[s]]
    /\ UNCHANGED <<key, flights, flight, complete, published, result, expired, lock>>

\* wait_until tests its predicate first; if the flight is not complete and
\* there is time left it waits with the mutex released.
Wait(r) ==
    /\ stage[r] = "joining" /\ Free
    /\ ~complete[flight[r]] /\ r \notin expired
    /\ Goto(r, "waiting")
    /\ UNCHANGED <<key, flights, flight, complete, published, result, expired, lock>>

\* wait_until returns with the mutex: the predicate holds, or the deadline
\* has passed, after which the predicate is tested once more.
WakeWithResult(r) ==
    /\ Free
    /\ stage[r] = "joining" \/ (stage[r] = "waiting" /\ r \in expired)
    /\ complete[flight[r]]
    /\ Return(r, published[flight[r]])
    /\ UNCHANGED <<key, flights, flight, complete, published, expired, lock>>

TimeOut(r) ==
    /\ stage[r] \in {"joining", "waiting"} /\ Free
    /\ ~complete[flight[r]] /\ r \in expired
    /\ Return(r, "dedup_wait")
    /\ UNCHANGED <<key, flights, flight, complete, published, expired, lock>>

DeadlinePasses(r) ==
    /\ stage[r] # "done" /\ r \notin expired
    /\ expired' = expired \cup {r}
    /\ UNCHANGED <<key, stage, flights, flight, complete, published, result, lock>>

\* Every request has returned.
Quiet == (\A r \in Requests : stage[r] = "done") /\ UNCHANGED vars

Step(r) ==
    \/ Execute(r)
    \/ Lead(r) \/ GoAlone(r) \/ Follow(r)
    \/ \E outcome \in Outcomes : AloneReturns(r, outcome) \/ LeaderReturns(r, outcome)
    \/ Publish(r) \/ Notify(r)
    \/ Wait(r) \/ WakeWithResult(r) \/ TimeOut(r)

Next ==
    \/ \E r \in Requests : Step(r) \/ DeadlinePasses(r)
    \/ Quiet

\* Operations end (the engines have timeouts), threads are scheduled, and with
\* finitely many requests nobody is overtaken at State::mutex for ever.  A
\* deadline need not pass: nobody depends on it.
Fairness == \A r \in Requests : WF_vars(Step(r))

Spec == Init /\ [][Next]_vars
FairSpec == Spec /\ Fairness

-----------------------------------------------------------------------------
(* Coalescing works: two operations for the same key never run together,   *)
(* even when the limit on flights sends requests past the flights.         *)
NoDuplicateOperation ==
    \A r, s \in Requests :
        r # s /\ key[r] = key[s] /\ key[r] # NoKey =>
            ~(stage[r] \in Running /\ stage[s] \in Running)

BoundedFlights == Cardinality(UnderWay) <= MaxFlights

FollowersGetLeadersResult ==
    \A r \in Requests :
        flight[r] \notin {r, NoRequest} =>
            /\ key[flight[r]] = key[r]
            /\ stage[r] = "done" /\ result[r] # "dedup_wait" =>
                  complete[flight[r]] /\ result[r] = result[flight[r]]

(* A flight in the map is one whose result is still to come, so a request  *)
(* that arrives after the result was published never gets that old result; *)
(* a follower that did not time out returns what its own key's leader      *)
(* returned; and there are never more flights than max_flights.            *)
FlightsAreLive ==
    /\ TypeOK /\ BoundedFlights /\ FollowersGetLeadersResult
    /\ \A k \in UnderWay :
          LET leader == flights[k] IN
          /\ key[leader] = k /\ ~complete[leader]
          /\ stage[leader] \in {"leading", "publishing"}

(* Every request that enters execute returns even when no deadline passes: *)
(* no wake-up is lost wherever a publication falls between the sections of *)
(* a follower.                                                             *)
EveryRequestReturns == \A r \in Requests : <>(stage[r] = "done")
=============================================================================
