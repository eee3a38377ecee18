--------------------------- MODULE RequestPathProofs ---------------------------
(***************************************************************************)
(* A request on its way, for every number of requests, keys and flights,   *)
(* every timeout, number of retries and back-off, and every host and       *)
(* policy: no two operations for one key run together and a flight in the  *)
(* map is one still under way (RequestCoalescer); the retries take a       *)
(* bounded effort (RequestDeadline); circuits open on consecutive failures *)
(* only and a write is never repeated (ProtocolSelector).                  *)
(***************************************************************************)
EXTENDS RequestPath, Sequences, FiniteSetTheorems, TLAPS

(* The instances count the elements of a set as this module does.          *)
LEMMA SameCardinality ==
    \A S : Share!Cardinality(S) = Cardinality(S) /\ Selector!Cardinality(S) = Cardinality(S)
  BY DEF Share!Cardinality, Selector!Cardinality, Cardinality

(* Which way through execute a request takes depends on its key.           *)
PathsInv ==
    \A r \in Requests :
        /\ stage[r] = "alone" => key[r] = NoKey
        /\ stage[r] \notin {"new", "alone", "done"} => key[r] \in ShareKeys
        /\ stage[r] \in {"new", "entering", "alone", "alone_locked"} => flight[r] = NoRequest

(* Whoever holds State::mutex across steps is running alone, and its key   *)
(* stays without a flight for as long.                                     *)
LockInv ==
    \A r \in Requests :
        /\ stage[r] = "alone_locked" <=> lock = r
        /\ stage[r] = "alone_locked" => flights[key[r]] = NoRequest

FlightsInv ==
    \A k \in Share!UnderWay :
        /\ key[flights[k]] = k
        /\ stage[flights[k]] \in {"leading", "publishing"}

(* A leader's flight is in the map until it is published; from then on it  *)
(* is complete and holds the leader's own result.                          *)
LeadersInv ==
    \A r \in Requests :
        /\ stage[r] \in {"leading", "publishing"} =>
              flights[key[r]] = r /\ flight[r] = r /\ ~complete[r]
        /\ stage[r] \in {"publishing", "notifying"}
              => returned[r] \in {"ok", "error", "internal"}
        /\ complete[r] => stage[r] \in {"notifying", "done"} /\ published[r] = returned[r]

(* A follower has a flight of its own key and another request's.           *)
FollowersInv ==
    \A r \in Requests :
        /\ stage[r] \in {"joining", "waiting"} => flight[r] \notin {r, NoRequest}
        /\ flight[r] \notin {r, NoRequest} => stage[r] \in {"joining", "waiting", "done"}

FlightsLimited == IsFiniteSet(Share!UnderWay) /\ Share!BoundedFlights

CoalescerInv ==
    /\ Share!TypeOK /\ FlightsLimited /\ Share!FollowersGetLeadersResult
    /\ PathsInv /\ LockInv /\ FlightsInv /\ LeadersInv /\ FollowersInv

(* Before the first execute every part holds.                              *)
LEMMA CoalescerInit ==
    ASSUME Share!CoalescerAssumption, Share!Init
    PROVE  CoalescerInv
  <1>1. Share!TypeOK
    BY DEF Share!Init, Share!TypeOK, Share!Stages, Share!Results
  <1>2. Share!UnderWay = {}
    BY DEF Share!Init, Share!UnderWay
  <1>3. FlightsLimited
    BY <1>2, FS_EmptySet, SameCardinality
    DEF FlightsLimited, Share!BoundedFlights, Share!CoalescerAssumption
  <1>4. Share!FollowersGetLeadersResult /\ PathsInv /\ LeadersInv /\ FollowersInv
    BY DEF Share!Init, Share!FollowersGetLeadersResult, PathsInv, LeadersInv, FollowersInv
  <1>5. LockInv /\ FlightsInv
    BY <1>2 DEF Share!CoalescerAssumption, Share!Init, LockInv, FlightsInv
  <1>6. QED
    BY <1>1, <1>3, <1>4, <1>5 DEF CoalescerInv

(* execute, up to the first lock.                                          *)
LEMMA ExecuteInv ==
    ASSUME Share!CoalescerAssumption, CoalescerInv, NEW r \in Requests, Share!Execute(r)
    PROVE  CoalescerInv'
  <1>1. Share!TypeOK'
    BY DEF CoalescerInv, Share!Execute, Share!Goto, Share!TypeOK, Share!Stages, Share!Results
  <1>2. FlightsLimited'
    BY DEF CoalescerInv, Share!Execute, FlightsLimited, Share!BoundedFlights, Share!UnderWay
  <1>3. Share!FollowersGetLeadersResult'
    BY DEF CoalescerInv, Share!Execute, Share!Goto, Share!TypeOK,
       Share!FollowersGetLeadersResult
  <1>4. PathsInv'
    BY DEF CoalescerInv, Share!Execute, Share!Goto, Share!TypeOK, PathsInv
  <1>5. LockInv'
    BY DEF CoalescerInv, Share!Execute, Share!Goto, Share!TypeOK, LockInv
  <1>6. FlightsInv'
    BY DEF CoalescerInv, Share!Execute, Share!Goto, Share!TypeOK, FlightsInv, Share!UnderWay
  <1>7. LeadersInv'
    BY DEF CoalescerInv, Share!Execute, Share!Goto, Share!TypeOK, LeadersInv
  <1>8. FollowersInv'
    BY DEF CoalescerInv, Share!Execute, Share!Goto, Share!TypeOK, FollowersInv
  <1>9. QED
    BY <1>1, <1>2, <1>3, <1>4, <1>5, <1>6, <1>7, <1>8 DEF CoalescerInv

(* A leader puts its flight into the map under a free key.                 *)
LEMMA LeadInv ==
    ASSUME Share!CoalescerAssumption, CoalescerInv, NEW r \in Requests, Share!Lead(r)
    PROVE  CoalescerInv'
  <1>1. Share!TypeOK'
    BY DEF CoalescerInv, Share!Lead, Share!Goto, Share!Free, Share!TypeOK, Share!Stages,
       Share!Results
  <1>2. FlightsLimited'
    <2>1. Share!UnderWay' = Share!UnderWay \cup {key[r]} /\ key[r] \notin Share!UnderWay
      BY DEF Share!CoalescerAssumption, CoalescerInv, Share!TypeOK, PathsInv, Share!Lead,
         Share!UnderWay
    <2>2. IsFiniteSet(Share!UnderWay) /\ Cardinality(Share!UnderWay) \in Nat
      BY FS_CardinalityType DEF CoalescerInv, FlightsLimited
    <2>3. /\ IsFiniteSet(Share!UnderWay')
          /\ Cardinality(Share!UnderWay') = Cardinality(Share!UnderWay) + 1
      BY <2>1, <2>2, FS_AddElement
    <2>4. QED
      BY <2>2, <2>3, SameCardinality
      DEF Share!Lead, FlightsLimited, Share!BoundedFlights, Share!CoalescerAssumption
  <1>3. Share!FollowersGetLeadersResult'
    BY DEF CoalescerInv, Share!Lead, Share!Goto, Share!Free, Share!TypeOK,
       Share!FollowersGetLeadersResult
  <1>4. PathsInv'
    BY DEF CoalescerInv, Share!Lead, Share!Goto, Share!Free, Share!TypeOK, PathsInv
  <1>5. LockInv'
    BY DEF CoalescerInv, Share!Lead, Share!Goto, Share!Free, Share!TypeOK, LockInv,
       Share!CoalescerAssumption
  <1>6. FlightsInv'
    BY DEF CoalescerInv, Share!Lead, Share!Goto, Share!Free, Share!TypeOK, FlightsInv,
       Share!UnderWay
  <1>7. LeadersInv'
    BY DEF CoalescerInv, Share!Lead, Share!Goto, Share!Free, Share!TypeOK, LeadersInv,
       Share!CoalescerAssumption, PathsInv
  <1>8. FollowersInv'
    BY DEF CoalescerInv, Share!Lead, Share!Goto, Share!Free, Share!TypeOK, FollowersInv
  <1>9. QED
    BY <1>1, <1>2, <1>3, <1>4, <1>5, <1>6, <1>7, <1>8 DEF CoalescerInv

(* With no flight left a request runs alone, holding State::mutex.         *)
LEMMA GoAloneInv ==
    ASSUME Share!CoalescerAssumption, CoalescerInv, NEW r \in Requests, Share!GoAlone(r)
    PROVE  CoalescerInv'
  <1>1. Share!TypeOK'
    BY DEF CoalescerInv, Share!GoAlone, Share!Goto, Share!Free, Share!TypeOK, Share!Stages,
       Share!Results
  <1>2. FlightsLimited'
    BY DEF CoalescerInv, Share!GoAlone, FlightsLimited, Share!BoundedFlights, Share!UnderWay
  <1>3. Share!FollowersGetLeadersResult'
    BY DEF CoalescerInv, Share!GoAlone, Share!Goto, Share!Free, Share!TypeOK,
       Share!FollowersGetLeadersResult
  <1>4. PathsInv'
    BY DEF CoalescerInv, Share!GoAlone, Share!Goto, Share!Free, Share!TypeOK, PathsInv
  <1>5. LockInv'
    BY DEF CoalescerInv, Share!GoAlone, Share!Goto, Share!Free, Share!TypeOK, LockInv,
       Share!CoalescerAssumption
  <1>6. FlightsInv'
    BY DEF CoalescerInv, Share!GoAlone, Share!Goto, Share!Free, Share!TypeOK, FlightsInv,
       Share!UnderWay
  <1>7. LeadersInv'
    BY DEF CoalescerInv, Share!GoAlone, Share!Goto, Share!Free, Share!TypeOK, LeadersInv
  <1>8. FollowersInv'
    BY DEF CoalescerInv, Share!GoAlone, Share!Goto, Share!Free, Share!TypeOK, FollowersInv
  <1>9. QED
    BY <1>1, <1>2, <1>3, <1>4, <1>5, <1>6, <1>7, <1>8 DEF CoalescerInv

(* A follower takes the flight of its key.                                 *)
LEMMA FollowInv ==
    ASSUME Share!CoalescerAssumption, CoalescerInv, NEW r \in Requests, Share!Follow(r)
    PROVE  CoalescerInv'
  <1>1. Share!TypeOK'
    BY DEF CoalescerInv, Share!Follow, Share!Goto, Share!Free, Share!TypeOK, Share!Stages,
       Share!Results, PathsInv
  <1>2. FlightsLimited'
    BY DEF CoalescerInv, Share!Follow, FlightsLimited, Share!BoundedFlights, Share!UnderWay
  <1>3. Share!FollowersGetLeadersResult'
    BY DEF CoalescerInv, Share!Follow, Share!Goto, Share!Free, Share!TypeOK,
       Share!FollowersGetLeadersResult, Share!CoalescerAssumption, PathsInv, LockInv,
       FlightsInv, LeadersInv, FollowersInv, Share!UnderWay, Share!Stages, Share!Outcomes
  <1>4. PathsInv'
    BY DEF CoalescerInv, Share!Follow, Share!Goto, Share!Free, Share!TypeOK, PathsInv
  <1>5. LockInv'
    BY DEF CoalescerInv, Share!Follow, Share!Goto, Share!Free, Share!TypeOK, LockInv
  <1>6. FlightsInv'
    BY DEF CoalescerInv, Share!Follow, Share!Goto, Share!Free, Share!TypeOK, FlightsInv,
       Share!UnderWay
  <1>7. LeadersInv'
    BY DEF CoalescerInv, Share!Follow, Share!Goto, Share!Free, Share!TypeOK, LeadersInv
  <1>8. FollowersInv'
    BY DEF CoalescerInv, Share!Follow, Share!Goto, Share!Free, Share!TypeOK, FollowersInv,
       Share!CoalescerAssumption, PathsInv, LockInv, FlightsInv, LeadersInv, Share!UnderWay,
       Share!Stages, Share!Outcomes
  <1>9. QED
    BY <1>1, <1>2, <1>3, <1>4, <1>5, <1>6, <1>7, <1>8 DEF CoalescerInv

(* A lone operation ends; if it held State::mutex it lets it go.           *)
LEMMA AloneReturnsInv ==
    ASSUME Share!CoalescerAssumption, CoalescerInv, NEW r \in Requests,
           NEW outcome \in Share!Outcomes, Share!AloneReturns(r, outcome)
    PROVE  CoalescerInv'
  <1>1. Share!TypeOK'
    BY DEF CoalescerInv, Share!AloneReturns, Share!Return, Share!Goto, Share!TypeOK,
       Share!Stages, Share!Results
  <1>2. FlightsLimited'
    BY DEF CoalescerInv, Share!AloneReturns, FlightsLimited, Share!BoundedFlights,
       Share!UnderWay
  <1>3. Share!FollowersGetLeadersResult'
    BY DEF CoalescerInv, Share!AloneReturns, Share!Return, Share!Goto, Share!TypeOK,
       Share!FollowersGetLeadersResult, Share!CoalescerAssumption, PathsInv, LockInv,
       FlightsInv, LeadersInv, FollowersInv, Share!UnderWay, Share!Stages, Share!Outcomes
  <1>4. PathsInv'
    BY DEF CoalescerInv, Share!AloneReturns, Share!Return, Share!Goto, Share!TypeOK, PathsInv
  <1>5. LockInv'
    BY DEF CoalescerInv, Share!AloneReturns, Share!Return, Share!Goto, Share!TypeOK, LockInv,
       Share!CoalescerAssumption
  <1>6. FlightsInv'
    BY DEF CoalescerInv, Share!AloneReturns, Share!Return, Share!Goto, Share!TypeOK, FlightsInv,
       Share!UnderWay
  <1>7. LeadersInv'
    BY DEF CoalescerInv, Share!AloneReturns, Share!Return, Share!Goto, Share!TypeOK, LeadersInv
  <1>8. FollowersInv'
    BY DEF CoalescerInv, Share!AloneReturns, Share!Return, Share!Goto, Share!TypeOK,
       FollowersInv
  <1>9. QED
    BY <1>1, <1>2, <1>3, <1>4, <1>5, <1>6, <1>7, <1>8 DEF CoalescerInv

(* The leader's operation ends.                                            *)
LEMMA LeaderReturnsInv ==
    ASSUME Share!CoalescerAssumption, CoalescerInv, NEW r \in Requests,
           NEW outcome \in Share!Outcomes, Share!LeaderReturns(r, outcome)
    PROVE  CoalescerInv'
  <1>1. Share!TypeOK'
    BY DEF CoalescerInv, Share!LeaderReturns, Share!Goto, Share!TypeOK, Share!Stages,
       Share!Results
  <1>2. FlightsLimited'
    BY DEF CoalescerInv, Share!LeaderReturns, FlightsLimited, Share!BoundedFlights,
       Share!UnderWay
  <1>3. Share!FollowersGetLeadersResult'
    BY DEF CoalescerInv, Share!LeaderReturns, Share!Goto, Share!TypeOK,
       Share!FollowersGetLeadersResult, LeadersInv
  <1>4. PathsInv'
    BY DEF CoalescerInv, Share!LeaderReturns, Share!Goto, Share!TypeOK, PathsInv
  <1>5. LockInv'
    BY DEF CoalescerInv, Share!LeaderReturns, Share!Goto, Share!TypeOK, LockInv
  <1>6. FlightsInv'
    BY DEF CoalescerInv, Share!LeaderReturns, Share!Goto, Share!TypeOK, FlightsInv,
       Share!UnderWay
  <1>7. LeadersInv'
    BY DEF CoalescerInv, Share!LeaderReturns, Share!Goto, Share!TypeOK, LeadersInv,
       Share!Outcomes
  <1>8. FollowersInv'
    BY DEF CoalescerInv, Share!LeaderReturns, Share!Goto, Share!TypeOK, FollowersInv
  <1>9. QED
    BY <1>1, <1>2, <1>3, <1>4, <1>5, <1>6, <1>7, <1>8 DEF CoalescerInv

(* The leader publishes and takes its flight out of the map.               *)
LEMMA PublishInv ==
    ASSUME Share!CoalescerAssumption, CoalescerInv, NEW r \in Requests, Share!Publish(r)
    PROVE  CoalescerInv'
  <1>1. Share!TypeOK'
    BY DEF CoalescerInv, Share!Publish, Share!Goto, Share!Free, Share!TypeOK, Share!Stages,
       Share!Results, LeadersInv
  <1>2. FlightsLimited'
    <2>1. Share!UnderWay' = Share!UnderWay \ {key[r]} /\ key[r] \in Share!UnderWay
      BY DEF CoalescerInv, Share!CoalescerAssumption, Share!TypeOK, PathsInv, LeadersInv,
         Share!Publish, Share!UnderWay
    <2>2. IsFiniteSet(Share!UnderWay) /\ Cardinality(Share!UnderWay) \in Nat
      BY FS_CardinalityType DEF CoalescerInv, FlightsLimited
    <2>3. /\ IsFiniteSet(Share!UnderWay')
          /\ Cardinality(Share!UnderWay') = Cardinality(Share!UnderWay) - 1
      BY <2>1, <2>2, FS_RemoveElement
    <2>4. QED
      BY <2>2, <2>3, SameCardinality
      DEF CoalescerInv, FlightsLimited, Share!BoundedFlights, Share!CoalescerAssumption
  <1>3. Share!FollowersGetLeadersResult'
    BY DEF CoalescerInv, Share!Publish, Share!Goto, Share!Free, Share!TypeOK,
       Share!FollowersGetLeadersResult
  <1>4. PathsInv'
    BY DEF CoalescerInv, Share!Publish, Share!Goto, Share!Free, Share!TypeOK, PathsInv
  <1>5. LockInv'
    BY DEF CoalescerInv, Share!Publish, Share!Goto, Share!Free, Share!TypeOK, LockInv
  <1>6. FlightsInv'
    BY DEF CoalescerInv, Share!Publish, Share!Goto, Share!Free, Share!TypeOK, FlightsInv,
       Share!UnderWay
  <1>7. LeadersInv'
    BY DEF CoalescerInv, Share!Publish, Share!Goto, Share!Free, Share!TypeOK, LeadersInv
  <1>8. FollowersInv'
    BY DEF CoalescerInv, Share!Publish, Share!Goto, Share!Free, Share!TypeOK, FollowersInv
  <1>9. QED
    BY <1>1, <1>2, <1>3, <1>4, <1>5, <1>6, <1>7, <1>8 DEF CoalescerInv

(* notify_all moves the sleepers of this flight only.                      *)
LEMMA NotifyInv ==
    ASSUME Share!CoalescerAssumption, CoalescerInv, NEW r \in Requests, Share!Notify(r)
    PROVE  CoalescerInv'
  <1>1. Share!TypeOK'
    BY DEF CoalescerInv, Share!Notify, Share!TypeOK, Share!Stages, Share!Results
  <1>2. FlightsLimited'
    BY DEF CoalescerInv, Share!Notify, FlightsLimited, Share!BoundedFlights, Share!UnderWay
  <1>3. Share!FollowersGetLeadersResult'
    BY DEF CoalescerInv, Share!Notify, Share!TypeOK, Share!FollowersGetLeadersResult,
       FollowersInv
  <1>4. PathsInv'
    BY DEF CoalescerInv, Share!Notify, Share!TypeOK, PathsInv
  <1>5. LockInv'
    BY DEF CoalescerInv, Share!Notify, Share!TypeOK, LockInv
  <1>6. FlightsInv'
    BY DEF CoalescerInv, Share!Notify, Share!TypeOK, FlightsInv, Share!UnderWay
  <1>7. LeadersInv'
    BY DEF CoalescerInv, Share!Notify, Share!TypeOK, LeadersInv
  <1>8. FollowersInv'
    BY DEF CoalescerInv, Share!Notify, Share!TypeOK, FollowersInv
  <1>9. QED
    BY <1>1, <1>2, <1>3, <1>4, <1>5, <1>6, <1>7, <1>8 DEF CoalescerInv

(* A follower goes to sleep.                                               *)
LEMMA WaitInv ==
    ASSUME Share!CoalescerAssumption, CoalescerInv, NEW r \in Requests, Share!Wait(r)
    PROVE  CoalescerInv'
  <1>1. Share!TypeOK'
    BY DEF CoalescerInv, Share!Wait, Share!Goto, Share!Free, Share!TypeOK, Share!Stages,
       Share!Results
  <1>2. FlightsLimited'
    BY DEF CoalescerInv, Share!Wait, FlightsLimited, Share!BoundedFlights, Share!UnderWay
  <1>3. Share!FollowersGetLeadersResult'
    BY DEF CoalescerInv, Share!Wait, Share!Goto, Share!Free, Share!TypeOK,
       Share!FollowersGetLeadersResult
  <1>4. PathsInv'
    BY DEF CoalescerInv, Share!Wait, Share!Goto, Share!Free, Share!TypeOK, PathsInv
  <1>5. LockInv'
    BY DEF CoalescerInv, Share!Wait, Share!Goto, Share!Free, Share!TypeOK, LockInv
  <1>6. FlightsInv'
    BY DEF CoalescerInv, Share!Wait, Share!Goto, Share!Free, Share!TypeOK, FlightsInv,
       Share!UnderWay
  <1>7. LeadersInv'
    BY DEF CoalescerInv, Share!Wait, Share!Goto, Share!Free, Share!TypeOK, LeadersInv
  <1>8. FollowersInv'
    BY DEF CoalescerInv, Share!Wait, Share!Goto, Share!Free, Share!TypeOK, FollowersInv
  <1>9. QED
    BY <1>1, <1>2, <1>3, <1>4, <1>5, <1>6, <1>7, <1>8 DEF CoalescerInv

(* A follower returns what its leader published.                           *)
LEMMA WakeWithResultInv ==
    ASSUME Share!CoalescerAssumption, CoalescerInv, NEW r \in Requests, Share!WakeWithResult(r)
    PROVE  CoalescerInv'
  <1>1. Share!TypeOK'
    BY DEF CoalescerInv, Share!WakeWithResult, Share!Return, Share!Goto, Share!Free,
       Share!TypeOK, Share!Stages, Share!Results, Share!CoalescerAssumption, PathsInv,
       LockInv, FlightsInv, LeadersInv, FollowersInv, Share!UnderWay, Share!Outcomes
  <1>2. FlightsLimited'
    BY DEF CoalescerInv, Share!WakeWithResult, FlightsLimited, Share!BoundedFlights,
       Share!UnderWay
  <1>3. Share!FollowersGetLeadersResult'
    BY DEF CoalescerInv, Share!WakeWithResult, Share!Return, Share!Goto, Share!Free,
       Share!TypeOK, Share!FollowersGetLeadersResult, LeadersInv
  <1>4. PathsInv'
    BY DEF CoalescerInv, Share!WakeWithResult, Share!Return, Share!Goto, Share!Free,
       Share!TypeOK, PathsInv
  <1>5. LockInv'
    BY DEF CoalescerInv, Share!WakeWithResult, Share!Return, Share!Goto, Share!Free,
       Share!TypeOK, LockInv
  <1>6. FlightsInv'
    BY DEF CoalescerInv, Share!WakeWithResult, Share!Return, Share!Goto, Share!Free,
       Share!TypeOK, FlightsInv, Share!UnderWay
  <1>7. LeadersInv'
    BY DEF CoalescerInv, Share!WakeWithResult, Share!Return, Share!Goto, Share!Free,
       Share!TypeOK, LeadersInv
  <1>8. FollowersInv'
    BY DEF CoalescerInv, Share!WakeWithResult, Share!Return, Share!Goto, Share!Free,
       Share!TypeOK, FollowersInv
  <1>9. QED
    BY <1>1, <1>2, <1>3, <1>4, <1>5, <1>6, <1>7, <1>8 DEF CoalescerInv

(* A follower gives up.                                                    *)
LEMMA TimeOutInv ==
    ASSUME Share!CoalescerAssumption, CoalescerInv, NEW r \in Requests, Share!TimeOut(r)
    PROVE  CoalescerInv'
  <1>1. Share!TypeOK'
    BY DEF CoalescerInv, Share!TimeOut, Share!Return, Share!Goto, Share!Free, Share!TypeOK,
       Share!Stages, Share!Results
  <1>2. FlightsLimited'
    BY DEF CoalescerInv, Share!TimeOut, FlightsLimited, Share!BoundedFlights, Share!UnderWay
  <1>3. Share!FollowersGetLeadersResult'
    BY DEF CoalescerInv, Share!TimeOut, Share!Return, Share!Goto, Share!Free, Share!TypeOK,
       Share!FollowersGetLeadersResult, LeadersInv
  <1>4. PathsInv'
    BY DEF CoalescerInv, Share!TimeOut, Share!Return, Share!Goto, Share!Free, Share!TypeOK,
       PathsInv
  <1>5. LockInv'
    BY DEF CoalescerInv, Share!TimeOut, Share!Return, Share!Goto, Share!Free, Share!TypeOK,
       LockInv
  <1>6. FlightsInv'
    BY DEF CoalescerInv, Share!TimeOut, Share!Return, Share!Goto, Share!Free, Share!TypeOK,
       FlightsInv, Share!UnderWay
  <1>7. LeadersInv'
    BY DEF CoalescerInv, Share!TimeOut, Share!Return, Share!Goto, Share!Free, Share!TypeOK,
       LeadersInv
  <1>8. FollowersInv'
    BY DEF CoalescerInv, Share!TimeOut, Share!Return, Share!Goto, Share!Free, Share!TypeOK,
       FollowersInv
  <1>9. QED
    BY <1>1, <1>2, <1>3, <1>4, <1>5, <1>6, <1>7, <1>8 DEF CoalescerInv

(* Time passes.                                                            *)
LEMMA DeadlinePassesInv ==
    ASSUME Share!CoalescerAssumption, CoalescerInv, NEW r \in Requests, Share!DeadlinePasses(r)
    PROVE  CoalescerInv'
  <1>1. Share!TypeOK'
    BY DEF CoalescerInv, Share!DeadlinePasses, Share!TypeOK, Share!Stages, Share!Results
  <1>2. FlightsLimited'
    BY DEF CoalescerInv, Share!DeadlinePasses, FlightsLimited, Share!BoundedFlights,
       Share!UnderWay
  <1>3. Share!FollowersGetLeadersResult'
    BY DEF CoalescerInv, Share!DeadlinePasses, Share!TypeOK, Share!FollowersGetLeadersResult
  <1>4. PathsInv'
    BY DEF CoalescerInv, Share!DeadlinePasses, Share!TypeOK, PathsInv
  <1>5. LockInv'
    BY DEF CoalescerInv, Share!DeadlinePasses, Share!TypeOK, LockInv
  <1>6. FlightsInv'
    BY DEF CoalescerInv, Share!DeadlinePasses, Share!TypeOK, FlightsInv, Share!UnderWay
  <1>7. LeadersInv'
    BY DEF CoalescerInv, Share!DeadlinePasses, Share!TypeOK, LeadersInv
  <1>8. FollowersInv'
    BY DEF CoalescerInv, Share!DeadlinePasses, Share!TypeOK, FollowersInv
  <1>9. QED
    BY <1>1, <1>2, <1>3, <1>4, <1>5, <1>6, <1>7, <1>8 DEF CoalescerInv

LEMMA CoalescerNext ==
    ASSUME Share!CoalescerAssumption, CoalescerInv, [Share!Next]_(Share!vars)
    PROVE  CoalescerInv'
  <1>1. ASSUME NEW r \in Requests, Share!Step(r) PROVE CoalescerInv'
    BY <1>1, ExecuteInv, LeadInv, GoAloneInv, FollowInv, AloneReturnsInv, LeaderReturnsInv,
       PublishInv, NotifyInv, WaitInv, WakeWithResultInv, TimeOutInv DEF Share!Step
  <1>2. ASSUME NEW r \in Requests, Share!DeadlinePasses(r) PROVE CoalescerInv'
    BY <1>2, DeadlinePassesInv
  <1>3. CASE Share!Quiet \/ UNCHANGED Share!vars
    BY <1>3 DEF Share!Quiet, Share!vars, CoalescerInv, Share!TypeOK, FlightsLimited,
       Share!BoundedFlights, Share!UnderWay, Share!FollowersGetLeadersResult, PathsInv,
       LockInv, FlightsInv, LeadersInv, FollowersInv
  <1>4. QED
    BY <1>1, <1>2, <1>3 DEF Share!Next

(* The strengthening holds in every reachable state.                       *)
THEOREM CoalescerInvariant == Share!Spec => []CoalescerInv
  <1>1. Share!Init => CoalescerInv
    BY CoalescerInit, PathAssumption
  <1>2. CoalescerInv /\ [Share!Next]_(Share!vars) => CoalescerInv'
    BY CoalescerNext, PathAssumption
  <1>3. QED
    BY <1>1, <1>2, PTL DEF Share!Spec

(* Of the requests for one key that are in execute together only one runs  *)
(* its operation: a leader's flight occupies the key, and a request that   *)
(* found no flight left runs with State::mutex held.                       *)
THEOREM OneOperationPerKey == Share!Spec => []NoDuplicateOperation
  <1>1. CoalescerInv => NoDuplicateOperation
    <2> SUFFICES ASSUME CoalescerInv, NEW r \in Requests, NEW s \in Requests, r # s,
                        key[r] = key[s], key[r] # NoKey,
                        stage[r] \in Share!Running, stage[s] \in Share!Running
                 PROVE  FALSE
      BY DEF NoDuplicateOperation, Share!NoDuplicateOperation
    <2>1. stage[r] \in {"leading", "alone_locked"} /\ stage[s] \in {"leading", "alone_locked"}
      BY DEF Share!Running, CoalescerInv, PathsInv
    <2>2. r # NoRequest /\ s # NoRequest
      BY PathAssumption DEF Share!CoalescerAssumption
    <2>3. QED
      BY <2>1, <2>2 DEF CoalescerInv, LockInv, LeadersInv
  <1>2. QED
    BY <1>1, CoalescerInvariant, PTL

(* A flight that can be joined has its result still to come, a follower    *)
(* returns what the leader of its own key returned, and max_flights holds. *)
THEOREM FlightsStayLive == Share!Spec => []FlightsAreLive
  <1>1. CoalescerInv => FlightsAreLive
    <2> SUFFICES ASSUME CoalescerInv PROVE FlightsAreLive
      OBVIOUS
    <2>1. \A k \in Share!UnderWay : flights[k] \in Requests
      BY DEF CoalescerInv, Share!TypeOK, Share!UnderWay
    <2>2. \A k \in Share!UnderWay :
             /\ key[flights[k]] = k /\ ~complete[flights[k]]
             /\ stage[flights[k]] \in {"leading", "publishing"}
      BY <2>1 DEF CoalescerInv, FlightsInv, LeadersInv
    <2>3. QED
      BY <2>2 DEF CoalescerInv, FlightsLimited, FlightsAreLive, Share!FlightsAreLive
  <1>2. QED
    BY <1>1, CoalescerInvariant, PTL
-----------------------------------------------------------------------------
(* What may be left of the time the attempt was given when addresses are   *)
(* still to be tried, and what may have been used up before and after.     *)
TimeInv ==
    /\ pc = "start" => now = 0
    /\ pc = "loop" => now <= Timeout + MaxOversleep
    /\ pc = "resolve" => now + timeout_ms = Timeout
    /\ pc \in {"address", "call"} =>
          /\ addresses \in 1 .. 2
          /\ addresses = 2 => now <= Timeout
          /\ addresses = 1 => now <= Timeout + timeout_ms
    /\ pc = "judge" => now <= Timeout + 2 * timeout_ms
    /\ pc = "done" => now <= 3 * Timeout + MaxOversleep

(* The limits on retries hold once the request has entered.                *)
RetryInv ==
    /\ pc = "start" => attempt = 0 /\ calls = 0
    /\ pc # "start" =>
          /\ attempt <= max_retries
          /\ ~retry_safe \/ link = "offline" => max_retries = 0
          /\ link = "weak" => max_retries <= 1

(* Every attempt calls the selector once per address.                      *)
CallInv ==
    /\ pc \in {"loop", "resolve"} => calls <= 2 * attempt
    /\ pc = "address" => calls <= 2 * attempt + 2 - addresses
    /\ pc = "call" => calls <= 2 * attempt + 3 - addresses
    /\ pc \in {"judge", "done"} => calls <= 2 * attempt + 2
    /\ ~retry_safe =>
          /\ pc \in {"address", "call"} => addresses = 1
          /\ pc \in {"loop", "resolve", "address"} => calls = 0
          /\ calls <= 1

DeadlineInv == TypeOK /\ TimeInv /\ RetryInv /\ CallInv

LEMMA ConstantTypes ==
    /\ Timeout \in Nat \ {0} /\ MaxRetries \in Nat /\ MaxOversleep \in Nat
    /\ Delay \in [0 .. MaxRetries + 1 -> Nat]
  BY DeadlineAssumption

(* A request that has not entered yet.                                     *)
LEMMA DeadlineInit == Init => DeadlineInv
  <1> SUFFICES ASSUME Init PROVE DeadlineInv
    OBVIOUS
  <1>1. TypeOK
    BY ConstantTypes DEF Init, TypeOK, Results
  <1>2. TimeInv /\ RetryInv /\ CallInv
    BY DEF Init, TimeInv, RetryInv, CallInv
  <1>3. QED
    BY <1>1, <1>2 DEF DeadlineInv

(* normalize_retry_safety and WeakNetInterceptor set the limit.            *)
LEMMA EnterInv ==
    ASSUME DeadlineInv, NEW d \in 0 .. 1, Enter(d)
    PROVE  DeadlineInv'
  <1>1. /\ max_retries' \in 0 .. MaxRetries + 1
        /\ ~retry_safe \/ link = "offline" => max_retries' = 0
        /\ link = "weak" => max_retries' <= 1
    BY ConstantTypes
    DEF DeadlineInv, TypeOK, Enter, Restricted, Normalized, AtLeast, AtMost, Links
  <1>2. now' \in Nat /\ now' <= 1 /\ pc' = "loop"
    BY DEF DeadlineInv, TypeOK, TimeInv, Enter
  <1>3. TypeOK'
    BY <1>1, <1>2 DEF DeadlineInv, TypeOK, Enter
  <1>4. TimeInv'
    BY <1>2, ConstantTypes DEF TimeInv
  <1>5. RetryInv' /\ CallInv'
    BY <1>1, <1>2 DEF DeadlineInv, TypeOK, RetryInv, CallInv, Enter
  <1>6. QED
    BY <1>3, <1>4, <1>5 DEF DeadlineInv

(* An attempt gets the time that is left.                                  *)
LEMMA StartAttemptInv ==
    ASSUME DeadlineInv, StartAttempt
    PROVE  DeadlineInv'
  <1>1. timeout_ms' \in 1 .. Timeout /\ now' + timeout_ms' = Timeout
    BY ConstantTypes DEF DeadlineInv, TypeOK, StartAttempt
  <1>2. TypeOK'
    BY <1>1 DEF DeadlineInv, TypeOK, StartAttempt
  <1>3. TimeInv'
    BY <1>1 DEF TimeInv, StartAttempt
  <1>4. RetryInv' /\ CallInv'
    BY DEF DeadlineInv, RetryInv, CallInv, StartAttempt
  <1>5. QED
    BY <1>2, <1>3, <1>4 DEF DeadlineInv

(* There is no time left for an attempt.                                   *)
LEMMA DeadlineReachedInv ==
    ASSUME DeadlineInv, DeadlineReached
    PROVE  DeadlineInv'
  <1>1. TypeOK'
    BY DEF DeadlineInv, TypeOK, DeadlineReached, Results
  <1>2. TimeInv'
    BY ConstantTypes DEF DeadlineInv, TypeOK, TimeInv, DeadlineReached
  <1>3. RetryInv' /\ CallInv'
    BY DEF DeadlineInv, TypeOK, RetryInv, CallInv, DeadlineReached
  <1>4. QED
    BY <1>1, <1>2, <1>3 DEF DeadlineInv

(* The host is resolved within the attempt's time, or not.                 *)
LEMMA ResolveInv ==
    ASSUME DeadlineInv, NEW d \in 0 .. Timeout, NEW n \in 0 .. 3, Resolve(d, n)
    PROVE  DeadlineInv'
  <1>1. now' \in Nat /\ now' <= Timeout /\ addresses' \in 0 .. 2
    BY ConstantTypes DEF DeadlineInv, TypeOK, TimeInv, Resolve, AtMost
  <1>2. \/ pc' = "judge" /\ result' = "DNS" /\ addresses' = 0
        \/ /\ pc' = "address" /\ result' = result /\ addresses' \in 1 .. 2
           /\ ~retry_safe => addresses' = 1
    BY DEF Resolve, AtMost
  <1>3. TypeOK'
    BY <1>1, <1>2 DEF DeadlineInv, TypeOK, Resolve, Results
  <1>4. TimeInv'
    BY <1>1, <1>2, ConstantTypes DEF DeadlineInv, TypeOK, TimeInv, Resolve
  <1>5. RetryInv' /\ CallInv'
    BY <1>2 DEF DeadlineInv, TypeOK, RetryInv, CallInv, Resolve
  <1>6. QED
    BY <1>3, <1>4, <1>5 DEF DeadlineInv

(* The selector is called for one more address.                            *)
LEMMA CallSelectorInv ==
    ASSUME DeadlineInv, CallSelector
    PROVE  DeadlineInv'
  <1>1. TypeOK'
    BY DEF DeadlineInv, TypeOK, CallSelector
  <1>2. TimeInv'
    BY DEF DeadlineInv, TimeInv, CallSelector
  <1>3. RetryInv' /\ CallInv'
    BY DEF DeadlineInv, TypeOK, TimeInv, RetryInv, CallInv, CallSelector
  <1>4. QED
    BY <1>1, <1>2, <1>3 DEF DeadlineInv

(* The selector answers within the timeout it was given.                   *)
LEMMA SelectorReturnsInv ==
    ASSUME DeadlineInv, NEW d \in 0 .. Timeout, NEW r \in {"OK", "CONNECT", "PROTOCOL", "TLS"},
           SelectorReturns(d, r)
    PROVE  DeadlineInv'
  <1>1. /\ pc' \in {"address", "judge"} /\ addresses' = addresses - 1 /\ addresses \in 1 .. 2
        /\ pc' = "address" => addresses' = 1
    BY DEF DeadlineInv, TypeOK, TimeInv, SelectorReturns
  <1>2. now' \in Nat /\ now' = now + d /\ d <= timeout_ms /\ pc = "call"
    BY DEF DeadlineInv, TypeOK, SelectorReturns
  <1>3. TypeOK'
    BY <1>1, <1>2 DEF DeadlineInv, TypeOK, SelectorReturns, Results
  <1>4. TimeInv'
    BY <1>1, <1>2, ConstantTypes DEF DeadlineInv, TypeOK, TimeInv, SelectorReturns
  <1>5. RetryInv' /\ CallInv'
    BY <1>1, <1>2 DEF DeadlineInv, TypeOK, RetryInv, CallInv, SelectorReturns
  <1>6. QED
    BY <1>3, <1>4, <1>5 DEF DeadlineInv

(* The request returns.                                                    *)
LEMMA FinishInv ==
    ASSUME DeadlineInv, Finish
    PROVE  DeadlineInv'
  <1>1. TypeOK'
    BY ConstantTypes DEF DeadlineInv, TypeOK, Finish
  <1>2. TimeInv'
    BY ConstantTypes DEF DeadlineInv, TypeOK, TimeInv, Finish
  <1>3. RetryInv' /\ CallInv'
    BY DEF DeadlineInv, TypeOK, RetryInv, CallInv, Finish
  <1>4. QED
    BY <1>1, <1>2, <1>3 DEF DeadlineInv

(* One more attempt, if the limit and the deadline allow it.               *)
LEMMA BackoffInv ==
    ASSUME DeadlineInv, NEW oversleep \in 0 .. MaxOversleep, Backoff(oversleep)
    PROVE  DeadlineInv'
  <1>1. Delay[attempt] \in Nat
    BY ConstantTypes DEF DeadlineInv, TypeOK
  <1>2. retry_safe /\ attempt < max_retries /\ attempt' = attempt + 1
    BY DEF DeadlineInv, RetryInv, TypeOK, Backoff, RetryLimit
  <1>3. TypeOK'
    BY <1>1, <1>2, ConstantTypes DEF DeadlineInv, TypeOK, Backoff
  <1>4. TimeInv'
    BY <1>1, ConstantTypes DEF DeadlineInv, TypeOK, TimeInv, Backoff
  <1>5. RetryInv' /\ CallInv'
    BY <1>2, ConstantTypes DEF DeadlineInv, TypeOK, RetryInv, CallInv, Backoff
  <1>6. QED
    BY <1>3, <1>4, <1>5 DEF DeadlineInv

(* Every step preserves the strengthening.                                 *)
LEMMA DeadlineNext == DeadlineInv /\ [Next]_vars => DeadlineInv'
  <1>1. DeadlineInv /\ UNCHANGED vars => DeadlineInv'
    BY DEF vars, DeadlineInv, TypeOK, TimeInv, RetryInv, CallInv
  <1>2. QED
    BY <1>1, EnterInv, StartAttemptInv, DeadlineReachedInv, ResolveInv, CallSelectorInv,
       SelectorReturnsInv, FinishInv, BackoffInv DEF Next

(* An unsafe request is handed to the selector at most once and a safe one *)
(* at most twice per attempt, an offline network gets no second attempt,   *)
(* and the caller has its answer within three timeouts and one oversleep.  *)
THEOREM EffortIsBounded == Spec => []BoundedEffort
  <1>1. DeadlineInv => BoundedEffort
    <2> SUFFICES ASSUME DeadlineInv PROVE BoundedEffort
      OBVIOUS
    <2>1. now <= 3 * Timeout + MaxOversleep
      BY ConstantTypes DEF DeadlineInv, TypeOK, TimeInv
    <2>2. CallsBounded
      BY DEF DeadlineInv, TypeOK, TimeInv, RetryInv, CallInv, CallsBounded
    <2>3. QED
      BY <2>1, <2>2 DEF BoundedEffort, DeadlineInv
  <1>2. QED
    BY <1>1, DeadlineInit, DeadlineNext, PTL DEF Spec
-----------------------------------------------------------------------------
(* The protocols a request tries, and the circuits that all requests       *)
(* share.  The table of circuits is within its limit and a ban goes with   *)
(* the full count of failures, which the history variable bears out.       *)
CircuitInv ==
    /\ IsFiniteSet(known) /\ Cardinality(known) <= MaxStates
    /\ \A k \in Selector!Keys :
        /\ ban[k] # "none" <=> failures[k] = MaxFailures
        /\ failures[k] <= streak[k]

(* A request that is not safe to repeat has called one engine at most, and *)
(* none while it still has engines to choose from.                         *)
WriteInv ==
    \A r \in Attempts :
        ~run[r].retry_safe =>
            /\ run[r].called = {} \/ \E e \in Selector!Engines : run[r].called = {e}
            /\ Selector!Choosing(r) => run[r].called = {}

(* An engine that is being called is still the first of the rest.          *)
CallingInv == \A r \in Attempts : run[r].stage = "calling" => run[r].rest # <<>>

SelectorInv == Selector!TypeOK /\ CircuitInv /\ WriteInv /\ CallingInv

(* The chain of every policy is a sequence of engines.                     *)
LEMMA ChainType ==
    ASSUME NEW policy \in Selector!AllPolicies
    PROVE  Selector!Chain(policy) \in Seq(Selector!Engines)
  <1>1. /\ <<"H3", "H2", "H1">> \in Seq(Selector!Engines)
        /\ <<"H2", "H1">> \in Seq(Selector!Engines)
        /\ <<"H3">> \in Seq(Selector!Engines)
        /\ <<"H2">> \in Seq(Selector!Engines) /\ <<"H1">> \in Seq(Selector!Engines)
    BY DEF Selector!Engines
  <1>2. CASE policy \in {"AUTO", "PREFER_HTTP_3"}
    BY <1>1, <1>2 DEF Selector!Chain
  <1>3. CASE policy = "PREFER_HTTP_2"
    BY <1>1, <1>3 DEF Selector!Chain
  <1>4. CASE policy = "HTTP_3_ONLY"
    BY <1>1, <1>4 DEF Selector!Chain
  <1>5. CASE policy = "HTTP_2_ONLY"
    BY <1>1, <1>5 DEF Selector!Chain
  <1>6. CASE policy = "HTTP_1_1_ONLY"
    BY <1>1, <1>6 DEF Selector!Chain
  <1>7. QED
    BY <1>2, <1>3, <1>4, <1>5, <1>6 DEF Selector!AllPolicies

(* What is left of a chain after its head is a sequence of engines, too.   *)
LEMMA HeadAndTail ==
    /\ <<>> \in Seq(Selector!Engines)
    /\ \A s \in Seq(Selector!Engines) :
          s # <<>> => Head(s) \in Selector!Engines /\ Tail(s) \in Seq(Selector!Engines)
  OBVIOUS

(* The key of the engine at hand is one of the table's.                    *)
LEMMA KeyType ==
    ASSUME Selector!TypeOK, NEW r \in Attempts, run[r].rest # <<>>
    PROVE  /\ run[r] \in Selector!Runs
           /\ Selector!Engine(r) \in Selector!Engines /\ Selector!Key(r) \in Selector!Keys
           /\ \A b \in BOOLEAN : Selector!RestAfter(r, b) \in Seq(Selector!Engines)
  <1>1. run[r] \in Selector!Runs
    BY DEF Selector!TypeOK
  <1>2. run[r].rest \in Seq(Selector!Engines) /\ run[r].host \in Hosts
    BY <1>1 DEF Selector!Runs
  <1>3. Selector!Engine(r) \in Selector!Engines /\ Tail(run[r].rest) \in Seq(Selector!Engines)
    BY <1>2, HeadAndTail DEF Selector!Engine
  <1>4. QED
    BY <1>1, <1>2, <1>3 DEF Selector!Key, Selector!Keys, Selector!RestAfter

(* A step that leaves the circuits alone preserves what is said of them.   *)
LEMMA CircuitsUntouched ==
    ASSUME CircuitInv, UNCHANGED <<known, failures, ban, streak>>
    PROVE  CircuitInv'
  BY DEF CircuitInv

(* A step of one request leaves the others alone.                          *)
LEMMA OneRunMoves ==
    ASSUME Selector!TypeOK, WriteInv, CallingInv, NEW r \in Attempts, NEW x \in Selector!Runs,
           run' = [run EXCEPT ![r] = x],
           x.stage = "calling" => x.rest # <<>>,
           ~x.retry_safe =>
              /\ x.called = {} \/ \E e \in Selector!Engines : x.called = {e}
              /\ x.stage = "choosing" /\ x.rest # <<>> => x.called = {}
    PROVE  run' \in [Attempts -> Selector!Runs] /\ WriteInv' /\ CallingInv'
  <1>1. /\ run' \in [Attempts -> Selector!Runs] /\ run'[r] = x
        /\ \A q \in Attempts \ {r} : run'[q] = run[q]
    BY DEF Selector!TypeOK
  <1>2. WriteInv'
    BY <1>1 DEF WriteInv, Selector!Choosing
  <1>3. CallingInv'
    BY <1>1 DEF CallingInv
  <1>4. QED
    BY <1>1, <1>2, <1>3

LEMMA SelectorInit == Selector!SelectorAssumption /\ Selector!Init => SelectorInv
  <1> SUFFICES ASSUME Selector!SelectorAssumption, Selector!Init PROVE SelectorInv
    OBVIOUS
  <1> DEFINE host == CHOOSE h \in Hosts : TRUE
             policy == CHOOSE p \in Policies : TRUE
             x == [Selector!NewRun(host, policy, FALSE, "OK")
                      EXCEPT !.stage = "new", !.rest = <<>>]
  <1>1. run = [r \in Attempts |-> x]
    BY DEF Selector!Init
  <1>2. host \in Hosts /\ policy \in Policies
    BY DEF Selector!SelectorAssumption
  <1>3. Selector!Chain(policy) \in Seq(Selector!Engines)
    BY <1>2, ChainType DEF Selector!SelectorAssumption
  <1> HIDE DEF host, policy
  <1>4. x \in Selector!Runs /\ x.stage = "new" /\ x.called = {}
    BY <1>2, <1>3, HeadAndTail DEF Selector!NewRun, Selector!Runs, Selector!Errors
  <1> HIDE DEF x
  <1>5. \A r \in Attempts : run[r] = x
    BY <1>1
  <1>6. /\ known = {} /\ failures = [k \in Selector!Keys |-> 0]
        /\ ban = [k \in Selector!Keys |-> "none"]
        /\ streak = [k \in Selector!Keys |-> 0]
        /\ MaxFailures \in Nat \ {0} /\ MaxStates \in Nat \ {0}
    BY DEF Selector!Init, Selector!SelectorAssumption
  <1>7. Selector!TypeOK
    BY <1>1, <1>4, <1>6 DEF Selector!TypeOK
  <1>8. CircuitInv
    BY <1>6, FS_EmptySet DEF CircuitInv
  <1>9. WriteInv /\ CallingInv
    BY <1>4, <1>5 DEF WriteInv, CallingInv, Selector!Choosing
  <1>10. QED
    BY <1>7, <1>8, <1>9 DEF SelectorInv

(* request_with_policy is entered.                                         *)
LEMMA SelectorBegin ==
    ASSUME Selector!SelectorAssumption, SelectorInv, NEW r \in Attempts, NEW h \in Hosts,
           NEW p \in Policies, NEW s \in BOOLEAN, NEW e \in {"OK", "CONNECT"},
           Selector!Begin(r, h, p, s, e)
    PROVE  SelectorInv'
  <1> DEFINE x == Selector!NewRun(h, p, s, e)
  <1>1. Selector!Chain(p) \in Seq(Selector!Engines)
    BY ChainType DEF Selector!SelectorAssumption
  <1>2. x \in Selector!Runs /\ x.stage = "choosing" /\ x.called = {}
    BY <1>1 DEF Selector!NewRun, Selector!Runs, Selector!Errors
  <1>3. run' = [run EXCEPT ![r] = x]
    BY DEF Selector!Begin
  <1> HIDE DEF x
  <1>4. run' \in [Attempts -> Selector!Runs] /\ WriteInv' /\ CallingInv'
    BY <1>2, <1>3, OneRunMoves DEF SelectorInv
  <1>5. Selector!TypeOK' /\ CircuitInv'
    BY <1>4, CircuitsUntouched DEF SelectorInv, Selector!TypeOK, Selector!Begin
  <1>6. QED
    BY <1>4, <1>5 DEF SelectorInv

(* An engine that is not there, or whose circuit is open, is passed over.  *)
LEMMA SelectorSkip ==
    ASSUME Selector!SelectorAssumption, SelectorInv, NEW r \in Attempts,
           Selector!SkipNotBuilt(r) \/ Selector!SkipOpenCircuit(r)
    PROVE  SelectorInv'
  <1>1. Selector!Choosing(r) /\ run[r].rest # <<>> /\ UNCHANGED <<known, failures, ban, streak>>
    BY DEF Selector!SkipNotBuilt, Selector!SkipOpenCircuit, Selector!Choosing
  <1>2. PICK error \in Selector!Errors, degraded \in BOOLEAN, rest \in Seq(Selector!Engines) :
          run' = [run EXCEPT ![r] = [run[r] EXCEPT !.last_error = error, !.degraded = degraded,
                                                   !.rest = rest]]
    <2>1. run[r] \in Selector!Runs /\ Tail(run[r].rest) \in Seq(Selector!Engines)
          /\ Selector!RestAfter(r, ~Selector!Only(run[r].policy)) \in Seq(Selector!Engines)
      BY <1>1, KeyType DEF SelectorInv, Selector!RestAfter
    <2>2. CASE Selector!SkipNotBuilt(r)
      <3>1. run' = [run EXCEPT ![r] = [run[r] EXCEPT !.last_error = "UNSUPPORTED",
                        !.degraded = run[r].degraded,
                        !.rest = Selector!RestAfter(r, ~Selector!Only(run[r].policy))]]
        BY <2>1, <2>2 DEF Selector!SkipNotBuilt, SelectorInv, Selector!TypeOK, Selector!Runs
      <3>2. QED
        BY <2>1, <3>1 DEF Selector!Errors, Selector!Runs
    <2>3. CASE Selector!SkipOpenCircuit(r)
      <3>1. run' = [run EXCEPT ![r] = [run[r] EXCEPT !.last_error = "DEGRADED",
                        !.degraded = TRUE, !.rest = Tail(run[r].rest)]]
        BY <2>1, <2>3 DEF Selector!SkipOpenCircuit, SelectorInv, Selector!TypeOK, Selector!Runs
      <3>2. QED
        BY <2>1, <3>1 DEF Selector!Errors
    <2>4. QED
      BY <2>2, <2>3
  <1> DEFINE x == [run[r] EXCEPT !.last_error = error, !.degraded = degraded, !.rest = rest]
  <1>3. /\ x \in Selector!Runs /\ x.stage = "choosing"
        /\ x.called = run[r].called /\ x.retry_safe = run[r].retry_safe
    BY <1>1 DEF SelectorInv, Selector!TypeOK, Selector!Runs, Selector!Choosing
  <1>4. ~x.retry_safe => x.called = {}
    BY <1>1, <1>3 DEF SelectorInv, WriteInv
  <1>5. run' = [run EXCEPT ![r] = x]
    BY <1>2
  <1> HIDE DEF x
  <1>6. run' \in [Attempts -> Selector!Runs] /\ WriteInv' /\ CallingInv'
    BY <1>3, <1>4, <1>5, OneRunMoves DEF SelectorInv
  <1>7. Selector!TypeOK' /\ CircuitInv'
    BY <1>1, <1>6, CircuitsUntouched DEF SelectorInv, Selector!TypeOK
  <1>8. QED
    BY <1>6, <1>7 DEF SelectorInv

(* Asking for a circuit lifts a ban that has elapsed, and its count.       *)
LEMMA OfferedCircuits ==
    ASSUME Selector!SelectorAssumption, SelectorInv, NEW r \in Attempts, Selector!Offered(r),
           UNCHANGED <<known, streak>>
    PROVE  /\ failures' \in [Selector!Keys -> 0 .. MaxFailures]
           /\ ban' \in [Selector!Keys -> {"none", "ahead", "past"}]
           /\ CircuitInv'
  <1>1. Selector!Key(r) \in Selector!Keys
    BY KeyType DEF SelectorInv, Selector!Offered, Selector!Choosing
  <1>2. CASE UNCHANGED <<failures, ban>>
    BY <1>2, CircuitsUntouched DEF SelectorInv, Selector!TypeOK
  <1>3. CASE /\ ban' = [ban EXCEPT ![Selector!Key(r)] = "none"]
             /\ failures' = [failures EXCEPT ![Selector!Key(r)] = 0]
    <2>1. /\ failures' \in [Selector!Keys -> 0 .. MaxFailures]
          /\ ban' \in [Selector!Keys -> {"none", "ahead", "past"}]
      BY <1>1, <1>3 DEF SelectorInv, Selector!TypeOK, Selector!SelectorAssumption
    <2>2. \A k \in Selector!Keys : streak[k] \in Nat
      BY DEF SelectorInv, Selector!TypeOK
    <2>3. CircuitInv'
      BY <1>1, <1>3, <2>2
      DEF SelectorInv, Selector!TypeOK, CircuitInv, Selector!SelectorAssumption
    <2>4. QED
      BY <2>1, <2>3
  <1>4. QED
    BY <1>2, <1>3 DEF Selector!Offered

(* The engine is called, with no lock held.                                *)
LEMMA SelectorCall ==
    ASSUME Selector!SelectorAssumption, SelectorInv, NEW r \in Attempts, Selector!Call(r)
    PROVE  SelectorInv'
  <1> DEFINE x == [run[r] EXCEPT !.stage = "calling", !.called = @ \cup {Selector!Engine(r)}]
  <1>1. Selector!Choosing(r) /\ run[r].rest # <<>>
    BY DEF Selector!Call, Selector!Offered, Selector!Choosing
  <1>2. run[r] \in Selector!Runs /\ Selector!Engine(r) \in Selector!Engines
    BY <1>1, KeyType DEF SelectorInv
  <1>3. /\ x \in Selector!Runs /\ x.stage = "calling" /\ x.rest # <<>>
        /\ x.called = run[r].called \cup {Selector!Engine(r)}
        /\ x.retry_safe = run[r].retry_safe
    BY <1>1, <1>2 DEF Selector!Runs
  <1>4. ~x.retry_safe => x.called = {Selector!Engine(r)}
    BY <1>1, <1>3 DEF SelectorInv, WriteInv
  <1>5. run' = [run EXCEPT ![r] = x]
    BY <1>2 DEF Selector!Call, SelectorInv, Selector!TypeOK, Selector!Runs
  <1> HIDE DEF x
  <1>6. run' \in [Attempts -> Selector!Runs] /\ WriteInv' /\ CallingInv'
    BY <1>2, <1>3, <1>4, <1>5, OneRunMoves DEF SelectorInv
  <1>7. Selector!TypeOK' /\ CircuitInv'
    BY <1>6, OfferedCircuits DEF SelectorInv, Selector!TypeOK, Selector!Call
  <1>8. QED
    BY <1>6, <1>7 DEF SelectorInv

(* No time is left for another engine.                                     *)
LEMMA SelectorOutOfTime ==
    ASSUME Selector!SelectorAssumption, SelectorInv, NEW r \in Attempts, Selector!OutOfTime(r)
    PROVE  SelectorInv'
  <1> DEFINE x == [run[r] EXCEPT !.last_error = "TIMEOUT", !.rest = <<>>]
  <1>1. run[r] \in Selector!Runs /\ run[r].stage = "choosing"
    BY DEF Selector!OutOfTime, Selector!Offered, Selector!Choosing, SelectorInv, Selector!TypeOK
  <1>2. /\ x \in Selector!Runs /\ x.stage = "choosing" /\ x.rest = <<>>
        /\ x.called = run[r].called /\ x.retry_safe = run[r].retry_safe
    BY <1>1, HeadAndTail DEF Selector!Runs, Selector!Errors
  <1>3. run' = [run EXCEPT ![r] = x]
    BY <1>1 DEF Selector!OutOfTime, SelectorInv, Selector!TypeOK, Selector!Runs
  <1> HIDE DEF x
  <1>4. run' \in [Attempts -> Selector!Runs] /\ WriteInv' /\ CallingInv'
    BY <1>2, <1>3, OneRunMoves DEF SelectorInv, WriteInv
  <1>5. Selector!TypeOK' /\ CircuitInv'
    BY <1>4, OfferedCircuits DEF SelectorInv, Selector!TypeOK, Selector!OutOfTime
  <1>6. QED
    BY <1>4, <1>5 DEF SelectorInv

(* record_success clears the count and the ban together.                   *)
LEMMA SelectorSucceed ==
    ASSUME Selector!SelectorAssumption, SelectorInv, NEW r \in Attempts, Selector!Succeed(r)
    PROVE  SelectorInv'
  <1> DEFINE x == [run[r] EXCEPT !.stage = "done", !.err_code = "OK",
                                 !.protocol = Selector!Engine(r), !.rest = <<>>]
  <1>1. run[r].stage = "calling" /\ run[r].rest # <<>>
    BY DEF Selector!Succeed, SelectorInv, CallingInv
  <1>2. /\ run[r] \in Selector!Runs /\ Selector!Engine(r) \in Selector!Engines
        /\ Selector!Key(r) \in Selector!Keys
    BY <1>1, KeyType DEF SelectorInv
  <1>3. /\ x \in Selector!Runs /\ x.stage = "done"
        /\ x.called = run[r].called /\ x.retry_safe = run[r].retry_safe
    BY <1>2, HeadAndTail DEF Selector!Runs
  <1>4. run' = [run EXCEPT ![r] = x]
    BY <1>2 DEF Selector!Succeed, SelectorInv, Selector!TypeOK, Selector!Runs
  <1> HIDE DEF x
  <1>5. run' \in [Attempts -> Selector!Runs] /\ WriteInv' /\ CallingInv'
    BY <1>3, <1>4, OneRunMoves DEF SelectorInv, WriteInv
  <1>6. Selector!TypeOK'
    BY <1>2, <1>5
    DEF SelectorInv, Selector!TypeOK, Selector!Succeed, Selector!SelectorAssumption
  <1>7. CircuitInv'
    BY <1>2
    DEF SelectorInv, Selector!TypeOK, CircuitInv, Selector!Succeed, Selector!SelectorAssumption
  <1>8. QED
    BY <1>5, <1>6, <1>7 DEF SelectorInv

(* record_failure keeps the table within its limit, by throwing out a      *)
(* circuit whose ban and count go together.                                *)
LEMMA RecordFailureCircuits ==
    ASSUME Selector!SelectorAssumption, Selector!TypeOK, CircuitInv,
           NEW k \in Selector!Keys, NEW victim \in Selector!Keys,
           Selector!RecordFailure(k, victim),
           streak' = [streak EXCEPT ![k] = Selector!Capped(@)]
    PROVE  /\ known' \in SUBSET Selector!Keys
           /\ failures' \in [Selector!Keys -> 0 .. MaxFailures]
           /\ ban' \in [Selector!Keys -> {"none", "ahead", "past"}]
           /\ streak' \in [Selector!Keys -> 0 .. MaxFailures]
           /\ CircuitInv'
  <1> DEFINE n == Selector!Capped(failures[k])
  <1>1. /\ MaxFailures \in Nat \ {0} /\ MaxStates \in Nat \ {0}
        /\ \A c \in Selector!Keys :
              failures[c] \in 0 .. MaxFailures /\ streak[c] \in 0 .. MaxFailures
    BY DEF Selector!SelectorAssumption, Selector!TypeOK
  <1>2. /\ n \in 1 .. MaxFailures /\ Selector!Capped(streak[k]) \in 1 .. MaxFailures
        /\ n <= Selector!Capped(streak[k])
    BY <1>1 DEF Selector!Capped, CircuitInv
  <1>3. /\ \A c \in Selector!Keys : failures'[c] = IF c = k THEN n
                                 ELSE IF c = victim THEN 0 ELSE failures[c]
        /\ \A c \in Selector!Keys :
              ban'[c] = IF c = k THEN IF n >= MaxFailures THEN "ahead" ELSE ban[k]
                              ELSE IF c = victim THEN "none" ELSE ban[c]
        /\ \A c \in Selector!Keys :
              streak'[c] = IF c = k THEN Selector!Capped(streak[k]) ELSE streak[c]
    BY DEF Selector!RecordFailure, Selector!TypeOK
  <1>4. /\ known' \in SUBSET Selector!Keys
        /\ failures' \in [Selector!Keys -> 0 .. MaxFailures]
        /\ ban' \in [Selector!Keys -> {"none", "ahead", "past"}]
        /\ streak' \in [Selector!Keys -> 0 .. MaxFailures]
    BY <1>1, <1>2 DEF Selector!RecordFailure, Selector!TypeOK
  <1>5. IsFiniteSet(known') /\ Cardinality(known') <= MaxStates
    <2>1. IsFiniteSet(known) /\ Cardinality(known) \in Nat /\ Cardinality(known) <= MaxStates
      BY FS_CardinalityType DEF CircuitInv
    <2>2. CASE k \in known
      <3>1. known' = known
        BY <2>2 DEF Selector!RecordFailure
      <3>2. QED
        BY <2>1, <3>1
    <2>3. CASE k \notin known /\ Cardinality(known) >= MaxStates
      <3> DEFINE rest == known \ {victim}
      <3>1. known' = rest \cup {k} /\ victim \in known
        BY <2>3, SameCardinality DEF Selector!RecordFailure
      <3>2. IsFiniteSet(rest) /\ Cardinality(rest) = Cardinality(known) - 1
        BY <2>1, <3>1, FS_RemoveElement
      <3>3. IsFiniteSet(rest \cup {k}) /\ Cardinality(rest \cup {k}) <= Cardinality(rest) + 1
        <4> HIDE DEF rest
        <4>1. QED
          BY <2>1, <3>2, FS_AddElement
      <3> HIDE DEF rest
      <3>4. Cardinality(rest \cup {k}) <= MaxStates
        BY <1>1, <2>1, <3>2, <3>3, FS_CardinalityType
      <3>5. QED
        BY <3>1, <3>3, <3>4
    <2>4. CASE k \notin known /\ ~(Cardinality(known) >= MaxStates)
      <3>1. known' = known \cup {k}
        BY <2>4, SameCardinality DEF Selector!RecordFailure
      <3>2. IsFiniteSet(known \cup {k}) /\ Cardinality(known \cup {k}) = Cardinality(known) + 1
        BY <2>1, <2>4, FS_AddElement
      <3>3. QED
        BY <1>1, <2>1, <2>4, <3>1, <3>2
    <2>5. QED
      BY <2>2, <2>3, <2>4
  <1>6. \A c \in Selector!Keys : (ban'[c] # "none" <=> failures'[c] = MaxFailures)
                          /\ failures'[c] <= streak'[c]
    <2> SUFFICES ASSUME NEW c \in Selector!Keys
                 PROVE  (ban'[c] # "none" <=> failures'[c] = MaxFailures)
                        /\ failures'[c] <= streak'[c]
      OBVIOUS
    <2>1. CASE c # k
      BY <1>1, <1>3, <2>1 DEF CircuitInv
    <2>2. CASE c = k
      <3>1. failures'[k] = n /\ streak'[k] = Selector!Capped(streak[k])
            /\ ban'[k] = IF n >= MaxFailures THEN "ahead" ELSE ban[k]
        BY <1>3
      <3>2. n < MaxFailures => ban[k] = "none"
        BY <1>1 DEF CircuitInv, Selector!Capped
      <3> HIDE DEF n
      <3>3. QED
        BY <1>1, <1>2, <2>2, <3>1, <3>2
    <2>3. QED
      BY <2>1, <2>2
  <1>7. QED
    BY <1>4, <1>5, <1>6 DEF CircuitInv

(* A failure another protocol may not have: the chain goes on for requests *)
(* that are safe to repeat only.                                           *)
LEMMA SelectorFailRetryable ==
    ASSUME Selector!SelectorAssumption, SelectorInv, NEW r \in Attempts,
           NEW victim \in Selector!Keys,
           Selector!FailRetryable(r, victim)
    PROVE  SelectorInv'
  <1> DEFINE go_on == ~Selector!Only(run[r].policy) /\ run[r].retry_safe
             x == [run[r] EXCEPT !.stage = "choosing", !.last_error = "CONNECT",
                                 !.err_code = "CONNECT", !.degraded = @ \/ go_on,
                                 !.rest = Selector!RestAfter(r, go_on)]
  <1>1. run[r].stage = "calling" /\ run[r].rest # <<>>
    BY DEF Selector!FailRetryable, SelectorInv, CallingInv
  <1>2. /\ run[r] \in Selector!Runs /\ Selector!Key(r) \in Selector!Keys
        /\ Selector!RestAfter(r, go_on) \in Seq(Selector!Engines)
    BY <1>1, KeyType DEF SelectorInv
  <1>3. ~run[r].retry_safe => Selector!RestAfter(r, go_on) = <<>>
    BY DEF Selector!RestAfter
  <1>4. /\ x \in Selector!Runs /\ x.stage = "choosing" /\ x.rest = Selector!RestAfter(r, go_on)
        /\ x.called = run[r].called /\ x.retry_safe = run[r].retry_safe
    BY <1>2 DEF Selector!Runs, Selector!Errors
  <1>5. run' = [run EXCEPT ![r] = x]
    BY <1>2 DEF Selector!FailRetryable, SelectorInv, Selector!TypeOK, Selector!Runs
  <1> HIDE DEF x, go_on
  <1>6. run' \in [Attempts -> Selector!Runs] /\ WriteInv' /\ CallingInv'
    BY <1>3, <1>4, <1>5, OneRunMoves DEF SelectorInv, WriteInv
  <1>7. Selector!TypeOK' /\ CircuitInv'
    BY <1>2, <1>6, RecordFailureCircuits
    DEF SelectorInv, Selector!TypeOK, Selector!FailRetryable
  <1>8. QED
    BY <1>6, <1>7 DEF SelectorInv

(* A failure every protocol would have, and a chain at its end.            *)
LEMMA SelectorEnds ==
    ASSUME Selector!SelectorAssumption, SelectorInv, NEW r \in Attempts,
           Selector!FailForGood(r) \/ Selector!GiveUp(r)
    PROVE  SelectorInv'
  <1>1. run[r] \in Selector!Runs /\ UNCHANGED <<known, failures, ban, streak>>
    BY DEF Selector!FailForGood, Selector!GiveUp, SelectorInv, Selector!TypeOK
  <1>2. PICK x \in Selector!Runs : /\ run' = [run EXCEPT ![r] = x]
                          /\ x.stage # "calling" /\ (x.stage = "choosing" => x.rest = <<>>)
                          /\ x.called = run[r].called /\ x.retry_safe = run[r].retry_safe
    <2>1. CASE Selector!FailForGood(r)
      <3> DEFINE x == [run[r] EXCEPT !.stage = "choosing", !.last_error = "TLS",
                                     !.err_code = "TLS", !.rest = <<>>]
      <3>1. /\ x \in Selector!Runs /\ x.stage = "choosing" /\ x.rest = <<>>
            /\ x.called = run[r].called /\ x.retry_safe = run[r].retry_safe
        BY <1>1, HeadAndTail DEF Selector!Runs, Selector!Errors
      <3>2. run' = [run EXCEPT ![r] = x]
        BY <1>1, <2>1 DEF Selector!FailForGood, SelectorInv, Selector!TypeOK, Selector!Runs
      <3> HIDE DEF x
      <3>3. QED
        BY <3>1, <3>2
    <2>2. CASE Selector!GiveUp(r)
      <3> DEFINE x == [run[r] EXCEPT !.stage = "done",
                          !.err_code = IF @ = "OK" THEN run[r].last_error ELSE @]
      <3>1. /\ x \in Selector!Runs /\ x.stage = "done"
            /\ x.called = run[r].called /\ x.retry_safe = run[r].retry_safe
        BY <1>1 DEF Selector!Runs
      <3>2. run' = [run EXCEPT ![r] = x]
        BY <1>1, <2>2 DEF Selector!GiveUp, SelectorInv, Selector!TypeOK, Selector!Runs
      <3> HIDE DEF x
      <3>3. QED
        BY <3>1, <3>2
    <2>3. QED
      BY <2>1, <2>2
  <1>3. run' \in [Attempts -> Selector!Runs] /\ WriteInv' /\ CallingInv'
    BY <1>2, OneRunMoves DEF SelectorInv, WriteInv
  <1>4. Selector!TypeOK' /\ CircuitInv'
    BY <1>1, <1>3, CircuitsUntouched DEF SelectorInv, Selector!TypeOK
  <1>5. QED
    BY <1>3, <1>4 DEF SelectorInv

(* The cooldown of a circuit elapses; its ban is lifted by the next to ask.*)
LEMMA SelectorCooldown ==
    ASSUME SelectorInv, NEW k \in Selector!Keys, Selector!CooldownElapses(k)
    PROVE  SelectorInv'
  <1>1. Selector!TypeOK'
    BY DEF SelectorInv, Selector!TypeOK, Selector!CooldownElapses
  <1>2. CircuitInv'
    BY DEF SelectorInv, Selector!TypeOK, CircuitInv, Selector!CooldownElapses
  <1>3. WriteInv' /\ CallingInv'
    BY DEF SelectorInv, WriteInv, CallingInv, Selector!Choosing, Selector!CooldownElapses
  <1>4. QED
    BY <1>1, <1>2, <1>3 DEF SelectorInv

(* Every step of every request preserves the strengthening.                *)
LEMMA SelectorNext ==
    Selector!SelectorAssumption /\ SelectorInv /\ [Selector!Next]_(Selector!vars)
        => SelectorInv'
  <1>1. SelectorInv /\ UNCHANGED Selector!vars => SelectorInv'
    BY DEF Selector!vars, SelectorInv, Selector!TypeOK, CircuitInv, WriteInv, CallingInv,
           Selector!Choosing
  <1>2. QED
    BY <1>1, SelectorBegin, SelectorSkip, SelectorCall, SelectorOutOfTime, SelectorSucceed,
       SelectorFailRetryable, SelectorEnds, SelectorCooldown DEF Selector!Next

LEMMA SelectorInvariant == Selector!Spec => []SelectorInv
  <1>1. Selector!Init => SelectorInv
    BY SelectorInit, PathAssumption
  <1>2. SelectorInv /\ [Selector!Next]_(Selector!vars) => SelectorInv'
    BY SelectorNext, PathAssumption
  <1>3. QED
    BY <1>1, <1>2, PTL DEF Selector!Spec

(* A circuit opens for a protocol that failed max_failures_ times since it *)
(* last answered and for no other, and the table keeps to max_states_.     *)
THEOREM CircuitsOpenOnFailures == Selector!Spec => []OpensOnConsecutiveFailures
  <1>1. SelectorInv => OpensOnConsecutiveFailures
    BY SameCardinality
    DEF SelectorInv, CircuitInv, OpensOnConsecutiveFailures,
        Selector!OpensOnConsecutiveFailures, Selector!BoundedStates
  <1>2. QED
    BY <1>1, SelectorInvariant, PTL

(* A request that is not safe to repeat reaches at most one engine.        *)
THEOREM WritesAreNotRepeated == Selector!Spec => []NoDuplicateWrite
  <1>1. SelectorInv => NoDuplicateWrite
    <2> SUFFICES ASSUME SelectorInv, NEW r \in Attempts, ~run[r].retry_safe
                 PROVE  Cardinality(run[r].called) <= 1
      BY SameCardinality DEF NoDuplicateWrite, Selector!NoDuplicateWrite
    <2>1. CASE run[r].called = {}
      BY <2>1, FS_EmptySet
    <2>2. CASE \E e \in Selector!Engines : run[r].called = {e}
      <3>1. PICK e \in Selector!Engines : run[r].called = {e}
        BY <2>2
      <3>2. Cardinality({e}) = 1
        BY FS_Singleton
      <3>3. QED
        BY <3>1, <3>2
    <2>3. QED
      BY <2>1, <2>2 DEF SelectorInv, WriteInv
  <1>2. QED
    BY <1>1, SelectorInvariant, PTL
=============================================================================
