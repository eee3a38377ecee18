-------------------------------- MODULE Client --------------------------------
(***************************************************************************)
(* asternet::Client (sdk/cxx/client.cpp): requests run under a shared lock *)
(* of lifecycle_mutex_, network changes and registrations under an         *)
(* exclusive one.  What a request does to the quality of the network is    *)
(* published after its lock is gone: publish_quality_change takes the      *)
(* exclusive lock to make the snapshot the last one, drops it, and then    *)
(* tells the resolver and the application's callback.                      *)
(*                                                                         *)
(* The resolver, the pool, the engines and the arithmetic of the prober    *)
(* are not here: a request observes any quality, any number of times.      *)
(***************************************************************************)
EXTENDS Integers, FiniteSets

CONSTANTS Threads,
          Qualities,     \* what a snapshot says of the network
          Unknown,       \* what it says before the first sample
          MaxTime, MaxEpoch, MaxSamples, MaxCalls    \* bounds of the model

ASSUME ClientAssumption ==
    /\ IsFiniteSet(Threads) /\ Unknown \in Qualities
    /\ {MaxTime, MaxEpoch, MaxSamples, MaxCalls} \subseteq Nat

\* QualitySnapshot; `at` is last_sample_ms, `samples` counts within an epoch.
Snapshots == [epoch : 0..MaxEpoch, at : 0..MaxTime, samples : 0..MaxSamples, quality : Qualities]

\* When a sample was taken, and on which network.
Moments == [epoch : 0..MaxEpoch, at : 0..MaxTime]
Beginning == [epoch |-> 0, at |-> 0]

PC == {"idle",
       "request",   \* inside request_with_policy's shared lock
       "prefetch",  \* inside prefetch's shared lock
       "publish",   \* wants the exclusive lock of publish_quality_change
       "resolver",  \* lock released, about to tell the resolver
       "callback"}  \* about to call the application's callback

VARIABLES now,
          epoch,        \* network_epoch_
          prober,       \* quality_prober_'s snapshot
          last,         \* last_quality_snapshot_
          resolver,     \* the resolver's copy of the quality
          registered,   \* a quality callback is registered
          heard,        \* the callback was called with what `last` holds now
          pc, calls,
          seen,         \* seen[t]: epoch and snapshots a call works with, and
                        \* (for the properties) the last sample it has taken
          returned      \* history, for the properties: the latest sample that
                        \* was taken by a call that has returned

vars == <<now, epoch, prober, last, resolver, registered, heard, pc, calls, seen, returned>>

TypeOK ==
    /\ now \in 0..MaxTime /\ epoch \in 0..MaxEpoch
    /\ {prober, last, resolver} \subseteq Snapshots
    /\ registered \in BOOLEAN /\ heard \in BOOLEAN
    /\ pc \in [Threads -> PC]
    /\ calls \in 0..MaxCalls
    /\ seen \in [Threads -> [epoch : 0..MaxEpoch, snapshot : Snapshots, notify : BOOLEAN,
                            taken : Moments]]
    /\ returned \in Moments

Fresh(e, q) == [epoch |-> e, at |-> 0, samples |-> 0, quality |-> q]
Nothing == [epoch |-> 0, snapshot |-> Fresh(0, Unknown), notify |-> FALSE,
            taken |-> Beginning]

Init ==
    /\ now = 0 /\ epoch = 0
    /\ prober = Fresh(0, Unknown) /\ last = prober /\ resolver = prober
    /\ registered = FALSE /\ heard = FALSE
    /\ pc = [t \in Threads |-> "idle"] /\ calls = 0
    /\ seen = [t \in Threads |-> Nothing] /\ returned = Beginning

\* Of two samples of one millisecond neither is the older.
Older(a, b) == a.epoch < b.epoch \/ (a.epoch = b.epoch /\ a.at < b.at)
Latest(a, b) == IF Older(a, b) THEN b ELSE a

\* Seeded bug: the shared lock is kept until the publication is over.
ReadersPublishing == {t \in Threads : pc[t] \in {"request", "prefetch", "publish"}}

\* Who holds lifecycle_mutex_ shared.  Exclusive sections are single steps.
Readers == {t \in Threads : pc[t] \in {"request", "prefetch"}}

Calls(t) == pc[t] = "idle" /\ calls < MaxCalls /\ calls' = calls + 1
Goto(t, s) == pc' = [pc EXCEPT ![t] = s]
Publish(t, snapshot) ==
    /\ seen' = [seen EXCEPT ![t].snapshot = snapshot]
    /\ Goto(t, "publish")
Done(t) ==
    /\ Goto(t, "idle")
    /\ seen' = [seen EXCEPT ![t] = Nothing]
    /\ returned' = Latest(returned, seen[t].taken)

-----------------------------------------------------------------------------
BeginRequest(t) ==
    /\ Calls(t)
    /\ seen' = [seen EXCEPT ![t] = [Nothing EXCEPT !.epoch = epoch, !.snapshot = prober]]
    /\ Goto(t, "request")
    /\ UNCHANGED <<now, epoch, prober, last, resolver, registered, heard, returned>>

\* quality_prober_->observe after a resolution or an address.
Observe(t, quality) ==
    /\ pc[t] = "request" /\ prober.samples < MaxSamples
    /\ prober' = [prober EXCEPT !.at = now, !.samples = @ + 1, !.quality = quality]
    /\ seen' = [seen EXCEPT ![t].taken = [epoch |-> prober.epoch, at |-> now]]
    /\ UNCHANGED <<now, epoch, last, resolver, registered, heard, pc, calls, returned>>

\* A request that made or saw an observation publishes what it saw last.
EndRequest(t) ==
    /\ pc[t] = "request"
    /\ IF prober # seen[t].snapshot THEN Publish(t, prober) /\ UNCHANGED returned
                                     ELSE Done(t)
    /\ UNCHANGED <<now, epoch, prober, last, resolver, registered, heard, calls>>

Prefetch(t) ==
    /\ Calls(t)
    /\ seen' = [seen EXCEPT ![t].epoch = epoch]
    /\ Goto(t, "prefetch")
    /\ UNCHANGED <<now, epoch, prober, last, resolver, registered, heard, returned>>

EndPrefetch(t) ==
    /\ pc[t] = "prefetch"
    /\ Done(t)
    /\ UNCHANGED <<now, epoch, prober, last, resolver, registered, heard, calls>>

NewNetwork(quality) ==
    /\ epoch' = epoch + 1
    /\ prober' = Fresh(epoch', quality)
    /\ last' = prober' /\ resolver' = prober'
    /\ heard' = FALSE

\* Seeded bug: the network changes under a shared lock.
OnNetworkChangeShared(t, quality) ==
    /\ epoch < MaxEpoch /\ Calls(t)
    /\ NewNetwork(quality)
    /\ Publish(t, prober')
    /\ UNCHANGED <<now, registered, returned>>

\* The exclusive section of on_network_change.  The migration that follows
\* touches nothing of this, and the new epoch is always one to publish.
OnNetworkChange(t, quality) ==
    /\ epoch < MaxEpoch /\ Calls(t)
    /\ Readers = {}
    /\ NewNetwork(quality)
    /\ Publish(t, prober')
    /\ UNCHANGED <<now, registered, returned>>

SetQualityCallback(t, some) ==
    /\ Calls(t) /\ Readers = {}
    /\ registered' = some
    /\ heard' = FALSE
    /\ IF some THEN Publish(t, last) ELSE Goto(t, "idle") /\ UNCHANGED seen
    /\ UNCHANGED <<now, epoch, prober, last, resolver, returned>>

-----------------------------------------------------------------------------
\* Seeded bug: a snapshot as old as the last one is dropped.
OutdatedOrSame(t) ==
    LET s == seen[t].snapshot IN Older(s, last) \/ (s.epoch = last.epoch /\ s.at = last.at)

\* Seeded bug: only the epochs are compared.
OutdatedEpoch(t) == seen[t].snapshot.epoch < last.epoch

Outdated(t) == Older(seen[t].snapshot, last)

Drop(t) ==
    /\ pc[t] = "publish" /\ Readers = {}
    /\ Outdated(t)
    /\ Done(t)
    /\ UNCHANGED <<now, epoch, prober, last, resolver, registered, heard, calls>>

MakeLast(t) ==
    /\ pc[t] = "publish" /\ Readers = {}
    /\ ~Outdated(t)
    /\ last' = seen[t].snapshot
    /\ heard' = (heard /\ last' = last)
    /\ seen' = [seen EXCEPT ![t].notify = registered]
    /\ Goto(t, "resolver")
    /\ UNCHANGED <<now, epoch, prober, resolver, registered, calls, returned>>

TellResolver(t) ==
    /\ pc[t] = "resolver"
    /\ resolver' = seen[t].snapshot
    /\ Goto(t, "callback")
    /\ UNCHANGED <<now, epoch, prober, last, registered, heard, calls, seen, returned>>

\* An exception of the callback is swallowed.
TellCallback(t) ==
    /\ pc[t] = "callback"
    /\ heard' = (heard \/ (seen[t].notify /\ seen[t].snapshot = last))
    /\ Done(t)
    /\ UNCHANGED <<now, epoch, prober, last, resolver, registered, calls>>

Tick ==
    /\ now < MaxTime
    /\ now' = now + 1
    /\ UNCHANGED <<epoch, prober, last, resolver, registered, heard, pc, calls, seen, returned>>

Idle == \A t \in Threads : pc[t] = "idle"

\* The bounds on calls and time are reached and every call has returned.
OutOfModel == Idle /\ calls = MaxCalls /\ now = MaxTime /\ UNCHANGED vars

Start(t) ==
    \/ BeginRequest(t) \/ Prefetch(t)
    \/ \E q \in Qualities : OnNetworkChange(t, q)
    \/ \E some \in BOOLEAN : SetQualityCallback(t, some)

Finish(t) ==
    \/ EndRequest(t) \/ EndPrefetch(t)
    \/ Drop(t) \/ MakeLast(t) \/ TellResolver(t) \/ TellCallback(t)

Next ==
    \/ \E t \in Threads : Start(t) \/ Finish(t) \/ \E q \in Qualities : Observe(t, q)
    \/ Tick
    \/ OutOfModel

\* Requests end, and a call that has started runs.
Spec == Init /\ [][Next]_vars
FairSpec == Spec /\ \A t \in Threads : WF_vars(Finish(t))

-----------------------------------------------------------------------------
(* Nothing changes the network under a request or a prefetch: the epoch it *)
(* gave its connections and cache entries is the current one to its end,   *)
(* and so is the prober's.                                                 *)
RequestsKeepTheirNetwork ==
    TypeOK /\ \A t \in Readers : seen[t].epoch = epoch /\ prober.epoch = epoch

(* What a request has observed by the time it returns is in the last       *)
(* snapshot for good: it was published before the return or gave way to    *)
(* something later, and no publication that was overtaken, registration or *)
(* network change takes the snapshot behind it again.  Later and behind    *)
(* are by network and millisecond, as in the code: of two samples of one   *)
(* millisecond the snapshot may be of either.                              *)
ReturnedIsPublished == ~Older(last, returned)

(* When every call has returned, the last snapshot is not behind the       *)
(* prober's own, by network and millisecond, and a registered callback was *)
(* called with it: neither an observation, nor a registration, nor a       *)
(* network change falls into the gap between the lock and the call.        *)
CallbackHeardTheLast == Idle => ~Older(last, prober) /\ (registered => heard)

(* No call waits for ever for the lifecycle lock.                          *)
CallsReturn == \A t \in Threads : pc[t] # "idle" ~> pc[t] = "idle"
=============================================================================
