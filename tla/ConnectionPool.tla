---------------------------- MODULE ConnectionPool ----------------------------
(***************************************************************************)
(* ConnectionPoolImpl (sdk/cxx/connection/connection_pool.cpp): accounting *)
(* of which origins have requests under way.  Every operation is one       *)
(* critical section of State::mutex, except that prefetch and migrate call *)
(* their handler between two of them.  Callers keep their ConnectionLease  *)
(* by value: they may give it back after the pool was cleared by           *)
(* on_network_change or evict_all, and they may give it back twice.        *)
(*                                                                         *)
(* A key is an origin (host, port, protocol) with the network epoch the    *)
(* caller knew.  Requests with an empty host change nothing and are left   *)
(* out, and so are the request counters of an entry, which nothing reads.  *)
(***************************************************************************)
EXTENDS Integers, FiniteSets

CONSTANTS Callers,      \* who acquires and releases
          Origins,      \* (host, port, protocol)
          MaxOrigins,   \* State::max_origins
          MaxLeaseId,   \* bound on next_lease_id
          MaxEpoch,     \* bound on network_epoch
          MaxTime,      \* bound on the clock
          MaxHandler    \* bound on the prefetches and on the migrations

ASSUME PoolAssumption ==
    /\ IsFiniteSet(Origins)
    /\ MaxOrigins \in Nat \ {0}      \* the constructor turns 0 into 1
    /\ MaxLeaseId \in Nat /\ MaxEpoch \in Nat /\ MaxTime \in Nat /\ MaxHandler \in Nat

Keys == Origins \X (0 .. MaxEpoch)
Leases == [id : 1 .. MaxLeaseId, key : Keys]
HandlerKinds == {"prefetch", "migrate"}
HandlerResults == {"OK", "UNSUPPORTED"}

VARIABLES entries,         \* keys with an Entry
          active,          \* active[k]: Entry::active_leases, 0 without an entry
          last_used,       \* last_used[k]: Entry::last_used_ms, 0 without an entry
          leases,          \* State::leases, as (id, key) records
          next_lease_id,
          network_epoch,
          evictions,
          handler_calls,   \* State::prefetches and State::migrations
          last_result,     \* State::last_prefetch_result and last_migration_result
          now,             \* the monotonic clock
          holding,         \* holding[c]: "none", or caller c's copy of a lease is
                           \* "held" (not yet released) or "released"
          lease,           \* lease[c]: that copy
          in_handler,      \* in_handler[c]: the handler caller c is running
          cleared_below    \* history: next_lease_id when the pool was last cleared

pool == <<entries, active, last_used, leases, next_lease_id, evictions>>
handlers == <<handler_calls, last_result, in_handler>>
callers == <<holding, lease>>
vars == <<pool, handlers, callers, cleared_below, network_epoch, now>>

TypeOK ==
    /\ entries \in SUBSET Keys
    /\ active \in [Keys -> Nat]
    /\ last_used \in [Keys -> Nat]
    /\ leases \in SUBSET Leases
    /\ next_lease_id \in 1 .. MaxLeaseId + 1
    /\ network_epoch \in 0 .. MaxEpoch
    /\ evictions \in Nat
    /\ handler_calls \in [HandlerKinds -> Nat]
    /\ last_result \in [HandlerKinds -> HandlerResults]
    /\ now \in Nat
    /\ holding \in [Callers -> {"none", "held", "released"}]
    /\ lease \in [Callers -> Leases \cup {<<>>}]
    /\ \A c \in Callers : holding[c] # "none" => lease[c] \in Leases
    /\ in_handler \in [Callers -> HandlerKinds \cup {"none"}]
    /\ cleared_below \in 1 .. MaxLeaseId + 1

Init ==
    /\ entries = {}
    /\ active = [k \in Keys |-> 0]
    /\ last_used = [k \in Keys |-> 0]
    /\ leases = {}
    /\ next_lease_id = 1
    /\ network_epoch = 0
    /\ evictions = 0
    /\ handler_calls = [h \in HandlerKinds |-> 0]
    /\ last_result = [h \in HandlerKinds |-> "UNSUPPORTED"]
    /\ now = 0
    /\ holding = [c \in Callers |-> "none"]
    /\ lease = [c \in Callers |-> <<>>]
    /\ in_handler = [c \in Callers |-> "none"]
    /\ cleared_below = 1

LeasesOf(k) == {l \in leases : l.key = k}

Full == Cardinality(entries) >= MaxOrigins
Idle == {k \in entries : active[k] = 0}

\* Seeded bug: entries in use are candidates too.
OldestOfAll == {k \in entries : \A other \in entries : last_used[k] <= last_used[other]}

\* Candidates for eviction: the idle entries used longest ago (several entries
\* may have been used in the same millisecond).
Oldest == {k \in Idle : \A other \in Idle : last_used[k] <= last_used[other]}

-----------------------------------------------------------------------------
\* entries[key] gains a lease, which caller c gets; keep is what survived.
Grant(c, k, keep) ==
    LET l == [id |-> next_lease_id, key |-> k] IN
    /\ entries' = keep \cup {k}
    /\ active' = [active EXCEPT ![k] = @ + 1]
    /\ last_used' = [key \in Keys |->
                        IF key = k THEN now ELSE IF key \in keep THEN last_used[key] ELSE 0]
    /\ leases' = leases \cup {l}
    /\ next_lease_id' = next_lease_id + 1
    /\ holding' = [holding EXCEPT ![c] = "held"]
    /\ lease' = [lease EXCEPT ![c] = l]

CanAcquire(c, k) ==
    /\ holding[c] # "held"
    /\ next_lease_id <= MaxLeaseId
    /\ k[2] <= network_epoch

\* acquire: the key is known, or there is room for it.
Acquire(c, k) ==
    /\ CanAcquire(c, k)
    /\ k \in entries \/ ~Full
    /\ Grant(c, k, entries)
    /\ UNCHANGED <<evictions, handlers, cleared_below, network_epoch, now>>

\* acquire at the limit: the oldest idle entry makes room.
AcquireEvicting(c, k, victim) ==
    /\ CanAcquire(c, k)
    /\ k \notin entries /\ Full
    /\ victim \in Oldest
    /\ Grant(c, k, entries \ {victim})
    /\ evictions' = evictions + 1
    /\ UNCHANGED <<handlers, cleared_below, network_epoch, now>>

\* acquire at the limit with every entry in use: an invalid lease.
AcquireRefused(c, k) ==
    /\ CanAcquire(c, k)
    /\ k \notin entries /\ Full
    /\ Idle = {}
    /\ holding' = [holding EXCEPT ![c] = "none"]
    /\ lease' = [lease EXCEPT ![c] = <<>>]
    /\ UNCHANGED <<pool, handlers, cleared_below, network_epoch, now>>

\* Seeded bug: the leases of the key are erased.
ReleaseByKey(c) ==
    /\ holding[c] # "none"
    /\ lease[c] \in leases
    /\ active' = [active EXCEPT ![lease[c].key] = @ - 1]
    /\ leases' = leases \ LeasesOf(lease[c].key)
    /\ holding' = [holding EXCEPT ![c] = "released"]
    /\ UNCHANGED <<entries, last_used, next_lease_id, evictions, handlers, lease, cleared_below,
                   network_epoch, now>>

\* release, the first time or again, of a lease the pool still knows or not.
Release(c) ==
    /\ holding[c] # "none"
    /\ \E k \in Keys :
        /\ k = lease[c].key
        /\ IF lease[c] \in leases
           THEN /\ active' = [active EXCEPT ![k] = IF k \in entries /\ @ > 0 THEN @ - 1 ELSE @]
                /\ last_used' = [last_used EXCEPT ![k] = IF k \in entries THEN now ELSE @]
                /\ leases' = leases \ {lease[c]}
           ELSE UNCHANGED <<active, last_used, leases>>
    /\ holding' = [holding EXCEPT ![c] = "released"]
    /\ UNCHANGED <<entries, next_lease_id, evictions, handlers, lease, cleared_below,
                   network_epoch, now>>

Clear ==
    /\ evictions' = evictions + Cardinality(entries)
    /\ entries' = {}
    /\ leases' = {}
    /\ active' = [k \in Keys |-> 0]
    /\ last_used' = [k \in Keys |-> 0]
    /\ cleared_below' = next_lease_id
    /\ UNCHANGED <<next_lease_id, handlers, callers, now>>

\* The Client calls it with the epoch it has just advanced.
OnNetworkChange ==
    /\ network_epoch < MaxEpoch
    /\ network_epoch' = network_epoch + 1
    /\ Clear

EvictAll ==
    /\ entries # {}
    /\ UNCHANGED network_epoch
    /\ Clear

\* prefetch and migrate, before and after the handler.
HandlerStart(c, h) ==
    /\ in_handler[c] = "none"
    /\ handler_calls[h] < MaxHandler
    /\ handler_calls' = [handler_calls EXCEPT ![h] = @ + 1]
    /\ in_handler' = [in_handler EXCEPT ![c] = h]
    /\ UNCHANGED <<pool, last_result, callers, cleared_below, network_epoch, now>>

HandlerFinish(c, h, result) ==
    /\ in_handler[c] = h
    /\ last_result' = [last_result EXCEPT ![h] = result]
    /\ in_handler' = [in_handler EXCEPT ![c] = "none"]
    /\ UNCHANGED <<pool, handler_calls, callers, cleared_below, network_epoch, now>>

Tick ==
    /\ now < MaxTime
    /\ now' = now + 1
    /\ UNCHANGED <<pool, handlers, callers, cleared_below, network_epoch>>

Next ==
    \/ \E c \in Callers :
        \/ \E k \in Keys :
            \/ Acquire(c, k)
            \/ \E victim \in Keys : AcquireEvicting(c, k, victim)
            \/ AcquireRefused(c, k)
        \/ Release(c)
        \/ \E h \in HandlerKinds :
            \/ HandlerStart(c, h)
            \/ \E result \in HandlerResults : HandlerFinish(c, h, result)
    \/ OnNetworkChange
    \/ EvictAll
    \/ Tick

Spec == Init /\ [][Next]_vars

-----------------------------------------------------------------------------
BoundedOrigins == Cardinality(entries) <= MaxOrigins

(* The pool's books balance: every entry's active_leases is the number of  *)
(* outstanding leases on its key, no outstanding lease is on a key without *)
(* an entry (so making room never cuts an origin with requests under way), *)
(* and there are never more origins than max_origins, through evictions,   *)
(* clearings, late releases and double releases.                           *)
LeaseAccounting ==
    /\ TypeOK /\ BoundedOrigins
    /\ \A k \in entries : active[k] = Cardinality(LeasesOf(k))
    /\ \A l \in leases : l.key \in entries

(* A caller that has not released its lease still owns it in the pool      *)
(* unless the pool was cleared since: no release by another caller, late   *)
(* or repeated, ever gives back a lease that is not its own.               *)
LeaseIntact ==
    \A c \in Callers : holding[c] = "held" =>
        (lease[c] \in leases <=> lease[c].id >= cleared_below)
=============================================================================
