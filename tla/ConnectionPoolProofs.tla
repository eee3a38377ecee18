------------------------- MODULE ConnectionPoolProofs -------------------------
(***************************************************************************)
(* For every number of callers, origins and entries, the pool's books      *)
(* balance and no caller loses its lease to another's release.             *)
(***************************************************************************)
EXTENDS ConnectionPool, FiniteSetTheorems, TLAPS

(* Entry::active_leases starts from zero when an origin comes back.        *)
NoEntryNoLease == \A k \in Keys \ entries : active[k] = 0

(* next_lease_id is beyond every id given out, to the pool or a caller, so *)
(* ids tell leases and callers apart.                                      *)
IdsUnique ==
    /\ IsFiniteSet(leases)
    /\ \A l \in leases : l.id < next_lease_id /\ l.id >= cleared_below
    /\ \A l, m \in leases : l.id = m.id => l = m
    /\ \A c \in Callers : holding[c] # "none" => lease[c].id < next_lease_id
    /\ \A c, d \in Callers :
          holding[c] # "none" /\ holding[d] # "none" /\ lease[c].id = lease[d].id => c = d
    /\ cleared_below <= next_lease_id

IInv == LeaseAccounting /\ NoEntryNoLease /\ IdsUnique /\ LeaseIntact

USE PoolAssumption

(* There are finitely many keys, hence entries.                            *)
LEMMA EntriesFinite ==
    ASSUME entries \in SUBSET Keys
    PROVE  IsFiniteSet(entries) /\ Cardinality(entries) \in Nat
  <1>1. IsFiniteSet(0 .. MaxEpoch)
    BY FS_Interval
  <1>2. IsFiniteSet(Keys)
    BY <1>1, FS_Product DEF Keys
  <1>3. QED
    BY <1>2, FS_Subset, FS_CardinalityType

(* The leases of a key are finitely many.                                  *)
LEMMA LeasesOfFinite ==
    ASSUME IsFiniteSet(leases), NEW k
    PROVE  IsFiniteSet(LeasesOf(k)) /\ Cardinality(LeasesOf(k)) \in Nat
  BY FS_Subset, FS_CardinalityType DEF LeasesOf

(* A new pool is in order.                                                 *)
LEMMA InitInv == Init => IInv
  <1> SUFFICES ASSUME Init PROVE IInv
    OBVIOUS
  <1>1. TypeOK
    BY DEF Init, TypeOK, HandlerResults
  <1>2. BoundedOrigins
    BY FS_EmptySet DEF Init, BoundedOrigins
  <1>3. LeaseAccounting
    BY <1>1, <1>2 DEF Init, LeaseAccounting
  <1>4. NoEntryNoLease /\ IdsUnique /\ LeaseIntact
    BY FS_EmptySet DEF Init, NoEntryNoLease, IdsUnique, LeaseIntact
  <1>5. QED
    BY <1>3, <1>4 DEF IInv

(* What acquire grants keeps the books, whatever entries it kept, as long  *)
(* as it kept those with leases and has room for the key.                  *)
LEMMA GrantInv ==
    ASSUME IInv, NEW c \in Callers, NEW k \in Keys, NEW keep \in SUBSET entries,
           CanAcquire(c, k), Grant(c, k, keep),
           \A e \in entries \ keep : active[e] = 0,
           Cardinality(keep \cup {k}) <= MaxOrigins,
           evictions' \in Nat,
           UNCHANGED <<handlers, cleared_below, network_epoch, now>>
    PROVE  IInv'
  <1> DEFINE l == [id |-> next_lease_id, key |-> k]
  <1>a. /\ entries' = keep \cup {k}
        /\ active' = [active EXCEPT ![k] = @ + 1]
        /\ leases' = leases \cup {l}
        /\ next_lease_id' = next_lease_id + 1
        /\ holding' = [holding EXCEPT ![c] = "held"]
        /\ lease' = [lease EXCEPT ![c] = l]
        /\ cleared_below' = cleared_below
    BY DEF Grant
  <1>b. l \in Leases /\ l.id = next_lease_id /\ l.key = k /\ l \notin leases
    BY DEF IInv, LeaseAccounting, TypeOK, IdsUnique, CanAcquire, Leases
  <1> HIDE DEF l
  <1>c. TypeOK
    BY DEF IInv, LeaseAccounting
  <1>1. TypeOK'
    <2>1. last_used' \in [Keys -> Nat]
      BY <1>c DEF Grant, TypeOK
    <2>2. next_lease_id' \in 1 .. MaxLeaseId + 1
      BY <1>a, <1>c DEF TypeOK, CanAcquire
    <2>3. /\ lease' \in [Callers -> Leases \cup {<<>>}]
          /\ holding' \in [Callers -> {"none", "held", "released"}]
      BY <1>a, <1>b, <1>c DEF TypeOK
    <2>4. \A d \in Callers : holding'[d] # "none" => lease'[d] \in Leases
      BY <1>a, <1>b, <1>c DEF TypeOK
    <2>5. QED
      BY <2>1, <2>2, <2>3, <2>4, <1>a, <1>b, <1>c DEF TypeOK, handlers
  <1>2. \A e \in entries' : active'[e] = Cardinality(LeasesOf(e)')
    <2> SUFFICES ASSUME NEW e \in entries'
                 PROVE  active'[e] = Cardinality(LeasesOf(e)')
      OBVIOUS
    <2>0. e \in Keys /\ (e \in entries => active[e] = Cardinality(LeasesOf(e)))
      BY <1>1 DEF IInv, LeaseAccounting, TypeOK
    <2>1. CASE e # k
      <3>1. LeasesOf(e)' = LeasesOf(e)
        BY <2>1, <1>a, <1>b DEF LeasesOf
      <3>2. e \in entries /\ active'[e] = active[e]
        BY <2>1, <2>0, <1>a, <1>c DEF TypeOK
      <3>3. QED
        BY <3>1, <3>2, <2>0
    <2>2. CASE e = k
      <3>1. LeasesOf(e)' = LeasesOf(e) \cup {l} /\ l \notin LeasesOf(e)
        BY <2>2, <1>a, <1>b DEF LeasesOf
      <3>2. IsFiniteSet(LeasesOf(e))
        BY LeasesOfFinite DEF IInv, IdsUnique
      <3>3. active[e] = Cardinality(LeasesOf(e))
        <4>1. CASE e \in entries
          BY <4>1, <2>0
        <4>2. CASE e \notin entries
          <5>1. LeasesOf(e) = {}
            BY <4>2 DEF LeasesOf, IInv, LeaseAccounting
          <5>2. active[e] = 0
            BY <4>2, <2>0 DEF IInv, NoEntryNoLease
          <5>3. QED
            BY <5>1, <5>2, FS_EmptySet
        <4>3. QED
          BY <4>1, <4>2
      <3>4. Cardinality(LeasesOf(e)') = Cardinality(LeasesOf(e)) + 1
        BY <3>1, <3>2, FS_AddElement
      <3>5. active'[e] = active[e] + 1
        BY <2>2, <1>a, <1>c DEF TypeOK
      <3>6. QED
        BY <3>3, <3>4, <3>5
    <2>3. QED
      BY <2>1, <2>2
  <1>3. \A m \in leases' : m.key \in entries'
    <2>1. \A m \in leases : m.key \in keep
      <3> SUFFICES ASSUME NEW m \in leases, m.key \notin keep PROVE FALSE
        OBVIOUS
      <3>1. m.key \in entries /\ active[m.key] = 0
        BY DEF IInv, LeaseAccounting
      <3>2. Cardinality(LeasesOf(m.key)) = 0 /\ IsFiniteSet(LeasesOf(m.key))
        BY <3>1, LeasesOfFinite DEF IInv, LeaseAccounting, IdsUnique
      <3>3. LeasesOf(m.key) = {}
        BY <3>2, FS_EmptySet
      <3>4. QED
        BY <3>3 DEF LeasesOf
    <2>2. QED
      BY <2>1, <1>a, <1>b
  <1>4. LeaseAccounting'
    BY <1>1, <1>2, <1>3, <1>a DEF LeaseAccounting, BoundedOrigins
  <1>5. NoEntryNoLease'
    BY <1>a, <1>c DEF IInv, NoEntryNoLease, TypeOK
  <1>6. IdsUnique'
    <2>1. IsFiniteSet(leases')
      BY <1>a, FS_AddElement DEF IInv, IdsUnique
    <2>2. /\ \A m \in leases' : m.id < next_lease_id' /\ m.id >= cleared_below'
          /\ \A m, n \in leases' : m.id = n.id => m = n
          /\ cleared_below' <= next_lease_id'
      BY <1>a, <1>b, <1>c DEF IInv, IdsUnique, TypeOK, Leases
    <2>3. \A d \in Callers : holding'[d] # "none" => lease'[d].id < next_lease_id'
      BY <1>a, <1>b, <1>c DEF IInv, IdsUnique, TypeOK, Leases
    <2>4. \A d, e \in Callers :
             holding'[d] # "none" /\ holding'[e] # "none" /\ lease'[d].id = lease'[e].id => d = e
      BY <1>a, <1>b, <1>c DEF IInv, IdsUnique, TypeOK, Leases
    <2>5. QED
      BY <2>1, <2>2, <2>3, <2>4 DEF IdsUnique
  <1>7. LeaseIntact'
    <2> SUFFICES ASSUME NEW d \in Callers, holding'[d] = "held"
                 PROVE  lease'[d] \in leases' <=> lease'[d].id >= cleared_below'
      BY DEF LeaseIntact
    <2>1. CASE d = c
      BY <2>1, <1>a, <1>b, <1>c DEF IInv, IdsUnique, TypeOK
    <2>2. CASE d # c
      <3>1. holding[d] = "held" /\ lease'[d] = lease[d]
        BY <2>2, <1>a, <1>c DEF TypeOK
      <3>2. lease[d] # l
        BY <3>1, <1>b, <1>c DEF IInv, IdsUnique, TypeOK, Leases
      <3>3. QED
        BY <3>1, <3>2, <1>a DEF IInv, LeaseIntact
    <2>3. QED
      BY <2>1, <2>2
  <1>8. QED
    BY <1>4, <1>5, <1>6, <1>7 DEF IInv

(* acquire, with room or after an eviction.                                *)
LEMMA AcquireInv ==
    ASSUME IInv, NEW c \in Callers, NEW k \in Keys, Acquire(c, k)
    PROVE  IInv'
  <1>1. TypeOK /\ BoundedOrigins
    BY DEF IInv, LeaseAccounting
  <1>2. IsFiniteSet(entries) /\ Cardinality(entries) \in Nat
    BY <1>1, EntriesFinite DEF TypeOK
  <1>3. Cardinality(entries \cup {k}) <= MaxOrigins
    <2>1. CASE k \in entries
      <3>1. entries \cup {k} = entries
        BY <2>1
      <3>2. QED
        BY <3>1, <1>1 DEF BoundedOrigins
    <2>2. CASE k \notin entries
      <3>1. Cardinality(entries) < MaxOrigins
        BY <2>2, <1>2 DEF Acquire, Full
      <3>2. Cardinality(entries \cup {k}) = Cardinality(entries) + 1
        BY <2>2, <1>2, FS_AddElement
      <3>3. QED
        BY <3>1, <3>2, <1>2
    <2>3. QED
      BY <2>1, <2>2
  <1>4. QED
    BY <1>1, <1>3, GrantInv DEF Acquire, TypeOK

LEMMA AcquireEvictingInv ==
    ASSUME IInv, NEW c \in Callers, NEW k \in Keys, NEW victim \in Keys,
           AcquireEvicting(c, k, victim)
    PROVE  IInv'
  <1>1. TypeOK /\ BoundedOrigins
    BY DEF IInv, LeaseAccounting
  <1>2. IsFiniteSet(entries) /\ Cardinality(entries) \in Nat
    BY <1>1, EntriesFinite DEF TypeOK
  <1>3. victim \in entries /\ active[victim] = 0 /\ k \notin entries
    BY DEF AcquireEvicting, Oldest, Idle
  <1> DEFINE keep == entries \ {victim}
  <1>4. Cardinality(keep \cup {k}) <= MaxOrigins
    <2>1. IsFiniteSet(keep) /\ Cardinality(keep) = Cardinality(entries) - 1
      BY <1>2, <1>3, FS_RemoveElement
    <2>2. Cardinality(keep \cup {k}) = Cardinality(keep) + 1
      BY <2>1, <1>3, FS_AddElement
    <2>3. QED
      BY <2>1, <2>2, <1>1, <1>2 DEF BoundedOrigins
  <1>5. \A e \in entries \ keep : active[e] = 0
    BY <1>3
  <1>6. /\ CanAcquire(c, k) /\ Grant(c, k, keep)
        /\ UNCHANGED <<handlers, cleared_below, network_epoch, now>>
    BY DEF AcquireEvicting
  <1>7. evictions' \in Nat
    BY <1>1 DEF AcquireEvicting, TypeOK
  <1> HIDE DEF keep
  <1>8. keep \in SUBSET entries
    BY DEF keep
  <1>9. QED
    BY <1>4, <1>5, <1>6, <1>7, <1>8, GrantInv

(* release gives back the caller's own lease, or nothing.                  *)
LEMMA ReleaseInv ==
    ASSUME IInv, NEW c \in Callers, Release(c)
    PROVE  IInv'
  <1> DEFINE m == lease[c]
             k == m.key
  <1>a. TypeOK /\ BoundedOrigins
    BY DEF IInv, LeaseAccounting
  <1>b. m \in Leases /\ k \in Keys
    BY <1>a DEF Release, TypeOK, Leases
  <1>c. /\ holding' = [holding EXCEPT ![c] = "released"]
        /\ UNCHANGED <<entries, next_lease_id, lease, cleared_below>>
    BY DEF Release
  <1>d. /\ leases' = leases \ {m}
        /\ IF m \in leases
           THEN /\ active' = [active EXCEPT ![k] = IF k \in entries /\ @ > 0 THEN @ - 1 ELSE @]
                /\ last_used' = [last_used EXCEPT ![k] = IF k \in entries THEN now ELSE @]
           ELSE UNCHANGED <<active, last_used>>
    BY DEF Release
  <1> HIDE DEF m, k
  <1>1. TypeOK'
    <2>0. active[k] \in Nat /\ (active[k] > 0 => active[k] - 1 \in Nat)
      BY <1>a, <1>b DEF TypeOK
    <2>1. active' \in [Keys -> Nat] /\ last_used' \in [Keys -> Nat]
      <3>1. CASE m \in leases
        <4>1. active' \in [Keys -> Nat]
          BY <3>1, <2>0, <1>a, <1>b, <1>d DEF TypeOK
        <4>2. last_used' \in [Keys -> Nat]
          BY <3>1, <1>a, <1>b, <1>d DEF TypeOK
        <4>3. QED
          BY <4>1, <4>2
      <3>2. CASE m \notin leases
        BY <3>2, <1>a, <1>d DEF TypeOK
      <3>3. QED
        BY <3>1, <3>2
    <2>2. holding' \in [Callers -> {"none", "held", "released"}]
      BY <1>a, <1>c DEF TypeOK
    <2>3. \A d \in Callers : holding'[d] # "none" => lease'[d] \in Leases
      BY <1>a, <1>b, <1>c DEF TypeOK, m
    <2>4. leases' \in SUBSET Leases
      BY <1>a, <1>d DEF TypeOK
    <2>5. QED
      BY <2>1, <2>2, <2>3, <2>4, <1>a, <1>c DEF TypeOK, Release, handlers
  <1>2. \A e \in entries' : active'[e] = Cardinality(LeasesOf(e)')
    <2> SUFFICES ASSUME NEW e \in entries
                 PROVE  active'[e] = Cardinality(LeasesOf(e)')
      BY <1>c
    <2>0. e \in Keys /\ active[e] = Cardinality(LeasesOf(e)) /\ active[e] \in Nat
      BY <1>a DEF IInv, LeaseAccounting, TypeOK
    <2>1. CASE m \notin leases \/ e # k
      <3>1. LeasesOf(e)' = LeasesOf(e)
        BY <2>1, <1>d DEF LeasesOf, k
      <3>2. active'[e] = active[e]
        BY <2>0, <2>1, <1>a, <1>b, <1>d DEF TypeOK
      <3>3. QED
        BY <3>1, <3>2, <2>0
    <2>2. CASE m \in leases /\ e = k
      <3>1. LeasesOf(e)' = LeasesOf(e) \ {m} /\ m \in LeasesOf(e)
        BY <2>2, <1>d DEF LeasesOf, k
      <3>2. IsFiniteSet(LeasesOf(e))
        BY LeasesOfFinite DEF IInv, IdsUnique
      <3>3. Cardinality(LeasesOf(e)') = Cardinality(LeasesOf(e)) - 1
        BY <3>1, <3>2, FS_RemoveElement
      <3>4. Cardinality(LeasesOf(e)) # 0
        BY <3>1, <3>2, FS_EmptySet
      <3>5. active'[e] = active[e] - 1
        BY <3>4, <2>0, <2>2, <1>a, <1>b, <1>d DEF TypeOK
      <3>6. QED
        BY <3>3, <3>5, <2>0
    <2>3. QED
      BY <2>1, <2>2
  <1>3. LeaseAccounting'
    BY <1>1, <1>2, <1>a, <1>c, <1>d DEF IInv, LeaseAccounting, BoundedOrigins
  <1>4. NoEntryNoLease'
    BY <1>a, <1>b, <1>c, <1>d DEF IInv, NoEntryNoLease, TypeOK
  <1>5. IdsUnique'
    <2>1. IsFiniteSet(leases')
      BY <1>d, FS_Subset DEF IInv, IdsUnique
    <2>2. \A d \in Callers : holding'[d] # "none" => holding[d] # "none"
      BY <1>a, <1>c DEF TypeOK, Release
    <2>3. QED
      BY <2>1, <2>2, <1>c, <1>d DEF IInv, IdsUnique
  <1>6. LeaseIntact'
    <2> SUFFICES ASSUME NEW d \in Callers, holding'[d] = "held"
                 PROVE  lease'[d] \in leases' <=> lease'[d].id >= cleared_below'
      BY DEF LeaseIntact
    <2>1. holding[d] = "held" /\ d # c
      BY <1>a, <1>c DEF TypeOK
    <2>2. lease[d].id # m.id
      BY <2>1 DEF IInv, IdsUnique, Release, m
    <2>3. QED
      BY <2>1, <2>2, <1>c, <1>d DEF IInv, LeaseIntact
  <1>7. QED
    BY <1>3, <1>4, <1>5, <1>6 DEF IInv

(* on_network_change and evict_all forget every lease at once.             *)
LEMMA ClearInv ==
    ASSUME IInv, Clear, network_epoch' \in 0 .. MaxEpoch
    PROVE  IInv'
  <1>a. TypeOK
    BY DEF IInv, LeaseAccounting
  <1>b. Cardinality(entries) \in Nat
    BY <1>a, EntriesFinite DEF TypeOK
  <1>c. entries' = {} /\ leases' = {}
    BY DEF Clear
  <1>1. TypeOK'
    BY <1>a, <1>b, <1>c DEF Clear, TypeOK, handlers, callers
  <1>2. BoundedOrigins'
    BY <1>c, FS_EmptySet DEF BoundedOrigins
  <1>3. LeaseAccounting'
    BY <1>1, <1>2, <1>c DEF LeaseAccounting
  <1>4. NoEntryNoLease'
    BY DEF Clear, NoEntryNoLease
  <1>5. IdsUnique'
    BY <1>a, <1>c, FS_EmptySet DEF IInv, IdsUnique, Clear, callers, TypeOK
  <1>6. LeaseIntact'
    BY <1>a, <1>c DEF IInv, IdsUnique, LeaseIntact, Clear, callers, TypeOK, Leases
  <1>7. QED
    BY <1>3, <1>4, <1>5, <1>6 DEF IInv

(* A refusal, a handler and the clock leave the books alone.               *)
LEMMA OtherInv ==
    ASSUME IInv,
           \/ \E c \in Callers, k \in Keys : AcquireRefused(c, k)
           \/ \E c \in Callers, h \in HandlerKinds :
                 \/ HandlerStart(c, h)
                 \/ \E result \in HandlerResults : HandlerFinish(c, h, result)
           \/ Tick
           \/ UNCHANGED vars
    PROVE  IInv'
  <1>a. TypeOK
    BY DEF IInv, LeaseAccounting
  <1>b. UNCHANGED <<pool, cleared_below>>
    BY DEF AcquireRefused, HandlerStart, HandlerFinish, Tick, vars
  <1>1. /\ holding' \in [Callers -> {"none", "held", "released"}]
        /\ lease' \in [Callers -> Leases \cup {<<>>}]
        /\ \A c \in Callers : holding'[c] # "none" =>
              holding'[c] = holding[c] /\ lease'[c] = lease[c]
    BY <1>a DEF AcquireRefused, HandlerStart, HandlerFinish, Tick, vars, callers, TypeOK
  <1>2. TypeOK'
    <2>1. /\ handler_calls' \in [HandlerKinds -> Nat]
          /\ last_result' \in [HandlerKinds -> HandlerResults]
          /\ in_handler' \in [Callers -> HandlerKinds \cup {"none"}]
          /\ now' \in Nat /\ network_epoch' = network_epoch
      <3>1. ASSUME NEW c \in Callers, NEW k \in Keys, AcquireRefused(c, k) PROVE <2>1!:
        BY <3>1, <1>a DEF AcquireRefused, handlers, TypeOK
      <3>2. ASSUME NEW c \in Callers, NEW h \in HandlerKinds, HandlerStart(c, h) PROVE <2>1!:
        BY <3>2, <1>a DEF HandlerStart, TypeOK
      <3>3. ASSUME NEW c \in Callers, NEW h \in HandlerKinds, NEW result \in HandlerResults,
                   HandlerFinish(c, h, result)
            PROVE  <2>1!:
        BY <3>3, <1>a DEF HandlerFinish, TypeOK
      <3>4. CASE Tick \/ UNCHANGED vars
        BY <3>4, <1>a DEF Tick, vars, handlers, TypeOK
      <3>5. QED
        BY <3>1, <3>2, <3>3, <3>4
    <2>2. QED
      BY <2>1, <1>a, <1>b, <1>1 DEF TypeOK, pool
  <1>3. LeaseAccounting'
    BY <1>2, <1>b DEF IInv, LeaseAccounting, BoundedOrigins, LeasesOf, pool
  <1>4. NoEntryNoLease' /\ IdsUnique' /\ LeaseIntact'
    BY <1>b, <1>1 DEF IInv, NoEntryNoLease, IdsUnique, LeaseIntact, pool
  <1>5. QED
    BY <1>3, <1>4 DEF IInv

LEMMA NextInv == IInv /\ [Next]_vars => IInv'
  <1> SUFFICES ASSUME IInv, [Next]_vars PROVE IInv'
    OBVIOUS
  <1>a. TypeOK
    BY DEF IInv, LeaseAccounting
  <1>1. ASSUME NEW c \in Callers, NEW k \in Keys, Acquire(c, k) PROVE IInv'
    BY <1>1, AcquireInv
  <1>2. ASSUME NEW c \in Callers, NEW k \in Keys, NEW victim \in Keys,
               AcquireEvicting(c, k, victim)
        PROVE  IInv'
    BY <1>2, AcquireEvictingInv
  <1>3. ASSUME NEW c \in Callers, Release(c) PROVE IInv'
    BY <1>3, ReleaseInv
  <1>4. CASE OnNetworkChange
    <2>1. network_epoch' \in 0 .. MaxEpoch
      BY <1>a, <1>4 DEF OnNetworkChange, TypeOK
    <2>2. QED
      BY <1>4, <2>1, ClearInv DEF OnNetworkChange
  <1>5. CASE EvictAll
    <2>1. network_epoch' \in 0 .. MaxEpoch
      BY <1>a, <1>5 DEF EvictAll, TypeOK
    <2>2. QED
      BY <1>5, <2>1, ClearInv DEF EvictAll
  <1>6. QED
    BY <1>1, <1>2, <1>3, <1>4, <1>5, OtherInv DEF Next

(* The strengthening holds in every reachable state.                       *)
THEOREM PoolInvariant == Spec => []IInv
  BY InitInv, NextInv, PTL DEF Spec

(* active_leases of every entry is the number of outstanding leases on its *)
(* origin, every outstanding lease has its entry, and max_origins holds:   *)
(* acquire, release and the clearings keep the pool's books, for any       *)
(* number of callers, origins and networks.                                *)
THEOREM PoolBooksBalance == Spec => []LeaseAccounting
  <1>1. IInv => LeaseAccounting
    BY DEF IInv
  <1>2. QED
    BY <1>1, PoolInvariant, PTL

(* Until the pool is cleared nobody but its holder gives a lease back: a   *)
(* release that comes late or twice takes no other caller's lease.         *)
THEOREM LeasesStayIntact == Spec => []LeaseIntact
  <1>1. IInv => LeaseIntact
    BY DEF IInv
  <1>2. QED
    BY <1>1, PoolInvariant, PTL
=============================================================================
