------------------------------ MODULE DnsResolver ------------------------------
(***************************************************************************)
(* dns::SmartDnsResolverImpl (sdk/cxx/dns/dns_resolver.cpp).  A resolve    *)
(* copies what the cache, the provider and the backup table say under      *)
(* State::mutex, then looks the host up through HttpDNS and LocalDNS with  *)
(* the mutex released, and at last writes what it found into the cache.    *)
(* A lookup runs in a detached thread that holds one of max_active_lookups *)
(* slots until it ends, whether or not the resolve still waits for it.     *)
(*                                                                         *)
(* A non-empty list of addresses is one Answer: when it was looked up and  *)
(* on which network.  The order of the list, and the health table that     *)
(* only decides that order, are not modelled here.  Whether there is an    *)
(* HttpDNS provider, whether the host has backup addresses and whether the *)
(* quality is offline may be changed by anyone at any time: a resolve      *)
(* reads them as any value.                                                *)
(***************************************************************************)
EXTENDS Integers, FiniteSets

CONSTANTS Callers, Hosts,
          Jobs,        \* lookup threads that can exist at a time
          NoJob,
          NoAnswer,    \* an empty list of addresses
          Pending,     \* LookupJob::done is still false
          Ttl, StaleTtl, Timeout,    \* in ticks
          MaxEntries,  \* Config::max_cache_entries
          MaxLookups,  \* Config::max_active_lookups
          MaxEpoch, MaxTime,         \* bounds of the model
          MaxLate      \* bound on the time a resolve is ready to run and does not

Times == 0..MaxTime
Epochs == 0..MaxEpoch
Answers == [born : Times, net : Epochs]
\* An entry of the cache.
Entry == [answer : Answers, written : Times]

ASSUME ResolverAssumption ==
    /\ IsFiniteSet(Callers) /\ IsFiniteSet(Jobs)
    /\ NoJob \notin Jobs
    /\ {Ttl, StaleTtl, MaxEpoch, MaxTime, MaxLate} \subseteq Nat
    /\ {Timeout, MaxEntries, MaxLookups} \subseteq Nat \ {0}
    /\ NoAnswer # Pending
    /\ {NoAnswer, Pending} \cap Answers = {}
    /\ NoAnswer \notin Entry

\* Seeded bug: cache_key without the network epoch.
KeyOfHost(h, e) == <<h, 0>>

CacheKey(h, e) == <<h, e>>
Keys == Hosts \X Epochs

MaybeAnswers == Answers \cup {NoAnswer}
Tiers == {"http", "local"}

VARIABLES now, epoch,
          cache,      \* State::cache: an entry or NoAnswer per key
          active,     \* State::active_lookups
          job,        \* lookup threads
          pc,         \* progress of a resolve
          want,       \* its host, network epoch and deadline, and history for the
                      \* properties: how long it was ready to run and did not
                      \* (`late`), whether it was ever given addresses (`offered`)
                      \* and whether it was refused a lookup slot (`refused`)
          have,       \* its local copies and flags
          inbox       \* LookupJob::addresses of the lookup it waits for

vars == <<now, epoch, cache, active, job, pc, want, have, inbox>>

PC == {"idle",
       "quality",     \* cache read, wants State::mutex to read the quality
       "tier",        \* about to try have.tier
       "slot",        \* has a slot, about to create the thread
       "wait",        \* in LookupJob::complete.wait_until
       "store"}       \* tiers done, wants State::mutex to rank and store

NoThread == [st |-> "none"]
\* `until` is the deadline of the resolve it was started for.
Threads == [st : {"running", "posted"}, for : Callers, born : Times, net : Epochs, until : Times]

NothingWanted == [host |-> NoAnswer, epoch |-> 0, deadline |-> 0, late |-> 0,
                  offered |-> FALSE, refused |-> FALSE]
NothingHad == [got |-> NoAnswer, stale |-> NoAnswer, cut |-> FALSE, tier |-> "http",
               job |-> NoJob, result |-> "none"]

TypeOK ==
    /\ now \in Times /\ epoch \in Epochs
    /\ cache \in [Keys -> Entry \cup {NoAnswer}]
    /\ active \in Nat
    /\ job \in [Jobs -> Threads \cup {NoThread}]
    /\ pc \in [Callers -> PC]
    /\ want \in [Callers -> [host : Hosts \cup {NoAnswer}, epoch : Epochs,
                            deadline : Times, late : 0..MaxLate,
                            offered : BOOLEAN, refused : BOOLEAN]]
    /\ have \in [Callers ->
          [got : MaybeAnswers, stale : MaybeAnswers, cut : BOOLEAN, tier : Tiers,
           job : Jobs \cup {NoJob}, result : {"none", "ok", "dns", "timeout"}]]
    /\ inbox \in [Callers -> MaybeAnswers \cup {Pending}]

Init ==
    /\ now = 0 /\ epoch = 0
    /\ cache = [k \in Keys |-> NoAnswer]
    /\ active = 0
    /\ job = [j \in Jobs |-> NoThread]
    /\ pc = [c \in Callers |-> "idle"]
    /\ want = [c \in Callers |-> NothingWanted]
    /\ have = [c \in Callers |-> NothingHad]
    /\ inbox = [c \in Callers |-> Pending]

Entries == {k \in Keys : cache[k] # NoAnswer}
Key(c) == CacheKey(want[c].host, want[c].epoch)
Goto(c, s) == pc' = [pc EXCEPT ![c] = s]

-----------------------------------------------------------------------------
\* The part of resolve_with_metadata under the first lock: the host's entry
\* is a hit until it expires and a fallback until it is too stale.
Resolve(c, h) ==
    LET entry == cache[CacheKey(h, epoch)]
        within(ttl) == entry # NoAnswer /\ now <= entry.written + ttl
    IN
    /\ pc[c] = "idle" /\ now + Timeout <= MaxTime
    /\ want' = [want EXCEPT ![c] =
          [NothingWanted EXCEPT !.host = h, !.epoch = epoch, !.deadline = now + Timeout,
                                !.offered = within(Ttl + StaleTtl)]]
    /\ have' = [have EXCEPT ![c] =
          [NothingHad EXCEPT !.got = IF within(Ttl) THEN entry.answer ELSE NoAnswer,
                             !.stale = IF within(Ttl + StaleTtl) THEN entry.answer ELSE NoAnswer]]
    /\ Goto(c, "quality")
    /\ UNCHANGED <<now, epoch, cache, active, job, inbox>>

\* Nothing is looked up when the cache had it or the quality is offline.
ReadQuality(c) ==
    /\ pc[c] = "quality"
    /\ \/ have[c].got = NoAnswer /\ Goto(c, "tier")
       \/ Goto(c, "store")
    /\ UNCHANGED <<now, epoch, cache, active, job, want, have, inbox>>

\* The resolve's next tier; `cut`: the lookup of this one was refused or cut.
AfterTier(c, answer, cut) ==
    /\ have' = [have EXCEPT ![c].got = answer, ![c].tier = "local", ![c].job = NoJob,
                            ![c].cut = @ \/ cut]
    /\ Goto(c, IF have[c].tier = "http" THEN "tier" ELSE "store")

Wants(c) == have[c].got = NoAnswer /\ now < want[c].deadline

\* There is no HttpDNS provider, or nothing is wanted of this tier.
SkipTier(c) ==
    /\ pc[c] = "tier"
    /\ have[c].tier = "http" \/ ~Wants(c)
    /\ AfterTier(c, have[c].got, FALSE)
    /\ UNCHANGED <<now, epoch, cache, active, job, want, inbox>>

\* run_bounded_lookup: every slot is taken.
RefuseTier(c) ==
    /\ pc[c] = "tier" /\ Wants(c) /\ active >= MaxLookups
    /\ AfterTier(c, NoAnswer, TRUE)
    /\ want' = [want EXCEPT ![c].refused = TRUE]
    /\ UNCHANGED <<now, epoch, cache, active, job, inbox>>

\* Seeded bug: the limit is tested but the slot taken by the thread.
TakeSlotLater(c) ==
    /\ pc[c] = "tier" /\ Wants(c) /\ active < MaxLookups
    /\ active' = active
    /\ Goto(c, "slot")
    /\ UNCHANGED <<now, epoch, cache, job, want, have, inbox>>

TakeSlot(c) ==
    /\ pc[c] = "tier" /\ Wants(c) /\ active < MaxLookups
    /\ active' = active + 1
    /\ Goto(c, "slot")
    /\ UNCHANGED <<now, epoch, cache, job, want, have, inbox>>

Decremented == IF active > 0 THEN active - 1 ELSE active

\* std::thread throws; the slot is given back.
SpawnFails(c) ==
    /\ pc[c] = "slot"
    /\ active' = Decremented
    /\ AfterTier(c, NoAnswer, FALSE)
    /\ UNCHANGED <<now, epoch, cache, job, want, inbox>>

Spawn(c, j) ==
    /\ pc[c] = "slot" /\ job[j] = NoThread
    /\ job' = [job EXCEPT ![j] =
          [st |-> "running", for |-> c, born |-> now, net |-> epoch, until |-> want[c].deadline]]
    /\ have' = [have EXCEPT ![c].job = j]
    /\ inbox' = [inbox EXCEPT ![c] = Pending]
    /\ Goto(c, "wait")
    /\ UNCHANGED <<now, epoch, cache, active, want>>

\* The lookup ends, with addresses or without, and posts them in its
\* LookupJob, which nobody reads if the resolve has gone on without it.
\* Addresses that come before the deadline count as offered to whoever waits.
LookupEnds(j, found) ==
    /\ job[j].st = "running"
    /\ job' = [job EXCEPT ![j].st = "posted"]
    /\ LET t == job[j]
           answer == [born |-> t.born, net |-> t.net]
       IN /\ inbox' = IF have[t.for].job = j
                      THEN [inbox EXCEPT ![t.for] = IF found THEN answer ELSE NoAnswer]
                      ELSE inbox
          /\ want' = [want EXCEPT ![t.for].offered = @ \/ (found /\ now < t.until)]
    /\ UNCHANGED <<now, epoch, cache, active, pc, have>>

\* The thread's last step: its slot is free.
SlotBack(j) ==
    /\ job[j].st = "posted"
    /\ active' = Decremented
    /\ job' = [job EXCEPT ![j] = NoThread]
    /\ UNCHANGED <<now, epoch, cache, pc, want, have, inbox>>

LookupAnswers(c) ==
    /\ pc[c] = "wait" /\ inbox[c] # Pending
    /\ AfterTier(c, inbox[c], FALSE)
    /\ UNCHANGED <<now, epoch, cache, active, job, want, inbox>>

\* Seeded bug: every lookup has a timeout of its own.
DeadlineOverForEach(c) == now >= job[have[c].job].born + Timeout

\* The deadline, which both lookups share, has passed.
DeadlineOver(c) == now >= want[c].deadline

StopWaiting(c) ==
    /\ pc[c] = "wait" /\ inbox[c] = Pending /\ DeadlineOver(c)
    /\ AfterTier(c, NoAnswer, TRUE)
    /\ UNCHANGED <<now, epoch, cache, active, job, want, inbox>>

-----------------------------------------------------------------------------
BackupOf(c) == [born |-> now, net |-> want[c].epoch]

\* Seeded bug: the stale entry is looked for again, and may be gone.
ChosenLate(c) ==
    IF have[c].got # NoAnswer THEN {have[c].got}
    ELSE {BackupOf(c), IF cache[Key(c)] = NoAnswer THEN NoAnswer ELSE have[c].stale}

\* The last resorts: the backup addresses if there are any, else the entry
\* read at the start.
Chosen(c) ==
    IF have[c].got # NoAnswer THEN {have[c].got} ELSE {BackupOf(c), have[c].stale}

Return(c, result) ==
    /\ have' = [have EXCEPT ![c] = [NothingHad EXCEPT !.result = result]]
    /\ want' = [want EXCEPT ![c] = NothingWanted]
    /\ inbox' = [inbox EXCEPT ![c] = Pending]
    /\ Goto(c, "idle")

Found(c) == {[answer |-> a, written |-> now] : a \in Chosen(c) \ {NoAnswer}}

Full(c) == Cardinality(Entries) >= MaxEntries /\ Key(c) \notin Entries

\* Whatever was found is written back with a new time to live, also when it
\* came from the entry itself.
Store(c) ==
    /\ pc[c] = "store" /\ ~Full(c)
    /\ \E entry \in Found(c) : cache' = [cache EXCEPT ![Key(c)] = entry]
    /\ Return(c, "ok")
    /\ UNCHANGED <<now, epoch, active, job>>

\* cache.erase(cache.begin()): any entry, the order of an unordered_map.
StoreEvicting(c, k) ==
    /\ pc[c] = "store" /\ Full(c)
    /\ k \in Entries
    /\ \E entry \in Found(c) : cache' = [cache EXCEPT ![k] = NoAnswer, ![Key(c)] = entry]
    /\ Return(c, "ok")
    /\ UNCHANGED <<now, epoch, active, job>>

Fail(c) ==
    /\ pc[c] = "store" /\ NoAnswer \in Chosen(c)
    /\ Return(c, IF have[c].cut THEN "timeout" ELSE "dns")
    /\ UNCHANGED <<now, epoch, cache, active, job>>

-----------------------------------------------------------------------------
\* invalidate and set_backup_ips with a host; without one, invalidate and
\* set_httpdns_lookup.
Invalidate(hosts) ==
    /\ cache' = [k \in Keys |-> IF k[1] \in hosts THEN NoAnswer ELSE cache[k]]
    /\ UNCHANGED <<now, epoch, active, job, pc, want, have, inbox>>

\* The cache keeps the entries of the networks left behind.
OnNetworkChange ==
    /\ epoch < MaxEpoch
    /\ epoch' = epoch + 1
    /\ UNCHANGED <<now, cache, active, job, pc, want, have, inbox>>

Ready(c) ==
    /\ pc[c] # "idle"
    /\ pc[c] = "wait" => inbox[c] # Pending \/ DeadlineOver(c)

Tick ==
    /\ now < MaxTime
    /\ \A c \in Callers : Ready(c) => want[c].late < MaxLate
    /\ now' = now + 1
    /\ want' = [c \in Callers |-> IF Ready(c) THEN [want[c] EXCEPT !.late = @ + 1] ELSE want[c]]
    /\ UNCHANGED <<epoch, cache, active, job, pc, have, inbox>>

\* The bound on time is reached.
OutOfModel == now = MaxTime /\ UNCHANGED vars

Tier(c) ==
    \/ SkipTier(c) \/ RefuseTier(c) \/ TakeSlot(c) \/ SpawnFails(c)
    \/ \E j \in Jobs : Spawn(c, j)
    \/ LookupAnswers(c) \/ StopWaiting(c)

Finish(c) == Store(c) \/ (\E k \in Keys : StoreEvicting(c, k)) \/ Fail(c)

Progress(c) == ReadQuality(c) \/ Tier(c) \/ Finish(c)

Configure ==
    \/ \E hosts \in {{h} : h \in Hosts} \cup {Hosts} : Invalidate(hosts)
    \/ OnNetworkChange

Work ==
    \/ \E c \in Callers : (\E h \in Hosts : Resolve(c, h)) \/ Progress(c)
    \/ \E j \in Jobs : (\E found \in BOOLEAN : LookupEnds(j, found)) \/ SlotBack(j)
    \/ Configure

Next == Work \/ Tick \/ OutOfModel

Spec == Init /\ [][Next]_vars

-----------------------------------------------------------------------------
CacheBounded == Cardinality(Entries) <= MaxEntries

(* active_lookups counts the slots taken by a resolve that has not started *)
(* its thread and by the threads that have not ended, those whose resolve  *)
(* gave up included, and never exceeds max_active_lookups; nor does the    *)
(* cache its limit, old networks' entries included.                        *)
SlotsAccounted ==
    /\ TypeOK /\ CacheBounded
    /\ active = Cardinality({c \in Callers : pc[c] = "slot"})
                + Cardinality({j \in Jobs : job[j] # NoThread})
    /\ active <= MaxLookups

(* Addresses looked up on one network are never what a resolve made on a   *)
(* later one works with, from the cache, as a stale fallback or from a     *)
(* lookup that was already running.                                        *)
AnswersAreOfThisNetwork ==
    \A c \in Callers : pc[c] # "idle" =>
        \A a \in {have[c].got, have[c].stale, inbox[c]} \cap Answers :
            a.net >= want[c].epoch

\* The lookup threads of the resolve that c is in, not of an earlier one.
LookupsOf(c) == {j \in Jobs : job[j].st = "running" /\ job[j].for = c /\ job[j].until = want[c].deadline}

(* A resolve fails only empty-handed: it was never offered addresses,      *)
(* neither by an entry of its host that was good for a fallback when it    *)
(* began, whatever was invalidated or evicted since, nor by one of its own *)
(* lookups before its deadline, whichever tier, resolve or earlier thread  *)
(* got there first.  And it says why: a timeout means that the deadline    *)
(* has passed or that there was no slot for a lookup, any other failure    *)
(* that it had its slots and that none of its lookups is still running.    *)
FailsOnlyEmptyHanded ==
    [][\A c \in Callers : pc[c] # "idle" /\ pc'[c] = "idle" =>
          /\ have'[c].result \in {"dns", "timeout"} => ~want[c].offered
          /\ have'[c].result = "timeout" => want[c].refused \/ now >= want[c].deadline
          /\ have'[c].result = "dns" => ~want[c].refused /\ LookupsOf(c) = {}]_vars

(* A resolve answers within its timeout, both tiers together and whatever  *)
(* the lookups do, plus the time it was ready to run and did not: it never *)
(* waits for a lookup past the deadline.                                   *)
AnswersInTime == \A c \in Callers : pc[c] # "idle" => now <= want[c].deadline + want[c].late

(* README: a TTL cache.  What the cache gives out as fresh was looked up   *)
(* no longer ago than the time to live, the stale time and the time the    *)
(* lookup and its resolve may take (threads are prompt: MaxLate is 0).     *)
TtlCache ==
    \A c \in Callers : pc[c] = "quality" /\ have[c].got # NoAnswer =>
        now - have[c].got.born <= Ttl + StaleTtl + Timeout
=============================================================================
