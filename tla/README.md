# AsterNet in TLA+

AsterNet is a C++ networking SDK: an application creates a client through a C
ABI and makes synchronous requests from threads of its own; the SDK resolves
the host, picks a protocol, falls back, retries, coalesces, measures the
network and reports metrics. This directory holds TLA+ models of the parts
that carry that logic, TLC configurations that check them on small instances,
and TLAPS proofs that all their safety properties, and the refinements of the
abstract specifications, hold for every value of the constants.

`PROJECT.json` maps every definition to the lines it models, lists the runs,
and lists for each property a *mutant*: a definition marked "Seeded bug" in the
modules, which is the code with a plausible mistake, and which makes that
property fail. Seeded bugs are used by nothing else.

## Inventory

Paths are under `src/sdk/cxx`.

| Component | State it keeps | Operations | What makes it correct |
|---|---|---|---|
| Handle registry, `abi/abi.cpp` | table of tokens; per handle: client, `active_requests`, `destroying`, mutex | create, destroy, and every call on a client | no call reaches a freed client, no client leaks, tokens are never reused |
| Client, `client.cpp` | lifecycle lock, epoch, last quality snapshot, quality callback, metrics queue and worker | request, prefetch, network change, callback registration, destructor | a request sees one network; what a request observed is and stays part of the last snapshot, and the callback hears the last; metrics arrive once, in order; the destructor returns |
| Connection pool, `connection/` | entries per origin, leases, epoch, counters | acquire, release, clear, prefetch, migrate | books balance whatever callers do with their copies of a lease |
| Protocol selector, `engine/protocol_selector.cpp` | circuit per host and protocol | request with a policy | circuits open after consecutive failures; writes are not repeated |
| Coalescer, retry, weak-network guard, `orchestrator/` | flights; the deadline of a request | execute, intercept | one operation per key, every request returns, time and calls are bounded |
| DNS resolver, `dns/` | cache, health table, lookup slots, epoch | resolve, invalidate, report, network change, configuration | slots come back, answers belong to the network, are in time, and bad addresses yield |
| Quality prober, `sdt/quality_prober.cpp` | score, smoothed RTT, counters, quality | observe, network change | hysteresis that forgives, recovers and respects "no network" |
| HTTP/3 engine, `engine/quic_engine.cpp` | XQUIC engine, flags of the request under way, generation | request, XQUIC's callbacks | no wake-up or blocked send is forgotten, the result is earned, the request returns |
| Event loop, `platform/event_loop.cpp` | interest, one timer | add/mod/remove, schedule, poll | serves the HTTP/3 engine |
| HTTP/1.1 engine, `engine/http1_engine.cpp` | one kept TLS connection and its key, under a mutex | request, migrate | an answer is one's own and whole; a connection is reused only for its own key and with nothing left on it |
| HTTP/2 engine, `engine/http2_engine.cpp` | one kept nghttp2 session, its `user_data`, unfinished uploads | request, nghttp2's callbacks, migrate | the same, and no callback meets a context that is gone; the request returns |
| Metrics collector, `monitor/metrics.cpp` | counters per stage, labels, last events, under a mutex | report, snapshot, dump | a failure is counted once, at one stage, under one label |
| Trace route, `sdt/traceroute.cpp` | one socket and its error queue, for one call | trace | claims no more than it has seen, whenever answers come |
| TLS, log, names; JNI; Go test server; examples | little or none | | not modelled |

How they interact. An ABI call leases its client from the registry and calls
`Client::request_with_policy`, which holds the lifecycle lock shared while it
goes through coalescer, weak-network guard and retry to `execute_transport`:
there the resolver is asked, the pool leases the origin, the selector calls an
engine, and the result is reported to the prober and to the resolver's health
table. After the lock is released the request publishes the quality it saw to
the last snapshot, the resolver and the application's callback, in three
separate steps. Metrics go through a queue to a worker thread. A network change
takes the lifecycle lock exclusively, advances the epoch and clears the pool and
the prober; circuits and cached addresses are keyed by epoch. Lookups run in
detached threads. The HTTP/3 engine runs an
event loop on the caller's thread and is called back by XQUIC; the other two
engines do blocking calls or a `select` loop under their mutex and keep one
connection each, which a network change makes them give up.

What is hard: calls that race with destroy; work done after a lock is released;
leases, lookups and timers that outlive what they belong to; deadlines that are
shared or not; tables at their limit; condition variables between test and
sleep; long histories that bend a score. `PROJECT.json` lists each under
"hazards" with the line where it bites.

## Modules

**HandleRegistry** (abi.cpp). A call is one execution of an ABI function and
goes through `Lookup` (under `g_handles_mutex`), `Acquire` or `Refuse` (under
the handle's mutex), `Release` and `DropOwner`; a destroy is `Erase` then
`MarkDestroying`. ~Client takes its time: it runs in `freeing` or, started by
destroy, in `freeing_locked` with the handle's mutex held. Tokens are odd
numbers of `uintptr_t`, whose width is the constant `MaxPtr`.
**ClientLifetime** is the abstract specification: a client opens, calls enter
and leave it, it is closed once, and its destructor starts only when it is
closed and no call is inside. `ImplementsLifetime` is the refinement.

**Client** (client.cpp). Threads take the lifecycle lock shared (requests,
prefetches) or exclusive (network change, registration, publication).
`EndRequest` releases it; `Drop`/`MakeLast`, `TellResolver` and `TellCallback`
are the three unlocked or separately locked steps of `publish_quality_change`.
A snapshot is its epoch, time and quality. Samples are ordered as the code
orders them, by epoch and millisecond: of two taken in one millisecond the code
may keep either, and no property says which. For the properties a call remembers
the moment of its own sample (`taken`), and `returned` is the latest moment of
all calls that have returned; what a call does depends on neither. `destroyed_`
is left out, since HandleRegistry shows that no call runs in a destroyed client.

**MetricsQueue** (client.cpp). `Put`/`NotifyOne` by requests, the worker's
`Sleep`, `Take`, `Report`, `Leave`, and `Destroy`/`NotifyAll`/`Teardown` of
~Client. Metrics are numbered as they are put. Spurious wake-ups are left out:
they only repeat the test of the predicate.

**ConnectionPool**, at the interface of the class: every operation is one
critical section, callers keep copies of their lease and may release them late
or twice, and the pool may be cleared at any time. The Client's lock prevents
some of this today; the class is meant to survive it.

**ProtocolSelector**. Each request walks its chain; `is_available`,
`record_failure` and `record_success` are critical sections of their own, the
engine runs unlocked between them, and the cooldown of a circuit may elapse at
any moment.

**RequestCoalescer**. Leader, followers, requests that run alone; the condition
variable's test, sleep and wake-up are separate steps.

**RequestDeadline**. One request through guard, retries with back-off (and a
sleep that wakes up late), resolution and up to two addresses, with a clock.
It assumes that resolver and selector answer within the timeout they are given.
For the resolver that is `AnswersInTime` of DnsResolver, for HTTP/2 and HTTP/3
their loops' own deadline. For the HTTP/1.1 engine it is not so, see the run
`http1_timeout`: with a slow server `BoundedEffort` holds over the other two.

**DnsResolver**. A resolve copies cache, provider and backups under the mutex,
goes through the tiers with a detached lookup thread each, and writes back. An
answer is when and on which network it was looked up. Quality, provider and
backup table are read as any value, because anyone may set them at any time.
At class level a network change may come in the middle of a resolve. For the
properties a resolve remembers whether it was `offered` addresses, by the cache
as it began or by a lookup of its own before its deadline, and whether it was
`refused` a slot; a thread remembers the deadline of the resolve it was started
for (`until`), which tells that resolve's lookups from those of an earlier one
of the same caller. What a resolve does depends on none of them.

**AddressRanking** is the other half of dns_resolver.cpp: health reports (late
ones of an old network included), eviction and the ranking.

**QualityProber**: every sample, with the integer arithmetic of the code. For the
properties it counts the successes in a row (`run`) and the fast ones over a link
that is not narrow (`fast`).

**EventLoop** and **QuicEngine**. EventLoop has no specification of its own: it
gives QuicEngine the operations of `EpollEventLoop`, batches included, in which
an event already taken from the kernel may concern a timer that was scheduled
anew. QuicEngine has one `pc` for the request thread: in the loop, between two
callbacks, or inside XQUIC; only then may XQUIC's callbacks run. `generation`
tells the timers of requests apart. XQUIC is external and nearly free: see the
module's head for what is assumed, and `wants` also takes it that
`xqc_engine_main_logic` sets the timer again when it needs to be woken again.

**ConnectionReuse** is an abstract specification of what an engine promises of
the connection it keeps: a request runs on a connection opened for its own key
(host, endpoint, port, CA bundle, epoch), and a connection outlives a request
only if the whole answer was taken from it and the server agrees to more.

**Http1Engine**. A response is a sequence of units (interim head, head, parts of
the body, garbage, last chunk), of which a server sends as many as it likes and
TCP delivers any portion at a time. `Begin` takes the mutex, `Reuse`/`Connect`
are `ensure_connection`, `Wanted` says how much the next read of each framing may
take, `Verdict` how the response is judged when reading ends, and `Keeps` whether
the connection stays. Every blocking call may take the socket's time-out; that
is the time-out of the request that opened it. `ImplementsReuse1` is the
refinement of ConnectionReuse, with `ReusedConn` and `AskedKey` as the mapping: a
connection is *answered* when exactly the units of one response were read.

**Http2Engine**. The loop of `request`: `DataRead`, `Drain`, `Sent`
(`nghttp2_session_send`), `Feed` and `GoOn` (`nghttp2_session_mem_recv` on what
`send_callback` read, then on what `SSL_read` returned), `Read`/`ReadNothing`,
and one action for each way out. `After` is what the four receiving callbacks
make of a frame. A stream's upload stays with nghttp2 until it is finished or
reset, after the response too; a callback works with the session's `user_data`.
`TEMPORAL_CALLBACK_FAILURE` from the data callback is no fatal error to nghttp2,
which goes on, so only the flags count. `ImplementsReuse2` is the refinement.

**MetricsCollector**. `report_request` is one critical section: in which stages a
request started, which of them it failed, and its label's tally. The reports are
all those the engines and the Client can make: measurements come in the order of
the stages, and the Client labels every failure. `blamed`, for the properties,
remembers the label of every failure.

**TraceRoute**. Hops and probes with the socket's error queue; the network
answers a probe at most once, at any time, with any error that can come from
where the probe ended.

**RequestPath**, **ClientParts**, **Engines** and **NetworkKnowledge** put models
side by side that belong together and share no variable: coalescer, deadline and
selector; Client, metrics queue and collector; the three engines; resolver,
ranking, prober and trace. Each extends one of them, instantiates the others and
names their properties, so that runs and proofs speak of the same definitions.
What one stage hands another (a request, a result, a quality) is any value the
other may meet.

**MC\*** modules give constants their values. `MCRequestPath`, `MCClient`,
`MCEngines` and `MCNetworkKnowledge` check the models of the four modules above
in one run each: a variable `part`, chosen in the initial state, says which of
them a behaviour belongs to.

**\*Proofs** modules hold the theorems, see *Proofs* below.

## Runs

| Run | Instance | Shows |
|---|---|---|
| `handle_registry` | 3 calls, 3-bit pointers (3 clients, ids run out) | IInv, NoUseAfterFree, NoLeak, TokensNeverReused, the refinement, and that an erased client is freed |
| `connection_pool` | 3 callers, 3 origins, room for 2, 3 leases, 1 network change | LeaseAccounting, LeaseIntact |
| `request_path` | 3 requests, 2 keys, 1 flight; timeout 12, up to 3 retries, back-off 1, 2, 4, oversleep 2; 2 requests, 3 policies, no HTTP/3 engine, circuits of 2 failures, a table of 1 | NoDuplicateOperation, FlightsAreLive, EveryRequestReturns; BoundedEffort; OpensOnConsecutiveFailures, NoDuplicateWrite |
| `client` | 3 threads, 3 calls, 2 samples, 1 network change; 5 requests and a queue of 2; 3 reports, 2 labels | RequestsKeepTheirNetwork, CallbackHeardTheLast, ReturnedIsPublished, CallsReturn; LossOnlyOfTheOldest, DestructorReturns; FailuresAddUp |
| `engines` | HTTP/3: 2 requests, wake-ups at once and in 999 µs; HTTP/1.1: 3 requests, 2 keys, bodies of up to 2 parts where 1 is allowed; HTTP/2: 2 requests, 2 keys, 2 frames under way | NoLostTimer, NoStuckSend, OutcomeIsEarned, RequestReturns; OwnWholeResponse, ImplementsReuse1; WholeResponse, ContextIsAlive, ImplementsReuse2, Http2Returns |
| `network_knowledge` | 2 resolves, 1 host, 1 lookup thread and slot, cache of 1, timeout 2, clock to 4, 1 network change; 2 addresses, 5 reports, table of 2; 15 samples, up to 2 of them bad; a target 2 hops away, 2 probes each | SlotsAccounted, AnswersAreOfThisNetwork, AnswersInTime, FailsOnlyEmptyHanded; NoInheritedFailures, BadAddressesYield; RecoversInTime, GoodNeedsARun; TraceIsSound |
| `protocol_selector_floor` | as in `request_path` | *violation*: HTTP11IsTheFloor |
| `request_deadline_shared` | as in `request_path` | *violation*: SharedDeadline |
| `dns_resolver_ttl` | 2 resolves | *violation*: TtlCache |
| `http1_timeout` | 1 request | *violation*: BlocksUntilTimeout |
| `http2_upload` | 2 requests on one session | *violation*: BodyOnItsOwnStream |
| `trace_route_hop` | 2 hops, 1 probe each | *violation*: AddrIsOfItsHop |

The bounds. Every limit in the code (entries, flights, slots, states, queue) is
set below the number of those who compete for it, so that the limit is met,
passed and met again. Three parties are enough for the races the code has: one
that acts, one that acts against it and one that comes too late. One network
change suffices to have old and new on the scene together; a third epoch would
only repeat it. Names starting with `Max` that are no configuration value of
the code (`MaxTime`, `MaxEpoch`, `MaxSamples`, `MaxCalls`, `MaxReports`,
`MaxLate`, `MaxTrouble`, `MaxLeaseId`, `MaxHandler`, `MaxRequests`, `MaxHttp1Requests`,
`MaxParts`, `MaxUpload`, `MaxData`, `MaxFrames`, `MaxSpent`) bound the model
alone. HTTP/1.1 gets three requests: one leaves a connection, one spoils it, one
would read the rest. `MaxSpent` is 0 in `engines`, where no property speaks of
time. `RecoverySamples` = 13 in `network_knowledge` is tight: with 12 it fails. One
of its samples is fast and widens a narrow link, so that a run of fast samples
may begin on a link that is still thought to be narrow.
With the clock to 4 a lookup that hangs can outlive its resolve and meet the next
resolve of the same caller. `MaxLate` is how long the thread of a resolve may not run; it is 1 where
`AnswersInTime` is checked and 0 in `dns_resolver_ttl`, whose property has no use
for it. Two bad samples are enough for `RecoversInTime`: the second one hits a
score that is already smoothed.
Symmetry is used only in runs without liveness properties. Where a run has one,
its MC module picks one of each set of states that differ in names only, which
loses nothing: the first key asked for in `MCEngines`, the idle thread that calls
next in `MCClient`, which request has which key in `MCRequestPath`. Deadlock is not
checked where the system may stop: all tokens used up, no more leases or
requests, an engine destroyed, a request that has returned.

Six runs are violations, each of a sentence of the repository:

- `protocol_selector.h:8` says that HTTP/1.1 can always be used in the end; its
  circuit opens like the others, and then a request fails without any engine
  having been called.
- `README.md:58` says that retries share a deadline; an attempt hands its whole
  time to the resolver and again to each address, so a call may run to three
  times its timeout (which `BoundedEffort` shows is the bound).
- `README.md:44` speaks of a TTL cache; a hit is written back with a new time to
  live, so an entry in use is never looked up again.
- `engine.h:99` says that a request blocks until it is complete or its time is
  over; the HTTP/1.1 engine bounds each system call and not the request.
- `http2_engine.cpp:54` calls `H2Ctx` the context of a single request; a stream
  whose response ended before its upload did is still served by nghttp2 on the
  kept session, and `data_read_callback` gives it the body of the *next* request.
- `traceroute.h:29` calls `addr` the address of this hop; the late answer to a
  probe that was given up is taken for the answer to the next one.

Noted without a run: `README.md:44` also says LRU, but the cache evicts
`cache.begin()`, and its "stale-while-revalidate" serves a stale entry only
after lookups have failed; `docs/API.md:195` says requests are serialized per
client, but they share the lifecycle lock; `event_loop.h:33` says a timer fires
after its delay, but one scheduled anew within a batch may fire at once;
`http2_engine.h:7` says that connections are not reused, but they are;
`metrics.h:33` calls the stages a funnel, but a request on a reused connection
counts for the transfer and never for the first byte, and one that never came to
resolve counts as a success of DNS (`FailuresAddUp` states what does hold).
Seen while modelling, with no sentence to set against it: a final HTTP/2 response
after a 1xx one has the category `HCAT_HEADERS`, so its status is never taken and
the request fails as PROTOCOL; an HTTP/1.1 response that ends with the connection
is OK when a read fails or times out in the middle (`OwnWholeResponse` makes that
exception); and a time-exceeded error that is pending on the socket makes the
next `send` of a trace fail, which may end it as "no route to host" (`NoRoute`).

## Fairness

Liveness is checked where a thread might wait for ever, under weak fairness of
the steps a thread takes by itself:

- `handle_registry`: a call inside the client returns, and ~Client ends; nobody
  has to call.
- `request_path`: operations of the coalescer return and threads run. Deadlines need not
  pass, so the result does not rest on time-outs.
- `client`: a call that has started goes on, which for the lock means that a
  waiting thread gets it once it stays free to be taken; the worker and the
  destructor run, collectors return. Nobody has to destroy the client.
- `engines`: the thread of an HTTP/3 request runs, XQUIC's functions return, the
  receive loop ends, and time passes. XQUIC need not do anything, and the
  kernel's timer need not fire. The thread of an HTTP/2 request runs and its
  deadline passes; the server need not do anything. HTTP/1.1 has no clock of its
  own, so nothing is claimed of its return.

In runs of several parts the fairness is that of each part, of steps that are
disabled in the others.

## Proofs

TLAPS proves the theorems below for every value of the constants that satisfies
the `ASSUME` of its module. These assumptions say that sets of actors and
addresses are finite, that limits are numbers (positive where the constructors
make them so), and that "none" values are none of what they stand beside; the
runs evaluate them. No proof relies on a bound of a run. Every module has the
same plan: an inductive invariant, one lemma per action (or group of actions
that touch the same variables), and the properties from the invariant.

| Module | Theorems | About |
|---|---|---|
| `HandleRegistryProofs` | `Inductive`, `TypeCorrect`, `NoUseAfterFreeHolds`, `NoLeakHolds`, `LeaseAccountingHolds`, `TokensNeverReusedHolds`, `RegisteredIsUsableHolds`, `FreedOnceAfterDestroyHolds`, `Refinement` | any calls, any width of pointer |
| `ConnectionPoolProofs` | `PoolInvariant`, `PoolBooksBalance`, `LeasesStayIntact` | any callers, origins and limits |
| `RequestPathProofs` | `CoalescerInvariant`, `OneOperationPerKey`, `FlightsStayLive`; `EffortIsBounded`; `CircuitsOpenOnFailures`, `WritesAreNotRepeated` | any requests, keys, timeouts, back-offs, hosts and policies |
| `ClientProofs` | `ClientInvariant`, `NetworkStaysPut`, `CallbackHears`, `ReturnedStaysPublished`; `OnlyOldMetricsAreLost`; `EveryFailureIsCountedOnce` | any threads and calls, any size of the queue, any labels and size of their table |
| `QuicEngineProofs` | `QuicInvariant`, `WakeUpsAreKept`, `FullSocketIsWatched`, `ResultIsEarned` | any number of requests, any order of callbacks |
| `EnginesProofs` | `Http2Invariant`, `ContextStaysAlive`, `Http2KeepsReusePromise`, `Http2ResponsesAreWhole`; `Http1Invariant`, `OwnResponsesAreWhole`, `Http1KeepsReusePromise` | any keys, requests, frames, units, time-outs and sizes |
| `DnsResolverProofs` | `ResolverInvariant`, `SlotsAreAccounted`, `NoAddressesOfOldNetworks`, `ResolvesAnswerInTime`, `NoNeedlessFailure` | any resolves, hosts, threads, slots and times |
| `NetworkKnowledgeProofs` | `FailuresAreNotInherited`, `BadAddressesComeLast`; `RecoveryNeedsARun`, `NetworksRecover`, `ThirteenSamplesSuffice`; `TracesAreSound` | any addresses, RTTs, samples, distances and probes |

Hardly any property is inductive by itself. What each proof had to add:

- *Registry.* That no freed client is used needs that a call that is inside owns
  the client and that a client is freed only without owners; that a destroyed
  client is freed by *someone* needs that `active_requests` counts exactly the
  calls inside, since both destroy and release decide by it; that tokens differ
  needs that the table's pairs are those `Create` made and that no client exists
  beyond the id counter. `IInv` says so, and TLC checks it in `handle_registry`
  too. The refinement maps a call to whether it is in the client and a destroy to
  the step that marks the handle.
- *Pool.* That a late or double release takes nobody else's lease rests on ids
  (`IdsUnique`): `next_lease_id` is beyond every id that was ever given out, also
  those of cleared leases that callers still hold. That an origin that comes back
  starts from zero needs `NoEntryNoLease`.
- *Coalescer.* Two operations for one key would need a second way in: `LockInv`
  says that a request that runs alone for want of room holds the mutex and keeps
  its key without a flight, `LeadersInv` that a leader's flight stays in the map
  until its result is published.
- *Deadline.* The bound of three timeouts and one oversleep comes from a bound at
  every point (`TimeInv`): the time used so far against the time handed on.
- *Selector.* `CircuitInv` ties a ban to the full count and the count to what has
  really happened; `WriteInv` says that a request that must not be repeated has
  called no engine while it may still choose one.
- *Client.* `PublishedInv` and `HeardInv` are promises: while the last snapshot is
  behind the prober, or the callback behind the last snapshot, there is a thread
  on its way that will change that. `CallbackHeardTheLast` is what is left of them
  when no thread is on its way. `ReturnedIsPublished` needs every call to account
  for its own sample until it returns (`Accounted`): the sample is not beyond the
  prober's or an older network's, then not beyond the snapshot the call carries,
  and then not beyond the last snapshot, whether the call put its snapshot there
  or dropped it in favour of another's.
- *Metrics queue.* `QueueInv` (the queue holds the newest metrics without a gap)
  makes "oldest first" a matter of numbers, `LossInv` accounts for every one that
  has left the queue, and `ShutdownInv` for the destructor.
- *Collector.* `FailuresAddUp` is almost inductive: a report of any kind adds at
  most one failure over the stages (`StageCounts`, from `StagesOfRequest`). That
  labels add up needs `LabelsInv`: a label that has failures but no count of its
  own had them while the table was full, and the table never shrinks, so what it
  lacks is all under "other".
- *HTTP/3.* `TimerInv` follows a wake-up from the timer through the batch taken
  from the kernel, which is what a stale timer event could break; `SendInv` says
  that `waiting_writable` always goes with the interest in writing, since
  `write_socket_cb` does not ask again while it is set.
- *HTTP/2.* `SessionInv` says when there is a session and what of its frames may
  have been read. In the refinement of ConnectionReuse only `Begin`, `Reuse`,
  `Connect`, a `Feed` that completes or spoils the answer, a migration and the
  ends of a request are steps of the abstract specification;
  `Http2OthersStutter` has the rest. `WholeResponse` needs what the connection,
  the context and the server's side of the stream say of each other: no frame is
  of a request still to come (`StreamsInv`), a request that is not submitted has
  no answer (`UnansweredInv`), and of one that is, every DATA frame is in the body
  or on its way, unless one was over the limit or forbidden, and END_STREAM comes
  after all of them (`AnswerInv`). So the body is complete when END_STREAM is
  taken, and only then may `Judged` say OK.
- *HTTP/1.1.* `DeliveryInv`: what has been read, followed by what is on its way,
  is the beginning of one response to the request that waits, and a connection on
  which nobody waits has nothing on its way. Therefore the head that is read is
  the response's (`HeadRead`), and each framing is a matter of how many units lie
  behind it: `OwnWholeResponse` and `ImplementsReuse1` both compare that number
  with the parts the head announced. A connection that is kept must be empty for
  `DeliveryInv` to hold when the next request finds it, which is what `Keeps` has
  to see to.
- *Resolver.* Every slot is that of a caller about to start a thread or of a
  thread (`SlotInv`), also when the resolve has long given up; an entry under an
  epoch, and the thread a resolve waits for, are never of an older network
  (`CacheInv`, `ThreadInv`), though the network may change in between. That no
  resolve fails with addresses in reach needs to follow an offer from where it was
  made to the answer (`Told`), and to know of every thread that runs that its
  resolve waits for it or that it has outlived the deadline (`Waited`); the thread
  of an earlier resolve of the same caller is the case that makes it inductive
  only with `until`.
- *Ranking.* A history variable counts the failures in a row; the count of the
  table is below it. `BadAddressesYield` is then arithmetic on the score for
  every RTT. *Trace.* No pending error is from beyond the TTLs used so far
  (`ErrorsInv`), so that a late answer credited to a later hop is still sound.
- *Prober.* The counter of good samples is at most the run of successes.
  Recovery is a matter of how fast smoothing forgets: `NetworksRecover` takes a
  sequence of bounds on the smoothed RTT after 0, 1, ... k fast samples, each of
  which follows from the one before it (`Damps`), with the last below 100 ms; the
  k-th fast sample is then the first good one, and two more make three
  (`RecoveryInv`). `ThirteenSamplesSuffice` gives the bounds for an RTT of 3000 ms
  and fast samples of 20 ms, where k = 11. That loss, of whatever past, cannot
  keep the score below the threshold is part of it.

Where models are instantiated (`RequestPath`, `NetworkKnowledge`, `ClientParts`,
`Engines`) a lemma says that an instance's own copy of `Cardinality` is the usual
one, so that the library's theorems on finite sets apply.

Proof attempts corrected two models. `RecoversInTime` asked for a link that is not
narrow only when the last of the fast samples is in: after failures, fast samples
over a narrow link are no good ones, and if the last of thirteen widens it, the
quality stays as it was. No sample of the run did that. Now one does, and `fast`
counts only while the network is there and the bandwidth costs the score nothing.
And TraceRoute's `TypeOK` asked for the hop being
filled to have a TTL between 1 and `MaxHops` at all times, which is false for
`MaxHops` = 0, a value `trace_route` accepts (the result has no hop then). `TypeOK`
now allows the unused hop as well, and the theorem covers 0.

Only model-checked:

- all liveness (`DestroyedIsFreed`, `EveryRequestReturns`, `CallsReturn`,
  `DestructorReturns`, `RequestReturns`, `Http2Returns`), which this prover cannot
  treat;
- the six violations, which are counterexamples.

Every other property of a run is a theorem.

## Not modelled

TLS set-up, log, names, JNI, server and examples, for the reasons in
`PROJECT.json`. Within modelled parts: checking and copying of arguments, texts,
durations and diagnostics, failures of allocation (except where `Create` and the
engines meet one), and applications that call back into the SDK from its
callbacks. Of what lies outside the code: an HTTP/1.1 server sends nothing after a
response with Content-Length or a last chunk after which the connection is kept,
so `OwnWholeResponse` and `ImplementsReuse1` say nothing of such stray bytes;
HTTP/2 frames have no trailers, and no DATA frame is empty; and `TraceIsSound`
judges `reached` by the TTL of a hop and by how the trace ends, not by a history
of what the target has answered.

## Plan

1. Done: registry, client, metrics queue and collector, pool, selector,
   coalescer, deadline, resolver, ranking, prober, event loop, the three engines,
   trace route; ConnectionReuse and its two refinements; a proof of every safety
   property and refinement.
2. Worth composing: the Client with pool and resolver over one epoch; the
   coalescer with its leader's deadline; the deadline with the engines, so that
   its assumption on them is a theorem for HTTP/2 and HTTP/3.
3. An abstract lossy FIFO that MetricsQueue implements, and an abstract pool of
   leases that ConnectionPool implements.
