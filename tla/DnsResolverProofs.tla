-------------------------- MODULE DnsResolverProofs --------------------------
(***************************************************************************)
(* For any number of resolves, hosts, lookup threads and network changes:  *)
(* lookup slots and cache stay within their limits, addresses of an old    *)
(* network do not reach a resolve of a new one, and a resolve answers in   *)
(* time and fails only empty-handed.                                       *)
(***************************************************************************)
EXTENDS DnsResolver, FiniteSetTheorems, TLAPS

Wanted == [host : Hosts \cup {NoAnswer}, epoch : Epochs, deadline : Times, late : 0..MaxLate,
           offered : BOOLEAN, refused : BOOLEAN]
Had == [got : MaybeAnswers, stale : MaybeAnswers, cut : BOOLEAN, tier : Tiers,
        job : Jobs \cup {NoJob}, result : {"none", "ok", "dns", "timeout"}]

SlotCallers == {c \in Callers : pc[c] = "slot"}
LiveJobs == {j \in Jobs : job[j] # NoThread}

(* Every slot is that of a caller about to start a thread or of a thread.  *)
SlotInv == active = Cardinality(SlotCallers) + Cardinality(LiveJobs) /\ active <= MaxLookups

(* The cache keeps its limit, and under an epoch nothing that is older.    *)
CacheInv ==
    /\ IsFiniteSet(Entries) /\ CacheBounded
    /\ \A h \in Hosts, e \in Epochs :
          cache[<<h, e>>] # NoAnswer => cache[<<h, e>>].answer.net >= e

(* A resolve knows its host and no later network than the present one, has *)
(* no result yet, and a lookup only while it waits for it; between two of  *)
(* them nothing is left of the first.                                      *)
ResolveInv ==
    \A c \in Callers :
        /\ want[c].epoch <= epoch
        /\ pc[c] # "idle" => want[c].host \in Hosts /\ have[c].result = "none"
        /\ pc[c] = "idle" => inbox[c] = Pending
        /\ have[c].job # NoJob => pc[c] = "wait"

(* The thread a resolve waits for looks the host up on its network, or on  *)
(* a later one.                                                            *)
ThreadInv ==
    \A j \in Jobs : job[j] # NoThread /\ have[job[j].for].job = j =>
        job[j].net >= want[job[j].for].epoch

(* A resolve still has what it was offered, or is about to be handed it;   *)
(* `cut` stands for a refused slot or a deadline that has passed.          *)
Told(c) ==
    pc[c] # "idle" =>
        /\ want[c].offered => \/ have[c].stale # NoAnswer \/ have[c].got # NoAnswer
                              \/ pc[c] = "wait" /\ inbox[c] \in Answers
        /\ have[c].cut => want[c].refused \/ now >= want[c].deadline
        /\ want[c].refused => have[c].cut
        /\ pc[c] \in {"slot", "wait"} => have[c].got = NoAnswer

(* A lookup that runs is waited for, by the resolve it was started for, or *)
(* has outlived its deadline, and if that resolve goes on it knows.        *)
Waited(j) ==
    job[j].st = "running" =>
        LET c == job[j].for IN
        \/ /\ pc[c] = "wait" /\ have[c].job = j
           /\ inbox[c] = Pending /\ want[c].deadline = job[j].until
        \/ /\ now >= job[j].until /\ have[c].job # j
           /\ pc[c] # "idle" /\ want[c].deadline = job[j].until => have[c].cut

HistoryInv == (\A c \in Callers : Told(c)) /\ (\A j \in Jobs : Waited(j))

IInv == /\ TypeOK /\ SlotInv /\ CacheInv /\ ResolveInv /\ ThreadInv
        /\ AnswersAreOfThisNetwork /\ AnswersInTime /\ HistoryInv

-----------------------------------------------------------------------------
(* Type correctness with the records named.                                *)
LEMMA TypeParts ==
    TypeOK <=> /\ now \in Times /\ epoch \in Epochs
               /\ cache \in [Keys -> Entry \cup {NoAnswer}]
               /\ active \in Nat
               /\ job \in [Jobs -> Threads \cup {NoThread}]
               /\ pc \in [Callers -> PC]
               /\ want \in [Callers -> Wanted]
               /\ have \in [Callers -> Had]
               /\ inbox \in [Callers -> MaybeAnswers \cup {Pending}]
  BY DEF TypeOK, Wanted, Had

LEMMA ConstantTypes ==
    /\ MaxEpoch \in Nat /\ MaxTime \in Nat /\ MaxLate \in Nat
    /\ Timeout \in Nat \ {0} /\ MaxEntries \in Nat \ {0} /\ MaxLookups \in Nat \ {0}
  BY ResolverAssumption

(* What a thread is, and that it is not NoThread.                          *)
LEMMA ThreadTypes ==
    ASSUME NEW t \in Threads \cup {NoThread}
    PROVE  /\ t.st \in {"running", "posted"} => t \in Threads
           /\ t \in Threads => t # NoThread /\ [t EXCEPT !.st = "posted"] \in Threads
  <1>1. NoThread.st = "none"
    BY DEF NoThread
  <1>2. t \in Threads => t.st # "none"
    BY DEF Threads
  <1>3. QED
    BY <1>1, <1>2 DEF Threads

(* What a resolve has when it begins and when it ends.                     *)
LEMMA NothingTypes ==
    /\ NothingWanted \in Wanted /\ NothingHad \in Had
    /\ \A r \in {"none", "ok", "dns", "timeout"} : [NothingHad EXCEPT !.result = r] \in Had
    /\ \A r : [NothingHad EXCEPT !.result = r].job = NoJob
    /\ \A g, s \in MaybeAnswers : [NothingHad EXCEPT !.got = g, !.stale = s] \in Had
  <1>1. NothingWanted \in Wanted
    <2>1. 0 \in Epochs /\ 0 \in Times /\ 0 \in 0..MaxLate
      BY ConstantTypes DEF Epochs, Times
    <2>2. QED
      BY <2>1 DEF NothingWanted, Wanted
  <1>2. NothingHad \in Had
    BY DEF NothingHad, Had, MaybeAnswers, Tiers
  <1>3. \A r \in {"none", "ok", "dns", "timeout"} : [NothingHad EXCEPT !.result = r] \in Had
    BY <1>2 DEF Had
  <1>4. \A r : [NothingHad EXCEPT !.result = r].job = NoJob
    BY DEF NothingHad
  <1>5. \A g, s \in MaybeAnswers : [NothingHad EXCEPT !.got = g, !.stale = s] \in Had
    BY <1>2 DEF Had
  <1>6. QED
    BY <1>1, <1>2, <1>3, <1>4, <1>5

LEMMA SlotsFinite ==
    /\ IsFiniteSet(SlotCallers) /\ IsFiniteSet(LiveJobs)
    /\ Cardinality(SlotCallers) \in Nat /\ Cardinality(LiveJobs) \in Nat
  <1>1. SlotCallers \in SUBSET Callers /\ LiveJobs \in SUBSET Jobs
    BY DEF SlotCallers, LiveJobs
  <1>2. IsFiniteSet(SlotCallers) /\ IsFiniteSet(LiveJobs)
    BY <1>1, FS_Subset, ResolverAssumption
  <1>3. QED
    BY <1>2, FS_CardinalityType

(* A resolver with an empty cache.                                         *)
LEMMA InitInv == Init => IInv
  <1> SUFFICES ASSUME Init PROVE IInv
    OBVIOUS
  <1>1. TypeOK
    <2>1. now \in Times /\ epoch \in Epochs
      BY ConstantTypes DEF Init, Times, Epochs
    <2>2. have \in [Callers -> Had] /\ want \in [Callers -> Wanted]
      BY NothingTypes DEF Init
    <2>3. QED
      BY <2>1, <2>2, TypeParts DEF Init, PC
  <1>2. SlotInv
    <2>1. SlotCallers = {} /\ LiveJobs = {}
      BY DEF Init, SlotCallers, LiveJobs
    <2>2. QED
      BY <2>1, FS_EmptySet, ConstantTypes DEF Init, SlotInv
  <1>3. CacheInv
    <2>1. Entries = {}
      BY DEF Init, Entries
    <2>2. QED
      BY <2>1, FS_EmptySet, ConstantTypes DEF Init, CacheInv, CacheBounded, Keys
  <1>4. ResolveInv /\ ThreadInv /\ AnswersAreOfThisNetwork /\ AnswersInTime
    BY DEF Init, ResolveInv, ThreadInv, AnswersAreOfThisNetwork, AnswersInTime, NothingWanted,
           NothingHad
  <1>5. HistoryInv
    BY DEF Init, HistoryInv, Told, Waited, NoThread
  <1>6. QED
    BY <1>1, <1>2, <1>3, <1>4, <1>5 DEF IInv

-----------------------------------------------------------------------------
(* Slots and cache are left alone by a step that changes neither the       *)
(* counter nor the threads, and moves nobody to or from "slot".            *)
LEMMA SlotsLeftAlone ==
    ASSUME SlotInv, active' = active, job' = job,
           \A c \in Callers : pc'[c] = "slot" <=> pc[c] = "slot"
    PROVE  SlotInv'
  <1>1. SlotCallers' = SlotCallers /\ LiveJobs' = LiveJobs
    BY DEF SlotCallers, LiveJobs
  <1>2. QED
    BY <1>1 DEF SlotInv

LEMMA CacheLeftAlone ==
    ASSUME CacheInv, cache' = cache
    PROVE  CacheInv'
  BY DEF CacheInv, CacheBounded, Entries

(* resolve begins: what it takes from the cache is of its own network.     *)
LEMMA ResolveStarts ==
    ASSUME IInv, NEW c \in Callers, NEW h \in Hosts, Resolve(c, h)
    PROVE  IInv'
  <1> DEFINE entry == cache[CacheKey(h, epoch)]
             usable == entry # NoAnswer /\ now <= entry.written + (Ttl + StaleTtl)
             w == [NothingWanted EXCEPT !.host = h, !.epoch = epoch, !.deadline = now + Timeout,
                                        !.offered = usable]
  <1>a. now \in Nat /\ epoch \in Epochs /\ epoch \in Nat
    BY ConstantTypes DEF IInv, TypeOK, Times, Epochs
  <1>b. entry # NoAnswer => entry.answer \in Answers /\ entry.answer.net >= epoch
    <2>1. CacheKey(h, epoch) \in Keys /\ CacheKey(h, epoch) = <<h, epoch>>
      BY <1>a DEF CacheKey, Keys
    <2>2. entry \in Entry \cup {NoAnswer}
      BY <2>1 DEF IInv, TypeOK
    <2>3. QED
      BY <1>a, <2>1, <2>2 DEF IInv, CacheInv, Entry
  <1>c. w \in Wanted /\ w.epoch = epoch /\ w.host = h /\ w.deadline = now + Timeout /\ w.late = 0
        /\ (w.offered <=> usable) /\ ~w.refused
    <2>1. now + Timeout \in Times /\ usable \in BOOLEAN
      BY <1>a, ConstantTypes DEF Resolve, Times
    <2> HIDE DEF usable
    <2>2. QED
      BY <1>a, <2>1, NothingTypes DEF Wanted, NothingWanted
  <1> DEFINE within(ttl) == entry # NoAnswer /\ now <= entry.written + ttl
             g == IF within(Ttl) THEN entry.answer ELSE NoAnswer
             s == IF within(Ttl + StaleTtl) THEN entry.answer ELSE NoAnswer
             n == [NothingHad EXCEPT !.got = g, !.stale = s]
  <1>n. have' = [have EXCEPT ![c] = n]
    BY DEF Resolve
  <1>d. /\ g \in MaybeAnswers /\ s \in MaybeAnswers
        /\ \A a \in {g, s} : a = NoAnswer \/ (a = entry.answer /\ entry # NoAnswer)
        /\ usable => s # NoAnswer
    <2>1. within(Ttl) => entry # NoAnswer
      OBVIOUS
    <2>2. within(Ttl + StaleTtl) => entry # NoAnswer
      OBVIOUS
    <2>3. usable <=> within(Ttl + StaleTtl)
      OBVIOUS
    <2> HIDE DEF within, entry, usable
    <2>4. QED
      BY <1>b, <2>1, <2>2, <2>3, ResolverAssumption DEF MaybeAnswers
  <1> HIDE DEF g, s
  <1>e. /\ n \in Had /\ n.got = g /\ n.stale = s /\ n.job = NoJob /\ n.result = "none"
        /\ ~n.cut
    BY <1>d, NothingTypes DEF NothingHad
  <1>f. /\ pc[c] = "idle" /\ want' = [want EXCEPT ![c] = w] /\ have' = [have EXCEPT ![c] = n]
        /\ pc' = [pc EXCEPT ![c] = "quality"]
        /\ UNCHANGED <<now, epoch, cache, active, job, inbox>>
    BY <1>n DEF Resolve, Goto
  <1> HIDE DEF entry, w, n, usable
  <1>t. /\ pc \in [Callers -> PC] /\ want \in [Callers -> Wanted] /\ have \in [Callers -> Had]
        /\ inbox \in [Callers -> MaybeAnswers \cup {Pending}]
        /\ job \in [Jobs -> Threads \cup {NoThread}]
    BY TypeParts DEF IInv
  <1>g. /\ want'[c] = w /\ have'[c] = n /\ pc'[c] = "quality"
        /\ \A d \in Callers \ {c} : want'[d] = want[d] /\ have'[d] = have[d] /\ pc'[d] = pc[d]
    BY <1>f, <1>t
  <1>1. TypeOK'
    BY <1>c, <1>e, <1>f, <1>t DEF IInv, TypeOK, PC, Wanted, Had
  <1>2. SlotInv'
    BY <1>f, <1>g, SlotsLeftAlone DEF IInv
  <1>3. CacheInv'
    BY <1>f, CacheLeftAlone DEF IInv
  <1>4. ResolveInv'
    BY <1>a, <1>c, <1>e, <1>f, <1>g DEF IInv, ResolveInv
  <1>5. ThreadInv'
    <2>1. \A j \in Jobs : job[j] # NoThread => job[j].for \in Callers
      BY <1>t DEF Threads
    <2>2. \A j \in Jobs : j # NoJob
      BY ResolverAssumption
    <2>3. QED
      BY <2>1, <2>2, <1>e, <1>f, <1>g DEF IInv, ThreadInv
  <1>6. AnswersAreOfThisNetwork'
    <2>1. \A a \in {g, s, inbox[c]} \cap Answers : a.net >= epoch
      BY <1>b, <1>d, <1>f, ResolverAssumption DEF IInv, ResolveInv
    <2>2. QED
      BY <2>1, <1>c, <1>e, <1>f, <1>g DEF IInv, AnswersAreOfThisNetwork
  <1>7. AnswersInTime'
    BY <1>a, <1>c, <1>f, <1>g, ConstantTypes DEF IInv, AnswersInTime
  <1>8. HistoryInv'
    <2>1. Told(c)'
      <3>1. w.offered => n.stale # NoAnswer
        BY <1>c, <1>d, <1>e
      <3>2. ~w.refused /\ ~n.cut
        BY <1>c, <1>e
      <3>3. QED
        BY <1>g, <3>1, <3>2 DEF Told
    <2>0. \A d \in Callers \ {c} : Told(d)'
      BY <1>f, <1>g DEF IInv, HistoryInv, Told
    <2>2. ASSUME NEW j \in Jobs, job[j].st = "running" PROVE Waited(j)'
      <3>1. job[j].for \in Callers /\ job[j].until \in Nat
        <4>1. job[j] \in Threads
          BY <1>t, <2>2, ThreadTypes
        <4>2. QED
          BY <4>1, ConstantTypes DEF Threads, Times
      <3>2. CASE job[j].for = c
        <4>1. now >= job[j].until /\ now \in Nat
          BY <1>a, <1>f, <2>2, <3>2 DEF IInv, HistoryInv, Waited
        <4>2. now + Timeout # job[j].until
          BY <1>a, <3>1, <4>1, ConstantTypes
        <4>3. QED
          BY <1>c, <1>e, <1>f, <1>g, <3>2, <4>1, <4>2, ResolverAssumption DEF Waited
      <3>3. CASE job[j].for # c
        BY <1>f, <1>g, <2>2, <3>1, <3>3 DEF IInv, HistoryInv, Waited
      <3>4. QED
        BY <3>2, <3>3
    <2>3. \A j \in Jobs : Waited(j)'
      BY <1>f, <2>2 DEF Waited
    <2>4. QED
      BY <2>0, <2>1, <2>3 DEF HistoryInv
  <1>9. QED
    BY <1>1, <1>2, <1>3, <1>4, <1>5, <1>6, <1>7, <1>8 DEF IInv

(* Only the place of a resolve changes.                                    *)
LEMMA Moves ==
    ASSUME IInv, NEW c \in Callers, NEW s \in PC \ {"idle"}, Goto(c, s), pc[c] # "idle",
           have[c].job = NoJob, UNCHANGED <<now, epoch, cache, want, have, inbox>>
    PROVE  /\ CacheInv' /\ ResolveInv' /\ AnswersAreOfThisNetwork' /\ AnswersInTime'
           /\ pc' \in [Callers -> PC] /\ pc'[c] = s
           /\ \A d \in Callers \ {c} : pc'[d] = pc[d]
  <1>1. pc \in [Callers -> PC]
    BY DEF IInv, TypeOK
  <1>2. pc' \in [Callers -> PC] /\ pc'[c] = s /\ \A d \in Callers \ {c} : pc'[d] = pc[d]
    BY <1>1 DEF Goto
  <1>3. CacheInv'
    BY CacheLeftAlone DEF IInv
  <1>4. ResolveInv'
    BY <1>2 DEF IInv, ResolveInv
  <1>5. AnswersAreOfThisNetwork' /\ AnswersInTime'
    BY <1>2 DEF IInv, AnswersAreOfThisNetwork, AnswersInTime
  <1>6. QED
    BY <1>2, <1>3, <1>4, <1>5

LEMMA ReadQualityInv ==
    ASSUME IInv, NEW c \in Callers, ReadQuality(c)
    PROVE  IInv'
  <1>1. PICK s \in {"tier", "store"} : Goto(c, s)
    BY DEF ReadQuality
  <1>2. have[c].job = NoJob
    BY DEF IInv, ResolveInv, ReadQuality
  <1>3. /\ CacheInv' /\ ResolveInv' /\ AnswersAreOfThisNetwork' /\ AnswersInTime'
        /\ pc' \in [Callers -> PC] /\ pc'[c] = s
        /\ \A d \in Callers \ {c} : pc'[d] = pc[d]
    BY <1>1, <1>2, Moves DEF ReadQuality, PC
  <1>4. TypeOK'
    BY <1>3 DEF IInv, TypeOK, ReadQuality
  <1>5. SlotInv'
    BY <1>3, SlotsLeftAlone DEF IInv, ReadQuality
  <1>6. ThreadInv'
    BY DEF IInv, ThreadInv, ReadQuality
  <1>7. HistoryInv'
    <2>1. \A d \in Callers : Told(d)'
      BY <1>1, <1>3 DEF IInv, HistoryInv, Told, ReadQuality
    <2>2. \A j \in Jobs : job[j].st = "running" => job[j].for \in Callers
      BY TypeParts, ThreadTypes DEF IInv, Threads
    <2>3. \A j \in Jobs : Waited(j)'
      BY <1>1, <1>3, <2>2 DEF IInv, HistoryInv, Waited, ReadQuality
    <2>4. QED
      BY <2>1, <2>3 DEF HistoryInv
  <1>8. QED
    BY <1>3, <1>4, <1>5, <1>6, <1>7 DEF IInv

(* A tier ends, with an answer of this network or none.                    *)
LEMMA TierEnds ==
    ASSUME IInv, NEW c \in Callers, NEW answer \in MaybeAnswers, NEW cut \in BOOLEAN,
           NEW refused \in BOOLEAN,
           AfterTier(c, answer, cut), pc[c] # "idle",
           answer # NoAnswer => answer.net >= want[c].epoch,
           \/ want' = want /\ ~refused
           \/ want' = [want EXCEPT ![c].refused = TRUE] /\ refused /\ cut,
           cut => refused \/ now >= want[c].deadline,
           want[c].offered /\ have[c].stale = NoAnswer => answer # NoAnswer,
           pc[c] = "wait" /\ inbox[c] = Pending => cut /\ now >= want[c].deadline,
           UNCHANGED <<now, epoch, cache, job, inbox>>
    PROVE  /\ CacheInv' /\ ResolveInv' /\ ThreadInv' /\ AnswersAreOfThisNetwork' /\ AnswersInTime'
           /\ HistoryInv'
           /\ pc' \in [Callers -> PC] /\ have' \in [Callers -> Had] /\ pc'[c] \in {"tier", "store"}
           /\ want' \in [Callers -> Wanted]
           /\ \A d \in Callers \ {c} : pc'[d] = pc[d]
  <1>t. /\ pc \in [Callers -> PC] /\ have \in [Callers -> Had] /\ want \in [Callers -> Wanted]
        /\ job \in [Jobs -> Threads \cup {NoThread}]
    BY TypeParts DEF IInv
  <1>1. /\ pc' \in [Callers -> PC] /\ pc'[c] \in {"tier", "store"}
        /\ \A d \in Callers \ {c} : pc'[d] = pc[d]
    BY <1>t DEF AfterTier, Goto, PC
  <1>2. PICK b \in BOOLEAN : /\ b <=> (have[c].cut \/ cut)
                             /\ have' = [have EXCEPT ![c] = [have[c] EXCEPT
                                   !.got = answer, !.tier = "local", !.job = NoJob, !.cut = b]]
    <2>1. have[c] \in Had
      BY <1>t
    <2>2. (have[c].cut \/ cut) \in BOOLEAN
      OBVIOUS
    <2>3. QED
      BY <2>1, <2>2, <1>t DEF AfterTier, Had
  <1>3. /\ have' \in [Callers -> Had]
        /\ have'[c].got = answer /\ have'[c].stale = have[c].stale /\ have'[c].job = NoJob
        /\ have'[c].result = have[c].result /\ (have'[c].cut <=> have[c].cut \/ cut)
        /\ \A d \in Callers \ {c} : have'[d] = have[d]
    BY <1>2, <1>t DEF Had, Tiers
  <1>w. /\ want' \in [Callers -> Wanted]
        /\ \A d \in Callers : /\ want'[d].host = want[d].host /\ want'[d].epoch = want[d].epoch
                              /\ want'[d].deadline = want[d].deadline
                              /\ want'[d].late = want[d].late
                              /\ want'[d].offered = want[d].offered
        /\ \A d \in Callers \ {c} : want'[d].refused = want[d].refused
        /\ (want'[c].refused <=> want[c].refused \/ refused)
    <2>1. CASE want' = want /\ ~refused
      BY <1>t, <2>1
    <2>2. CASE want' = [want EXCEPT ![c].refused = TRUE] /\ refused
      <3>1. want[c] \in Wanted
        BY <1>t
      <3> DEFINE w == [want[c] EXCEPT !.refused = TRUE]
      <3>2. /\ w \in Wanted /\ w.host = want[c].host /\ w.epoch = want[c].epoch
            /\ w.deadline = want[c].deadline /\ w.late = want[c].late
            /\ w.offered = want[c].offered /\ w.refused
        BY <3>1 DEF Wanted
      <3>3. want' = [want EXCEPT ![c] = w]
        BY <2>2
      <3> HIDE DEF w
      <3>4. want'[c] = w /\ \A d \in Callers \ {c} : want'[d] = want[d]
        BY <1>t, <3>3
      <3>5. want' \in [Callers -> Wanted]
        BY <1>t, <3>2, <3>3
      <3>6. QED
        BY <2>2, <3>2, <3>4, <3>5
    <2>3. QED
      BY <2>1, <2>2
  <1>4. CacheInv'
    BY CacheLeftAlone DEF IInv
  <1>5. ResolveInv'
    BY <1>1, <1>3, <1>w DEF IInv, ResolveInv
  <1>j. \A j \in Jobs : /\ j # NoJob /\ (job[j] # NoThread => job[j].for \in Callers)
                       /\ (job[j].st = "running" => job[j] # NoThread)
    BY <1>t, ResolverAssumption, ThreadTypes DEF Threads, NoThread
  <1>6. ThreadInv'
    BY <1>3, <1>j, <1>w DEF IInv, ThreadInv
  <1>7. AnswersAreOfThisNetwork'
    BY <1>1, <1>3, <1>w, ResolverAssumption DEF IInv, AnswersAreOfThisNetwork
  <1>8. AnswersInTime'
    BY <1>1, <1>w DEF IInv, AnswersInTime
  <1>9. HistoryInv'
    <2>1. Told(c)'
      BY <1>1, <1>3, <1>w DEF IInv, HistoryInv, Told
    <2>2. \A d \in Callers \ {c} : Told(d)'
      BY <1>1, <1>3, <1>w DEF IInv, HistoryInv, Told
    <2>3. ASSUME NEW j \in Jobs, job[j].st = "running" PROVE Waited(j)'
      <3>1. job[j].for \in Callers /\ j # NoJob
        BY <1>j, <2>3
      <3>2. CASE job[j].for # c
        BY <1>1, <1>3, <1>w, <2>3, <3>1, <3>2 DEF IInv, HistoryInv, Waited
      <3>3. CASE job[j].for = c
        <4>1. now >= job[j].until /\ (want[c].deadline = job[j].until => have[c].cut \/ cut)
          BY <2>3, <3>3 DEF IInv, HistoryInv, Waited
        <4>2. QED
          BY <1>1, <1>3, <1>w, <3>1, <3>3, <4>1 DEF Waited
      <3>4. QED
        BY <3>2, <3>3
    <2>4. \A j \in Jobs : Waited(j)'
      BY <2>3 DEF Waited
    <2>5. QED
      BY <2>1, <2>2, <2>4 DEF HistoryInv
  <1>10. QED
    BY <1>1, <1>3, <1>w, <1>4, <1>5, <1>6, <1>7, <1>8, <1>9

(* A tier is skipped, refused, answered or given up.                       *)
LEMMA TierEndsInv ==
    ASSUME IInv, NEW c \in Callers,
           SkipTier(c) \/ RefuseTier(c) \/ LookupAnswers(c) \/ StopWaiting(c)
    PROVE  IInv'
  <1>a. have[c] \in Had /\ inbox[c] \in MaybeAnswers \cup {Pending} /\ want[c] \in Wanted
    BY TypeParts DEF IInv
  <1>t. Told(c) /\ pc[c] # "idle"
    BY DEF IInv, HistoryInv, SkipTier, RefuseTier, LookupAnswers, StopWaiting
  <1> DEFINE Ends(answer, cut, refused) ==
          /\ AfterTier(c, answer, cut) /\ answer \in {NoAnswer, have[c].got, inbox[c]}
          /\ \/ want' = want /\ ~refused
             \/ want' = [want EXCEPT ![c].refused = TRUE] /\ refused /\ cut
          /\ cut => refused \/ now >= want[c].deadline
          /\ want[c].offered /\ have[c].stale = NoAnswer => answer # NoAnswer
          /\ pc[c] = "wait" /\ inbox[c] = Pending => cut /\ now >= want[c].deadline
  <1>1. PICK answer \in MaybeAnswers, cut \in BOOLEAN, refused \in BOOLEAN :
            Ends(answer, cut, refused)
    <2>1. CASE SkipTier(c)
      <3>1. have[c].got \in MaybeAnswers
        BY <1>a DEF Had
      <3>2. want[c].offered /\ have[c].stale = NoAnswer => have[c].got # NoAnswer
        BY <1>t, <2>1 DEF SkipTier, Told
      <3>3. Ends(have[c].got, FALSE, FALSE)
        BY <2>1, <3>2 DEF SkipTier
      <3> HIDE DEF Ends
      <3>4. QED
        BY <3>1, <3>3
    <2>2. CASE RefuseTier(c)
      <3>1. want[c].offered => have[c].stale # NoAnswer
        BY <1>t, <2>2 DEF RefuseTier, Told, Wants
      <3>2. Ends(NoAnswer, TRUE, TRUE)
        BY <2>2, <3>1 DEF RefuseTier
      <3> HIDE DEF Ends
      <3>3. QED
        BY <3>2 DEF MaybeAnswers
    <2>3. CASE LookupAnswers(c)
      <3>1. inbox[c] \in MaybeAnswers
        BY <1>a, <2>3 DEF LookupAnswers
      <3>2. want[c].offered /\ have[c].stale = NoAnswer => inbox[c] # NoAnswer
        BY <1>t, <2>3, ResolverAssumption DEF LookupAnswers, Told
      <3>3. Ends(inbox[c], FALSE, FALSE)
        BY <2>3, <3>2 DEF LookupAnswers
      <3> HIDE DEF Ends
      <3>4. QED
        BY <3>1, <3>3
    <2>4. CASE StopWaiting(c)
      <3>1. want[c].offered => have[c].stale # NoAnswer
        BY <1>t, <2>4, ResolverAssumption DEF StopWaiting, Told
      <3>2. Ends(NoAnswer, TRUE, FALSE)
        BY <2>4, <3>1 DEF StopWaiting, DeadlineOver
      <3> HIDE DEF Ends
      <3>3. QED
        BY <3>2 DEF MaybeAnswers
    <2>5. QED
      BY <2>1, <2>2, <2>3, <2>4
  <1>2. pc[c] \in {"tier", "wait"} /\ UNCHANGED <<now, epoch, cache, active, job, inbox>>
    BY DEF SkipTier, RefuseTier, LookupAnswers, StopWaiting
  <1>3. answer # NoAnswer => answer.net >= want[c].epoch
    BY <1>1, <1>2, ResolverAssumption DEF IInv, AnswersAreOfThisNetwork, MaybeAnswers
  <1>4. /\ CacheInv' /\ ResolveInv' /\ ThreadInv' /\ AnswersAreOfThisNetwork' /\ AnswersInTime'
        /\ HistoryInv'
        /\ pc' \in [Callers -> PC] /\ have' \in [Callers -> Had] /\ pc'[c] \in {"tier", "store"}
        /\ want' \in [Callers -> Wanted]
        /\ \A d \in Callers \ {c} : pc'[d] = pc[d]
    BY <1>1, <1>2, <1>3, TierEnds
  <1>5. TypeOK'
    BY <1>2, <1>4 DEF IInv, TypeOK, Had, Wanted
  <1>6. SlotInv'
    BY <1>2, <1>4, SlotsLeftAlone DEF IInv
  <1>7. QED
    BY <1>4, <1>5, <1>6 DEF IInv

(* The slot is counted when it is taken.                                   *)
LEMMA TakeSlotInv ==
    ASSUME IInv, NEW c \in Callers, TakeSlot(c)
    PROVE  IInv'
  <1>1. have[c].job = NoJob
    BY DEF IInv, ResolveInv, TakeSlot
  <1>2. /\ CacheInv' /\ ResolveInv' /\ AnswersAreOfThisNetwork' /\ AnswersInTime'
        /\ pc' \in [Callers -> PC] /\ pc'[c] = "slot"
        /\ \A d \in Callers \ {c} : pc'[d] = pc[d]
    BY <1>1, Moves DEF TakeSlot, PC
  <1>3. TypeOK'
    BY <1>2 DEF IInv, TypeOK, TakeSlot
  <1>4. SlotInv'
    <2>1. SlotCallers' = SlotCallers \cup {c} /\ c \notin SlotCallers /\ LiveJobs' = LiveJobs
      BY <1>2 DEF SlotCallers, LiveJobs, TakeSlot
    <2>2. Cardinality(SlotCallers') = Cardinality(SlotCallers) + 1
      BY <2>1, FS_AddElement, SlotsFinite
    <2>3. QED
      BY <2>1, <2>2, SlotsFinite, ConstantTypes DEF IInv, SlotInv, TakeSlot
  <1>5. ThreadInv'
    BY DEF IInv, ThreadInv, TakeSlot
  <1>6. HistoryInv'
    <2>1. \A d \in Callers : Told(d)'
      BY <1>2 DEF IInv, HistoryInv, Told, TakeSlot, Wants
    <2>2. \A j \in Jobs : job[j].st = "running" => job[j].for \in Callers
      BY TypeParts, ThreadTypes DEF IInv, Threads
    <2>3. \A j \in Jobs : Waited(j)'
      BY <1>2, <2>2 DEF IInv, HistoryInv, Waited, TakeSlot
    <2>4. QED
      BY <2>1, <2>3 DEF HistoryInv
  <1>7. QED
    BY <1>2, <1>3, <1>4, <1>5, <1>6 DEF IInv

(* There is no thread; the slot is given back.                             *)
LEMMA SpawnFailsInv ==
    ASSUME IInv, NEW c \in Callers, SpawnFails(c)
    PROVE  IInv'
  <1>0. want[c].offered => have[c].stale # NoAnswer
    BY DEF IInv, HistoryInv, Told, SpawnFails
  <1>1. /\ CacheInv' /\ ResolveInv' /\ ThreadInv' /\ AnswersAreOfThisNetwork' /\ AnswersInTime'
        /\ HistoryInv'
        /\ pc' \in [Callers -> PC] /\ have' \in [Callers -> Had] /\ pc'[c] \in {"tier", "store"}
        /\ \A d \in Callers \ {c} : pc'[d] = pc[d]
    <2>1. AfterTier(c, NoAnswer, FALSE) /\ pc[c] = "slot" /\ want' = want /\ NoAnswer \in MaybeAnswers
          /\ UNCHANGED <<now, epoch, cache, job, inbox>>
      BY DEF SpawnFails, MaybeAnswers
    <2>2. \E cut, refused \in BOOLEAN :
              AfterTier(c, NoAnswer, cut) /\ ~cut /\ ~refused
      BY <2>1
    <2>3. QED
      BY <1>0, <2>1, <2>2, TierEnds
  <1>2. SlotCallers' = SlotCallers \ {c} /\ c \in SlotCallers /\ LiveJobs' = LiveJobs
    BY <1>1 DEF SlotCallers, LiveJobs, SpawnFails
  <1>3. /\ Cardinality(SlotCallers') = Cardinality(SlotCallers) - 1
        /\ Cardinality(SlotCallers) # 0
    BY <1>2, FS_RemoveElement, FS_EmptySet, SlotsFinite
  <1>4. active' = active - 1 /\ active \in Nat /\ active > 0
    BY <1>3, SlotsFinite DEF IInv, TypeOK, SlotInv, SpawnFails, Decremented
  <1>5. TypeOK'
    BY <1>1, <1>4 DEF IInv, TypeOK, Had, SpawnFails
  <1>6. SlotInv'
    BY <1>2, <1>3, <1>4, SlotsFinite, ConstantTypes DEF IInv, SlotInv
  <1>7. QED
    BY <1>1, <1>5, <1>6 DEF IInv

(* The slot passes to the thread, which looks up on the present network.   *)
LEMMA SpawnInv ==
    ASSUME IInv, NEW c \in Callers, NEW j \in Jobs, Spawn(c, j)
    PROVE  IInv'
  <1> DEFINE t == [st |-> "running", for |-> c, born |-> now, net |-> epoch,
                   until |-> want[c].deadline]
  <1>t. /\ pc \in [Callers -> PC] /\ want \in [Callers -> Wanted] /\ have \in [Callers -> Had]
        /\ inbox \in [Callers -> MaybeAnswers \cup {Pending}]
        /\ job \in [Jobs -> Threads \cup {NoThread}] /\ now \in Times /\ epoch \in Epochs
    BY TypeParts DEF IInv
  <1>a. /\ t \in Threads /\ t # NoThread /\ t.for = c /\ t.net = epoch
        /\ t.until = want[c].deadline
    BY <1>t, ThreadTypes DEF Threads, Wanted
  <1>b. /\ pc[c] = "slot" /\ job[j] = NoThread /\ job' = [job EXCEPT ![j] = t]
        /\ have' = [have EXCEPT ![c].job = j] /\ inbox' = [inbox EXCEPT ![c] = Pending]
        /\ pc' = [pc EXCEPT ![c] = "wait"] /\ UNCHANGED <<now, epoch, cache, active, want>>
    BY DEF Spawn, Goto
  <1> HIDE DEF t
  <1>c. /\ have' \in [Callers -> Had] /\ have'[c].job = j /\ have'[c].got = have[c].got
        /\ have'[c].stale = have[c].stale /\ have'[c].result = have[c].result
        /\ (have'[c].cut <=> have[c].cut)
        /\ \A d \in Callers \ {c} : have'[d] = have[d]
    BY <1>b, <1>t DEF Had
  <1>d. /\ pc' \in [Callers -> PC] /\ pc'[c] = "wait" /\ inbox'[c] = Pending
        /\ inbox' \in [Callers -> MaybeAnswers \cup {Pending}]
        /\ \A d \in Callers \ {c} : pc'[d] = pc[d] /\ inbox'[d] = inbox[d]
    BY <1>b, <1>t DEF PC
  <1>e. /\ job' \in [Jobs -> Threads \cup {NoThread}] /\ job'[j] = t
        /\ \A i \in Jobs \ {j} : job'[i] = job[i]
    BY <1>a, <1>b, <1>t
  <1>1. TypeOK'
    BY <1>b, <1>c, <1>d, <1>e DEF IInv, TypeOK, Had
  <1>2. SlotInv'
    <2>1. /\ SlotCallers' = SlotCallers \ {c} /\ c \in SlotCallers
          /\ LiveJobs' = LiveJobs \cup {j} /\ j \notin LiveJobs
      BY <1>a, <1>b, <1>d, <1>e DEF SlotCallers, LiveJobs
    <2>2. /\ Cardinality(SlotCallers') = Cardinality(SlotCallers) - 1
          /\ Cardinality(LiveJobs') = Cardinality(LiveJobs) + 1
      BY <2>1, FS_RemoveElement, FS_AddElement, SlotsFinite
    <2>3. QED
      BY <1>b, <2>2, SlotsFinite DEF IInv, SlotInv
  <1>3. CacheInv'
    BY <1>b, CacheLeftAlone DEF IInv
  <1>4. ResolveInv'
    BY <1>b, <1>c, <1>d DEF IInv, ResolveInv
  <1>5. ThreadInv'
    <2>1. \A i \in Jobs : job[i] # NoThread => job[i].for \in Callers
      BY <1>t DEF Threads
    <2>2. want[c].epoch <= epoch /\ want[c].epoch \in Nat /\ epoch \in Nat
      BY <1>t, ConstantTypes DEF IInv, ResolveInv, Wanted, Epochs
    <2>3. QED
      BY <2>1, <2>2, <1>a, <1>b, <1>c, <1>e DEF IInv, ThreadInv
  <1>6. AnswersAreOfThisNetwork'
    BY <1>b, <1>c, <1>d, ResolverAssumption DEF IInv, AnswersAreOfThisNetwork
  <1>7. AnswersInTime'
    BY <1>b, <1>d DEF IInv, AnswersInTime
  <1>8. HistoryInv'
    <2>0. /\ have[c].got = NoAnswer /\ (want[c].offered => have[c].stale # NoAnswer)
          /\ (have[c].cut => want[c].refused \/ now >= want[c].deadline)
          /\ (want[c].refused => have[c].cut)
      BY <1>b DEF IInv, HistoryInv, Told
    <2>1. \A d \in Callers : Told(d)'
      <3>1. Told(c)'
        <4>1. /\ want'[c].offered => have'[c].stale # NoAnswer
              /\ have'[c].cut => want'[c].refused \/ now' >= want'[c].deadline
              /\ want'[c].refused => have'[c].cut
          BY <1>b, <1>c, <2>0
        <4>2. have'[c].got = NoAnswer
          BY <1>c, <2>0
        <4>3. QED
          BY <4>1, <4>2 DEF Told
      <3>2. \A d \in Callers \ {c} : Told(d)'
        BY <1>b, <1>c, <1>d DEF IInv, HistoryInv, Told
      <3>3. QED
        BY <3>1, <3>2
    <2>2. Waited(j)'
      BY <1>a, <1>b, <1>c, <1>d, <1>e DEF Waited
    <2>3. ASSUME NEW i \in Jobs \ {j}, job[i].st = "running" PROVE Waited(i)'
      <3>1. job[i].for \in Callers
        BY <1>t, <2>3, ThreadTypes DEF Threads
      <3>2. CASE job[i].for = c
        BY <1>b, <1>c, <1>d, <1>e, <2>3, <3>2 DEF IInv, HistoryInv, Waited
      <3>3. CASE job[i].for # c
        BY <1>b, <1>c, <1>d, <1>e, <2>3, <3>1, <3>3 DEF IInv, HistoryInv, Waited
      <3>4. QED
        BY <3>2, <3>3
    <2>4. \A i \in Jobs : Waited(i)'
      BY <1>e, <2>2, <2>3 DEF Waited
    <2>5. QED
      BY <2>1, <2>4 DEF HistoryInv
  <1>9. QED
    BY <1>1, <1>2, <1>3, <1>4, <1>5, <1>6, <1>7, <1>8 DEF IInv

(* A lookup ends: only the resolve that waits for this one hears of it.    *)
LEMMA LookupEndsInv ==
    ASSUME IInv, NEW j \in Jobs, NEW found \in BOOLEAN, LookupEnds(j, found)
    PROVE  IInv'
  <1> DEFINE t == job[j]
             a == IF found THEN [born |-> t.born, net |-> t.net] ELSE NoAnswer
  <1>t. /\ inbox \in [Callers -> MaybeAnswers \cup {Pending}]
        /\ job \in [Jobs -> Threads \cup {NoThread}] /\ want \in [Callers -> Wanted]
    BY TypeParts DEF IInv
  <1>a. t \in Threads /\ t # NoThread /\ t.for \in Callers
    BY <1>t, ThreadTypes DEF LookupEnds, Threads
  <1>b. /\ job' = [job EXCEPT ![j].st = "posted"]
        /\ inbox' = IF have[t.for].job = j THEN [inbox EXCEPT ![t.for] = a] ELSE inbox
        /\ UNCHANGED <<now, epoch, cache, active, pc, have>>
    BY DEF LookupEnds
  <1>w. /\ want' \in [Callers -> Wanted]
        /\ \A c \in Callers : /\ want'[c].host = want[c].host /\ want'[c].epoch = want[c].epoch
                              /\ want'[c].deadline = want[c].deadline
                              /\ want'[c].late = want[c].late
                              /\ want'[c].refused = want[c].refused
                              /\ c # t.for => want'[c].offered = want[c].offered
        /\ want'[t.for].offered <=> want[t.for].offered \/ (found /\ now < t.until)
    BY <1>a, <1>t DEF LookupEnds, Wanted
  <1>c. /\ a \in MaybeAnswers /\ (a \in Answers => a.net = t.net)
        /\ found => a \in Answers
    BY <1>a, ResolverAssumption DEF MaybeAnswers, Answers, Threads
  <1>d. /\ job' \in [Jobs -> Threads \cup {NoThread}]
        /\ job'[j] # NoThread /\ job'[j].for = t.for /\ job'[j].net = t.net
        /\ job'[j].st = "posted"
        /\ \A i \in Jobs \ {j} : job'[i] = job[i]
    <2>1. job' = [job EXCEPT ![j] = [t EXCEPT !.st = "posted"]]
      BY <1>b
    <2>2. [t EXCEPT !.st = "posted"] \in Threads
      BY <1>a, ThreadTypes
    <2>3. [t EXCEPT !.st = "posted"] # NoThread
      BY <2>2, ThreadTypes
    <2>4. QED
      BY <1>a, <1>t, <2>1, <2>2, <2>3 DEF Threads
  <1> HIDE DEF a
  <1>e. /\ inbox' \in [Callers -> MaybeAnswers \cup {Pending}]
        /\ \A c \in Callers : inbox'[c] = IF c = t.for /\ have[c].job = j THEN a ELSE inbox[c]
    BY <1>a, <1>b, <1>c, <1>t
  <1>1. TypeOK'
    BY <1>b, <1>d, <1>e, <1>w DEF IInv, TypeOK, Wanted
  <1>2. SlotInv'
    <2>1. SlotCallers' = SlotCallers /\ LiveJobs' = LiveJobs
      BY <1>a, <1>b, <1>d DEF SlotCallers, LiveJobs
    <2>2. QED
      BY <1>b, <2>1 DEF IInv, SlotInv
  <1>3. CacheInv'
    BY <1>b, CacheLeftAlone DEF IInv
  <1>4. ResolveInv'
    <2>1. \A c \in Callers : have[c].job = j => pc[c] = "wait"
      BY ResolverAssumption DEF IInv, ResolveInv
    <2>2. QED
      BY <1>b, <1>e, <1>w, <2>1 DEF IInv, ResolveInv
  <1>5. ThreadInv'
    <2>1. \A i \in Jobs : job[i] # NoThread => job[i].for \in Callers
      BY <1>t DEF Threads
    <2>2. QED
      BY <1>a, <1>b, <1>d, <1>w, <2>1 DEF IInv, ThreadInv
  <1>6. AnswersAreOfThisNetwork'
    <2>1. have[t.for].job = j => t.net >= want[t.for].epoch
      BY <1>a DEF IInv, ThreadInv
    <2>2. QED
      BY <1>b, <1>c, <1>e, <1>w, <2>1 DEF IInv, AnswersAreOfThisNetwork
  <1>7. AnswersInTime'
    BY <1>b, <1>w DEF IInv, AnswersInTime
  <1>8. HistoryInv'
    <2>1. have[t.for].job = j => pc[t.for] = "wait" /\ inbox[t.for] = Pending
      BY <1>a DEF IInv, HistoryInv, Waited, LookupEnds
    <2>2. found /\ now < t.until => have[t.for].job = j
      <3>1. t.until \in Nat /\ now \in Nat
        BY <1>a DEF Threads, Times, IInv, TypeOK
      <3>2. QED
        BY <3>1 DEF IInv, HistoryInv, Waited, LookupEnds
    <2>3. ASSUME NEW c \in Callers PROVE Told(c)'
      <3>1. CASE c = t.for /\ have[c].job = j
        BY <1>b, <1>c, <1>e, <1>w, <2>1, <3>1, ResolverAssumption DEF IInv, HistoryInv, Told
      <3>2. CASE c = t.for /\ have[c].job # j
        BY <1>b, <1>e, <1>w, <2>2, <3>2 DEF IInv, HistoryInv, Told
      <3>3. CASE c # t.for
        BY <1>b, <1>e, <1>w, <3>3 DEF IInv, HistoryInv, Told
      <3>4. QED
        BY <3>1, <3>2, <3>3
    <2>4. ASSUME NEW i \in Jobs \ {j}, job[i].st = "running" PROVE Waited(i)'
      <3>1. job[i].for \in Callers
        BY <1>t, <2>4, ThreadTypes DEF Threads
      <3>2. QED
        BY <1>b, <1>d, <1>e, <1>w, <2>4, <3>1 DEF IInv, HistoryInv, Waited
    <2>5. \A i \in Jobs : Waited(i)'
      BY <1>d, <2>4 DEF Waited
    <2>6. QED
      BY <2>3, <2>5 DEF HistoryInv
  <1>9. QED
    BY <1>1, <1>2, <1>3, <1>4, <1>5, <1>6, <1>7, <1>8 DEF IInv

(* The thread gives its slot back, whether or not anybody waited for it.   *)
LEMMA SlotBackInv ==
    ASSUME IInv, NEW j \in Jobs, SlotBack(j)
    PROVE  IInv'
  <1>t. job \in [Jobs -> Threads \cup {NoThread}]
    BY TypeParts DEF IInv
  <1>a. job[j] # NoThread
    BY <1>t, ThreadTypes DEF SlotBack
  <1>b. /\ job' \in [Jobs -> Threads \cup {NoThread}] /\ job'[j] = NoThread
        /\ \A i \in Jobs \ {j} : job'[i] = job[i]
    BY <1>t DEF SlotBack
  <1>c. SlotCallers' = SlotCallers /\ LiveJobs' = LiveJobs \ {j} /\ j \in LiveJobs
    BY <1>a, <1>b DEF SlotCallers, LiveJobs, SlotBack
  <1>d. Cardinality(LiveJobs') = Cardinality(LiveJobs) - 1 /\ Cardinality(LiveJobs) # 0
    BY <1>c, FS_RemoveElement, FS_EmptySet, SlotsFinite
  <1>e. active' = active - 1 /\ active \in Nat /\ active > 0
    BY <1>d, SlotsFinite DEF IInv, TypeOK, SlotInv, SlotBack, Decremented
  <1>1. TypeOK'
    BY <1>b, <1>e DEF IInv, TypeOK, SlotBack
  <1>2. SlotInv'
    BY <1>c, <1>d, <1>e, SlotsFinite, ConstantTypes DEF IInv, SlotInv
  <1>3. CacheInv'
    BY CacheLeftAlone DEF IInv, SlotBack
  <1>4. ResolveInv'
    BY DEF IInv, ResolveInv, SlotBack
  <1>5. ThreadInv'
    BY <1>b DEF IInv, ThreadInv, SlotBack
  <1>6. AnswersAreOfThisNetwork' /\ AnswersInTime'
    BY DEF IInv, AnswersAreOfThisNetwork, AnswersInTime, SlotBack
  <1>7. HistoryInv'
    <2>1. \A c \in Callers : Told(c)'
      BY DEF IInv, HistoryInv, Told, SlotBack
    <2>2. \A i \in Jobs : Waited(i)'
      BY <1>b DEF IInv, HistoryInv, Waited, SlotBack, NoThread
    <2>3. QED
      BY <2>1, <2>2 DEF HistoryInv
  <1>8. QED
    BY <1>1, <1>2, <1>3, <1>4, <1>5, <1>6, <1>7 DEF IInv

-----------------------------------------------------------------------------
(* A resolve returns, having left a good cache.                            *)
LEMMA Returns ==
    ASSUME IInv, NEW c \in Callers, NEW r \in {"ok", "dns", "timeout"}, Return(c, r),
           pc[c] = "store", UNCHANGED <<now, epoch, active, job>>,
           cache' \in [Keys -> Entry \cup {NoAnswer}], CacheInv'
    PROVE  IInv'
  <1> DEFINE n == [NothingHad EXCEPT !.result = r]
  <1>t. /\ pc \in [Callers -> PC] /\ want \in [Callers -> Wanted] /\ have \in [Callers -> Had]
        /\ inbox \in [Callers -> MaybeAnswers \cup {Pending}]
        /\ job \in [Jobs -> Threads \cup {NoThread}] /\ epoch \in Epochs
    BY TypeParts DEF IInv
  <1>a. n \in Had /\ n.job = NoJob /\ NothingWanted \in Wanted /\ NothingWanted.epoch = 0
    BY NothingTypes DEF NothingWanted
  <1>b. /\ have' = [have EXCEPT ![c] = n] /\ want' = [want EXCEPT ![c] = NothingWanted]
        /\ inbox' = [inbox EXCEPT ![c] = Pending] /\ pc' = [pc EXCEPT ![c] = "idle"]
    BY DEF Return, Goto
  <1> HIDE DEF n
  <1>c. /\ have'[c] = n /\ want'[c] = NothingWanted /\ inbox'[c] = Pending /\ pc'[c] = "idle"
        /\ \A d \in Callers \ {c} : /\ have'[d] = have[d] /\ want'[d] = want[d]
                                    /\ inbox'[d] = inbox[d] /\ pc'[d] = pc[d]
    BY <1>b, <1>t
  <1>1. TypeOK'
    BY <1>a, <1>b, <1>t DEF IInv, TypeOK, PC, Had, Wanted
  <1>2. SlotInv'
    BY <1>c, SlotsLeftAlone DEF IInv
  <1>3. ResolveInv'
    BY <1>a, <1>c, <1>t, ConstantTypes DEF IInv, ResolveInv, Epochs
  <1>4. ThreadInv'
    <2>1. \A i \in Jobs : job[i] # NoThread => job[i].for \in Callers
      BY <1>t DEF Threads
    <2>2. QED
      BY <1>a, <1>c, <2>1, ResolverAssumption DEF IInv, ThreadInv
  <1>5. AnswersAreOfThisNetwork' /\ AnswersInTime'
    BY <1>c DEF IInv, AnswersAreOfThisNetwork, AnswersInTime
  <1>6. HistoryInv'
    <2>1. \A d \in Callers : Told(d)'
      BY <1>c DEF IInv, HistoryInv, Told
    <2>2. ASSUME NEW i \in Jobs, job[i].st = "running" PROVE Waited(i)'
      <3>1. job[i].for \in Callers /\ i # NoJob
        BY <1>t, <2>2, ThreadTypes, ResolverAssumption DEF Threads
      <3>2. QED
        BY <1>a, <1>c, <2>2, <3>1 DEF IInv, HistoryInv, Waited
    <2>3. \A i \in Jobs : Waited(i)'
      BY <2>2 DEF Waited
    <2>4. QED
      BY <2>1, <2>3 DEF HistoryInv
  <1>7. QED
    BY <1>1, <1>2, <1>3, <1>4, <1>5, <1>6 DEF IInv

(* What is found is an entry for the resolve's own network.                *)
LEMMA FoundTypes ==
    ASSUME IInv, NEW c \in Callers, pc[c] = "store", NEW e \in Found(c)
    PROVE  e \in Entry /\ e # NoAnswer /\ e.answer.net >= want[c].epoch
  <1>1. PICK a \in Chosen(c) : a # NoAnswer /\ e = [answer |-> a, written |-> now]
    BY DEF Found
  <1>2. have[c] \in Had /\ want[c] \in Wanted /\ now \in Times
    BY TypeParts DEF IInv
  <1>3. a \in Answers /\ a.net >= want[c].epoch
    <2>1. CASE a = BackupOf(c)
      BY <1>2, <2>1, ConstantTypes DEF BackupOf, Answers, Wanted, Epochs
    <2>2. CASE a \in {have[c].got, have[c].stale}
      BY <1>1, <1>2, <2>2 DEF Had, MaybeAnswers, IInv, AnswersAreOfThisNetwork
    <2>3. QED
      BY <1>1, <2>1, <2>2 DEF Chosen
  <1>4. e \in Entry /\ e.answer = a
    BY <1>1, <1>2, <1>3 DEF Entry
  <1>5. QED
    BY <1>3, <1>4, ResolverAssumption

LEMMA KeyTypes ==
    ASSUME IInv, NEW c \in Callers, pc[c] = "store"
    PROVE  Key(c) \in Keys /\ Key(c) = <<want[c].host, want[c].epoch>>
  <1>1. want[c] \in Wanted /\ want[c].host \in Hosts
    BY TypeParts DEF IInv, ResolveInv
  <1>2. QED
    BY <1>1 DEF Key, CacheKey, Keys, Wanted

(* The answer is stored in a cache that has room, or has the key already.  *)
LEMMA StoreInv ==
    ASSUME IInv, NEW c \in Callers, Store(c)
    PROVE  IInv'
  <1>1. PICK e \in Found(c) : cache' = [cache EXCEPT ![Key(c)] = e]
    BY DEF Store
  <1>2. e \in Entry /\ e # NoAnswer /\ e.answer.net >= want[c].epoch
    BY FoundTypes DEF Store
  <1>3. Key(c) \in Keys /\ Key(c) = <<want[c].host, want[c].epoch>>
    BY KeyTypes DEF Store
  <1>4. cache \in [Keys -> Entry \cup {NoAnswer}]
    BY DEF IInv, TypeOK
  <1>5. cache' \in [Keys -> Entry \cup {NoAnswer}]
    BY <1>1, <1>2, <1>4
  <1>6. CacheInv'
    <2>1. Entries' = Entries \cup {Key(c)}
      BY <1>1, <1>2, <1>3, <1>4 DEF Entries
    <2>2. /\ IsFiniteSet(Entries') /\ Cardinality(Entries) \in Nat
          /\ Cardinality(Entries') = IF Key(c) \in Entries THEN Cardinality(Entries)
                                     ELSE Cardinality(Entries) + 1
      BY <2>1, FS_AddElement, FS_CardinalityType DEF IInv, CacheInv
    <2>3. CacheBounded'
      BY <2>2, ConstantTypes DEF CacheBounded, IInv, CacheInv, Store, Full
    <2>4. ASSUME NEW h \in Hosts, NEW ep \in Epochs, cache'[<<h, ep>>] # NoAnswer
          PROVE  cache'[<<h, ep>>].answer.net >= ep
      <3>1. <<h, ep>> \in Keys
        BY DEF Keys
      <3>2. CASE <<h, ep>> = Key(c)
        BY <1>1, <1>2, <1>3, <1>4, <3>2
      <3>3. CASE <<h, ep>> # Key(c)
        BY <1>1, <1>4, <2>4, <3>1, <3>3 DEF IInv, CacheInv
      <3>4. QED
        BY <3>2, <3>3
    <2>5. QED
      BY <2>2, <2>3, <2>4 DEF CacheInv
  <1>7. QED
    BY <1>5, <1>6, Returns DEF Store

(* A full cache gives up an entry for the new one.                         *)
LEMMA StoreEvictingInv ==
    ASSUME IInv, NEW c \in Callers, NEW k \in Keys, StoreEvicting(c, k)
    PROVE  IInv'
  <1>1. PICK e \in Found(c) : cache' = [cache EXCEPT ![k] = NoAnswer, ![Key(c)] = e]
    BY DEF StoreEvicting
  <1>2. e \in Entry /\ e # NoAnswer /\ e.answer.net >= want[c].epoch
    BY FoundTypes DEF StoreEvicting
  <1>3. Key(c) \in Keys /\ Key(c) = <<want[c].host, want[c].epoch>>
    BY KeyTypes DEF StoreEvicting
  <1>4. cache \in [Keys -> Entry \cup {NoAnswer}] /\ Key(c) \notin Entries /\ k \in Entries
    BY DEF IInv, TypeOK, StoreEvicting, Full
  <1>5. /\ cache' \in [Keys -> Entry \cup {NoAnswer}]
        /\ cache'[Key(c)] = e /\ cache'[k] = NoAnswer
        /\ \A l \in Keys \ {k, Key(c)} : cache'[l] = cache[l]
    BY <1>1, <1>2, <1>3, <1>4
  <1>6. CacheInv'
    <2>1. Entries' = (Entries \ {k}) \cup {Key(c)}
      BY <1>2, <1>3, <1>4, <1>5 DEF Entries
    <2>2. /\ IsFiniteSet(Entries \ {k})
          /\ Cardinality(Entries \ {k}) = Cardinality(Entries) - 1
          /\ Cardinality(Entries) \in Nat
      BY <1>4, FS_RemoveElement, FS_CardinalityType DEF IInv, CacheInv
    <2>3. IsFiniteSet(Entries') /\ Cardinality(Entries') = Cardinality(Entries)
      <3>1. Key(c) \notin Entries \ {k}
        BY <1>4
      <3>2. /\ IsFiniteSet(Entries')
            /\ Cardinality(Entries') = Cardinality(Entries \ {k}) + 1
        BY <2>1, <2>2, <3>1, FS_AddElement
      <3>3. QED
        BY <2>2, <3>2
    <2>4. CacheBounded'
      BY <2>3 DEF CacheBounded, IInv, CacheInv
    <2>5. ASSUME NEW h \in Hosts, NEW ep \in Epochs, cache'[<<h, ep>>] # NoAnswer
          PROVE  cache'[<<h, ep>>].answer.net >= ep
      <3>1. <<h, ep>> \in Keys
        BY DEF Keys
      <3>2. CASE <<h, ep>> = Key(c)
        BY <1>2, <1>3, <1>5, <3>2
      <3>3. CASE <<h, ep>> # Key(c)
        BY <1>5, <2>5, <3>1, <3>3 DEF IInv, CacheInv
      <3>4. QED
        BY <3>2, <3>3
    <2>6. QED
      BY <2>3, <2>4, <2>5 DEF CacheInv
  <1>7. QED
    BY <1>5, <1>6, Returns DEF StoreEvicting

(* A resolve fails.                                                        *)
LEMMA FailInv ==
    ASSUME IInv, NEW c \in Callers, Fail(c)
    PROVE  IInv'
  <1>1. CacheInv'
    BY CacheLeftAlone DEF IInv, Fail
  <1>2. cache' \in [Keys -> Entry \cup {NoAnswer}]
    BY DEF IInv, TypeOK, Fail
  <1>3. QED
    BY <1>1, <1>2, Returns DEF Fail

-----------------------------------------------------------------------------
(* Entries are dropped.                                                    *)
LEMMA InvalidateInv ==
    ASSUME IInv, NEW hosts, Invalidate(hosts)
    PROVE  IInv'
  <1>1. cache \in [Keys -> Entry \cup {NoAnswer}]
    BY DEF IInv, TypeOK
  <1>2. /\ cache' \in [Keys -> Entry \cup {NoAnswer}]
        /\ \A k \in Keys : cache'[k] # NoAnswer => cache'[k] = cache[k]
    BY <1>1 DEF Invalidate
  <1>3. TypeOK'
    BY <1>2 DEF IInv, TypeOK, Invalidate
  <1>4. SlotInv'
    BY SlotsLeftAlone DEF IInv, Invalidate
  <1>5. CacheInv'
    <2>1. Entries' \in SUBSET Entries
      BY <1>2 DEF Entries
    <2>2. IsFiniteSet(Entries') /\ Cardinality(Entries') <= Cardinality(Entries)
      BY <2>1, FS_Subset DEF IInv, CacheInv
    <2>3. Cardinality(Entries') \in Nat /\ Cardinality(Entries) \in Nat
      BY <2>2, FS_CardinalityType DEF IInv, CacheInv
    <2>4. CacheBounded'
      BY <2>2, <2>3, ConstantTypes DEF CacheBounded, IInv, CacheInv
    <2>5. \A h \in Hosts, e \in Epochs : <<h, e>> \in Keys
      BY DEF Keys
    <2>6. QED
      BY <1>2, <2>2, <2>4, <2>5 DEF IInv, CacheInv
  <1>6. /\ ResolveInv' /\ ThreadInv' /\ AnswersAreOfThisNetwork' /\ AnswersInTime'
        /\ HistoryInv'
    BY DEF IInv, ResolveInv, ThreadInv, AnswersAreOfThisNetwork, AnswersInTime, HistoryInv, Told,
       Waited, Invalidate
  <1>7. QED
    BY <1>3, <1>4, <1>5, <1>6 DEF IInv

(* A new network: what is under way belongs to an older one.               *)
LEMMA OnNetworkChangeInv ==
    ASSUME IInv, OnNetworkChange
    PROVE  IInv'
  <1>1. epoch \in Nat /\ epoch' = epoch + 1 /\ epoch' \in Epochs
    BY ConstantTypes DEF IInv, TypeOK, Epochs, OnNetworkChange
  <1>2. TypeOK'
    BY <1>1 DEF IInv, TypeOK, OnNetworkChange
  <1>3. SlotInv' /\ CacheInv'
    BY SlotsLeftAlone, CacheLeftAlone DEF IInv, OnNetworkChange
  <1>4. ResolveInv'
    <2>1. \A c \in Callers : want[c].epoch \in Nat
      BY TypeParts, ConstantTypes DEF IInv, Wanted, Epochs
    <2>2. QED
      BY <1>1, <2>1 DEF IInv, ResolveInv, OnNetworkChange
  <1>5. ThreadInv' /\ AnswersAreOfThisNetwork' /\ AnswersInTime' /\ HistoryInv'
    BY DEF IInv, ThreadInv, AnswersAreOfThisNetwork, AnswersInTime, HistoryInv, Told, Waited,
       OnNetworkChange
  <1>6. QED
    BY <1>2, <1>3, <1>4, <1>5 DEF IInv

(* Time passes: for a resolve that waits, only up to its deadline.         *)
LEMMA TickInv ==
    ASSUME IInv, Tick
    PROVE  IInv'
  <1>t. /\ want \in [Callers -> Wanted] /\ now \in Nat /\ now' = now + 1 /\ now' \in Times
        /\ job \in [Jobs -> Threads \cup {NoThread}]
    BY TypeParts, ConstantTypes DEF IInv, Times, Tick
  <1>a. ASSUME NEW c \in Callers
        PROVE  /\ want'[c] \in Wanted /\ want'[c].epoch = want[c].epoch
               /\ want'[c].host = want[c].host /\ want'[c].deadline = want[c].deadline
               /\ want'[c].offered = want[c].offered /\ want'[c].refused = want[c].refused
               /\ want[c].deadline \in Nat /\ want[c].late \in Nat
               /\ want'[c].late = IF Ready(c) THEN want[c].late + 1 ELSE want[c].late
    <2>1. want[c] \in Wanted
      BY <1>t
    <2>2. want'[c] = IF Ready(c) THEN [want[c] EXCEPT !.late = @ + 1] ELSE want[c]
      BY DEF Tick
    <2>3. Ready(c) => want[c].late + 1 \in 0..MaxLate
      BY <2>1, ConstantTypes DEF Tick, Wanted
    <2>4. QED
      BY <2>1, <2>2, <2>3, ConstantTypes DEF Wanted, Times
  <1>1. TypeOK'
    <2>1. want' \in [Callers -> Wanted]
      BY <1>a DEF Tick
    <2>2. QED
      BY <1>t, <2>1 DEF IInv, TypeOK, Tick, Wanted
  <1>2. SlotInv' /\ CacheInv'
    BY SlotsLeftAlone, CacheLeftAlone DEF IInv, Tick
  <1>3. ResolveInv'
    BY <1>a DEF IInv, ResolveInv, Tick
  <1>4. ThreadInv'
    <2>1. \A i \in Jobs : job[i] # NoThread => job[i].for \in Callers
      BY <1>t DEF Threads
    <2>2. QED
      BY <1>a, <2>1 DEF IInv, ThreadInv, Tick
  <1>5. AnswersAreOfThisNetwork'
    BY <1>a DEF IInv, AnswersAreOfThisNetwork, Tick
  <1>6. AnswersInTime'
    <2> SUFFICES ASSUME NEW c \in Callers, pc[c] # "idle"
                 PROVE  now' <= want'[c].deadline + want'[c].late
      BY DEF AnswersInTime, Tick
    <2>1. now <= want[c].deadline + want[c].late
      BY DEF IInv, AnswersInTime
    <2>2. CASE Ready(c)
      BY <1>a, <1>t, <2>1, <2>2
    <2>3. CASE ~Ready(c)
      <3>1. ~(now >= want[c].deadline)
        BY <2>3 DEF Ready, DeadlineOver
      <3>2. QED
        BY <1>a, <1>t, <2>3, <3>1
    <2>4. QED
      BY <2>2, <2>3
  <1>7. HistoryInv'
    <2>1. \A c \in Callers : Told(c)'
      <3> SUFFICES ASSUME NEW c \in Callers, pc[c] # "idle" PROVE Told(c)'
        BY DEF Told, Tick
      <3>1. now >= want[c].deadline => now' >= want'[c].deadline
        BY <1>a, <1>t
      <3>2. Told(c)
        BY DEF IInv, HistoryInv
      <3>3. QED
        BY <1>a, <3>1, <3>2 DEF Told, Tick
    <2>2. ASSUME NEW j \in Jobs, job[j].st = "running" PROVE Waited(j)'
      <3>1. job[j].for \in Callers /\ job[j].until \in Nat
        <4>1. job[j] \in Threads
          BY <1>t, <2>2, ThreadTypes
        <4>2. QED
          BY <4>1, ConstantTypes DEF Threads, Times
      <3>2. QED
        BY <1>a, <1>t, <2>2, <3>1 DEF IInv, HistoryInv, Waited, Tick
    <2>3. \A j \in Jobs : Waited(j)'
      BY <2>2 DEF Waited, Tick
    <2>4. QED
      BY <2>1, <2>3 DEF HistoryInv
  <1>8. QED
    BY <1>1, <1>2, <1>3, <1>4, <1>5, <1>6, <1>7 DEF IInv

-----------------------------------------------------------------------------
(* Every step preserves the strengthening.                                 *)
LEMMA NextInv == IInv /\ [Next]_vars => IInv'
  <1> SUFFICES ASSUME IInv, [Next]_vars PROVE IInv'
    OBVIOUS
  <1>1. ASSUME NEW c \in Callers, Progress(c) PROVE IInv'
    BY <1>1, ReadQualityInv, TierEndsInv, TakeSlotInv, SpawnFailsInv, SpawnInv, StoreInv,
       StoreEvictingInv, FailInv DEF Progress, Tier, Finish
  <1>2. CASE Work
    BY <1>1, <1>2, ResolveStarts, LookupEndsInv, SlotBackInv, InvalidateInv, OnNetworkChangeInv
       DEF Work, Configure
  <1>3. CASE UNCHANGED vars
    BY <1>3 DEF vars, IInv, TypeOK, SlotInv, SlotCallers, LiveJobs, CacheInv, CacheBounded,
       Entries, ResolveInv, ThreadInv, AnswersAreOfThisNetwork, AnswersInTime, HistoryInv, Told,
       Waited
  <1>4. QED
    BY <1>2, <1>3, TickInv DEF Next, OutOfModel

(* The strengthening holds in every reachable state.                       *)
THEOREM ResolverInvariant == Spec => []IInv
  BY InitInv, NextInv, PTL DEF Spec

(* active_lookups is the number of slots taken, never more than            *)
(* max_active_lookups, and the cache keeps its limit.                      *)
THEOREM SlotsAreAccounted == Spec => []SlotsAccounted
  <1>1. IInv => SlotsAccounted
    BY DEF IInv, SlotInv, SlotCallers, LiveJobs, CacheInv, SlotsAccounted
  <1>2. QED
    BY <1>1, ResolverInvariant, PTL

(* A resolve never works with addresses looked up on an earlier network.   *)
THEOREM NoAddressesOfOldNetworks == Spec => []AnswersAreOfThisNetwork
  <1>1. IInv => AnswersAreOfThisNetwork
    BY DEF IInv
  <1>2. QED
    BY <1>1, ResolverInvariant, PTL

(* A resolve answers by its deadline, but for the time it did not run.     *)
THEOREM ResolvesAnswerInTime == Spec => []AnswersInTime
  <1>1. IInv => AnswersInTime
    BY DEF IInv
  <1>2. QED
    BY <1>1, ResolverInvariant, PTL

(* A resolve never fails when it was offered addresses, by the cache as it *)
(* began or by its own lookups in time, and it reports the true reason.    *)
THEOREM NoNeedlessFailure == Spec => FailsOnlyEmptyHanded
  <1> DEFINE Earned(c) == pc[c] # "idle" /\ pc'[c] = "idle" =>
                /\ have'[c].result \in {"dns", "timeout"} => ~want[c].offered
                /\ have'[c].result = "timeout" => want[c].refused \/ now >= want[c].deadline
                /\ have'[c].result = "dns" => ~want[c].refused /\ LookupsOf(c) = {}
  <1>1. IInv /\ [Next]_vars => [\A c \in Callers : Earned(c)]_vars
    <2> SUFFICES ASSUME IInv, Next, NEW c \in Callers, pc[c] # "idle", pc'[c] = "idle"
                 PROVE  Earned(c)
      OBVIOUS
    <2>1. /\ have \in [Callers -> Had] /\ pc \in [Callers -> PC] /\ want \in [Callers -> Wanted]
          /\ now \in Times
      BY TypeParts DEF IInv
    <2>2. Told(c)
      BY DEF IInv, HistoryInv
    <2>3. CASE Fail(c)
      <3>1. BackupOf(c) \in Answers
        BY <2>1 DEF BackupOf, Answers, Wanted
      <3>2. have[c].stale = NoAnswer /\ have[c].got = NoAnswer /\ pc[c] = "store"
        BY <2>3, <3>1, ResolverAssumption DEF Fail, Chosen
      <3>3. have'[c].result = IF have[c].cut THEN "timeout" ELSE "dns"
        BY <2>1, <2>3 DEF Fail, Return, NothingHad
      <3>4. ~want[c].offered
        BY <2>2, <3>2 DEF Told
      <3>5. ~have[c].cut => ~want[c].refused /\ LookupsOf(c) = {}
        BY <2>2, <3>2 DEF Told, IInv, HistoryInv, Waited, LookupsOf
      <3>6. have[c].cut => want[c].refused \/ now >= want[c].deadline
        BY <2>2, <3>2 DEF Told
      <3>7. QED
        BY <3>3, <3>4, <3>5, <3>6
    <2>4. CASE Store(c) \/ \E k \in Keys : StoreEvicting(c, k)
      BY <2>1, <2>4 DEF Store, StoreEvicting, Return, NothingHad
    <2>5. ASSUME NEW d \in Callers, Progress(d) PROVE Finish(c)
      <3>1. CASE d # c
        <4>1. pc'[c] = pc[c]
          BY <2>1, <2>5, <3>1
             DEF Progress, ReadQuality, Tier, SkipTier, RefuseTier, TakeSlot, SpawnFails, Spawn,
                 LookupAnswers, StopWaiting, AfterTier, Finish, Store, StoreEvicting, Fail, Return,
                 Goto
        <4>2. QED
          BY <4>1
      <3>2. CASE d = c
        BY <2>1, <2>5, <3>2 DEF Progress, ReadQuality, Tier, SkipTier, RefuseTier, TakeSlot,
           SpawnFails, Spawn, LookupAnswers, StopWaiting, AfterTier, Goto
      <3>3. QED
        BY <3>1, <3>2
    <2>6. ASSUME NEW d \in Callers, NEW h \in Hosts, Resolve(d, h) PROVE FALSE
      BY <2>1, <2>6 DEF Resolve, Goto
    <2>7. Finish(c)
      BY <2>5, <2>6 DEF Next, Work, Configure, LookupEnds, SlotBack, Invalidate,
         OnNetworkChange, Tick, OutOfModel, vars
    <2>8. QED
      BY <2>3, <2>4, <2>7 DEF Finish
  <1>2. QED
    BY <1>1, ResolverInvariant, PTL DEF Spec, FailsOnlyEmptyHanded
=============================================================================
