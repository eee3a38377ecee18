----------------------------- MODULE ClientProofs -----------------------------
(***************************************************************************)
(* For every number of threads and of calls: requests keep their network,  *)
(* what they observe stays in the last snapshot, and the callback hears    *)
(* the last one, though publications overtake each other.  For every       *)
(* number of requests and size of the queue of metrics: only the oldest    *)
(* are lost.  For every set of labels and every bound on those a collector *)
(* keeps apart: its counts add up.                                         *)
(***************************************************************************)
EXTENDS ClientParts, Sequences, FiniteSetTheorems, TLAPS

(* Nothing is from a network that is still to come; the prober and the     *)
(* readers of the lifecycle lock are on the present one; and the prober    *)
(* has seen at least as much as it had when a request began.               *)
NetworkInv ==
    /\ prober.epoch = epoch /\ last.epoch <= epoch
    /\ \A t \in Threads : seen[t].snapshot.epoch <= epoch
    /\ \A t \in Readers : seen[t].epoch = epoch
    /\ \A t \in Threads : pc[t] = "request" =>
          seen[t].snapshot.epoch = epoch /\ seen[t].snapshot.samples <= prober.samples

(* t is going to publish something as recent as the prober.                *)
WillCatchUp(t) ==
    \/ pc[t] = "request" /\ seen[t].snapshot # prober
    \/ pc[t] = "publish" /\ ~Older(seen[t].snapshot, prober)

(* Whenever the last snapshot is behind the prober, somebody is under way. *)
PublishedInv == Older(last, prober) => \E t \in Threads : WillCatchUp(t)

(* t is going to call the callback with the last snapshot, unless a later  *)
(* one comes first.                                                        *)
WillTell(t) ==
    \/ pc[t] = "publish" /\ ~Older(seen[t].snapshot, last)
    \/ pc[t] \in {"resolver", "callback"} /\ seen[t].notify /\ seen[t].snapshot = last

(* A callback that has not heard the last snapshot is about to hear it.    *)
HeardInv == registered /\ ~heard => \E t \in Threads : WillTell(t)

Calling == [epoch : 0 .. MaxEpoch, snapshot : Snapshots, notify : BOOLEAN, taken : Moments]

(* What t has observed is in what it publishes, or already in the last     *)
(* snapshot; a request whose snapshot is still the prober's took nothing.  *)
Accounted(t) ==
    /\ pc[t] = "request" => /\ ~Older(prober, seen[t].taken)
                            /\ seen[t].snapshot = prober => seen[t].taken = Beginning
    /\ pc[t] = "publish" => ~Older(seen[t].snapshot, seen[t].taken)
    /\ pc[t] \in {"resolver", "callback"} => ~Older(last, seen[t].taken)
    /\ pc[t] \in {"idle", "prefetch"} => seen[t].taken = Beginning

(* The clock is never behind the prober's sample, and no observation of a  *)
(* call that runs or has returned is lost.                                 *)
AccountInv ==
    /\ prober.at <= now
    /\ \A t \in Threads : Accounted(t)
    /\ ReturnedIsPublished

IInv == TypeOK /\ NetworkInv /\ PublishedInv /\ HeardInv /\ AccountInv

USE ClientAssumption

(* What the prober says of a network before the first sample.              *)
LEMMA FreshIsSnapshot ==
    ASSUME NEW e \in 0 .. MaxEpoch, NEW q \in Qualities
    PROVE  Fresh(e, q) \in Snapshots
  BY DEF Fresh, Snapshots

(* A new Client.                                                           *)
LEMMA InitInv == Init => IInv
  <1> SUFFICES ASSUME Init PROVE IInv
    OBVIOUS
  <1>1. TypeOK
    <2>1. Fresh(0, Unknown) \in Snapshots
      BY FreshIsSnapshot
    <2>2. Nothing \in Calling /\ Beginning \in Moments
      BY <2>1 DEF Nothing, Calling, Moments, Beginning
    <2>3. {prober, last, resolver} \subseteq Snapshots
      BY <2>1 DEF Init
    <2>4. pc \in [Threads -> PC]
      BY DEF Init, PC
    <2>5. now \in 0 .. MaxTime /\ epoch \in 0 .. MaxEpoch /\ calls \in 0 .. MaxCalls
      BY DEF Init
    <2>6. seen \in [Threads -> Calling]
      BY <2>2 DEF Init
    <2>7. QED
      BY <2>2, <2>3, <2>4, <2>5, <2>6 DEF Init, TypeOK, Calling
  <1>2. NetworkInv
    BY DEF Init, NetworkInv, Readers, Fresh, Nothing
  <1>3. PublishedInv /\ HeardInv
    BY DEF Init, PublishedInv, HeardInv, Older, Fresh
  <1>4. AccountInv
    BY DEF Init, AccountInv, Accounted, ReturnedIsPublished, Older, Nothing, Beginning, Fresh
  <1>5. QED
    BY <1>1, <1>2, <1>3, <1>4 DEF IInv

(* What a call works with, and what is left of it when it has returned.    *)
LEMMA CallTypes ==
    Nothing \in Calling /\ (TypeOK => seen \in [Threads -> Calling] /\ returned \in Moments)
  <1>1. Nothing \in Calling
    BY FreshIsSnapshot DEF Nothing, Calling, Moments, Beginning
  <1>2. TypeOK => seen \in [Threads -> Calling] /\ returned \in Moments
    BY DEF TypeOK, Calling
  <1>3. QED
    BY <1>1, <1>2

LEMMA CallUpdates ==
    ASSUME NEW c \in Calling
    PROVE  /\ c.snapshot \in Snapshots /\ c.taken \in Moments
           /\ \A p \in Snapshots : [c EXCEPT !.snapshot = p] \in Calling
           /\ \A m \in Moments : [c EXCEPT !.taken = m] \in Calling
  BY DEF Calling

(* A call that returns leaves nothing untyped.                             *)
LEMMA DoneTypes ==
    ASSUME TypeOK, NEW t \in Threads, Done(t)
    PROVE  /\ pc' \in [Threads -> PC] /\ seen' \in [Threads -> Calling]
           /\ returned' \in Moments
  <1>1. pc' \in [Threads -> PC]
    BY DEF TypeOK, Done, Goto, PC
  <1>2. seen' \in [Threads -> Calling] /\ returned' \in Moments
    BY CallTypes, CallUpdates DEF Done, Latest
  <1>3. QED
    BY <1>1, <1>2

(* Snapshots and moments have a network and a millisecond to compare.      *)
LEMMA MomentTypes ==
    ASSUME TypeOK
    PROVE  /\ \A a \in {prober, last, returned, Beginning} : a.epoch \in Nat /\ a.at \in Nat
           /\ \A t \in Threads : \A a \in {seen[t].snapshot, seen[t].taken} :
                 a.epoch \in Nat /\ a.at \in Nat
  BY DEF TypeOK, Snapshots, Moments, Beginning

(* Being no older is a preorder, and Latest is an upper bound in it.       *)
LEMMA OlderIsAnOrder ==
    ASSUME NEW a, NEW b, NEW c, a.epoch \in Nat, a.at \in Nat,
           b.epoch \in Nat, b.at \in Nat, c.epoch \in Nat, c.at \in Nat
    PROVE  /\ ~Older(a, a)
           /\ ~Older(a, b) /\ ~Older(b, c) => ~Older(a, c)
           /\ ~Older(c, a) /\ ~Older(c, b) => ~Older(c, Latest(a, b))
  BY DEF Older, Latest

(* Whoever does not move stays accounted for while the last snapshot does  *)
(* not go back and the prober is left alone under a request.               *)
LEMMA BystandersAccounted ==
    ASSUME IInv, TypeOK', NEW u \in Threads, pc'[u] = pc[u], seen'[u] = seen[u],
           prober' = prober \/ pc[u] # "request", ~Older(last', last)
    PROVE  Accounted(u)'
  <1>1. pc[u] \in {"resolver", "callback"} => ~Older(last', seen[u].taken)
    <2>1. /\ seen[u].taken.epoch \in Nat /\ seen[u].taken.at \in Nat
          /\ last.epoch \in Nat /\ last.at \in Nat /\ last'.epoch \in Nat /\ last'.at \in Nat
      BY MomentTypes, MomentTypes DEF IInv, TypeOK, Snapshots
    <2>2. QED
      BY <2>1, OlderIsAnOrder DEF IInv, AccountInv, Accounted
  <1>2. QED
    BY <1>1 DEF IInv, AccountInv, Accounted

(* A call begins or goes on, and nobody else does anything.                *)
LEMMA GoesOn ==
    ASSUME IInv, TypeOK', NEW t \in Threads, Accounted(t)', prober'.at <= now',
           \A u \in Threads \ {t} : pc'[u] = pc[u] /\ seen'[u] = seen[u],
           \A u \in Threads \ {t} : prober' = prober \/ pc[u] # "request",
           ~Older(last', last), returned' = returned
    PROVE  AccountInv'
  <1>1. \A u \in Threads : Accounted(u)'
    BY BystandersAccounted
  <1>2. ~Older(last', returned)
    <2>1. /\ returned.epoch \in Nat /\ returned.at \in Nat
          /\ last.epoch \in Nat /\ last.at \in Nat /\ last'.epoch \in Nat /\ last'.at \in Nat
      BY MomentTypes DEF IInv, TypeOK, Snapshots
    <2>2. QED
      BY <2>1, OlderIsAnOrder DEF IInv, AccountInv, ReturnedIsPublished
  <1>3. QED
    BY <1>1, <1>2 DEF AccountInv, ReturnedIsPublished

(* A call returns; what it has observed is in the last snapshot.           *)
LEMMA Returns ==
    ASSUME IInv, TypeOK', NEW t \in Threads, Done(t), ~Older(last, seen[t].taken),
           UNCHANGED <<now, prober, last>>
    PROVE  AccountInv'
  <1>1. /\ pc'[t] = "idle" /\ seen'[t] = Nothing /\ returned' = Latest(returned, seen[t].taken)
        /\ \A u \in Threads \ {t} : pc'[u] = pc[u] /\ seen'[u] = seen[u]
    BY DEF IInv, TypeOK, Done, Goto
  <1>2. Accounted(t)'
    BY <1>1 DEF Accounted, Nothing
  <1>3. ~Older(last, last)
    BY MomentTypes, OlderIsAnOrder DEF IInv
  <1>4. \A u \in Threads : Accounted(u)'
    BY <1>1, <1>2, <1>3, BystandersAccounted
  <1>5. ~Older(last, returned')
    <2>1. /\ returned.epoch \in Nat /\ returned.at \in Nat /\ last.epoch \in Nat /\ last.at \in Nat
          /\ seen[t].taken.epoch \in Nat /\ seen[t].taken.at \in Nat
      BY MomentTypes DEF IInv
    <2>2. QED
      BY <1>1, <2>1, OlderIsAnOrder DEF IInv, AccountInv, ReturnedIsPublished
  <1>6. QED
    BY <1>4, <1>5 DEF IInv, AccountInv, ReturnedIsPublished

(* A request takes the shared lock and notes what it finds.                *)
LEMMA BeginRequestInv ==
    ASSUME IInv, NEW t \in Threads, BeginRequest(t)
    PROVE  IInv'
  <1>1. TypeOK'
    <2>1. seen' \in [Threads -> Calling]
      <3>1. [Nothing EXCEPT !.epoch = epoch, !.snapshot = prober] \in Calling
        BY CallTypes DEF IInv, TypeOK, Calling
      <3>2. QED
        BY <3>1, CallTypes DEF IInv, BeginRequest
    <2>2. pc' \in [Threads -> PC] /\ calls' \in 0 .. MaxCalls
      BY DEF IInv, BeginRequest, Calls, Goto, TypeOK, PC
    <2>3. QED
      BY <2>1, <2>2 DEF IInv, BeginRequest, TypeOK, Calling
  <1>2. NetworkInv'
    BY DEF IInv, BeginRequest, Calls, Goto, TypeOK, NetworkInv, Readers, Snapshots
  <1>3. PublishedInv'
    BY DEF IInv, BeginRequest, Calls, Goto, TypeOK, PublishedInv, WillCatchUp
  <1>4. HeardInv'
    BY DEF IInv, BeginRequest, Calls, Goto, TypeOK, HeardInv, WillTell
  <1>5. AccountInv'
    <2>1. /\ pc'[t] = "request" /\ seen'[t].snapshot = prober /\ seen'[t].taken = Beginning
          /\ \A u \in Threads \ {t} : pc'[u] = pc[u] /\ seen'[u] = seen[u]
          /\ UNCHANGED <<now, prober, last, returned>>
      BY DEF IInv, BeginRequest, Goto, TypeOK, Nothing
    <2>2. ~Older(prober, Beginning) /\ ~Older(last, last)
      BY MomentTypes, OlderIsAnOrder DEF IInv, Older, Beginning
    <2>3. Accounted(t)'
      BY <2>1, <2>2 DEF Accounted
    <2>4. QED
      BY <1>1, <2>1, <2>2, <2>3, GoesOn DEF IInv, AccountInv
  <1>6. QED
    BY <1>1, <1>2, <1>3, <1>4, <1>5 DEF IInv

(* Whoever observes will publish: its own snapshot is older than the       *)
(* prober's from now on.                                                   *)
LEMMA ObserveInv ==
    ASSUME IInv, NEW t \in Threads, NEW quality \in Qualities, Observe(t, quality)
    PROVE  IInv'
  <1>1. TypeOK'
    <2>1. prober \in Snapshots /\ now \in 0 .. MaxTime
      BY DEF IInv, TypeOK
    <2>2. prober.samples + 1 \in 0 .. MaxSamples
      BY <2>1 DEF Observe, Snapshots
    <2>3. prober' \in Snapshots
      BY <2>1, <2>2 DEF Observe, Snapshots
    <2>4. seen' \in [Threads -> Calling]
      <3>1. [epoch |-> prober.epoch, at |-> now] \in Moments
        BY <2>1 DEF Snapshots, Moments
      <3>2. QED
        BY <3>1, CallTypes, CallUpdates DEF IInv, Observe
    <2>5. QED
      BY <2>3, <2>4 DEF IInv, Observe, TypeOK, Calling
  <1>2. NetworkInv'
    BY DEF IInv, Observe, TypeOK, NetworkInv, Readers, Snapshots
  <1>3. PublishedInv'
    <2>1. /\ prober.samples \in Nat /\ seen[t].snapshot.samples \in Nat
          /\ seen[t].snapshot.samples <= prober.samples
      BY DEF IInv, Observe, TypeOK, Snapshots, NetworkInv
    <2>2. prober'.samples = prober.samples + 1
      BY DEF IInv, Observe, TypeOK, Snapshots
    <2>3. pc'[t] = "request" /\ seen'[t].snapshot = seen[t].snapshot
      BY CallTypes DEF IInv, Observe, Calling
    <2>4. seen'[t].snapshot # prober'
      BY <2>1, <2>2, <2>3
    <2>5. QED
      BY <2>3, <2>4 DEF PublishedInv, WillCatchUp
  <1>4. HeardInv'
    BY DEF IInv, Observe, TypeOK, HeardInv, WillTell
  <1>5. AccountInv'
    <2>1. /\ prober'.epoch = prober.epoch /\ prober'.at = now /\ prober'.samples = prober.samples + 1
          /\ prober.epoch \in Nat /\ prober.at \in Nat /\ now \in Nat /\ prober.samples \in Nat
          /\ pc' = pc /\ pc[t] = "request" /\ UNCHANGED <<now, last, returned>>
      BY DEF IInv, Observe, TypeOK, Snapshots
    <2>2. /\ \A u \in Threads : seen'[u].snapshot = seen[u].snapshot
          /\ seen'[t].taken = [epoch |-> prober.epoch, at |-> now]
          /\ \A u \in Threads \ {t} : seen'[u] = seen[u]
      BY DEF IInv, Observe, TypeOK
    <2>3. ~Older(prober', prober) /\ prober'.epoch \in Nat /\ prober'.at \in Nat
      BY <2>1 DEF IInv, AccountInv, Older
    <2>4. ASSUME NEW u \in Threads, pc[u] = "request" PROVE ~Older(prober', seen'[u].taken)
      <3>1. CASE u = t
        BY <2>1, <2>2, <3>1 DEF Older
      <3>2. CASE u # t
        <4>1. /\ ~Older(prober, seen[u].taken) /\ seen'[u].taken = seen[u].taken
              /\ seen[u].taken.epoch \in Nat /\ seen[u].taken.at \in Nat
          BY <2>2, <2>4, <3>2, MomentTypes DEF IInv, AccountInv, Accounted
        <4>2. QED
          BY <2>1, <2>3, <4>1, OlderIsAnOrder
      <3>3. QED
        BY <3>1, <3>2
    <2>5. ASSUME NEW u \in Threads, pc[u] = "request" PROVE seen'[u].snapshot # prober'
      <3>1. seen[u].snapshot.samples \in Nat /\ seen[u].snapshot.samples <= prober.samples
        BY <2>5 DEF IInv, TypeOK, Snapshots, NetworkInv
      <3>2. QED
        BY <2>1, <2>2, <3>1
    <2>6. \A u \in Threads : Accounted(u)'
      BY <2>1, <2>2, <2>4, <2>5 DEF IInv, AccountInv, Accounted
    <2>7. QED
      BY <2>1, <2>6 DEF IInv, AccountInv, ReturnedIsPublished
  <1>6. QED
    BY <1>1, <1>2, <1>3, <1>4, <1>5 DEF IInv

(* A request ends, and publishes what has changed since it began.          *)
LEMMA EndRequestInv ==
    ASSUME IInv, NEW t \in Threads, EndRequest(t)
    PROVE  IInv'
  <1>1. TypeOK'
    <2>1. CASE Done(t)
      BY <2>1, DoneTypes DEF IInv, EndRequest, TypeOK, Calling
    <2>2. CASE Publish(t, prober) /\ UNCHANGED returned
      <3>1. seen' \in [Threads -> Calling] /\ pc' \in [Threads -> PC]
        BY <2>2, CallTypes, CallUpdates DEF IInv, TypeOK, Publish, Goto, PC
      <3>2. QED
        BY <2>2, <3>1 DEF IInv, EndRequest, TypeOK, Calling
    <2>3. QED
      BY <2>1, <2>2 DEF EndRequest
  <1>2. NetworkInv'
    <2>1. \A u \in Threads : \/ seen'[u] \in {seen[u], Nothing}
                            \/ seen'[u].snapshot = prober
      BY CallTypes, CallUpdates DEF IInv, EndRequest, Publish, Done, Calling
    <2>2. Nothing.snapshot.epoch = 0
      BY DEF Nothing, Fresh
    <2>3. \A u \in Threads : pc'[u] \in {"request", "prefetch"} =>
              pc'[u] = pc[u] /\ seen'[u] = seen[u]
      BY DEF IInv, EndRequest, Publish, Done, Goto, TypeOK
    <2>4. epoch \in Nat /\ UNCHANGED <<epoch, prober, last>>
      BY DEF IInv, EndRequest, TypeOK
    <2>5. QED
      BY <2>1, <2>2, <2>3, <2>4 DEF IInv, NetworkInv, Readers
  <1>3. PublishedInv'
    BY DEF IInv, EndRequest, Goto, Publish, Done, TypeOK, PublishedInv, WillCatchUp,
       NetworkInv, Readers, Older, Nothing, Fresh, Snapshots, PC
  <1>4. HeardInv'
    BY DEF IInv, EndRequest, Goto, Publish, Done, TypeOK, HeardInv, WillTell
  <1>5. AccountInv'
    <2>1. pc[t] = "request" /\ UNCHANGED <<now, prober, last>> /\ ~Older(last, last)
      BY MomentTypes, OlderIsAnOrder DEF IInv, EndRequest
    <2>2. CASE prober # seen[t].snapshot
      <3>1. /\ pc'[t] = "publish" /\ seen'[t].snapshot = prober /\ seen'[t].taken = seen[t].taken
            /\ \A u \in Threads \ {t} : pc'[u] = pc[u] /\ seen'[u] = seen[u]
            /\ returned' = returned
        BY <2>2 DEF IInv, EndRequest, Publish, Goto, TypeOK
      <3>2. Accounted(t)'
        BY <2>1, <3>1 DEF IInv, AccountInv, Accounted
      <3>3. QED
        BY <1>1, <2>1, <3>1, <3>2, GoesOn DEF IInv, AccountInv
    <2>3. CASE prober = seen[t].snapshot
      <3>1. Done(t) /\ seen[t].taken = Beginning
        BY <2>1, <2>3 DEF IInv, EndRequest, AccountInv, Accounted
      <3>2. ~Older(last, Beginning)
        BY MomentTypes DEF IInv, Older, Beginning
      <3>3. QED
        BY <1>1, <2>1, <3>1, <3>2, Returns
    <2>4. QED
      BY <2>2, <2>3
  <1>6. QED
    BY <1>1, <1>2, <1>3, <1>4, <1>5 DEF IInv

(* A prefetch takes the shared lock.                                       *)
LEMMA PrefetchInv ==
    ASSUME IInv, NEW t \in Threads, Prefetch(t)
    PROVE  IInv'
  <1>1. TypeOK'
    BY DEF IInv, Prefetch, Calls, Goto, TypeOK, PC
  <1>2. NetworkInv'
    BY DEF IInv, Prefetch, Calls, Goto, TypeOK, NetworkInv, Readers
  <1>3. PublishedInv'
    BY DEF IInv, Prefetch, Calls, Goto, TypeOK, PublishedInv, WillCatchUp
  <1>4. HeardInv'
    BY DEF IInv, Prefetch, Calls, Goto, TypeOK, HeardInv, WillTell
  <1>5. AccountInv'
    <2>1. /\ pc'[t] = "prefetch" /\ seen'[t].taken = seen[t].taken /\ pc[t] = "idle"
          /\ \A u \in Threads \ {t} : pc'[u] = pc[u] /\ seen'[u] = seen[u]
          /\ UNCHANGED <<now, prober, last, returned>> /\ ~Older(last, last)
      BY MomentTypes, OlderIsAnOrder DEF IInv, Prefetch, Calls, Goto, TypeOK
    <2>2. Accounted(t)'
      BY <2>1 DEF IInv, AccountInv, Accounted
    <2>3. QED
      BY <1>1, <2>1, <2>2, GoesOn DEF IInv, AccountInv
  <1>6. QED
    BY <1>1, <1>2, <1>3, <1>4, <1>5 DEF IInv

(* A prefetch ends.                                                        *)
LEMMA EndPrefetchInv ==
    ASSUME IInv, NEW t \in Threads, EndPrefetch(t)
    PROVE  IInv'
  <1>1. TypeOK'
    BY DoneTypes DEF IInv, EndPrefetch, TypeOK, Calling
  <1>2. NetworkInv'
    BY DEF IInv, EndPrefetch, Done, Goto, TypeOK, NetworkInv, Readers, Older, Nothing,
       Fresh, Snapshots, PC
  <1>3. PublishedInv'
    BY DEF IInv, EndPrefetch, Done, Goto, TypeOK, PublishedInv, WillCatchUp
  <1>4. HeardInv'
    BY DEF IInv, EndPrefetch, Done, Goto, TypeOK, HeardInv, WillTell
  <1>5. AccountInv'
    <2>1. pc[t] = "prefetch" /\ Done(t) /\ UNCHANGED <<now, prober, last>>
      BY DEF EndPrefetch
    <2>2. seen[t].taken = Beginning /\ ~Older(last, Beginning)
      BY <2>1, MomentTypes DEF IInv, AccountInv, Accounted, Older, Beginning
    <2>3. QED
      BY <1>1, <2>1, <2>2, Returns
  <1>6. QED
    BY <1>1, <1>2, <1>3, <1>4, <1>5 DEF IInv

(* A network change finds no reader of the lock.                           *)
LEMMA OnNetworkChangeInv ==
    ASSUME IInv, NEW t \in Threads, NEW quality \in Qualities, OnNetworkChange(t, quality)
    PROVE  IInv'
  <1>1. TypeOK'
    <2>1. epoch' \in 0 .. MaxEpoch /\ prober' \in Snapshots
      BY FreshIsSnapshot DEF IInv, OnNetworkChange, NewNetwork, TypeOK
    <2>2. last' = prober' /\ resolver' = prober' /\ heard' = FALSE
      BY DEF OnNetworkChange, NewNetwork
    <2>3. calls' \in 0 .. MaxCalls
      BY DEF IInv, OnNetworkChange, Calls, TypeOK
    <2>4. pc' \in [Threads -> PC]
      BY DEF IInv, OnNetworkChange, Publish, Goto, TypeOK, PC
    <2>5. seen' \in [Threads -> Calling]
      BY <2>1, CallTypes, CallUpdates DEF IInv, OnNetworkChange, Publish
    <2>6. QED
      BY <2>1, <2>2, <2>3, <2>4, <2>5 DEF IInv, OnNetworkChange, TypeOK, Calling
  <1>2. NetworkInv'
    BY DEF IInv, OnNetworkChange, Calls, Goto, Publish, NewNetwork, Fresh, TypeOK,
       NetworkInv, Readers, Snapshots
  <1>3. PublishedInv'
    BY DEF IInv, OnNetworkChange, Calls, Goto, Publish, NewNetwork, Fresh, TypeOK,
       PublishedInv, WillCatchUp, Older
  <1>4. HeardInv'
    BY DEF IInv, OnNetworkChange, Calls, Goto, Publish, NewNetwork, Fresh, TypeOK, HeardInv,
       WillTell, Older
  <1>5. AccountInv'
    <2>1. /\ pc'[t] = "publish" /\ seen'[t].snapshot = prober' /\ seen'[t].taken = seen[t].taken
          /\ pc[t] = "idle" /\ \A u \in Threads : pc[u] # "request"
          /\ \A u \in Threads \ {t} : pc'[u] = pc[u] /\ seen'[u] = seen[u]
          /\ last' = prober' /\ UNCHANGED <<now, returned>>
      BY DEF IInv, OnNetworkChange, Calls, Readers, NewNetwork, Publish, Goto, TypeOK
    <2>2. prober'.at = 0 /\ prober'.epoch = epoch + 1 /\ epoch \in Nat /\ now \in Nat
      BY DEF IInv, OnNetworkChange, NewNetwork, Fresh, TypeOK
    <2>3. ~Older(prober', seen[t].taken)
      BY <2>1, <2>2 DEF IInv, AccountInv, Accounted, Older, Beginning
    <2>4. ~Older(last', last)
      BY <2>1, <2>2, MomentTypes DEF IInv, NetworkInv, Older
    <2>5. Accounted(t)'
      BY <2>1, <2>3 DEF Accounted
    <2>6. QED
      BY <1>1, <2>1, <2>2, <2>4, <2>5, GoesOn
  <1>6. QED
    BY <1>1, <1>2, <1>3, <1>4, <1>5 DEF IInv

(* A registration publishes the last snapshot once more.                   *)
LEMMA SetQualityCallbackInv ==
    ASSUME IInv, NEW t \in Threads, NEW some \in BOOLEAN, SetQualityCallback(t, some)
    PROVE  IInv'
  <1>1. TypeOK'
    <2>1. calls' \in 0 .. MaxCalls
      BY DEF IInv, SetQualityCallback, Calls, TypeOK
    <2>2. pc' \in [Threads -> PC]
      BY DEF IInv, SetQualityCallback, Publish, Goto, TypeOK, PC
    <2>3. seen' \in [Threads -> Calling]
      BY CallTypes, CallUpdates DEF IInv, SetQualityCallback, Publish, TypeOK
    <2>4. QED
      BY <2>1, <2>2, <2>3 DEF IInv, SetQualityCallback, TypeOK, Calling
  <1>2. NetworkInv'
    BY DEF IInv, SetQualityCallback, Calls, Goto, Publish, TypeOK, NetworkInv, Readers
  <1>3. PublishedInv'
    BY DEF IInv, SetQualityCallback, Calls, Goto, Publish, TypeOK, PublishedInv, WillCatchUp
  <1>4. HeardInv'
    BY DEF IInv, SetQualityCallback, Calls, Goto, Publish, TypeOK, HeardInv, WillTell,
       NetworkInv, Readers, Older, Nothing, Fresh, Snapshots, PC
  <1>5. AccountInv'
    <2>1. /\ pc[t] = "idle" /\ UNCHANGED <<now, prober, last, returned>>
          /\ ~Older(last, last) /\ ~Older(last, Beginning)
      BY MomentTypes, OlderIsAnOrder DEF IInv, SetQualityCallback, Calls, Older, Beginning
    <2>2. /\ seen'[t].taken = seen[t].taken
          /\ \/ pc'[t] = "publish" /\ seen'[t].snapshot = last
             \/ pc'[t] = "idle"
          /\ \A u \in Threads \ {t} : pc'[u] = pc[u] /\ seen'[u] = seen[u]
      BY DEF IInv, SetQualityCallback, Publish, Goto, TypeOK
    <2>3. Accounted(t)'
      BY <2>1, <2>2 DEF IInv, AccountInv, Accounted
    <2>4. QED
      BY <1>1, <2>1, <2>2, <2>3, GoesOn DEF IInv, AccountInv
  <1>6. QED
    BY <1>1, <1>2, <1>3, <1>4, <1>5 DEF IInv

(* What is dropped is older than the last snapshot: somebody else tells.   *)
LEMMA DropInv ==
    ASSUME IInv, NEW t \in Threads, Drop(t)
    PROVE  IInv'
  <1>1. TypeOK'
    BY DoneTypes DEF IInv, Drop, TypeOK, Calling
  <1>2. NetworkInv'
    BY DEF IInv, Drop, Done, Goto, Outdated, TypeOK, NetworkInv, Readers, Older, Nothing,
       Fresh, Snapshots, PC
  <1>3. PublishedInv'
    BY DEF IInv, Drop, Done, Goto, Outdated, TypeOK, PublishedInv, WillCatchUp, NetworkInv,
       Readers, Older, Nothing, Fresh, Snapshots, PC
  <1>4. HeardInv'
    BY DEF IInv, Drop, Done, Goto, Outdated, TypeOK, HeardInv, WillTell
  <1>5. AccountInv'
    <2>1. /\ pc[t] = "publish" /\ Done(t) /\ UNCHANGED <<now, prober, last>>
          /\ Older(seen[t].snapshot, last)
      BY DEF Drop, Outdated
    <2>2. ~Older(last, seen[t].taken)
      BY <2>1, MomentTypes DEF IInv, AccountInv, Accounted, Older
    <2>3. QED
      BY <1>1, <2>1, <2>2, Returns
  <1>6. QED
    BY <1>1, <1>2, <1>3, <1>4, <1>5 DEF IInv

(* Whoever makes a snapshot the last one also tells the callback.          *)
LEMMA MakeLastInv ==
    ASSUME IInv, NEW t \in Threads, MakeLast(t)
    PROVE  IInv'
  <1>1. TypeOK'
    BY DEF IInv, MakeLast, Goto, Outdated, TypeOK, PC
  <1>2. NetworkInv'
    BY DEF IInv, MakeLast, Goto, Outdated, TypeOK, NetworkInv, Readers
  <1>3. PublishedInv'
    BY DEF IInv, MakeLast, Goto, Outdated, TypeOK, PublishedInv, WillCatchUp, NetworkInv,
       Readers, Older, Nothing, Fresh, Snapshots, PC
  <1>4. HeardInv'
    BY DEF IInv, MakeLast, Goto, Outdated, TypeOK, HeardInv, WillTell
  <1>5. AccountInv'
    <2>1. /\ pc[t] = "publish" /\ last' = seen[t].snapshot /\ ~Older(last', last)
          /\ pc'[t] = "resolver" /\ seen'[t].taken = seen[t].taken
          /\ \A u \in Threads \ {t} : pc'[u] = pc[u] /\ seen'[u] = seen[u]
          /\ UNCHANGED <<now, prober, returned>>
      BY DEF IInv, MakeLast, Outdated, Goto, TypeOK
    <2>2. Accounted(t)'
      BY <2>1 DEF IInv, AccountInv, Accounted
    <2>3. QED
      BY <1>1, <2>1, <2>2, GoesOn DEF IInv, AccountInv
  <1>6. QED
    BY <1>1, <1>2, <1>3, <1>4, <1>5 DEF IInv

(* The resolver is told, without the lock.                                 *)
LEMMA TellResolverInv ==
    ASSUME IInv, NEW t \in Threads, TellResolver(t)
    PROVE  IInv'
  <1>1. TypeOK'
    BY DEF IInv, TellResolver, Goto, TypeOK, PC
  <1>2. NetworkInv'
    BY DEF IInv, TellResolver, Goto, TypeOK, NetworkInv, Readers
  <1>3. PublishedInv'
    BY DEF IInv, TellResolver, Goto, TypeOK, PublishedInv, WillCatchUp
  <1>4. HeardInv'
    BY DEF IInv, TellResolver, Goto, TypeOK, HeardInv, WillTell
  <1>5. AccountInv'
    <2>1. /\ pc[t] = "resolver" /\ pc'[t] = "callback" /\ seen' = seen
          /\ \A u \in Threads \ {t} : pc'[u] = pc[u]
          /\ UNCHANGED <<now, prober, last, returned>> /\ ~Older(last, last)
      BY MomentTypes, OlderIsAnOrder DEF IInv, TellResolver, Goto, TypeOK
    <2>2. Accounted(t)'
      BY <2>1 DEF IInv, AccountInv, Accounted
    <2>3. QED
      BY <1>1, <2>1, <2>2, GoesOn DEF IInv, AccountInv
  <1>6. QED
    BY <1>1, <1>2, <1>3, <1>4, <1>5 DEF IInv

(* The callback is told, without the lock.                                 *)
LEMMA TellCallbackInv ==
    ASSUME IInv, NEW t \in Threads, TellCallback(t)
    PROVE  IInv'
  <1>1. TypeOK'
    BY DoneTypes DEF IInv, TellCallback, TypeOK, Calling
  <1>2. NetworkInv'
    BY DEF IInv, TellCallback, Done, Goto, TypeOK, NetworkInv, Readers, Older, Nothing,
       Fresh, Snapshots, PC
  <1>3. PublishedInv'
    BY DEF IInv, TellCallback, Done, Goto, TypeOK, PublishedInv, WillCatchUp
  <1>4. HeardInv'
    BY DEF IInv, TellCallback, Done, Goto, TypeOK, HeardInv, WillTell
  <1>5. AccountInv'
    <2>1. pc[t] = "callback" /\ Done(t) /\ UNCHANGED <<now, prober, last>>
      BY DEF TellCallback
    <2>2. ~Older(last, seen[t].taken)
      BY <2>1 DEF IInv, AccountInv, Accounted
    <2>3. QED
      BY <1>1, <2>1, <2>2, Returns
  <1>6. QED
    BY <1>1, <1>2, <1>3, <1>4, <1>5 DEF IInv

(* Time passes.                                                            *)
LEMMA TickInv ==
    ASSUME IInv, Tick
    PROVE  IInv'
  <1>1. TypeOK'
    BY DEF IInv, Tick, TypeOK, PC
  <1>2. NetworkInv'
    BY DEF IInv, Tick, TypeOK, NetworkInv, Readers
  <1>3. PublishedInv'
    BY DEF IInv, Tick, TypeOK, PublishedInv, WillCatchUp
  <1>4. HeardInv'
    BY DEF IInv, Tick, TypeOK, HeardInv, WillTell
  <1>5. AccountInv'
    BY DEF IInv, Tick, TypeOK, Snapshots, AccountInv, Accounted, ReturnedIsPublished
  <1>6. QED
    BY <1>1, <1>2, <1>3, <1>4, <1>5 DEF IInv

LEMMA NextInv == IInv /\ [Next]_vars => IInv'
  <1> SUFFICES ASSUME IInv, [Next]_vars PROVE IInv'
    OBVIOUS
  <1>1. ASSUME NEW t \in Threads, Start(t) PROVE IInv'
    BY <1>1, BeginRequestInv, PrefetchInv, OnNetworkChangeInv, SetQualityCallbackInv DEF Start
  <1>2. ASSUME NEW t \in Threads, Finish(t) PROVE IInv'
    BY <1>2, EndRequestInv, EndPrefetchInv, DropInv, MakeLastInv, TellResolverInv,
       TellCallbackInv DEF Finish
  <1>3. ASSUME NEW t \in Threads, NEW q \in Qualities, Observe(t, q) PROVE IInv'
    BY <1>3, ObserveInv
  <1>4. CASE OutOfModel \/ UNCHANGED vars
    BY <1>4 DEF OutOfModel, vars, IInv, TypeOK, NetworkInv, Readers, PublishedInv,
       WillCatchUp, HeardInv, WillTell, AccountInv, Accounted, ReturnedIsPublished
  <1>5. QED
    BY <1>1, <1>2, <1>3, <1>4, TickInv DEF Next

(* The strengthening holds in every reachable state.                       *)
THEOREM ClientInvariant == Spec => []IInv
  BY InitInv, NextInv, PTL DEF Spec

(* lifecycle_mutex_ keeps the network of a request or prefetch under it.   *)
THEOREM NetworkStaysPut == Spec => []RequestsKeepTheirNetwork
  <1>1. IInv => RequestsKeepTheirNetwork
    BY DEF IInv, NetworkInv, RequestsKeepTheirNetwork
  <1>2. QED
    BY <1>1, ClientInvariant, PTL

(* Once all calls have returned, last_quality_snapshot_ is not behind the  *)
(* prober and the callback has heard it.                                   *)
THEOREM CallbackHears == Spec => []CallbackHeardTheLast
  <1>1. IInv => CallbackHeardTheLast
    BY DEF IInv, PublishedInv, WillCatchUp, HeardInv, WillTell, CallbackHeardTheLast, Idle
  <1>2. QED
    BY <1>1, ClientInvariant, PTL

(* What a request has observed when it returns stays in the last snapshot. *)
THEOREM ReturnedStaysPublished == Spec => []ReturnedIsPublished
  <1>1. IInv => ReturnedIsPublished
    BY DEF IInv, AccountInv
  <1>2. QED
    BY <1>1, ClientInvariant, PTL
-----------------------------------------------------------------------------
(* The queue holds the newest metrics, without a gap.                      *)
QueueInv ==
    /\ Len(queue) <= MaxQueued /\ Len(queue) <= put
    /\ \A i \in 1 .. Len(queue) : queue[i] = put - Len(queue) + i

(* What the worker has taken was put before what is queued, and what was   *)
(* reported before what it has in hand.                                    *)
ReportedInv ==
    /\ hand <= put - Len(queue)
    /\ Queue!InOrder
    /\ \A i \in 1 .. Len(reported) :
          reported[i] <= put - Len(queue) /\ (hand # 0 => reported[i] < hand)

(* What has left the queue was taken or pushed out by MaxQueued others.    *)
LossInv ==
    \A n \in 1 .. put - Len(queue) : n \in Queue!ReportedSet \/ n = hand \/ put - n >= MaxQueued

(* The worker leaves a queue that stays empty, and ~Client waits for it.   *)
ShutdownInv ==
    /\ worker = "gone" => stop /\ queue = <<>>
    /\ stop <=> client # "alive"
    /\ client = "gone" => worker = "gone"

MetricsInv == Queue!TypeOK /\ QueueInv /\ ReportedInv /\ LossInv /\ ShutdownInv

LEMMA MetricsInit == Queue!QueueAssumption /\ Queue!Init => MetricsInv
  <1> SUFFICES ASSUME Queue!QueueAssumption, Queue!Init PROVE MetricsInv
    OBVIOUS
  <1>1. Queue!TypeOK
    <2>1. queue \in Seq(1 .. put) /\ reported \in Seq(1 .. put)
      BY DEF Queue!Init
    <2>2. put \in Nat /\ hand \in 0 .. put /\ (hand # 0 <=> worker = "reporting")
      BY DEF Queue!Init
    <2>3. QED
      BY <2>1, <2>2 DEF Queue!Init, Queue!TypeOK
  <1>2. QueueInv /\ ReportedInv /\ LossInv /\ ShutdownInv
    BY DEF Queue!Init, Queue!QueueAssumption, QueueInv, ReportedInv, LossInv, ShutdownInv,
       Queue!InOrder
  <1>3. QED
    BY <1>1, <1>2 DEF MetricsInv

(* Putting new metrics into a full queue pushes the oldest out.            *)
LEMMA MetricsPut ==
    ASSUME Queue!QueueAssumption, MetricsInv, NEW r \in Requests, Queue!Put(r)
    PROVE  MetricsInv'
  <1>1. /\ queue \in Seq(1 .. put) /\ put \in Nat /\ Len(queue) \in Nat /\ MaxQueued \in Nat \ {0}
        /\ hand \in Nat /\ Len(queue) <= put /\ Len(queue) <= MaxQueued
    BY DEF MetricsInv, Queue!TypeOK, QueueInv, Queue!QueueAssumption
  <1>2. /\ Queue!Room \in Seq(1 .. put) /\ Len(Queue!Room) \in Nat
        /\ Len(Queue!Room) = IF Len(queue) >= MaxQueued THEN Len(queue) - 1 ELSE Len(queue)
        /\ \A i \in 1 .. Len(Queue!Room) : Queue!Room[i] = put - Len(Queue!Room) + i
    <2>1. CASE Len(queue) >= MaxQueued
      <3>1. queue # <<>> /\ Queue!Room = Tail(queue)
        BY <1>1, <2>1 DEF Queue!Room
      <3>2. Tail(queue) \in Seq(1 .. put) /\ Len(Tail(queue)) = Len(queue) - 1
        BY <1>1, <3>1
      <3>3. \A i \in 1 .. Len(Tail(queue)) : Tail(queue)[i] = queue[i + 1]
        BY <1>1, <3>1
      <3>4. \A i \in 1 .. Len(Tail(queue)) : Tail(queue)[i] = put - Len(Tail(queue)) + i
        BY <1>1, <3>2, <3>3 DEF MetricsInv, QueueInv
      <3>5. QED
        BY <1>1, <2>1, <3>1, <3>2, <3>4
    <2>2. CASE ~(Len(queue) >= MaxQueued)
      BY <1>1, <2>2 DEF Queue!Room, MetricsInv, QueueInv
    <2>3. QED
      BY <2>1, <2>2
  <1>3. put' = put + 1 /\ queue' = Append(Queue!Room, put + 1)
    BY DEF Queue!Put
  <1>4. /\ queue' \in Seq(1 .. put') /\ Len(queue') = Len(Queue!Room) + 1
        /\ \A i \in 1 .. Len(queue') :
              queue'[i] = IF i <= Len(Queue!Room) THEN Queue!Room[i] ELSE put + 1
    <2>1. Queue!Room \in Seq(1 .. put + 1) /\ put + 1 \in 1 .. put + 1
      BY <1>1, <1>2
    <2> HIDE DEF Queue!Room
    <2>2. QED
      BY <1>2, <1>3, <2>1
  <1>5. QueueInv'
    <2>1. \A i \in 1 .. Len(queue') : queue'[i] = put' - Len(queue') + i
      <3> SUFFICES ASSUME NEW i \in 1 .. Len(queue') PROVE queue'[i] = put' - Len(queue') + i
        OBVIOUS
      <3> HIDE DEF Queue!Room
      <3>0. /\ put' - Len(queue') = put - Len(Queue!Room)
            /\ put - Len(Queue!Room) + (Len(Queue!Room) + 1) = put + 1
        <4>1. /\ put \in Nat /\ Len(Queue!Room) \in Nat
              /\ put' = put + 1 /\ Len(queue') = Len(Queue!Room) + 1
          BY <1>1, <1>2, <1>3, <1>4
        <4>2. QED
          BY <4>1
      <3>1. CASE i <= Len(Queue!Room)
        <4>1. queue'[i] = Queue!Room[i] /\ i \in 1 .. Len(Queue!Room)
          BY <1>2, <1>4, <3>1
        <4>2. Queue!Room[i] = put - Len(Queue!Room) + i
          BY <1>2, <4>1
        <4>3. QED
          BY <3>0, <4>1, <4>2
      <3>2. CASE i = Len(Queue!Room) + 1
        <4>1. ~(i <= Len(Queue!Room))
          BY <1>2, <3>2
        <4>2. queue'[i] = put + 1
          BY <1>4, <4>1
        <4>3. QED
          BY <3>0, <3>2, <4>2
      <3>3. QED
        BY <1>2, <1>4, <3>1, <3>2
    <2>2. Len(queue') <= MaxQueued /\ Len(queue') <= put'
      <3>1. Len(queue') = Len(Queue!Room) + 1 /\ put' = put + 1
        BY <1>3, <1>4
      <3>2. Len(Queue!Room) \in Nat /\ Len(Queue!Room) < MaxQueued /\ Len(Queue!Room) <= put
        BY <1>1, <1>2
      <3>3. QED
        BY <1>1, <3>1, <3>2
    <2>3. QED
      BY <2>1, <2>2 DEF QueueInv
  <1>6. Queue!TypeOK'
    <2>1. reported \in Seq(1 .. put') /\ hand \in 0 .. put'
      BY <1>1, <1>3 DEF MetricsInv, Queue!TypeOK
    <2>2. QED
      BY <1>1, <1>3, <1>4, <2>1 DEF MetricsInv, Queue!TypeOK, Queue!Put
  <1>7. put - Len(queue) <= put' - Len(queue') /\ put' - Len(queue') \in Nat
    BY <1>1, <1>2, <1>3, <1>4
  <1>8. ReportedInv'
    <2>1. \A i \in 1 .. Len(reported) : reported[i] \in Nat
      BY DEF MetricsInv, Queue!TypeOK
    <2>2. UNCHANGED <<hand, reported>>
      BY DEF Queue!Put
    <2>3. QED
      BY <1>1, <1>3, <1>4, <1>7, <2>1, <2>2 DEF MetricsInv, ReportedInv, Queue!InOrder
  <1>9. LossInv'
    <2> SUFFICES ASSUME NEW n \in 1 .. put' - Len(queue'), n \notin Queue!ReportedSet, n # hand
                 PROVE  put' - n >= MaxQueued
      BY DEF LossInv, Queue!ReportedSet, Queue!Put
    <2>1. CASE n <= put - Len(queue)
      BY <1>1, <1>3, <2>1 DEF MetricsInv, LossInv
    <2>2. CASE ~(n <= put - Len(queue))
      BY <1>1, <1>2, <1>3, <1>4, <2>2
    <2>3. QED
      BY <2>1, <2>2
  <1>10. ShutdownInv'
    BY DEF MetricsInv, ShutdownInv, Queue!Put
  <1>11. QED
    BY <1>5, <1>6, <1>8, <1>9, <1>10 DEF MetricsInv

(* The worker takes the oldest metrics into its hand.                      *)
LEMMA MetricsTake ==
    ASSUME Queue!QueueAssumption, MetricsInv, Queue!Take
    PROVE  MetricsInv'
  <1>1. /\ queue \in Seq(1 .. put) /\ put \in Nat /\ Len(queue) \in Nat /\ queue # <<>>
        /\ hand = 0 /\ Len(queue) <= put /\ Len(queue) > 0
    BY DEF MetricsInv, Queue!TypeOK, QueueInv, Queue!Take
  <1>2. /\ Tail(queue) \in Seq(1 .. put) /\ Len(Tail(queue)) = Len(queue) - 1
        /\ \A i \in 1 .. Len(Tail(queue)) : Tail(queue)[i] = queue[i + 1]
    BY <1>1
  <1>3. Head(queue) = put - Len(queue) + 1
    <2>1. Head(queue) = queue[1]
      BY <1>1
    <2>2. QED
      BY <1>1, <2>1 DEF MetricsInv, QueueInv
  <1>4. /\ hand' = put - Len(queue) + 1 /\ worker' = "reporting" /\ worker = "ready"
        /\ UNCHANGED <<put, stop, request, reported, client>>
        /\ queue' \in Seq(1 .. put) /\ Len(queue') = Len(queue) - 1
        /\ \A i \in 1 .. Len(queue') : queue'[i] = queue[i + 1]
    BY <1>2, <1>3 DEF Queue!Take
  <1>5. Queue!TypeOK'
    <2>1. hand' \in 1 .. put
      BY <1>1, <1>4
    <2>2. QED
      BY <1>4, <2>1 DEF MetricsInv, Queue!TypeOK
  <1>6. QueueInv'
    <2>1. \A i \in 1 .. Len(queue') : queue[i + 1] = put - Len(queue) + (i + 1)
      BY <1>1, <1>4 DEF MetricsInv, QueueInv
    <2>2. \A i \in 1 .. Len(queue') : queue'[i] = put' - Len(queue') + i
      <3> SUFFICES ASSUME NEW i \in 1 .. Len(queue') PROVE queue'[i] = put' - Len(queue') + i
        OBVIOUS
      <3>1. queue'[i] = put - Len(queue) + (i + 1)
        BY <1>4, <2>1
      <3>2. put' - Len(queue') + i = put - Len(queue) + (i + 1)
        BY <1>1, <1>4
      <3>3. QED
        BY <3>1, <3>2
    <2>3. Len(queue') <= MaxQueued /\ Len(queue') <= put'
      BY <1>1, <1>4 DEF MetricsInv, QueueInv, Queue!QueueAssumption
    <2>4. QED
      BY <2>2, <2>3 DEF QueueInv
  <1>7. ReportedInv'
    <2>1. \A i \in 1 .. Len(reported) : reported[i] \in Nat /\ reported[i] <= put - Len(queue)
      BY DEF MetricsInv, Queue!TypeOK, ReportedInv
    <2>2. Queue!InOrder'
      BY <1>4 DEF MetricsInv, ReportedInv, Queue!InOrder
    <2>3. QED
      BY <1>1, <1>4, <2>1, <2>2 DEF ReportedInv
  <1>8. LossInv'
    <2> SUFFICES ASSUME NEW n \in 1 .. put - (Len(queue) - 1),
                        n \notin Queue!ReportedSet, n # hand'
                 PROVE  put - n >= MaxQueued
      BY <1>2, <1>4 DEF LossInv, Queue!ReportedSet
    <2>1. n # put - Len(queue) + 1 /\ n \in Nat /\ n >= 1 /\ n <= put - Len(queue) + 1
      BY <1>1, <1>4
    <2>2. n \in 1 .. put - Len(queue) /\ n # hand
      BY <1>1, <2>1
    <2>3. QED
      BY <2>2 DEF MetricsInv, LossInv
  <1>9. ShutdownInv'
    BY <1>4 DEF MetricsInv, ShutdownInv
  <1>10. QED
    BY <1>5, <1>6, <1>7, <1>8, <1>9 DEF MetricsInv

(* The collectors are called with what the worker has in hand.             *)
LEMMA MetricsReport ==
    ASSUME MetricsInv, Queue!Report
    PROVE  MetricsInv'
  <1>1. /\ reported \in Seq(1 .. put) /\ put \in Nat /\ hand \in 1 .. put /\ Len(queue) \in Nat
        /\ worker = "reporting"
    BY DEF MetricsInv, Queue!TypeOK, Queue!Report
  <1>2. /\ reported' = Append(reported, hand) /\ hand' = 0 /\ worker' = "ready"
        /\ UNCHANGED <<queue, put, stop, request, client>>
    BY DEF Queue!Report
  <1>3. /\ reported' \in Seq(1 .. put)
        /\ Len(reported') = Len(reported) + 1 /\ Len(reported) \in Nat
        /\ \A i \in 1 .. Len(reported') :
              reported'[i] = IF i <= Len(reported) THEN reported[i] ELSE hand
    BY <1>1, <1>2
  <1>4. Queue!TypeOK'
    BY <1>1, <1>2, <1>3 DEF MetricsInv, Queue!TypeOK
  <1>5. QueueInv'
    BY <1>2 DEF MetricsInv, QueueInv
  <1>6. ReportedInv'
    <2>1. \A i \in 1 .. Len(reported) : reported[i] \in Nat /\ reported[i] < hand
      BY <1>1 DEF MetricsInv, Queue!TypeOK, ReportedInv
    <2>2. Queue!InOrder'
      <3> SUFFICES ASSUME NEW i \in 1 .. Len(reported'), NEW j \in 1 .. Len(reported'), i < j
                   PROVE  reported'[i] < reported'[j]
        BY DEF Queue!InOrder
      <3>1. i \in 1 .. Len(reported) /\ reported'[i] = reported[i]
        BY <1>3
      <3>2. CASE j \in 1 .. Len(reported)
        BY <1>3, <3>1, <3>2 DEF MetricsInv, ReportedInv, Queue!InOrder
      <3>3. CASE j = Len(reported) + 1
        BY <1>3, <2>1, <3>1, <3>3
      <3>4. QED
        BY <1>3, <3>2, <3>3
    <2>3. QED
      BY <1>1, <1>2, <1>3, <2>1, <2>2 DEF MetricsInv, ReportedInv
  <1>7. LossInv'
    <2>1. Queue!ReportedSet \cup {hand} \subseteq Queue!ReportedSet'
      <3>1. ASSUME NEW i \in 1 .. Len(reported) PROVE reported[i] \in Queue!ReportedSet'
        <4>1. i \in 1 .. Len(reported') /\ i <= Len(reported)
          BY <1>3
        <4>2. reported'[i] = reported[i]
          BY <1>3, <4>1
        <4>3. QED
          BY <4>1, <4>2 DEF Queue!ReportedSet
      <3>2. hand \in Queue!ReportedSet'
        <4>1. /\ Len(reported) + 1 \in 1 .. Len(reported')
              /\ ~(Len(reported) + 1 <= Len(reported))
          BY <1>3
        <4>2. reported'[Len(reported) + 1] = hand
          BY <1>3, <4>1
        <4>3. QED
          BY <4>1, <4>2 DEF Queue!ReportedSet
      <3>3. QED
        BY <3>1, <3>2 DEF Queue!ReportedSet
    <2>2. QED
      BY <1>2, <2>1 DEF MetricsInv, LossInv
  <1>8. ShutdownInv'
    BY <1>2, <1>1 DEF MetricsInv, ShutdownInv
  <1>9. QED
    BY <1>4, <1>5, <1>6, <1>7, <1>8 DEF MetricsInv

(* The other steps touch neither the queue nor what came of it.            *)
LEMMA MetricsOther ==
    ASSUME MetricsInv,
           \/ \E r \in Requests : Queue!NotifyOne(r)
           \/ Queue!Sleep \/ Queue!Leave \/ Queue!Destroy \/ Queue!NotifyAll \/ Queue!Teardown
    PROVE  MetricsInv'
  <1>1. UNCHANGED <<queue, put, hand, reported>>
    BY DEF Queue!NotifyOne, Queue!Sleep, Queue!Leave, Queue!Destroy, Queue!NotifyAll,
       Queue!Teardown
  <1>2. QueueInv' /\ ReportedInv' /\ LossInv'
    BY <1>1 DEF MetricsInv, QueueInv, ReportedInv, LossInv, Queue!InOrder, Queue!ReportedSet
  <1>3. Queue!TypeOK'
    BY <1>1 DEF MetricsInv, Queue!TypeOK, Queue!NotifyOne, Queue!WokenWorker, Queue!Sleep,
       Queue!Leave, Queue!Destroy, Queue!NotifyAll, Queue!Teardown
  <1>4. ShutdownInv'
    BY DEF MetricsInv, Queue!TypeOK, ShutdownInv, Queue!NotifyOne, Queue!WokenWorker,
       Queue!Sleep, Queue!Leave, Queue!Destroy, Queue!NotifyAll, Queue!Teardown
  <1>5. QED
    BY <1>2, <1>3, <1>4 DEF MetricsInv

LEMMA MetricsNext ==
    Queue!QueueAssumption /\ MetricsInv /\ [Queue!Next]_(Queue!vars) => MetricsInv'
  <1>1. MetricsInv /\ UNCHANGED Queue!vars => MetricsInv'
    BY DEF Queue!vars, MetricsInv, Queue!TypeOK, QueueInv, ReportedInv, LossInv,
       ShutdownInv, Queue!InOrder, Queue!ReportedSet
  <1>2. QED
    BY <1>1, MetricsPut, MetricsTake, MetricsReport, MetricsOther DEF Queue!Next,
       Queue!Worker, Queue!Client, Queue!Gone

(* Metrics are reported once and in order, and lost only if MaxQueued      *)
(* others came after them, also when ~Client drains the queue.             *)
THEOREM OnlyOldMetricsAreLost == Queue!Spec => []LossOnlyOfTheOldest
  <1>1. MetricsInv => LossOnlyOfTheOldest
    <2> SUFFICES ASSUME MetricsInv, NEW n \in 1 .. put,
                        n \notin Queue!ReportedSet \cup (IF client = "gone" THEN {}
                                                   ELSE Queue!QueuedSet \cup {hand})
                 PROVE  put - n >= MaxQueued
      BY DEF LossOnlyOfTheOldest, Queue!LossOnlyOfTheOldest, MetricsInv, ReportedInv
    <2>1. /\ queue \in Seq(1 .. put) /\ put \in Nat /\ Len(queue) \in Nat /\ Len(queue) <= put
          /\ hand \in Nat /\ (hand # 0 <=> worker = "reporting")
      BY DEF MetricsInv, Queue!TypeOK, QueueInv
    <2>2. n # hand
      BY <2>1 DEF MetricsInv, ShutdownInv
    <2>3. n \notin Queue!QueuedSet
      BY <2>1 DEF MetricsInv, ShutdownInv, Queue!QueuedSet
    <2>4. n \in 1 .. put - Len(queue)
      <3>1. CASE n > put - Len(queue)
        <4>1. n - (put - Len(queue)) \in 1 .. Len(queue)
          BY <2>1, <3>1
        <4>2. queue[n - (put - Len(queue))] = n
          BY <2>1, <4>1 DEF MetricsInv, QueueInv
        <4>3. QED
          BY <2>3, <4>1, <4>2 DEF Queue!QueuedSet
      <3>2. QED
        BY <2>1, <3>1
    <2>5. QED
      BY <2>2, <2>4 DEF MetricsInv, LossInv
  <1>2. Queue!Init => MetricsInv
    BY MetricsInit, PartsAssumption
  <1>3. MetricsInv /\ [Queue!Next]_(Queue!vars) => MetricsInv'
    BY MetricsNext, PartsAssumption
  <1>4. QED
    BY <1>1, <1>2, <1>3, PTL DEF Queue!Spec
-----------------------------------------------------------------------------
(* The collector counts the elements of a set as this module does.         *)
LEMMA SameCardinality == \A S : Collector!Cardinality(S) = Cardinality(S)
  BY DEF Collector!Cardinality, Cardinality

(* A label with a failure has a count as long as there is room for one.    *)
LabelsInv ==
    /\ IsFiniteSet(Collector!Known)
    /\ \A i \in 1 .. Len(blamed) :
           tally[blamed[i]] > 0 \/ Cardinality(Collector!Known) >= MaxLabels

CollectorInv == Collector!FailuresAddUp /\ LabelsInv

(* What a request is to a stage.                                           *)
Fails(m, s) == s \in Collector!Started(m) /\ Collector!Failed(m, s)
Passes(m, s) == s \in Collector!Started(m) /\ ~Collector!Failed(m, s)
One(b) == IF b THEN 1 ELSE 0

(* Every request fails at one stage at most, and only if it fails; it      *)
(* starts a stage only if it has passed the one before.                    *)
LEMMA StagesOfRequest ==
    ASSUME Collector!CollectorAssumption, NEW m \in Collector!Metrics
    PROVE  /\ m.label \in Collector!Labels \cup {""} /\ (m.result = "OK" <=> m.label = "")
           /\ \A s \in Collector!Stages \ {"total"} : Fails(m, s) => m.result # "OK"
           /\ \A s, t \in Collector!Stages \ {"total"} : Fails(m, s) /\ Fails(m, t) => s = t
           /\ Fails(m, "total") <=> m.result # "OK"
           /\ Passes(m, "total") <=> m.result = "OK"
           /\ "connect" \in Collector!Started(m) => Passes(m, "dns")
           /\ "tls" \in Collector!Started(m) => Passes(m, "connect")
           /\ "ttfb" \in Collector!Started(m) => Passes(m, "tls")
  <1>1. /\ m.label \in Collector!Labels \cup {""} /\ (m.result = "OK" <=> m.label = "")
        /\ m.result = "DNS" <=> m.label = "dns"
        /\ m.result = "CONNECT" <=> m.label = "connect"
        /\ m.result = "TLS" => m.label = "tls"
        /\ m.label \in {"dns", "connect"} => ~m.tls
        /\ m.label \in {"dns", "connect", "tls"} => ~m.ttfb
    BY DEF Collector!Metrics
  <1>2. /\ Fails(m, "dns") <=> m.label = "dns"
        /\ Passes(m, "dns") <=> m.label # "dns"
    BY <1>1 DEF Fails, Passes, Collector!Started, Collector!Failed, Collector!DnsFailed
  <1>3. /\ "connect" \in Collector!Started(m) <=> Collector!ConnectStarted(m)
        /\ "tls" \in Collector!Started(m) <=> Collector!TlsStarted(m)
        /\ "ttfb" \in Collector!Started(m) <=> Collector!TtfbStarted(m)
        /\ "transfer" \in Collector!Started(m) <=> Collector!TransferStarted(m)
        /\ "total" \in Collector!Started(m)
    BY DEF Collector!Started
  <1>4. /\ Collector!Failed(m, "connect") <=> Collector!ConnectFailed(m)
        /\ Collector!Failed(m, "tls") <=> Collector!TlsFailed(m)
        /\ Collector!Failed(m, "ttfb") <=> ~m.ttfb
        /\ Collector!Failed(m, "transfer") <=> m.result # "OK"
        /\ Collector!Failed(m, "total") <=> m.result # "OK"
    BY DEF Collector!Failed
  <1>5. /\ "connect" \in Collector!Started(m) => Passes(m, "dns")
        /\ "tls" \in Collector!Started(m) => Passes(m, "connect")
        /\ "ttfb" \in Collector!Started(m) => Passes(m, "tls")
    BY <1>1, <1>2, <1>3, <1>4 DEF Passes, Collector!ConnectStarted, Collector!TlsStarted,
       Collector!TtfbStarted, Collector!DnsFailed
  <1>6. /\ Fails(m, "connect") => m.label = "connect"
        /\ Fails(m, "tls") => ~m.ttfb /\ m.label \in {"tls", "timeout"}
        /\ Fails(m, "ttfb") => ~m.ttfb /\ m.label \in {"ttfb", "timeout"} /\ Passes(m, "tls")
        /\ Fails(m, "transfer") => m.ttfb /\ m.result # "OK"
    BY <1>1, <1>3, <1>4, <1>5 DEF Fails, Collector!ConnectFailed, Collector!TlsFailed,
       Collector!HandshakeTimeout, Collector!TtfbStarted, Collector!TransferStarted
  <1>7. ASSUME NEW s \in Collector!Stages \ {"total"}, Fails(m, s) PROVE m.result # "OK"
    BY <1>1, <1>2, <1>6, <1>7 DEF Collector!Stages
  <1>8. Fails(m, "tls") => ~Fails(m, "ttfb")
    BY <1>6 DEF Fails, Passes
  <1>9. ASSUME NEW s \in Collector!Stages \ {"total"}, NEW t \in Collector!Stages \ {"total"},
               Fails(m, s), Fails(m, t)
        PROVE  s = t
    BY <1>1, <1>2, <1>6, <1>8, <1>9 DEF Collector!Stages
  <1>10. /\ Fails(m, "total") <=> m.result # "OK"
         /\ Passes(m, "total") <=> m.result = "OK"
    BY <1>3, <1>4 DEF Fails, Passes
  <1>11. QED
    BY <1>1, <1>5, <1>7, <1>9, <1>10

(* Every stage counts a request once if it was started.                    *)
LEMMA CountsOfRequest ==
    ASSUME Collector!TypeOK, NEW m \in Collector!Metrics, Collector!ReportRequest(m),
           NEW s \in Collector!Stages
    PROVE  /\ count'[s] \in [Collector!Outcomes -> Nat]
           /\ count[s]["failed"] \in Nat /\ count[s]["succeeded"] \in Nat
           /\ count'[s]["failed"] = count[s]["failed"] + One(Fails(m, s))
           /\ count'[s]["succeeded"] = count[s]["succeeded"] + One(Passes(m, s))
  <1>1. /\ count[s] \in [Collector!Outcomes -> Nat]
        /\ {"failed", "succeeded"} = Collector!Outcomes
    BY DEF Collector!TypeOK, Collector!Outcomes
  <1>2. count'[s] = IF s \notin Collector!Started(m) THEN count[s]
                    ELSE [count[s] EXCEPT
                              ![IF Collector!Failed(m, s) THEN "failed" ELSE "succeeded"] = @ + 1]
    BY DEF Collector!ReportRequest
  <1>3. CASE s \notin Collector!Started(m)
    BY <1>1, <1>2, <1>3 DEF Fails, Passes, One
  <1>4. CASE Fails(m, s)
    <2>1. count'[s] = [count[s] EXCEPT !["failed"] = @ + 1] /\ ~Passes(m, s)
      BY <1>2, <1>4 DEF Fails, Passes
    <2>2. QED
      BY <1>1, <1>4, <2>1 DEF One
  <1>5. CASE Passes(m, s)
    <2>1. count'[s] = [count[s] EXCEPT !["succeeded"] = @ + 1] /\ ~Fails(m, s)
      BY <1>2, <1>5 DEF Fails, Passes
    <2>2. QED
      BY <1>1, <1>5, <2>1 DEF One
  <1>6. QED
    BY <1>3, <1>4, <1>5 DEF Fails, Passes

(* The counts of the stages.                                               *)
LEMMA StageCounts ==
    ASSUME Collector!CollectorAssumption, Collector!FailuresAddUp,
           NEW m \in Collector!Metrics, Collector!ReportRequest(m)
    PROVE  /\ requests' \in 0 .. MaxReports /\ failure' \in 0 .. requests'
           /\ count' \in [Collector!Stages -> [Collector!Outcomes -> Nat]]
           /\ Collector!FailedAt("total")' = failure'
           /\ Collector!StartedOf("total")' = requests'
           /\ (Collector!FailedAt("dns") + Collector!FailedAt("connect")
                 + Collector!FailedAt("tls") + Collector!FailedAt("ttfb")
                 + Collector!FailedAt("transfer"))' <= failure'
           /\ Collector!StartedOf("connect")' <= count'["dns"]["succeeded"]
           /\ Collector!StartedOf("tls")' <= count'["connect"]["succeeded"]
           /\ Collector!StartedOf("ttfb")' <= count'["tls"]["succeeded"]
  <1>1. /\ Collector!TypeOK /\ requests \in 0 .. MaxReports /\ failure \in 0 .. requests
        /\ MaxReports \in Nat /\ requests < MaxReports
    BY DEF Collector!FailuresAddUp, Collector!TypeOK, Collector!CollectorAssumption,
       Collector!ReportRequest
  <1>2. requests' = requests + 1 /\ failure' = failure + One(m.result # "OK")
    BY DEF Collector!ReportRequest, One
  <1>3. {"dns", "connect", "tls", "ttfb", "transfer", "total"} = Collector!Stages
    BY DEF Collector!Stages
  <1>4. /\ requests' \in 0 .. MaxReports /\ failure' \in 0 .. requests'
        /\ count' \in [Collector!Stages -> [Collector!Outcomes -> Nat]]
    <2>1. count' = [s \in Collector!Stages |-> count'[s]]
      BY DEF Collector!ReportRequest
    <2>2. \A s \in Collector!Stages : count'[s] \in [Collector!Outcomes -> Nat]
      BY <1>1, CountsOfRequest
    <2>3. QED
      BY <1>1, <1>2, <2>1, <2>2 DEF One
  <1> DEFINE f(s) == count[s]["failed"]
             p(s) == count[s]["succeeded"]
  <1>5. \A s \in Collector!Stages :
            /\ f(s) \in Nat /\ p(s) \in Nat
            /\ count'[s]["failed"] = f(s) + One(Fails(m, s))
            /\ count'[s]["succeeded"] = p(s) + One(Passes(m, s))
            /\ One(Fails(m, s)) \in {0, 1} /\ One(Passes(m, s)) \in {0, 1}
            /\ One(Fails(m, s)) + One(Passes(m, s)) = One(s \in Collector!Started(m))
    <2>1. ASSUME NEW s \in Collector!Stages
          PROVE  /\ One(Fails(m, s)) \in {0, 1} /\ One(Passes(m, s)) \in {0, 1}
                 /\ One(Fails(m, s)) + One(Passes(m, s)) = One(s \in Collector!Started(m))
      BY DEF One, Fails, Passes
    <2>2. QED
      BY <1>1, <2>1, CountsOfRequest
  <1>6. /\ f("total") = failure /\ p("total") + f("total") = requests
        /\ f("dns") + f("connect") + f("tls") + f("ttfb") + f("transfer") <= failure
        /\ p("connect") + f("connect") <= p("dns")
        /\ p("tls") + f("tls") <= p("connect")
        /\ p("ttfb") + f("ttfb") <= p("tls")
    BY DEF Collector!FailuresAddUp, Collector!FailedAt, Collector!StartedOf
  <1> HIDE DEF f, p
  <1>7. /\ One(Fails(m, "total")) = One(m.result # "OK")
        /\ One(Fails(m, "total")) + One(Passes(m, "total")) = 1
    <2>1. /\ Fails(m, "total") <=> m.result # "OK"
          /\ Passes(m, "total") <=> m.result = "OK"
      BY StagesOfRequest
    <2>2. QED
      BY <2>1 DEF One
  <1>8. One(Fails(m, "dns")) + One(Fails(m, "connect")) + One(Fails(m, "tls"))
          + One(Fails(m, "ttfb")) + One(Fails(m, "transfer")) <= One(m.result # "OK")
    <2>1. \A s \in Collector!Stages \ {"total"} : Fails(m, s) => m.result # "OK"
      BY StagesOfRequest
    <2>2. \A s, t \in Collector!Stages \ {"total"} : Fails(m, s) /\ Fails(m, t) => s = t
      BY StagesOfRequest
    <2>3. {"dns", "connect", "tls", "ttfb", "transfer"} = Collector!Stages \ {"total"}
      BY <1>3
    <2>4. CASE m.result = "OK"
      BY <2>1, <2>3, <2>4 DEF One
    <2>5. CASE m.result # "OK"
      BY <2>2, <2>3, <2>5 DEF One
    <2>6. QED
      BY <2>4, <2>5
  <1>9. /\ One("connect" \in Collector!Started(m)) <= One(Passes(m, "dns"))
        /\ One("tls" \in Collector!Started(m)) <= One(Passes(m, "connect"))
        /\ One("ttfb" \in Collector!Started(m)) <= One(Passes(m, "tls"))
    <2>1. /\ "connect" \in Collector!Started(m) => Passes(m, "dns")
          /\ "tls" \in Collector!Started(m) => Passes(m, "connect")
          /\ "ttfb" \in Collector!Started(m) => Passes(m, "tls")
      BY StagesOfRequest
    <2>2. QED
      BY <2>1 DEF One
  <1>10. Collector!FailedAt("total")' = failure' /\ Collector!StartedOf("total")' = requests'
    <2>1. Collector!FailedAt("total")' = f("total") + One(Fails(m, "total"))
      BY <1>3, <1>5 DEF Collector!FailedAt
    <2>2. Collector!StartedOf("total")'
            = p("total") + f("total") + One(Fails(m, "total")) + One(Passes(m, "total"))
      BY <1>3, <1>5 DEF Collector!StartedOf
    <2>3. QED
      BY <1>1, <1>2, <1>3, <1>5, <1>6, <1>7, <2>1, <2>2
  <1>11. (Collector!FailedAt("dns") + Collector!FailedAt("connect") + Collector!FailedAt("tls")
            + Collector!FailedAt("ttfb") + Collector!FailedAt("transfer"))' <= failure'
    <2>1. \A s \in Collector!Stages : Collector!FailedAt(s)' = f(s) + One(Fails(m, s))
      BY <1>5 DEF Collector!FailedAt
    <2>2. One(m.result # "OK") \in {0, 1} /\ failure \in Nat
      BY <1>1 DEF One
    <2>3. QED
      BY <1>2, <1>3, <1>5, <1>6, <1>8, <2>1, <2>2
  <1>12. /\ Collector!StartedOf("connect")' <= count'["dns"]["succeeded"]
         /\ Collector!StartedOf("tls")' <= count'["connect"]["succeeded"]
         /\ Collector!StartedOf("ttfb")' <= count'["tls"]["succeeded"]
    <2>1. \A s \in Collector!Stages :
              Collector!StartedOf(s)' = p(s) + f(s) + One(s \in Collector!Started(m))
      BY <1>5 DEF Collector!StartedOf
    <2>2. \A s \in Collector!Stages : One(s \in Collector!Started(m)) \in {0, 1}
      BY DEF One
    <2>3. QED
      BY <1>3, <1>5, <1>6, <1>9, <2>1, <2>2
  <1>13. QED
    BY <1>4, <1>10, <1>11, <1>12

(* A success is blamed on nobody, a failure on its label.                  *)
LEMMA LabelCounts ==
    ASSUME Collector!CollectorAssumption, CollectorInv,
           NEW m \in Collector!Metrics, Collector!ReportRequest(m)
    PROVE  /\ tally' \in [Collector!Labels \cup {"other"} -> Nat]
           /\ blamed' \in Seq(Collector!Labels)
           /\ Collector!EveryLabelIsCounted'
           /\ Cardinality(Collector!Known \ {"other"})' <= MaxLabels
           /\ LabelsInv'
  <1> DEFINE Labels == Collector!Labels
             D == Labels \cup {"other"}
             n == Len(blamed) + 1
             l0 == m.label
             Others == {i \in 1 .. Len(blamed) : tally[blamed[i]] = 0}
  <1>1. /\ tally \in [D -> Nat] /\ blamed \in Seq(Labels) /\ failure \in Nat
        /\ Len(blamed) = failure /\ MaxLabels \in Nat
        /\ \A l \in Labels : tally[l] \in {0, Cardinality(Collector!Blamed(l))}
        /\ tally["other"] = Cardinality(Others)
        /\ Cardinality(Collector!Known \ {"other"}) <= MaxLabels
        /\ IsFiniteSet(Collector!Known)
        /\ \A i \in 1 .. Len(blamed) :
              tally[blamed[i]] > 0 \/ Cardinality(Collector!Known) >= MaxLabels
    <2>1. /\ tally \in [D -> Nat] /\ blamed \in Seq(Labels) /\ failure \in 0 .. requests
          /\ requests \in 0 .. MaxReports /\ MaxLabels \in Nat /\ MaxReports \in Nat
      BY DEF CollectorInv, Collector!FailuresAddUp, Collector!TypeOK,
         Collector!CollectorAssumption
    <2>2. /\ Len(blamed) = failure
          /\ \A l \in Labels : tally[l] \in {0, Cardinality(Collector!Blamed(l))}
          /\ tally["other"] = Cardinality(Others)
      BY SameCardinality DEF CollectorInv, Collector!FailuresAddUp, Collector!EveryLabelIsCounted
    <2>3. Cardinality(Collector!Known \ {"other"}) <= MaxLabels
      BY SameCardinality DEF CollectorInv, Collector!FailuresAddUp
    <2>4. QED
      BY <2>1, <2>2, <2>3 DEF CollectorInv, LabelsInv
  <1>2. "other" \notin Labels /\ Collector!Known = {l \in D : tally[l] > 0}
    BY <1>1 DEF Collector!CollectorAssumption, Collector!Labels, Collector!Known
  <1>3. CASE l0 = ""
    <2>1. tally' = tally /\ blamed' = blamed /\ failure' = failure
      <3>1. m.result = "OK"
        BY <1>3, StagesOfRequest
      <3>2. QED
        <4>1. failure' = failure
          <5>1. failure' = failure + IF m.result = "OK" THEN 0 ELSE 1
            BY DEF Collector!ReportRequest
          <5>2. QED
            BY <1>1, <3>1, <5>1
        <4>2. tally' = tally /\ blamed' = blamed
          BY <1>3, Zenon DEF Collector!ReportRequest, Collector!TallyOf
        <4>3. QED
          BY <4>1, <4>2
    <2>2. /\ Collector!Known' = Collector!Known
          /\ \A l \in Labels : Collector!Blamed(l)' = Collector!Blamed(l)
      BY <2>1 DEF Collector!Known, Collector!Blamed
    <2>3. Collector!EveryLabelIsCounted'
      BY <1>1, <2>1, <2>2, SameCardinality DEF Collector!EveryLabelIsCounted
    <2>4. QED
      BY <1>1, <2>1, <2>2, <2>3 DEF LabelsInv
  <1>4. CASE l0 # ""
    <2>1. l0 \in Labels /\ failure' = failure + 1 /\ blamed' = Append(blamed, l0)
      BY <1>4, StagesOfRequest DEF Collector!ReportRequest
    <2>2. /\ blamed' \in Seq(Labels) /\ Len(blamed') = n /\ Len(blamed') = failure'
          /\ n \notin 1 .. Len(blamed) /\ 1 .. Len(blamed') = (1 .. Len(blamed)) \cup {n}
          /\ \A i \in 1 .. Len(blamed) : blamed'[i] = blamed[i] /\ blamed[i] \in Labels
          /\ blamed'[n] = l0
      BY <1>1, <2>1
    <2>3. \A l \in Labels : /\ l # l0 => Collector!Blamed(l)' = Collector!Blamed(l)
                            /\ l = l0 => Collector!Blamed(l)' = Collector!Blamed(l) \cup {n}
      BY <2>2 DEF Collector!Blamed
    <2>4. /\ \A l \in Labels : IsFiniteSet(Collector!Blamed(l)) /\ n \notin Collector!Blamed(l)
          /\ IsFiniteSet(Others) /\ n \notin Others
      <3>1. IsFiniteSet(1 .. Len(blamed))
        BY <1>1, FS_Interval
      <3>2. \A l \in Labels : Collector!Blamed(l) \in SUBSET (1 .. Len(blamed))
        BY DEF Collector!Blamed
      <3>3. QED
        BY <2>2, <3>1, <3>2, FS_Subset
    <2>5. /\ Cardinality(Others \cup {n}) = Cardinality(Others) + 1
          /\ \A l \in Labels :
                Cardinality(Collector!Blamed(l) \cup {n}) = Cardinality(Collector!Blamed(l)) + 1
      BY <2>4, FS_AddElement
    <2> DEFINE full == l0 \notin Collector!Known /\ Cardinality(Collector!Known) >= MaxLabels
               k == IF full THEN "other" ELSE l0
    <2>6. k \in D /\ tally' = [tally EXCEPT ![k] = @ + 1]
      BY <1>4, <2>1, SameCardinality DEF Collector!ReportRequest, Collector!TallyOf
    <2>7. /\ tally' \in [D -> Nat] /\ tally'[k] = tally[k] + 1 /\ tally[k] \in Nat
          /\ \A l \in D \ {k} : tally'[l] = tally[l]
      BY <1>1, <2>6
    <2>8. Collector!Known' = Collector!Known \cup {k}
      BY <1>1, <1>2, <2>6, <2>7 DEF Collector!Known
    <2>9. /\ IsFiniteSet(Collector!Known') /\ Cardinality(Collector!Known) \in Nat
          /\ Cardinality(Collector!Known') \in Nat
          /\ Cardinality(Collector!Known') >= Cardinality(Collector!Known)
      <3>1. Cardinality(Collector!Known) \in Nat
        BY <1>1, FS_CardinalityType
      <3>2. /\ IsFiniteSet(Collector!Known \cup {k})
            /\ Cardinality(Collector!Known \cup {k})
                 \in {Cardinality(Collector!Known), Cardinality(Collector!Known) + 1}
        BY <1>1, FS_AddElement
      <3>3. QED
        BY <2>8, <3>1, <3>2
    <2> HIDE DEF k, Others, n
    <2>10. CASE full
      <3>1. k = "other" /\ l0 \notin Collector!Known /\ Cardinality(Collector!Known) >= MaxLabels
        BY <2>10 DEF k
      <3>2. \A l \in Labels : tally'[l] = tally[l]
        BY <1>2, <2>7, <3>1
      <3>3. tally[l0] = 0
        BY <1>1, <1>2, <2>1, <3>1
      <3>4. \A l \in Labels : tally'[l] \in {0, Cardinality(Collector!Blamed(l)')}
        BY <1>1, <2>3, <3>2, <3>3
      <3>5. {i \in 1 .. Len(blamed') : tally'[blamed'[i]] = 0} = Others \cup {n}
        BY <2>1, <2>2, <3>2, <3>3 DEF Others
      <3>6. tally'["other"] = Cardinality(Others) + 1
        BY <1>1, <2>7, <3>1
      <3>7. Collector!EveryLabelIsCounted'
        BY <2>2, <2>5, <3>4, <3>5, <3>6, SameCardinality DEF Collector!EveryLabelIsCounted
      <3>8. Collector!Known' \ {"other"} = Collector!Known \ {"other"}
        BY <2>8, <3>1
      <3>9. LabelsInv'
        BY <1>1, <2>9, <3>1 DEF LabelsInv
      <3>10. QED
        BY <1>1, <2>2, <2>7, <3>7, <3>8, <3>9
    <2>11. CASE ~full
      <3>1. k = l0 /\ (l0 \in Collector!Known \/ Cardinality(Collector!Known) < MaxLabels)
        BY <1>1, <2>9, <2>11 DEF k
      <3>2. /\ tally'[l0] = tally[l0] + 1 /\ tally[l0] \in Nat /\ tally'["other"] = tally["other"]
            /\ \A l \in Labels \ {l0} : tally'[l] = tally[l]
        BY <1>2, <2>1, <2>7, <3>1
      <3>3. tally[l0] = Cardinality(Collector!Blamed(l0))
        <4>1. CASE tally[l0] > 0
          BY <1>1, <2>1, <4>1
        <4>2. CASE tally[l0] = 0
          <5>1. Cardinality(Collector!Known) < MaxLabels
            BY <1>2, <3>1, <4>2
          <5>2. Collector!Blamed(l0) = {}
            BY <1>1, <2>9, <4>2, <5>1 DEF Collector!Blamed
          <5>3. QED
            BY <4>2, <5>2, FS_EmptySet
        <4>3. QED
          BY <3>2, <4>1, <4>2
      <3>4. \A l \in Labels : tally'[l] \in {0, Cardinality(Collector!Blamed(l)')}
        BY <1>1, <2>1, <2>3, <2>5, <3>2, <3>3
      <3>5. \A i \in 1 .. Len(blamed) :
                /\ tally[blamed[i]] = 0 => tally'[blamed[i]] = 0 \/ blamed[i] = l0
                /\ tally[blamed[i]] > 0 => tally'[blamed[i]] > 0
                /\ tally[blamed[i]] \in Nat
        <4>1. ASSUME NEW i \in 1 .. Len(blamed), blamed[i] # l0
              PROVE  tally'[blamed[i]] = tally[blamed[i]] /\ tally[blamed[i]] \in Nat
          BY <1>1, <2>2, <3>2, <4>1
        <4>2. tally'[l0] > 0
          BY <3>2
        <4>3. QED
          BY <3>2, <4>1, <4>2
      <3>6. \A i \in 1 .. Len(blamed) : blamed[i] = l0 => tally[l0] > 0
        <4> SUFFICES ASSUME NEW i \in 1 .. Len(blamed), blamed[i] = l0 PROVE tally[l0] > 0
          OBVIOUS
        <4>1. i \in Collector!Blamed(l0)
          BY DEF Collector!Blamed
        <4>2. QED
          BY <2>1, <2>4, <3>2, <3>3, <4>1, FS_EmptySet
      <3>7. {i \in 1 .. Len(blamed') : tally'[blamed'[i]] = 0} = Others
        BY <2>1, <2>2, <3>2, <3>5, <3>6 DEF Others
      <3>8. Collector!EveryLabelIsCounted'
        BY <1>1, <2>2, <3>2, <3>4, <3>7, SameCardinality DEF Collector!EveryLabelIsCounted
      <3>9. Cardinality(Collector!Known' \ {"other"}) <= MaxLabels
        <4>1. Collector!Known' \ {"other"} = (Collector!Known \ {"other"}) \cup {l0}
          BY <1>2, <2>1, <2>8, <3>1
        <4>2. CASE l0 \in Collector!Known
          <5>1. Collector!Known' \ {"other"} = Collector!Known \ {"other"}
            BY <1>2, <2>1, <4>1, <4>2
          <5>2. QED
            BY <1>1, <5>1
        <4>3. CASE Cardinality(Collector!Known) < MaxLabels
          <5>1. /\ IsFiniteSet(Collector!Known \ {"other"})
                /\ Cardinality(Collector!Known \ {"other"}) \in Nat
                /\ Cardinality(Collector!Known \ {"other"}) <= Cardinality(Collector!Known)
            BY <1>1, FS_RemoveElement, FS_Subset, FS_CardinalityType
          <5> DEFINE x == Collector!Known \ {"other"}
          <5>2. Cardinality(x \cup {l0}) \in {Cardinality(x), Cardinality(x) + 1}
            BY <5>1, FS_AddElement
          <5> HIDE DEF x
          <5>3. Cardinality(x \cup {l0}) <= MaxLabels
            BY <1>1, <2>9, <4>3, <5>1, <5>2 DEF x
          <5>4. QED
            BY <4>1, <5>3 DEF x
        <4>4. QED
          BY <3>1, <4>2, <4>3
      <3>10. LabelsInv'
        <4>1. \A i \in 1 .. Len(blamed) :
                  tally'[blamed[i]] > 0 \/ Cardinality(Collector!Known') >= MaxLabels
          BY <1>1, <2>9, <3>5, FS_CardinalityType
        <4>2. tally'[blamed'[n]] > 0
          BY <2>2, <3>2
        <4>3. QED
          BY <2>2, <2>9, <4>1, <4>2 DEF LabelsInv
      <3>11. QED
        BY <1>1, <2>2, <2>7, <3>8, <3>9, <3>10
    <2>12. QED
      BY <2>10, <2>11
  <1>5. QED
    BY <1>3, <1>4

(* Every failure is counted once, at one stage and under one label.        *)
THEOREM EveryFailureIsCountedOnce == Collector!Spec => []FailuresAddUp
  <1>0. Collector!CollectorAssumption
    BY PartsAssumption
  <1>1. Collector!Init => CollectorInv
    <2> SUFFICES ASSUME Collector!Init PROVE CollectorInv
      OBVIOUS
    <2>1. Collector!TypeOK
      <3>1. MaxReports \in Nat /\ MaxEvents \in Nat
        BY <1>0 DEF Collector!CollectorAssumption
      <3>2. /\ count \in [Collector!Stages -> [Collector!Outcomes -> Nat]]
            /\ tally \in [Collector!Labels \cup {"other"} -> Nat]
        BY DEF Collector!Init
      <3>3. requests = 0 /\ failure = 0 /\ events = 0 /\ blamed = <<>>
        BY DEF Collector!Init
      <3>4. blamed \in Seq(Collector!Labels)
        BY <3>3
      <3>5. QED
        BY <3>1, <3>2, <3>3, <3>4 DEF Collector!TypeOK
    <2>2. Collector!Known = {} /\ blamed = <<>> /\ 1 .. Len(blamed) = {}
      BY DEF Collector!Init, Collector!Known
    <2>3. LabelsInv
      BY <2>2, FS_EmptySet DEF LabelsInv
    <2>4. Collector!EveryLabelIsCounted
      BY <2>2, FS_EmptySet, SameCardinality DEF Collector!Init, Collector!EveryLabelIsCounted
    <2>5. Cardinality(Collector!Known \ {"other"}) = 0
      BY <2>2, FS_EmptySet
    <2>6. \A s \in Collector!Stages : count[s]["failed"] = 0 /\ count[s]["succeeded"] = 0
      BY DEF Collector!Init, Collector!Outcomes
    <2>7. {"dns", "connect", "tls", "ttfb", "transfer", "total"} = Collector!Stages
      BY DEF Collector!Stages
    <2>8. /\ \A s \in Collector!Stages : Collector!FailedAt(s) = 0 /\ Collector!StartedOf(s) = 0
          /\ requests = 0 /\ failure = 0 /\ MaxLabels \in Nat
      <3>1. \A s \in Collector!Stages : Collector!FailedAt(s) = 0 /\ Collector!StartedOf(s) = 0
        BY <2>6 DEF Collector!FailedAt, Collector!StartedOf
      <3>2. requests = 0 /\ failure = 0
        BY DEF Collector!Init
      <3>3. MaxLabels \in Nat
        BY <1>0 DEF Collector!CollectorAssumption
      <3>4. QED
        BY <3>1, <3>2, <3>3
    <2>9. Collector!Cardinality(Collector!Known \ {"other"}) <= MaxLabels
      BY <2>5, <2>8, SameCardinality
    <2>10. QED
      BY <2>1, <2>3, <2>4, <2>6, <2>7, <2>8, <2>9 DEF CollectorInv, Collector!FailuresAddUp
  <1>2. ASSUME CollectorInv, [Collector!Next]_(Collector!vars) PROVE CollectorInv'
    <2>1. CASE UNCHANGED Collector!vars
      BY <1>2, <2>1 DEF Collector!vars, CollectorInv, LabelsInv, Collector!FailuresAddUp,
         Collector!TypeOK, Collector!EveryLabelIsCounted, Collector!Known, Collector!Blamed,
         Collector!FailedAt, Collector!StartedOf
    <2>2. ASSUME NEW m \in Collector!Metrics, Collector!ReportRequest(m) PROVE CollectorInv'
      <3>1. events' \in 0 .. MaxEvents
        <4>1. events \in 0 .. MaxEvents /\ MaxEvents \in Nat
          BY <1>0, <1>2 DEF CollectorInv, Collector!FailuresAddUp, Collector!TypeOK,
             Collector!CollectorAssumption
        <4>2. QED
          <5>1. events' = IF events = MaxEvents THEN events ELSE events + 1
            BY <2>2 DEF Collector!ReportRequest
          <5>2. QED
            BY <4>1, <5>1
      <3>2. Collector!TypeOK'
        BY <1>0, <1>2, <2>2, <3>1, StageCounts, LabelCounts DEF CollectorInv, Collector!TypeOK
      <3>3. QED
        BY <1>0, <1>2, <2>2, <3>2, StageCounts, LabelCounts, SameCardinality
           DEF CollectorInv, Collector!FailuresAddUp
    <2>3. QED
      BY <1>2, <2>1, <2>2 DEF Collector!Next
  <1>3. CollectorInv => FailuresAddUp
    BY DEF CollectorInv, FailuresAddUp
  <1>4. QED
    BY <1>0, <1>1, <1>2, <1>3, PTL DEF Collector!Spec
=============================================================================
