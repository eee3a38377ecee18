---------------------------- MODULE HandleRegistry ----------------------------
(***************************************************************************)
(* The registry of opaque handles behind the C ABI (sdk/cxx/abi/abi.cpp).  *)
(*                                                                         *)
(* asternet_client_create makes a Client, wraps it in a ClientHandle and   *)
(* registers the handle under a fresh odd token.  Every other ABI function *)
(* looks the token up under g_handles_mutex, drops that lock, takes the    *)
(* handle's own mutex to count itself in, runs a method of the Client with *)
(* no lock held, and counts itself out in ~ClientLease; only then is its   *)
(* own shared_ptr to the Client dropped, because it is declared before the *)
(* lease.  asternet_client_destroy erases the token first and marks the    *)
(* handle afterwards, so calls that had already looked the token up are    *)
(* still on their way in.  Whoever drops the last shared_ptr runs ~Client, *)
(* which joins the metrics thread and so takes its time; when that is      *)
(* asternet_client_destroy it happens under the handle's mutex.            *)
(*                                                                         *)
(* A "call" is one execution of an ABI function.  A function called from a *)
(* callback of another one is a call of its own.                           *)
(***************************************************************************)
EXTENDS Integers, FiniteSets

CONSTANTS Calls,    \* ABI calls that may be executing at the same time
          NoCall,   \* holder of a mutex that is free
          MaxPtr    \* numeric_limits<uintptr_t>::max(): 2^w - 1

ASSUME CallsAssumption == IsFiniteSet(Calls) /\ NoCall \notin Calls
ASSUME MaxPtrAssumption == MaxPtr \in Nat /\ MaxPtr % 2 = 1

\* A Client with its ClientHandle is identified by the id its token came from.
Clients == 1 .. (MaxPtr \div 2)
\* Seeded bug: the tag takes two bits of the token.
TokenShiftedTwice(id) == (4 * id + 1) % (MaxPtr + 1)

Token(id) == (2 * id + 1) % (MaxPtr + 1)

VARIABLES g_next_handle_id,
          g_handles,      \* the registered (token, client) pairs
          held,           \* held[c]: ClientHandle::client is not null
          active,         \* active[c]: ClientHandle::active_requests
          destroying,     \* destroying[c]: ClientHandle::destroying
          mutex,          \* mutex[c]: call that keeps ClientHandle::mutex
          client,         \* client[c]: the Client object itself
          pc,             \* pc[t]: where call t is
          at              \* at[t]: the client whose handle call t has (or 0)

vars == <<g_next_handle_id, g_handles, held, active, destroying, mutex, client, pc, at>>

PC == {"idle",        \* not executing
       "found",       \* acquire_client copied the handle, no mutex yet
       "inside",      \* counted in, running a method of the Client
       "leaving",     \* counted out, still owning a shared_ptr to the Client
       "erased",      \* asternet_client_destroy erased the token
       "freeing",     \* running ~Client, no lock held
       "freeing_locked"}  \* running ~Client inside asternet_client_destroy

TypeOK ==
    /\ g_next_handle_id \in 1 .. (MaxPtr \div 2) + 1
    /\ g_handles \in SUBSET ((0 .. MaxPtr) \X Clients)
    /\ held \in [Clients -> BOOLEAN]
    /\ active \in [Clients -> Nat]
    /\ destroying \in [Clients -> BOOLEAN]
    /\ mutex \in [Clients -> Calls \cup {NoCall}]
    /\ client \in [Clients -> {"none", "alive", "freeing", "freed"}]
    /\ pc \in [Calls -> PC]
    /\ at \in [Calls -> Clients \cup {0}]

Init ==
    /\ g_next_handle_id = 1
    /\ g_handles = {}
    /\ held = [c \in Clients |-> FALSE]
    /\ active = [c \in Clients |-> 0]
    /\ destroying = [c \in Clients |-> FALSE]
    /\ mutex = [c \in Clients |-> NoCall]
    /\ client = [c \in Clients |-> "none"]
    /\ pc = [t \in Calls |-> "idle"]
    /\ at = [t \in Calls |-> 0]

Inside(c) == {t \in Calls : pc[t] = "inside" /\ at[t] = c}
\* Seeded bug: the lease outlives the call's shared_ptr.
OwnersInside(c) == Inside(c)

\* Calls that own a shared_ptr to the Client.
Owners(c) == {t \in Calls : pc[t] \in {"inside", "leaving"} /\ at[t] = c}

Goto(t, label) == pc' = [pc EXCEPT ![t] = label]
GoIdle(t) == Goto(t, "idle") /\ at' = [at EXCEPT ![t] = 0]

-----------------------------------------------------------------------------
\* asternet_client_create with the id counter not exhausted.
Create ==
    /\ g_next_handle_id <= MaxPtr \div 2
    /\ g_next_handle_id' = g_next_handle_id + 1
    /\ LET c == g_next_handle_id IN
        /\ g_handles' = g_handles \cup {<<Token(c), c>>}
        /\ held' = [held EXCEPT ![c] = TRUE]
        /\ client' = [client EXCEPT ![c] = "alive"]
    /\ UNCHANGED <<active, destroying, mutex, pc, at>>

\* emplace throws bad_alloc: the id is spent, the client is freed unregistered.
CreateFails ==
    /\ g_next_handle_id <= MaxPtr \div 2
    /\ g_next_handle_id' = g_next_handle_id + 1
    /\ client' = [client EXCEPT ![g_next_handle_id] = "freed"]
    /\ UNCHANGED <<g_handles, held, active, destroying, mutex, pc, at>>

\* acquire_client, first half: the handle is copied under g_handles_mutex.
Lookup(t, token, c) ==
    /\ pc[t] = "idle"
    /\ <<token, c>> \in g_handles
    /\ Goto(t, "found")
    /\ at' = [at EXCEPT ![t] = c]
    /\ UNCHANGED <<g_next_handle_id, g_handles, held, active, destroying, mutex, client>>

\* Seeded bug: destroying is not tested.
AcquireWhileDestroying(t, c) ==
    /\ pc[t] = "found" /\ at[t] = c
    /\ mutex[c] = NoCall /\ held[c]
    /\ active' = [active EXCEPT ![c] = @ + 1]
    /\ Goto(t, "inside")
    /\ UNCHANGED <<g_next_handle_id, g_handles, held, destroying, mutex, client, at>>

\* acquire_client, second half, under the handle's mutex.
Acquire(t, c) ==
    /\ pc[t] = "found" /\ at[t] = c
    /\ mutex[c] = NoCall
    /\ ~destroying[c] /\ held[c]
    /\ active' = [active EXCEPT ![c] = @ + 1]
    /\ Goto(t, "inside")
    /\ UNCHANGED <<g_next_handle_id, g_handles, held, destroying, mutex, client, at>>

Refuse(t, c) ==
    /\ pc[t] = "found" /\ at[t] = c
    /\ mutex[c] = NoCall
    /\ destroying[c] \/ ~held[c]
    /\ GoIdle(t)
    /\ UNCHANGED <<g_next_handle_id, g_handles, held, active, destroying, mutex, client>>

\* Seeded bugs: the call is not counted out; the deferred reset is forgotten.
ReleaseUncounted(t, c) ==
    /\ pc[t] = "inside" /\ at[t] = c
    /\ mutex[c] = NoCall
    /\ Goto(t, "leaving")
    /\ UNCHANGED <<g_next_handle_id, g_handles, held, active, destroying, mutex, client, at>>

ReleaseWithoutReset(t, c) ==
    /\ pc[t] = "inside" /\ at[t] = c
    /\ mutex[c] = NoCall
    /\ active' = [active EXCEPT ![c] = @ - 1]
    /\ Goto(t, "leaving")
    /\ UNCHANGED <<g_next_handle_id, g_handles, held, destroying, mutex, client, at>>

\* The method returned or threw: ~ClientLease runs release_client.  The call
\* still owns a shared_ptr, so resetting the handle's own never frees here.
Release(t, c) ==
    /\ pc[t] = "inside" /\ at[t] = c
    /\ mutex[c] = NoCall
    /\ active' = [active EXCEPT ![c] = IF @ > 0 THEN @ - 1 ELSE @]
    /\ held' = [held EXCEPT ![c] = @ /\ ~(destroying[c] /\ active'[c] = 0)]
    /\ Goto(t, "leaving")
    /\ UNCHANGED <<g_next_handle_id, g_handles, destroying, mutex, client, at>>

\* owned_client goes out of scope; the last owner runs ~Client.
DropOwner(t, c) ==
    /\ pc[t] = "leaving" /\ at[t] = c
    /\ IF held[c] \/ Owners(c) # {t}
       THEN GoIdle(t) /\ UNCHANGED client
       ELSE /\ Goto(t, "freeing")
            /\ client' = [client EXCEPT ![c] = "freeing"]
            /\ UNCHANGED at
    /\ UNCHANGED <<g_next_handle_id, g_handles, held, active, destroying, mutex>>

\* asternet_client_destroy, first half: the token goes, under g_handles_mutex.
Erase(t, token, c) ==
    /\ pc[t] = "idle"
    /\ <<token, c>> \in g_handles
    /\ g_handles' = g_handles \ {<<token, c>>}
    /\ Goto(t, "erased")
    /\ at' = [at EXCEPT ![t] = c]
    /\ UNCHANGED <<g_next_handle_id, held, active, destroying, mutex, client>>

\* Seeded bug: the reset is always left to a call that may not exist.
MarkDestroyingOnly(t, c) ==
    /\ pc[t] = "erased" /\ at[t] = c
    /\ mutex[c] = NoCall
    /\ destroying' = [destroying EXCEPT ![c] = TRUE]
    /\ GoIdle(t)
    /\ UNCHANGED <<g_next_handle_id, g_handles, held, active, mutex, client>>

\* asternet_client_destroy, second half, under the handle's mutex.
MarkDestroying(t, c) ==
    /\ pc[t] = "erased" /\ at[t] = c
    /\ mutex[c] = NoCall
    /\ destroying' = [destroying EXCEPT ![c] = TRUE]
    /\ held' = [held EXCEPT ![c] = @ /\ active[c] # 0]
    /\ IF held'[c] \/ Owners(c) # {}
       THEN GoIdle(t) /\ UNCHANGED <<mutex, client>>
       ELSE /\ Goto(t, "freeing_locked")
            /\ mutex' = [mutex EXCEPT ![c] = t]
            /\ client' = [client EXCEPT ![c] = "freeing"]
            /\ UNCHANGED at
    /\ UNCHANGED <<g_next_handle_id, g_handles, active>>

\* ~Client returns.
Freed(t, c) ==
    /\ pc[t] \in {"freeing", "freeing_locked"} /\ at[t] = c
    /\ client' = [client EXCEPT ![c] = "freed"]
    /\ mutex' = [mutex EXCEPT ![c] = IF pc[t] = "freeing_locked" THEN NoCall ELSE @]
    /\ GoIdle(t)
    /\ UNCHANGED <<g_next_handle_id, g_handles, held, active, destroying>>

\* What a call does once it is inside the library.
Step(t, c) ==
    \/ Acquire(t, c) \/ Refuse(t, c) \/ Release(t, c) \/ DropOwner(t, c)
    \/ MarkDestroying(t, c) \/ Freed(t, c)

Next ==
    \/ Create
    \/ CreateFails
    \/ \E t \in Calls, c \in Clients :
        \/ Step(t, c)
        \/ \E token \in 0 .. MaxPtr : Lookup(t, token, c) \/ Erase(t, token, c)

\* Every method of the Client returns (each has a timeout) and no thread is
\* descheduled for ever; the application owes the library no call.
Fairness == \A t \in Calls : WF_vars(\E c \in Clients : Step(t, c))

Spec == Init /\ [][Next]_vars
FairSpec == Spec /\ Fairness

-----------------------------------------------------------------------------
(* A method of a Client never runs on an object whose destructor has       *)
(* started: the lease of every call pins the object that                   *)
(* asternet_client_destroy wants to free.                                  *)
NoUseAfterFree ==
    \A t \in Calls : pc[t] \in {"inside", "leaving"} => client[at[t]] = "alive"

(* active_requests is exactly the number of calls between acquire_client   *)
(* and ~ClientLease, although both run without the registry's lock.        *)
LeaseAccounting ==
    \A c \in Clients : active[c] = Cardinality(Inside(c))

(* The deferred reset is never lost: a client marked by                    *)
(* asternet_client_destroy is held by its handle only while a call is      *)
(* inside, whichever of the two critical sections came last.               *)
NoLeak ==
    \A c \in Clients : destroying[c] /\ held[c] => Inside(c) # {}

(* A token the application still holds after its client was destroyed can  *)
(* never lead into another client: no two clients ever created share a     *)
(* token, up to and including the exhaustion of the id counter, and only   *)
(* the odd, non-null values are handed out.                                *)
TokensNeverReused ==
    /\ \A c, d \in {x \in Clients : client[x] # "none"} : Token(c) = Token(d) => c = d
    /\ \A p \in g_handles : p[1] = Token(p[2]) /\ p[1] % 2 = 1

(* A registered token always leads to a usable client: nothing frees or    *)
(* marks a client whose token has not been erased first.                   *)
RegisteredIsUsable ==
    \A p \in g_handles : client[p[2]] = "alive" /\ held[p[2]] /\ ~destroying[p[2]]

(* A client is freed at most once, and only after                          *)
(* asternet_client_destroy marked it: the object goes from alive to        *)
(* freeing to freed and never back.                                        *)
FreedOnceAfterDestroy ==
    [][\A c \in Clients :
        client'[c] # client[c] =>
            \/ client[c] = "none"
            \/ client[c] = "alive" /\ client'[c] = "freeing" /\ destroying'[c]
            \/ client[c] = "freeing" /\ client'[c] = "freed"]_vars

(* asternet_client_destroy always takes effect: once the token is erased,  *)
(* the client is eventually freed, whatever calls were on their way in.    *)
DestroyedIsFreed ==
    \A c \in Clients :
        (client[c] = "alive" /\ \A p \in g_handles : p[2] # c) ~> (client[c] = "freed")

-----------------------------------------------------------------------------
(* The inductive invariant: what every critical section may rely on.       *)

\* Idle calls, and only they, have no handle; ids not yet used have no state.
CallsInv ==
    /\ \A t \in Calls : pc[t] = "idle" <=> at[t] = 0
    /\ \A t \in Calls : at[t] # 0 => at[t] < g_next_handle_id
    /\ \A c \in Clients : c >= g_next_handle_id <=> client[c] = "none"
    /\ \A c \in Clients : client[c] = "none" => ~destroying[c]

\* What a registered token, or one just erased, says about its client.
RegistryInv ==
    /\ \A p \in g_handles : p[1] = Token(p[2])
    /\ RegisteredIsUsable
    /\ \A t \in Calls : pc[t] = "erased" =>
          /\ client[at[t]] = "alive" /\ held[at[t]] /\ ~destroying[at[t]]
          /\ \A p \in g_handles : p[2] # at[t]
          /\ \A u \in Calls : pc[u] = "erased" /\ at[u] = at[t] => u = t

\* A handle's shared_ptr pins the client, and only a destroyed client loses it.
HeldInv ==
    /\ \A c \in Clients : held[c] => client[c] = "alive"
    /\ \A c \in Clients : client[c] = "alive" /\ ~held[c] => destroying[c]
    /\ \A c \in Clients : destroying[c] /\ held[c] => active[c] # 0

\* One call runs ~Client, and it alone may keep the handle's mutex meanwhile.
FreeingInv ==
    /\ \A t \in Calls : pc[t] \in {"freeing", "freeing_locked"} =>
          /\ client[at[t]] = "freeing" /\ destroying[at[t]]
          /\ \A u \in Calls :
                pc[u] \in {"freeing", "freeing_locked"} /\ at[u] = at[t] => u = t
    /\ \A c \in Clients, t \in Calls :
          mutex[c] = t => pc[t] = "freeing_locked" /\ at[t] = c

IInv ==
    /\ TypeOK
    /\ CallsInv
    /\ RegistryInv
    /\ HeldInv
    /\ FreeingInv
    /\ NoUseAfterFree
    /\ LeaseAccounting

\* The life of a client as its users see it.
PhaseOf(c) ==
    CASE client[c] = "none" -> "none"
      [] client[c] = "alive" /\ ~destroying[c] -> "open"
      [] client[c] = "alive" /\ destroying[c] -> "closing"
      [] OTHER -> "closed"

phase == [c \in Clients |-> PhaseOf(c)]
users == [c \in Clients |-> Inside(c)]

Lifetime == INSTANCE ClientLifetime WITH phase <- phase, users <- users

(* The registry implements ClientLifetime: no call gets in after           *)
(* asternet_client_destroy marked the client, none is inside when the      *)
(* destructor starts, and a destroyed client never opens again.            *)
ImplementsLifetime == Lifetime!Spec
=============================================================================
