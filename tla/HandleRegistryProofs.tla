------------------------- MODULE HandleRegistryProofs -------------------------
(***************************************************************************)
(* For every set of concurrent calls and every pointer width, a client is  *)
(* never used after its destructor started, is freed at most once, and no  *)
(* stale token leads into another client.                                  *)
(***************************************************************************)
EXTENDS HandleRegistry, FiniteSetTheorems, TLAPS

(* A remainder by a larger modulus is the number itself.                   *)
LEMMA SmallMod ==
    ASSUME NEW m \in Nat, NEW x \in 0 .. m
    PROVE  x % (m + 1) = x
  BY SMT

(* asternet_client_create's guard on the id counter keeps the shift that   *)
(* forms the token from overflowing, so that every token is 2 * id + 1.    *)
LEMMA TokenValue ==
    ASSUME NEW c \in Clients
    PROVE  /\ Token(c) = 2 * c + 1
           /\ Token(c) \in 0 .. MaxPtr
  <1>1. 2 * c + 1 \in 0 .. MaxPtr
    BY MaxPtrAssumption, SMT DEF Clients
  <1>2. QED
    BY <1>1, SmallMod, MaxPtrAssumption DEF Token

USE CallsAssumption, MaxPtrAssumption

(* The set counted by active_requests is finite.                           *)
LEMMA InsideFinite ==
    ASSUME NEW c
    PROVE  IsFiniteSet(Inside(c)) /\ Cardinality(Inside(c)) \in Nat
  BY FS_Subset, FS_CardinalityType DEF Inside

(* Before the first asternet_client_create every part holds.               *)
LEMMA InitInv == Init => IInv
  <1> SUFFICES ASSUME Init PROVE IInv
    OBVIOUS
  <1>1. TypeOK
    BY DEF Init, TypeOK, PC
  <1>2. CallsInv /\ RegistryInv /\ HeldInv /\ FreeingInv /\ NoUseAfterFree
    BY DEF Init, CallsInv, RegistryInv, RegisteredIsUsable, HeldInv, FreeingInv,
           NoUseAfterFree, Clients
  <1>3. LeaseAccounting
    <2>1. \A c \in Clients : Inside(c) = {}
      BY DEF Init, Inside
    <2>2. QED
      BY <2>1, FS_EmptySet DEF Init, LeaseAccounting
  <1>4. QED
    BY <1>1, <1>2, <1>3 DEF IInv

(* asternet_client_create uses an id no handle, token or call refers to.   *)
LEMMA CreateInv ==
    ASSUME IInv, Create
    PROVE  IInv'
  <1> DEFINE n == g_next_handle_id
  <1>a. /\ n \in Clients
        /\ n + 1 \in 1 .. (MaxPtr \div 2) + 1
        /\ Token(n) \in 0 .. MaxPtr
    <2>1. n \in Clients /\ n + 1 \in 1 .. (MaxPtr \div 2) + 1
      BY DEF IInv, TypeOK, Create, Clients
    <2>2. QED
      BY <2>1, TokenValue
  <1>b. client[n] = "none" /\ ~destroying[n]
    BY <1>a DEF IInv, TypeOK, CallsInv, Clients
  <1>c. \A u \in Calls : at[u] # n
    <2>1. n # 0 /\ ~(n < n)
      BY <1>a DEF Clients
    <2>2. QED
      BY <2>1 DEF IInv, CallsInv
  <1> HIDE DEF n
  <1>d. /\ g_next_handle_id' = n + 1
        /\ g_handles' = g_handles \cup {<<Token(n), n>>}
        /\ held' = [held EXCEPT ![n] = TRUE]
        /\ client' = [client EXCEPT ![n] = "alive"]
        /\ UNCHANGED <<active, destroying, mutex, pc, at>>
    BY DEF Create, n
  <1>1. TypeOK'
    BY <1>a, <1>d DEF IInv, TypeOK, PC
  <1>2. CallsInv'
    BY <1>1 DEF IInv, TypeOK, CallsInv, Create, Clients
  <1>3. RegistryInv'
    <2>1. (\A p \in g_handles : p[1] = Token(p[2]))'
      BY <1>a, <1>d DEF IInv, RegistryInv
    <2>2. RegisteredIsUsable'
      BY <1>a, <1>b, <1>d DEF IInv, TypeOK, RegistryInv, RegisteredIsUsable
    <2>3. ASSUME NEW t \in Calls, pc[t] = "erased"
          PROVE  /\ at[t] \in Clients
                 /\ client'[at[t]] = "alive" /\ held'[at[t]] /\ ~destroying[at[t]]
                 /\ \A p \in g_handles' : p[2] # at[t]
                 /\ \A u \in Calls : pc[u] = "erased" /\ at[u] = at[t] => u = t
      <3>1. at[t] \in Clients /\ at[t] # n
        BY <2>3, <1>c DEF IInv, TypeOK, CallsInv
      <3>2. QED
        BY <2>3, <3>1, <1>a, <1>d DEF IInv, TypeOK, RegistryInv
    <2>4. QED
      BY <2>1, <2>2, <2>3, <1>d DEF RegistryInv
  <1>4. HeldInv'
    BY <1>a, <1>b, <1>d DEF IInv, TypeOK, HeldInv
  <1>5. FreeingInv'
    BY <1>b, <1>c, <1>d DEF IInv, TypeOK, FreeingInv
  <1>6. NoUseAfterFree'
    BY <1>c, <1>d DEF IInv, TypeOK, NoUseAfterFree
  <1>7. LeaseAccounting'
    BY <1>d DEF IInv, LeaseAccounting, Inside
  <1>8. QED
    BY <1>1, <1>2, <1>3, <1>4, <1>5, <1>6, <1>7 DEF IInv

(* A creation that fails spends its id and leaves no other trace.          *)
LEMMA CreateFailsInv ==
    ASSUME IInv, CreateFails
    PROVE  IInv'
  <1> DEFINE n == g_next_handle_id
  <1>a. n \in Clients /\ n + 1 \in 1 .. (MaxPtr \div 2) + 1
    BY DEF IInv, TypeOK, CreateFails, Clients
  <1>b. client[n] = "none" /\ ~destroying[n]
    BY <1>a DEF IInv, TypeOK, CallsInv, Clients
  <1>c. \A u \in Calls : at[u] # n
    <2>1. n # 0 /\ ~(n < n)
      BY <1>a DEF Clients
    <2>2. QED
      BY <2>1 DEF IInv, CallsInv
  <1> HIDE DEF n
  <1>d. /\ g_next_handle_id' = n + 1
        /\ client' = [client EXCEPT ![n] = "freed"]
        /\ UNCHANGED <<g_handles, held, active, destroying, mutex, pc, at>>
    BY DEF CreateFails, n
  <1>1. TypeOK'
    BY <1>a, <1>d DEF IInv, TypeOK, PC
  <1>2. CallsInv'
    BY <1>1 DEF IInv, TypeOK, CallsInv, CreateFails, Clients
  <1>3. RegistryInv'
    <2>1. RegisteredIsUsable'
      BY <1>a, <1>b, <1>d DEF IInv, TypeOK, RegistryInv, RegisteredIsUsable
    <2>2. \A t \in Calls : pc[t] = "erased" => client'[at[t]] = "alive"
      BY <1>a, <1>b, <1>c, <1>d DEF IInv, TypeOK, CallsInv, RegistryInv
    <2>3. QED
      BY <2>1, <2>2, <1>d DEF IInv, RegistryInv
  <1>4. HeldInv'
    BY <1>a, <1>b, <1>d DEF IInv, TypeOK, HeldInv
  <1>5. FreeingInv'
    BY <1>b, <1>c, <1>d DEF IInv, TypeOK, FreeingInv
  <1>6. NoUseAfterFree'
    BY <1>c, <1>d DEF IInv, TypeOK, NoUseAfterFree
  <1>7. LeaseAccounting'
    BY <1>d DEF IInv, LeaseAccounting, Inside
  <1>8. QED
    BY <1>1, <1>2, <1>3, <1>4, <1>5, <1>6, <1>7 DEF IInv

(* Copying a registered handle changes nothing a critical section reads.   *)
LEMMA LookupInv ==
    ASSUME IInv, NEW t \in Calls, NEW c \in Clients, NEW k \in 0 .. MaxPtr,
           Lookup(t, k, c)
    PROVE  IInv'
  <1>a. c # 0 /\ c < g_next_handle_id /\ client[c] = "alive"
    <2>1. client[c] = "alive"
      BY DEF IInv, RegistryInv, RegisteredIsUsable, Lookup
    <2>2. QED
      BY <2>1 DEF IInv, TypeOK, CallsInv, Clients
  <1>1. TypeOK'
    BY DEF IInv, TypeOK, Lookup, Goto, PC
  <1>2. CallsInv'
    BY <1>a DEF IInv, TypeOK, CallsInv, Lookup, Goto
  <1>3. RegistryInv'
    BY <1>1 DEF IInv, TypeOK, CallsInv, RegistryInv, RegisteredIsUsable, Lookup, Goto
  <1>4. HeldInv'
    BY DEF IInv, HeldInv, Lookup
  <1>5. FreeingInv'
    BY <1>1 DEF IInv, TypeOK, FreeingInv, Lookup, Goto
  <1>6. NoUseAfterFree'
    BY <1>1 DEF IInv, TypeOK, NoUseAfterFree, Lookup, Goto
  <1>7. LeaseAccounting'
    BY <1>1 DEF IInv, TypeOK, LeaseAccounting, Inside, Lookup, Goto
  <1>8. QED
    BY <1>1, <1>2, <1>3, <1>4, <1>5, <1>6, <1>7 DEF IInv

(* A call that gets in finds the client alive and is counted once.         *)
LEMMA AcquireInv ==
    ASSUME IInv, NEW t \in Calls, NEW c \in Clients, Acquire(t, c)
    PROVE  IInv'
  <1>1. TypeOK'
    BY DEF IInv, TypeOK, Acquire, Goto, PC
  <1>2. CallsInv'
    BY <1>1 DEF IInv, TypeOK, CallsInv, Acquire, Goto
  <1>3. RegistryInv'
    BY <1>1 DEF IInv, TypeOK, RegistryInv, RegisteredIsUsable, Acquire, Goto
  <1>4. HeldInv'
    BY <1>1 DEF IInv, TypeOK, HeldInv, Acquire, Goto
  <1>5. FreeingInv'
    BY <1>1 DEF IInv, TypeOK, FreeingInv, Acquire, Goto
  <1>6. NoUseAfterFree'
    BY <1>1 DEF IInv, TypeOK, HeldInv, NoUseAfterFree, Acquire, Goto
  <1>7. LeaseAccounting'
    <2>1. t \notin Inside(c) /\ Inside(c)' = Inside(c) \cup {t}
      BY DEF IInv, TypeOK, Inside, Acquire, Goto
    <2>2. Cardinality(Inside(c)') = Cardinality(Inside(c)) + 1
      BY <2>1, InsideFinite, FS_AddElement
    <2>3. \A d \in Clients : d # c => Inside(d)' = Inside(d) /\ active'[d] = active[d]
      BY DEF IInv, TypeOK, Inside, Acquire, Goto
    <2>4. active'[c] = active[c] + 1
      BY DEF IInv, TypeOK, Acquire
    <2>5. QED
      BY <2>2, <2>3, <2>4 DEF IInv, LeaseAccounting
  <1>8. QED
    BY <1>1, <1>2, <1>3, <1>4, <1>5, <1>6, <1>7 DEF IInv

(* A call that is refused was never counted.                               *)
LEMMA RefuseInv ==
    ASSUME IInv, NEW t \in Calls, NEW c \in Clients, Refuse(t, c)
    PROVE  IInv'
  <1>1. TypeOK'
    BY DEF IInv, TypeOK, Refuse, Goto, GoIdle, PC
  <1>2. CallsInv'
    BY <1>1 DEF IInv, TypeOK, CallsInv, Refuse, Goto, GoIdle
  <1>3. RegistryInv'
    BY <1>1 DEF IInv, TypeOK, RegistryInv, RegisteredIsUsable, Refuse, Goto, GoIdle
  <1>4. HeldInv'
    BY DEF IInv, HeldInv, Refuse
  <1>5. FreeingInv'
    BY <1>1 DEF IInv, TypeOK, FreeingInv, Refuse, Goto, GoIdle
  <1>6. NoUseAfterFree'
    BY <1>1 DEF IInv, TypeOK, NoUseAfterFree, Refuse, Goto, GoIdle
  <1>7. LeaseAccounting'
    BY <1>1 DEF IInv, TypeOK, LeaseAccounting, Inside, Refuse, Goto, GoIdle
  <1>8. QED
    BY <1>1, <1>2, <1>3, <1>4, <1>5, <1>6, <1>7 DEF IInv

(* The call that counts itself out last takes a destroyed handle's pointer. *)
LEMMA ReleaseInv ==
    ASSUME IInv, NEW t \in Calls, NEW c \in Clients, Release(t, c)
    PROVE  IInv'
  <1>a. t \in Inside(c) /\ active[c] > 0
    <2>1. t \in Inside(c) /\ active[c] = Cardinality(Inside(c)) /\ active[c] \in Nat
      BY DEF IInv, TypeOK, LeaseAccounting, Inside, Release
    <2>2. Cardinality(Inside(c)) # 0
      BY <2>1, InsideFinite, FS_EmptySet
    <2>3. QED
      BY <2>1, <2>2
  <1>b. client[c] = "alive" /\ at[t] = c /\ pc[t] = "inside"
    BY DEF IInv, NoUseAfterFree, Release
  <1>c. /\ active' = [active EXCEPT ![c] = active[c] - 1]
        /\ active'[c] = active[c] - 1
        /\ \A d \in Clients : d # c => active'[d] = active[d]
    BY <1>a DEF IInv, TypeOK, Release
  <1>d. /\ held' \in [Clients -> BOOLEAN]
        /\ \A d \in Clients : d # c => held'[d] = held[d]
        /\ held'[c] => held[c] /\ ~(destroying[c] /\ active'[c] = 0)
        /\ ~destroying[c] => held'[c] = held[c]
    BY DEF IInv, TypeOK, Release
  <1>1. TypeOK'
    BY <1>a, <1>c, <1>d DEF IInv, TypeOK, Release, Goto, PC
  <1>2. CallsInv'
    BY <1>1 DEF IInv, TypeOK, CallsInv, Release, Goto
  <1>3. RegistryInv'
    <2>1. \A d \in Clients : ~destroying[d] => held'[d] = held[d]
      BY <1>d
    <2>2. RegisteredIsUsable'
      BY <2>1 DEF IInv, TypeOK, RegistryInv, RegisteredIsUsable, Release
    <2>3. QED
      BY <1>1, <2>1, <2>2 DEF IInv, TypeOK, CallsInv, RegistryInv, Release, Goto
  <1>4. HeldInv'
    <2>1. \A d \in Clients : held'[d] => client'[d] = "alive"
      BY <1>d DEF IInv, HeldInv, Release
    <2>2. \A d \in Clients : client'[d] = "alive" /\ ~held'[d] => destroying'[d]
      BY <1>d DEF IInv, HeldInv, Release
    <2>3. \A d \in Clients : destroying'[d] /\ held'[d] => active'[d] # 0
      BY <1>c, <1>d DEF IInv, HeldInv, Release
    <2>4. QED
      BY <2>1, <2>2, <2>3 DEF HeldInv
  <1>5. FreeingInv'
    BY <1>1 DEF IInv, TypeOK, FreeingInv, Release, Goto
  <1>6. NoUseAfterFree'
    BY <1>1 DEF IInv, TypeOK, NoUseAfterFree, Release, Goto
  <1>7. LeaseAccounting'
    <2>1. Inside(c)' = Inside(c) \ {t}
      BY DEF IInv, TypeOK, Inside, Release, Goto
    <2>2. Cardinality(Inside(c)') = Cardinality(Inside(c)) - 1
      BY <2>1, <1>a, InsideFinite, FS_RemoveElement
    <2>3. \A d \in Clients : d # c => Inside(d)' = Inside(d)
      BY DEF IInv, TypeOK, Inside, Release, Goto
    <2>4. QED
      BY <2>2, <2>3, <1>c DEF IInv, LeaseAccounting
  <1>8. QED
    BY <1>1, <1>2, <1>3, <1>4, <1>5, <1>6, <1>7 DEF IInv

(* The last owner frees a client nobody is in, and only a destroyed one.   *)
LEMMA DropOwnerInv ==
    ASSUME IInv, NEW t \in Calls, NEW c \in Clients, DropOwner(t, c)
    PROVE  IInv'
  <1>a. client[c] = "alive" /\ at[t] = c /\ pc[t] = "leaving" /\ c # 0
    BY DEF IInv, NoUseAfterFree, DropOwner, Clients
  <1>b. c < g_next_handle_id
    BY <1>a DEF IInv, TypeOK, CallsInv, Clients
  <1>1. CASE held[c] \/ Owners(c) # {t}
    <2>a. /\ pc' = [pc EXCEPT ![t] = "idle"]
          /\ at' = [at EXCEPT ![t] = 0]
          /\ UNCHANGED <<g_next_handle_id, g_handles, held, active, destroying,
                         mutex, client>>
      BY <1>1 DEF DropOwner, GoIdle, Goto
    <2>1. TypeOK'
      BY <2>a DEF IInv, TypeOK, PC
    <2>2. CallsInv'
      BY <2>a DEF IInv, TypeOK, CallsInv
    <2>3. RegistryInv'
      BY <2>a DEF IInv, TypeOK, RegistryInv, RegisteredIsUsable
    <2>4. HeldInv'
      BY <2>a DEF IInv, HeldInv
    <2>5. FreeingInv'
      BY <2>a, <1>a DEF IInv, TypeOK, FreeingInv
    <2>6. NoUseAfterFree'
      BY <2>a DEF IInv, TypeOK, NoUseAfterFree
    <2>7. LeaseAccounting'
      BY <2>a, <1>a DEF IInv, TypeOK, LeaseAccounting, Inside
    <2>8. QED
      BY <2>1, <2>2, <2>3, <2>4, <2>5, <2>6, <2>7 DEF IInv
  <1>2. CASE ~held[c] /\ Owners(c) = {t}
    <2>a. /\ pc' = [pc EXCEPT ![t] = "freeing"]
          /\ client' = [client EXCEPT ![c] = "freeing"]
          /\ UNCHANGED <<g_next_handle_id, g_handles, held, active, destroying,
                         mutex, at>>
      BY <1>2 DEF DropOwner, Goto
    <2>b. destroying[c]
      BY <1>2, <1>a DEF IInv, HeldInv
    <2>1. TypeOK'
      BY <2>a DEF IInv, TypeOK, PC
    <2>2. CallsInv'
      BY <2>a, <1>a, <1>b DEF IInv, TypeOK, CallsInv
    <2>3. RegistryInv'
      <3>1. RegisteredIsUsable'
        BY <2>a, <2>b DEF IInv, TypeOK, RegistryInv, RegisteredIsUsable
      <3>2. ASSUME NEW u \in Calls, pc'[u] = "erased"
            PROVE  pc[u] = "erased" /\ at[u] # c /\ client'[at[u]] = "alive"
        BY <3>2, <2>a, <2>b DEF IInv, TypeOK, RegistryInv
      <3>3. QED
        BY <3>1, <3>2, <2>a DEF IInv, RegistryInv
    <2>4. HeldInv'
      BY <2>a, <1>2 DEF IInv, TypeOK, HeldInv
    <2>5. FreeingInv'
      BY <2>a, <2>b, <1>a DEF IInv, TypeOK, FreeingInv
    <2>6. NoUseAfterFree'
      BY <2>a, <1>2 DEF IInv, TypeOK, NoUseAfterFree, Owners
    <2>7. LeaseAccounting'
      BY <2>a, <1>a DEF IInv, TypeOK, LeaseAccounting, Inside
    <2>8. QED
      BY <2>1, <2>2, <2>3, <2>4, <2>5, <2>6, <2>7 DEF IInv
  <1>3. QED
    BY <1>1, <1>2

(* Only one asternet_client_destroy takes a token out of the registry.     *)
LEMMA EraseInv ==
    ASSUME IInv, NEW t \in Calls, NEW c \in Clients, NEW k \in 0 .. MaxPtr,
           Erase(t, k, c)
    PROVE  IInv'
  <1>a. c # 0 /\ client[c] = "alive" /\ held[c] /\ ~destroying[c]
    BY DEF IInv, RegistryInv, RegisteredIsUsable, Erase, Clients
  <1>b. c < g_next_handle_id
    BY <1>a DEF IInv, TypeOK, CallsInv, Clients
  <1>c. \A p \in g_handles : p[2] = c => p = <<k, c>>
    BY DEF IInv, TypeOK, RegistryInv, Erase
  <1>1. TypeOK'
    BY DEF IInv, TypeOK, Erase, Goto, PC
  <1>2. CallsInv'
    BY <1>a, <1>b DEF IInv, TypeOK, CallsInv, Erase, Goto
  <1>3. RegistryInv'
    <2>1. RegisteredIsUsable' /\ (\A p \in g_handles : p[1] = Token(p[2]))'
      BY DEF IInv, RegistryInv, RegisteredIsUsable, Erase
    <2>2. \A u \in Calls : pc[u] = "erased" => at[u] # c
      BY DEF IInv, RegistryInv, Erase
    <2>3. QED
      BY <2>1, <2>2, <1>a, <1>c DEF IInv, TypeOK, RegistryInv, Erase, Goto
  <1>4. HeldInv'
    BY DEF IInv, HeldInv, Erase
  <1>5. FreeingInv'
    BY <1>1 DEF IInv, TypeOK, FreeingInv, Erase, Goto
  <1>6. NoUseAfterFree'
    BY <1>1 DEF IInv, TypeOK, NoUseAfterFree, Erase, Goto
  <1>7. LeaseAccounting'
    BY <1>1 DEF IInv, TypeOK, LeaseAccounting, Inside, Erase, Goto
  <1>8. QED
    BY <1>1, <1>2, <1>3, <1>4, <1>5, <1>6, <1>7 DEF IInv

(* asternet_client_destroy defers the reset to the calls still inside.     *)
LEMMA MarkDestroyingInv ==
    ASSUME IInv, NEW t \in Calls, NEW c \in Clients, MarkDestroying(t, c)
    PROVE  IInv'
  <1>a. /\ at[t] = c /\ pc[t] = "erased" /\ c # 0
        /\ client[c] = "alive" /\ held[c] /\ ~destroying[c]
        /\ \A p \in g_handles : p[2] # c
        /\ \A u \in Calls : pc[u] = "erased" /\ at[u] = c => u = t
    BY DEF IInv, RegistryInv, MarkDestroying, Clients
  <1>b. c < g_next_handle_id
    BY <1>a DEF IInv, TypeOK, CallsInv, Clients
  <1>c. \A u \in Calls : pc[u] \in {"freeing", "freeing_locked"} => at[u] # c
    BY <1>a DEF IInv, FreeingInv
  <1>d. /\ destroying' = [destroying EXCEPT ![c] = TRUE]
        /\ held' = [held EXCEPT ![c] = active[c] # 0]
        /\ UNCHANGED <<g_next_handle_id, g_handles, active>>
    BY <1>a DEF IInv, TypeOK, MarkDestroying
  <1>1. CASE held'[c] \/ Owners(c) # {}
    <2>a. /\ pc' = [pc EXCEPT ![t] = "idle"]
          /\ at' = [at EXCEPT ![t] = 0]
          /\ UNCHANGED <<mutex, client>>
      BY <1>1 DEF MarkDestroying, GoIdle, Goto
    <2>1. TypeOK'
      BY <2>a, <1>d DEF IInv, TypeOK, PC
    <2>2. CallsInv'
      BY <2>a, <1>a, <1>d DEF IInv, TypeOK, CallsInv
    <2>3. RegistryInv'
      <3>1. RegisteredIsUsable'
        BY <2>a, <1>a, <1>d DEF IInv, TypeOK, RegistryInv, RegisteredIsUsable
      <3>2. ASSUME NEW u \in Calls, pc'[u] = "erased"
            PROVE  pc[u] = "erased" /\ at'[u] = at[u] /\ at[u] # c
        BY <3>2, <2>a, <1>a DEF IInv, TypeOK
      <3>3. QED
        BY <3>1, <3>2, <2>a, <1>d DEF IInv, TypeOK, CallsInv, RegistryInv
    <2>4. HeldInv'
      BY <2>a, <1>a, <1>d DEF IInv, TypeOK, HeldInv
    <2>5. FreeingInv'
      BY <2>a, <1>a, <1>d DEF IInv, TypeOK, FreeingInv
    <2>6. NoUseAfterFree'
      BY <2>a DEF IInv, TypeOK, NoUseAfterFree
    <2>7. LeaseAccounting'
      BY <2>a, <1>a, <1>d DEF IInv, TypeOK, LeaseAccounting, Inside
    <2>8. QED
      BY <2>1, <2>2, <2>3, <2>4, <2>5, <2>6, <2>7 DEF IInv
  <1>2. CASE ~held'[c] /\ Owners(c) = {}
    <2>a. /\ pc' = [pc EXCEPT ![t] = "freeing_locked"]
          /\ mutex' = [mutex EXCEPT ![c] = t]
          /\ client' = [client EXCEPT ![c] = "freeing"]
          /\ UNCHANGED at
      BY <1>2 DEF MarkDestroying, Goto
    <2>1. TypeOK'
      BY <2>a, <1>d DEF IInv, TypeOK, PC
    <2>2. CallsInv'
      BY <2>a, <1>a, <1>b, <1>d DEF IInv, TypeOK, CallsInv
    <2>3. RegistryInv'
      <3>1. RegisteredIsUsable'
        BY <2>a, <1>a, <1>d DEF IInv, TypeOK, RegistryInv, RegisteredIsUsable
      <3>2. ASSUME NEW u \in Calls, pc'[u] = "erased"
            PROVE  pc[u] = "erased" /\ at'[u] = at[u] /\ at[u] # c
        BY <3>2, <2>a, <1>a DEF IInv, TypeOK
      <3>3. QED
        BY <3>1, <3>2, <2>a, <1>d DEF IInv, TypeOK, CallsInv, RegistryInv
    <2>4. HeldInv'
      BY <2>a, <1>2, <1>a, <1>d DEF IInv, TypeOK, HeldInv
    <2>5. FreeingInv'
      BY <2>a, <1>a, <1>c, <1>d DEF IInv, TypeOK, FreeingInv
    <2>6. NoUseAfterFree'
      BY <2>a, <1>2 DEF IInv, TypeOK, NoUseAfterFree, Owners
    <2>7. LeaseAccounting'
      BY <2>a, <1>a, <1>d DEF IInv, TypeOK, LeaseAccounting, Inside
    <2>8. QED
      BY <2>1, <2>2, <2>3, <2>4, <2>5, <2>6, <2>7 DEF IInv
  <1>3. QED
    BY <1>1, <1>2

(* ~Client ends with the one call that ran it.                             *)
LEMMA FreedInv ==
    ASSUME IInv, NEW t \in Calls, NEW c \in Clients, Freed(t, c)
    PROVE  IInv'
  <1>a. /\ at[t] = c /\ pc[t] \in {"freeing", "freeing_locked"} /\ c # 0
        /\ client[c] = "freeing"
        /\ \A u \in Calls :
              pc[u] \in {"freeing", "freeing_locked"} /\ at[u] = c => u = t
    BY DEF IInv, FreeingInv, Freed, Clients
  <1>b. c < g_next_handle_id
    BY <1>a DEF IInv, TypeOK, CallsInv, Clients
  <1>c. /\ client' = [client EXCEPT ![c] = "freed"]
        /\ pc' = [pc EXCEPT ![t] = "idle"]
        /\ at' = [at EXCEPT ![t] = 0]
        /\ UNCHANGED <<g_next_handle_id, g_handles, held, active, destroying>>
    BY DEF Freed, GoIdle, Goto
  <1>d. /\ mutex' \in [Clients -> Calls \cup {NoCall}]
        /\ \A d \in Clients : mutex'[d] = mutex[d] \/ mutex'[d] = NoCall
        /\ \A d \in Clients : mutex'[d] # t
    <2>1. CASE pc[t] = "freeing_locked"
      BY <2>1, <1>a DEF IInv, TypeOK, FreeingInv, Freed
    <2>2. CASE pc[t] = "freeing"
      BY <2>2, <1>a DEF IInv, TypeOK, FreeingInv, Freed
    <2>3. QED
      BY <2>1, <2>2, <1>a
  <1>1. TypeOK'
    BY <1>c, <1>d DEF IInv, TypeOK, PC
  <1>2. CallsInv'
    BY <1>a, <1>b, <1>c DEF IInv, TypeOK, CallsInv
  <1>3. RegistryInv'
    <2>1. RegisteredIsUsable'
      BY <1>a, <1>c DEF IInv, TypeOK, RegistryInv, RegisteredIsUsable
    <2>2. ASSUME NEW u \in Calls, pc'[u] = "erased"
          PROVE  pc[u] = "erased" /\ at'[u] = at[u] /\ client'[at[u]] = "alive"
      BY <2>2, <1>a, <1>c DEF IInv, TypeOK, CallsInv, RegistryInv
    <2>3. QED
      BY <2>1, <2>2, <1>c DEF IInv, TypeOK, RegistryInv
  <1>4. HeldInv'
    BY <1>a, <1>c DEF IInv, TypeOK, HeldInv
  <1>5. FreeingInv'
    BY <1>a, <1>c, <1>d DEF IInv, TypeOK, FreeingInv
  <1>6. NoUseAfterFree'
    BY <1>a, <1>c DEF IInv, TypeOK, NoUseAfterFree
  <1>7. LeaseAccounting'
    BY <1>a, <1>c DEF IInv, TypeOK, LeaseAccounting, Inside
  <1>8. QED
    BY <1>1, <1>2, <1>3, <1>4, <1>5, <1>6, <1>7 DEF IInv

(* A step that changes nothing preserves what every critical section       *)
(* relies on.                                                              *)
LEMMA StutterInv == IInv /\ UNCHANGED vars => IInv'
  BY DEF vars, IInv, TypeOK, CallsInv, RegistryInv, RegisteredIsUsable, HeldInv,
         FreeingInv, NoUseAfterFree, LeaseAccounting, Inside

(* Every critical section of abi.cpp, by whichever call, preserves what    *)
(* all of them rely on.                                                    *)
LEMMA NextInv == IInv /\ [Next]_vars => IInv'
  <1> SUFFICES ASSUME IInv, Next PROVE IInv'
    BY StutterInv
  <1>1. CASE Create
    BY <1>1, CreateInv
  <1>2. CASE CreateFails
    BY <1>2, CreateFailsInv
  <1>3. ASSUME NEW t \in Calls, NEW c \in Clients, Step(t, c)
        PROVE  IInv'
    BY <1>3, AcquireInv, RefuseInv, ReleaseInv, DropOwnerInv, MarkDestroyingInv,
       FreedInv DEF Step
  <1>4. ASSUME NEW t \in Calls, NEW c \in Clients, NEW k \in 0 .. MaxPtr,
               Lookup(t, k, c) \/ Erase(t, k, c)
        PROVE  IInv'
    BY <1>4, LookupInv, EraseInv
  <1>5. QED
    BY <1>1, <1>2, <1>3, <1>4 DEF Next

(* IInv holds in every reachable state of the registry.                    *)
THEOREM Inductive == Spec => []IInv
  BY InitInv, NextInv, PTL DEF Spec

(* The variables of the ABI always have the values their types allow.      *)
THEOREM TypeCorrect == Spec => []TypeOK
  BY Inductive, PTL DEF IInv

(* acquire_client's lease keeps ~Client from starting while a method runs. *)
THEOREM NoUseAfterFreeHolds == Spec => []NoUseAfterFree
  BY Inductive, PTL DEF IInv

(* acquire_client and release_client count every call exactly once.        *)
THEOREM LeaseAccountingHolds == Spec => []LeaseAccounting
  BY Inductive, PTL DEF IInv

(* asternet_client_destroy and the last release_client never both leave    *)
(* the reset of the handle's shared_ptr to the other.                      *)
THEOREM NoLeakHolds == Spec => []NoLeak
  <1>1. IInv => NoLeak
    <2> SUFFICES ASSUME IInv, NEW c \in Clients, destroying[c], held[c]
                 PROVE  Inside(c) # {}
      BY DEF NoLeak
    <2>1. Cardinality(Inside(c)) # 0
      BY DEF IInv, HeldInv, LeaseAccounting
    <2>2. QED
      BY <2>1, FS_EmptySet
  <1>2. QED
    BY <1>1, Inductive, PTL

(* No two handles asternet_client_create ever returns are equal.           *)
THEOREM TokensNeverReusedHolds == Spec => []TokensNeverReused
  <1>1. IInv => TokensNeverReused
    <2> SUFFICES ASSUME IInv PROVE TokensNeverReused
      OBVIOUS
    <2>1. \A c, d \in Clients : Token(c) = Token(d) => c = d
      BY TokenValue DEF Clients
    <2>2. ASSUME NEW p \in g_handles PROVE p[1] = Token(p[2]) /\ p[1] % 2 = 1
      <3>1. p[2] \in Clients /\ p[1] = Token(p[2])
        BY DEF IInv, TypeOK, RegistryInv
      <3>2. p[1] = 2 * p[2] + 1
        BY <3>1, TokenValue
      <3>3. QED
        BY <3>1, <3>2 DEF Clients
    <2>3. QED
      BY <2>1, <2>2 DEF TokensNeverReused
  <1>2. QED
    BY <1>1, Inductive, PTL

(* A token found in g_handles leads to a client that can be used.          *)
THEOREM RegisteredIsUsableHolds == Spec => []RegisteredIsUsable
  <1>1. IInv => RegisteredIsUsable
    BY DEF IInv, RegistryInv
  <1>2. QED
    BY <1>1, Inductive, PTL

(* No call runs ~Client a second time, or before asternet_client_destroy.  *)
THEOREM FreedOnceAfterDestroyHolds == Spec => FreedOnceAfterDestroy
  <1> DEFINE Advances(c) ==
        client'[c] # client[c] =>
            \/ client[c] = "none"
            \/ client[c] = "alive" /\ client'[c] = "freeing" /\ destroying'[c]
            \/ client[c] = "freeing" /\ client'[c] = "freed"
  <1>1. ASSUME IInv, Next, NEW d \in Clients PROVE Advances(d)
    <2>1. CASE Create \/ CreateFails
      <3>1. \A c \in Clients : client'[c] # client[c] => c = g_next_handle_id
        BY <2>1, <1>1 DEF IInv, TypeOK, Create, CreateFails
      <3>2. g_next_handle_id \in Clients => client[g_next_handle_id] = "none"
        BY <1>1 DEF IInv, CallsInv, Clients
      <3>3. QED
        BY <3>1, <3>2
    <2>2. ASSUME NEW t \in Calls, NEW c \in Clients,
                 Acquire(t, c) \/ Refuse(t, c) \/ Release(t, c)
                    \/ \E k \in 0 .. MaxPtr : Lookup(t, k, c) \/ Erase(t, k, c)
          PROVE  Advances(d)
      BY <2>2 DEF Acquire, Refuse, Release, Lookup, Erase
    <2>3. ASSUME NEW t \in Calls, NEW c \in Clients, DropOwner(t, c)
          PROVE  Advances(d)
      BY <2>3, <1>1 DEF IInv, TypeOK, HeldInv, NoUseAfterFree, DropOwner
    <2>4. ASSUME NEW t \in Calls, NEW c \in Clients, MarkDestroying(t, c)
          PROVE  Advances(d)
      BY <2>4, <1>1 DEF IInv, TypeOK, RegistryInv, MarkDestroying
    <2>5. ASSUME NEW t \in Calls, NEW c \in Clients, Freed(t, c)
          PROVE  Advances(d)
      BY <2>5, <1>1 DEF IInv, TypeOK, FreeingInv, Freed
    <2>6. QED
      BY <2>1, <2>2, <2>3, <2>4, <2>5, <1>1 DEF Next, Step
  <1>2. IInv /\ [Next]_vars => [\A c \in Clients : Advances(c)]_vars
    BY <1>1
  <1>3. QED
    BY <1>2, Inductive, PTL DEF Spec, FreedOnceAfterDestroy

-----------------------------------------------------------------------------
(* The refinement of ClientLifetime.                                       *)

(* A step that neither moves a client on in its life nor lets a call in or *)
(* out is invisible to the users of the ABI.                               *)
LEMMA Invisible ==
    ASSUME UNCHANGED <<client, destroying>>,
           \A c \in Clients : Inside(c)' = Inside(c)
    PROVE  phase' = phase /\ users' = users
  BY DEF phase, users, PhaseOf

(* A step that moves one client on and lets no call in or out.             *)
LEMMA Moves ==
    ASSUME NEW c \in Clients,
           \A d \in Clients \ {c} : client'[d] = client[d] /\ destroying'[d] = destroying[d],
           \A d \in Clients : Inside(d)' = Inside(d)
    PROVE  phase' = [phase EXCEPT ![c] = PhaseOf(c)'] /\ users' = users
  <1>1. users' = users
    BY DEF users
  <1>2. \A d \in Clients \ {c} : PhaseOf(d)' = PhaseOf(d)
    BY DEF PhaseOf
  <1>3. QED
    BY <1>1, <1>2 DEF phase

(* What the users of the ABI see of every critical section: a client opens, *)
(* a call enters or leaves it, it closes, it is destructed, or nothing.    *)
LEMMA StepRefines == IInv /\ [Next]_vars => [Lifetime!Next]_(Lifetime!vars)
  <1> SUFFICES ASSUME IInv, [Next]_vars
               PROVE  Lifetime!Next \/ (phase' = phase /\ users' = users)
    BY DEF Lifetime!vars
  <1> USE DEF Lifetime!Next
  <1>1. CASE UNCHANGED vars
    BY <1>1, Invisible DEF vars, Inside
  <1>2. CASE Create \/ CreateFails
    <2>0. PICK n \in Clients : n = g_next_handle_id
      BY <1>2 DEF IInv, TypeOK, Create, CreateFails, Clients
    <2>1. client[n] = "none" /\ ~destroying[n]
      BY <2>0 DEF IInv, CallsInv, Clients
    <2>2. /\ \A d \in Clients \ {n} : client'[d] = client[d] /\ destroying'[d] = destroying[d]
          /\ \A d \in Clients : Inside(d)' = Inside(d)
      BY <1>2, <2>0 DEF IInv, TypeOK, Create, CreateFails, Inside
    <2>3. PhaseOf(n)' \in {"open", "closed"}
      <3>1. client'[n] \in {"alive", "freed"} /\ ~destroying'[n]
        BY <1>2, <2>0, <2>1 DEF IInv, TypeOK, Create, CreateFails
      <3>2. QED
        BY <3>1 DEF PhaseOf
    <2>4. phase[n] = "none"
      BY <2>1 DEF phase, PhaseOf
    <2>5. Lifetime!Open(n)
      <3>1. phase' = [phase EXCEPT ![n] = PhaseOf(n)'] /\ users' = users
        BY <2>2, Moves
      <3>2. QED
        BY <3>1, <2>3, <2>4 DEF Lifetime!Open
    <2>6. QED
      BY <2>5
  <1>3. ASSUME NEW t \in Calls, NEW c \in Clients, Acquire(t, c)
        PROVE  Lifetime!Next
    <2>1. phase[c] = "open" /\ phase' = phase
      BY <1>3 DEF IInv, HeldInv, Acquire, phase, PhaseOf
    <2>2. t \notin users[c] /\ users' = [users EXCEPT ![c] = @ \cup {t}]
      <3>1. t \notin Inside(c) /\ Inside(c)' = Inside(c) \cup {t}
        BY <1>3 DEF IInv, TypeOK, Acquire, Goto, Inside
      <3>2. \A d \in Clients : d # c => Inside(d)' = Inside(d)
        BY <1>3 DEF IInv, TypeOK, Acquire, Goto, Inside
      <3>3. QED
        BY <3>1, <3>2 DEF users
    <2>3. QED
      BY <2>1, <2>2 DEF Lifetime!Enter
  <1>4. ASSUME NEW t \in Calls, NEW c \in Clients, Release(t, c)
        PROVE  Lifetime!Next
    <2>1. phase' = phase
      BY <1>4 DEF Release, phase, PhaseOf
    <2>2. t \in users[c] /\ users' = [users EXCEPT ![c] = @ \ {t}]
      <3>1. t \in Inside(c) /\ Inside(c)' = Inside(c) \ {t}
        BY <1>4 DEF IInv, TypeOK, Release, Goto, Inside
      <3>2. \A d \in Clients : d # c => Inside(d)' = Inside(d)
        BY <1>4 DEF IInv, TypeOK, Release, Goto, Inside
      <3>3. QED
        BY <3>1, <3>2 DEF users
    <2>3. QED
      BY <2>1, <2>2 DEF Lifetime!Leave
  <1>5. ASSUME NEW t \in Calls, NEW c \in Clients,
               \/ Refuse(t, c)
               \/ \E k \in 0 .. MaxPtr : Lookup(t, k, c) \/ Erase(t, k, c)
        PROVE  phase' = phase /\ users' = users
    <2>1. UNCHANGED <<client, destroying>>
      BY <1>5 DEF Refuse, Lookup, Erase
    <2>2. \A d \in Clients : Inside(d)' = Inside(d)
      BY <1>5 DEF IInv, TypeOK, Refuse, Lookup, Erase, Goto, GoIdle, Inside
    <2>3. QED
      BY <2>1, <2>2, Invisible
  <1>6. ASSUME NEW t \in Calls, NEW c \in Clients, DropOwner(t, c)
        PROVE  Lifetime!Next \/ (phase' = phase /\ users' = users)
    <2>1. \A d \in Clients : Inside(d)' = Inside(d)
      BY <1>6 DEF IInv, TypeOK, DropOwner, Goto, GoIdle, Inside
    <2>2. CASE held[c] \/ Owners(c) # {t}
      BY <2>1, <2>2, <1>6, Invisible DEF DropOwner
    <2>3. CASE ~held[c] /\ Owners(c) = {t}
      <3>1. client[c] = "alive" /\ destroying[c] /\ pc[t] = "leaving"
        BY <1>6, <2>3 DEF IInv, HeldInv, NoUseAfterFree, DropOwner
      <3>2. client' = [client EXCEPT ![c] = "freeing"] /\ UNCHANGED destroying
        BY <1>6, <2>3 DEF DropOwner
      <3>3. phase[c] = "closing" /\ PhaseOf(c)' = "closed"
        BY <3>1, <3>2 DEF IInv, TypeOK, phase, PhaseOf
      <3>4. phase' = [phase EXCEPT ![c] = "closed"] /\ users' = users
        BY <2>1, <3>2, <3>3, Moves DEF IInv, TypeOK
      <3>5. users[c] = {}
        BY <2>3, <3>1 DEF users, Inside, Owners
      <3>6. QED
        BY <3>3, <3>4, <3>5 DEF Lifetime!Destruct
    <2>4. QED
      BY <2>2, <2>3
  <1>7. ASSUME NEW t \in Calls, NEW c \in Clients, MarkDestroying(t, c)
        PROVE  Lifetime!Next
    <2>1. \A d \in Clients : Inside(d)' = Inside(d)
      BY <1>7 DEF IInv, TypeOK, MarkDestroying, Goto, GoIdle, Inside
    <2>2. client[c] = "alive" /\ ~destroying[c] /\ phase[c] = "open"
      BY <1>7 DEF IInv, RegistryInv, MarkDestroying, phase, PhaseOf
    <2>3. destroying' = [destroying EXCEPT ![c] = TRUE]
      BY <1>7 DEF MarkDestroying
    <2>4. CASE UNCHANGED client
      <3>1. PhaseOf(c)' = "closing"
        BY <2>2, <2>3, <2>4 DEF IInv, TypeOK, PhaseOf
      <3>2. phase' = [phase EXCEPT ![c] = "closing"] /\ users' = users
        BY <2>1, <2>3, <2>4, <3>1, Moves DEF IInv, TypeOK
      <3>3. QED
        BY <2>2, <3>2 DEF Lifetime!Close
    <2>5. CASE Owners(c) = {} /\ client' = [client EXCEPT ![c] = "freeing"]
      <3>1. PhaseOf(c)' = "closed"
        BY <2>5 DEF IInv, TypeOK, PhaseOf
      <3>2. phase' = [phase EXCEPT ![c] = "closed"] /\ users' = users
        BY <2>1, <2>3, <2>5, <3>1, Moves DEF IInv, TypeOK
      <3>3. users[c] = {}
        BY <2>5 DEF users, Inside, Owners
      <3>4. QED
        BY <2>2, <3>2, <3>3 DEF Lifetime!Destruct
    <2>6. QED
      BY <1>7, <2>4, <2>5 DEF MarkDestroying
  <1>8. ASSUME NEW t \in Calls, NEW c \in Clients, Freed(t, c)
        PROVE  phase' = phase /\ users' = users
    <2>1. \A d \in Clients : Inside(d)' = Inside(d)
      BY <1>8 DEF IInv, TypeOK, Freed, Goto, GoIdle, Inside
    <2>2. client[c] = "freeing" /\ client' = [client EXCEPT ![c] = "freed"]
          /\ UNCHANGED destroying
      BY <1>8 DEF IInv, FreeingInv, Freed
    <2>3. /\ phase[c] = "closed" /\ PhaseOf(c)' = "closed"
          /\ phase' = [phase EXCEPT ![c] = PhaseOf(c)'] /\ users' = users
      BY <2>1, <2>2, Moves DEF IInv, TypeOK, phase, PhaseOf
    <2>4. QED
      BY <2>3 DEF phase
  <1>9. QED
    BY <1>1, <1>2, <1>3, <1>4, <1>5, <1>6, <1>7, <1>8 DEF Next, Step

(* The registry implements ClientLifetime: no call gets in after           *)
(* asternet_client_destroy marked the client and none is inside when       *)
(* ~Client starts.                                                         *)
THEOREM Refinement == Spec => ImplementsLifetime
  <1>1. Init => Lifetime!Init
    <2> SUFFICES ASSUME Init PROVE Lifetime!Init
      OBVIOUS
    <2>1. phase = [c \in Clients |-> "none"]
      BY DEF Init, phase, PhaseOf
    <2>2. users = [c \in Clients |-> {}]
      BY DEF Init, users, Inside
    <2>3. QED
      BY <2>1, <2>2 DEF Lifetime!Init
  <1>2. QED
    BY <1>1, StepRefines, Inductive, PTL DEF Spec, ImplementsLifetime, Lifetime!Spec

=============================================================================
