---------------------------- MODULE ClientLifetime ----------------------------
(***************************************************************************)
(* What the C ABI promises about the life of a client, without handles,    *)
(* tokens, reference counts or locks: a client opens, calls enter and      *)
(* leave it, it is closed once, and its destructor starts only when it is  *)
(* closed and no call is inside it.  HandleRegistry implements this.       *)
(***************************************************************************)
CONSTANTS Clients,   \* the client objects that may ever be constructed
          Calls      \* the activities that may be executing an ABI function

VARIABLES phase,     \* phase[c]: where client c is in its life
          users      \* users[c]: the calls executing a method of client c

vars == <<phase, users>>

Phase == {"none", "open", "closing", "closed"}

TypeOK ==
    /\ phase \in [Clients -> Phase]
    /\ users \in [Clients -> SUBSET Calls]

Init ==
    /\ phase = [c \in Clients |-> "none"]
    /\ users = [c \in Clients |-> {}]

\* Creation either succeeds or constructs an object it immediately destructs.
Open(c) ==
    /\ phase[c] = "none"
    /\ \E p \in {"open", "closed"} : phase' = [phase EXCEPT ![c] = p]
    /\ UNCHANGED users

Enter(c, t) ==
    /\ phase[c] = "open"
    /\ t \notin users[c]
    /\ users' = [users EXCEPT ![c] = @ \cup {t}]
    /\ UNCHANGED phase

Leave(c, t) ==
    /\ t \in users[c]
    /\ users' = [users EXCEPT ![c] = @ \ {t}]
    /\ UNCHANGED phase

Close(c) ==
    /\ phase[c] = "open"
    /\ phase' = [phase EXCEPT ![c] = "closing"]
    /\ UNCHANGED users

\* The destructor starts; closing an unused client may do so in the same step.
Destruct(c) ==
    /\ phase[c] \in {"open", "closing"}
    /\ users[c] = {}
    /\ phase' = [phase EXCEPT ![c] = "closed"]
    /\ UNCHANGED users

Next ==
    \E c \in Clients :
        \/ Open(c)
        \/ Close(c)
        \/ Destruct(c)
        \/ \E t \in Calls : Enter(c, t) \/ Leave(c, t)

Spec == Init /\ [][Next]_vars
=============================================================================
