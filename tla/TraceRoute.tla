------------------------------ MODULE TraceRoute ------------------------------
(***************************************************************************)
(* trace_route (sdk/cxx/sdt/traceroute.cpp): UDP probes with a growing TTL *)
(* on one socket, and the ICMP errors they cause, which the kernel queues  *)
(* for that socket.                                                        *)
(*                                                                         *)
(* The network is external.  The way to the target is Distance hops long   *)
(* and does not change; a probe causes at most one error, which comes at   *)
(* any time later, in any order, or never.  A router says that the probe's *)
(* time is exceeded or the target unreachable, or something the code does  *)
(* not use; the target says that its port is.  Addresses are distances, 0  *)
(* for none, and a round-trip time is whether there was an answer.  The    *)
(* JSON text of the result is left out.                                    *)
(***************************************************************************)
EXTENDS Integers, Sequences, FiniteSets

CONSTANTS Distance,       \* hops to the target
          MaxHops,        \* config.max_hops
          ProbesPerHop    \* config.probes_per_hop

TraceAssumption == Distance \in Nat \ {0} /\ {MaxHops, ProbesPerHop} \subseteq Nat

Kinds == {"exceeded", "port", "unreachable", "other"}
Errors == [from : 1..Distance, kind : Kinds, probe : 1..MaxHops * ProbesPerHop]
Hops == [ttl : 1..MaxHops, addr : 0..Distance, answers : Seq(BOOLEAN), loss : 0..ProbesPerHop,
         reached : BOOLEAN]

VARIABLES at,         \* where trace_route_impl is
          ttl,
          hop,        \* the TracerouteHop being filled
          hops,       \* result.hops
          reached, done,
          status,     \* result.status
          sent,       \* probes sent so far
          flight,     \* errors under way
          queue       \* the socket's error queue

vars == <<at, ttl, hop, hops, reached, done, status, sent, flight, queue>>
network == <<sent, flight, queue>>

NewHop(t) == [ttl |-> t, addr |-> 0, answers |-> <<>>, loss |-> 0, reached |-> FALSE]

TypeOK ==
    /\ at \in {"start", "hop", "probe", "wait", "end"}
    /\ ttl \in 1..MaxHops + 1 /\ hop \in Hops \cup {NewHop(1)} /\ hops \in Seq(Hops)
    /\ {reached, done} \subseteq BOOLEAN
    /\ status \in {"none", "reached", "completed", "error"}
    /\ sent \in 0..MaxHops * ProbesPerHop
    /\ flight \subseteq Errors /\ queue \in Seq(Errors)

Init ==
    /\ at = "start" /\ ttl = 1 /\ hop = NewHop(1) /\ hops = <<>>
    /\ reached = FALSE /\ done = FALSE /\ status = "none"
    /\ sent = 0 /\ flight = {} /\ queue = <<>>

-----------------------------------------------------------------------------
\* The arguments, the address, the socket, IP_RECVERR and connect.
Start ==
    /\ at = "start"
    /\ \/ at' = "hop" /\ UNCHANGED status
       \/ at' = "end" /\ status' = "error"
    /\ UNCHANGED <<ttl, hop, hops, reached, done, network>>

\* The next TTL.
StartHop ==
    /\ at = "hop" /\ ttl <= MaxHops /\ ~reached /\ ~done
    /\ hop' = NewHop(ttl) /\ at' = "probe"
    /\ UNCHANGED <<ttl, hops, reached, done, status, network>>

\* The end of the loop over TTLs, or IP_TTL that cannot be set.
Finish ==
    /\ at = "hop"
    /\ status' = IF reached THEN "reached" ELSE "completed"
    /\ at' = "end"
    /\ UNCHANGED <<ttl, hop, hops, reached, done, network>>

MoreProbes == Len(hop.answers) < ProbesPerHop /\ ~reached /\ ~done

EndHop ==
    /\ at = "probe" /\ ~MoreProbes
    /\ hops' = Append(hops, hop) /\ ttl' = ttl + 1 /\ at' = "hop"
    /\ UNCHANGED <<hop, reached, done, status, network>>

\* The probe is out and meets an error, or not.
Errs(error) ==
    flight' = IF error = "none" THEN flight
              ELSE flight \cup {[from |-> IF ttl < Distance THEN ttl ELSE Distance,
                                 kind |-> error, probe |-> sent + 1]}
Send(error) ==
    /\ at = "probe" /\ MoreProbes
    /\ error = "port" => ttl >= Distance
    /\ error = "exceeded" => ttl < Distance
    /\ Errs(error)
    /\ sent' = sent + 1 /\ at' = "wait"
    /\ UNCHANGED <<ttl, hop, hops, reached, done, status, queue>>

Lost(h) == [h EXCEPT !.answers = Append(@, FALSE), !.loss = @ + 1]

SendFails ==
    /\ at = "probe" /\ MoreProbes
    /\ hop' = Lost(hop)
    /\ UNCHANGED <<at, ttl, hops, reached, done, status, network>>

\* send says that there is no route.
NoRoute ==
    /\ at = "probe" /\ MoreProbes
    /\ hops' = Append(hops, Lost(hop)) /\ hop' = Lost(hop)
    /\ status' = "error" /\ at' = "end"
    /\ UNCHANGED <<ttl, reached, done, network>>

\* Seeded bug: any word that the target cannot be reached counts as its own.
IsReachedByAny(e) == e.kind \in {"port", "unreachable"}

IsReached(e) == e.kind = "port"

\* recvmsg takes the oldest error, whatever probe it is about.
Receive ==
    /\ at = "wait" /\ queue # <<>>
    /\ LET e == Head(queue) IN
        IF e.kind = "other" THEN UNCHANGED <<at, hop, reached, done>>
        ELSE /\ hop' = [hop EXCEPT !.answers = Append(@, TRUE),
                                   !.addr = IF @ = 0 THEN e.from ELSE @,
                                   !.reached = @ \/ IsReached(e)]
             /\ reached' = (reached \/ IsReached(e))
             /\ done' = (done \/ e.kind # "exceeded")
             /\ at' = "probe"
    /\ queue' = Tail(queue)
    /\ UNCHANGED <<ttl, hops, status, sent, flight>>

\* The probe's deadline, or an error of poll or recvmsg.
GiveUp ==
    /\ at = "wait"
    /\ hop' = Lost(hop) /\ at' = "probe"
    /\ UNCHANGED <<ttl, hops, reached, done, status, network>>

\* The kernel gets an error (external).
Arrive(e) ==
    /\ at # "end" /\ e \in flight
    /\ flight' = flight \ {e} /\ queue' = Append(queue, e)
    /\ UNCHANGED <<at, ttl, hop, hops, reached, done, status, sent>>

Next ==
    \/ Start \/ StartHop \/ Finish \/ EndHop
    \/ \E error \in Kinds \cup {"none"} : Send(error)
    \/ SendFails \/ NoRoute \/ Receive \/ GiveUp
    \/ \E e \in flight : Arrive(e)

Spec == Init /\ [][Next]_vars

-----------------------------------------------------------------------------
Lasts(i) == i = Len(hops)
TtlOf(h) == IF h.ttl < Distance THEN h.ttl ELSE Distance

(* However late and in whatever order errors come, the trace claims no     *)
(* more than it has seen: a trace that ends as reached does so by its last *)
(* hop, and no hop whose TTL is too small for the target is said to have   *)
(* reached it; no address is from beyond its hop's TTL; and only the last  *)
(* hop may lack probes.                                                    *)
TraceIsSound ==
    /\ TypeOK
    /\ status = "reached" => hops[Len(hops)].reached
    /\ \A i \in 1..Len(hops) :
        /\ hops[i].ttl = i /\ hops[i].addr <= TtlOf(hops[i])
        /\ hops[i].reached => Lasts(i) /\ i >= Distance /\ status \in {"none", "reached"}
        /\ Lasts(i) \/ Len(hops[i].answers) = ProbesPerHop
        /\ hops[i].loss = Cardinality({j \in 1..Len(hops[i].answers) : ~hops[i].answers[j]})

(* traceroute.h:29 says of addr that it is the IP of this hop.             *)
AddrIsOfItsHop == \A i \in 1..Len(hops) : hops[i].addr \in {0, TtlOf(hops[i])}
=============================================================================
