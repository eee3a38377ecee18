--------------------------- MODULE ProtocolSelector ---------------------------
(***************************************************************************)
(* engine::ProtocolSelector (sdk/cxx/engine/protocol_selector.cpp): the    *)
(* fallback chain HTTP/3 -> HTTP/2 -> HTTP/1.1 of one request, and the     *)
(* circuit breaker per host and protocol that all requests share.          *)
(*                                                                         *)
(* Requests run concurrently.  is_available, record_failure and            *)
(* record_success are each one critical section of states_mutex_; the      *)
(* engine is called with no lock.  A "host" stands for state_host_key:     *)
(* host, port and network epoch.  Time is abstracted to what it decides:   *)
(* the cooldown of an open circuit elapses, the time of a request runs out.*)
(* The errors of an engine are "CONNECT" for the retryable ones and "TLS"  *)
(* for the others.                                                         *)
(***************************************************************************)
EXTENDS Integers, Sequences, FiniteSets

CONSTANTS Requests,     \* requests that may be under way at the same time
          Hosts,        \* values of state_host_key
          Policies,     \* protocol policies the requests use
          Built,        \* the engines that are not null
          MaxFailures,  \* max_failures_
          MaxStates     \* max_states_

Engines == {"H3", "H2", "H1"}

Chain(policy) ==
    CASE policy \in {"AUTO", "PREFER_HTTP_3"} -> <<"H3", "H2", "H1">>
      [] policy = "PREFER_HTTP_2"  -> <<"H2", "H1">>
      [] policy = "HTTP_3_ONLY"    -> <<"H3">>
      [] policy = "HTTP_2_ONLY"    -> <<"H2">>
      [] policy = "HTTP_1_1_ONLY"  -> <<"H1">>

\* allow_fallback and respect_circuit are both false for the ONLY policies.
Only(policy) == policy \in {"HTTP_3_ONLY", "HTTP_2_ONLY", "HTTP_1_1_ONLY"}

AllPolicies == {"AUTO", "PREFER_HTTP_3", "PREFER_HTTP_2",
                "HTTP_3_ONLY", "HTTP_2_ONLY", "HTTP_1_1_ONLY"}

SelectorAssumption ==
    /\ Hosts # {} /\ Policies # {} /\ Policies \subseteq AllPolicies
    /\ Built \subseteq Engines
    /\ MaxFailures \in Nat \ {0}
    /\ MaxStates \in Nat \ {0}

Keys == Hosts \X Engines
Errors == {"UNSUPPORTED", "DEGRADED", "TIMEOUT", "CONNECT", "TLS"}
Retryable(error) == error # "TLS"

VARIABLES known,     \* keys with a State in states_
          failures,  \* failures[k]: State::failures, up to MaxFailures, 0 if unknown
          ban,       \* ban[k]: banned_until_ms is 0 ("none"), ahead, or past
          run,       \* run[r]: the local variables of request r
          streak     \* history: failures[k] without the resets by a cooldown or
                     \* an eviction: failures since the last success

vars == <<known, failures, ban, run, streak>>

Runs == [stage : {"new", "choosing", "calling", "done"},
         host : Hosts, policy : Policies, retry_safe : BOOLEAN,
         rest : Seq(Engines),
         called : SUBSET Engines,
         degraded : BOOLEAN,
         last_error : Errors,
         err_code : Errors \cup {"OK"},
         protocol : Engines \cup {"UNKNOWN"}]

TypeOK ==
    /\ known \in SUBSET Keys
    /\ failures \in [Keys -> 0 .. MaxFailures]
    /\ ban \in [Keys -> {"none", "ahead", "past"}]
    /\ run \in [Requests -> Runs]
    /\ streak \in [Keys -> 0 .. MaxFailures]

NewRun(host, policy, retry_safe, err_code) ==
    [stage |-> "choosing", host |-> host, policy |-> policy, retry_safe |-> retry_safe,
     rest |-> Chain(policy), called |-> {}, degraded |-> FALSE,
     last_error |-> "UNSUPPORTED", err_code |-> err_code, protocol |-> "UNKNOWN"]

Init ==
    /\ known = {}
    /\ failures = [k \in Keys |-> 0]
    /\ ban = [k \in Keys |-> "none"]
    /\ run = [r \in Requests |-> [NewRun(CHOOSE h \in Hosts : TRUE, CHOOSE p \in Policies : TRUE,
                                         FALSE, "OK") EXCEPT !.stage = "new", !.rest = <<>>]]
    /\ streak = [k \in Keys |-> 0]

Capped(n) == IF n < MaxFailures THEN n + 1 ELSE MaxFailures

-----------------------------------------------------------------------------
\* request_with_policy is entered.  A second address of the same request
\* passes on the response of the first, which failed to connect.
Begin(r, host, policy, retry_safe, err_code) ==
    /\ run[r].stage \in {"new", "done"}
    /\ err_code = "OK" \/ (err_code = "CONNECT" /\ retry_safe)
    /\ run' = [run EXCEPT ![r] = NewRun(host, policy, retry_safe, err_code)]
    /\ UNCHANGED <<known, failures, ban, streak>>

Choosing(r) == run[r].stage = "choosing" /\ run[r].rest # <<>>
Engine(r) == Head(run[r].rest)
Key(r) == <<run[r].host, Engine(r)>>
RestAfter(r, go_on) == IF go_on THEN Tail(run[r].rest) ELSE <<>>

SkipNotBuilt(r) ==
    /\ Choosing(r) /\ Engine(r) \notin Built
    /\ run' = [run EXCEPT ![r].last_error = "UNSUPPORTED",
                          ![r].rest = RestAfter(r, ~Only(run[r].policy))]
    /\ UNCHANGED <<known, failures, ban, streak>>

\* is_available is false: banned, and the cooldown is not over.
SkipOpenCircuit(r) ==
    /\ Choosing(r) /\ Engine(r) \in Built
    /\ ~Only(run[r].policy) /\ ban[Key(r)] = "ahead"
    /\ run' = [run EXCEPT ![r].last_error = "DEGRADED", ![r].degraded = TRUE,
                          ![r].rest = Tail(@)]
    /\ UNCHANGED <<known, failures, ban, streak>>

\* is_available is true, or not asked; an elapsed ban is lifted by asking.
Offered(r) ==
    /\ Choosing(r) /\ Engine(r) \in Built
    /\ IF Only(run[r].policy) \/ ban[Key(r)] = "none"
       THEN UNCHANGED <<failures, ban>>
       ELSE /\ ban[Key(r)] = "past"
            /\ ban' = [ban EXCEPT ![Key(r)] = "none"]
            /\ failures' = [failures EXCEPT ![Key(r)] = 0]

Call(r) ==
    /\ Offered(r)
    /\ run' = [run EXCEPT ![r].stage = "calling", ![r].called = @ \cup {Engine(r)}]
    /\ UNCHANGED <<known, streak>>

\* remaining_ms <= 0
OutOfTime(r) ==
    /\ Offered(r)
    /\ run' = [run EXCEPT ![r].last_error = "TIMEOUT", ![r].rest = <<>>]
    /\ UNCHANGED <<known, streak>>

\* Seeded bug: the success of a request that began before the circuit opened
\* resets its failures and not its ban.
SucceedKeepingBan(r) ==
    /\ run[r].stage = "calling"
    /\ failures' = [failures EXCEPT ![Key(r)] = 0]
    /\ streak' = [streak EXCEPT ![Key(r)] = 0]
    /\ run' = [run EXCEPT ![r].stage = "done", ![r].err_code = "OK",
                          ![r].protocol = Engine(r), ![r].rest = <<>>]
    /\ UNCHANGED <<known, ban>>

\* The engine answers; record_success; return.
Succeed(r) ==
    /\ run[r].stage = "calling"
    /\ failures' = [failures EXCEPT ![Key(r)] = 0]
    /\ ban' = [ban EXCEPT ![Key(r)] = "none"]
    /\ streak' = [streak EXCEPT ![Key(r)] = 0]
    /\ run' = [run EXCEPT ![r].stage = "done", ![r].err_code = "OK",
                          ![r].protocol = Engine(r), ![r].rest = <<>>]
    /\ UNCHANGED known

\* record_failure; a new key in a full states_ takes the place of victim, the
\* first in the order of the hash table, whatever its state is.
RecordFailure(k, victim) ==
    LET evict == k \notin known /\ Cardinality(known) >= MaxStates
        n == Capped(failures[k]) IN
    /\ IF evict THEN victim \in known ELSE victim = k
    /\ known' = (IF evict THEN known \ {victim} ELSE known) \cup {k}
    /\ failures' = [key \in Keys |-> IF key = k THEN n
                                     ELSE IF key = victim THEN 0 ELSE failures[key]]
    /\ ban' = [key \in Keys |-> IF key = k THEN IF n >= MaxFailures THEN "ahead" ELSE ban[k]
                                ELSE IF key = victim THEN "none" ELSE ban[key]]

\* Seeded bug: whether the request may be repeated is not asked.
FailRetryableAlways(r, victim) ==
    /\ run[r].stage = "calling"
    /\ RecordFailure(Key(r), victim)
    /\ streak' = [streak EXCEPT ![Key(r)] = Capped(@)]
    /\ LET go_on == ~Only(run[r].policy) IN
        run' = [run EXCEPT ![r].stage = "choosing", ![r].last_error = "CONNECT",
                           ![r].err_code = "CONNECT",
                           ![r].degraded = @ \/ go_on,
                           ![r].rest = RestAfter(r, go_on)]

\* The engine fails with an error that another protocol may not have.
FailRetryable(r, victim) ==
    /\ run[r].stage = "calling"
    /\ RecordFailure(Key(r), victim)
    /\ streak' = [streak EXCEPT ![Key(r)] = Capped(@)]
    /\ LET go_on == ~Only(run[r].policy) /\ run[r].retry_safe IN
        run' = [run EXCEPT ![r].stage = "choosing", ![r].last_error = "CONNECT",
                           ![r].err_code = "CONNECT",
                           ![r].degraded = @ \/ go_on,
                           ![r].rest = RestAfter(r, go_on)]

FailForGood(r) ==
    /\ run[r].stage = "calling"
    /\ run' = [run EXCEPT ![r].stage = "choosing", ![r].last_error = "TLS",
                          ![r].err_code = "TLS", ![r].rest = <<>>]
    /\ UNCHANGED <<known, failures, ban, streak>>

\* The loop ended without an answer.
GiveUp(r) ==
    /\ run[r].stage = "choosing" /\ run[r].rest = <<>>
    /\ run' = [run EXCEPT ![r].stage = "done",
                          ![r].err_code = IF @ = "OK" THEN run[r].last_error ELSE @]
    /\ UNCHANGED <<known, failures, ban, streak>>

CooldownElapses(k) ==
    /\ ban[k] = "ahead"
    /\ ban' = [ban EXCEPT ![k] = "past"]
    /\ UNCHANGED <<known, failures, run, streak>>

Next ==
    \/ \E r \in Requests :
        \/ \E h \in Hosts, p \in Policies, s \in BOOLEAN, e \in {"OK", "CONNECT"} :
              Begin(r, h, p, s, e)
        \/ SkipNotBuilt(r) \/ SkipOpenCircuit(r)
        \/ Call(r) \/ OutOfTime(r)
        \/ Succeed(r) \/ FailForGood(r)
        \/ \E victim \in Keys : FailRetryable(r, victim)
        \/ GiveUp(r)
    \/ \E k \in Keys : CooldownElapses(k)

Spec == Init /\ [][Next]_vars

-----------------------------------------------------------------------------
Failed(r) == run[r].stage = "done" /\ run[r].err_code # "OK"

BoundedStates == Cardinality(known) <= MaxStates

(* A circuit is open exactly when its failure count is at the limit, and   *)
(* only for a protocol that failed max_failures_ times since it last       *)
(* answered, however requests started before or after interleave with it:  *)
(* a protocol that works is never cut off by failures from before.  The    *)
(* table that remembers them never outgrows max_states_.                   *)
OpensOnConsecutiveFailures ==
    /\ TypeOK /\ BoundedStates
    /\ \A k \in Keys :
        /\ ban[k] # "none" <=> failures[k] = MaxFailures
        /\ failures[k] <= streak[k]

(* A request that is not safe to repeat reaches at most one engine, so a   *)
(* write that a server may have accepted is never sent again.              *)
NoDuplicateWrite ==
    \A r \in Requests : ~run[r].retry_safe => Cardinality(run[r].called) <= 1

(* protocol_selector.h:8: 确保可用性底线（最终总能走 HTTP/1.1）.  A request   *)
(* that may fall back, still has time and got no protocol to answer has in *)
(* the end tried HTTP/1.1.                                                 *)
HTTP11IsTheFloor ==
    \A r \in Requests :
        Failed(r) /\ run[r].retry_safe /\ ~Only(run[r].policy) /\ "H1" \in Built
        /\ run[r].last_error \notin {"TIMEOUT", "TLS"}
            => "H1" \in run[r].called
=============================================================================
