------------------------------ MODULE QuicEngine ------------------------------
(***************************************************************************)
(* engine::QuicEngine (sdk/cxx/engine/quic_engine.cpp): one HTTP/3 request *)
(* at a time, under request_mutex_, over an XQUIC engine that the request  *)
(* thread drives from an EventLoop and that answers through callbacks.     *)
(*                                                                         *)
(* XQUIC is external: while the thread is inside it, it may call back in   *)
(* any order and as often as it likes, except that it finishes no          *)
(* handshake without a good certificate, reads no request it has not       *)
(* created and delivers nothing after the end of a response.  Time is only *)
(* whether the request's timeout has passed, which may be at any moment.   *)
(***************************************************************************)
EXTENDS EventLoop

CONSTANTS WakeAfter,      \* microseconds XQUIC asks to be woken after
          MaxRequests     \* bound of the model

ASSUME QuicAssumption ==
    /\ WakeAfter \subseteq Nat /\ MaxRequests \in Nat
    /\ NoCallback \notin 0..MaxRequests

\* The members of RequestContext that are flags, h3_request as one of them,
\* and whether there is a body that is not yet sent to its end.
Flags == {"finished", "failed", "got_status", "response_fin", "body_limit_exceeded",
          "tls_failed", "cleanup_started", "waiting_writable", "h3_request", "body_pending"}

Results == {"none", "OK", "TLS", "BUFFER_TOO_SMALL", "TIMEOUT", "PROTOCOL", "CONNECT",
            "DNS", "INTERNAL"}

\* What XQUIC or the socket did to this request.
Troubles == {"bad", "too_much", "reset", "io", "refused"}
Events == {"status", "fin"} \cup Troubles

PC == {"idle",
       "connect",      \* in xqc_h3_connect
       "loop",         \* at the condition of the request's loop
       "event",        \* in poll_once, between two callbacks
       "sending",      \* in the socket's callback, in xqc_conn_continue_send
       "socket",       \* in the socket's callback, before its test of kReadable
       "receiving",    \* in the socket's callback, in packet_process or finish_recv
       "driving",      \* in the timer's callback, in xqc_engine_main_logic
       "cleanup",      \* in xqc_engine_destroy
       "destroyed"}

VARIABLES pc,
          engine,       \* engine_ is there
          generation,   \* request_generation_
          ctx,          \* flags of cur_req_, which is there unless pc is idle
          expired,      \* the request's timeout has passed
          result,       \* what request returned last
          cert,         \* what cert_verify_cb decided
          seen,         \* history: what XQUIC and the socket did to this request
          wants,        \* XQUIC has asked for a wake-up and had none since
          blocked       \* XQUIC was told that the socket is full

xquic == <<cert, seen, wants, blocked>>
vars == <<pc, engine, generation, ctx, expired, result, xquic, loopVars>>

TypeOK ==
    /\ LoopTypeOK /\ timer_cb \in 0..MaxRequests \cup {NoCallback}
    /\ pc \in PC /\ ctx \subseteq Flags /\ result \in Results
    /\ generation \in 0..MaxRequests
    /\ cert \in {"unseen", "good", "bad"} /\ seen \subseteq Events
    /\ {engine, expired, wants, blocked} \subseteq BOOLEAN

Init ==
    /\ LoopInit
    /\ pc = "idle" /\ engine = FALSE /\ generation = 0 /\ ctx = {}
    /\ expired = FALSE /\ result = "none" /\ cert = "unseen" /\ seen = {}
    /\ wants = FALSE /\ blocked = FALSE

Goto(s) == pc' = s
Whole == {"status", "fin"} \subseteq seen
InXquic == pc \in {"sending", "receiving", "driving"}

-----------------------------------------------------------------------------
\* init_engine, which does nothing when the engine is there already.
InitEngine == engine' = TRUE

\* request up to the RequestContext: init_engine, the address and the socket
\* may fail, which leaves the engine as init_engine left it.
RequestFailsEarly(error) ==
    /\ pc = "idle"
    /\ \/ ~engine /\ error = "INTERNAL" /\ UNCHANGED engine
       \/ error \in {"DNS", "INTERNAL", "CONNECT"} /\ InitEngine
    /\ result' = error
    /\ UNCHANGED <<pc, generation, ctx, expired, xquic, loopVars>>

\* XQUIC knows nothing of a request.
NoRequest == cert' = "unseen" /\ seen' = {} /\ wants' = FALSE /\ blocked' = FALSE

\* request up to xqc_h3_connect.
BeginRequest ==
    /\ pc = "idle" /\ generation < MaxRequests
    /\ InitEngine
    /\ generation' = generation + 1
    /\ ctx' = {} /\ expired' = FALSE /\ result' = "none"
    /\ Watch({"read"})
    /\ NoRequest
    /\ Goto("connect")
    /\ UNCHANGED <<timer_cb, timer_fd, ready>>

Connected ==
    /\ pc = "connect"
    /\ Goto("loop")
    /\ UNCHANGED <<engine, generation, ctx, expired, result, xquic, loopVars>>

\* The engine stays for the next request, and so does a timer it has set.
ConnectFails ==
    /\ pc = "connect"
    /\ Watch({}) /\ ctx' = {} /\ result' = "CONNECT"
    /\ Goto("idle")
    /\ UNCHANGED <<engine, generation, expired, xquic, timer_cb, timer_fd, ready>>

Expire ==
    /\ pc \notin {"idle", "cleanup", "destroyed"} /\ ~expired
    /\ expired' = TRUE
    /\ UNCHANGED <<pc, engine, generation, ctx, result, xquic, loopVars>>

-----------------------------------------------------------------------------
Ended == ctx \cap {"finished", "failed"} # {}

LoopPoll ==
    /\ pc = "loop" /\ ~Ended /\ ~expired
    /\ \E socket \in SUBSET interest : Poll(socket)
    /\ Goto("event")
    /\ UNCHANGED <<engine, generation, ctx, expired, result, xquic, interest, timer_cb, timer_fd>>

Outcome ==
    IF {"finished", "got_status", "response_fin"} \subseteq ctx /\ "failed" \notin ctx THEN "OK"
    ELSE IF "tls_failed" \in ctx THEN "TLS"
    ELSE IF "body_limit_exceeded" \in ctx THEN "BUFFER_TOO_SMALL"
    ELSE IF ~Ended THEN "TIMEOUT"
    ELSE "PROTOCOL"

Finish ==
    /\ result' = Outcome
    /\ ctx' = ctx \cup {"cleanup_started"}
    /\ engine' = FALSE
    /\ Goto("cleanup")
    /\ UNCHANGED <<generation, expired, xquic, loopVars>>

\* Seeded bug: only the answer ends the loop.
LoopEndsOnAnswer == pc = "loop" /\ Ended /\ Finish

LoopEnds == pc = "loop" /\ (Ended \/ expired) /\ Finish

\* xqc_engine_destroy has returned; it may have set the timer once more.
CleanupDone ==
    /\ pc = "cleanup"
    /\ Watch({}) /\ ctx' = {} /\ expired' = FALSE /\ NoRequest
    /\ Goto("idle")
    /\ UNCHANGED <<engine, generation, result, timer_cb, timer_fd, ready>>

Destroy ==
    /\ pc = "idle"
    /\ engine' = FALSE
    /\ Goto("destroyed")
    /\ UNCHANGED <<generation, ctx, expired, result, xquic, loopVars>>

-----------------------------------------------------------------------------
\* poll_once after epoll_wait.
BatchDone ==
    /\ pc = "event" /\ ready = {}
    /\ Goto("loop")
    /\ UNCHANGED <<engine, generation, ctx, expired, result, xquic, loopVars>>

\* The callback of set_event_timer_cb ignores the timer of another request.
TimerEvent ==
    /\ pc = "event" /\ TakeTimer
    /\ \/ timer_cb = generation /\ wants' = FALSE /\ Goto("driving")
       \/ timer_cb # generation /\ UNCHANGED <<wants, pc>>
    /\ UNCHANGED <<engine, generation, ctx, expired, result, cert, seen, blocked, interest>>

\* Seeded bug: waiting_writable is not reset.
WriteEventOnce ==
    /\ pc = "event" /\ TakeEvent("write")
    /\ Watch({"read"}) /\ blocked' = FALSE
    /\ Goto("sending")
    /\ UNCHANGED <<engine, generation, ctx, expired, result, cert, seen, wants, timer_cb, timer_fd>>

WriteEvent ==
    /\ pc = "event" /\ TakeEvent("write")
    /\ ctx' = ctx \ {"waiting_writable"}
    /\ Watch({"read"}) /\ blocked' = FALSE
    /\ Goto("sending")
    /\ UNCHANGED <<engine, generation, expired, result, cert, seen, wants, timer_cb, timer_fd>>

\* The socket or the engine gives up on the request.
Fail(trouble) == ctx' = ctx \cup {"failed"} /\ seen' = seen \cup {trouble}

SendReturns ==
    /\ pc = "sending"
    /\ \/ Goto("socket") /\ UNCHANGED <<ctx, seen, ready>>
       \/ Fail("io") /\ ready' = ready \ {"read"} /\ Goto("event")
    /\ UNCHANGED <<engine, generation, expired, result, cert, wants, blocked,
                   interest, timer_cb, timer_fd>>

\* The callback for a socket that is only readable.
SocketEvent ==
    /\ pc = "event" /\ "read" \in ready /\ "write" \notin ready
    /\ Goto("socket")
    /\ UNCHANGED <<engine, generation, ctx, expired, result, xquic, loopVars>>

\* The test of kReadable and the first recvfrom: packets, none, or an error.
ReadEvent ==
    /\ pc = "socket"
    /\ \/ "read" \in ready /\ Goto("receiving") /\ UNCHANGED <<ctx, seen>>
       \/ Goto("event") /\ UNCHANGED <<ctx, seen>>
       \/ "read" \in ready /\ Fail("io") /\ Goto("event")
    /\ ready' = ready \ {"read"}
    /\ UNCHANGED <<engine, generation, expired, result, cert, wants, blocked,
                   interest, timer_cb, timer_fd>>

\* finish_recv has returned; a later recvfrom may have failed.
ReceiveReturns ==
    /\ pc = "receiving"
    /\ Fail("io") \/ UNCHANGED <<ctx, seen>>
    /\ Goto("event")
    /\ UNCHANGED <<engine, generation, expired, result, cert, wants, blocked, loopVars>>

DriveReturns ==
    /\ pc = "driving"
    /\ Goto("event")
    /\ UNCHANGED <<engine, generation, ctx, expired, result, xquic, loopVars>>

-----------------------------------------------------------------------------
\* Callbacks of XQUIC, which return to it.
thread == <<pc, engine, generation, expired, result>>

\* Seeded bug: microseconds are truncated to milliseconds.
DelayTruncated(w) == w \div 1000

Delay(w) == IF w = 0 THEN 1 ELSE (w + 999) \div 1000

\* set_event_timer_cb also serves an engine that is being destroyed.
SetEventTimer(w) ==
    /\ InXquic \/ pc \in {"connect", "cleanup"}
    /\ ScheduleTimer(Delay(w), generation)
    /\ wants' = (wants \/ pc # "cleanup")
    /\ UNCHANGED <<thread, ctx, cert, seen, blocked, interest, ready>>

\* write_socket_cb on a full socket.
WriteSocketAgain ==
    /\ InXquic \/ pc = "connect"
    /\ blocked' = TRUE
    /\ IF "waiting_writable" \in ctx
       THEN UNCHANGED <<ctx, interest>>
       ELSE ctx' = ctx \cup {"waiting_writable"} /\ Watch({"read", "write"})
    /\ UNCHANGED <<thread, cert, seen, wants, timer_cb, timer_fd, ready>>

CertVerify ==
    /\ InXquic /\ cert = "unseen"
    /\ \/ cert' = "good" /\ UNCHANGED ctx
       \/ cert' = "bad" /\ ctx' = ctx \cup {"tls_failed"}
    /\ UNCHANGED <<thread, seen, wants, blocked, loopVars>>

\* h3_conn_handshake_finished_cb: the request is created, its headers and as
\* much as possible of its body are sent; each of these may fail.
HandshakeFinished ==
    /\ InXquic /\ cert = "good" /\ "h3_request" \notin ctx
    /\ \/ Fail("refused")
       \/ \E body \in {{}, {"body_pending"}}, failure \in {{}, {"failed"}} :
            /\ ctx' = ctx \cup {"h3_request"} \cup body \cup failure
            /\ seen' = IF failure = {} THEN seen ELSE seen \cup {"refused"}
    /\ UNCHANGED <<thread, cert, wants, blocked, loopVars>>

\* send_pending_body, when it neither ends nor fails, leaves all as it is.
WriteNotify ==
    /\ InXquic /\ {"h3_request", "body_pending"} \subseteq ctx
    /\ \/ ctx' = ctx \ {"body_pending"} /\ UNCHANGED seen
       \/ Fail("refused")
    /\ UNCHANGED <<thread, cert, wants, blocked, loopVars>>

\* complete_response_if_ready.
Completed(c) ==
    CASE "response_fin" \notin c -> c
      [] "response_fin" \in c /\ "got_status" \notin c -> c \cup {"failed"}
      [] {"response_fin", "got_status"} \subseteq c ->
            IF "failed" \in c THEN c ELSE c \cup {"finished"}

\* One part of what h3_request_read_notify_cb reads: a header with a good
\* status, the end of the response, something that cannot be read or a body
\* that is too long.
Read(c, part) ==
    CASE part = "nothing" -> c
      [] part = "status" -> c \cup {"got_status"}
      [] part = "fin" -> Completed(c \cup {"response_fin"})
      [] part = "bad" -> c \cup {"failed"}
      [] part = "too_much" -> c \cup {"failed", "body_limit_exceeded"}

\* An end without a status is as bad as something that cannot be read.
Heard(first, last) ==
    ({first, last} \ {"nothing"}) \cup
    (IF last = "fin" /\ "status" \notin seen \cup {first} THEN {"bad"} ELSE {})

ReadNotify(first, last) ==
    /\ InXquic /\ "h3_request" \in ctx /\ "fin" \notin seen
    /\ ctx' = Read(Read(ctx, first), last)
    /\ seen' = seen \cup Heard(first, last)
    /\ UNCHANGED <<thread, cert, wants, blocked, loopVars>>

\* Seeded bug: the peer's close fails a request that has its answer.
PeerClosesAnytime ==
    /\ InXquic \/ pc = "connect"
    /\ ctx' = ctx \cup {"failed"}
    /\ seen' = IF Whole THEN seen ELSE seen \cup {"reset"}
    /\ UNCHANGED <<thread, cert, wants, blocked, loopVars>>

\* h3_conn_close_notify_cb and h3_request_closing_notify_cb.
PeerCloses ==
    /\ InXquic \/ pc = "connect"
    /\ ctx' = IF "finished" \in ctx THEN ctx ELSE ctx \cup {"failed"}
    /\ seen' = IF Whole THEN seen ELSE seen \cup {"reset"}
    /\ UNCHANGED <<thread, cert, wants, blocked, loopVars>>

\* h3_request_close_notify_cb, with or without an error of the stream.
CloseNotify(stream_err) ==
    /\ InXquic /\ "h3_request" \in ctx
    /\ ctx' = IF stream_err \/ ~({"response_fin", "got_status"} \subseteq ctx)
              THEN ctx \cup {"failed"} ELSE Completed(ctx)
    /\ seen' = IF stream_err \/ ~Whole THEN seen \cup {"reset"} ELSE seen
    /\ UNCHANGED <<thread, cert, wants, blocked, loopVars>>

Callback ==
    \/ \E w \in WakeAfter : SetEventTimer(w)
    \/ WriteSocketAgain
    \/ CertVerify \/ HandshakeFinished \/ WriteNotify
    \/ \E first \in {"nothing", "status"}, last \in {"nothing", "fin", "bad", "too_much"} :
          ReadNotify(first, last)
    \/ PeerCloses
    \/ \E stream_err \in BOOLEAN : CloseNotify(stream_err)

TimerFires ==
    /\ TimerExpires
    /\ UNCHANGED <<thread, ctx, xquic>>

-----------------------------------------------------------------------------
\* What the thread does of itself.
Thread ==
    \/ Connected \/ ConnectFails
    \/ LoopPoll \/ LoopEnds \/ CleanupDone
    \/ BatchDone \/ TimerEvent \/ WriteEvent \/ SocketEvent \/ ReadEvent
    \/ SendReturns \/ ReceiveReturns \/ DriveReturns

Next ==
    \/ \E error \in {"DNS", "INTERNAL", "CONNECT"} : RequestFailsEarly(error)
    \/ BeginRequest \/ Destroy
    \/ Thread
    \/ Callback
    \/ Expire \/ TimerFires

Spec == Init /\ [][Next]_vars

\* The thread runs, XQUIC returns from its functions, and time passes.
FairSpec == Spec /\ WF_vars(Thread) /\ WF_vars(Expire)

-----------------------------------------------------------------------------
(* The wake-up XQUIC has asked for is never lost as long as its request    *)
(* lasts: the timer of this very request is running, has expired or is in *)
(* the batch, whatever an earlier request left behind and however short    *)
(* the delay was.                                                          *)
NoLostTimer ==
    /\ TypeOK
    /\ wants /\ pc \notin {"idle", "destroyed"} =>
        timer_cb = generation /\ (timer_fd # "off" \/ "timer" \in ready)

(* Once XQUIC was told that the socket is full, the loop watches for the   *)
(* socket to become writable until it has told XQUIC to go on.             *)
NoStuckSend == blocked /\ pc \notin {"idle", "destroyed"} => "write" \in interest

(* The result is earned: OK exactly when the whole response has arrived    *)
(* and nothing went wrong, though the time be up or the peer gone by then; *)
(* a bad certificate is reported as such and no timeout before its time.   *)
OutcomeIsEarned ==
    pc = "cleanup" =>
        /\ result = "OK" <=> Whole /\ seen \cap Troubles = {}
        /\ result = "OK" => cert = "good"
        /\ cert = "bad" => result = "TLS"
        /\ result = "TIMEOUT" => expired

(* Every request that was begun returns, whatever XQUIC does or leaves     *)
(* undone: it needs neither packets nor timers.                            *)
RequestReturns == pc = "connect" ~> pc = "idle"
=============================================================================
