--------------------------- MODULE QuicEngineProofs ---------------------------
(***************************************************************************)
(* For every number of requests and every order in which XQUIC calls back: *)
(* no wake-up is lost, no full socket forgotten, and the result of a       *)
(* request is the one it has earned.                                       *)
(***************************************************************************)
EXTENDS QuicEngine, TLAPS

Underway == pc \notin {"idle", "destroyed"}

(* The timer of this request is running, has expired or is in the batch.   *)
TimerInv ==
    wants /\ Underway => timer_cb = generation /\ (timer_fd # "off" \/ "timer" \in ready)

(* waiting_writable says that the loop watches for the socket to become    *)
(* writable: while it is set, write_socket_cb does not ask again.          *)
SendInv ==
    Underway /\ (blocked \/ "waiting_writable" \in ctx) => "write" \in interest

(* What the RequestContext tells of what has happened to the request.      *)
ContextInv ==
    Underway =>
        /\ "got_status" \in ctx <=> "status" \in seen
        /\ "response_fin" \in ctx <=> "fin" \in seen
        /\ "failed" \in ctx <=> seen \cap Troubles # {}
        /\ "finished" \in ctx => Whole
        /\ Whole => Ended
        /\ "tls_failed" \in ctx <=> cert = "bad"
        /\ "h3_request" \in ctx => cert = "good"
        /\ seen \cap {"status", "fin"} # {} => "h3_request" \in ctx

IInv == TypeOK /\ TimerInv /\ SendInv /\ ContextInv /\ OutcomeIsEarned

USE QuicAssumption

(* No delay disarms the timer: microseconds are rounded up.                *)
LEMMA DelayIsPositive ==
    ASSUME NEW w \in Nat
    PROVE  Delay(w) \in Nat \ {0}
  BY DEF Delay

(* A new engine.                                                           *)
LEMMA InitInv == Init => IInv
  <1> SUFFICES ASSUME Init PROVE IInv
    OBVIOUS
  <1>1. TypeOK
    <2>1. generation \in 0 .. MaxRequests
      BY DEF Init
    <2>2. LoopTypeOK /\ timer_cb \in 0 .. MaxRequests \cup {NoCallback}
      BY DEF Init, LoopInit, LoopTypeOK
    <2>3. QED
      BY <2>1, <2>2 DEF Init, TypeOK, PC, Results
  <1>2. TimerInv /\ SendInv /\ ContextInv /\ OutcomeIsEarned
    BY DEF Init, TimerInv, SendInv, ContextInv, Underway, OutcomeIsEarned
  <1>3. QED
    BY <1>1, <1>2 DEF IInv

(* A request that fails before there is a context.                         *)
LEMMA RequestFailsEarlyInv ==
    ASSUME IInv, NEW error \in {"DNS", "INTERNAL", "CONNECT"}, RequestFailsEarly(error)
    PROVE  IInv'
  <1>1. TypeOK'
    BY DEF IInv, RequestFailsEarly, InitEngine, xquic, loopVars, TypeOK, PC, Flags, Results,
       Events, Troubles, LoopTypeOK
  <1>2. TimerInv'
    BY DEF RequestFailsEarly, TimerInv, Underway
  <1>3. SendInv'
    BY DEF RequestFailsEarly, SendInv, Underway
  <1>4. ContextInv'
    BY DEF RequestFailsEarly, ContextInv, Underway
  <1>5. OutcomeIsEarned'
    BY DEF RequestFailsEarly, OutcomeIsEarned
  <1>6. QED
    BY <1>1, <1>2, <1>3, <1>4, <1>5 DEF IInv

(* A new context, and a new generation, for which nothing is set.          *)
LEMMA BeginRequestInv ==
    ASSUME IInv, BeginRequest
    PROVE  IInv'
  <1>1. TypeOK'
    <2>1. generation' \in 0 .. MaxRequests
      BY DEF IInv, TypeOK, BeginRequest
    <2>2. LoopTypeOK' /\ timer_cb' \in 0 .. MaxRequests \cup {NoCallback}
      BY DEF IInv, TypeOK, LoopTypeOK, BeginRequest, Watch
    <2>3. QED
      BY <2>1, <2>2 DEF BeginRequest, TypeOK, InitEngine, NoRequest, Goto, PC, Results
  <1>2. TimerInv'
    BY DEF BeginRequest, NoRequest, TimerInv
  <1>3. SendInv'
    BY DEF BeginRequest, NoRequest, SendInv
  <1>4. ContextInv'
    BY DEF BeginRequest, NoRequest, ContextInv, Whole
  <1>5. OutcomeIsEarned'
    BY DEF BeginRequest, Goto, OutcomeIsEarned
  <1>6. QED
    BY <1>1, <1>2, <1>3, <1>4, <1>5 DEF IInv

(* The loop begins.                                                        *)
LEMMA ConnectedInv ==
    ASSUME IInv, Connected
    PROVE  IInv'
  <1>1. TypeOK'
    BY DEF IInv, Connected, Goto, xquic, loopVars, TypeOK, PC, LoopTypeOK
  <1>2. TimerInv'
    BY DEF IInv, Connected, xquic, loopVars, TimerInv, Underway
  <1>3. SendInv'
    BY DEF IInv, Connected, xquic, loopVars, SendInv, Underway
  <1>4. ContextInv'
    BY DEF IInv, Connected, xquic, ContextInv, Underway, Whole, Ended
  <1>5. OutcomeIsEarned'
    BY DEF Connected, Goto, OutcomeIsEarned
  <1>6. QED
    BY <1>1, <1>2, <1>3, <1>4, <1>5 DEF IInv

(* There is no connection.                                                 *)
LEMMA ConnectFailsInv ==
    ASSUME IInv, ConnectFails
    PROVE  IInv'
  <1>1. TypeOK'
    BY DEF IInv, ConnectFails, Watch, Goto, xquic, TypeOK, PC, Results, LoopTypeOK
  <1>2. TimerInv'
    BY DEF ConnectFails, Goto, TimerInv, Underway
  <1>3. SendInv'
    BY DEF ConnectFails, Goto, SendInv, Underway
  <1>4. ContextInv'
    BY DEF ConnectFails, Goto, ContextInv, Underway
  <1>5. OutcomeIsEarned'
    BY DEF ConnectFails, Goto, OutcomeIsEarned
  <1>6. QED
    BY <1>1, <1>2, <1>3, <1>4, <1>5 DEF IInv

(* The request's time is over.                                             *)
LEMMA ExpireInv ==
    ASSUME IInv, Expire
    PROVE  IInv'
  <1>1. TypeOK'
    BY DEF IInv, Expire, xquic, loopVars, TypeOK, LoopTypeOK
  <1>2. TimerInv'
    BY DEF IInv, Expire, xquic, loopVars, TimerInv, Underway
  <1>3. SendInv'
    BY DEF IInv, Expire, xquic, loopVars, SendInv, Underway
  <1>4. ContextInv'
    BY DEF IInv, Expire, xquic, ContextInv, Underway, Whole, Ended
  <1>5. OutcomeIsEarned'
    BY DEF Expire, OutcomeIsEarned
  <1>6. QED
    BY <1>1, <1>2, <1>3, <1>4, <1>5 DEF IInv

(* A batch of events is taken from the kernel.                             *)
LEMMA LoopPollInv ==
    ASSUME IInv, LoopPoll
    PROVE  IInv'
  <1>1. TypeOK'
    BY DEF IInv, LoopPoll, Poll, Goto, xquic, TypeOK, PC, LoopTypeOK
  <1>2. TimerInv'
    BY DEF IInv, LoopPoll, Poll, xquic, TimerInv, Underway
  <1>3. SendInv'
    BY DEF IInv, LoopPoll, xquic, SendInv, Underway
  <1>4. ContextInv'
    BY DEF IInv, LoopPoll, xquic, ContextInv, Underway, Whole
  <1>5. OutcomeIsEarned'
    BY DEF LoopPoll, Goto, OutcomeIsEarned
  <1>6. QED
    BY <1>1, <1>2, <1>3, <1>4, <1>5 DEF IInv

(* The request's outcome is decided.                                       *)
LEMMA LoopEndsInv ==
    ASSUME IInv, LoopEnds
    PROVE  IInv'
  <1>1. TypeOK'
    BY DEF IInv, LoopEnds, Finish, Goto, xquic, loopVars, TypeOK, PC, Flags, Results, Events,
       Troubles, LoopTypeOK, Outcome
  <1>2. TimerInv'
    BY DEF IInv, LoopEnds, Finish, xquic, loopVars, TimerInv, Underway
  <1>3. SendInv'
    BY DEF IInv, LoopEnds, Finish, xquic, loopVars, SendInv, Underway
  <1>4. ContextInv'
    BY DEF IInv, LoopEnds, Finish, xquic, ContextInv, Underway, Whole, Ended
  <1>5. OutcomeIsEarned'
    BY DEF IInv, LoopEnds, Finish, xquic, OutcomeIsEarned, Whole, Ended, ContextInv, Outcome,
       Underway
  <1>6. QED
    BY <1>1, <1>2, <1>3, <1>4, <1>5 DEF IInv

(* The request returns.                                                    *)
LEMMA CleanupDoneInv ==
    ASSUME IInv, CleanupDone
    PROVE  IInv'
  <1>1. TypeOK'
    BY DEF IInv, CleanupDone, Watch, NoRequest, Goto, TypeOK, PC, Flags, Results, Events,
       Troubles, LoopTypeOK
  <1>2. TimerInv'
    BY DEF CleanupDone, NoRequest, TimerInv
  <1>3. SendInv'
    BY DEF CleanupDone, NoRequest, SendInv
  <1>4. ContextInv'
    BY DEF CleanupDone, Goto, ContextInv, Underway
  <1>5. OutcomeIsEarned'
    BY DEF CleanupDone, Goto, OutcomeIsEarned
  <1>6. QED
    BY <1>1, <1>2, <1>3, <1>4, <1>5 DEF IInv

(* The engine is destroyed.                                                *)
LEMMA DestroyInv ==
    ASSUME IInv, Destroy
    PROVE  IInv'
  <1>1. TypeOK'
    BY DEF IInv, Destroy, Goto, xquic, loopVars, TypeOK, PC, Flags, Results, Events, Troubles,
       LoopTypeOK
  <1>2. TimerInv'
    BY DEF Destroy, Goto, TimerInv, Underway
  <1>3. SendInv'
    BY DEF Destroy, Goto, SendInv, Underway
  <1>4. ContextInv'
    BY DEF Destroy, Goto, ContextInv, Underway
  <1>5. OutcomeIsEarned'
    BY DEF Destroy, Goto, OutcomeIsEarned
  <1>6. QED
    BY <1>1, <1>2, <1>3, <1>4, <1>5 DEF IInv

(* The batch is worked off.                                                *)
LEMMA BatchDoneInv ==
    ASSUME IInv, BatchDone
    PROVE  IInv'
  <1>1. TypeOK'
    BY DEF IInv, BatchDone, Goto, xquic, loopVars, TypeOK, PC, LoopTypeOK
  <1>2. TimerInv'
    BY DEF IInv, BatchDone, xquic, loopVars, TimerInv, Underway
  <1>3. SendInv'
    BY DEF IInv, BatchDone, xquic, loopVars, SendInv, Underway
  <1>4. ContextInv'
    BY DEF IInv, BatchDone, xquic, ContextInv, Underway, Whole, Ended
  <1>5. OutcomeIsEarned'
    BY DEF BatchDone, Goto, OutcomeIsEarned
  <1>6. QED
    BY <1>1, <1>2, <1>3, <1>4, <1>5 DEF IInv

(* The timer's turn: it is this request's if a wake-up is wanted.          *)
LEMMA TimerEventInv ==
    ASSUME IInv, TimerEvent
    PROVE  IInv'
  <1>1. TypeOK'
    BY DEF IInv, TimerEvent, TakeTimer, TakeEvent, Goto, TypeOK, PC, Flags, Results, Events,
       Troubles, LoopTypeOK
  <1>2. TimerInv'
    BY DEF IInv, TimerEvent, TakeTimer, TakeEvent, Goto, TypeOK, TimerInv, Underway
  <1>3. SendInv'
    BY DEF IInv, TimerEvent, SendInv, Underway
  <1>4. ContextInv'
    BY DEF IInv, TimerEvent, ContextInv, Underway, Whole, Ended
  <1>5. OutcomeIsEarned'
    BY DEF TimerEvent, Goto, OutcomeIsEarned
  <1>6. QED
    BY <1>1, <1>2, <1>3, <1>4, <1>5 DEF IInv

(* The socket is writable.                                                 *)
LEMMA WriteEventInv ==
    ASSUME IInv, WriteEvent
    PROVE  IInv'
  <1>1. TypeOK'
    BY DEF IInv, WriteEvent, TakeEvent, Watch, Goto, TypeOK, PC, Flags, Results, Events,
       Troubles, LoopTypeOK
  <1>2. TimerInv'
    BY DEF IInv, WriteEvent, TakeEvent, TimerInv, Underway
  <1>3. SendInv'
    BY DEF WriteEvent, SendInv
  <1>4. ContextInv'
    BY DEF IInv, WriteEvent, ContextInv, Underway, Whole, Ended
  <1>5. OutcomeIsEarned'
    BY DEF WriteEvent, Goto, OutcomeIsEarned
  <1>6. QED
    BY <1>1, <1>2, <1>3, <1>4, <1>5 DEF IInv

(* XQUIC has sent what it had.                                             *)
LEMMA SendReturnsInv ==
    ASSUME IInv, SendReturns
    PROVE  IInv'
  <1>1. TypeOK'
    BY DEF IInv, SendReturns, Fail, Goto, TypeOK, PC, Flags, Results, Events, Troubles,
       LoopTypeOK
  <1>2. TimerInv'
    BY DEF IInv, SendReturns, TimerInv, Underway
  <1>3. SendInv'
    BY DEF IInv, SendReturns, Fail, SendInv, Underway
  <1>4. ContextInv'
    BY DEF IInv, SendReturns, Fail, ContextInv, Underway, Whole, Ended, Troubles
  <1>5. OutcomeIsEarned'
    BY DEF SendReturns, Goto, OutcomeIsEarned
  <1>6. QED
    BY <1>1, <1>2, <1>3, <1>4, <1>5 DEF IInv

(* The socket is readable.                                                 *)
LEMMA SocketEventInv ==
    ASSUME IInv, SocketEvent
    PROVE  IInv'
  <1>1. TypeOK'
    BY DEF IInv, SocketEvent, Goto, xquic, loopVars, TypeOK, PC, LoopTypeOK
  <1>2. TimerInv'
    BY DEF IInv, SocketEvent, xquic, loopVars, TimerInv, Underway
  <1>3. SendInv'
    BY DEF IInv, SocketEvent, xquic, loopVars, SendInv, Underway
  <1>4. ContextInv'
    BY DEF IInv, SocketEvent, xquic, ContextInv, Underway, Whole, Ended
  <1>5. OutcomeIsEarned'
    BY DEF SocketEvent, Goto, OutcomeIsEarned
  <1>6. QED
    BY <1>1, <1>2, <1>3, <1>4, <1>5 DEF IInv

(* Something is received, or nothing, or an error.                         *)
LEMMA ReadEventInv ==
    ASSUME IInv, ReadEvent
    PROVE  IInv'
  <1>1. TypeOK'
    BY DEF IInv, ReadEvent, Fail, Goto, TypeOK, PC, Flags, Results, Events, Troubles,
       LoopTypeOK
  <1>2. TimerInv'
    BY DEF IInv, ReadEvent, TimerInv, Underway
  <1>3. SendInv'
    BY DEF IInv, ReadEvent, Fail, SendInv, Underway
  <1>4. ContextInv'
    BY DEF IInv, ReadEvent, Fail, ContextInv, Underway, Whole, Ended, Troubles
  <1>5. OutcomeIsEarned'
    BY DEF ReadEvent, Goto, OutcomeIsEarned
  <1>6. QED
    BY <1>1, <1>2, <1>3, <1>4, <1>5 DEF IInv

(* XQUIC has taken what was received.                                      *)
LEMMA ReceiveReturnsInv ==
    ASSUME IInv, ReceiveReturns
    PROVE  IInv'
  <1>1. TypeOK'
    BY DEF IInv, ReceiveReturns, Fail, Goto, loopVars, TypeOK, PC, Flags, Results, Events,
       Troubles, LoopTypeOK
  <1>2. TimerInv'
    BY DEF IInv, ReceiveReturns, loopVars, TimerInv, Underway
  <1>3. SendInv'
    BY DEF IInv, ReceiveReturns, Fail, loopVars, SendInv, Underway
  <1>4. ContextInv'
    BY DEF IInv, ReceiveReturns, Fail, ContextInv, Underway, Whole, Ended, Troubles
  <1>5. OutcomeIsEarned'
    BY DEF ReceiveReturns, Goto, OutcomeIsEarned
  <1>6. QED
    BY <1>1, <1>2, <1>3, <1>4, <1>5 DEF IInv

(* XQUIC's main logic returns.                                             *)
LEMMA DriveReturnsInv ==
    ASSUME IInv, DriveReturns
    PROVE  IInv'
  <1>1. TypeOK'
    BY DEF IInv, DriveReturns, Goto, xquic, loopVars, TypeOK, PC, LoopTypeOK
  <1>2. TimerInv'
    BY DEF IInv, DriveReturns, xquic, loopVars, TimerInv, Underway
  <1>3. SendInv'
    BY DEF IInv, DriveReturns, xquic, loopVars, SendInv, Underway
  <1>4. ContextInv'
    BY DEF IInv, DriveReturns, xquic, ContextInv, Underway, Whole, Ended
  <1>5. OutcomeIsEarned'
    BY DEF DriveReturns, Goto, OutcomeIsEarned
  <1>6. QED
    BY <1>1, <1>2, <1>3, <1>4, <1>5 DEF IInv

(* XQUIC asks to be woken.                                                 *)
LEMMA SetEventTimerInv ==
    ASSUME IInv, NEW w \in WakeAfter, SetEventTimer(w)
    PROVE  IInv'
  <1>1. TypeOK'
    BY DEF IInv, SetEventTimer, ScheduleTimer, thread, TypeOK, LoopTypeOK
  <1>2. TimerInv'
    BY DelayIsPositive DEF SetEventTimer, ScheduleTimer, thread, TimerInv
  <1>3. SendInv'
    BY DEF IInv, SetEventTimer, thread, SendInv, Underway
  <1>4. ContextInv'
    BY DEF IInv, SetEventTimer, thread, ContextInv, Underway, Whole, Ended
  <1>5. OutcomeIsEarned'
    BY DEF IInv, SetEventTimer, thread, OutcomeIsEarned, Whole
  <1>6. QED
    BY <1>1, <1>2, <1>3, <1>4, <1>5 DEF IInv

(* XQUIC is told that the socket is full.                                  *)
LEMMA WriteSocketAgainInv ==
    ASSUME IInv, WriteSocketAgain
    PROVE  IInv'
  <1>1. TypeOK'
    BY DEF IInv, WriteSocketAgain, Watch, thread, TypeOK, PC, Flags, Results, Events,
       Troubles, LoopTypeOK, InXquic
  <1>2. TimerInv'
    BY DEF IInv, WriteSocketAgain, thread, TimerInv, Underway
  <1>3. SendInv'
    BY DEF IInv, WriteSocketAgain, Watch, thread, SendInv, Underway
  <1>4. ContextInv'
    BY DEF IInv, WriteSocketAgain, thread, ContextInv, Underway, Whole, Ended
  <1>5. OutcomeIsEarned'
    BY DEF IInv, WriteSocketAgain, thread, OutcomeIsEarned, Whole
  <1>6. QED
    BY <1>1, <1>2, <1>3, <1>4, <1>5 DEF IInv

(* The certificate is verified.                                            *)
LEMMA CertVerifyInv ==
    ASSUME IInv, CertVerify
    PROVE  IInv'
  <1>1. TypeOK'
    BY DEF IInv, CertVerify, thread, loopVars, TypeOK, PC, Flags, Results, Events, Troubles,
       LoopTypeOK
  <1>2. TimerInv'
    BY DEF IInv, CertVerify, thread, loopVars, TimerInv, Underway
  <1>3. SendInv'
    BY DEF IInv, CertVerify, thread, loopVars, SendInv, Underway
  <1>4. ContextInv'
    BY DEF IInv, CertVerify, thread, ContextInv, Underway, Whole
  <1>5. OutcomeIsEarned'
    BY DEF CertVerify, thread, OutcomeIsEarned, InXquic
  <1>6. QED
    BY <1>1, <1>2, <1>3, <1>4, <1>5 DEF IInv

(* The request is created.                                                 *)
LEMMA HandshakeFinishedInv ==
    ASSUME IInv, HandshakeFinished
    PROVE  IInv'
  <1>1. TypeOK'
    BY DEF IInv, HandshakeFinished, Fail, thread, loopVars, TypeOK, PC, Flags, Results,
       Events, Troubles, LoopTypeOK, InXquic, Whole, Ended, ContextInv, Outcome, Underway
  <1>2. TimerInv'
    BY DEF IInv, HandshakeFinished, thread, loopVars, TimerInv, Underway
  <1>3. SendInv'
    BY DEF IInv, HandshakeFinished, Fail, thread, loopVars, SendInv, Underway
  <1>4. ContextInv'
    BY DEF IInv, HandshakeFinished, Fail, thread, ContextInv, Underway, Whole, Troubles
  <1>5. OutcomeIsEarned'
    BY DEF HandshakeFinished, thread, OutcomeIsEarned, InXquic
  <1>6. QED
    BY <1>1, <1>2, <1>3, <1>4, <1>5 DEF IInv

(* More of the body is sent.                                               *)
LEMMA WriteNotifyInv ==
    ASSUME IInv, WriteNotify
    PROVE  IInv'
  <1>1. TypeOK'
    BY DEF IInv, WriteNotify, Fail, thread, loopVars, TypeOK, PC, Flags, Results, Events,
       Troubles, LoopTypeOK, InXquic
  <1>2. TimerInv'
    BY DEF IInv, WriteNotify, thread, loopVars, TimerInv, Underway
  <1>3. SendInv'
    BY DEF IInv, WriteNotify, Fail, thread, loopVars, SendInv, Underway
  <1>4. ContextInv'
    BY DEF IInv, WriteNotify, Fail, thread, ContextInv, Underway, Whole, Ended, Troubles
  <1>5. OutcomeIsEarned'
    BY DEF WriteNotify, thread, OutcomeIsEarned, InXquic
  <1>6. QED
    BY <1>1, <1>2, <1>3, <1>4, <1>5 DEF IInv

(* Parts of the response are read.                                         *)
LEMMA ReadNotifyInv ==
    ASSUME IInv, NEW first \in {"nothing", "status"},
           NEW last \in {"nothing", "fin", "bad", "too_much"}, ReadNotify(first, last)
    PROVE  IInv'
  <1>1. TypeOK'
    BY DEF IInv, ReadNotify, Read, Completed, Heard, thread, loopVars, TypeOK, Flags, Events,
       Troubles, LoopTypeOK
  <1>2. TimerInv'
    BY DEF IInv, ReadNotify, thread, loopVars, TimerInv, Underway
  <1>3. SendInv'
    BY DEF IInv, ReadNotify, Read, Completed, thread, loopVars, SendInv, Underway
  <1>4. ContextInv'
    BY DEF IInv, ReadNotify, Read, Completed, Heard, thread, ContextInv, Underway, Whole,
       Ended, Troubles
  <1>5. OutcomeIsEarned'
    BY DEF ReadNotify, thread, OutcomeIsEarned, InXquic
  <1>6. QED
    BY <1>1, <1>2, <1>3, <1>4, <1>5 DEF IInv

(* The peer closes the connection.                                         *)
LEMMA PeerClosesInv ==
    ASSUME IInv, PeerCloses
    PROVE  IInv'
  <1>1. TypeOK'
    BY DEF IInv, PeerCloses, thread, loopVars, TypeOK, Flags, Events, Troubles, LoopTypeOK
  <1>2. TimerInv'
    BY DEF IInv, PeerCloses, thread, loopVars, TimerInv, Underway
  <1>3. SendInv'
    BY DEF IInv, PeerCloses, thread, loopVars, SendInv, Underway
  <1>4. ContextInv'
    BY DEF IInv, PeerCloses, thread, ContextInv, Underway, Whole, Ended, Troubles
  <1>5. OutcomeIsEarned'
    BY DEF IInv, PeerCloses, thread, OutcomeIsEarned, Whole
  <1>6. QED
    BY <1>1, <1>2, <1>3, <1>4, <1>5 DEF IInv

(* The stream is closed.                                                   *)
LEMMA CloseNotifyInv ==
    ASSUME IInv, NEW stream_err \in BOOLEAN, CloseNotify(stream_err)
    PROVE  IInv'
  <1>1. TypeOK'
    BY DEF IInv, CloseNotify, Completed, thread, loopVars, TypeOK, Flags, Events, Troubles,
       LoopTypeOK
  <1>2. TimerInv'
    BY DEF IInv, CloseNotify, thread, loopVars, TimerInv, Underway
  <1>3. SendInv'
    BY DEF IInv, CloseNotify, Completed, thread, loopVars, SendInv, Underway
  <1>4. ContextInv'
    BY DEF IInv, CloseNotify, Completed, thread, ContextInv, Underway, Whole, Ended, Troubles
  <1>5. OutcomeIsEarned'
    BY DEF CloseNotify, thread, OutcomeIsEarned, InXquic
  <1>6. QED
    BY <1>1, <1>2, <1>3, <1>4, <1>5 DEF IInv

(* The kernel's timer expires.                                             *)
LEMMA TimerFiresInv ==
    ASSUME IInv, TimerFires
    PROVE  IInv'
  <1>1. TypeOK'
    BY DEF IInv, TimerFires, TimerExpires, thread, xquic, TypeOK, LoopTypeOK
  <1>2. TimerInv'
    BY DEF IInv, TimerFires, TimerExpires, thread, xquic, TimerInv, Underway
  <1>3. SendInv'
    BY DEF IInv, TimerFires, TimerExpires, thread, xquic, SendInv, Underway
  <1>4. ContextInv'
    BY DEF IInv, TimerFires, thread, xquic, ContextInv, Underway, Whole, Ended
  <1>5. OutcomeIsEarned'
    BY DEF IInv, TimerFires, thread, xquic, OutcomeIsEarned, Whole
  <1>6. QED
    BY <1>1, <1>2, <1>3, <1>4, <1>5 DEF IInv

(* Every step preserves the strengthening.                                 *)
LEMMA NextInv == IInv /\ [Next]_vars => IInv'
  <1> SUFFICES ASSUME IInv, [Next]_vars PROVE IInv'
    OBVIOUS
  <1>1. CASE Thread
    BY <1>1, ConnectedInv, ConnectFailsInv, LoopPollInv, LoopEndsInv, CleanupDoneInv,
       BatchDoneInv, TimerEventInv, WriteEventInv, SocketEventInv, ReadEventInv,
       SendReturnsInv, ReceiveReturnsInv, DriveReturnsInv DEF Thread
  <1>2. CASE Callback
    BY <1>2, SetEventTimerInv, WriteSocketAgainInv, CertVerifyInv, HandshakeFinishedInv,
       WriteNotifyInv, ReadNotifyInv, PeerClosesInv, CloseNotifyInv DEF Callback
  <1>3. CASE UNCHANGED vars
    BY <1>3 DEF vars, xquic, loopVars, IInv, TypeOK, LoopTypeOK, TimerInv, SendInv,
       ContextInv, Underway, Whole, Ended, OutcomeIsEarned
  <1>4. QED
    BY <1>1, <1>2, <1>3, RequestFailsEarlyInv, BeginRequestInv, DestroyInv, ExpireInv,
       TimerFiresInv DEF Next

(* The strengthening holds in every reachable state.                       *)
THEOREM QuicInvariant == Spec => []IInv
  BY InitInv, NextInv, PTL DEF Spec

(* The wake-up XQUIC has asked for is never lost while its request lasts.  *)
THEOREM WakeUpsAreKept == Spec => []NoLostTimer
  <1>1. IInv => NoLostTimer
    BY DEF IInv, TimerInv, Underway, NoLostTimer
  <1>2. QED
    BY <1>1, QuicInvariant, PTL

(* A socket XQUIC was told is full is watched until XQUIC is told to go on.*)
THEOREM FullSocketIsWatched == Spec => []NoStuckSend
  <1>1. IInv => NoStuckSend
    BY DEF IInv, SendInv, Underway, NoStuckSend
  <1>2. QED
    BY <1>1, QuicInvariant, PTL

(* request returns OK exactly for a whole response to which nothing went   *)
(* wrong, TLS for a bad certificate, and TIMEOUT not before its time.      *)
THEOREM ResultIsEarned == Spec => []OutcomeIsEarned
  <1>1. IInv => OutcomeIsEarned
    BY DEF IInv
  <1>2. QED
    BY <1>1, QuicInvariant, PTL
=============================================================================
