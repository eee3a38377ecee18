------------------------------ MODULE EventLoop ------------------------------
(***************************************************************************)
(* platform::EpollEventLoop (sdk/cxx/platform/event_loop.cpp) with the one *)
(* socket and the one timer QuicEngine gives it.  Its thread calls         *)
(* poll_once, which takes a batch of ready events from the kernel and then *)
(* calls back for each; a callback may change the interest in the socket   *)
(* or schedule the timer anew while the batch is still being worked off.   *)
(*                                                                         *)
(* run and stop are not used by the SDK and not modelled.  The kernel      *)
(* (epoll and timerfd) is modelled from how the loop uses it; a timer that *)
(* is armed may expire at any time.                                        *)
(***************************************************************************)
EXTENDS Integers

CONSTANT NoCallback

VARIABLES interest,    \* the socket's events, empty when it is not registered
          timer_cb,    \* timer_cb_: whatever schedule_timer was given
          timer_fd,    \* the kernel's timer
          ready        \* events of the batch not yet called back for

loopVars == <<interest, timer_cb, timer_fd, ready>>

LoopTypeOK ==
    /\ interest \in SUBSET {"read", "write"}
    /\ timer_fd \in {"off", "armed", "expired"}
    /\ ready \in SUBSET {"read", "write", "timer"}

LoopInit ==
    /\ interest = {} /\ ready = {}
    /\ timer_cb = NoCallback /\ timer_fd = "off"

-----------------------------------------------------------------------------
\* add_fd, mod_fd, and remove_fd for none at all.
Watch(events) == interest' = events

\* A delay of 0 disarms a timerfd; arming it forgets an expiration.
ScheduleTimer(ms, cb) ==
    /\ timer_cb' = cb
    /\ timer_fd' = IF ms = 0 THEN "off" ELSE "armed"

\* The first half of poll_once: the timer is reported if it has expired, the
\* socket if the network likes; nothing at all after poll_once's timeout.
Poll(socket) ==
    /\ ready = {} /\ socket \subseteq interest
    /\ ready' = socket \cup (IF timer_fd = "expired" THEN {"timer"} ELSE {})

TakeEvent(event) == event \in ready /\ ready' = ready \ {event}

\* The timer's turn: read resets an expired timerfd, and does nothing to one
\* scheduled anew meanwhile; the callback is taken out before it is called.
TakeTimer ==
    /\ TakeEvent("timer")
    /\ timer_fd' = IF timer_fd = "expired" THEN "off" ELSE timer_fd
    /\ timer_cb' = NoCallback

TimerExpires ==
    /\ timer_fd = "armed"
    /\ timer_fd' = "expired"
    /\ UNCHANGED <<interest, timer_cb, ready>>
=============================================================================
