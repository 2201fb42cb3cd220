-------------------------- MODULE MultiCurlManager --------------------------
(***************************************************************************)
(* The Linux build of MultiCurlManager (src/src/multi_curl_manager.cpp):   *)
(* the request path under an epoll loop.  Callers write to an eventfd,     *)
(* libcurl's timeout is a timerfd, both non-blocking, and epoll_wait       *)
(* reports them together with the sockets of running transfers, each named *)
(* here by its easy handle (EpollSockets models the sockets themselves).   *)
(***************************************************************************)
EXTENDS RequestPath

CONSTANTS
  MaxEvents,    \* slots of the array given to epoll_wait (32 in the code)
  TimerFd, EventFd

Sources == {TimerFd, EventFd} \cup Easies

ASSUME ConstantsAssumption ==
  /\ MaxEvents \in Nat \ {0}
  /\ TimerFd # EventFd
  /\ TimerFd \notin Easies /\ EventFd \notin Easies

VARIABLES
  eventfd,      \* counter of event_fd
  readable,     \* easy handles whose socket epoll reports
  batch,        \* events of the last epoll_wait still to be dispatched
  viaSocket,    \* CheckMulti was called by EventCallback
  stillRunning  \* g->still_running > 0

epollVars == <<eventfd, readable, batch, viaSocket, stillRunning>>
vars == <<pathVars, epollVars>>

TypeOK ==
  /\ PathTypeOK
  /\ eventfd \in Nat
  /\ readable \in SUBSET Easies
  /\ batch \in SUBSET Sources
  /\ viaSocket \in BOOLEAN
  /\ stillRunning \in BOOLEAN

\* The manager's constructor: timer_fd armed with one second, event_fd zero.
Init ==
  /\ PathInit("armed")
  /\ eventfd = 0 /\ readable = {} /\ batch = {}
  /\ viaSocket = FALSE /\ stillRunning = FALSE
-----------------------------------------------------------------------------
\* Seeded bug: the request is queued and event_fd not written.
NotifySkipped(c) == Notified(c) /\ UNCHANGED epollVars

\* write(event_fd, 1).
Notify(c) ==
  /\ Notified(c)
  /\ eventfd' = eventfd + 1
  /\ UNCHANGED <<readable, batch, viaSocket, stillRunning>>

\* Bytes, room to write or a hang-up on the socket of a running transfer.
SocketReady(e) ==
  /\ Running /\ stage[e] = "running" /\ e \notin readable
  /\ readable' = readable \cup {e}
  /\ UNCHANGED <<pathVars, eventfd, batch, viaSocket, stillRunning>>

Ready == (IF timer = "expired" THEN {TimerFd} ELSE {})
         \cup (IF eventfd > 0 THEN {EventFd} ELSE {})
         \cup readable
-----------------------------------------------------------------------------
(***************************************************************************)
(* The background thread: HandleEvent and what it calls.                   *)
(***************************************************************************)
\* epoll_wait returns what is ready, in any order, at most MaxEvents of it.
EpollWait ==
  /\ Running /\ bg = "loop" /\ batch = {}
  /\ \E events \in SUBSET Ready :
       /\ events # {}
       /\ \/ events = Ready /\ Cardinality(Ready) <= MaxEvents
          \/ Cardinality(events) = MaxEvents /\ MaxEvents < Cardinality(Ready)
       /\ batch' = events
  /\ UNCHANGED <<pathVars, eventfd, readable, viaSocket, stillRunning>>

\* libcurl has been called for the event on fd (nothing when fd is the timer).
CurlCalled(fd) ==
  /\ readable' = {e \in readable \ {fd} : stage'[e] = "running"}
  /\ stillRunning' = (Alive(stage') # {})
  /\ batch' = batch \ {fd}
  /\ UNCHANGED eventfd

\* TimerCallback when timer_fd still holds expirations: the read clears them.
TimerCallback ==
  /\ TimerFd \in batch /\ timer = "expired"
  /\ SocketAction({}, TRUE)
  /\ CurlCalled(TimerFd)
  /\ viaSocket' = FALSE

\* TimerCallback when an event dispatched earlier in the same batch set the timer
\* again: timerfd_settime drops the expirations, the non-blocking read returns
\* EAGAIN and ALWAYS_ASSERT(bytes_read == sizeof(uint64_t)) throws.
TimerCallbackOnRearmedTimer ==
  /\ bg = "loop" /\ TimerFd \in batch /\ timer # "expired"
  /\ LoopFails("timer_read")
  /\ UNCHANGED epollVars

\* The event_fd branch of HandleEvent: read the counter back to zero, then run
\* ProcessPendingRequests.
DispatchEventFd ==
  /\ EventFd \in batch
  /\ StartDrain(IF eventfd = 0 THEN "event_read" ELSE failure)
  /\ eventfd' = 0
  /\ batch' = batch \ {EventFd}
  /\ UNCHANGED <<readable, viaSocket, stillRunning>>

\* EventCallback up to its call of CheckMulti.  The socket may have been closed
\* by an event dispatched earlier in the batch: libcurl ignores such a call.
EventCallback(e) ==
  /\ e \in batch
  /\ SocketAction({timer}, FALSE)
  /\ CurlCalled(e)
  /\ viaSocket' = TRUE

\* Seeded bug: the timer is disarmed whatever libcurl reported.
CheckMultiReturnsDisarms ==
  /\ CheckMultiEnd(IF viaSocket THEN "off" ELSE timer)
  /\ UNCHANGED epollVars

\* CheckMulti returns; EventCallback disarms the timer when libcurl reported no
\* running transfer.
CheckMultiReturns ==
  /\ CheckMultiEnd(IF viaSocket /\ ~stillRunning THEN "off" ELSE timer)
  /\ UNCHANGED epollVars
-----------------------------------------------------------------------------
\* The steps of the background thread that do not touch the event loop's own state.
SharedSteps ==
  \/ PopPending \/ PendingEmpty \/ AddHandle
  \/ \E e \in Easies : Deliver(e)
  \/ Detach

Background ==
  \/ EpollWait
  \/ TimerCallback
  \/ TimerCallbackOnRearmedTimer
  \/ DispatchEventFd
  \/ \E e \in Easies : EventCallback(e)
  \/ SharedSteps /\ UNCHANGED epollVars
  \/ CheckMultiReturns

Next ==
  \/ \E c \in Callers :
       \/ Notify(c)
       \/ (OpenClient(c) \/ CloseClient(c) \/ Submit(c) \/ Return(c)) /\ UNCHANGED epollVars
  \/ TimerExpires /\ UNCHANGED epollVars
  \/ \E e \in Easies : SocketReady(e)
  \/ Background

Spec == Init /\ [][Next]_vars

(***************************************************************************)
(* The threads are scheduled; an armed timer expires; epoll hands out its  *)
(* ready list round robin, so an event that keeps being ready is returned; *)
(* every curl_multi_socket_action also runs the timeouts of libcurl that   *)
(* are due, so CURLOPT_TIMEOUT ends the transfer of a caller that has one  *)
(* in one of them.                                                         *)
(***************************************************************************)
EndsByTimeout(e) ==
  /\ ongoing[e] # None /\ ongoing[e].by \in Timed
  /\ TimerCallback \/ \E f \in Easies : EventCallback(f)
  /\ stage'[e] = "done"

Fairness ==
  /\ WF_vars(Background)
  /\ WF_vars(TimerExpires /\ UNCHANGED epollVars)
  /\ \A c \in Callers : WF_vars(Notify(c)) /\ WF_vars(Return(c) /\ UNCHANGED epollVars)
  /\ \A s \in Sources : SF_vars(EpollWait /\ s \in batch')
  /\ \A e \in Easies : SF_vars(EndsByTimeout(e))

FairSpec == Spec /\ Fairness
-----------------------------------------------------------------------------
(***************************************************************************)
(* Properties.                                                             *)
(***************************************************************************)
\* Every ALWAYS_ASSERT on the request path but the one of TimerReadSucceeds holds in every
\* interleaving: those of ProcessPendingRequests and CheckMulti, and the one that event_fd
\* is never found empty.
AssertionsHold == PathAssertionsHold /\ failure # "event_read"

\* No lost wake-up: while a request is queued, event_fd is readable, the loop is
\* draining the queue, or a caller is about to write to event_fd.
NoLostWakeup ==
  pending # <<>> => \/ eventfd > 0
                    \/ bg \in {"drain", "add"}
                    \/ \E c \in Callers : pc[c] = "notify"

\* The timer is readable when TimerCallback reads it (ALWAYS_ASSERT in
\* TimerCallback).
TimerReadSucceeds == failure # "timer_read"
=============================================================================
