----------------------- MODULE MultiCurlManagerProofs -----------------------
(***************************************************************************)
(* The Linux build, for every number of callers, addresses, requests and   *)
(* slots: it implements the request path, and its own wake-ups are never   *)
(* lost.                                                                   *)
(***************************************************************************)
EXTENDS MultiCurlManager, RequestPathProofs

\* g->still_running is up to date while EventCallback is going to look at it.
StillRunningInv ==
  bg \in {"check", "detach"} => (stillRunning <=> Alive(stage) # {})

\* An event_fd event that is still to be dispatched finds the counter positive.
EventInv == EventFd \in batch => eventfd > 0

\* The types of the event loop's own state.
EpollTypeOK ==
  /\ eventfd \in Nat /\ readable \in SUBSET Easies /\ batch \in SUBSET Sources
  /\ viaSocket \in BOOLEAN /\ stillRunning \in BOOLEAN

LoopInv == EpollTypeOK /\ StillRunningInv /\ EventInv /\ failure # "event_read"
-----------------------------------------------------------------------------
\* A step that leaves the event loop's own state alone is one of these.
QuietSteps ==
  \/ \E c \in Callers : OpenClient(c) \/ CloseClient(c) \/ Submit(c) \/ Return(c)
  \/ TimerExpires
  \/ SharedSteps

\* Every step of the loop is a step of the request path or leaves it alone.
LEMMA StepOfPath == IInv /\ [Next]_vars => [PathNext]_pathVars
<1> SUFFICES ASSUME IInv, [Next]_vars PROVE [PathNext]_pathVars
  OBVIOUS
<1>0. timer \in Timers /\ {} \in SUBSET Timers /\ {timer} \in SUBSET Timers
      /\ "off" \in Timers /\ "expired" \in Timers
  BY DEF IInv, PathTypeOK, Timers
<1>1. ASSUME NEW c \in Callers, Notify(c) PROVE PathNext
  BY <1>1 DEF Notify, PathNext
<1>2. CASE QuietSteps
  <2>1. TimerExpires => LoopSetsTimer("expired")
    BY DEF TimerExpires, LoopSetsTimer
  <2>2. QED BY <1>0, <1>2, <2>1 DEF QuietSteps, SharedSteps, PathNext
<1>3. CASE EpollWait \/ (\E e \in Easies : SocketReady(e)) \/ UNCHANGED vars
  BY <1>3 DEF EpollWait, SocketReady, vars
<1>4. CASE TimerCallback
  BY <1>0, <1>4 DEF TimerCallback, PathNext
<1>5. ASSUME NEW e \in Easies, EventCallback(e) PROVE PathNext
  BY <1>0, <1>5 DEF EventCallback, PathNext
<1>6. CASE TimerCallbackOnRearmedTimer
  BY <1>6 DEF TimerCallbackOnRearmedTimer, PathNext, LoopFailures
<1>7. CASE DispatchEventFd
  <2>1. PICK fail \in {failure} \cup LoopFailures : StartDrain(fail)
    BY <1>7 DEF DispatchEventFd, LoopFailures
  <2>2. QED BY <2>1 DEF PathNext
<1>8. CASE CheckMultiReturns
  <2>1. PICK t \in Timers : CheckMultiEnd(t)
    BY <1>0, <1>8 DEF CheckMultiReturns
  <2>2. QED BY <2>1 DEF PathNext
<1>9. QED
  BY <1>1, <1>2, <1>3, <1>4, <1>5, <1>6, <1>7, <1>8 DEF Next, Background, QuietSteps

\* The transfers libcurl works on do not change behind CheckMulti's back.
LEMMA AliveKept ==
  ASSUME IInv, QuietSteps, bg' \in {"check", "detach"}
  PROVE  bg \in {"check", "detach"} /\ Alive(stage') = Alive(stage)
<1>0. PathTypeOK
  BY DEF IInv
<1>1. ASSUME NEW c \in Callers, OpenClient(c) \/ Submit(c) \/ Return(c)
      PROVE  bg' = bg /\ stage' = stage
  BY <1>1 DEF OpenClient, Submit, Return, curlVars
<1>2. ASSUME NEW c \in Callers, CloseClient(c) PROVE bg' = bg /\ Alive(stage') = Alive(stage)
  <2>1. ~Waiting(c) /\ handle[c] # None
    BY <1>2 DEF CloseClient, Waiting
  <2>2. handle[c] \in Easies /\ stage[handle[c]] \in {"out", "done"}
    BY <2>1, IdleHandleNotAlive
  <2>3. stage' = [stage EXCEPT ![handle[c]] = "out"] /\ bg' = bg
    BY <1>2 DEF CloseClient, LeaveMulti
  <2>4. QED BY <1>0, <2>2, <2>3 DEF Alive, PathTypeOK
<1>3. CASE TimerExpires
  BY <1>3 DEF TimerExpires, curlVars
<1>4. CASE PopPending \/ PendingEmpty \/ AddHandle
  BY <1>4 DEF PopPending, PendingEmpty, AddHandle, AddCurrent
<1>5. ASSUME NEW e \in Easies, Deliver(e) PROVE bg = "check" /\ stage' = stage
  BY <1>5 DEF Deliver, FulfilFrom, curlVars
<1>6. CASE Detach
  <2>1. current.easy \in Easies /\ stage[current.easy] \in {"done", "out"}
    BY <1>6 DEF Detach, IInv, PathTypeOK, Request, LeavingInv
  <2>2. stage' = [stage EXCEPT ![current.easy] = "out"] /\ bg = "detach"
    BY <1>6 DEF Detach, LeaveMulti
  <2>3. QED BY <1>0, <2>1, <2>2 DEF Alive, PathTypeOK
<1>7. QED BY <1>1, <1>2, <1>3, <1>4, <1>5, <1>6 DEF QuietSteps, SharedSteps

\* No quiet step fails for want of an event.
LEMMA QuietFailure ==
  ASSUME IInv, QuietSteps, failure # "event_read"
  PROVE  failure' # "event_read"
<1>1. CASE TimerExpires \/ \E c \in Callers : OpenClient(c) \/ CloseClient(c) \/ Submit(c) \/ Return(c)
  BY <1>1 DEF TimerExpires, OpenClient, CloseClient, Submit, Return
<1>2. CASE SharedSteps
  BY <1>2 DEF SharedSteps, PopPending, PendingEmpty, AddHandle, AddCurrent, Deliver, FulfilFrom,
              Detach, Erase
<1>3. QED BY <1>1, <1>2 DEF QuietSteps

\* Every step keeps the counter, the batch and still_running in agreement.
LEMMA LoopInvStep == IInv /\ LoopInv /\ [Next]_vars => LoopInv'
<1> SUFFICES ASSUME IInv, LoopInv, [Next]_vars PROVE LoopInv'
  OBVIOUS
<1>0. PathTypeOK /\ EpollTypeOK
  BY DEF IInv, LoopInv
<1> USE <1>0
<1>1. ASSUME NEW c \in Callers, Notify(c) PROVE LoopInv'
  BY <1>1 DEF Notify, Notified, curlVars, LoopInv, EpollTypeOK, StillRunningInv, EventInv, Alive
<1>2. ASSUME QuietSteps, UNCHANGED epollVars PROVE LoopInv'
  <2>1. EpollTypeOK' /\ EventInv'
    BY <1>2 DEF epollVars, LoopInv, EpollTypeOK, EventInv
  <2>2. StillRunningInv'
    BY <1>2, AliveKept DEF epollVars, LoopInv, StillRunningInv, Alive
  <2>3. failure' # "event_read"
    BY <1>2, QuietFailure DEF LoopInv
  <2>4. QED BY <2>1, <2>2, <2>3 DEF LoopInv
<1>3. ASSUME NEW e \in Easies, SocketReady(e) PROVE LoopInv'
  BY <1>3 DEF SocketReady, pathVars, curlVars, LoopInv, EpollTypeOK, StillRunningInv, EventInv, Alive
<1>4. CASE EpollWait
  <2>1. Ready \in SUBSET Sources /\ (EventFd \in Ready => eventfd > 0)
    BY ConstantsAssumption DEF Ready, Sources, EpollTypeOK
  <2>2. batch' \in SUBSET Ready
    BY <1>4 DEF EpollWait
  <2>3. QED BY <1>4, <2>1, <2>2 DEF EpollWait, pathVars, curlVars, LoopInv, EpollTypeOK,
                                    StillRunningInv, EventInv, Alive
<1>5. ASSUME NEW fd, NEW keep \in SUBSET Timers, NEW timeout \in BOOLEAN, CurlCalled(fd),
             SocketAction(keep, timeout), viaSocket' \in BOOLEAN
      PROVE  LoopInv'
  BY <1>5 DEF CurlCalled, SocketAction, LoopInv, EpollTypeOK, StillRunningInv, EventInv, Alive
<1>6. CASE TimerCallback
  <2>1. {} \in SUBSET Timers
    OBVIOUS
  <2>2. QED BY <1>5, <1>6, <2>1 DEF TimerCallback
<1>7. ASSUME NEW e \in Easies, EventCallback(e) PROVE LoopInv'
  <2>1. {timer} \in SUBSET Timers
    BY DEF PathTypeOK
  <2>2. QED BY <1>5, <1>7, <2>1 DEF EventCallback
<1>8. CASE TimerCallbackOnRearmedTimer
  BY <1>8 DEF TimerCallbackOnRearmedTimer, LoopFails, epollVars, curlVars, LoopInv, EpollTypeOK,
              StillRunningInv, EventInv, Alive
<1>9. CASE DispatchEventFd
  BY <1>9 DEF DispatchEventFd, StartDrain, LoopInv, EpollTypeOK, StillRunningInv, EventInv
<1>10. CASE CheckMultiReturns
  BY <1>10 DEF CheckMultiReturns, CheckMultiEnd, epollVars, LoopInv, EpollTypeOK, StillRunningInv,
               EventInv
<1>11. CASE UNCHANGED vars
  BY <1>11 DEF vars, epollVars, pathVars, curlVars, LoopInv, EpollTypeOK, StillRunningInv, EventInv,
               Alive
<1>12. QED
  BY <1>1, <1>2, <1>3, <1>4, <1>6, <1>7, <1>8, <1>9, <1>10, <1>11
     DEF Next, Background, QuietSteps
-----------------------------------------------------------------------------
\* The constructor arms the timer and leaves everything else empty.
LEMMA Initially == Init => IInv /\ LoopInv
<1> SUFFICES ASSUME Init PROVE IInv /\ LoopInv
  OBVIOUS
<1>1. \E t \in Timers : PathInit(t)
  BY DEF Init, Timers
<1>2. IInv
  BY <1>1, PathInitially
<1>3. LoopInv
  BY DEF Init, PathInit, LoopInv, EpollTypeOK, StillRunningInv, EventInv
<1>4. QED BY <1>2, <1>3

\* The two invariants together are inductive for the Linux build.
LEMMA Invariance == Spec => [](IInv /\ LoopInv)
<1>1. (IInv /\ LoopInv) /\ [Next]_vars => (IInv /\ LoopInv)'
  BY StepOfPath, PathStep, LoopInvStep
<1>2. QED BY <1>1, Initially, PTL DEF Spec

\* The Linux build is a request path under an event loop, so that every theorem about
\* PathSpec is one about it.
THEOREM ManagerImplementsPath == Spec => PathSpec
<1>1. Init => \E t \in Timers : PathInit(t)
  BY DEF Init, Timers
<1>2. QED BY <1>1, Invariance, StepOfPath, PTL DEF Spec, PathSpec

\* Every variable stays in its type.
THEOREM TypeCorrect == Spec => []TypeOK
<1>1. IInv /\ LoopInv => TypeOK
  BY DEF IInv, LoopInv, EpollTypeOK, TypeOK
<1>2. QED BY <1>1, Invariance, PTL

\* None of the ALWAYS_ASSERTs on the request path fails but the one on timer_fd, for any
\* number of callers and addresses: event_fd is never found empty either.
THEOREM AssertionsNeverFail == Spec => []AssertionsHold
<1>1. IInv /\ LoopInv => AssertionsHold
  BY DEF IInv, LoopInv, AssertionsHold
<1>2. QED BY <1>1, Invariance, PTL

\* On Linux responses never cross, requests are never dropped, libcurl never works on a
\* handle whose owner is free, and the entries of ongoing_requests are live.
THEOREM ManagerIsSafe ==
  Spec => [](OwnResponse /\ TransferHasWaiter /\ BlockedHasRequest /\ ReleaseWindow /\ EntriesLive)
BY ManagerImplementsPath, ResponsesNeverCross, TransfersHaveWaiters, RequestsNeverDropped,
   ReleaseWindowIsNarrow, NoDeadEntries, PTL

\* Seen through the refinement mapping, every behaviour of the Linux build is one of the
\* service: one response per request and the right one, or the death of the process.
THEOREM ManagerImplementsService == Spec => ServiceSafety
BY ManagerImplementsPath, PathImplementsService, PTL

\* A queued request always has a wake-up ahead of it: the write to event_fd that is
\* not yet read, the write still to come, or the draining loop itself.
THEOREM WakeupsNeverLost == Spec => []NoLostWakeup
<1>1. Init => NoLostWakeup
  BY DEF Init, PathInit, NoLostWakeup
<1>2. IInv /\ LoopInv /\ NoLostWakeup /\ [Next]_vars => NoLostWakeup'
  <2> SUFFICES ASSUME IInv, LoopInv, NoLostWakeup, [Next]_vars PROVE NoLostWakeup'
    OBVIOUS
  <2>0. PathTypeOK /\ eventfd \in Nat
    BY DEF IInv, LoopInv, EpollTypeOK
  <2> USE <2>0 DEF NoLostWakeup
  <2>a. ASSUME UNCHANGED <<pc, pending, eventfd>>, bg \in {"drain", "add"} => bg' \in {"drain", "add"}
        PROVE  NoLostWakeup'
    BY <2>a
  <2>1. ASSUME NEW c \in Callers, OpenClient(c) \/ CloseClient(c), UNCHANGED epollVars
        PROVE  NoLostWakeup'
    BY <2>1, <2>a DEF OpenClient, CloseClient, epollVars
  <2>2. ASSUME NEW c \in Callers, Submit(c) PROVE NoLostWakeup'
    BY <2>2 DEF Submit, PathTypeOK
  <2>3. ASSUME NEW c \in Callers, Notify(c) PROVE NoLostWakeup'
    BY <2>3 DEF Notify, Notified
  <2>4. ASSUME NEW c \in Callers, Return(c), UNCHANGED epollVars PROVE NoLostWakeup'
    BY <2>4 DEF Return, epollVars, PathTypeOK
  <2>5. CASE (TimerExpires /\ UNCHANGED epollVars) \/ EpollWait \/ \E e \in Easies : SocketReady(e)
    BY <2>5, <2>a DEF TimerExpires, EpollWait, SocketReady, epollVars, pathVars, callerVars
  <2>6. CASE TimerCallback \/ \E e \in Easies : EventCallback(e)
    BY <2>6, <2>a DEF TimerCallback, EventCallback, SocketAction, CurlCalled, callerVars
  <2>7. CASE TimerCallbackOnRearmedTimer \/ UNCHANGED vars
    BY <2>7, <2>a DEF TimerCallbackOnRearmedTimer, LoopFails, vars, epollVars, pathVars, callerVars
  <2>8. CASE DispatchEventFd \/ AddHandle \/ PopPending \/ PendingEmpty
    BY <2>8 DEF DispatchEventFd, StartDrain, AddHandle, AddCurrent, PopPending, PendingEmpty
  <2>9. ASSUME Detach \/ (\E e \in Easies : Deliver(e)), UNCHANGED epollVars PROVE NoLostWakeup'
    BY <2>9, <2>a DEF Detach, Deliver, FulfilFrom, epollVars, callerVars
  <2>10. CASE CheckMultiReturns
    BY <2>10, <2>a DEF CheckMultiReturns, CheckMultiEnd, epollVars, callerVars
  <2>11. QED
    BY <2>1, <2>2, <2>3, <2>4, <2>5, <2>6, <2>7, <2>8, <2>9, <2>10
       DEF Next, Background, SharedSteps
<1>3. QED BY <1>1, <1>2, Invariance, PTL DEF Spec

\* timer_fd is never left disarmed while libcurl has a timeout to be told about.
THEOREM TransfersHaveTimers == Spec => []TransferHasTimer
<1>1. Init => TransferHasTimer
  BY DEF Init, PathInit, TransferHasTimer
<1>2. IInv /\ LoopInv /\ TransferHasTimer /\ [Next]_vars => TransferHasTimer'
  <2> SUFFICES ASSUME IInv, LoopInv, TransferHasTimer, [Next]_vars PROVE TransferHasTimer'
    OBVIOUS
  <2>0. {timer} \in SUBSET Timers /\ {} \in SUBSET Timers
    BY DEF IInv, PathTypeOK
  <2>1. CASE TimerExpires
    BY <2>1 DEF TimerExpires, TransferHasTimer
  <2>2. CASE EpollWait \/ (\E e \in Easies : SocketReady(e)) \/ UNCHANGED vars
    BY <2>2, TimerOfSharedStep DEF EpollWait, SocketReady, vars
  <2>3. CASE TimerCallback
    BY <2>0, <2>3, TimerOfSocketAction DEF TimerCallback
  <2>4. ASSUME NEW e \in Easies, EventCallback(e) PROVE TransferHasTimer'
    BY <2>0, <2>4, TimerOfSocketAction DEF EventCallback
  <2>5. CASE TimerCallbackOnRearmedTimer
    BY <2>5, TimerOfSharedStep DEF TimerCallbackOnRearmedTimer, SharedStep, LoopFailures
  <2>6. CASE DispatchEventFd
    <3>1. PICK fail \in {failure} \cup LoopFailures : StartDrain(fail)
      BY <2>6 DEF DispatchEventFd, LoopFailures
    <3>2. QED BY <3>1, TimerOfSharedStep DEF SharedStep
  <2>7. CASE CheckMultiReturns
    <3>1. WithTimeout(stage) \subseteq Alive(stage) /\ (Alive(stage) # {} => stillRunning)
      BY <2>7 DEF CheckMultiReturns, CheckMultiEnd, WithTimeout, Alive, LoopInv, StillRunningInv
    <3>2. UNCHANGED <<stage, ongoing>>
      BY <2>7 DEF CheckMultiReturns, CheckMultiEnd, curlVars
    <3>3. WithTimeout(stage)' = WithTimeout(stage)
      BY <3>2 DEF WithTimeout
    <3>4. stillRunning => timer' = timer
      BY <2>7 DEF CheckMultiReturns, CheckMultiEnd
    <3>5. QED BY <3>1, <3>3, <3>4 DEF TransferHasTimer
  <2>8. ASSUME NEW c \in Callers, Notify(c) PROVE TransferHasTimer'
    BY <2>8, TimerOfSharedStep DEF Notify, SharedStep
  <2>9. CASE SharedSteps \/ \E c \in Callers : OpenClient(c) \/ CloseClient(c) \/ Submit(c) \/ Return(c)
    BY <2>9, TimerOfSharedStep DEF SharedSteps, SharedStep
  <2>10. QED
    BY <2>1, <2>2, <2>3, <2>4, <2>5, <2>6, <2>7, <2>8, <2>9 DEF Next, Background
<1>3. QED BY <1>1, <1>2, Invariance, PTL DEF Spec
=============================================================================
