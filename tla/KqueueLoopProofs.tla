-------------------------- MODULE KqueueLoopProofs --------------------------
(***************************************************************************)
(* The macOS build, for any number of callers, addresses, descriptors,     *)
(* requests and slots: it implements the request path, its own wake-ups    *)
(* are never lost and its filters follow libcurl.                          *)
(***************************************************************************)
EXTENDS KqueueLoop, RequestPathProofs, FiniteSetTheorems

\* libcurl waits on open sockets only, for things it has asked for.
WantInv == \A s \in Fds : want[s] \subseteq asked[s] /\ (s \notin open => want[s] = {})

\* All that was asked for on a registered socket is there, but for what was refused.
AskedInv == \A s \in Fds : want[s] # {} => asked[s] \ lost[s] \subseteq filters[s]

SocketInv == WantInv /\ AskedInv /\ LeftoverFilters

\* The types of the event loop's own state.
KqueueTypeOK ==
  /\ triggered \in BOOLEAN
  /\ batch \subseteq Events /\ Cardinality(batch) <= MaxEvents
  /\ open \subseteq Fds
  /\ filters \in [Fds -> Polls] /\ want \in [Fds -> Polls]
  /\ asked \in [Fds -> Polls] /\ lost \in [Fds -> Polls]

SocketStep ==
  \E s \in Fds : Open(s) \/ Close(s) \/ SocketRemoved(s) \/ \E what \in Polls : SocketWanted(s, what)
-----------------------------------------------------------------------------
LEMMA EventsFinite == IsFiniteSet(Events)
<1>1. IsFiniteSet(Filters)
  <2>1. IsFiniteSet({"read"})
    BY FS_Singleton
  <2>2. IsFiniteSet({"read"} \cup {"write"})
    BY <2>1, FS_AddElement
  <2>3. Filters = {"read"} \cup {"write"}
    BY DEF Filters
  <2>4. QED BY <2>2, <2>3
<1>2. IsFiniteSet(Fds \X Filters)
  BY <1>1, FS_Product, ConstantsAssumption
<1>3. IsFiniteSet((Fds \X Filters \cup {UserEvent}) \cup {TimerEvent})
  BY <1>2, FS_AddElement
<1>4. Events = (Fds \X Filters \cup {UserEvent}) \cup {TimerEvent}
  BY DEF Events
<1>5. QED BY <1>3, <1>4

\* A dispatched event leaves a batch no larger than before.
LEMMA BatchShrinks ==
  ASSUME KqueueTypeOK, NEW e
  PROVE  batch \ {e} \subseteq Events /\ Cardinality(batch \ {e}) <= MaxEvents
<1>1. IsFiniteSet(batch)
  BY EventsFinite, FS_Subset DEF KqueueTypeOK
<1>2. /\ Cardinality(batch) \in Nat
      /\ Cardinality(batch \ {e}) = IF e \in batch THEN Cardinality(batch) - 1 ELSE Cardinality(batch)
  BY <1>1, FS_RemoveElement, FS_CardinalityType
<1>3. MaxEvents \in Nat
  BY ConstantsAssumption
<1>4. QED BY <1>2, <1>3 DEF KqueueTypeOK

\* kevent fills a batch, with the user event only when it was active.
LEMMA KeventBatch ==
  ASSUME Kevent
  PROVE  /\ batch' \subseteq Events /\ Cardinality(batch') <= MaxEvents
         /\ UserEvent \in batch' => triggered
<1>1. PICK sockets \in SUBSET SocketEvents : \E events \in SUBSET Active(sockets) :
        /\ Cardinality(events) <= MaxEvents \/ Cardinality(events) = MaxEvents
        /\ batch' = events
  BY DEF Kevent, KeventReturns
<1>2. MaxEvents \in Nat
  BY ConstantsAssumption
<1>3. batch' \subseteq Active(sockets) /\ Cardinality(batch') <= MaxEvents
  BY <1>1, <1>2
<1>4. sockets \subseteq Fds \X Filters
  BY <1>1 DEF SocketEvents
<1>5. UserEvent \notin sockets /\ UserEvent # TimerEvent
  BY <1>4, ConstantsAssumption
<1>6. QED BY <1>3, <1>4, <1>5 DEF Active, Events

\* RemoveSockInfo takes READ out; WRITE outlives it only where READ was not there.
LEMMA RemoveFacts ==
  ASSUME KqueueTypeOK, NEW s \in Fds, RemoveSockInfo(s)
  PROVE  /\ filters' \in [Fds -> Polls]
         /\ \A t \in Fds \ {s} : filters'[t] = filters[t]
         /\ s # 0 => /\ "read" \notin filters'[s]
                     /\ "write" \in filters'[s] => "read" \notin filters[s]
<1>1. \A set \in Polls : /\ DeleteBoth(set) \in Polls /\ "read" \notin DeleteBoth(set)
                         /\ "write" \in DeleteBoth(set) => "read" \notin set
  BY DEF Polls, DeleteBoth
<1>2. CASE s = 0
  BY <1>2 DEF KqueueTypeOK, RemoveSockInfo
<1>3. CASE s # 0
  BY <1>1, <1>3 DEF KqueueTypeOK, RemoveSockInfo
<1>4. QED BY <1>2, <1>3

\* SetSockInfo adds what the kernel takes, and the history records what it refuses.
LEMMA WantedFacts ==
  ASSUME KqueueTypeOK, NEW s \in Fds, NEW what \in Polls, SocketWanted(s, what)
  PROVE  \E added \in SUBSET what :
           /\ filters' = [filters EXCEPT ![s] = @ \cup added]
           /\ want' = [want EXCEPT ![s] = what]
           /\ asked' = [asked EXCEPT ![s] = (IF want[s] = {} THEN {} ELSE asked[s]) \cup what]
           /\ lost' = [lost EXCEPT ![s] =
                ((IF want[s] = {} THEN {} ELSE lost[s]) \cup (what \ filters[s])) \ added]
           /\ s \in open /\ open' = open
BY DEF SocketWanted, SetSockInfo, Accepted
-----------------------------------------------------------------------------
\* The steps that leave the kqueue alone.
QuietSteps ==
  \/ \E c \in Callers : OpenClient(c) \/ CloseClient(c) \/ Submit(c) \/ Return(c)
  \/ TimerExpires
  \/ SharedSteps

\* Every step of the loop is a step of the request path or leaves it alone.
LEMMA StepOfPath == IInv /\ [Next]_vars => [PathNext]_pathVars
<1> SUFFICES ASSUME IInv, [Next]_vars PROVE [PathNext]_pathVars
  OBVIOUS
<1>0. timer \in Timers /\ {timer} \in SUBSET Timers /\ "armed" \in Timers /\ "expired" \in Timers
  BY DEF IInv, PathTypeOK, Timers
<1>1. ASSUME NEW c \in Callers, Notify(c) PROVE PathNext
  BY <1>1 DEF Notify, NotifyWith, PathNext
<1>2. CASE QuietSteps
  <2>1. TimerExpires => LoopSetsTimer("expired")
    BY DEF TimerExpires, LoopSetsTimer
  <2>2. QED BY <1>0, <1>2, <2>1 DEF QuietSteps, SharedSteps, PathNext
<1>3. CASE SocketStep \/ UNCHANGED vars
  BY <1>3 DEF SocketStep, Open, Close, SocketRemoved, SocketWanted, vars
<1>4. CASE Kevent
  <2>1. PICK t \in Timers : LoopSetsTimer(t)
    BY <1>0, <1>4 DEF Kevent, KeventReturns
  <2>2. QED BY <2>1 DEF PathNext
<1>5. ASSUME NEW e \in Events, CallCurl(e) PROVE PathNext
  <2>1. (e = TimerEvent) \in BOOLEAN
    OBVIOUS
  <2>2. QED BY <1>0, <1>5, <2>1 DEF CallCurl, PathNext
<1>6. CASE DispatchUser
  BY <1>6 DEF DispatchUser, PathNext
<1>7. QED
  BY <1>1, <1>2, <1>3, <1>4, <1>5, <1>6 DEF Next, Background, QuietSteps, SocketStep

\* The loop's own variables stay in their types.
LEMMA KqueueTypeStep == KqueueTypeOK /\ [Next]_vars => KqueueTypeOK'
<1> SUFFICES ASSUME KqueueTypeOK, [Next]_vars PROVE KqueueTypeOK'
  OBVIOUS
<1> USE DEF kqueueVars, socketVars
<1>1. ASSUME NEW c \in Callers, Notify(c) PROVE KqueueTypeOK'
  BY <1>1 DEF Notify, NotifyWith, KqueueTypeOK
<1>2. CASE UNCHANGED kqueueVars
  BY <1>2 DEF KqueueTypeOK
<1>3. ASSUME NEW s \in Fds, Open(s) \/ Close(s) PROVE KqueueTypeOK'
  <2>1. {} \in Polls
    BY DEF Polls
  <2>2. QED BY <1>3, <2>1 DEF Open, Close, KqueueTypeOK
<1>4. ASSUME NEW s \in Fds, SocketRemoved(s) PROVE KqueueTypeOK'
  <2>1. {} \in Polls /\ filters' \in [Fds -> Polls]
    BY <1>4, RemoveFacts DEF SocketRemoved, Polls
  <2>2. QED BY <1>4, <2>1 DEF SocketRemoved, KqueueTypeOK
<1>5. ASSUME NEW s \in Fds, NEW what \in Polls, SocketWanted(s, what) PROVE KqueueTypeOK'
  <2>1. \A A \in SUBSET Filters : A \in Polls
    BY DEF Filters, Polls
  <2>2. \A A \in Polls : A \in SUBSET Filters
    BY DEF Filters, Polls
  <2>3. filters[s] \in SUBSET Filters /\ asked[s] \in SUBSET Filters /\ lost[s] \in SUBSET Filters
        /\ what \in SUBSET Filters
    BY <2>2 DEF KqueueTypeOK
  <2>4. PICK added \in SUBSET what :
           /\ filters' = [filters EXCEPT ![s] = @ \cup added]
           /\ want' = [want EXCEPT ![s] = what]
           /\ asked' = [asked EXCEPT ![s] = (IF want[s] = {} THEN {} ELSE asked[s]) \cup what]
           /\ lost' = [lost EXCEPT ![s] =
                ((IF want[s] = {} THEN {} ELSE lost[s]) \cup (what \ filters[s])) \ added]
           /\ s \in open /\ open' = open
    BY <1>5, WantedFacts
  <2>5. filters[s] \cup added \in SUBSET Filters
        /\ (IF want[s] = {} THEN {} ELSE asked[s]) \cup what \in SUBSET Filters
        /\ ((IF want[s] = {} THEN {} ELSE lost[s]) \cup (what \ filters[s])) \ added \in SUBSET Filters
    BY <2>3
  <2>6. QED BY <1>5, <2>1, <2>4, <2>5 DEF SocketWanted, KqueueTypeOK
<1>6. CASE Kevent
  BY <1>6, KeventBatch DEF Kevent, KeventReturns, KqueueTypeOK
<1>7. ASSUME NEW e \in Events, CallCurl(e) PROVE KqueueTypeOK'
  BY <1>7, BatchShrinks DEF CallCurl, KqueueTypeOK
<1>8. CASE DispatchUser
  BY <1>8, BatchShrinks DEF DispatchUser, KqueueTypeOK
<1>9. QED
  BY <1>1, <1>2, <1>3, <1>4, <1>5, <1>6, <1>7, <1>8 DEF Next, Background, vars

\* The filters follow libcurl.
LEMMA SocketsStep == KqueueTypeOK /\ SocketInv /\ [Next]_vars => SocketInv'
<1> SUFFICES ASSUME KqueueTypeOK, SocketInv, [Next]_vars PROVE SocketInv'
  OBVIOUS
<1> USE DEF SocketInv, WantInv, AskedInv, LeftoverFilters
<1>1. ASSUME NEW s \in Fds, Open(s) PROVE SocketInv'
  BY <1>1 DEF Open, KqueueTypeOK
<1>2. ASSUME NEW s \in Fds, Close(s) PROVE SocketInv'
  <2>1. \A t \in Fds : filters'[t] = IF t = s THEN {} ELSE filters[t]
    BY <1>2 DEF Close, KqueueTypeOK
  <2>2. QED BY <1>2, <2>1 DEF Close
<1>3. ASSUME NEW s \in Fds, SocketRemoved(s) PROVE SocketInv'
  <2>1. /\ \A t \in Fds \ {s} : want'[t] = want[t] /\ filters'[t] = filters[t]
        /\ want'[s] = {} /\ want[s] # {} /\ UNCHANGED <<open, asked, lost>>
        /\ s # 0 => /\ "read" \notin filters'[s]
                    /\ "write" \in filters'[s] => "read" \notin filters[s]
    BY <1>3, RemoveFacts DEF SocketRemoved, KqueueTypeOK
  <2>2. "read" \notin filters[s] => "read" \notin asked[s] \ lost[s]
    BY <2>1
  <2>3. QED BY <2>1, <2>2
<1>4. ASSUME NEW s \in Fds, NEW what \in Polls, SocketWanted(s, what) PROVE SocketInv'
  <2>1. PICK added \in SUBSET what :
           /\ filters' = [filters EXCEPT ![s] = @ \cup added]
           /\ want' = [want EXCEPT ![s] = what]
           /\ asked' = [asked EXCEPT ![s] = (IF want[s] = {} THEN {} ELSE asked[s]) \cup what]
           /\ lost' = [lost EXCEPT ![s] =
                ((IF want[s] = {} THEN {} ELSE lost[s]) \cup (what \ filters[s])) \ added]
           /\ s \in open /\ open' = open
    BY <1>4, WantedFacts
  <2>2. /\ \A t \in Fds \ {s} : /\ filters'[t] = filters[t] /\ want'[t] = want[t]
                                /\ asked'[t] = asked[t] /\ lost'[t] = lost[t]
        /\ filters'[s] = filters[s] \cup added /\ want'[s] = what /\ what # {}
        /\ asked'[s] = (IF want[s] = {} THEN {} ELSE asked[s]) \cup what
        /\ lost'[s] = ((IF want[s] = {} THEN {} ELSE lost[s]) \cup (what \ filters[s])) \ added
    BY <1>4, <2>1 DEF SocketWanted, KqueueTypeOK
  <2>3. WantInv'
    BY <2>1, <2>2
  <2>4. AskedInv'
    BY <2>1, <2>2
  <2>5. LeftoverFilters'
    BY <2>1, <2>2
  <2>6. QED BY <2>3, <2>4, <2>5
<1>5. CASE UNCHANGED socketVars
  BY <1>5 DEF socketVars
<1>6. SocketStep \/ UNCHANGED socketVars
  BY DEF Next, SocketStep, vars, kqueueVars, Background, Notify, NotifyWith, Kevent, KeventReturns,
         CallCurl, DispatchUser
<1>7. QED BY <1>1, <1>2, <1>3, <1>4, <1>5, <1>6 DEF SocketStep
-----------------------------------------------------------------------------
\* The constructor registers the user event and nothing else.
LEMMA Initially == Init => IInv /\ KqueueTypeOK /\ SocketInv
<1> SUFFICES ASSUME Init PROVE IInv /\ KqueueTypeOK /\ SocketInv
  OBVIOUS
<1>1. \E t \in Timers : PathInit(t)
  BY DEF Init, Timers
<1>2. IInv
  BY <1>1, PathInitially
<1>3. batch = {} /\ Cardinality({}) <= MaxEvents /\ {} \in Polls
  BY FS_EmptySet, ConstantsAssumption DEF Init, Polls
<1>4. KqueueTypeOK
  BY <1>3 DEF Init, KqueueTypeOK
<1>5. SocketInv
  BY DEF Init, SocketInv, WantInv, AskedInv, LeftoverFilters
<1>6. QED BY <1>2, <1>4, <1>5

\* The three invariants together are inductive for the macOS build.
LEMMA Invariance == Spec => [](IInv /\ KqueueTypeOK /\ SocketInv)
<1>1. (IInv /\ KqueueTypeOK /\ SocketInv) /\ [Next]_vars => (IInv /\ KqueueTypeOK /\ SocketInv)'
  BY StepOfPath, PathStep, KqueueTypeStep, SocketsStep
<1>2. QED BY <1>1, Initially, PTL DEF Spec

\* The macOS build is a request path under an event loop, so that every theorem about
\* PathSpec is one about it.
THEOREM KqueueImplementsPath == Spec => PathSpec
<1>1. Init => \E t \in Timers : PathInit(t)
  BY DEF Init, Timers
<1>2. QED BY <1>1, Invariance, StepOfPath, PTL DEF Spec, PathSpec

\* Every variable stays in its type; a batch fits in the array given to kevent.
THEOREM TypeCorrect == Spec => []TypeOK
<1>1. IInv /\ KqueueTypeOK => TypeOK
  BY DEF IInv, KqueueTypeOK, TypeOK
<1>2. QED BY <1>1, Invariance, PTL

\* On macOS, too, no assertion of CheckMulti fails, responses never cross, requests are never
\* dropped, and the early return exposes one finished transfer only.
THEOREM KqueueIsSafe ==
  Spec => [](/\ PathAssertionsHold /\ OwnResponse /\ TransferHasWaiter
             /\ BlockedHasRequest /\ ReleaseWindow /\ EntriesLive)
BY KqueueImplementsPath, PathAssertionsNeverFail, ResponsesNeverCross, TransfersHaveWaiters,
   RequestsNeverDropped, ReleaseWindowIsNarrow, NoDeadEntries, PTL

\* Seen through the refinement mapping, every behaviour of the macOS build is one of the
\* service: one response per request and the right one, or the death of the process
\* (the removal of a freed handle).
THEOREM KqueueImplementsService == Spec => ServiceSafety
BY KqueueImplementsPath, PathImplementsService, PTL

\* No event libcurl waits for is missing in the kqueue, unless the kernel refused it.
THEOREM FiltersSuffice == Spec => []NothingMissed
<1>1. SocketInv => NothingMissed
  BY DEF SocketInv, WantInv, AskedInv, NothingMissed
<1>2. QED BY <1>1, Invariance, PTL

\* Which filters outlive libcurl's interest: never READ, and WRITE exactly where the
\* deletion of READ failed.
THEOREM LeftoversAreWriteOnly == Spec => []LeftoverFilters
<1>1. SocketInv => LeftoverFilters
  BY DEF SocketInv
<1>2. QED BY <1>1, Invariance, PTL

\* A queued request always has a wake-up ahead of it, although the user event is cleared
\* when it is returned and merges triggers.
THEOREM WakeupsNeverLost == Spec => []NoLostWakeup
<1>1. Init => NoLostWakeup
  BY DEF Init, PathInit, NoLostWakeup
<1>2. IInv /\ NoLostWakeup /\ [Next]_vars => NoLostWakeup'
  <2> SUFFICES ASSUME IInv, NoLostWakeup, [Next]_vars PROVE NoLostWakeup'
    OBVIOUS
  <2>0. PathTypeOK
    BY DEF IInv
  <2> USE <2>0 DEF NoLostWakeup
  <2>a. ASSUME UNCHANGED <<pc, pending, triggered>>, UserEvent \in batch => UserEvent \in batch',
               bg \in {"drain", "add"} => bg' \in {"drain", "add"}
        PROVE  NoLostWakeup'
    BY <2>a
  <2>1. ASSUME NEW c \in Callers, OpenClient(c) \/ CloseClient(c), UNCHANGED kqueueVars
        PROVE  NoLostWakeup'
    BY <2>1, <2>a DEF OpenClient, CloseClient, kqueueVars
  <2>2. ASSUME NEW c \in Callers, Submit(c) PROVE NoLostWakeup'
    BY <2>2 DEF Submit, PathTypeOK
  <2>3. ASSUME NEW c \in Callers, Notify(c) PROVE NoLostWakeup'
    BY <2>3 DEF Notify, NotifyWith, Notified
  <2>4. ASSUME NEW c \in Callers, Return(c), UNCHANGED kqueueVars PROVE NoLostWakeup'
    BY <2>4 DEF Return, kqueueVars, PathTypeOK
  <2>5. CASE (TimerExpires /\ UNCHANGED kqueueVars) \/ SocketStep \/ UNCHANGED vars
    BY <2>5, <2>a DEF TimerExpires, SocketStep, Open, Close, SocketRemoved, SocketWanted, vars,
                      kqueueVars, pathVars, callerVars
  <2>6. ASSUME NEW e \in Events, CallCurl(e) PROVE NoLostWakeup'
    BY <2>6, <2>a DEF CallCurl, SocketAction, callerVars
  <2>7. CASE Kevent
    BY <2>7, KeventBatch DEF Kevent, KeventReturns, LoopSetsTimer, callerVars
  <2>8. CASE DispatchUser \/ AddHandle \/ PopPending \/ PendingEmpty
    BY <2>8 DEF DispatchUser, StartDrain, AddHandle, AddCurrent, PopPending, PendingEmpty
  <2>9. ASSUME Detach \/ (\E e \in Easies : Deliver(e)), UNCHANGED kqueueVars PROVE NoLostWakeup'
    BY <2>9, <2>a DEF Detach, Deliver, FulfilFrom, kqueueVars, callerVars
  <2>10. ASSUME CheckMultiEnd(timer), UNCHANGED kqueueVars PROVE NoLostWakeup'
    BY <2>10, <2>a DEF CheckMultiEnd, kqueueVars, callerVars
  <2>11. QED
    BY <2>1, <2>2, <2>3, <2>4, <2>5, <2>6, <2>7, <2>8, <2>9, <2>10
       DEF Next, Background, SharedSteps, SocketStep
<1>3. QED BY <1>1, <1>2, Invariance, PTL DEF Spec

\* The kqueue's timer is never off while libcurl has a timeout to be told about: it is
\* periodic, and only MultiTimerCallback takes it out.
THEOREM TransfersHaveTimers == Spec => []TransferHasTimer
<1>1. Init => TransferHasTimer
  BY DEF Init, PathInit, TransferHasTimer, WithTimeout
<1>2. IInv /\ TransferHasTimer /\ [Next]_vars => TransferHasTimer'
  <2> SUFFICES ASSUME IInv, TransferHasTimer, [Next]_vars PROVE TransferHasTimer'
    OBVIOUS
  <2>0. {timer} \in SUBSET Timers
    BY DEF IInv, PathTypeOK
  <2>1. CASE TimerExpires
    BY <2>1 DEF TimerExpires, TransferHasTimer
  <2>2. CASE SocketStep \/ UNCHANGED vars
    BY <2>2, TimerOfSharedStep DEF SocketStep, Open, Close, SocketRemoved, SocketWanted, vars
  <2>3. CASE Kevent
    <3>1. timer' \in {timer, "armed"} /\ UNCHANGED <<stage, ongoing>>
      BY <2>3 DEF Kevent, KeventReturns, LoopSetsTimer, curlVars
    <3>2. WithTimeout(stage)' = WithTimeout(stage)
      BY <3>1 DEF WithTimeout
    <3>3. QED BY <3>1, <3>2 DEF TransferHasTimer
  <2>4. ASSUME NEW e \in Events, CallCurl(e) PROVE TransferHasTimer'
    <3>1. (e = TimerEvent) \in BOOLEAN
      OBVIOUS
    <3>2. QED BY <2>0, <2>4, <3>1, TimerOfSocketAction DEF CallCurl
  <2>5. CASE DispatchUser
    <3>1. PICK fail \in {failure} \cup LoopFailures : StartDrain(fail)
      BY <2>5 DEF DispatchUser
    <3>2. QED BY <3>1, TimerOfSharedStep DEF SharedStep
  <2>6. CASE CheckMultiEnd(timer)
    <3>1. UNCHANGED <<timer, stage, ongoing>>
      BY <2>6 DEF CheckMultiEnd, curlVars
    <3>2. WithTimeout(stage)' = WithTimeout(stage)
      BY <3>1 DEF WithTimeout
    <3>3. QED BY <3>1, <3>2 DEF TransferHasTimer
  <2>7. ASSUME NEW c \in Callers, Notify(c) PROVE TransferHasTimer'
    BY <2>7, TimerOfSharedStep DEF Notify, NotifyWith, SharedStep
  <2>8. CASE SharedSteps \/ \E c \in Callers : OpenClient(c) \/ CloseClient(c) \/ Submit(c) \/ Return(c)
    BY <2>6, <2>8, TimerOfSharedStep DEF SharedSteps, SharedStep
  <2>9. QED
    BY <2>1, <2>2, <2>3, <2>4, <2>5, <2>7, <2>8 DEF Next, Background, SocketStep
<1>3. QED BY <1>1, <1>2, Invariance, PTL DEF Spec
=============================================================================
