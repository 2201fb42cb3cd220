----------------------------- MODULE KqueueLoop -----------------------------
(***************************************************************************)
(* The macOS build of MultiCurlManager (the __APPLE__ branches of          *)
(* src/src/multi_curl_manager.cpp): the request path under a kqueue, which *)
(* holds one EVFILT_USER event for the callers, one EVFILT_TIMER for       *)
(* libcurl and READ and WRITE filters of libcurl's sockets.  libcurl calls *)
(* back, and opens and closes connections, in the calls that precede       *)
(* "check" and "detach"; nobody looks at the filters before the next       *)
(* kevent, so these steps are taken one by one at those two points.        *)
(***************************************************************************)
EXTENDS RequestPath

CONSTANTS
  Fds,          \* descriptors the kernel may give to libcurl's sockets
  MaxEvents,    \* slots of the array given to kevent (32 in the code)
  UserEvent, TimerEvent

Filters == {"read", "write"}                           \* EVFILT_READ, EVFILT_WRITE
Polls == {{"read"}, {"write"}, {"read", "write"}, {}}  \* CURL_POLL_*; {}: CURL_POLL_REMOVE
Events == {UserEvent, TimerEvent} \cup Fds \X Filters

ASSUME ConstantsAssumption ==
  /\ Fds \subseteq Nat /\ IsFiniteSet(Fds)
  /\ MaxEvents \in Nat \ {0}
  /\ UserEvent # TimerEvent
  /\ UserEvent \notin Fds \X Filters /\ TimerEvent \notin Fds \X Filters

VARIABLES
  triggered,  \* the EVFILT_USER event is active
  batch,      \* events of the last kevent still to be dispatched
  filters,    \* filters registered for each descriptor
  open,       \* descriptors of libcurl's connections
  want,       \* what libcurl last asked for
  asked,      \* history: all it has asked for since the socket was last added
  lost        \* history: what of it the kernel refused and does not have

socketVars == <<filters, open, want, asked, lost>>
kqueueVars == <<triggered, batch, socketVars>>
vars == <<pathVars, kqueueVars>>

TypeOK ==
  /\ PathTypeOK
  /\ triggered \in BOOLEAN
  /\ batch \subseteq Events /\ Cardinality(batch) <= MaxEvents
  /\ open \subseteq Fds
  /\ filters \in [Fds -> Polls] /\ want \in [Fds -> Polls]
  /\ asked \in [Fds -> Polls] /\ lost \in [Fds -> Polls]

\* The constructor: the user event is registered, and nothing else.
Init ==
  /\ PathInit("off")
  /\ triggered = FALSE /\ batch = {}
  /\ open = {}
  /\ filters = [s \in Fds |-> {}] /\ want = [s \in Fds |-> {}]
  /\ asked = [s \in Fds |-> {}] /\ lost = [s \in Fds |-> {}]
-----------------------------------------------------------------------------
\* Leave the user event in state active, and block.
NotifyWith(c, active) ==
  /\ Notified(c)
  /\ triggered' = active
  /\ UNCHANGED <<batch, socketVars>>

\* Seeded bug: nothing is triggered.
NotifySkipped(c) == NotifyWith(c, triggered)

\* HandleRequest: NOTE_TRIGGER; triggering an active event changes nothing.
Notify(c) == NotifyWith(c, TRUE)
-----------------------------------------------------------------------------
(***************************************************************************)
(* libcurl's sockets and the callbacks it makes.                           *)
(***************************************************************************)
InCurl == Running /\ bg \in {"check", "detach"}

\* The EV_ADDs of a kevent that take effect: READ comes first, and the first one that
\* fails (ENOMEM, say) ends the list; nobody looks at the result.
Accepted(what) == {{}, what \cap {"read"}, what}

\* Seeded bug: the filters are replaced by the ones of the other direction.
SetSockInfoWriteFirst(s, added) ==
  filters' = [filters EXCEPT ![s] = IF "write" \in added THEN {"write"} ELSE @ \cup added]

\* SetSockInfo: EV_ADD of what libcurl asks for; nothing is taken out.
SetSockInfo(s, added) == filters' = [filters EXCEPT ![s] = @ \cup added]

\* Seeded bug: WRITE is deleted first.
DeleteWriteFirst(set) == IF "write" \in set THEN {} ELSE set

\* kevent with two EV_DELETEs, READ first, and no room for errors: it stops at the
\* first change that fails, which is the deletion of a filter that is not there.
DeleteBoth(set) == IF "read" \in set THEN {} ELSE set

\* RemoveSockInfo, which takes descriptor 0 for "none yet".
RemoveSockInfo(s) ==
  filters' = IF s = 0 THEN filters ELSE [filters EXCEPT ![s] = DeleteBoth(@)]

\* SocketCallback: libcurl has no more use for a socket ...
SocketRemoved(s) ==
  /\ InCurl /\ s \in open /\ want[s] # {}
  /\ RemoveSockInfo(s)
  /\ want' = [want EXCEPT ![s] = {}]
  /\ UNCHANGED <<pathVars, triggered, batch, open, asked, lost>>

\* ... or asks for something else on it.  A socket that was not registered is a new
\* one (AddSockInfo).
SocketWanted(s, what) ==
  /\ InCurl /\ s \in open /\ what # want[s] /\ what # {}
  /\ LET before(h) == IF want[s] = {} THEN {} ELSE h[s] IN
     \E added \in Accepted(what) :
       /\ SetSockInfo(s, added)
       /\ asked' = [asked EXCEPT ![s] = before(asked) \cup what]
       /\ lost' = [lost EXCEPT ![s] = (before(lost) \cup (what \ filters[s])) \ added]
  /\ want' = [want EXCEPT ![s] = what]
  /\ UNCHANGED <<pathVars, triggered, batch, open>>

Open(s) ==
  /\ InCurl /\ s \notin open
  /\ open' = open \cup {s}
  /\ UNCHANGED <<pathVars, triggered, batch, filters, want, asked, lost>>

\* libcurl removes a socket before it closes it, and the kernel takes the filters of
\* a closed descriptor out.
Close(s) ==
  /\ InCurl /\ s \in open /\ want[s] = {}
  /\ open' = open \ {s}
  /\ filters' = [filters EXCEPT ![s] = {}]
  /\ UNCHANGED <<pathVars, triggered, batch, want, asked, lost>>
-----------------------------------------------------------------------------
(***************************************************************************)
(* The background thread: HandleEvent.                                     *)
(***************************************************************************)
\* What kevent may find active: its own two events, and any registered filter.
Active(sockets) ==
  (IF triggered THEN {UserEvent} ELSE {}) \cup (IF timer = "expired" THEN {TimerEvent} ELSE {})
  \cup sockets

SocketEvents == {e \in Fds \X Filters : e[2] \in filters[e[1]]}

\* kevent returns at most MaxEvents events.  The user event has EV_CLEAR: it is inactive
\* again when it has been returned; the timer, when returned, is left as after.
KeventReturns(after) ==
  /\ bg = "loop" /\ batch = {}
  /\ \E sockets \in SUBSET SocketEvents : \E events \in SUBSET Active(sockets) :
       /\ events # {}
       /\ \/ events = Active(sockets) /\ Cardinality(events) <= MaxEvents
          \/ Cardinality(events) = MaxEvents
       /\ batch' = events
  /\ triggered' = (triggered /\ UserEvent \notin batch')
  /\ LoopSetsTimer(IF TimerEvent \in batch' THEN after ELSE timer)
  /\ UNCHANGED socketVars

\* Seeded bug: the timer is registered with EV_ONESHOT.
KeventOneShot == KeventReturns("off")

\* EVFILT_TIMER is periodic: the timer is armed again.
Kevent == KeventReturns("armed")

\* The timer branch of HandleEvent, or EventCallback: libcurl is called.  The socket
\* may have been closed since kevent returned: libcurl ignores such a call.
CallCurl(e) ==
  /\ e \in batch \ {UserEvent}
  /\ SocketAction({timer}, e = TimerEvent)
  /\ batch' = batch \ {e}
  /\ UNCHANGED <<triggered, socketVars>>

\* The user event: ProcessPendingRequests.
DispatchUser ==
  /\ UserEvent \in batch
  /\ StartDrain(failure)
  /\ batch' = batch \ {UserEvent}
  /\ UNCHANGED <<triggered, socketVars>>
-----------------------------------------------------------------------------
\* The steps of the background thread that do not touch the event loop's own state.
SharedSteps ==
  \/ PopPending \/ PendingEmpty \/ AddHandle
  \/ \E e \in Easies : Deliver(e)
  \/ Detach
  \/ CheckMultiEnd(timer)

Background ==
  \/ Kevent
  \/ \E e \in Events : CallCurl(e)
  \/ DispatchUser
  \/ SharedSteps /\ UNCHANGED kqueueVars

Next ==
  \/ \E c \in Callers :
       \/ Notify(c)
       \/ (OpenClient(c) \/ CloseClient(c) \/ Submit(c) \/ Return(c)) /\ UNCHANGED kqueueVars
  \/ TimerExpires /\ UNCHANGED kqueueVars
  \/ \E s \in Fds : \/ Open(s) \/ Close(s) \/ SocketRemoved(s)
                    \/ \E what \in Polls : SocketWanted(s, what)
  \/ Background

Spec == Init /\ [][Next]_vars

(***************************************************************************)
(* The threads are scheduled, the timer fires, kevent hands out active     *)
(* events round robin, and CURLOPT_TIMEOUT ends the transfer of a caller   *)
(* that has one in one of the calls of curl_multi_socket_action.           *)
(***************************************************************************)
EndsByTimeout(e) ==
  /\ ongoing[e] # None /\ ongoing[e].by \in Timed
  /\ \E event \in Events : CallCurl(event)
  /\ stage'[e] = "done"

Fairness ==
  /\ WF_vars(Background)
  /\ WF_vars(TimerExpires /\ UNCHANGED kqueueVars)
  /\ \A c \in Callers : WF_vars(Notify(c)) /\ WF_vars(Return(c) /\ UNCHANGED kqueueVars)
  /\ \A e \in {UserEvent, TimerEvent} : SF_vars(Kevent /\ e \in batch')
  /\ \A e \in Easies : SF_vars(EndsByTimeout(e))

FairSpec == Spec /\ Fairness
-----------------------------------------------------------------------------
(***************************************************************************)
(* Properties.                                                             *)
(***************************************************************************)
\* No event that libcurl waits for is missed, whatever it asked for before on this or
\* an earlier connection of the descriptor, unless the kernel refused that very filter:
\* SetSockInfo only adds, and an incomplete removal leaves too much, never too little.
NothingMissed == \A s \in Fds : want[s] \ lost[s] \subseteq filters[s]

\* A READ filter is there only while libcurl has the socket registered and has asked
\* for it since it added it; otherwise a connection kept for reuse would wake the loop
\* without end.  A WRITE filter outlives the removal of its socket (kevent stops at the
\* failing deletion of a READ filter) exactly where no READ filter was there to delete:
\* libcurl never asked for one or the kernel refused it.  (Descriptor 0 keeps both.)
LeftoverFilters ==
  \A s \in Fds \ {0} :
    /\ "read" \in filters[s] => want[s] # {} /\ "read" \in asked[s]
    /\ want[s] = {} /\ "write" \in filters[s] => "read" \notin asked[s] \ lost[s]

\* No lost wake-up: while a request is queued, the user event is active, returned and
\* not yet dispatched, or about to be triggered, or the loop is draining, although
\* EV_CLEAR resets the event when it is returned, not when it is handled, and merges
\* triggers.
NoLostWakeup ==
  pending # <<>> => \/ triggered \/ UserEvent \in batch
                    \/ bg \in {"drain", "add"}
                    \/ \E c \in Callers : pc[c] = "notify"
=============================================================================
