---------------------------- MODULE RequestPath -----------------------------
(***************************************************************************)
(* The request path that both builds of                                    *)
(* src/src/multi_curl_manager.cpp share: caller threads run                *)
(* MultiCurlClient::Get or Head, which ends in HandleRequest; one          *)
(* background thread runs ProcessPendingRequests, libcurl and CheckMulti.  *)
(* They share the mutex-protected pending queue, the promise of each       *)
(* request and - without any lock - the easy handle the request travels    *)
(* on.  MultiCurlManager (epoll) and KqueueLoop (kqueue) add the event     *)
(* loops and the wake-ups.                                                 *)
(*                                                                         *)
(* Atomicity.  A step ends where another thread can look: at a lock,       *)
(* promise::set_value, curl_multi_remove_handle.  libcurl is external.     *)
(***************************************************************************)
EXTENDS Naturals, Sequences, FiniteSets

CONSTANTS
  Callers,      \* threads that issue requests, each through a client it owns
  Timed,        \* those with an http timeout; CURLOPT_TIMEOUT 0 means none
  Easies,       \* addresses of easy handles; malloc may hand one out again
  MaxRequests,  \* bound on the requests of one caller
  None          \* nullptr, "no value yet", "not in the map"

Request == [by : Callers, num : 1 .. MaxRequests, easy : Easies]

ASSUME PathAssumption ==
  /\ Timed \subseteq Callers /\ MaxRequests \in Nat
  /\ None \notin Easies /\ None \notin Request

VARIABLES
  \* caller threads
  pc,       \* "idle", "notify" (enqueued, loop not yet notified) or "wait"
  handle,   \* easy handle of the caller's MultiCurlClient, or None
  sent,     \* number of requests made
  answer,   \* what the future of the current request holds, or None
  \* shared with the background thread
  pending,  \* pending_requests
  timer,    \* the timer of the event loop: "off", "armed" or "expired"
  \* background thread
  bg,       \* "loop", "drain", "add", "check" or "detach"
  current,  \* the request in hand of ProcessPendingRequests / CheckMulti
  ongoing,  \* ongoing_requests
  \* easy handles and libcurl
  private,  \* CURLOPT_PRIVATE (and HEADERDATA, WRITEDATA) of the handle
  stage,    \* "out" of the multi, "added", "running" or "done"
  failure   \* "none", or why the process was terminated

callerVars == <<pc, handle, sent, answer>>
curlVars == <<private, stage>>
pathVars == <<callerVars, pending, timer, bg, current, ongoing, curlVars, failure>>

Timers == {"off", "armed", "expired"}
Stages == {"out", "added", "running", "done"}
BgPoints == {"loop", "drain", "add", "check", "detach"}
LoopFailures == {"timer_read", "event_read"}
Failures == {"none", "already_ongoing", "not_ongoing", "promise", "freed_handle"}
            \cup LoopFailures

PathTypeOK ==
  /\ pc \in [Callers -> {"idle", "notify", "wait"}]
  /\ handle \in [Callers -> Easies \cup {None}]
  /\ sent \in [Callers -> 0 .. MaxRequests]
  /\ answer \in [Callers -> Request \cup {None}]
  /\ pending \in Seq(Request)
  /\ timer \in Timers
  /\ bg \in BgPoints
  /\ current \in IF bg \in {"add", "detach"} THEN Request ELSE {None}
  /\ ongoing \in [Easies -> Request \cup {None}]
  /\ private \in [Easies -> Request \cup {None}]
  /\ stage \in [Easies -> Stages]
  /\ failure \in Failures

\* Nothing asked for yet; whether the constructor arms the timer is the build's.
PathInit(t) ==
  /\ pc = [c \in Callers |-> "idle"]
  /\ handle = [c \in Callers |-> None]
  /\ sent = [c \in Callers |-> 0]
  /\ answer = [c \in Callers |-> None]
  /\ pending = <<>> /\ timer = t
  /\ bg = "loop" /\ current = None
  /\ ongoing = [e \in Easies |-> None]
  /\ private = [e \in Easies |-> None]
  /\ stage = [e \in Easies |-> "out"]
  /\ failure = "none"

\* An exception that leaves the background thread terminates the process.
Running == failure = "none"
-----------------------------------------------------------------------------
(***************************************************************************)
(* libcurl's multi handle, as the callbacks above it see it.               *)
(***************************************************************************)
Alive(stages) == {e \in Easies : stages[e] \in {"added", "running"}}

\* The transfers libcurl has a timeout for: one it has just been given, to be started
\* at once, and one that runs under the CURLOPT_TIMEOUT of its caller.
WithTimeout(stages) ==
  {e \in Easies : \/ stages[e] = "added"
                  \/ stages[e] = "running" /\ ongoing[e] # None /\ ongoing[e].by \in Timed}

\* The values the timer may have after libcurl had a chance to call
\* MultiTimerCallback: what it was if libcurl does not call (keep), armed for a
\* timeout >= 0, disarmed (timeout -1) only when libcurl has no timeout.
TimerAfter(keep, stages) ==
  keep \cup {"armed"} \cup (IF WithTimeout(stages) = {} THEN {"off"} ELSE {})

\* curl_multi_socket_action: transfers start, go on or end.  A call for
\* CURL_SOCKET_TIMEOUT starts every added transfer.  CheckMulti is next.
SocketAction(keep, timeout) ==
  /\ Running /\ bg = "loop"
  /\ stage' \in {next \in [Easies -> Stages] : \A e \in Easies :
       next[e] \in CASE stage[e] = "added" ->
                          {"running", "done"} \cup (IF timeout THEN {} ELSE {"added"})
                     [] stage[e] = "running" -> {"running", "done"}
                     [] OTHER -> {stage[e]}}
  /\ timer' \in TimerAfter(keep, stage')
  /\ bg' = "check"
  /\ UNCHANGED <<callerVars, pending, current, ongoing, private, failure>>

\* What taking e out of the multi handle does to the transfers and the timer.
LeaveMulti(e) ==
  /\ stage' = [stage EXCEPT ![e] = "out"]
  /\ timer' \in IF stage[e] = "out" THEN {timer} ELSE TimerAfter({timer}, stage')
-----------------------------------------------------------------------------
(***************************************************************************)
(* Caller threads.                                                         *)
(***************************************************************************)
\* MultiCurlClient::Initialize: a client with an easy handle of its own.
OpenClient(c) ==
  /\ Running /\ pc[c] = "idle" /\ handle[c] = None
  /\ \E e \in Easies \ {handle[d] : d \in Callers} :
       /\ handle' = [handle EXCEPT ![c] = e]
       /\ private' = [private EXCEPT ![e] = None]
  /\ UNCHANGED <<pc, sent, answer, pending, timer, bg, current, ongoing, stage, failure>>

\* ~MultiCurlClient: curl_easy_cleanup, which takes the handle out of the multi
\* when it is still in there.
CloseClient(c) ==
  /\ Running /\ pc[c] = "idle" /\ handle[c] # None
  /\ LeaveMulti(handle[c])
  /\ handle' = [handle EXCEPT ![c] = None]
  /\ UNCHANGED <<pc, sent, answer, pending, bg, current, ongoing, private, failure>>

\* Get / Head up to the end of HandleRequest's critical section: the CurlRequest
\* is built on the client's easy handle (its constructor sets CURLOPT_PRIVATE),
\* get_future, push under mu.
Submit(c) ==
  /\ Running /\ pc[c] = "idle" /\ handle[c] # None /\ sent[c] < MaxRequests
  /\ LET r == [by |-> c, num |-> sent[c] + 1, easy |-> handle[c]] IN
       /\ private' = [private EXCEPT ![r.easy] = r]
       /\ pending' = Append(pending, r)
  /\ sent' = [sent EXCEPT ![c] = @ + 1]
  /\ answer' = [answer EXCEPT ![c] = None]
  /\ pc' = [pc EXCEPT ![c] = "notify"]
  /\ UNCHANGED <<handle, timer, bg, current, ongoing, stage, failure>>

\* The loop has been notified, in the way of the build; the caller blocks.
Notified(c) ==
  /\ Running /\ pc[c] = "notify"
  /\ pc' = [pc EXCEPT ![c] = "wait"]
  /\ UNCHANGED <<handle, sent, answer, pending, timer, bg, current, ongoing, curlVars, failure>>

\* Seeded bug: the caller gives up before its future is ready.
ReturnWithoutWaiting(c) ==
  /\ Running /\ pc[c] = "wait"
  /\ pc' = [pc EXCEPT ![c] = "idle"]
  /\ UNCHANGED <<handle, sent, answer, pending, timer, bg, current, ongoing, curlVars, failure>>

\* resp_fut.get() finds the promise fulfilled; Get / Head return.
Return(c) ==
  /\ Running /\ pc[c] = "wait" /\ answer[c] # None
  /\ pc' = [pc EXCEPT ![c] = "idle"]
  /\ UNCHANGED <<handle, sent, answer, pending, timer, bg, current, ongoing, curlVars, failure>>
-----------------------------------------------------------------------------
(***************************************************************************)
(* The background thread: ProcessPendingRequests and CheckMulti.           *)
(***************************************************************************)
\* HandleEvent calls ProcessPendingRequests, unless what precedes the call throws.
StartDrain(fail) ==
  /\ Running /\ bg = "loop"
  /\ failure' = fail
  /\ bg' = "drain"
  /\ UNCHANGED <<callerVars, pending, timer, current, ongoing, curlVars>>

\* The critical section of ProcessPendingRequests: take the front request ...
PopPending ==
  /\ Running /\ bg = "drain" /\ pending # <<>>
  /\ current' = Head(pending)
  /\ pending' = Tail(pending)
  /\ bg' = "add"
  /\ UNCHANGED <<callerVars, timer, ongoing, curlVars, failure>>

\* ... or find the queue empty and go back to the event loop.
PendingEmpty ==
  /\ Running /\ bg = "drain" /\ pending = <<>>
  /\ bg' = "loop"
  /\ UNCHANGED <<callerVars, pending, timer, current, ongoing, curlVars, failure>>

\* Register the request in hand and give its handle to libcurl, then go to next.
AddCurrent(next) ==
  /\ Running /\ bg = "add"
  /\ LET e == current.easy IN
       /\ failure' = IF ongoing[e] # None THEN "already_ongoing" ELSE failure
       /\ ongoing' = [ongoing EXCEPT ![e] = current]
       /\ private' = [private EXCEPT ![e] = current]
       /\ stage' = [stage EXCEPT ![e] = "added"]
  /\ timer' = "armed"
  /\ current' = None
  /\ bg' = next
  /\ UNCHANGED <<callerVars, pending>>

\* Seeded bug: one request per wake-up instead of a loop.
AddHandleOnce == AddCurrent("loop")

\* Enter the request into ongoing_requests and curl_multi_add_handle, which has
\* the timer set to expire at once (timeout 0).
AddHandle == AddCurrent("drain")

\* Hand the response of the transfer on e to the request found on e.
FulfilFrom(stages, e) ==
  /\ Running /\ bg = "check" /\ stage[e] \in stages
  /\ LET r == private[e] IN
       /\ failure' = IF answer[r.by] # None \/ r # ongoing[e] THEN "promise" ELSE failure
       /\ answer' = [answer EXCEPT ![r.by] = ongoing[e]]
       /\ current' = r
  /\ bg' = "detach"
  /\ UNCHANGED <<pc, handle, sent, pending, timer, ongoing, curlVars>>

\* Seeded bug: every message of libcurl is taken for CURLMSG_DONE.
DeliverAnyMessage(e) == FulfilFrom({"running", "done"}, e)

\* CheckMulti, first half of an iteration: the next CURLMSG_DONE; the request is
\* found through CURLOPT_PRIVATE and its promise fulfilled with the response of
\* the transfer that ran for it.  set_value throws on a promise already fulfilled.
Deliver(e) == FulfilFrom({"done"}, e)

\* Seeded bug: the entry stays in ongoing_requests.
EraseForgotten(e) == UNCHANGED <<ongoing, failure>>

\* The entry is found and erased (ALWAYS_ASSERT otherwise).  remove_handle ran
\* just before, on a handle that may have been freed.
Erase(e) ==
  /\ ongoing' = [ongoing EXCEPT ![e] = None]
  /\ failure' \in IF ongoing[e] = None THEN {"not_ongoing"}
                  ELSE IF \E c \in Callers : handle[c] = e THEN {failure}
                  ELSE {failure, "freed_handle"}

\* Second half: curl_multi_remove_handle and the erase.  The caller has its
\* response by now and may have destroyed the client: removing a freed handle is
\* undefined (it does nothing or kills the process).
Detach ==
  /\ Running /\ bg = "detach"
  /\ Erase(current.easy)
  /\ LeaveMulti(current.easy)
  /\ current' = None
  /\ bg' = "check"
  /\ UNCHANGED <<callerVars, pending, private>>

\* Seeded bug: one message is taken where a transfer may have ended besides.
CheckMultiEndEarly(t) ==
  /\ Running /\ bg = "check"
  /\ timer' = t
  /\ bg' = "loop"
  /\ UNCHANGED <<callerVars, pending, current, ongoing, curlVars, failure>>

\* CheckMulti finds no message and returns; its caller may set the timer to t.
CheckMultiEnd(t) ==
  /\ Running /\ bg = "check" /\ \A e \in Easies : stage[e] # "done"
  /\ timer' = t
  /\ bg' = "loop"
  /\ UNCHANGED <<callerVars, pending, current, ongoing, curlVars, failure>>
-----------------------------------------------------------------------------
(***************************************************************************)
(* What an event loop does to this state besides: time passes, it handles  *)
(* its timer, it throws.                                                   *)
(***************************************************************************)
TimerExpires ==
  /\ Running /\ timer = "armed"
  /\ timer' = "expired"
  /\ UNCHANGED <<callerVars, pending, bg, current, ongoing, curlVars, failure>>

LoopSetsTimer(t) ==
  /\ Running /\ timer' = t
  /\ UNCHANGED <<callerVars, pending, bg, current, ongoing, curlVars, failure>>

LoopFails(why) ==
  /\ Running /\ failure' = why
  /\ UNCHANGED <<callerVars, pending, timer, bg, current, ongoing, curlVars>>

\* The request path under any event loop: each build implements PathSpec.
PathNext ==
  \/ \E c \in Callers : OpenClient(c) \/ CloseClient(c) \/ Submit(c) \/ Notified(c) \/ Return(c)
  \/ \E t \in Timers : LoopSetsTimer(t) \/ CheckMultiEnd(t)
  \/ \E why \in LoopFailures : LoopFails(why)
  \/ \E keep \in SUBSET Timers, timeout \in BOOLEAN : SocketAction(keep, timeout)
  \/ \E fail \in {failure} \cup LoopFailures : StartDrain(fail)
  \/ PopPending \/ PendingEmpty \/ AddHandle
  \/ \E e \in Easies : Deliver(e)
  \/ Detach

PathSpec == (\E t \in Timers : PathInit(t)) /\ [][PathNext]_pathVars
-----------------------------------------------------------------------------
(***************************************************************************)
(* Properties of the request path.                                         *)
(***************************************************************************)
Waiting(c) == pc[c] \in {"notify", "wait"} /\ answer[c] = None

\* The assertions of ProcessPendingRequests and CheckMulti hold in every interleaving: an
\* easy handle is entered into ongoing_requests only when it is not there and erased only
\* when it is, no promise is fulfilled twice.
PathAssertionsHold == failure \notin {"already_ongoing", "not_ongoing", "promise"}

\* The response a caller gets is the one of the request it is waiting for, although
\* requests share easy handles over time and are found through CURLOPT_PRIVATE.
OwnResponse ==
  \A c \in Callers : answer[c] # None => answer[c].by = c /\ answer[c].num = sent[c]

\* libcurl works on a transfer only while the caller that owns the easy handle is
\* blocked on it: no setopt or cleanup can hit a handle in use.
TransferHasWaiter ==
  \A e \in Easies : stage[e] \in {"added", "running"} =>
    \E c \in Callers : handle[c] = e /\ Waiting(c)

\* HandleRequest blocks until the completion of the request: an idle caller's easy
\* handle is out of the multi handle.
CompleteOnReturn ==
  \A c \in Callers : pc[c] = "idle" /\ handle[c] # None => stage[handle[c]] = "out"

\* The request of a blocked caller is never dropped between two places: it is queued,
\* in hand of ProcessPendingRequests, or registered with libcurl working on it; and when
\* its transfer is over, CheckMulti is still at it: the loop never goes back to wait for
\* events with a CURLMSG_DONE unread.
BlockedHasRequest ==
  \A c \in Callers : Waiting(c) =>
    LET r == [by |-> c, num |-> sent[c], easy |-> handle[c]] IN
      \/ \E i \in DOMAIN pending : pending[i] = r
      \/ bg = "add" /\ current = r
      \/ /\ ongoing[r.easy] = r
         /\ \/ stage[r.easy] \in {"added", "running"}
            \/ stage[r.easy] = "done" /\ bg \in {"check", "detach"}

\* Where CompleteOnReturn fails, it fails only between the set_value and the
\* curl_multi_remove_handle of one iteration of CheckMulti, on the handle of the request
\* just answered, with its transfer over.
ReleaseWindow ==
  \A c \in Callers : pc[c] = "idle" /\ handle[c] # None /\ stage[handle[c]] # "out" =>
    /\ stage[handle[c]] = "done"
    /\ bg = "detach" /\ current.by = c /\ current.easy = handle[c]

\* ongoing_requests holds no dead entry: its handle is in the multi handle, with a
\* transfer libcurl works on or one CheckMulti is about to find, except for the entry that
\* Detach is erasing.
EntriesLive ==
  \A e \in Easies : ongoing[e] # None =>
    \/ stage[e] \in {"added", "running"}
    \/ stage[e] = "done" /\ bg \in {"check", "detach"}
    \/ bg = "detach" /\ current.easy = e

\* A transfer libcurl has a timeout for never loses its timer: neither the disarming in
\* EventCallback, nor the read that clears timer_fd, nor the return of a kevent leaves
\* the loop without one.
TransferHasTimer == WithTimeout(stage) # {} => timer # "off"

\* A finished transfer is taken out of the multi handle and of ongoing_requests,
\* unless the process dies.
HandleReleased ==
  \A e \in Easies :
    ongoing[e] # None ~> ongoing[e] = None \/ ~Running

\* The whole implements RequestService: one response per request, the right one,
\* and (under the fairness of the build) every caller is answered or the process dies.
Service == INSTANCE RequestService WITH
  phase <- [c \in Callers |-> IF pc[c] = "idle" THEN "idle"
                              ELSE IF answer[c] = None THEN "waiting" ELSE "served"],
  issued <- sent,
  reply <- [c \in Callers |-> IF answer[c] = None THEN None
                              ELSE <<answer[c].by, answer[c].num>>],
  down <- ~Running

ImplementsService == Service!Spec

\* The safety part of it alone.
ServiceSafety == Service!Init /\ [][Service!Next]_Service!vars
=============================================================================
