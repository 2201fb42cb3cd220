------------------------- MODULE RequestPathProofs --------------------------
(***************************************************************************)
(* Proofs about RequestPath for every number of callers, addresses and     *)
(* requests, and for every event loop around it.                           *)
(***************************************************************************)
EXTENDS RequestPath, SequenceTheorems, TLAPS

-----------------------------------------------------------------------------
(***************************************************************************)
(* The inductive invariant: where a request is, and who owns its handle.   *)
(***************************************************************************)
\* r is the request its caller is blocked on, on the caller's own handle.
Outstanding(r) ==
  r.num = sent[r.by] /\ r.easy = handle[r.by] /\ Waiting(r.by)

\* The response of the entry for e is out and the entry about to be erased.
Leaving(e) == bg = "detach" /\ current.easy = e

\* No two clients share an easy handle.
HandlesDistinct ==
  \A c, d \in Callers : handle[c] = handle[d] /\ handle[c] # None => c = d

\* Queued requests are outstanding, one per caller.
QueueInv ==
  /\ \A i \in 1 .. Len(pending) : Outstanding(pending[i])
  /\ \A i, j \in 1 .. Len(pending) : pending[i].by = pending[j].by => i = j

\* The request taken out of the queue is outstanding and no longer queued.
AddInv ==
  bg = "add" => /\ Outstanding(current)
                /\ \A i \in 1 .. Len(pending) : pending[i].by # current.by

\* An entry of ongoing_requests that is not leaving is outstanding, is found through
\* CURLOPT_PRIVATE of its handle, and is neither queued nor about to be added.
OngoingInv ==
  \A e \in Easies : ongoing[e] # None /\ ~Leaving(e) =>
    /\ ongoing[e].easy = e
    /\ Outstanding(ongoing[e])
    /\ private[e] = ongoing[e]
    /\ bg = "add" => current.by # ongoing[e].by
    /\ \A i \in 1 .. Len(pending) : pending[i].by # ongoing[e].by

\* Whatever is in the multi handle is in ongoing_requests.
StageInv == \A e \in Easies : stage[e] # "out" => ongoing[e] # None

\* While an entry leaves, its transfer is over and the entry still there.
LeavingInv ==
  bg = "detach" => /\ ongoing[current.easy] # None
                   /\ stage[current.easy] \in {"done", "out"}

\* r has been answered.
Answered(r) ==
  \/ r.num < sent[r.by]
  \/ r.num = sent[r.by] /\ answer[r.by] # None

\* The entry that leaves is the request in hand, which has been answered; as long as its
\* handle is in the multi handle, its caller still owns the handle.
AnsweredInv ==
  bg = "detach" =>
    /\ ongoing[current.easy] = current
    /\ Answered(current)
    /\ stage[current.easy] = "done" => handle[current.by] = current.easy

\* A transfer that is over is found before the loop goes back to wait for events.
DoneInv == \A e \in Easies : stage[e] = "done" => bg \in {"check", "detach"}

\* An entry that is not leaving has its handle in the multi handle.
EntryInv == \A e \in Easies : ongoing[e] # None /\ ~Leaving(e) => stage[e] # "out"

\* A caller on its way through HandleRequest has a client and has made a request.
CallerInv ==
  \A c \in Callers : pc[c] # "idle" => handle[c] # None /\ sent[c] # 0

RInv == AnsweredInv /\ DoneInv /\ EntryInv /\ CallerInv

IInv ==
  /\ PathTypeOK
  /\ HandlesDistinct /\ QueueInv /\ AddInv /\ OngoingInv /\ StageInv
  /\ LeavingInv
  /\ OwnResponse /\ PathAssertionsHold
-----------------------------------------------------------------------------
(***************************************************************************)
(* Types.                                                                  *)
(***************************************************************************)
\* What one call of curl_multi_socket_action may do to libcurl's side of the state.
LEMMA SocketActionFacts ==
  ASSUME PathTypeOK, NEW keep \in SUBSET Timers, NEW timeout \in BOOLEAN,
         SocketAction(keep, timeout)
  PROVE  /\ bg = "loop" /\ bg' = "check"
         /\ stage' \in [Easies -> Stages]
         /\ timer' \in Timers
         /\ \A e \in Easies : stage[e] \in {"out", "done"} => stage'[e] = stage[e]
         /\ \A e \in Easies : stage'[e] # "out" <=> stage[e] # "out"
         /\ \A e \in Easies : stage'[e] \in {"added", "running"} =>
                                stage[e] \in {"added", "running"}
         /\ \A e \in Easies : stage[e] = "running" => stage'[e] # "added"
         /\ timer' \in keep \cup {"armed"} \/ WithTimeout(stage') = {}
         /\ timeout => \A e \in Easies : stage'[e] # "added"
<1> DEFINE Moves(e) == CASE stage[e] = "added" ->
                              {"running", "done"} \cup (IF timeout THEN {} ELSE {"added"})
                         [] stage[e] = "running" -> {"running", "done"}
                         [] OTHER -> {stage[e]}
<1>1. stage' \in [Easies -> Stages] /\ \A e \in Easies : stage'[e] \in Moves(e)
  BY DEF SocketAction
<1>2. ASSUME NEW e \in Easies
      PROVE  /\ stage[e] \in {"out", "done"} => stage'[e] = stage[e]
             /\ stage'[e] # "out" <=> stage[e] # "out"
             /\ stage'[e] \in {"added", "running"} => stage[e] \in {"added", "running"}
             /\ stage[e] = "running" => stage'[e] # "added"
             /\ timeout => stage'[e] # "added"
  <2>1. stage'[e] \in Moves(e) BY <1>1
  <2>2. stage[e] \in Stages BY DEF PathTypeOK
  <2>3. QED BY <2>1, <2>2 DEF Stages
<1>3. timer' \in Timers /\ (timer' \in keep \cup {"armed"} \/ WithTimeout(stage') = {})
  BY DEF SocketAction, TimerAfter, Timers
<1>4. bg = "loop" /\ bg' = "check"
  BY DEF SocketAction
<1>5. QED
  BY <1>1, <1>2, <1>3, <1>4

\* Taking a handle out of the multi handle keeps the timer in its type.
LEMMA LeaveMultiFacts ==
  ASSUME PathTypeOK, NEW e \in Easies, LeaveMulti(e)
  PROVE  /\ stage' = [stage EXCEPT ![e] = "out"] /\ stage' \in [Easies -> Stages]
         /\ timer' \in Timers
         /\ timer' \in {timer, "armed"} \/ WithTimeout(stage') = {}
BY DEF LeaveMulti, TimerAfter, PathTypeOK, Timers, Stages

\* Every step keeps every variable in its type.
LEMMA TypeStep == IInv /\ [PathNext]_pathVars => PathTypeOK'
<1> SUFFICES ASSUME IInv, [PathNext]_pathVars PROVE PathTypeOK'
  OBVIOUS
<1> USE PathAssumption
<1>0. PathTypeOK /\ OngoingInv /\ StageInv
  BY DEF IInv
<1> USE <1>0
<1>1. ASSUME NEW c \in Callers, OpenClient(c) PROVE PathTypeOK'
  BY <1>1 DEF OpenClient, PathTypeOK
<1>2. ASSUME NEW c \in Callers, CloseClient(c) PROVE PathTypeOK'
  <2>1. handle[c] \in Easies
    BY <1>2 DEF CloseClient, PathTypeOK
  <2>2. stage' \in [Easies -> Stages] /\ timer' \in Timers
    BY <1>2, <2>1, LeaveMultiFacts DEF CloseClient
  <2>3. QED BY <1>2, <2>2 DEF CloseClient, PathTypeOK
<1>3. ASSUME NEW c \in Callers, Submit(c) PROVE PathTypeOK'
  <2> DEFINE r == [by |-> c, num |-> sent[c] + 1, easy |-> handle[c]]
  <2>1. r \in Request /\ sent[c] + 1 \in 0 .. MaxRequests
    BY <1>3 DEF Submit, PathTypeOK, Request
  <2>2. pending' \in Seq(Request)
    BY <1>3, <2>1 DEF Submit, PathTypeOK
  <2>3. private' \in [Easies -> Request \cup {None}]
    BY <1>3, <2>1 DEF Submit, PathTypeOK
  <2>4. QED BY <1>3, <2>1, <2>2, <2>3 DEF Submit, PathTypeOK
<1>4. ASSUME NEW c \in Callers, Notified(c) PROVE PathTypeOK'
  BY <1>4 DEF Notified, PathTypeOK, curlVars
<1>5. ASSUME NEW c \in Callers, Return(c) PROVE PathTypeOK'
  BY <1>5 DEF Return, PathTypeOK, curlVars
<1>6. ASSUME NEW t \in Timers, LoopSetsTimer(t) \/ CheckMultiEnd(t) PROVE PathTypeOK'
  BY <1>6 DEF LoopSetsTimer, CheckMultiEnd, PathTypeOK, callerVars, curlVars, BgPoints
<1>7. ASSUME NEW why \in LoopFailures, LoopFails(why) PROVE PathTypeOK'
  BY <1>7 DEF LoopFails, PathTypeOK, callerVars, curlVars, Failures
<1>8. ASSUME NEW keep \in SUBSET Timers, NEW timeout \in BOOLEAN, SocketAction(keep, timeout)
      PROVE  PathTypeOK'
  <2>1. stage' \in [Easies -> Stages] /\ timer' \in Timers
    BY <1>8, SocketActionFacts
  <2>2. QED BY <1>8, <2>1 DEF SocketAction, PathTypeOK, callerVars, BgPoints
<1>9. ASSUME NEW fail \in {failure} \cup LoopFailures, StartDrain(fail) PROVE PathTypeOK'
  BY <1>9 DEF StartDrain, PathTypeOK, callerVars, curlVars, BgPoints, Failures
<1>13. CASE PopPending
  <2>1. Head(pending) \in Request /\ Tail(pending) \in Seq(Request)
    BY <1>13 DEF PopPending, PathTypeOK
  <2>2. QED BY <1>13, <2>1 DEF PopPending, PathTypeOK, callerVars, curlVars, BgPoints
<1>14. CASE PendingEmpty
  BY <1>14 DEF PendingEmpty, PathTypeOK, callerVars, curlVars, BgPoints
<1>15. CASE AddHandle
  <2>1. current \in Request /\ current.easy \in Easies
    BY <1>15 DEF AddHandle, AddCurrent, PathTypeOK, Request
  <2>2. QED BY <1>15, <2>1 DEF AddHandle, AddCurrent, PathTypeOK, callerVars, BgPoints,
                               Failures, Stages, Timers
<1>16. ASSUME NEW e \in Easies, Deliver(e) PROVE PathTypeOK'
  <2>1. private[e] = ongoing[e] /\ ongoing[e] \in Request
    BY <1>16 DEF Deliver, FulfilFrom, OngoingInv, StageInv, Leaving, PathTypeOK
  <2>2. QED BY <1>16, <2>1 DEF Deliver, FulfilFrom, PathTypeOK, curlVars, BgPoints,
                               Failures, Request
<1>17. CASE Detach
  <2>1. current \in Request /\ current.easy \in Easies
    BY <1>17 DEF Detach, PathTypeOK, Request
  <2>2. failure' \in Failures /\ ongoing' \in [Easies -> Request \cup {None}]
    BY <1>17 DEF Detach, Erase, PathTypeOK, Failures
  <2>3. stage' \in [Easies -> Stages] /\ timer' \in Timers
    BY <1>17, <2>1, LeaveMultiFacts DEF Detach
  <2>4. QED BY <1>17, <2>2, <2>3 DEF Detach, PathTypeOK, callerVars, BgPoints
<1>18. CASE UNCHANGED pathVars
  BY <1>18 DEF pathVars, callerVars, curlVars, PathTypeOK
<1>20. QED
  BY <1>1, <1>2, <1>3, <1>4, <1>5, <1>6, <1>7, <1>8, <1>9, <1>13, <1>14, <1>15, <1>16, <1>17,
     <1>18 DEF PathNext

-----------------------------------------------------------------------------
(***************************************************************************)
(* Ownership: HandlesDistinct, QueueInv, AddInv, OngoingInv.               *)
(***************************************************************************)
Ownership == HandlesDistinct /\ QueueInv /\ AddInv /\ OngoingInv

\* Nothing in the queue, in hand or in ongoing_requests belongs to a caller that is
\* not blocked.
LEMMA FreeCaller ==
  ASSUME IInv, NEW c \in Callers, ~Waiting(c)
  PROVE  /\ \A i \in 1 .. Len(pending) : pending[i].by # c
         /\ bg = "add" => current.by # c
         /\ \A e \in Easies : ongoing[e] # None /\ ~Leaving(e) =>
              ongoing[e].by # c /\ handle[c] # e
<1>1. \A i \in 1 .. Len(pending) : pending[i].by # c
  BY DEF IInv, QueueInv, Outstanding
<1>2. bg = "add" => current.by # c
  BY DEF IInv, AddInv, Outstanding
<1>3. ASSUME NEW e \in Easies, ongoing[e] # None, ~Leaving(e)
      PROVE  ongoing[e].by # c /\ handle[c] # e
  <2>1. /\ ongoing[e].easy = e /\ Outstanding(ongoing[e])
        /\ ongoing[e] \in Request
    BY <1>3 DEF IInv, OngoingInv, PathTypeOK
  <2>2. ongoing[e].by \in Callers /\ handle[ongoing[e].by] = e /\ e # None
    BY <2>1, PathAssumption DEF Outstanding, Request
  <2>3. QED BY <2>1, <2>2 DEF Outstanding, IInv, HandlesDistinct
<1>4. QED BY <1>1, <1>2, <1>3

\* Two different live entries belong to different callers.
LEMMA EntriesOfDifferentCallers ==
  ASSUME IInv, bg # "detach", NEW e \in Easies, NEW f \in Easies, e # f,
         ongoing[e] # None, ongoing[f] # None
  PROVE  ongoing[e].by # ongoing[f].by
<1>1. ongoing[e].easy = e /\ Outstanding(ongoing[e])
  BY DEF IInv, OngoingInv, Leaving
<1>2. ongoing[f].easy = f /\ Outstanding(ongoing[f])
  BY DEF IInv, OngoingInv, Leaving
<1>3. QED BY <1>1, <1>2 DEF Outstanding

\* The request about to be added is not in the map under its handle.
LEMMA AddressFree ==
  ASSUME IInv, bg = "add"
  PROVE  /\ current \in Request /\ current.easy \in Easies /\ current.by \in Callers
         /\ ongoing[current.easy] = None
<1>1. current \in Request
  BY DEF IInv, PathTypeOK
<1>2. current.easy \in Easies /\ current.by \in Callers
  BY <1>1 DEF Request
<1>3. current.easy = handle[current.by]
  BY DEF IInv, AddInv, Outstanding
<1>4. SUFFICES ASSUME ongoing[current.easy] # None PROVE FALSE
  BY <1>1, <1>2
<1>5. /\ ongoing[current.easy] \in Request
      /\ ongoing[current.easy].easy = current.easy
      /\ Outstanding(ongoing[current.easy])
      /\ current.by # ongoing[current.easy].by
  BY <1>2, <1>4 DEF IInv, OngoingInv, Leaving, PathTypeOK
<1>6. ongoing[current.easy].by \in Callers
      /\ handle[ongoing[current.easy].by] = handle[current.by]
  BY <1>3, <1>5 DEF Request, Outstanding
<1>7. handle[current.by] # None
  BY <1>2, <1>3, PathAssumption
<1>8. QED BY <1>2, <1>5, <1>6, <1>7 DEF IInv, HandlesDistinct

\* The request found through CURLOPT_PRIVATE is the entry of the map.
LEMMA FoundRequest ==
  ASSUME IInv, bg = "check", NEW e \in Easies, stage[e] = "done"
  PROVE  /\ private[e] = ongoing[e] /\ ongoing[e] \in Request
         /\ ongoing[e].easy = e /\ ongoing[e].by \in Callers
         /\ Outstanding(ongoing[e])
<1>1. ongoing[e] # None /\ ~Leaving(e)
  BY DEF IInv, StageInv, Leaving
<1>2. QED BY <1>1 DEF IInv, OngoingInv, PathTypeOK, Request

\* What the ownership invariant talks about did not change.
LEMMA OwnershipStutter ==
  ASSUME Ownership,
         UNCHANGED <<pc, handle, sent, answer, pending, ongoing, private, current>>,
         bg' # "add" \/ bg = "add", bg = "detach" => bg' = "detach"
  PROVE  Ownership'
<1>1. HandlesDistinct' /\ QueueInv' /\ AddInv'
  BY DEF Ownership, HandlesDistinct, QueueInv, AddInv, Outstanding, Waiting
<1>2. OngoingInv'
  BY DEF Ownership, OngoingInv, Leaving, Outstanding, Waiting
<1>3. QED BY <1>1, <1>2 DEF Ownership

\* Every step keeps the ownership of requests and handles.
LEMMA OwnershipStep == IInv /\ [PathNext]_pathVars => Ownership'
<1> SUFFICES ASSUME IInv, [PathNext]_pathVars PROVE Ownership'
  OBVIOUS
<1>0. PathTypeOK /\ Ownership
  BY DEF IInv, Ownership
<1> USE <1>0, PathAssumption
<1>1. ASSUME NEW c \in Callers, OpenClient(c) PROVE Ownership'
  <2>1. ~Waiting(c) /\ pc'[c] = "idle"
    BY <1>1 DEF OpenClient, Waiting
  <2>2. PICK e \in Easies \ {handle[d] : d \in Callers} :
          /\ handle' = [handle EXCEPT ![c] = e]
          /\ private' = [private EXCEPT ![e] = None]
    BY <1>1 DEF OpenClient
  <2>3. UNCHANGED <<pc, sent, answer, pending, bg, current, ongoing>>
    BY <1>1 DEF OpenClient
  <2>4. \A r \in Request : Outstanding(r) => Outstanding(r)'
    BY <2>1, <2>2, <2>3 DEF Outstanding, Waiting, PathTypeOK, Request
  <2>5. HandlesDistinct'
    BY <2>2 DEF HandlesDistinct, Ownership, PathTypeOK
  <2>6. QueueInv'
    BY <2>3, <2>4 DEF QueueInv, Ownership, PathTypeOK
  <2>7. AddInv'
    BY <2>3, <2>4 DEF AddInv, Ownership, PathTypeOK
  <2>8. ASSUME NEW f \in Easies, ongoing[f] # None, ~Leaving(f) PROVE f # e
    <3>1. ongoing[f] \in Request /\ Outstanding(ongoing[f]) /\ ongoing[f].easy = f
      BY <2>8 DEF Ownership, OngoingInv, PathTypeOK
    <3>2. handle[ongoing[f].by] = f /\ ongoing[f].by \in Callers
      BY <3>1 DEF Outstanding, Request
    <3>3. QED BY <3>2
  <2>9. OngoingInv'
    BY <2>2, <2>3, <2>4, <2>8 DEF OngoingInv, Leaving, Ownership, PathTypeOK
  <2>10. QED BY <2>5, <2>6, <2>7, <2>9 DEF Ownership
<1>2. ASSUME NEW c \in Callers, CloseClient(c) PROVE Ownership'
  <2>1. ~Waiting(c)
    BY <1>2 DEF CloseClient, Waiting
  <2>2. /\ handle' = [handle EXCEPT ![c] = None]
        /\ UNCHANGED <<pc, sent, answer, pending, bg, current, ongoing, private>>
    BY <1>2 DEF CloseClient
  <2>3. \A r \in Request : Outstanding(r) => Outstanding(r)'
    BY <2>1, <2>2 DEF Outstanding, Waiting, PathTypeOK, Request
  <2>4. HandlesDistinct'
    BY <2>2 DEF HandlesDistinct, Ownership, PathTypeOK
  <2>5. QueueInv'
    BY <2>2, <2>3 DEF QueueInv, Ownership, PathTypeOK
  <2>6. AddInv'
    BY <2>2, <2>3 DEF AddInv, Ownership, PathTypeOK
  <2>7. OngoingInv'
    BY <2>2, <2>3 DEF OngoingInv, Leaving, Ownership, PathTypeOK
  <2>8. QED BY <2>4, <2>5, <2>6, <2>7 DEF Ownership
<1>3. ASSUME NEW c \in Callers, Submit(c) PROVE Ownership'
  <2> DEFINE new == [by |-> c, num |-> sent[c] + 1, easy |-> handle[c]]
  <2>1. ~Waiting(c)
    BY <1>3 DEF Submit, Waiting
  <2>0. new \in Request
    BY <1>3 DEF Submit, PathTypeOK, Request
  <2>2. PICK r \in Request : r = new /\ r.by = c /\ r.easy = handle[c]
                              /\ r.num = sent[c] + 1 /\ handle[c] \in Easies
    BY <1>3, <2>0 DEF Submit, PathTypeOK
  <2>3. /\ private' = [private EXCEPT ![handle[c]] = r]
        /\ pending' = Append(pending, r)
        /\ sent' = [sent EXCEPT ![c] = @ + 1]
        /\ answer' = [answer EXCEPT ![c] = None]
        /\ pc' = [pc EXCEPT ![c] = "notify"]
        /\ UNCHANGED <<handle, bg, current, ongoing>>
    BY <1>3, <2>2 DEF Submit
  <2> HIDE DEF new
  <2>4. \A q \in Request : Outstanding(q) => Outstanding(q)'
    BY <2>1, <2>3 DEF Outstanding, Waiting, PathTypeOK, Request
  <2>5. Outstanding(r)'
    BY <2>2, <2>3 DEF Outstanding, Waiting, PathTypeOK
  <2>6. /\ Len(pending') = Len(pending) + 1
        /\ \A i \in 1 .. Len(pending) : pending'[i] = pending[i]
        /\ pending'[Len(pending) + 1] = r
    BY <2>2, <2>3, AppendProperties DEF PathTypeOK
  <2>7. /\ \A i \in 1 .. Len(pending) : pending[i] \in Request /\ pending[i].by # c
        /\ bg = "add" => current.by # c
        /\ \A e \in Easies : ongoing[e] # None /\ ~Leaving(e) =>
             ongoing[e].by # c /\ handle[c] # e
    BY <2>1, FreeCaller DEF PathTypeOK
  <2>8. \A i \in 1 .. Len(pending') : i \in 1 .. Len(pending) \/ i = Len(pending) + 1
    BY <2>6, LenProperties DEF PathTypeOK
  <2>9. HandlesDistinct'
    BY <2>3 DEF HandlesDistinct, Ownership
  <2>10. QueueInv'
    <3>1. \A i \in 1 .. Len(pending') : Outstanding(pending[i])'
      BY <2>4, <2>5, <2>6, <2>7, <2>8 DEF QueueInv, Ownership
    <3>2. \A i, j \in 1 .. Len(pending') : pending'[i].by = pending'[j].by => i = j
      BY <2>2, <2>6, <2>7, <2>8 DEF QueueInv, Ownership
    <3>3. QED BY <3>1, <3>2 DEF QueueInv, Outstanding, Waiting
  <2>11. AddInv'
    BY <2>2, <2>3, <2>4, <2>6, <2>7, <2>8 DEF AddInv, Ownership, PathTypeOK
  <2>12. OngoingInv'
    <3> SUFFICES ASSUME NEW e \in Easies, ongoing[e] # None, ~Leaving(e)
                 PROVE  /\ ongoing[e].easy = e
                        /\ Outstanding(ongoing[e])'
                        /\ private'[e] = ongoing[e]
                        /\ bg = "add" => current.by # ongoing[e].by
                        /\ \A i \in 1 .. Len(pending') : pending'[i].by # ongoing[e].by
      BY <2>3 DEF OngoingInv, Leaving, Outstanding, Waiting
    <3>1. ongoing[e] \in Request
      BY DEF PathTypeOK
    <3>2. \A i \in 1 .. Len(pending') : pending'[i].by # ongoing[e].by
      BY <2>2, <2>6, <2>7, <2>8 DEF OngoingInv, Ownership
    <3>3. private'[e] = ongoing[e]
      BY <2>3, <2>7 DEF OngoingInv, Ownership, PathTypeOK
    <3>4. QED BY <2>3, <2>4, <3>1, <3>2, <3>3 DEF OngoingInv, Ownership
  <2>13. QED BY <2>9, <2>10, <2>11, <2>12 DEF Ownership
<1>4. ASSUME NEW c \in Callers, Notified(c) PROVE Ownership'
  <2>1. /\ pc' = [pc EXCEPT ![c] = "wait"] /\ pc[c] = "notify"
        /\ UNCHANGED <<handle, sent, answer, pending, bg, current, ongoing, private>>
    BY <1>4 DEF Notified, curlVars
  <2>2. \A r \in Request : Outstanding(r) => Outstanding(r)'
    BY <2>1 DEF Outstanding, Waiting, PathTypeOK, Request
  <2>3. HandlesDistinct' /\ QueueInv'
    BY <2>1, <2>2 DEF HandlesDistinct, QueueInv, Ownership, PathTypeOK
  <2>4. AddInv' /\ OngoingInv'
    BY <2>1, <2>2 DEF AddInv, OngoingInv, Leaving, Ownership, PathTypeOK
  <2>5. QED BY <2>3, <2>4 DEF Ownership
<1>5. ASSUME NEW c \in Callers, Return(c) PROVE Ownership'
  <2>1. /\ pc' = [pc EXCEPT ![c] = "idle"] /\ ~Waiting(c)
        /\ UNCHANGED <<handle, sent, answer, pending, bg, current, ongoing, private>>
    BY <1>5 DEF Return, Waiting, curlVars
  <2>2. \A r \in Request : Outstanding(r) => Outstanding(r)'
    BY <2>1 DEF Outstanding, Waiting, PathTypeOK, Request
  <2>3. HandlesDistinct' /\ QueueInv'
    BY <2>1, <2>2 DEF HandlesDistinct, QueueInv, Ownership, PathTypeOK
  <2>4. AddInv' /\ OngoingInv'
    BY <2>1, <2>2 DEF AddInv, OngoingInv, Leaving, Ownership, PathTypeOK
  <2>5. QED BY <2>3, <2>4 DEF Ownership
<1>6. ASSUME NEW t \in Timers, LoopSetsTimer(t) \/ CheckMultiEnd(t) PROVE Ownership'
  BY <1>6, OwnershipStutter DEF LoopSetsTimer, CheckMultiEnd, callerVars, curlVars
<1>7. ASSUME NEW why \in LoopFailures, LoopFails(why) PROVE Ownership'
  BY <1>7, OwnershipStutter DEF LoopFails, callerVars, curlVars
<1>8. ASSUME NEW keep \in SUBSET Timers, NEW timeout \in BOOLEAN, SocketAction(keep, timeout)
      PROVE  Ownership'
  BY <1>8, OwnershipStutter DEF SocketAction, callerVars
<1>9. ASSUME NEW fail \in {failure} \cup LoopFailures, StartDrain(fail) PROVE Ownership'
  BY <1>9, OwnershipStutter DEF StartDrain, callerVars, curlVars
<1>13. CASE PopPending
  <2>1. /\ current' = pending[1] /\ pending' = Tail(pending) /\ pending # <<>>
        /\ bg = "drain" /\ bg' = "add"
        /\ UNCHANGED <<pc, handle, sent, answer, ongoing, private>>
    BY <1>13 DEF PopPending, callerVars, curlVars
  <2>2. /\ 1 \in 1 .. Len(pending)
        /\ \A i \in 1 .. Len(pending') : /\ i + 1 \in 1 .. Len(pending)
                                         /\ i + 1 # 1
                                         /\ pending'[i] = pending[i + 1]
    BY <2>1, HeadTailProperties, EmptySeq, LenProperties DEF PathTypeOK
  <2>3. \A r : Outstanding(r) => Outstanding(r)'
    BY <2>1 DEF Outstanding, Waiting
  <2>4. HandlesDistinct'
    BY <2>1 DEF HandlesDistinct, Ownership
  <2>5. \A i \in 1 .. Len(pending') : Outstanding(pending[i])'
    BY <2>2, <2>3 DEF QueueInv, Ownership
  <2>6. \A i, j \in 1 .. Len(pending') : pending'[i].by = pending'[j].by => i = j
    BY <2>2 DEF QueueInv, Ownership
  <2>7. QueueInv'
    BY <2>5, <2>6 DEF QueueInv, Outstanding, Waiting
  <2>8. AddInv'
    BY <2>1, <2>2, <2>3 DEF AddInv, QueueInv, Ownership
  <2>9. OngoingInv'
    BY <2>1, <2>2, <2>3 DEF OngoingInv, Leaving, Ownership
  <2>10. QED BY <2>4, <2>7, <2>8, <2>9 DEF Ownership
<1>14. CASE PendingEmpty
  BY <1>14, OwnershipStutter DEF PendingEmpty, callerVars, curlVars
<1>15. CASE AddHandle
  <2>1. /\ bg = "add" /\ bg' = "drain"
        /\ ongoing' = [ongoing EXCEPT ![current.easy] = current]
        /\ private' = [private EXCEPT ![current.easy] = current]
        /\ UNCHANGED <<pc, handle, sent, answer, pending>>
    BY <1>15 DEF AddHandle, AddCurrent, callerVars
  <2>2. /\ current \in Request /\ current.easy \in Easies
        /\ ongoing[current.easy] = None
    BY <2>1, AddressFree
  <2>3. /\ Outstanding(current)
        /\ \A i \in 1 .. Len(pending) : pending[i].by # current.by
    BY <2>1 DEF AddInv, Ownership
  <2>4. \A r : Outstanding(r) => Outstanding(r)'
    BY <2>1 DEF Outstanding, Waiting
  <2>5. HandlesDistinct' /\ QueueInv' /\ AddInv'
    BY <2>1, <2>4 DEF HandlesDistinct, QueueInv, AddInv, Ownership
  <2>6. OngoingInv'
    BY <2>1, <2>2, <2>3, <2>4 DEF OngoingInv, Leaving, Ownership, PathTypeOK
  <2>7. QED BY <2>5, <2>6 DEF Ownership
<1>16. ASSUME NEW e \in Easies, Deliver(e) PROVE Ownership'
  <2>1. /\ bg = "check" /\ stage[e] = "done" /\ bg' = "detach"
        /\ answer' = [answer EXCEPT ![private[e].by] = ongoing[e]]
        /\ current' = private[e]
        /\ UNCHANGED <<pc, handle, sent, pending, ongoing, private>>
    BY <1>16 DEF Deliver, FulfilFrom, curlVars
  <2> DEFINE r == ongoing[e]
  <2>2. /\ private[e] = r /\ r \in Request /\ r.easy = e /\ r.by \in Callers
        /\ Outstanding(r)
    BY <2>1, FoundRequest
  <2>3. /\ \A i \in 1 .. Len(pending) : pending[i] \in Request /\ pending[i].by # r.by
    BY <2>1, <2>2 DEF OngoingInv, Leaving, Ownership, PathTypeOK
  <2>4. \A f \in Easies : f # e /\ ongoing[f] # None => ongoing[f].by # r.by
    BY <2>1, <2>2, EntriesOfDifferentCallers
  <2>5. \A q \in Request : Outstanding(q) /\ q.by # r.by => Outstanding(q)'
    BY <2>1, <2>2 DEF Outstanding, Waiting, PathTypeOK
  <2>6. HandlesDistinct' /\ QueueInv' /\ AddInv'
    BY <2>1, <2>3, <2>5 DEF HandlesDistinct, QueueInv, AddInv, Ownership
  <2>7. OngoingInv'
    BY <2>1, <2>2, <2>4, <2>5 DEF OngoingInv, Leaving, Ownership, PathTypeOK
  <2>8. QED BY <2>6, <2>7 DEF Ownership
<1>17. CASE Detach
  <2>1. /\ bg = "detach" /\ bg' = "check" /\ current \in Request
        /\ ongoing' = [ongoing EXCEPT ![current.easy] = None]
        /\ UNCHANGED <<pc, handle, sent, answer, pending, private>>
    BY <1>17 DEF Detach, Erase, callerVars, PathTypeOK
  <2>2. current.easy \in Easies
    BY <2>1 DEF Request
  <2>3. \A r : Outstanding(r) => Outstanding(r)'
    BY <2>1 DEF Outstanding, Waiting
  <2>4. HandlesDistinct' /\ QueueInv' /\ AddInv'
    BY <2>1, <2>3 DEF HandlesDistinct, QueueInv, AddInv, Ownership
  <2>5. OngoingInv'
    BY <2>1, <2>2, <2>3 DEF OngoingInv, Leaving, Ownership, PathTypeOK
  <2>6. QED BY <2>4, <2>5 DEF Ownership
<1>18. CASE UNCHANGED pathVars
  BY <1>18, OwnershipStutter DEF pathVars, callerVars, curlVars
<1>20. QED
  BY <1>1, <1>2, <1>3, <1>4, <1>5, <1>6, <1>7, <1>8, <1>9, <1>13, <1>14, <1>15, <1>16, <1>17,
     <1>18 DEF PathNext
-----------------------------------------------------------------------------
(***************************************************************************)
(* libcurl's side: StageInv, LeavingInv.                                   *)
(***************************************************************************)
Loop == StageInv /\ LeavingInv

\* curl_easy_cleanup of an idle caller's handle hits no transfer libcurl works on.
LEMMA IdleHandleNotAlive ==
  ASSUME IInv, NEW c \in Callers, ~Waiting(c), handle[c] # None
  PROVE  handle[c] \in Easies /\ stage[handle[c]] \in {"out", "done"}
<1>1. handle[c] \in Easies
  BY DEF IInv, PathTypeOK
<1>2. CASE Leaving(handle[c])
  BY <1>1, <1>2 DEF Leaving, IInv, LeavingInv
<1>3. CASE ~Leaving(handle[c])
  <2>1. ongoing[handle[c]] = None
    BY <1>1, <1>3, FreeCaller
  <2>2. QED BY <1>1, <2>1 DEF IInv, StageInv
<1>4. QED BY <1>2, <1>3

\* Every step keeps libcurl's stages and ongoing_requests in agreement.
LEMMA LoopStep == IInv /\ [PathNext]_pathVars => Loop'
<1> SUFFICES ASSUME IInv, [PathNext]_pathVars PROVE Loop'
  OBVIOUS
<1>0. PathTypeOK /\ Loop
  BY DEF IInv, Loop
<1> USE <1>0, PathAssumption
<1>a. ASSUME UNCHANGED <<stage, ongoing, current>>, bg' = "detach" => bg = "detach" PROVE Loop'
  BY <1>a DEF Loop, StageInv, LeavingInv
<1>1. ASSUME NEW c \in Callers, OpenClient(c) \/ Submit(c) \/ Notified(c) \/ Return(c)
      PROVE  Loop'
  BY <1>1, <1>a DEF OpenClient, Submit, Notified, Return, curlVars
<1>2. ASSUME NEW c \in Callers, CloseClient(c) PROVE Loop'
  <2>1. /\ stage' = [stage EXCEPT ![handle[c]] = "out"]
        /\ UNCHANGED <<bg, current, ongoing>>
    BY <1>2 DEF CloseClient, LeaveMulti
  <2>2. QED BY <2>1 DEF Loop, StageInv, LeavingInv, PathTypeOK
<1>6. ASSUME NEW t \in Timers, LoopSetsTimer(t) \/ CheckMultiEnd(t) PROVE Loop'
  BY <1>6, <1>a DEF LoopSetsTimer, CheckMultiEnd, curlVars
<1>7. ASSUME NEW why \in LoopFailures, LoopFails(why) PROVE Loop'
  BY <1>7, <1>a DEF LoopFails, curlVars
<1>8. ASSUME NEW keep \in SUBSET Timers, NEW timeout \in BOOLEAN, SocketAction(keep, timeout)
      PROVE  Loop'
  <2>1. \A e \in Easies : stage'[e] # "out" => stage[e] # "out"
    BY <1>8, SocketActionFacts
  <2>2. bg' = "check" /\ UNCHANGED ongoing
    BY <1>8 DEF SocketAction
  <2>3. QED BY <2>1, <2>2 DEF Loop, StageInv, LeavingInv
<1>9. ASSUME NEW fail \in {failure} \cup LoopFailures, StartDrain(fail) PROVE Loop'
  BY <1>9, <1>a DEF StartDrain, curlVars
<1>13. CASE PopPending \/ PendingEmpty
  BY <1>13 DEF PopPending, PendingEmpty, curlVars, Loop, StageInv, LeavingInv
<1>15. CASE AddHandle
  <2>1. current \in Request /\ current.easy \in Easies
    BY <1>15, AddressFree DEF AddHandle, AddCurrent
  <2>2. QED BY <1>15, <2>1 DEF AddHandle, AddCurrent, PathTypeOK, Loop, StageInv, LeavingInv
<1>16. ASSUME NEW e \in Easies, Deliver(e) PROVE Loop'
  <2>1. bg = "check" /\ stage[e] = "done" /\ current' = private[e]
        /\ UNCHANGED <<stage, ongoing>>
    BY <1>16 DEF Deliver, FulfilFrom, curlVars
  <2>2. private[e].easy = e /\ ongoing[e] # None
    BY <2>1, FoundRequest
  <2>3. QED BY <2>1, <2>2 DEF Loop, StageInv, LeavingInv
<1>17. CASE Detach
  <2>1. current.easy \in Easies
    BY <1>17 DEF Detach, PathTypeOK, Request
  <2>2. /\ bg' = "check"
        /\ stage' = [stage EXCEPT ![current.easy] = "out"]
        /\ ongoing' = [ongoing EXCEPT ![current.easy] = None]
    BY <1>17 DEF Detach, Erase, LeaveMulti
  <2>3. QED BY <2>1, <2>2 DEF Loop, StageInv, LeavingInv, PathTypeOK
<1>18. CASE UNCHANGED pathVars
  BY <1>18, <1>a DEF pathVars, curlVars
<1>20. QED
  BY <1>1, <1>2, <1>6, <1>7, <1>8, <1>9, <1>13, <1>15, <1>16, <1>17, <1>18 DEF PathNext
-----------------------------------------------------------------------------
(***************************************************************************)
(* Responses and assertions.                                               *)
(***************************************************************************)
\* Every step keeps the promise of each caller and the assertions of the code.
LEMMA AnswerStep == IInv /\ [PathNext]_pathVars => OwnResponse' /\ PathAssertionsHold'
<1> SUFFICES ASSUME IInv, [PathNext]_pathVars PROVE OwnResponse' /\ PathAssertionsHold'
  OBVIOUS
<1>0. PathTypeOK /\ OwnResponse /\ PathAssertionsHold /\ LeavingInv
  BY DEF IInv
<1> USE <1>0
<1>1. ASSUME NEW c \in Callers, Submit(c) PROVE OwnResponse' /\ PathAssertionsHold'
  BY <1>1 DEF Submit, OwnResponse, PathAssertionsHold, PathTypeOK
<1>3. CASE AddHandle
  <2>1. ongoing[current.easy] = None
    BY <1>3, AddressFree DEF AddHandle, AddCurrent
  <2>2. QED BY <1>3, <2>1 DEF AddHandle, AddCurrent, callerVars, OwnResponse, PathAssertionsHold
<1>4. ASSUME NEW e \in Easies, Deliver(e) PROVE OwnResponse' /\ PathAssertionsHold'
  <2>1. /\ bg = "check" /\ stage[e] = "done"
        /\ failure' = IF answer[private[e].by] # None \/ private[e] # ongoing[e]
                      THEN "promise" ELSE failure
        /\ answer' = [answer EXCEPT ![private[e].by] = ongoing[e]]
        /\ UNCHANGED sent
    BY <1>4 DEF Deliver, FulfilFrom
  <2>2. /\ private[e] = ongoing[e] /\ ongoing[e] \in Request
        /\ ongoing[e].by \in Callers /\ Outstanding(ongoing[e])
    BY <2>1, FoundRequest
  <2>3. QED BY <2>1, <2>2 DEF Outstanding, Waiting, OwnResponse, PathAssertionsHold, PathTypeOK
<1>5. CASE Detach
  <2>1. current \in Request /\ ongoing[current.easy] # None
    BY <1>5 DEF Detach, LeavingInv, PathTypeOK
  <2>2. QED BY <1>5, <2>1 DEF Detach, Erase, callerVars, OwnResponse, PathAssertionsHold
<1>6. ASSUME UNCHANGED <<sent, answer>>, failure' \in {failure} \cup LoopFailures
      PROVE  OwnResponse' /\ PathAssertionsHold'
  BY <1>6 DEF OwnResponse, PathAssertionsHold, LoopFailures
<1>7. ASSUME NEW c \in Callers, OpenClient(c) \/ CloseClient(c) \/ Notified(c) \/ Return(c)
      PROVE  OwnResponse' /\ PathAssertionsHold'
  BY <1>6, <1>7 DEF OpenClient, CloseClient, Notified, Return, curlVars
<1>8. ASSUME NEW t \in Timers, LoopSetsTimer(t) \/ CheckMultiEnd(t)
      PROVE  OwnResponse' /\ PathAssertionsHold'
  BY <1>6, <1>8 DEF LoopSetsTimer, CheckMultiEnd, callerVars
<1>9. ASSUME NEW why \in {failure} \cup LoopFailures, LoopFails(why) \/ StartDrain(why)
      PROVE  OwnResponse' /\ PathAssertionsHold'
  BY <1>6, <1>9 DEF LoopFails, StartDrain, callerVars
<1>10. CASE \/ \E keep \in SUBSET Timers, timeout \in BOOLEAN : SocketAction(keep, timeout)
            \/ PopPending \/ PendingEmpty \/ UNCHANGED pathVars
  BY <1>6, <1>10 DEF SocketAction, PopPending, PendingEmpty, pathVars, callerVars
<1>11. QED
  BY <1>1, <1>3, <1>4, <1>5, <1>7, <1>8, <1>9, <1>10 DEF PathNext
-----------------------------------------------------------------------------
(***************************************************************************)
(* The theorems.                                                           *)
(***************************************************************************)
\* The state each build starts from satisfies IInv.
LEMMA PathInitially == (\E t \in Timers : PathInit(t)) => IInv
<1> SUFFICES ASSUME NEW t \in Timers, PathInit(t) PROVE IInv
  OBVIOUS
<1>1. PathTypeOK
  <2>1. 0 \in 0 .. MaxRequests /\ pending \in Seq(Request)
    BY PathAssumption, EmptySeq DEF PathInit
  <2>2. QED BY <2>1 DEF PathInit, PathTypeOK, BgPoints, Stages, Failures
<1>2. Len(pending) = 0
  BY DEF PathInit
<1>3. \A i \in 1 .. Len(pending) : FALSE
  BY <1>2
<1>4. HandlesDistinct /\ QueueInv /\ AddInv /\ OngoingInv
  BY <1>3 DEF PathInit, HandlesDistinct, QueueInv, AddInv, OngoingInv
<1>5. StageInv /\ LeavingInv
  BY DEF PathInit, StageInv, LeavingInv
<1>6. OwnResponse /\ PathAssertionsHold
  BY DEF PathInit, OwnResponse, PathAssertionsHold
<1>7. QED BY <1>1, <1>4, <1>5, <1>6 DEF IInv

\* Every step keeps IInv.
LEMMA PathStep == IInv /\ [PathNext]_pathVars => IInv'
BY TypeStep, OwnershipStep, LoopStep, AnswerStep DEF IInv, Ownership, Loop

\* IInv holds at the start and is kept by every step, so it always holds.
THEOREM PathInvariance == PathSpec => []IInv
BY PathInitially, PathStep, PTL DEF PathSpec

\* Every variable stays in its type.
LEMMA PathTypeCorrect == PathSpec => []PathTypeOK
<1>1. IInv => PathTypeOK
  BY DEF IInv
<1>2. QED BY <1>1, PathInvariance, PTL

\* None of the ALWAYS_ASSERTs of ProcessPendingRequests and CheckMulti fails, for any number
\* of callers and addresses.
THEOREM PathAssertionsNeverFail == PathSpec => []PathAssertionsHold
<1>1. IInv => PathAssertionsHold
  BY DEF IInv
<1>2. QED BY <1>1, PathInvariance, PTL

\* No caller ever gets the response of another caller or of an earlier request.
THEOREM ResponsesNeverCross == PathSpec => []OwnResponse
<1>1. IInv => OwnResponse
  BY DEF IInv
<1>2. QED BY <1>1, PathInvariance, PTL

\* libcurl never works on a handle whose owner is not blocked in HandleRequest.
THEOREM TransfersHaveWaiters == PathSpec => []TransferHasWaiter
<1>1. IInv => TransferHasWaiter
  <2> SUFFICES ASSUME IInv, NEW e \in Easies, stage[e] \in {"added", "running"}
               PROVE  \E c \in Callers : handle[c] = e /\ Waiting(c)
    BY DEF TransferHasWaiter
  <2>1. ongoing[e] # None /\ ~Leaving(e)
    BY DEF IInv, StageInv, LeavingInv, Leaving
  <2>2. ongoing[e] \in Request /\ ongoing[e].easy = e /\ Outstanding(ongoing[e])
    BY <2>1 DEF IInv, OngoingInv, PathTypeOK
  <2>3. ongoing[e].by \in Callers
    BY <2>2 DEF Request
  <2>4. QED BY <2>2, <2>3 DEF Outstanding
<1>2. QED BY <1>1, PathInvariance, PTL

-----------------------------------------------------------------------------
(***************************************************************************)
(* The request path implements RequestService (its safety part).           *)
(***************************************************************************)
\* Every step of the request path is a step of the service or leaves it unchanged: the
\* only step that answers a caller is Deliver, with that caller's own request.
LEMMA ServiceStep == IInv /\ IInv' /\ [PathNext]_pathVars => [Service!Next]_Service!vars
<1> SUFFICES ASSUME IInv, IInv', [PathNext]_pathVars PROVE [Service!Next]_Service!vars
  OBVIOUS
<1>0. PathTypeOK /\ PathTypeOK' /\ PathAssertionsHold' /\ StageInv
  BY DEF IInv
<1> USE <1>0, PathAssumption
<1>1. ASSUME NEW c \in Callers, Submit(c) PROVE Service!Submit(c)
  BY <1>1 DEF Submit, Service!Submit, Running, PathTypeOK
<1>2. ASSUME NEW c \in Callers, Return(c) PROVE Service!Return(c)
  BY <1>2 DEF Return, Service!Return, Running, PathTypeOK
<1>3. ASSUME NEW e \in Easies, Deliver(e) PROVE \E c \in Callers : Service!Serve(c)
  <2>1. /\ Running /\ bg = "check" /\ stage[e] = "done"
        /\ failure' = IF answer[private[e].by] # None \/ private[e] # ongoing[e]
                      THEN "promise" ELSE failure
        /\ answer' = [answer EXCEPT ![private[e].by] = ongoing[e]]
        /\ UNCHANGED <<pc, sent>>
    BY <1>3 DEF Deliver, FulfilFrom
  <2>2. /\ private[e] = ongoing[e] /\ ongoing[e] \in Request
        /\ ongoing[e].by \in Callers /\ Outstanding(ongoing[e])
    BY <2>1, FoundRequest
  <2>3. PICK c \in Callers, r \in Request :
          /\ r = ongoing[e] /\ c = r.by /\ r.num = sent[c] /\ Waiting(c)
          /\ answer' = [answer EXCEPT ![c] = r]
    BY <2>1, <2>2 DEF Outstanding
  <2>4. /\ pc[c] # "idle" /\ answer[c] = None /\ answer'[c] = r /\ r # None
        /\ \A d \in Callers \ {c} : answer'[d] = answer[d]
    BY <2>3 DEF Waiting, PathTypeOK
  <2>5. Running'
    BY <2>1, <2>2, <2>3, <2>4 DEF Running
  <2> DEFINE Phase == [d \in Callers |-> IF pc[d] = "idle" THEN "idle"
                                       ELSE IF answer[d] = None THEN "waiting" ELSE "served"]
             Reply == [d \in Callers |-> IF answer[d] = None THEN None
                                        ELSE <<answer[d].by, answer[d].num>>]
  <2>6. Phase[c] = "waiting" /\ Phase' = [Phase EXCEPT ![c] = "served"]
    BY <2>1, <2>4
  <2>7. Reply' = [Reply EXCEPT ![c] = <<c, sent[c]>>]
    <3>1. answer'[c].by = c /\ answer'[c].num = sent[c]
      BY <2>3, <2>4
    <3>2. Reply'[c] = <<c, sent[c]>>
      BY <2>4, <3>1
    <3>3. \A d \in Callers \ {c} : Reply'[d] = Reply[d]
      BY <2>4
    <3>4. QED BY <3>2, <3>3
  <2>8. (~Running) = (~Running)'
    BY <2>1, <2>5
  <2>9. Service!Serve(c)
    BY <2>1, <2>6, <2>7, <2>8 DEF Service!Serve
  <2>10. QED BY <2>9
<1>4. ASSUME UNCHANGED <<pc, sent, answer>>, Running' <=> Running
      PROVE  UNCHANGED Service!vars
  BY <1>4 DEF Service!vars
<1>5. ASSUME UNCHANGED <<pc, sent, answer>>, Running, ~Running'
      PROVE  Service!Terminate
  BY <1>5 DEF Service!Terminate
<1>6. ASSUME NEW c \in Callers, OpenClient(c) \/ CloseClient(c)
      PROVE  UNCHANGED Service!vars
  BY <1>4, <1>6 DEF OpenClient, CloseClient, Running
<1>7. ASSUME NEW c \in Callers, Notified(c) PROVE UNCHANGED Service!vars
  BY <1>7 DEF Notified, Service!vars, Running, PathTypeOK
<1>8. ASSUME NEW t \in Timers, LoopSetsTimer(t) \/ CheckMultiEnd(t)
      PROVE  UNCHANGED Service!vars
  BY <1>4, <1>8 DEF LoopSetsTimer, CheckMultiEnd, callerVars, Running
<1>9. ASSUME NEW why \in {failure} \cup LoopFailures, LoopFails(why) \/ StartDrain(why)
      PROVE  [Service!Next]_Service!vars
  <2>1. UNCHANGED <<pc, sent, answer>> /\ Running
    BY <1>9 DEF LoopFails, StartDrain, callerVars
  <2>2. QED BY <1>4, <1>5, <2>1 DEF Service!Next
<1>10. CASE \/ \E keep \in SUBSET Timers, timeout \in BOOLEAN : SocketAction(keep, timeout)
            \/ PopPending \/ PendingEmpty
  BY <1>4, <1>10 DEF SocketAction, PopPending, PendingEmpty, callerVars, Running
<1>11. CASE AddHandle
  BY <1>4, <1>11 DEF AddHandle, AddCurrent, callerVars, Running, PathAssertionsHold
<1>13. CASE Detach
  <2>1. UNCHANGED <<pc, sent, answer>> /\ Running
    BY <1>13 DEF Detach, callerVars
  <2>2. CASE Running'
    BY <1>4, <2>1, <2>2
  <2>3. CASE ~Running'
    BY <1>5, <2>1, <2>3 DEF Service!Next
  <2>4. QED BY <2>2, <2>3
<1>14. CASE UNCHANGED pathVars
  BY <1>4, <1>14 DEF pathVars, callerVars, Running
<1>15. QED
  BY <1>1, <1>2, <1>3, <1>6, <1>7, <1>8, <1>9, <1>10, <1>11, <1>13, <1>14
     DEF PathNext, Service!Next

\* Seen through the refinement mapping, every behaviour of the request path is one of the
\* service: one response per request and the right one, or the death of the process.
THEOREM PathImplementsService == PathSpec => ServiceSafety
<1>1. (\E t \in Timers : PathInit(t)) => Service!Init
  BY DEF PathInit, Service!Init, Running
<1>2. QED BY <1>1, ServiceStep, PathInvariance, PTL DEF PathSpec, ServiceSafety
-----------------------------------------------------------------------------
(***************************************************************************)
(* Where the request of a blocked caller is, and what is left behind by    *)
(* the requests that were answered.                                        *)
(***************************************************************************)
\* Every step leaves the finished transfers to CheckMulti.
LEMMA DoneStep == IInv /\ DoneInv /\ [PathNext]_pathVars => DoneInv'
<1> SUFFICES ASSUME IInv, DoneInv, [PathNext]_pathVars PROVE DoneInv'
  OBVIOUS
<1>0. PathTypeOK
  BY DEF IInv
<1>1. ASSUME NEW c \in Callers, OpenClient(c) \/ Submit(c) \/ Notified(c) \/ Return(c)
      PROVE  DoneInv'
  BY <1>1 DEF OpenClient, Submit, Notified, Return, curlVars, DoneInv
<1>2. ASSUME NEW c \in Callers, CloseClient(c) PROVE DoneInv'
  BY <1>0, <1>2 DEF CloseClient, LeaveMulti, DoneInv, PathTypeOK
<1>3. ASSUME NEW t \in Timers, LoopSetsTimer(t) \/ CheckMultiEnd(t)
      PROVE  DoneInv'
  BY <1>3 DEF LoopSetsTimer, CheckMultiEnd, curlVars, DoneInv
<1>4. ASSUME NEW why \in {failure} \cup LoopFailures, LoopFails(why) \/ StartDrain(why)
      PROVE  DoneInv'
  BY <1>4 DEF LoopFails, StartDrain, curlVars, DoneInv
<1>5. CASE \/ \E keep \in SUBSET Timers, timeout \in BOOLEAN : SocketAction(keep, timeout)
           \/ \E e \in Easies : Deliver(e)
  BY <1>5 DEF SocketAction, Deliver, FulfilFrom, DoneInv
<1>6. CASE PopPending \/ PendingEmpty \/ UNCHANGED pathVars
  BY <1>6 DEF PopPending, PendingEmpty, pathVars, curlVars, DoneInv
<1>7. CASE AddHandle \/ Detach
  BY <1>0, <1>7 DEF AddHandle, AddCurrent, Detach, LeaveMulti, DoneInv, PathTypeOK
<1>8. QED
  BY <1>1, <1>2, <1>3, <1>4, <1>5, <1>6, <1>7 DEF PathNext

\* Every step keeps the handles of live entries in the multi handle.
LEMMA EntryStep == IInv /\ EntryInv /\ [PathNext]_pathVars => EntryInv'
<1> SUFFICES ASSUME IInv, EntryInv, [PathNext]_pathVars PROVE EntryInv'
  OBVIOUS
<1>0. PathTypeOK
  BY DEF IInv
<1>1. ASSUME NEW c \in Callers, OpenClient(c) \/ Submit(c) \/ Notified(c) \/ Return(c)
      PROVE  EntryInv'
  BY <1>1 DEF OpenClient, Submit, Notified, Return, curlVars, EntryInv, Leaving
<1>2. ASSUME NEW c \in Callers, CloseClient(c) PROVE EntryInv'
  <2>1. /\ stage' = [stage EXCEPT ![handle[c]] = "out"] /\ ~Waiting(c)
        /\ UNCHANGED <<ongoing, bg, current>>
    BY <1>2 DEF CloseClient, LeaveMulti, Waiting
  <2>2. \A e \in Easies : ongoing[e] # None /\ ~Leaving(e) => handle[c] # e
    BY <2>1, FreeCaller
  <2>3. QED BY <1>0, <2>1, <2>2 DEF EntryInv, Leaving, PathTypeOK
<1>3. ASSUME NEW t \in Timers, LoopSetsTimer(t) \/ CheckMultiEnd(t)
      PROVE  EntryInv'
  BY <1>3 DEF LoopSetsTimer, CheckMultiEnd, curlVars, EntryInv, Leaving
<1>4. ASSUME NEW why \in {failure} \cup LoopFailures, LoopFails(why) \/ StartDrain(why)
      PROVE  EntryInv'
  BY <1>4 DEF LoopFails, StartDrain, curlVars, EntryInv, Leaving
<1>5. ASSUME NEW keep \in SUBSET Timers, NEW timeout \in BOOLEAN, SocketAction(keep, timeout)
      PROVE  EntryInv'
  <2>1. \A e \in Easies : stage'[e] # "out" <=> stage[e] # "out"
    BY <1>0, <1>5, SocketActionFacts
  <2>2. QED BY <1>5, <2>1 DEF SocketAction, EntryInv, Leaving
<1>6. CASE PopPending \/ PendingEmpty \/ UNCHANGED pathVars
  BY <1>6 DEF PopPending, PendingEmpty, pathVars, curlVars, EntryInv, Leaving
<1>8. CASE AddHandle
  BY <1>0, <1>8 DEF AddHandle, AddCurrent, EntryInv, Leaving, PathTypeOK
<1>9. ASSUME NEW f \in Easies, Deliver(f) PROVE EntryInv'
  BY <1>9 DEF Deliver, FulfilFrom, curlVars, EntryInv, Leaving
<1>10. CASE Detach
  BY <1>0, <1>10 DEF Detach, Erase, LeaveMulti, EntryInv, Leaving, PathTypeOK
<1>11. QED
  BY <1>1, <1>2, <1>3, <1>4, <1>5, <1>6, <1>8, <1>9, <1>10 DEF PathNext

\* A request that was answered stays so, and the entry of the answered request in hand
\* is left alone until Detach.
LEMMA AnsweredStep == IInv /\ AnsweredInv /\ [PathNext]_pathVars => AnsweredInv'
<1> SUFFICES ASSUME IInv, AnsweredInv, [PathNext]_pathVars, bg' = "detach" PROVE AnsweredInv'
  BY DEF AnsweredInv
<1>0. PathTypeOK
  BY DEF IInv
<1>a. ASSUME bg = "detach"
      PROVE  /\ current \in Request /\ current.by \in Callers /\ current.easy \in Easies
             /\ current.num \in Nat /\ ongoing[current.easy] = current /\ Answered(current)
             /\ stage[current.easy] = "done" => handle[current.by] = current.easy
             /\ sent \in [Callers -> Nat]
  BY <1>0, <1>a, PathAssumption DEF AnsweredInv, PathTypeOK, Request
<1>1. ASSUME NEW c \in Callers, OpenClient(c) PROVE AnsweredInv'
  <2>1. /\ bg = "detach" /\ UNCHANGED <<sent, answer, ongoing, current, stage>>
        /\ handle[c] = None
        /\ \A d \in Callers \ {c} : handle'[d] = handle[d]
    BY <1>0, <1>1 DEF OpenClient, PathTypeOK
  <2>2. QED BY <1>a, <2>1, PathAssumption DEF AnsweredInv, Answered
<1>2. ASSUME NEW c \in Callers, CloseClient(c) PROVE AnsweredInv'
  <2>1. /\ bg = "detach" /\ UNCHANGED <<sent, answer, ongoing, current>>
        /\ stage' = [stage EXCEPT ![handle[c]] = "out"]
        /\ handle' = [handle EXCEPT ![c] = None]
    BY <1>2 DEF CloseClient, LeaveMulti
  <2>2. QED BY <1>0, <1>a, <2>1 DEF AnsweredInv, Answered, PathTypeOK
<1>3. ASSUME NEW c \in Callers, Submit(c) PROVE AnsweredInv'
  <2>1. /\ bg = "detach" /\ UNCHANGED <<handle, ongoing, current, stage>>
        /\ sent' = [sent EXCEPT ![c] = @ + 1] /\ answer' = [answer EXCEPT ![c] = None]
    BY <1>3 DEF Submit
  <2>2. Answered(current)'
    BY <1>0, <1>a, <2>1 DEF Answered, PathTypeOK
  <2>3. QED BY <1>a, <2>1, <2>2 DEF AnsweredInv
<1>4. ASSUME NEW c \in Callers, Notified(c) \/ Return(c) PROVE AnsweredInv'
  BY <1>4, <1>a DEF Notified, Return, curlVars, AnsweredInv, Answered
<1>5. ASSUME \/ \E t \in Timers : LoopSetsTimer(t)
             \/ \E why \in LoopFailures : LoopFails(why)
             \/ UNCHANGED pathVars
      PROVE  AnsweredInv'
  BY <1>5, <1>a DEF LoopSetsTimer, LoopFails, pathVars, callerVars, curlVars, AnsweredInv, Answered
<1>6. ASSUME NEW e \in Easies, Deliver(e) PROVE AnsweredInv'
  <2>1. /\ bg = "check" /\ stage[e] = "done" /\ current' = private[e]
        /\ answer' = [answer EXCEPT ![private[e].by] = ongoing[e]]
        /\ UNCHANGED <<sent, handle, ongoing, stage>>
    BY <1>6 DEF Deliver, FulfilFrom, curlVars
  <2>2. /\ private[e] = ongoing[e] /\ ongoing[e] \in Request
        /\ ongoing[e].easy = e /\ ongoing[e].by \in Callers
        /\ Outstanding(ongoing[e])
    BY <2>1, FoundRequest
  <2>3. ongoing[e] # None
    BY <2>2, PathAssumption
  <2>4. QED BY <1>0, <2>1, <2>2, <2>3 DEF AnsweredInv, Answered, Outstanding, PathTypeOK
<1>7. CASE \/ \E keep \in SUBSET Timers, timeout \in BOOLEAN : SocketAction(keep, timeout)
           \/ \E fail \in {failure} \cup LoopFailures : StartDrain(fail)
           \/ \E t \in Timers : CheckMultiEnd(t)
  BY <1>7 DEF SocketAction, StartDrain, CheckMultiEnd
<1>8. CASE PopPending \/ PendingEmpty \/ AddHandle \/ Detach
  BY <1>8 DEF PopPending, PendingEmpty, AddHandle, AddCurrent, Detach
<1>9. QED
  BY <1>1, <1>2, <1>3, <1>4, <1>5, <1>6, <1>7, <1>8 DEF PathNext

\* A caller on its way has a client and has made a request.
LEMMA CallerStep == PathTypeOK /\ CallerInv /\ [PathNext]_pathVars => CallerInv'
<1> SUFFICES ASSUME PathTypeOK, CallerInv, [PathNext]_pathVars PROVE CallerInv'
  OBVIOUS
<1>1. ASSUME NEW c \in Callers, OpenClient(c) \/ CloseClient(c) \/ Notified(c) \/ Return(c)
      PROVE  CallerInv'
  BY <1>1 DEF OpenClient, CloseClient, Notified, Return, CallerInv, PathTypeOK
<1>2. ASSUME NEW c \in Callers, Submit(c) PROVE CallerInv'
  <2>1. sent[c] + 1 # 0
    BY PathAssumption DEF PathTypeOK
  <2>2. QED BY <1>2, <2>1 DEF Submit, CallerInv, PathTypeOK
<1>3. ASSUME UNCHANGED <<pc, handle, sent>> PROVE CallerInv'
  BY <1>3 DEF CallerInv
<1>4. CASE \/ \E t \in Timers : LoopSetsTimer(t) \/ CheckMultiEnd(t)
           \/ \E why \in {failure} \cup LoopFailures : LoopFails(why) \/ StartDrain(why)
           \/ \E keep \in SUBSET Timers, timeout \in BOOLEAN : SocketAction(keep, timeout)
  BY <1>3, <1>4 DEF LoopSetsTimer, CheckMultiEnd, LoopFails, StartDrain, SocketAction, callerVars
<1>5. CASE \/ PopPending \/ PendingEmpty \/ AddHandle \/ Detach \/ UNCHANGED pathVars
           \/ \E e \in Easies : Deliver(e)
  BY <1>3, <1>5 DEF PopPending, PendingEmpty, AddHandle, AddCurrent, Deliver, FulfilFrom, Detach,
                    pathVars, callerVars
<1>6. QED BY <1>1, <1>2, <1>4, <1>5 DEF PathNext

\* The request a caller is blocked on, and the places it may be in.
RequestOf(c) == [by |-> c, num |-> sent[c], easy |-> handle[c]]

Registered(r) ==
  /\ ongoing[r.easy] = r
  /\ \/ stage[r.easy] \in {"added", "running"}
     \/ stage[r.easy] = "done" /\ bg \in {"check", "detach"}

Placed(r) ==
  \/ \E i \in 1 .. Len(pending) : pending[i] = r
  \/ bg = "add" /\ current = r
  \/ Registered(r)

\* A request its caller stays blocked on moves from one place to the next.
LEMMA PlacedStep ==
  ASSUME IInv, RInv, [PathNext]_pathVars, NEW r \in Request, Outstanding(r), Placed(r)
  PROVE  Placed(r)'
<1>0. PathTypeOK /\ r.by \in Callers /\ r.easy \in Easies /\ r.easy = handle[r.by] /\ r # None
      /\ pc[r.by] # "idle"
  BY PathAssumption DEF IInv, Outstanding, Waiting, Request
<1>a. ASSUME UNCHANGED <<pending, bg, current, ongoing, stage>> PROVE Placed(r)'
  BY <1>a DEF Placed, Registered
<1>1. ASSUME NEW c \in Callers, OpenClient(c) \/ Notified(c) \/ Return(c) PROVE Placed(r)'
  BY <1>1, <1>a DEF OpenClient, Notified, Return, curlVars
<1>2. ASSUME NEW c \in Callers, CloseClient(c) PROVE Placed(r)'
  <2>1. /\ stage' = [stage EXCEPT ![handle[c]] = "out"] /\ handle[c] # None /\ pc[c] = "idle"
        /\ UNCHANGED <<pending, bg, current, ongoing>>
    BY <1>2 DEF CloseClient, LeaveMulti
  <2>2. handle[c] # r.easy
    BY <1>0, <2>1 DEF IInv, HandlesDistinct
  <2>3. stage'[r.easy] = stage[r.easy]
    BY <1>0, <2>1, <2>2 DEF PathTypeOK
  <2>4. QED BY <2>1, <2>3 DEF Placed, Registered
<1>3. ASSUME NEW c \in Callers, Submit(c) PROVE Placed(r)'
  <2> DEFINE new == [by |-> c, num |-> sent[c] + 1, easy |-> handle[c]]
  <2>1. new \in Request /\ pending' = Append(pending, new)
        /\ UNCHANGED <<bg, current, ongoing, stage>>
    BY <1>0, <1>3, PathAssumption DEF Submit, PathTypeOK, Request
  <2>2. \A i \in 1 .. Len(pending) : i \in 1 .. Len(pending') /\ pending'[i] = pending[i]
    BY <1>0, <2>1, AppendProperties, LenProperties DEF PathTypeOK
  <2>3. QED BY <2>1, <2>2 DEF Placed, Registered
<1>4. CASE \/ \E t \in Timers : LoopSetsTimer(t)
           \/ \E why \in LoopFailures : LoopFails(why)
           \/ UNCHANGED pathVars
  BY <1>4, <1>a DEF LoopSetsTimer, LoopFails, pathVars, curlVars
<1>5. ASSUME NEW keep \in SUBSET Timers, NEW timeout \in BOOLEAN, SocketAction(keep, timeout)
      PROVE  Placed(r)'
  <2>1. /\ stage[r.easy] # "out" => stage'[r.easy] # "out"
        /\ stage'[r.easy] \in Stages
    BY <1>0, <1>5, SocketActionFacts
  <2>2. QED BY <1>5, <2>1 DEF SocketAction, Placed, Registered, Stages
<1>8. ASSUME NEW fail \in {failure} \cup LoopFailures, StartDrain(fail) PROVE Placed(r)'
  BY <1>8 DEF StartDrain, curlVars, Placed, Registered
<1>9. CASE PopPending
  <2>1. /\ pending # <<>> /\ current' = pending[1] /\ pending' = Tail(pending)
        /\ bg = "drain" /\ bg' = "add" /\ UNCHANGED <<ongoing, stage>>
    BY <1>9 DEF PopPending, curlVars
  <2>2. ASSUME NEW i \in 1 .. Len(pending), pending[i] = r, i # 1
        PROVE  \E j \in 1 .. Len(pending') : pending'[j] = r
    <3>1. i - 1 \in 1 .. Len(pending') /\ pending'[i - 1] = pending[(i - 1) + 1]
      BY <1>0, <2>1, <2>2, HeadTailProperties, LenProperties DEF PathTypeOK
    <3>2. (i - 1) + 1 = i
      BY <2>2
    <3>3. QED BY <2>2, <3>1, <3>2
  <2>3. QED BY <2>1, <2>2 DEF Placed, Registered
<1>10. CASE PendingEmpty
  <2>1. ~ \E i \in 1 .. Len(pending) : pending[i] = r
    BY <1>0, <1>10, EmptySeq DEF PendingEmpty, PathTypeOK
  <2>2. QED BY <1>10, <2>1 DEF PendingEmpty, curlVars, Placed, Registered
<1>11. CASE AddHandle
  <2>1. /\ bg = "add" /\ bg' = "drain" /\ UNCHANGED pending
        /\ ongoing' = [ongoing EXCEPT ![current.easy] = current]
        /\ stage' = [stage EXCEPT ![current.easy] = "added"]
    BY <1>11 DEF AddHandle, AddCurrent
  <2>2. current.easy \in Easies /\ ongoing[current.easy] = None
    BY <2>1, AddressFree
  <2>3. QED BY <1>0, <2>1, <2>2 DEF Placed, Registered, PathTypeOK
<1>12. ASSUME NEW e \in Easies, Deliver(e) PROVE Placed(r)'
  BY <1>12 DEF Deliver, FulfilFrom, curlVars, Placed, Registered
<1>13. CASE Detach
  <2>1. /\ bg = "detach" /\ bg' = "check" /\ UNCHANGED pending
        /\ ongoing' = [ongoing EXCEPT ![current.easy] = None]
        /\ stage' = [stage EXCEPT ![current.easy] = "out"]
    BY <1>13 DEF Detach, Erase, LeaveMulti
  <2>2. CASE Registered(r)
    <3>1. r.easy # current.easy
      <4>1. SUFFICES ASSUME r.easy = current.easy PROVE FALSE
        OBVIOUS
      <4>2. Answered(r)
        BY <2>1, <2>2, <4>1 DEF Registered, RInv, AnsweredInv
      <4>3. r.num = sent[r.by] /\ answer[r.by] = None /\ sent[r.by] \in Nat
        BY <1>0, PathAssumption DEF Outstanding, Waiting, PathTypeOK
      <4>4. QED BY <4>2, <4>3 DEF Answered
    <3>2. QED BY <1>0, <2>1, <2>2, <3>1 DEF Placed, Registered, PathTypeOK
  <2>3. CASE ~Registered(r)
    BY <2>1, <2>3 DEF Placed
  <2>4. QED BY <2>2, <2>3
<1>14. ASSUME NEW t \in Timers, CheckMultiEnd(t) PROVE Placed(r)'
  BY <1>0, <1>14 DEF CheckMultiEnd, curlVars, Placed, Registered
<1>15. QED
  BY <1>1, <1>2, <1>3, <1>4, <1>5, <1>8, <1>9, <1>10, <1>11, <1>12, <1>13, <1>14
     DEF PathNext

\* A caller that is blocked after a step was blocked on the same request before it, or
\* has just made it.
LEMMA StillBlocked ==
  ASSUME PathTypeOK, StageInv, [PathNext]_pathVars, NEW c \in Callers, Waiting(c)'
  PROVE  \/ Submit(c)
         \/ Waiting(c) /\ handle'[c] = handle[c] /\ sent'[c] = sent[c]
<1>1. ASSUME NEW d \in Callers, OpenClient(d) \/ CloseClient(d) \/ Notified(d) \/ Return(d)
      PROVE  Waiting(c) /\ handle'[c] = handle[c] /\ sent'[c] = sent[c]
  BY <1>1 DEF OpenClient, CloseClient, Notified, Return, Waiting, PathTypeOK
<1>2. ASSUME NEW d \in Callers, Submit(d), d # c
      PROVE  Waiting(c) /\ handle'[c] = handle[c] /\ sent'[c] = sent[c]
  BY <1>2 DEF Submit, Waiting, PathTypeOK
<1>3. ASSUME UNCHANGED callerVars
      PROVE  Waiting(c) /\ handle'[c] = handle[c] /\ sent'[c] = sent[c]
  BY <1>3 DEF callerVars, Waiting
<1>4. ASSUME NEW e \in Easies, Deliver(e)
      PROVE  Waiting(c) /\ handle'[c] = handle[c] /\ sent'[c] = sent[c]
  <2>1. /\ UNCHANGED <<pc, handle, sent>> /\ stage[e] = "done"
        /\ answer' = [answer EXCEPT ![private[e].by] = ongoing[e]]
    BY <1>4 DEF Deliver, FulfilFrom
  <2>2. ongoing[e] # None
    BY <2>1 DEF StageInv
  <2>3. QED BY <2>1, <2>2 DEF Waiting, PathTypeOK
<1>5. CASE \/ \E t \in Timers : LoopSetsTimer(t) \/ CheckMultiEnd(t)
           \/ \E why \in {failure} \cup LoopFailures : LoopFails(why) \/ StartDrain(why)
           \/ \E keep \in SUBSET Timers, timeout \in BOOLEAN : SocketAction(keep, timeout)
  BY <1>3, <1>5 DEF LoopSetsTimer, CheckMultiEnd, LoopFails, StartDrain, SocketAction
<1>6. CASE PopPending \/ PendingEmpty \/ AddHandle \/ Detach \/ UNCHANGED pathVars
  BY <1>3, <1>6 DEF PopPending, PendingEmpty, AddHandle, AddCurrent, Detach, pathVars
<1>7. QED BY <1>1, <1>2, <1>4, <1>5, <1>6 DEF PathNext

\* Every step keeps the request of each blocked caller in one of its places.
LEMMA BlockedStep == IInv /\ RInv /\ BlockedHasRequest /\ [PathNext]_pathVars => BlockedHasRequest'
<1> SUFFICES ASSUME IInv, RInv, BlockedHasRequest, [PathNext]_pathVars PROVE BlockedHasRequest'
  OBVIOUS
<1> SUFFICES ASSUME NEW c \in Callers, Waiting(c)' PROVE Placed(RequestOf(c))'
  <2>1. PathTypeOK'
    BY TypeStep
  <2>2. DOMAIN pending' = 1 .. Len(pending')
    BY <2>1, LenProperties DEF PathTypeOK
  <2>3. QED BY <2>2 DEF BlockedHasRequest, Placed, Registered, RequestOf
<1>0. PathTypeOK /\ StageInv /\ pending \in Seq(Request)
  BY DEF IInv, PathTypeOK
<1>1. CASE Submit(c)
  <2> DEFINE new == [by |-> c, num |-> sent[c] + 1, easy |-> handle[c]]
  <2>1. new \in Request /\ pending' = Append(pending, new)
        /\ sent'[c] = sent[c] + 1 /\ handle' = handle
    BY <1>0, <1>1, PathAssumption DEF Submit, PathTypeOK, Request
  <2>2. Len(pending') \in 1 .. Len(pending') /\ pending'[Len(pending')] = new
    BY <1>0, <2>1, AppendProperties, LenProperties
  <2>3. RequestOf(c)' = new
    BY <2>1 DEF RequestOf
  <2>4. QED BY <2>2, <2>3 DEF Placed
<1>2. CASE Waiting(c) /\ handle'[c] = handle[c] /\ sent'[c] = sent[c]
  <2>1. RequestOf(c) \in Request
    BY <1>0, <1>2, PathAssumption DEF RequestOf, Request, RInv, CallerInv, Waiting, PathTypeOK
  <2>2. Outstanding(RequestOf(c))
    BY <1>2 DEF Outstanding, RequestOf
  <2>3. Placed(RequestOf(c))
    BY <1>0, <1>2 DEF BlockedHasRequest, Placed, Registered, RequestOf
  <2>4. PICK r \in Request : r = RequestOf(c) /\ Outstanding(r) /\ Placed(r)
    BY <2>1, <2>2, <2>3
  <2>5. Placed(r)'
    BY <2>4, PlacedStep
  <2>6. RequestOf(c)' = r
    BY <1>2, <2>4 DEF RequestOf
  <2>7. QED BY <2>5, <2>6
<1>3. QED BY <1>0, <1>1, <1>2, StillBlocked

\* The second invariant, on top of the first.
THEOREM RequestInvariance == PathSpec => []RInv
<1>1. (\E t \in Timers : PathInit(t)) => RInv
  BY DEF PathInit, RInv, AnsweredInv, DoneInv, EntryInv, CallerInv
<1>2. IInv => PathTypeOK
  BY DEF IInv
<1>3. IInv /\ RInv /\ [PathNext]_pathVars => RInv'
  BY <1>2, AnsweredStep, DoneStep, EntryStep, CallerStep DEF RInv
<1>4. QED BY <1>1, <1>3, PathInvariance, PTL DEF PathSpec

\* The request of a blocked caller is never dropped, and never left finished and unread
\* when the loop goes back to wait for events.
THEOREM RequestsNeverDropped == PathSpec => []BlockedHasRequest
<1>1. (\E t \in Timers : PathInit(t)) => BlockedHasRequest
  BY DEF PathInit, BlockedHasRequest, Waiting
<1>2. QED BY <1>1, BlockedStep, PathInvariance, RequestInvariance, PTL DEF PathSpec

\* The early return of HandleRequest exposes one finished transfer, for the time between
\* set_value and curl_multi_remove_handle.
THEOREM ReleaseWindowIsNarrow == PathSpec => []ReleaseWindow
<1>1. IInv /\ RInv => ReleaseWindow
  <2> SUFFICES ASSUME IInv, RInv, NEW c \in Callers, pc[c] = "idle", handle[c] # None,
                      stage[handle[c]] # "out"
               PROVE  /\ stage[handle[c]] = "done"
                      /\ bg = "detach" /\ current.by = c /\ current.easy = handle[c]
    BY DEF ReleaseWindow
  <2>1. handle[c] \in Easies /\ stage[handle[c]] = "done" /\ ~Waiting(c)
    BY IdleHandleNotAlive DEF Waiting
  <2>2. ongoing[handle[c]] # None
    BY <2>1 DEF IInv, StageInv
  <2>3. Leaving(handle[c])
    BY <2>1, <2>2, FreeCaller
  <2>4. current.by \in Callers /\ handle[current.by] = handle[c]
    BY <2>1, <2>3 DEF Leaving, IInv, PathTypeOK, Request, RInv, AnsweredInv
  <2>5. current.by = c
    BY <2>4 DEF IInv, HandlesDistinct
  <2>6. QED BY <2>1, <2>3, <2>5 DEF Leaving
<1>2. QED BY <1>1, PathInvariance, RequestInvariance, PTL

\* ongoing_requests never keeps an entry whose transfer libcurl no longer has.
THEOREM NoDeadEntries == PathSpec => []EntriesLive
<1>1. IInv /\ RInv => EntriesLive
  <2> SUFFICES ASSUME IInv, RInv, NEW e \in Easies, ongoing[e] # None, ~Leaving(e)
               PROVE  \/ stage[e] \in {"added", "running"}
                      \/ stage[e] = "done" /\ bg \in {"check", "detach"}
    BY DEF EntriesLive, Leaving
  <2>1. stage[e] # "out" /\ stage[e] \in Stages
    BY DEF RInv, EntryInv, IInv, PathTypeOK
  <2>2. QED BY <2>1 DEF RInv, DoneInv, Stages
<1>2. QED BY <1>1, PathInvariance, RequestInvariance, PTL
-----------------------------------------------------------------------------
(***************************************************************************)
(* The timer, as far as the request path decides about it.                 *)
(***************************************************************************)
\* libcurl keeps the timer of a transfer when it is called, unless what the loop did
\* before the call had already lost it.
LEMMA TimerOfSocketAction ==
  ASSUME IInv, TransferHasTimer, NEW keep \in SUBSET Timers, NEW timeout \in BOOLEAN,
         SocketAction(keep, timeout), keep \subseteq {timer}
  PROVE  TransferHasTimer'
<1> SUFFICES ASSUME NEW e \in Easies,
                    \/ stage'[e] = "added"
                    \/ stage'[e] = "running" /\ ongoing[e] # None /\ ongoing[e].by \in Timed
             PROVE  timer' # "off"
  BY DEF SocketAction, TransferHasTimer, WithTimeout
<1>1. PathTypeOK
  BY DEF IInv
<1>2. /\ stage'[e] \in {"added", "running"} => stage[e] \in {"added", "running"}
      /\ stage[e] = "running" => stage'[e] # "added"
      /\ timer' \in keep \cup {"armed"} \/ WithTimeout(stage') = {}
  BY <1>1, SocketActionFacts
<1>3. WithTimeout(stage') # {}
  BY DEF WithTimeout
<1>4. WithTimeout(stage) # {}
  BY <1>2 DEF WithTimeout
<1>5. QED BY <1>2, <1>3, <1>4 DEF TransferHasTimer

\* The steps that both builds take as they are.
SharedStep ==
  \/ \E c \in Callers : OpenClient(c) \/ CloseClient(c) \/ Submit(c) \/ Notified(c) \/ Return(c)
  \/ \E why \in {failure} \cup LoopFailures : LoopFails(why) \/ StartDrain(why)
  \/ PopPending \/ PendingEmpty \/ AddHandle
  \/ \E e \in Easies : Deliver(e)
  \/ Detach

\* None of them loses the timer of a transfer.
LEMMA TimerOfSharedStep ==
  ASSUME IInv, TransferHasTimer, SharedStep \/ UNCHANGED pathVars
  PROVE  TransferHasTimer'
<1>0. PathTypeOK
  BY DEF IInv
<1>1. ASSUME UNCHANGED <<stage, ongoing, timer>> PROVE TransferHasTimer'
  BY <1>1 DEF TransferHasTimer, WithTimeout
<1>2. ASSUME NEW c \in Callers, OpenClient(c) \/ Submit(c) \/ Notified(c) \/ Return(c)
      PROVE  TransferHasTimer'
  BY <1>1, <1>2 DEF OpenClient, Submit, Notified, Return, curlVars
<1>3. ASSUME NEW c \in Callers, CloseClient(c) PROVE TransferHasTimer'
  <2>1. handle[c] \in Easies /\ UNCHANGED ongoing
    BY <1>0, <1>3 DEF CloseClient, PathTypeOK
  <2>2. /\ stage' = [stage EXCEPT ![handle[c]] = "out"]
        /\ timer' \in {timer, "armed"} \/ WithTimeout(stage') = {}
    BY <1>0, <1>3, <2>1, LeaveMultiFacts DEF CloseClient
  <2>3. WithTimeout(stage') \subseteq WithTimeout(stage)
    BY <1>0, <2>1, <2>2 DEF WithTimeout, PathTypeOK
  <2>4. WithTimeout(stage)' = WithTimeout(stage')
    BY <2>1 DEF WithTimeout
  <2>5. QED BY <2>2, <2>3, <2>4 DEF TransferHasTimer
<1>4. ASSUME NEW why \in {failure} \cup LoopFailures, LoopFails(why) \/ StartDrain(why)
      PROVE  TransferHasTimer'
  BY <1>1, <1>4 DEF LoopFails, StartDrain, curlVars
<1>5. CASE PopPending \/ PendingEmpty \/ (\E e \in Easies : Deliver(e)) \/ UNCHANGED pathVars
  BY <1>1, <1>5 DEF PopPending, PendingEmpty, Deliver, FulfilFrom, curlVars, pathVars
<1>6. CASE AddHandle
  BY <1>6 DEF AddHandle, AddCurrent, TransferHasTimer
<1>7. CASE Detach
  <2>1. current.easy \in Easies /\ ongoing' = [ongoing EXCEPT ![current.easy] = None]
    BY <1>0, <1>7 DEF Detach, Erase, PathTypeOK, Request
  <2>2. /\ stage' = [stage EXCEPT ![current.easy] = "out"]
        /\ timer' \in {timer, "armed"} \/ WithTimeout(stage') = {}
    BY <1>0, <1>7, <2>1, LeaveMultiFacts DEF Detach
  <2>3. WithTimeout(stage') \subseteq WithTimeout(stage)
    BY <1>0, <2>1, <2>2 DEF WithTimeout, PathTypeOK
  <2>4. WithTimeout(stage)' = WithTimeout(stage')
    BY <1>0, <2>1, <2>2 DEF WithTimeout, PathTypeOK
  <2>5. QED BY <2>2, <2>3, <2>4 DEF TransferHasTimer
<1>8. QED BY <1>2, <1>3, <1>4, <1>5, <1>6, <1>7 DEF SharedStep
=============================================================================
