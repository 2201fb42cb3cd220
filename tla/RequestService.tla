--------------------------- MODULE RequestService ---------------------------
(***************************************************************************)
(* What MultiCurlManager::HandleRequest promises to the threads that call  *)
(* it, with the queue, the event loop and libcurl hidden: a caller hands   *)
(* over one request at a time, blocks, and gets the response of that very  *)
(* request exactly once.  The one thing that may stop the service is the   *)
(* death of the whole process.                                             *)
(***************************************************************************)
EXTENDS Naturals

CONSTANTS
  Callers,      \* the threads that issue requests
  MaxRequests,  \* bound on the requests of one caller
  None          \* "no response yet"

VARIABLES
  phase,   \* phase[c]: "idle", "waiting" (no response yet) or "served"
  issued,  \* issued[c]: how many requests c has made
  reply,   \* reply[c]: the request that c's last response belongs to
  down     \* the process has been terminated

vars == <<phase, issued, reply, down>>

Init ==
  /\ phase = [c \in Callers |-> "idle"]
  /\ issued = [c \in Callers |-> 0]
  /\ reply = [c \in Callers |-> None]
  /\ down = FALSE

Submit(c) ==
  /\ ~down /\ phase[c] = "idle" /\ issued[c] < MaxRequests
  /\ phase' = [phase EXCEPT ![c] = "waiting"]
  /\ issued' = [issued EXCEPT ![c] = @ + 1]
  /\ reply' = [reply EXCEPT ![c] = None]
  /\ UNCHANGED down

Serve(c) ==
  /\ ~down /\ phase[c] = "waiting"
  /\ phase' = [phase EXCEPT ![c] = "served"]
  /\ reply' = [reply EXCEPT ![c] = <<c, issued[c]>>]
  /\ UNCHANGED <<issued, down>>

Return(c) ==
  /\ ~down /\ phase[c] = "served"
  /\ phase' = [phase EXCEPT ![c] = "idle"]
  /\ UNCHANGED <<issued, reply, down>>

\* std::terminate: an exception that leaves the background thread.
Terminate ==
  /\ ~down /\ down' = TRUE
  /\ UNCHANGED <<phase, issued, reply>>

Next ==
  \/ \E c \in Callers : Submit(c) \/ Serve(c) \/ Return(c)
  \/ Terminate

Fairness == \A c \in Callers : WF_vars(Serve(c)) /\ WF_vars(Return(c))

Spec == Init /\ [][Next]_vars /\ Fairness
=============================================================================
