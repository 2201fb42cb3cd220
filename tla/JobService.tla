----------------------------- MODULE JobService -----------------------------
(***************************************************************************)
(* What ThreadPool promises to the threads that use it, with the queue,    *)
(* the condition variables and the worker threads hidden: jobs are started *)
(* in the order they are pushed, at most one per worker at a time, each of *)
(* them once; Wait returns when everything pushed has been executed; the   *)
(* destructor stops the start of jobs, and returns when the started ones   *)
(* are over.                                                               *)
(***************************************************************************)
EXTENDS Naturals, FiniteSets

CONSTANTS
  Clients,  \* threads that push and wait
  Slots,    \* number of jobs that may run at the same time
  MaxJobs   \* bound on the number of jobs pushed

VARIABLES
  pushed,   \* number of jobs pushed
  started,  \* how many of them have been started: the first ones
  over,     \* jobs that have been executed
  waiting,  \* waiting[c]: c is in Wait
  life      \* "open", "stopping" (in the destructor) or "gone"

vars == <<pushed, started, over, waiting, life>>

Job == 1 .. MaxJobs
Executing == (1 .. started) \ over

Init ==
  /\ pushed = 0 /\ started = 0 /\ over = {}
  /\ waiting = [c \in Clients |-> FALSE]
  /\ life = "open"

Push(c) ==
  /\ life # "gone" /\ ~waiting[c] /\ pushed < MaxJobs
  /\ pushed' = pushed + 1
  /\ UNCHANGED <<started, over, waiting, life>>

Start ==
  /\ life = "open" /\ started < pushed /\ Cardinality(Executing) < Slots
  /\ started' = started + 1
  /\ UNCHANGED <<pushed, over, waiting, life>>

End(j) ==
  /\ life # "gone" /\ j \in Executing
  /\ over' = over \cup {j}
  /\ UNCHANGED <<pushed, started, waiting, life>>

Wait(c) ==
  /\ life # "gone" /\ ~waiting[c]
  /\ waiting' = [waiting EXCEPT ![c] = TRUE]
  /\ UNCHANGED <<pushed, started, over, life>>

WaitReturn(c) ==
  /\ waiting[c] /\ (life = "open" => over = 1 .. pushed)
  /\ waiting' = [waiting EXCEPT ![c] = FALSE]
  /\ UNCHANGED <<pushed, started, over, life>>

Stop ==
  /\ life = "open" /\ life' = "stopping"
  /\ UNCHANGED <<pushed, started, over, waiting>>

Destroyed ==
  /\ life = "stopping" /\ Executing = {}
  /\ life' = "gone"
  /\ UNCHANGED <<pushed, started, over, waiting>>

Next ==
  \/ \E c \in Clients : Push(c) \/ Wait(c) \/ WaitReturn(c)
  \/ Start \/ \E j \in Job : End(j)
  \/ Stop \/ Destroyed

\* Jobs are started and executed, the destructor returns, and so does Wait as long as
\* the pool is not being destroyed.
Fairness ==
  /\ WF_vars(Start) /\ \A j \in Job : WF_vars(End(j))
  /\ WF_vars(Destroyed)
  /\ \A c \in Clients : WF_vars(WaitReturn(c) /\ life = "open")

Spec == Init /\ [][Next]_vars /\ Fairness
=============================================================================
