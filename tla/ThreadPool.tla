----------------------------- MODULE ThreadPool -----------------------------
(***************************************************************************)
(* The thread pool (src/src/thread_pool.cpp): workers that take jobs from  *)
(* a queue, clients that Push jobs or Wait for all of them, and a          *)
(* destructor.  Everything is protected by mutex_; a step is one critical  *)
(* section, or the part of a thread between two of them.  A condition      *)
(* variable is the set of threads asleep on it: notify_one wakes any one   *)
(* of them, and a thread may wake up without a reason.                     *)
(***************************************************************************)
EXTENDS Naturals, Sequences, FiniteSets

CONSTANTS
  Workers,   \* the threads of workers_
  Clients,   \* threads that call Push
  Waiters,   \* those of them that call Wait too
  Owners,    \* threads that may run the destructor; {} for a pool never destroyed
  MaxJobs,   \* bound on the number of jobs pushed
  None       \* "no job"

Job == 1 .. MaxJobs   \* jobs are numbered as they are pushed

ASSUME ConstantsAssumption ==
  /\ IsFiniteSet(Workers) /\ Waiters \subseteq Clients
  /\ MaxJobs \in Nat /\ None \notin Job

VARIABLES
  jobs,       \* jobs_
  idle_num,   \* idle_num_
  stopped,    \* stopped_
  worker,     \* "awake" (about to look at the queue), "asleep" on new_job_cv_,
              \* "run" (executing), "done" (job over, not yet idle) or "exited"
  cur_job,    \* cur_job of each worker
  client,     \* "out" of the pool, "wait" (in Wait, about to look) or "asleep"
  owner,      \* "using" the pool, "joining" its workers or "gone": destroyed
  pushed,     \* number of jobs pushed so far
  finished,   \* jobs that have been executed
  earlier     \* history: number of jobs pushed before the client called Wait

vars == <<jobs, idle_num, stopped, worker, cur_job, client, owner, pushed, finished, earlier>>
queueVars == <<jobs, pushed>>
waitVars == <<client, earlier>>

WorkerStates == {"awake", "asleep", "run", "done", "exited"}

TypeOK ==
  /\ jobs \in Seq(Job)
  /\ idle_num \in 0 .. Cardinality(Workers)
  /\ stopped \in BOOLEAN
  /\ worker \in [Workers -> WorkerStates]
  /\ cur_job \in [Workers -> Job \cup {None}]
  /\ client \in [Clients -> {"out", "wait", "asleep"}]
  /\ owner \in {"using", "joining", "gone"}
  /\ pushed \in 0 .. MaxJobs
  /\ finished \in SUBSET Job
  /\ earlier \in [Clients -> 0 .. MaxJobs]

Init ==
  /\ jobs = <<>> /\ idle_num = Cardinality(Workers) /\ stopped = FALSE
  /\ worker = [w \in Workers |-> "awake"]
  /\ cur_job = [w \in Workers |-> None]
  /\ client = [c \in Clients |-> "out"]
  /\ owner = "using"
  /\ pushed = 0 /\ finished = {}
  /\ earlier = [c \in Clients |-> 0]

In(state) == {w \in Workers : worker[w] = state}

\* What notify_one may make of the threads in pc: one of those asleep, if any, is
\* awake and will look again.
NotifyOne(pc, awake) ==
  IF \E t \in DOMAIN pc : pc[t] = "asleep"
  THEN {[pc EXCEPT ![t] = awake] : t \in {t \in DOMAIN pc : pc[t] = "asleep"}}
  ELSE {pc}
-----------------------------------------------------------------------------
(***************************************************************************)
(* Clients.                                                                *)
(***************************************************************************)
\* Enter a job, leaving the workers in one of the states woken.
Enqueue(c, woken) ==
  /\ owner # "gone" /\ client[c] = "out" /\ pushed < MaxJobs
  /\ pushed' = pushed + 1
  /\ jobs' = Append(jobs, pushed + 1)
  /\ worker' \in woken
  /\ UNCHANGED <<idle_num, stopped, cur_job, waitVars, owner, finished>>

\* Seeded bug: no worker is notified.
PushSilently(c) == Enqueue(c, {worker})

\* Push: enter the job and notify one worker.
Push(c) == Enqueue(c, NotifyOne(worker, "awake"))

\* Wait is called.
Wait(c) ==
  /\ owner # "gone" /\ c \in Waiters /\ client[c] = "out"
  /\ client' = [client EXCEPT ![c] = "wait"]
  /\ earlier' = [earlier EXCEPT ![c] = pushed]
  /\ UNCHANGED <<queueVars, idle_num, stopped, worker, cur_job, owner, finished>>

\* Seeded bug: the workers still executing a job are forgotten.
QueueEmpty == stopped \/ jobs = <<>>

\* The predicate Wait passes to job_completion_cv_.wait.
WaitOver == stopped \/ (idle_num = Cardinality(Workers) /\ jobs = <<>>)

\* Wait, under the mutex: return or sleep.  A client notified just before the members
\* are destroyed is taken to return all the same.
WaitReturn(c) ==
  /\ client[c] = "wait" /\ WaitOver
  /\ client' = [client EXCEPT ![c] = "out"]
  /\ UNCHANGED <<queueVars, idle_num, stopped, worker, cur_job, owner, finished, earlier>>

WaitSleep(c) ==
  /\ client[c] = "wait" /\ ~WaitOver
  /\ client' = [client EXCEPT ![c] = "asleep"]
  /\ UNCHANGED <<queueVars, idle_num, stopped, worker, cur_job, owner, finished, earlier>>
-----------------------------------------------------------------------------
(***************************************************************************)
(* Workers.                                                                *)
(***************************************************************************)
\* Take a job, leaving rest in the queue and left idle workers.
TakeJob(w, rest, left) ==
  /\ worker[w] = "awake" /\ ~stopped /\ jobs # <<>>
  /\ cur_job' = [cur_job EXCEPT ![w] = Head(jobs)]
  /\ jobs' = rest
  /\ idle_num' = left
  /\ worker' = [worker EXCEPT ![w] = "run"]
  /\ UNCHANGED <<stopped, waitVars, owner, pushed, finished>>

\* Seeded bug: the front job is not popped.
TakeWithoutPop(w) == TakeJob(w, jobs, idle_num - 1)

\* Seeded bug: the worker still counts as idle.
TakeStayingIdle(w) == TakeJob(w, Tail(jobs), idle_num)

\* The first critical section with a job in the queue.
Take(w) == TakeJob(w, Tail(jobs), idle_num - 1)

\* ... with an empty queue: sleep on new_job_cv_.
Sleep(w) ==
  /\ worker[w] = "awake" /\ ~stopped /\ jobs = <<>>
  /\ worker' = [worker EXCEPT ![w] = "asleep"]
  /\ UNCHANGED <<queueVars, idle_num, stopped, cur_job, waitVars, owner, finished>>

\* ... and when the pool is stopped, whatever the queue holds.
Exit(w) ==
  /\ worker[w] = "awake" /\ stopped
  /\ worker' = [worker EXCEPT ![w] = "exited"]
  /\ UNCHANGED <<queueVars, idle_num, stopped, cur_job, waitVars, owner, finished>>

\* cur_job() runs to its end: its future is ready.
Execute(w) ==
  /\ worker[w] = "run"
  /\ finished' = finished \cup {cur_job[w]}
  /\ worker' = [worker EXCEPT ![w] = "done"]
  /\ UNCHANGED <<queueVars, idle_num, stopped, cur_job, waitVars, owner>>

\* The worker is idle again, and the clients are left in one of the states woken.
BecomeIdle(w, woken) ==
  /\ worker[w] = "done"
  /\ idle_num' = idle_num + 1
  /\ worker' = [worker EXCEPT ![w] = "awake"]
  /\ cur_job' = [cur_job EXCEPT ![w] = None]
  /\ client' \in woken
  /\ UNCHANGED <<queueVars, stopped, owner, finished, earlier>>

\* Seeded bug: nobody is told about the completion.
CompleteSilently(w) == BecomeIdle(w, {client})

\* The second critical section: idle again, job_completion_cv_.notify_one.
Complete(w) == BecomeIdle(w, NotifyOne(client, "wait"))
-----------------------------------------------------------------------------
(***************************************************************************)
(* The destructor, and the freedom of condition variables.                 *)
(***************************************************************************)
\* Stop the pool, leaving the workers in state woken.
SetStopped(woken) ==
  /\ Owners # {} /\ owner = "using"
  /\ stopped' = TRUE
  /\ worker' = woken
  /\ owner' = "joining"
  /\ UNCHANGED <<queueVars, idle_num, cur_job, waitVars, finished>>

\* Seeded bug: the sleeping workers are not told.
StopSilently == SetStopped(worker)

\* stopped_ = true and new_job_cv_.notify_all.
Stop == SetStopped([w \in Workers |-> IF worker[w] = "asleep" THEN "awake" ELSE worker[w]])

\* Every worker is joined and the members are destroyed.
Join ==
  /\ owner = "joining" /\ \A w \in Workers : worker[w] = "exited"
  /\ owner' = "gone"
  /\ UNCHANGED <<queueVars, idle_num, stopped, worker, cur_job, waitVars, finished>>

SpuriousWakeup ==
  \/ \E w \in Workers :
       /\ worker[w] = "asleep"
       /\ worker' = [worker EXCEPT ![w] = "awake"]
       /\ UNCHANGED <<queueVars, idle_num, stopped, cur_job, waitVars, owner, finished>>
  \/ \E c \in Clients :
       /\ owner # "gone" /\ client[c] = "asleep"
       /\ client' = [client EXCEPT ![c] = "wait"]
       /\ UNCHANGED <<queueVars, idle_num, stopped, worker, cur_job, owner, finished, earlier>>
-----------------------------------------------------------------------------
Work(w) == Take(w) \/ Sleep(w) \/ Exit(w) \/ Execute(w) \/ Complete(w)

Next ==
  \/ \E c \in Clients : Push(c) \/ Wait(c) \/ WaitReturn(c) \/ WaitSleep(c)
  \/ \E w \in Workers : Work(w)
  \/ Stop \/ Join
  \/ SpuriousWakeup

Spec == Init /\ [][Next]_vars

\* Threads are scheduled and jobs come to an end.
Fairness ==
  /\ \A w \in Workers : WF_vars(Work(w))
  /\ \A c \in Clients : WF_vars(WaitReturn(c) \/ WaitSleep(c))
  /\ WF_vars(Join)

FairSpec == Spec /\ Fairness
-----------------------------------------------------------------------------
(***************************************************************************)
(* Properties.                                                             *)
(***************************************************************************)
\* idle_num_ counts the workers that are not between taking a job and reporting its
\* end, in every interleaving of the two critical sections of the workers.
IdleNumExact ==
  idle_num + Cardinality(In("run") \cup In("done")) = Cardinality(Workers)

\* No job is lost, none runs twice, and jobs are taken in the order they were pushed:
\* the queue holds the latest jobs in order, and every other job pushed has been
\* executed or is in the hands of exactly one worker.
JobsAccounted ==
  /\ \A i \in DOMAIN jobs : jobs[i] = pushed - Len(jobs) + i
  /\ 1 .. pushed - Len(jobs) = finished \cup {cur_job[w] : w \in In("run")}
  /\ \A w \in In("run") :
       cur_job[w] \notin finished /\ \A v \in In("run") : cur_job[v] = cur_job[w] => v = w

\* No worker sleeps while there are more jobs than workers about to look at the
\* queue: one notify_one for each Push is enough, whatever the workers are doing.
WorkersWoken ==
  In("asleep") # {} => Len(jobs) <= Cardinality(In("awake"))

\* When Wait returns, every job pushed before the call has been executed, or the
\* pool has been stopped.
WaitCoversEarlierJobs ==
  [][\A c \in Clients : client[c] # "out" /\ client'[c] = "out" =>
       stopped \/ 1 .. earlier[c] \subseteq finished]_vars

\* The future that Push returns becomes ready: the job is executed, or it is still
\* queued when the pool is destroyed (its task is, and the future has a broken_promise).
JobsFinish ==
  \A j \in Job : (pushed >= j) ~> (j \in finished \/ (owner = "gone" /\ j \in {jobs[i] : i \in DOMAIN jobs}))

\* The destructor returns, whatever its workers were doing.
DestructorReturns == owner = "joining" ~> owner = "gone"

\* Wait blocks until all enqueued jobs have finished, and then it returns (the jobs of
\* this model come to an end), unless the pool is stopped before.
WaitReturns ==
  \A c \in Clients : client[c] # "out" ~> client[c] = "out" \/ stopped

\* The only client in Wait does not sleep through the end of the last job: the one
\* notify_one of the worker that reports it is for this client.  (With two clients in
\* Wait it may be for the other.)
SoleWaiterWoken ==
  \A c \in Waiters :
    client[c] = "asleep" /\ Waiters = {c} /\ ~stopped =>
      jobs # <<>> \/ idle_num < Cardinality(Workers)

\* The whole implements JobService: each job is started once, in order, on a worker of
\* its own; Wait returns when all of them are over, and the destructor when the started
\* ones are (under FairSpec both do return, with one client that waits).
Service == INSTANCE JobService WITH
  Slots <- Cardinality(Workers),
  started <- pushed - Len(jobs),
  over <- finished,
  waiting <- [c \in Clients |-> client[c] # "out"],
  life <- IF owner = "using" THEN "open" ELSE IF owner = "joining" THEN "stopping" ELSE "gone"

ImplementsService == Service!Spec

\* The safety part of it alone.
ServiceSafety == Service!Init /\ [][Service!Next]_Service!vars
=============================================================================
