-------------------------- MODULE ThreadPoolProofs --------------------------
(***************************************************************************)
(* Proofs about ThreadPool for every number of workers, clients and jobs.  *)
(***************************************************************************)
EXTENDS ThreadPool, FiniteSetTheorems, SequenceTheorems, TLAPS

Busy == In("run") \cup In("done")

\* No worker is asleep once the pool is stopped.
StopInv == stopped => In("asleep") = {}

IInv == TypeOK /\ IdleNumExact /\ WorkersWoken /\ StopInv /\ JobsAccounted
-----------------------------------------------------------------------------
(***************************************************************************)
(* Counting workers.                                                       *)
(***************************************************************************)
\* Every set of workers is finite and no larger than the whole.
LEMMA WorkersFinite ==
  ASSUME NEW S \in SUBSET Workers
  PROVE  /\ IsFiniteSet(S)
         /\ Cardinality(S) \in Nat
         /\ Cardinality(S) <= Cardinality(Workers)
         /\ Cardinality(Workers) \in Nat
BY ConstantsAssumption, FS_Subset, FS_CardinalityType

\* A set of workers grows by one when a worker that is not in it joins, ...
LEMMA OneMore ==
  ASSUME NEW S \in SUBSET Workers, NEW T \in SUBSET Workers, NEW w \in Workers,
         w \notin S, T = S \cup {w}
  PROVE  Cardinality(T) = Cardinality(S) + 1
BY WorkersFinite, FS_AddElement

\* ... and shrinks by one when a worker that is in it leaves.
LEMMA OneLess ==
  ASSUME NEW S \in SUBSET Workers, NEW T \in SUBSET Workers, NEW w \in Workers,
         w \in S, T = S \ {w}
  PROVE  Cardinality(T) = Cardinality(S) - 1
BY WorkersFinite, FS_RemoveElement

\* What notify_one may do to the workers: nothing when none is asleep, otherwise one
\* of them is awake.
LEMMA NotifiedWorkers ==
  ASSUME worker \in [Workers -> WorkerStates],
         worker' \in NotifyOne(worker, "awake")
  PROVE  /\ worker' \in [Workers -> WorkerStates]
         /\ \/ In("asleep") = {} /\ worker' = worker
            \/ \E w \in Workers : worker[w] = "asleep"
                                  /\ worker' = [worker EXCEPT ![w] = "awake"]
<1>1. CASE \E t \in Workers : worker[t] = "asleep"
  BY <1>1 DEF NotifyOne, WorkerStates
<1>2. CASE ~ \E t \in Workers : worker[t] = "asleep"
  BY <1>2 DEF NotifyOne, In
<1>3. QED BY <1>1, <1>2

\* What notify_one may do to the clients.
LEMMA NotifiedClients ==
  ASSUME client \in [Clients -> {"out", "wait", "asleep"}],
         client' \in NotifyOne(client, "wait")
  PROVE  /\ client' \in [Clients -> {"out", "wait", "asleep"}]
         /\ \A c \in Clients : client'[c] = "out" <=> client[c] = "out"
<1>1. CASE \E t \in Clients : client[t] = "asleep"
  BY <1>1 DEF NotifyOne
<1>2. CASE ~ \E t \in Clients : client[t] = "asleep"
  BY <1>2 DEF NotifyOne
<1>3. QED BY <1>1, <1>2

\* A worker that wakes up only moves from the sleepers to those about to look.
LEMMA Woken ==
  ASSUME worker \in [Workers -> WorkerStates],
         \/ worker' = worker
         \/ \E w \in Workers : worker[w] = "asleep"
                               /\ worker' = [worker EXCEPT ![w] = "awake"]
  PROVE  /\ Busy' = Busy
         /\ In("run")' = In("run")
         /\ In("asleep")' \subseteq In("asleep")
         /\ Cardinality(In("awake")) <= Cardinality(In("awake")')
<1>1. CASE worker' = worker
  BY <1>1, WorkersFinite DEF Busy, In
<1>2. ASSUME NEW w \in Workers, worker[w] = "asleep",
             worker' = [worker EXCEPT ![w] = "awake"]
      PROVE  /\ Busy' = Busy
             /\ In("run")' = In("run")
             /\ In("asleep")' \subseteq In("asleep")
             /\ Cardinality(In("awake")') = Cardinality(In("awake")) + 1
  <2>1. /\ In("run")' = In("run") /\ In("done")' = In("done")
        /\ In("asleep")' \subseteq In("asleep")
        /\ In("awake") \in SUBSET Workers /\ In("awake")' \in SUBSET Workers
        /\ w \notin In("awake") /\ In("awake")' = In("awake") \cup {w}
    BY <1>2 DEF In
  <2>2. Cardinality(In("awake")') = Cardinality(In("awake")) + 1
    BY <2>1, OneMore
  <2>3. QED BY <2>1, <2>2 DEF Busy
<1>3. Cardinality(In("awake")) \in Nat
  BY WorkersFinite DEF In
<1>4. QED BY <1>1, <1>2, <1>3
-----------------------------------------------------------------------------
(***************************************************************************)
(* The count of idle workers and the types.                                *)
(***************************************************************************)
\* Every step keeps idle_num_ exact, and with it every variable in its type.
LEMMA CountStep == IInv /\ [Next]_vars => TypeOK' /\ IdleNumExact'
<1> SUFFICES ASSUME IInv, [Next]_vars PROVE TypeOK' /\ IdleNumExact'
  OBVIOUS
<1>0. TypeOK /\ idle_num + Cardinality(Busy) = Cardinality(Workers) /\ idle_num \in Nat
      /\ Cardinality(Workers) \in Nat /\ MaxJobs \in Nat /\ Busy \subseteq Workers
  BY WorkersFinite, ConstantsAssumption DEF IInv, IdleNumExact, TypeOK, Busy, In
<1>a. ASSUME idle_num' \in Int, idle_num' + Cardinality(Busy') = Cardinality(Workers)
      PROVE  IdleNumExact' /\ idle_num' \in 0 .. Cardinality(Workers)
  <2>1. Cardinality(Busy') \in Nat /\ Cardinality(Busy') <= Cardinality(Workers)
    BY WorkersFinite DEF Busy, In
  <2>2. QED BY <1>0, <1>a, <2>1 DEF IdleNumExact, Busy
<1>b. ASSUME UNCHANGED idle_num, Busy' = Busy
      PROVE  IdleNumExact' /\ idle_num' \in 0 .. Cardinality(Workers)
  BY <1>0, <1>a, <1>b
<1>c. ASSUME NEW w \in Workers, NEW s \in WorkerStates, worker' = [worker EXCEPT ![w] = s]
      PROVE  /\ worker' \in [Workers -> WorkerStates]
             /\ Busy' \subseteq Workers
             /\ Busy' = IF s \in {"run", "done"} THEN Busy \cup {w} ELSE Busy \ {w}
             /\ w \in Busy <=> worker[w] \in {"run", "done"}
  BY <1>0, <1>c DEF TypeOK, Busy, In, WorkerStates
<1>1. ASSUME NEW c \in Clients, Push(c) PROVE TypeOK' /\ IdleNumExact'
  <2>1. worker' \in [Workers -> WorkerStates] /\ Busy' = Busy
    BY <1>0, <1>1, NotifiedWorkers, Woken DEF Push, Enqueue, TypeOK
  <2>2. pushed' \in 0 .. MaxJobs /\ pushed + 1 \in Job
    BY <1>0, <1>1 DEF Push, Enqueue, TypeOK, Job
  <2>3. jobs' \in Seq(Job)
    BY <1>0, <1>1, <2>2 DEF Push, Enqueue, TypeOK
  <2>4. QED BY <1>0, <1>1, <1>b, <2>1, <2>2, <2>3 DEF Push, Enqueue, waitVars, TypeOK
<1>2. ASSUME NEW c \in Clients, Wait(c) \/ WaitReturn(c) \/ WaitSleep(c)
      PROVE  TypeOK' /\ IdleNumExact'
  <2>1. Busy' = Busy
    BY <1>2 DEF Wait, WaitReturn, WaitSleep, Busy, In
  <2>2. QED BY <1>0, <1>2, <1>b, <2>1 DEF Wait, WaitReturn, WaitSleep, queueVars, TypeOK
<1>3. ASSUME NEW w \in Workers, Take(w) PROVE TypeOK' /\ IdleNumExact'
  <2>1. worker' = [worker EXCEPT ![w] = "run"] /\ worker[w] = "awake"
        /\ idle_num' = idle_num - 1
    BY <1>3 DEF Take, TakeJob
  <2>2. w \notin Busy /\ Busy' = Busy \cup {w} /\ Busy' \subseteq Workers
        /\ worker' \in [Workers -> WorkerStates]
    BY <1>c, <2>1 DEF WorkerStates
  <2>3. Cardinality(Busy') = Cardinality(Busy) + 1
    BY <1>0, <2>2, OneMore
  <2>4. Cardinality(Busy) \in Nat
    BY <1>0, WorkersFinite
  <2>5. IdleNumExact' /\ idle_num' \in 0 .. Cardinality(Workers)
    BY <1>0, <1>a, <2>1, <2>3, <2>4
  <2>6. Head(jobs) \in Job /\ Tail(jobs) \in Seq(Job)
    BY <1>0, <1>3 DEF Take, TakeJob, TypeOK
  <2>7. QED BY <1>0, <1>3, <2>2, <2>5, <2>6 DEF Take, TakeJob, waitVars, TypeOK
<1>4. ASSUME NEW w \in Workers, Sleep(w) \/ Exit(w) PROVE TypeOK' /\ IdleNumExact'
  <2>1. PICK s \in {"asleep", "exited"} : worker' = [worker EXCEPT ![w] = s]
    BY <1>4 DEF Sleep, Exit
  <2>a. worker[w] = "awake" /\ s \in WorkerStates /\ s \notin {"run", "done"}
    BY <1>4 DEF Sleep, Exit, WorkerStates
  <2>b. worker' \in [Workers -> WorkerStates] /\ Busy' = Busy \ {w} /\ w \notin Busy
    BY <1>c, <2>1, <2>a
  <2>2. worker' \in [Workers -> WorkerStates] /\ Busy' = Busy
    BY <2>b
  <2>3. QED BY <1>0, <1>4, <1>b, <2>2 DEF Sleep, Exit, queueVars, waitVars, TypeOK
<1>5. ASSUME NEW w \in Workers, Execute(w) PROVE TypeOK' /\ IdleNumExact'
  <2>a. worker[w] = "run" /\ worker' = [worker EXCEPT ![w] = "done"]
        /\ "done" \in WorkerStates
    BY <1>5 DEF Execute, WorkerStates
  <2>b. worker' \in [Workers -> WorkerStates] /\ Busy' = Busy \cup {w} /\ w \in Busy
    BY <1>c, <2>a
  <2>1. worker' \in [Workers -> WorkerStates] /\ Busy' = Busy
    BY <2>b
  <2>2. cur_job[w] \in Job
    <3>1. cur_job[w] \in 1 .. pushed - Len(jobs)
      BY <2>a DEF IInv, JobsAccounted, In
    <3>2. Len(jobs) \in Nat
      BY <1>0, LenProperties DEF TypeOK
    <3>3. QED BY <1>0, <3>1, <3>2 DEF TypeOK, Job
  <2>3. QED BY <1>0, <1>5, <1>b, <2>1, <2>2 DEF Execute, queueVars, waitVars, TypeOK
<1>6. ASSUME NEW w \in Workers, Complete(w) PROVE TypeOK' /\ IdleNumExact'
  <2>1. worker' = [worker EXCEPT ![w] = "awake"] /\ worker[w] = "done"
        /\ idle_num' = idle_num + 1
    BY <1>6 DEF Complete, BecomeIdle
  <2>2. w \in Busy /\ Busy' = Busy \ {w} /\ Busy' \subseteq Workers
        /\ worker' \in [Workers -> WorkerStates]
    BY <1>c, <2>1 DEF WorkerStates
  <2>3. Cardinality(Busy') = Cardinality(Busy) - 1
    BY <1>0, <2>2, OneLess
  <2>4. Cardinality(Busy) \in Nat
    BY <1>0, WorkersFinite
  <2>5. IdleNumExact' /\ idle_num' \in 0 .. Cardinality(Workers)
    BY <1>0, <1>a, <2>1, <2>3, <2>4
  <2>6. client' \in [Clients -> {"out", "wait", "asleep"}]
    BY <1>0, <1>6, NotifiedClients DEF Complete, BecomeIdle, TypeOK
  <2>7. QED BY <1>0, <1>6, <2>2, <2>5, <2>6 DEF Complete, BecomeIdle, queueVars, TypeOK
<1>7. CASE Stop
  <2>1. worker' \in [Workers -> WorkerStates] /\ Busy' = Busy
    BY <1>0, <1>7 DEF Stop, SetStopped, TypeOK, WorkerStates, Busy, In
  <2>2. QED BY <1>0, <1>7, <1>b, <2>1 DEF Stop, SetStopped, queueVars, waitVars, TypeOK
<1>8. CASE Join
  <2>1. Busy' = Busy
    BY <1>8 DEF Join, Busy, In
  <2>2. QED BY <1>0, <1>8, <1>b, <2>1 DEF Join, queueVars, waitVars, TypeOK
<1>9. CASE SpuriousWakeup
  <2>1. worker' \in [Workers -> WorkerStates] /\ Busy' = Busy
    <3>1. \/ worker' = worker
          \/ \E w \in Workers : worker[w] = "asleep"
                                /\ worker' = [worker EXCEPT ![w] = "awake"]
      BY <1>9 DEF SpuriousWakeup
    <3>2. QED BY <1>0, <3>1, Woken DEF TypeOK, WorkerStates
  <2>2. client' \in [Clients -> {"out", "wait", "asleep"}]
        /\ UNCHANGED <<queueVars, idle_num, stopped, cur_job, owner, finished, earlier>>
    BY <1>0, <1>9 DEF SpuriousWakeup, waitVars, TypeOK
  <2>3. QED BY <1>0, <1>b, <2>1, <2>2 DEF queueVars, TypeOK
<1>10. CASE UNCHANGED vars
  <2>1. Busy' = Busy
    BY <1>10 DEF vars, Busy, In
  <2>2. QED BY <1>0, <1>10, <1>b, <2>1 DEF vars, TypeOK
<1>11. QED
  BY <1>1, <1>2, <1>3, <1>4, <1>5, <1>6, <1>7, <1>8, <1>9, <1>10 DEF Next, Work
-----------------------------------------------------------------------------
(***************************************************************************)
(* Wake-ups.                                                               *)
(***************************************************************************)
\* Every step keeps enough workers awake for the jobs in the queue.
LEMMA WokenStep == IInv /\ [Next]_vars => WorkersWoken' /\ StopInv'
<1> SUFFICES ASSUME IInv, [Next]_vars PROVE WorkersWoken' /\ StopInv'
  OBVIOUS
<1> DEFINE Awake == Cardinality(In("awake"))
<1>0. /\ TypeOK /\ Len(jobs) \in Nat
      /\ (In("asleep") # {} => Len(jobs) <= Awake)
      /\ (stopped => In("asleep") = {})
      /\ Awake \in Nat /\ Awake' \in Nat
  <2>1. Len(jobs) \in Nat
    BY LenProperties DEF IInv, TypeOK
  <2>2. Awake \in Nat /\ Awake' \in Nat
    BY WorkersFinite DEF In
  <2>3. QED BY <2>1, <2>2 DEF IInv, WorkersWoken, StopInv
<1> HIDE DEF Awake
<1>a. ASSUME In("asleep")' \subseteq In("asleep"), Len(jobs') <= Len(jobs), Awake <= Awake',
             Len(jobs') \in Nat, stopped' = stopped
      PROVE  WorkersWoken' /\ StopInv'
  <2>1. In("asleep")' # {} => In("asleep") # {}
    BY <1>a
  <2>2. WorkersWoken'
    BY <1>0, <1>a, <2>1 DEF WorkersWoken, Awake
  <2>3. QED BY <1>0, <1>a, <2>1, <2>2 DEF StopInv
<1>b. ASSUME UNCHANGED <<jobs, stopped, worker>> PROVE WorkersWoken' /\ StopInv'
  <2>1. In("asleep")' = In("asleep") /\ In("awake")' = In("awake")
    BY <1>b DEF In
  <2>2. QED BY <1>0, <1>a, <1>b, <2>1 DEF Awake
<1>1. ASSUME NEW c \in Clients, Push(c) PROVE WorkersWoken' /\ StopInv'
  <2>1. /\ \/ In("asleep") = {} /\ worker' = worker
           \/ \E w \in Workers : worker[w] = "asleep"
                                 /\ worker' = [worker EXCEPT ![w] = "awake"]
        /\ stopped' = stopped
    BY <1>0, <1>1, NotifiedWorkers DEF Push, Enqueue, TypeOK
  <2>2. Len(jobs') = Len(jobs) + 1
    <3>1. pushed + 1 \in Job
      BY <1>0, <1>1, ConstantsAssumption DEF Push, Enqueue, TypeOK, Job
    <3>2. QED BY <1>0, <1>1, <3>1, AppendProperties DEF Push, Enqueue, TypeOK
  <2>3. CASE In("asleep") = {} /\ worker' = worker
    <3>1. In("asleep")' = {}
      BY <2>3 DEF In
    <3>2. QED BY <3>1 DEF WorkersWoken, StopInv
  <2>4. ASSUME NEW w \in Workers, worker[w] = "asleep",
               worker' = [worker EXCEPT ![w] = "awake"]
        PROVE  WorkersWoken' /\ StopInv'
    <3>1. /\ In("awake") \in SUBSET Workers /\ In("awake")' \in SUBSET Workers
          /\ w \notin In("awake") /\ In("awake")' = In("awake") \cup {w}
          /\ In("asleep")' \subseteq In("asleep") /\ w \in In("asleep")
      BY <1>0, <2>4 DEF In, TypeOK
    <3>2. Awake' = Awake + 1
      BY <3>1, OneMore DEF Awake
    <3>3. WorkersWoken'
      BY <1>0, <2>2, <3>1, <3>2 DEF WorkersWoken, Awake
    <3>4. QED BY <1>0, <2>1, <3>1, <3>3 DEF StopInv
  <2>5. QED BY <2>1, <2>3, <2>4
<1>2. ASSUME NEW c \in Clients, Wait(c) \/ WaitReturn(c) \/ WaitSleep(c)
      PROVE  WorkersWoken' /\ StopInv'
  BY <1>2, <1>b DEF Wait, WaitReturn, WaitSleep, queueVars
<1>3. ASSUME NEW w \in Workers, Take(w) PROVE WorkersWoken' /\ StopInv'
  <2>1. /\ worker[w] = "awake" /\ worker' = [worker EXCEPT ![w] = "run"]
        /\ jobs # <<>> /\ jobs' = Tail(jobs) /\ stopped' = stopped
    BY <1>3 DEF Take, TakeJob
  <2>2. Len(jobs') = Len(jobs) - 1
    BY <1>0, <2>1, HeadTailProperties DEF TypeOK
  <2>3. /\ In("awake") \in SUBSET Workers /\ In("awake")' \in SUBSET Workers
        /\ w \in In("awake") /\ In("awake")' = In("awake") \ {w}
        /\ In("asleep")' = In("asleep")
    BY <1>0, <2>1 DEF In, TypeOK
  <2>4. Awake' = Awake - 1
    BY <2>3, OneLess DEF Awake
  <2>5. WorkersWoken'
    BY <1>0, <2>2, <2>3, <2>4 DEF WorkersWoken, Awake
  <2>6. QED BY <1>0, <2>1, <2>3, <2>5 DEF StopInv
<1>4. ASSUME NEW w \in Workers, Sleep(w) PROVE WorkersWoken' /\ StopInv'
  <2>1. Len(jobs') = 0 /\ ~stopped'
    BY <1>4, EmptySeq DEF Sleep, queueVars
  <2>2. QED BY <1>0, <2>1 DEF WorkersWoken, StopInv, Awake
<1>5. ASSUME NEW w \in Workers, Exit(w) PROVE WorkersWoken' /\ StopInv'
  <2>1. In("asleep")' = {}
    BY <1>0, <1>5 DEF Exit, In
  <2>2. QED BY <2>1 DEF WorkersWoken, StopInv
<1>6. ASSUME NEW w \in Workers, Execute(w) PROVE WorkersWoken' /\ StopInv'
  <2>1. In("asleep")' \subseteq In("asleep") /\ In("awake")' = In("awake")
    BY <1>0, <1>6 DEF Execute, In, TypeOK
  <2>2. QED BY <1>0, <1>6, <1>a, <2>1 DEF Execute, queueVars, Awake
<1>7. ASSUME NEW w \in Workers, Complete(w) PROVE WorkersWoken' /\ StopInv'
  <2>1. worker[w] = "done" /\ worker' = [worker EXCEPT ![w] = "awake"]
        /\ UNCHANGED <<queueVars, stopped>>
    BY <1>7 DEF Complete, BecomeIdle
  <2>2. /\ In("awake") \in SUBSET Workers /\ In("awake")' \in SUBSET Workers
        /\ w \notin In("awake") /\ In("awake")' = In("awake") \cup {w}
        /\ In("asleep")' = In("asleep")
    BY <1>0, <2>1 DEF In, TypeOK
  <2>3. Awake' = Awake + 1
    BY <2>2, OneMore DEF Awake
  <2>4. QED BY <1>0, <1>a, <2>1, <2>2, <2>3 DEF queueVars
<1>8. CASE Stop
  <2>1. In("asleep")' = {}
    BY <1>0, <1>8 DEF Stop, SetStopped, In
  <2>2. QED BY <2>1 DEF WorkersWoken, StopInv
<1>9. CASE Join \/ UNCHANGED vars
  BY <1>9, <1>b DEF Join, vars, queueVars
<1>10. CASE SpuriousWakeup
  <2>1. /\ \/ worker' = worker
           \/ \E w \in Workers : worker[w] = "asleep"
                                 /\ worker' = [worker EXCEPT ![w] = "awake"]
        /\ UNCHANGED <<queueVars, stopped>>
    BY <1>10 DEF SpuriousWakeup
  <2>2. In("asleep")' \subseteq In("asleep") /\ Awake <= Awake'
    BY <1>0, <2>1, Woken DEF TypeOK, Awake
  <2>3. QED BY <1>0, <1>a, <2>1, <2>2 DEF queueVars
<1>11. QED
  BY <1>1, <1>2, <1>3, <1>4, <1>5, <1>6, <1>7, <1>8, <1>9, <1>10 DEF Next, Work
-----------------------------------------------------------------------------
(***************************************************************************)
(* Where the jobs are.                                                     *)
(***************************************************************************)
\* Every step keeps each job in its one place.
LEMMA JobsStep == IInv /\ [Next]_vars => JobsAccounted'
<1> SUFFICES ASSUME IInv, [Next]_vars PROVE JobsAccounted'
  OBVIOUS
<1> DEFINE taken == pushed - Len(jobs)
           held == {cur_job[w] : w \in In("run")}
<1>0. /\ TypeOK /\ Len(jobs) \in Nat /\ DOMAIN jobs = 1 .. Len(jobs) /\ pushed \in Nat
      /\ \A i \in DOMAIN jobs : jobs[i] = taken + i
      /\ 1 .. taken = finished \cup held
      /\ \A w \in In("run") :
           cur_job[w] \notin finished /\ \A v \in In("run") : cur_job[v] = cur_job[w] => v = w
  <2>1. Len(jobs) \in Nat /\ DOMAIN jobs = 1 .. Len(jobs)
    BY LenProperties DEF IInv, TypeOK
  <2>2. pushed \in Nat
    BY ConstantsAssumption DEF IInv, TypeOK
  <2>3. QED BY <2>1, <2>2 DEF IInv, JobsAccounted
<1>a. ASSUME UNCHANGED <<jobs, pushed, finished, cur_job>>, In("run")' = In("run")
      PROVE  JobsAccounted'
  BY <1>0, <1>a DEF JobsAccounted
<1>b. ASSUME UNCHANGED <<jobs, pushed, finished, cur_job, worker>> PROVE JobsAccounted'
  BY <1>a, <1>b DEF In
<1>1. ASSUME NEW c \in Clients, Push(c) PROVE JobsAccounted'
  <2>1. /\ pushed' = pushed + 1 /\ jobs' = Append(jobs, pushed + 1) /\ pushed + 1 \in Job
        /\ worker' \in NotifyOne(worker, "awake")
        /\ UNCHANGED <<finished, cur_job>>
    BY <1>0, <1>1, ConstantsAssumption DEF Push, Enqueue, TypeOK, Job
  <2>2. In("run")' = In("run")
    BY <1>0, <2>1, NotifiedWorkers, Woken DEF TypeOK
  <2>3. /\ Len(jobs') = Len(jobs) + 1 /\ DOMAIN jobs' = 1 .. Len(jobs')
        /\ \A i \in 1 .. Len(jobs) : jobs'[i] = jobs[i]
        /\ jobs'[Len(jobs) + 1] = pushed + 1
    BY <1>0, <2>1, AppendProperties, LenProperties DEF TypeOK
  <2>4. pushed' - Len(jobs') = taken
    BY <1>0, <2>1, <2>3
  <2>5. \A i \in DOMAIN jobs' : jobs'[i] = taken + i
    BY <1>0, <2>3
  <2>6. QED BY <1>0, <2>1, <2>2, <2>4, <2>5 DEF JobsAccounted
<1>2. ASSUME NEW c \in Clients, Wait(c) \/ WaitReturn(c) \/ WaitSleep(c)
      PROVE  JobsAccounted'
  BY <1>2, <1>b DEF Wait, WaitReturn, WaitSleep, queueVars
<1>3. ASSUME NEW w \in Workers, Take(w) PROVE JobsAccounted'
  <2>1. /\ jobs # <<>> /\ jobs' = Tail(jobs) /\ worker[w] = "awake"
        /\ worker' = [worker EXCEPT ![w] = "run"]
        /\ cur_job' = [cur_job EXCEPT ![w] = Head(jobs)]
        /\ UNCHANGED <<finished, pushed>>
    BY <1>3 DEF Take, TakeJob
  <2>2. /\ Head(jobs) = jobs[1] /\ Head(jobs) \in Job /\ 1 \in DOMAIN jobs
        /\ Len(jobs') = Len(jobs) - 1 /\ DOMAIN jobs' = 1 .. Len(jobs')
        /\ \A i \in 1 .. Len(jobs') : jobs'[i] = jobs[i + 1]
    BY <1>0, <2>1, EmptySeq, HeadTailProperties, LenProperties DEF TypeOK
  <2>3. Head(jobs) = taken + 1 /\ taken \in Nat
    BY <1>0, <2>2 DEF Job
  <2>4. pushed' - Len(jobs') = taken + 1
    BY <1>0, <2>1, <2>2
  <2>5. \A i \in DOMAIN jobs' : jobs'[i] = taken + 1 + i
    <3> SUFFICES ASSUME NEW i \in 1 .. Len(jobs') PROVE jobs'[i] = taken + 1 + i
      BY <2>2
    <3>1. i + 1 \in DOMAIN jobs /\ i \in Nat
      BY <1>0, <2>2
    <3>2. jobs[i + 1] = taken + (i + 1)
      BY <1>0, <3>1
    <3>3. QED BY <2>2, <2>3, <3>1, <3>2
  <2>6. /\ w \notin In("run") /\ In("run")' = In("run") \cup {w}
        /\ cur_job'[w] = taken + 1
        /\ \A v \in In("run") : cur_job'[v] = cur_job[v]
    BY <1>0, <2>1, <2>3 DEF In, TypeOK
  <2>7. held' = held \cup {taken + 1}
    BY <2>6
  <2>8. 1 .. taken + 1 = finished \cup held'
    <3>1. \A n \in Nat : 1 .. n + 1 = (1 .. n) \cup {n + 1}
      OBVIOUS
    <3>2. 1 .. taken + 1 = (1 .. taken) \cup {taken + 1}
      BY <2>3, <3>1
    <3> HIDE DEF taken, held
    <3>3. QED BY <1>0, <2>7, <3>2
  <2>9. taken + 1 \notin 1 .. taken
    BY <2>3
  <2>10. \A v \in In("run")' :
           cur_job'[v] \notin finished
           /\ \A u \in In("run")' : cur_job'[u] = cur_job'[v] => u = v
    BY <1>0, <2>6, <2>9
  <2>11. QED BY <2>1, <2>4, <2>5, <2>8, <2>10 DEF JobsAccounted
<1>4. ASSUME NEW w \in Workers, Sleep(w) \/ Exit(w) PROVE JobsAccounted'
  <2>1. In("run")' = In("run")
    BY <1>0, <1>4 DEF Sleep, Exit, In, TypeOK
  <2>2. QED BY <1>4, <1>a, <2>1 DEF Sleep, Exit, queueVars
<1>5. ASSUME NEW w \in Workers, Execute(w) PROVE JobsAccounted'
  <2>1. /\ worker[w] = "run" /\ finished' = finished \cup {cur_job[w]}
        /\ worker' = [worker EXCEPT ![w] = "done"]
        /\ UNCHANGED <<jobs, pushed, cur_job>>
    BY <1>5 DEF Execute, queueVars
  <2>2. w \in In("run") /\ In("run")' = In("run") \ {w}
    BY <1>0, <2>1 DEF In, TypeOK
  <2>3. held = held' \cup {cur_job[w]}
    BY <2>1, <2>2
  <2>4. 1 .. taken = finished' \cup held'
    BY <1>0, <2>1, <2>3
  <2>5. \A v \in In("run")' :
          cur_job[v] \notin finished'
          /\ \A u \in In("run")' : cur_job[u] = cur_job[v] => u = v
    BY <1>0, <2>1, <2>2
  <2>6. QED BY <1>0, <2>1, <2>4, <2>5 DEF JobsAccounted
<1>6. ASSUME NEW w \in Workers, Complete(w) PROVE JobsAccounted'
  <2>1. /\ worker[w] = "done" /\ worker' = [worker EXCEPT ![w] = "awake"]
        /\ cur_job' = [cur_job EXCEPT ![w] = None]
        /\ UNCHANGED <<jobs, pushed, finished>>
    BY <1>6 DEF Complete, BecomeIdle, queueVars
  <2>2. In("run")' = In("run") /\ \A v \in In("run") : cur_job'[v] = cur_job[v]
    BY <1>0, <2>1 DEF In, TypeOK
  <2>3. held' = held
    BY <2>2
  <2>4. QED BY <1>0, <2>1, <2>2, <2>3 DEF JobsAccounted
<1>7. CASE Stop
  <2>1. In("run")' = In("run")
    BY <1>0, <1>7 DEF Stop, SetStopped, In, TypeOK
  <2>2. QED BY <1>7, <1>a, <2>1 DEF Stop, SetStopped, queueVars
<1>8. CASE Join \/ UNCHANGED vars
  BY <1>8, <1>b DEF Join, vars, queueVars
<1>9. CASE SpuriousWakeup
  <2>1. /\ \/ worker' = worker
           \/ \E w \in Workers : worker[w] = "asleep"
                                 /\ worker' = [worker EXCEPT ![w] = "awake"]
        /\ UNCHANGED <<jobs, pushed, cur_job, finished>>
    BY <1>9 DEF SpuriousWakeup, queueVars
  <2>2. In("run")' = In("run")
    BY <1>0, <2>1, Woken DEF TypeOK
  <2>3. QED BY <1>a, <2>1, <2>2
<1>10. QED
  BY <1>1, <1>2, <1>3, <1>4, <1>5, <1>6, <1>7, <1>8, <1>9 DEF Next, Work
-----------------------------------------------------------------------------
(***************************************************************************)
(* The theorems.                                                           *)
(***************************************************************************)
\* IInv holds when the pool is built and is kept by every step, so it always holds.
THEOREM Invariance == Spec => []IInv
<1>1. Init => IInv
  <2> SUFFICES ASSUME Init PROVE IInv
    OBVIOUS
  <2>1. /\ In("run") = {} /\ In("done") = {} /\ In("asleep") = {}
        /\ Len(jobs) = 0 /\ DOMAIN jobs = {} /\ jobs \in Seq(Job)
    BY EmptySeq DEF Init, In
  <2>2. Cardinality({}) = 0 /\ Cardinality(Workers) \in Nat
    BY FS_EmptySet, WorkersFinite
  <2>3. TypeOK
    <3>1. idle_num \in 0 .. Cardinality(Workers) /\ 0 \in 0 .. MaxJobs
      BY <2>2, ConstantsAssumption DEF Init
    <3>2. QED BY <2>1, <3>1 DEF Init, TypeOK, WorkerStates
  <2>4. IdleNumExact
    <3>1. In("run") \cup In("done") = {}
      BY <2>1
    <3>2. Cardinality(In("run") \cup In("done")) = 0
      BY <2>2, <3>1, Zenon
    <3>3. idle_num = Cardinality(Workers)
      BY DEF Init
    <3> HIDE DEF In
    <3>4. QED BY <2>2, <3>2, <3>3 DEF IdleNumExact
  <2>5. WorkersWoken /\ StopInv
    BY <2>1 DEF WorkersWoken, StopInv
  <2>6. JobsAccounted
    BY <2>1 DEF Init, JobsAccounted
  <2>7. QED BY <2>3, <2>4, <2>5, <2>6 DEF IInv
<1>2. IInv /\ [Next]_vars => IInv'
  BY CountStep, WokenStep, JobsStep DEF IInv
<1>3. QED BY <1>1, <1>2, PTL DEF Spec

\* The types.
THEOREM TypeCorrect == Spec => []TypeOK
<1>1. IInv => TypeOK
  BY DEF IInv
<1>2. QED BY <1>1, Invariance, PTL

\* idle_num_ is exact whatever the order of the workers' critical sections, for any
\* number of workers.
THEOREM IdleCountExact == Spec => []IdleNumExact
<1>1. IInv => IdleNumExact
  BY DEF IInv
<1>2. QED BY <1>1, Invariance, PTL

\* A queued job never waits for a sleeping worker that nobody woke.
THEOREM NotifyOneSuffices == Spec => []WorkersWoken
<1>1. IInv => WorkersWoken
  BY DEF IInv
<1>2. QED BY <1>1, Invariance, PTL

\* Every job is in one place: none is lost, none runs twice, and they are taken in order.
THEOREM JobsInOnePlace == Spec => []JobsAccounted
<1>1. IInv => JobsAccounted
  BY DEF IInv
<1>2. QED BY <1>1, Invariance, PTL

\* With the queue empty and every worker idle, every job pushed has been executed.
LEMMA AllFinished ==
  ASSUME IInv, idle_num = Cardinality(Workers), jobs = <<>>
  PROVE  1 .. pushed = finished
<1>1. In("run") = {}
  <2>1. IsFiniteSet(Busy) /\ Cardinality(Busy) \in Nat /\ Cardinality(Workers) \in Nat
    BY WorkersFinite DEF Busy, In
  <2>2. Cardinality(Busy) = 0
    BY <2>1 DEF IInv, IdleNumExact, Busy
  <2>3. Busy = {}
    BY <2>1, <2>2, FS_EmptySet
  <2>4. QED BY <2>3 DEF Busy
<1>2. 1 .. pushed - Len(jobs) = finished \cup {cur_job[w] : w \in In("run")}
  BY DEF IInv, JobsAccounted
<1>3. Len(jobs) = 0 /\ pushed \in Nat
  BY ConstantsAssumption DEF IInv, TypeOK
<1>4. {cur_job[w] : w \in In("run")} = {} /\ pushed - Len(jobs) = pushed
  BY <1>1, <1>3
<1>5. QED BY <1>2, <1>4

\* A client that called Wait finds the jobs pushed before the call executed when it
\* returns from a pool that is not stopped.
THEOREM WaitWaits == Spec => WaitCoversEarlierJobs
<1> DEFINE EarlierInv == \A c \in Clients : earlier[c] <= pushed
<1>1. Init => EarlierInv
  BY DEF Init
<1>2. IInv /\ EarlierInv /\ [Next]_vars => EarlierInv'
  <2> SUFFICES ASSUME IInv, EarlierInv, [Next]_vars, NEW d \in Clients
               PROVE  (earlier[d] <= pushed)'
    OBVIOUS
  <2>0. /\ pushed \in Nat /\ earlier \in [Clients -> 0 .. MaxJobs] /\ earlier[d] <= pushed
        /\ earlier[d] \in Nat
    BY ConstantsAssumption DEF IInv, TypeOK
  <2>1. ASSUME NEW c \in Clients, Push(c) PROVE (earlier[d] <= pushed)'
    BY <2>0, <2>1 DEF Push, Enqueue, waitVars
  <2>2. ASSUME NEW c \in Clients, Wait(c) PROVE (earlier[d] <= pushed)'
    BY <2>0, <2>2 DEF Wait, queueVars
  <2>3. ASSUME UNCHANGED <<pushed, earlier>> PROVE (earlier[d] <= pushed)'
    BY <2>0, <2>3
  <2>4. ASSUME NEW c \in Clients, WaitReturn(c) \/ WaitSleep(c)
        PROVE  (earlier[d] <= pushed)'
    BY <2>3, <2>4 DEF WaitReturn, WaitSleep, queueVars
  <2>5. ASSUME NEW w \in Workers, Work(w) PROVE (earlier[d] <= pushed)'
    BY <2>3, <2>5 DEF Work, Take, TakeJob, Sleep, Exit, Execute, Complete, BecomeIdle,
                      queueVars, waitVars
  <2>6. CASE Stop \/ Join \/ SpuriousWakeup \/ UNCHANGED vars
    BY <2>3, <2>6 DEF Stop, SetStopped, Join, SpuriousWakeup, vars, queueVars, waitVars
  <2>7. QED BY <2>1, <2>2, <2>4, <2>5, <2>6 DEF Next
<1>3. ASSUME IInv, EarlierInv, [Next]_vars, NEW c \in Clients,
             client[c] # "out", client'[c] = "out"
      PROVE  stopped \/ 1 .. earlier[c] \subseteq finished
  <2>0. TypeOK
    BY <1>3 DEF IInv
  <2>1. WaitReturn(c)
    <3>1. ASSUME NEW d \in Clients, Push(d) \/ Wait(d) \/ WaitSleep(d) PROVE FALSE
      BY <1>3, <2>0, <3>1 DEF Push, Enqueue, Wait, WaitSleep, waitVars, TypeOK
    <3>2. ASSUME NEW d \in Clients, WaitReturn(d) PROVE d = c
      BY <1>3, <2>0, <3>2 DEF WaitReturn, TypeOK
    <3>3. ASSUME NEW w \in Workers, Take(w) \/ Sleep(w) \/ Exit(w) \/ Execute(w) PROVE FALSE
      BY <1>3, <3>3 DEF Take, TakeJob, Sleep, Exit, Execute, waitVars
    <3>4. ASSUME NEW w \in Workers, Complete(w) PROVE FALSE
      BY <1>3, <2>0, <3>4, NotifiedClients DEF Complete, BecomeIdle, TypeOK
    <3>5. CASE Stop \/ Join \/ UNCHANGED vars
      BY <1>3, <3>5 DEF Stop, SetStopped, Join, vars, waitVars
    <3>6. CASE SpuriousWakeup
      BY <1>3, <2>0, <3>6 DEF SpuriousWakeup, waitVars, TypeOK
    <3>7. QED BY <1>3, <3>1, <3>2, <3>3, <3>4, <3>5, <3>6 DEF Next, Work
  <2>2. SUFFICES ASSUME ~stopped PROVE 1 .. earlier[c] \subseteq finished
    OBVIOUS
  <2>3. idle_num = Cardinality(Workers) /\ jobs = <<>>
    BY <2>1, <2>2 DEF WaitReturn, WaitOver
  <2>4. 1 .. pushed = finished
    BY <1>3, <2>3, AllFinished
  <2>5. earlier[c] \in Nat /\ earlier[c] <= pushed /\ pushed \in Nat
    BY <1>3, <2>0, ConstantsAssumption DEF TypeOK
  <2>6. QED BY <2>4, <2>5
<1>4. IInv /\ EarlierInv /\ [Next]_vars =>
        [\A c \in Clients : client[c] # "out" /\ client'[c] = "out" =>
           stopped \/ 1 .. earlier[c] \subseteq finished]_vars
  BY <1>3
<1>5. QED
  <2>1. Spec => []EarlierInv
    BY <1>1, <1>2, Invariance, PTL DEF Spec
  <2>2. QED BY <1>4, <2>1, Invariance, PTL DEF Spec, WaitCoversEarlierJobs
-----------------------------------------------------------------------------
(***************************************************************************)
(* A client that waits alone is woken.                                     *)
(***************************************************************************)
SleeperInv ==
  /\ \A c \in Clients : client[c] # "out" => c \in Waiters
  /\ SoleWaiterWoken

\* Only the report of an executed job can make the predicate of Wait true, and it wakes
\* the one client that is asleep.
LEMMA SleeperStep == IInv /\ SleeperInv /\ [Next]_vars => SleeperInv'
<1> SUFFICES ASSUME IInv, SleeperInv, [Next]_vars PROVE SleeperInv'
  OBVIOUS
<1>0. /\ TypeOK /\ idle_num \in Nat /\ Cardinality(Workers) \in Nat
      /\ idle_num <= Cardinality(Workers) /\ Waiters \subseteq Clients
  BY WorkersFinite, ConstantsAssumption DEF IInv, TypeOK
<1>a. ASSUME UNCHANGED waitVars, \/ UNCHANGED <<jobs, idle_num, stopped>>
                                 \/ jobs' # <<>> \/ idle_num' < Cardinality(Workers) \/ stopped'
      PROVE  SleeperInv'
  BY <1>a DEF SleeperInv, SoleWaiterWoken, waitVars
<1>b. ASSUME UNCHANGED <<jobs, idle_num, stopped>>, NEW c \in Waiters,
             NEW s \in {"out", "wait"}, client' = [client EXCEPT ![c] = s]
      PROVE  SleeperInv'
  BY <1>0, <1>b DEF SleeperInv, SoleWaiterWoken, TypeOK
<1>1. ASSUME NEW c \in Clients, Push(c) PROVE SleeperInv'
  <2>1. jobs' # <<>>
    <3>1. pushed + 1 \in Job /\ jobs' = Append(jobs, pushed + 1)
      BY <1>0, <1>1, ConstantsAssumption DEF Push, Enqueue, TypeOK, Job
    <3>2. Len(jobs') # 0
      BY <1>0, <3>1, AppendProperties, LenProperties DEF TypeOK
    <3>3. QED BY <3>2, EmptySeq
  <2>2. QED BY <1>1, <1>a, <2>1 DEF Push, Enqueue
<1>2. ASSUME NEW c \in Clients, Wait(c) \/ WaitReturn(c) PROVE SleeperInv'
  <2>1. c \in Waiters
    BY <1>2 DEF Wait, WaitReturn, SleeperInv
  <2>2. QED BY <1>2, <1>b, <2>1 DEF Wait, WaitReturn, queueVars
<1>3. ASSUME NEW c \in Clients, WaitSleep(c) PROVE SleeperInv'
  <2>1. /\ c \in Waiters /\ client' = [client EXCEPT ![c] = "asleep"]
        /\ UNCHANGED <<jobs, idle_num, stopped>>
        /\ jobs # <<>> \/ idle_num < Cardinality(Workers)
    BY <1>0, <1>3 DEF WaitSleep, WaitOver, SleeperInv, queueVars
  <2>2. QED BY <1>0, <2>1 DEF SleeperInv, SoleWaiterWoken, TypeOK
<1>4. ASSUME NEW w \in Workers, Take(w) PROVE SleeperInv'
  <2>1. idle_num' < Cardinality(Workers)
    BY <1>0, <1>4 DEF Take, TakeJob
  <2>2. QED BY <1>4, <1>a, <2>1 DEF Take, TakeJob
<1>5. ASSUME NEW w \in Workers, Sleep(w) \/ Exit(w) \/ Execute(w) PROVE SleeperInv'
  BY <1>5, <1>a DEF Sleep, Exit, Execute, queueVars
<1>6. ASSUME NEW w \in Workers, Complete(w) PROVE SleeperInv'
  <2>1. client' \in NotifyOne(client, "wait")
    BY <1>6 DEF Complete, BecomeIdle
  <2>2. \A c \in Clients : client'[c] # "out" => c \in Waiters
    BY <1>0, <2>1, NotifiedClients DEF SleeperInv, TypeOK
  <2>3. ASSUME NEW c \in Waiters, client'[c] = "asleep", Waiters = {c} PROVE FALSE
    <3>1. \A t \in Clients : client[t] = "asleep" => t = c
      BY <2>3 DEF SleeperInv
    <3>2. DOMAIN client = Clients /\ c \in Clients
      BY <1>0 DEF TypeOK
    <3>3. CASE client[c] = "asleep"
      <4>1. client' = [client EXCEPT ![c] = "wait"]
        BY <2>1, <3>1, <3>2, <3>3 DEF NotifyOne
      <4>2. QED BY <2>3, <3>2, <4>1
    <3>4. CASE client[c] # "asleep"
      <4>1. client' = client
        BY <2>1, <3>1, <3>2, <3>4 DEF NotifyOne
      <4>2. QED BY <2>3, <3>4, <4>1
    <3>5. QED BY <3>3, <3>4
  <2>4. QED BY <2>2, <2>3 DEF SleeperInv, SoleWaiterWoken
<1>7. CASE Stop
  BY <1>7, <1>a DEF Stop, SetStopped
<1>8. CASE Join \/ UNCHANGED vars
  <2>1. UNCHANGED waitVars /\ UNCHANGED <<jobs, idle_num, stopped>>
    BY <1>8 DEF Join, vars, waitVars, queueVars
  <2>2. QED BY <1>a, <2>1
<1>9. CASE SpuriousWakeup
  <2>1. ASSUME NEW c \in Clients, client[c] = "asleep", client' = [client EXCEPT ![c] = "wait"],
               UNCHANGED <<jobs, idle_num, stopped>>
        PROVE  SleeperInv'
    BY <1>b, <2>1 DEF SleeperInv
  <2>2. QED BY <1>9, <1>a, <2>1 DEF SpuriousWakeup, queueVars
<1>10. QED
  BY <1>1, <1>2, <1>3, <1>4, <1>5, <1>6, <1>7, <1>8, <1>9 DEF Next, Work

\* The last completion wakes the client that waits alone: it never sleeps on with the
\* queue empty and every worker idle.
THEOREM SoleWaiterNeverForgotten == Spec => []SoleWaiterWoken
<1>1. Init => SleeperInv
  BY ConstantsAssumption DEF Init, SleeperInv, SoleWaiterWoken
<1>2. SleeperInv => SoleWaiterWoken
  BY DEF SleeperInv
<1>3. QED BY <1>1, <1>2, SleeperStep, Invariance, PTL DEF Spec
-----------------------------------------------------------------------------
(***************************************************************************)
(* The pool implements JobService: the initial states map to initial       *)
(* states, and every step of the pool to a step of the service or to none. *)
(***************************************************************************)
\* The pool is stopped by its destructor, which ends when every worker has exited.
OwnerInv ==
  /\ stopped <=> owner # "using"
  /\ owner = "gone" => \A w \in Workers : worker[w] = "exited"

LEMMA OwnerStep == TypeOK /\ OwnerInv /\ [Next]_vars => OwnerInv'
<1> SUFFICES ASSUME TypeOK, OwnerInv, [Next]_vars PROVE OwnerInv'
  OBVIOUS
<1>1. ASSUME NEW c \in Clients, Push(c) \/ Wait(c) \/ WaitReturn(c) \/ WaitSleep(c)
      PROVE  OwnerInv'
  BY <1>1 DEF OwnerInv, Push, Enqueue, Wait, WaitReturn, WaitSleep
<1>2. ASSUME NEW w \in Workers, Work(w) PROVE OwnerInv'
  BY <1>2 DEF OwnerInv, TypeOK, Work, Take, TakeJob, Sleep, Exit, Execute, Complete, BecomeIdle
<1>3. CASE Stop \/ Join
  BY <1>3 DEF OwnerInv, TypeOK, Stop, SetStopped, Join
<1>4. CASE SpuriousWakeup \/ UNCHANGED vars
  BY <1>4 DEF OwnerInv, TypeOK, SpuriousWakeup, vars
<1>5. QED BY <1>1, <1>2, <1>3, <1>4 DEF Next

\* The jobs the service is executing are those in the hands of the workers, of which
\* there are no more than workers executing.
LEMMA ExecutingHeld ==
  ASSUME IInv
  PROVE  /\ Service!Executing = {cur_job[w] : w \in In("run")}
         /\ IsFiniteSet(In("run"))
         /\ Cardinality(Service!Executing) \in Nat /\ Cardinality(In("run")) \in Nat
         /\ Cardinality(Service!Executing) <= Cardinality(In("run"))
<1> DEFINE held == {cur_job[w] : w \in In("run")}
           f == [w \in In("run") |-> cur_job[w]]
<1>1. Service!Executing = held
  BY DEF IInv, JobsAccounted, Service!Executing
<1>2. IsFiniteSet(In("run")) /\ Cardinality(In("run")) \in Nat
  BY WorkersFinite DEF In
<1>3. f \in Surjection(In("run"), held)
  BY DEF Surjection
<1>4. IsFiniteSet(held) /\ Cardinality(held) <= Cardinality(In("run"))
  BY <1>2, <1>3, FS_Surjection
<1>5. QED BY <1>1, <1>2, <1>4, FS_CardinalityType

\* One step of the pool is one step of the service, or none that it shows.
LEMMA ServiceStep == IInv /\ OwnerInv /\ [Next]_vars => [Service!Next]_Service!vars
<1> SUFFICES ASSUME IInv, OwnerInv, [Next]_vars
             PROVE  Service!Next \/ UNCHANGED Service!vars
  OBVIOUS
<1>0. /\ TypeOK /\ Len(jobs) \in Nat /\ pushed \in Nat /\ MaxJobs \in Nat
      /\ pushed - Len(jobs) \in Int
  BY ConstantsAssumption, LenProperties DEF IInv, TypeOK
<1> DEFINE waiting == [c \in Clients |-> client[c] # "out"]
           life == IF owner = "using" THEN "open" ELSE IF owner = "joining" THEN "stopping" ELSE "gone"
<1>l. /\ life = "open" <=> owner = "using"
      /\ life = "stopping" <=> owner = "joining"
      /\ life = "gone" <=> owner = "gone"
  BY <1>0 DEF TypeOK
<1>a. ASSUME UNCHANGED <<pushed, jobs, finished, owner>>,
             \A c \in Clients : client'[c] = "out" <=> client[c] = "out"
      PROVE  UNCHANGED Service!vars
  <2>1. waiting' = waiting
    BY <1>a
  <2>2. QED BY <1>a, <2>1 DEF Service!vars
<1>b. ASSUME NEW c \in Clients, NEW s \in {"out", "wait", "asleep"},
             client' = [client EXCEPT ![c] = s]
      PROVE  waiting' = [waiting EXCEPT ![c] = s # "out"]
  BY <1>0, <1>b DEF TypeOK
<1>1. ASSUME NEW c \in Clients, Push(c) PROVE Service!Push(c)
  <2>1. pushed + 1 \in Job /\ jobs' = Append(jobs, pushed + 1) /\ pushed' = pushed + 1
    BY <1>0, <1>1 DEF Push, Enqueue, Job
  <2>2. Len(jobs') = Len(jobs) + 1
    BY <1>0, <2>1, AppendProperties DEF TypeOK
  <2>3. pushed' - Len(jobs') = pushed - Len(jobs)
    BY <1>0, <2>1, <2>2
  <2>4. UNCHANGED <<finished, owner, client>> /\ owner # "gone" /\ client[c] = "out" /\ pushed < MaxJobs
    BY <1>1 DEF Push, Enqueue, waitVars
  <2>5. QED BY <1>0, <1>l, <2>1, <2>3, <2>4 DEF Service!Push
<1>2. ASSUME NEW c \in Clients, Wait(c) PROVE Service!Wait(c)
  <2>1. UNCHANGED <<jobs, pushed, finished, owner>> /\ owner # "gone" /\ client[c] = "out"
        /\ client' = [client EXCEPT ![c] = "wait"]
    BY <1>2 DEF Wait, queueVars
  <2>2. waiting' = [waiting EXCEPT ![c] = TRUE]
    BY <1>b, <2>1
  <2>3. QED BY <1>l, <2>1, <2>2 DEF Service!Wait
<1>3. ASSUME NEW c \in Clients, WaitReturn(c) PROVE Service!WaitReturn(c)
  <2>1. /\ UNCHANGED <<jobs, pushed, finished, owner>> /\ client[c] = "wait"
        /\ client' = [client EXCEPT ![c] = "out"] /\ WaitOver
    BY <1>3 DEF WaitReturn, queueVars
  <2>2. waiting' = [waiting EXCEPT ![c] = FALSE]
    BY <1>b, <2>1
  <2>3. life = "open" => finished = 1 .. pushed
    BY <1>l, <2>1, AllFinished DEF WaitOver, OwnerInv
  <2>4. QED BY <2>1, <2>2, <2>3 DEF Service!WaitReturn
<1>4. ASSUME NEW w \in Workers, Take(w) PROVE Service!Start
  <2>1. jobs # <<>> /\ jobs' = Tail(jobs) /\ ~stopped /\ worker[w] = "awake"
        /\ UNCHANGED <<pushed, finished, owner, client>>
    BY <1>4 DEF Take, TakeJob, waitVars
  <2>2. Len(jobs) > 0 /\ Len(jobs') = Len(jobs) - 1
    BY <1>0, <2>1, EmptySeq, HeadTailProperties DEF TypeOK
  <2>3. pushed - Len(jobs) < pushed /\ pushed' - Len(jobs') = pushed - Len(jobs) + 1
    BY <1>0, <2>1, <2>2
  <2>4. Cardinality(Service!Executing) < Cardinality(Workers)
    <3>1. w \notin In("run") /\ In("run") \in SUBSET Workers
          /\ In("run") \cup {w} \in SUBSET Workers
      BY <2>1 DEF In
    <3>2. Cardinality(In("run") \cup {w}) = Cardinality(In("run")) + 1
      BY <3>1, OneMore
    <3>3. Cardinality(In("run") \cup {w}) <= Cardinality(Workers)
          /\ Cardinality(Workers) \in Nat
      BY <3>1, WorkersFinite
    <3>4. QED BY <3>2, <3>3, ExecutingHeld
  <2>5. owner = "using"
    BY <2>1 DEF OwnerInv
  <2>6. Service!Cardinality(Service!Executing) = Cardinality(Service!Executing)
    BY DEF Service!Cardinality, Cardinality
  <2>7. QED BY <1>l, <2>1, <2>3, <2>4, <2>5, <2>6 DEF Service!Start
<1>5. ASSUME NEW w \in Workers, Execute(w) PROVE \E j \in Service!Job : Service!End(j)
  <2>1. /\ worker[w] = "run" /\ finished' = finished \cup {cur_job[w]}
        /\ UNCHANGED <<jobs, pushed, owner, client>>
    BY <1>5 DEF Execute, queueVars, waitVars
  <2>2. cur_job[w] \in Service!Executing
    BY <2>1, ExecutingHeld DEF In
  <2>3. owner # "gone"
    BY <2>1 DEF OwnerInv
  <2>4. w \in In("run") /\ cur_job[w] \in finished \cup {cur_job[v] : v \in In("run")}
    BY <2>1 DEF In
  <2>5. cur_job[w] \in 1 .. pushed - Len(jobs)
    BY <2>4 DEF IInv, JobsAccounted
  <2>6. cur_job[w] \in Service!Job
    BY <1>0, <2>5 DEF Service!Job, TypeOK
  <2>7. Service!End(cur_job[w])
    BY <1>l, <2>1, <2>2, <2>3 DEF Service!End
  <2>8. QED BY <2>6, <2>7
<1>6. ASSUME Stop PROVE Service!Stop
  BY <1>6, <1>0 DEF Stop, SetStopped, Service!Stop, queueVars, waitVars
<1>7. ASSUME Join PROVE Service!Destroyed
  <2>1. In("run") = {}
    BY <1>7 DEF Join, In
  <2>2. Service!Executing = {}
    BY <2>1, ExecutingHeld
  <2>3. QED BY <1>7, <1>0, <2>2 DEF Join, Service!Destroyed, queueVars, waitVars
<1>8. ASSUME NEW w \in Workers, Sleep(w) \/ Exit(w) \/ Complete(w)
      PROVE  UNCHANGED Service!vars
  <2>1. CASE Sleep(w) \/ Exit(w)
    BY <1>a, <2>1 DEF Sleep, Exit, queueVars, waitVars
  <2>2. CASE Complete(w)
    BY <1>0, <1>a, <2>2, NotifiedClients DEF Complete, BecomeIdle, queueVars, TypeOK
  <2>3. QED BY <1>8, <2>1, <2>2
<1>9. ASSUME NEW c \in Clients, WaitSleep(c) PROVE UNCHANGED Service!vars
  BY <1>0, <1>9, <1>a DEF WaitSleep, queueVars, TypeOK
<1>10. CASE SpuriousWakeup \/ UNCHANGED vars
  BY <1>0, <1>10, <1>a DEF SpuriousWakeup, vars, queueVars, waitVars, TypeOK
<1>11. QED
  <2>1. ASSUME NEW c \in Clients, Push(c) \/ Wait(c) \/ WaitReturn(c) PROVE Service!Next
    BY <1>1, <1>2, <1>3, <2>1 DEF Service!Next
  <2>2. ASSUME NEW w \in Workers, Take(w) \/ Execute(w) PROVE Service!Next
    BY <1>4, <1>5, <2>2 DEF Service!Next
  <2>3. CASE Stop \/ Join
    BY <1>6, <1>7, <2>3 DEF Service!Next
  <2>4. QED BY <1>8, <1>9, <1>10, <2>1, <2>2, <2>3 DEF Next, Work

\* Every behaviour of the pool is one of the job service: jobs are started in order, once,
\* on a worker each; Wait returns when all of them are over and the destructor when the
\* started ones are.
THEOREM PoolImplementsService == Spec => ServiceSafety
<1>1. Init => Service!Init
  <2>1. Len(<<>>) = 0 /\ 0 - 0 = 0
    OBVIOUS
  <2>2. Init => pushed - Len(jobs) = 0
    <3>1. SUFFICES ASSUME Init PROVE pushed - Len(jobs) = 0
      OBVIOUS
    <3>2. pushed = 0 /\ Len(jobs) = 0
      BY <2>1, <3>1 DEF Init
    <3>3. QED BY <3>2
  <2>3. Init => [c \in Clients |-> client[c] # "out"] = [c \in Clients |-> FALSE]
    BY DEF Init
  <2>4. QED BY <2>2, <2>3 DEF Init, Service!Init
<1>2. Init => OwnerInv
  BY DEF Init, OwnerInv
<1>3. IInv => TypeOK
  BY DEF IInv
<1>4. Spec => []OwnerInv
  BY <1>2, <1>3, OwnerStep, Invariance, PTL DEF Spec
<1>5. QED BY <1>1, <1>4, ServiceStep, Invariance, PTL DEF Spec, ServiceSafety
=============================================================================
