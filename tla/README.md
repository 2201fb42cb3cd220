# A verification of duckdb-curl-filesystem

The extension replaces DuckDB's HTTP client by one that sends all reads through
a single libcurl multi handle driven by one background thread.  This directory
holds TLA+ models of that code, their TLC runs, and TLAPS proofs about them.
Paths below are relative to the repository; its sources are in `src/`.

## 1. The system

| Component | Source | State | Operations |
| --- | --- | --- | --- |
| Manager: request path and event loop | `src/multi_curl_manager.cpp` | `pending_requests` (under `mu`), `ongoing_requests`, `timer_fd`, `event_fd`, `still_running`, the multi handle, a promise per request | `HandleRequest` (callers); `HandleEvent`, `ProcessPendingRequests`, `TimerCallback`, `EventCallback`, `CheckMulti` (background thread); `MultiTimerCallback` (called by libcurl) |
| Socket registration (epoll) | the same, lines 109-159 | the epoll set, one `SockInfo` per socket | `SocketCallback`, `AddSockInfo`, `SetSockInfo`, `RemoveSockInfo` |
| kqueue variant | the same, lines 181-258 and the `__APPLE__` branches | one kqueue: a user event, a timer, filters of sockets | as above, but for `TimerCallback` |
| Client | `src/multi_curl_client.cpp` | an easy handle with its options, `request_info` | `Get`, `Head`, `Put`, `Post`, `Delete` |
| Request | `src/curl_request.cpp` | `RequestInfo`, a promise | options of a read; `WriteHeader`, `WriteBody` (called by libcurl) |
| Thread pool | `src/thread_pool.cpp` | `jobs_`, `idle_num_`, `stopped_`, two condition variables | `Push`, `Wait`, the workers, the destructor |
| Extension load, HTTP util setting | `src/curl_httpfs_extension.cpp`, `src/extension_loader_helper.cpp` | the installed `HTTPUtil` | `LoadInternal`, the callback of the setting |
| TCP connection table function | `src/tcp_connection_fetcher.cpp`, `src/tcp_connection_query_function.cpp` | an offset per scan | parse, count, emit |

A caller thread runs `MultiCurlClient::Get`: it sets options on its own easy
handle, queues a `CurlRequest` and blocks on the request's future.  The
background thread is woken through `event_fd`, enters the request into
`ongoing_requests` and adds the handle to the multi handle.  libcurl calls back
to set `timer_fd` and to register sockets; epoll reports them; the event
handlers call `curl_multi_socket_action`, and `CheckMulti` fulfils the promises
of the transfers that are done.  Writes do not use the manager:
`curl_easy_perform` runs in the caller's thread.

What is hard here, and what makes each part correct:

* **Manager** — two kinds of threads share an easy handle without a lock; the
  only protection is that the caller is blocked.  Wake-ups must not be lost
  (push, write / read, drain), the one timer must be set while libcurl needs it
  although three places write it, a batch of events may be invalidated by its
  own first event, the map is keyed by addresses that come back.  Correct: each
  caller gets exactly one response, its own, and no assertion fails.
* **Client** — an easy handle remembers every option; five operations each set
  some.  Correct: what is sent and received depends on the call alone.
* **Thread pool** — two condition variables, a count that is changed in two
  critical sections, a destructor that may meet clients.  Correct: every job
  runs once, in order; `Wait` waits, and returns.
* **Socket registration** — descriptors are closed and reused, libcurl changes
  its mind, errors of `epoll_ctl` are ignored in one place and thrown in two.
  Correct: epoll watches what libcurl asked for.
* **kqueue loop** — filters are added and never taken back one by one, a removal
  or addition stops at its first error and nobody looks, the user event resets
  itself when it is returned.  Correct: the same promise to the callers, and no
  event the kernel has agreed to report is missed.
* **Response assembly** — libcurl gives the lines of every response it meets, a
  server chooses their text, a transfer may break off anywhere.  Correct: what
  is returned is the last response, whole.
* **Extension load and setting** — several connections look at what is loaded or
  installed and then act.  Correct: the util asked for is the one installed.
* **Connection table** — addresses printed back to front, two files, one of which
  may be missing, and output in chunks.  Correct: each connection is counted once
  under its own peer, each address emitted once.

`PROJECT.json` lists these hazards line by line, with the properties for them.

## 2. Modules

| Module | Models |
| --- | --- |
| `RequestService` | Abstract: what the manager promises its callers. |
| `RequestPath` | What both builds share: callers, queue, `ongoing_requests`, promises, `CheckMulti`. `PathSpec` leaves the event loop open. |
| `RequestPathProofs` | Invariants of `PathSpec` and its refinement of `RequestService`, for all constants. |
| `MultiCurlManager` | `RequestPath` under the epoll loop: the Linux build. Implements `RequestService`. |
| `MCMultiCurlManager` | Symmetry for TLC. |
| `MultiCurlManagerProofs` | The Linux build implements `PathSpec`; what is its own. |
| `MultiCurlClient` | The options of one easy handle over a sequence of calls. |
| `MultiCurlClientProofs` | Its theorems. |
| `EpollSockets` | `SocketCallback`: the epoll set against what libcurl asks for. |
| `EpollSocketsProofs` | Its theorems. |
| `JobService` | Abstract: what the pool promises its clients. |
| `ThreadPool` | The pool. Implements `JobService`. |
| `ThreadPoolProofs` | Its theorems. |
| `KqueueLoop` | `RequestPath` under the kqueue loop: the macOS build. Implements `RequestService`. |
| `KqueueLoopProofs` | The macOS build implements `PathSpec`; what is its own. |
| `ResponseAssembly` | From header lines and body to the response of one transfer. |
| `ResponseAssemblyProofs` | Its theorems. |
| `HttpUtilSwitch` | LOAD of the extension and of httpfs, and the setting. |
| `TcpConnections` | The table function `curl_httpfs_get_tcp_connection`, Linux build. |
| `Extension` | `HttpUtilSwitch` and `TcpConnections` in one database. |
| `MCExtension` | Addresses for TLC. |
| `ExtensionProofs` | Theorems of the two parts and of the composition. |

Definitions marked *Seeded bug* are mutants: each replaces one definition and
must break the property it is paired with in `PROJECT.json`.

### RequestPath and MultiCurlManager

One action ends where another thread or the kernel can look: at a lock, at a
read or write of `event_fd` or `timer_fd`, at `set_value`, at
`curl_multi_remove_handle`.  The background thread's place in the code is `bg`:
the event loop, the drain of the queue, a request in hand, `CheckMulti`, and
the second half of its iteration (`detach`).  `RequestPath` has the steps that
both builds compile from the same lines; each build conjoins what its event loop
does to its own variables and adds its own steps.

| Action | Code |
| --- | --- |
| `OpenClient`, `CloseClient` | `Initialize`, `~MultiCurlClient` (`curl_easy_cleanup`) |
| `Submit`, `Notified`, `Return` | `Get` / `Head` into `HandleRequest`: push, notify the loop, `resp_fut.get()` |
| `StartDrain`, `PopPending`, `PendingEmpty`, `AddHandle` | `ProcessPendingRequests` |
| `SocketAction` | `curl_multi_socket_action`, with the timer callback it makes |
| `Deliver`, `Detach`, `CheckMultiEnd` | the two halves of an iteration of `CheckMulti`, and its end |
| Linux: `Notify` | the write to `event_fd` |
| `EpollWait` | `epoll_wait`: a batch of at most `MaxEvents`, dispatched in any order |
| `TimerCallback`, `TimerCallbackOnRearmedTimer` | `TimerCallback`, with expirations to read and without |
| `DispatchEventFd` | the eventfd branch of `HandleEvent` |
| `EventCallback`, `CheckMultiReturns` | `EventCallback`, the disarming at its end included |

libcurl is external and left free: a call of `curl_multi_socket_action` may
start, continue or end any transfer it holds, and set the timer in any way its
documentation allows.  It does not turn the timer off while it has a timeout:
for a transfer it was just given, or for a running one of a caller in `Timed`.
`Timed` are the callers with an http timeout: line 110 of the client passes the
user's value to `CURLOPT_TIMEOUT`, and 0 means none.  `TransferHasTimer` speaks
of the transfers with a timeout; the refinement runs, where every caller must be
answered, have `Timed = Callers`, because without a timeout a peer that falls
silent blocks its caller for ever.  Connection limits and HTTP/2 multiplexing are
inside libcurl's freedom.  `timer_fd` is `off`, `armed` or
`expired`; the 1 ns timer of timeout 0 is `armed` until it expires.  `EINTR` is
a stutter.  Between `set_value` and `curl_multi_remove_handle` a caller may
reuse or free its handle, which is a data race: reuse is modelled by its
interleavings, removal of a freed handle as either nothing or the end of the
process, in both builds.  The program never destroys the manager, so there is no
such action.

### MultiCurlClient

`opt` holds the options that the operations change; an object of a call is
named by the call's number and is gone when the call returns.  libcurl's rules
on how one option changes another (`SetNobody`, `SetPost`, `SetFields`) and the
request it makes of them (`Wire`) are external.  A transfer succeeds, or fails
after none, part or all of the response.  A read uses the manager and its own
`CurlRequest`; a write uses `request_info`.  When libcurl would follow a pointer
into a call that has returned, `undefined` is set and the behaviour ends.  The
field `out` of a response is the `buffer_out` of a Post, which is filled before
the result is looked at.  `previous` and `success` are history: the call before
this one, and the last one before it that succeeded.  Left out: the counters of
`HTTPState`, proxy and certificate options, which no call changes.

### EpollSockets

One action per outcome of `SocketCallback`: `AddSocket` (`AddSockInfo`),
`ChangeSocket` (`SetSockInfo`), `RemoveSocket` (`RemoveSockInfo`), and libcurl
opening and closing connections on descriptors the kernel hands out again.
`epoll_ctl` is external: ADD fails on a registered descriptor or a full table,
and the code does not look; DEL fails on a descriptor that is not registered,
and the code throws, which ends the model (`failed`).  libcurl reports
CURL_POLL_REMOVE before it closes a socket.  Descriptor 0, which a process with
a closed standard input gives to a socket, is "none yet" to the code
(`HasOld`): the registration of such a socket is never changed or taken back,
so libcurl may wait for an event epoll does not report.  `WatchedAsWanted`
therefore excepts it, and `ZeroIsWatched` says how far this goes: what libcurl
asked for first is watched, and nothing else until the descriptor is closed.

### ThreadPool

A critical section of `mutex_` is one action; a condition variable is the set of
threads asleep on it, with spurious wake-ups.  Clients may use the pool until
the destructor has joined its workers.  `Waiters` are the clients that call
`Wait`: one in `pool`, two in the run that shows that one is not released.
Destruction of the job's closure is not modelled.

`JobService` hides queue, workers and condition variables: `Start` takes the next
job pushed while fewer than `Slots` are executing, `End` ends any executing one,
`WaitReturn` asks for all jobs pushed, `Destroyed` for an end of the started ones.
The mapping: a job is started when it has left the queue, so that the number
started is `pushed - Len(jobs)`; `over` is `finished`; there is a slot per worker;
a client is waiting from its call of `Wait` to its return, asleep or not.

### KqueueLoop

The `__APPLE__` branches, around the same `RequestPath`: set_value, removal and
erase are separate steps here too, and the process may die of a freed handle.
libcurl calls `SocketCallback`, and opens and closes connections, inside the
calls that precede `check` and `detach`; nobody looks at the filters before the
next `kevent`, so these steps are taken at those two points.

| Action | Code |
| --- | --- |
| `Notify` | `NOTE_TRIGGER` in `HandleRequest` |
| `Kevent` | `kevent`: a batch of at most `MaxEvents` events; the timer is armed again |
| `CallCurl` | the timer branch and `EventCallback`, up to `CheckMulti` |
| `DispatchUser` | the user event, up to `ProcessPendingRequests` |
| `SocketRemoved`, `SocketWanted` | `SocketCallback` with `RemoveSockInfo`, or `AddSockInfo` and `SetSockInfo` |

kqueue is external.  `EV_CLEAR` resets the user event when it is returned.  The
timer is periodic (no `EV_ONESHOT`), so it is armed again when it is returned;
the one `EV_ADD` of it is assumed not to fail.  `kevent` with a list of changes and
no room for errors stops at the first change that fails, and nobody looks at the
result.  `SetSockInfo` adds READ first: the kernel may refuse both filters, or
WRITE alone (`Accepted`; `lost` remembers what it refused).  `RemoveSockInfo`
deletes READ first, so a socket without a READ filter keeps its WRITE filter.
`NothingMissed` says that what libcurl wants and the kernel has not refused is
registered; `LeftoverFilters` says which filters stay behind, and where.

### ResponseAssembly

One transfer of a read or of a write.  A header line is a record: begins with
`HTTP/` or not (any field or trailer may, and the code takes it for a status
line), a name before the first colon or none, a space after the colon or
not, and the rest.  `StatusLine`, `FieldLine`, `BlankLine` and `WriteBody` are
libcurl's calls in the order HTTP allows (interim responses and redirects before
the last one, trailers after its body); `WriteHeader` is `CurlRequest::WriteHeader`,
and `RequestHeaderCallback` its copy for writes.  A line that ends with its colon
throws, and the transfer is not followed further.  `Finish` is the part of
`CheckMulti`, or of `TransformResponseCurl`, that makes the `HTTPResponse`, and the
copy of the body to `buffer_out` that `Post` makes before it; `Return` hands the
body to `content_handler`.  Each transfer starts with nothing collected: what an earlier
failed write leaves in `request_info` is in `MultiCurlClient`.  Names of fields
are compared as `HTTPHeaders` does; the response code is left out.

### HttpUtilSwitch, TcpConnections, Extension

`HttpUtilSwitch`: a connection is `idle` or at the next step of its call.
`LoadInternal`, `IsHttpfsExtensionLoaded`, `HttpfsLoads`, `BeginLoad`, `Finish`,
`Install` and `LoadExtensionInternal` are the steps of `LOAD curl_httpfs`;
`LoadHttpfs...` those of a user's `LOAD httpfs`; `Set`, `SetRead` and `SetWrite`
those of the setting's callback, which reads the util's name and installs another
in two steps.  DuckDB's extension manager is external: one load of an extension
at a time, `BeginLoad` returns nothing for a loaded one (and the behaviour ends,
`broken`), and the list of loaded extensions may or may not show one that is
being loaded.  A LOAD that fails for other reasons is not modelled.

`TcpConnections`: `OpenFails`, `ReadFile`, `CountRow` and `NextFile` are
`GetTcpConnectionNum`; `Sort` is the rest of the function's init; `Emit` and
`EmitNothing` its calls.  An address is its bytes in network order; `Hex` is the
kernel's way to print it (external), and `HexToIP` parses the digits, reverses the
bytes and takes the text `inet_ntop` gives them (`Ntop`, external: each address a
text of its own, a text its place in the order of strings).  A read error and the end of a file are the same to the code, so
`ReadFile` delivers any rows.  `Extension` lets the two run side by side in one
database, the table function once it is registered.

## 3. Runs

| Run | Result | Shows |
| --- | --- | --- |
| `manager_safety` | pass | `AssertionsHold`, `NoLostWakeup`, `TransferHasTimer`, `OwnResponse`, `TransferHasWaiter`, `BlockedHasRequest`, `ReleaseWindow`, `EntriesLive` |
| `manager_refines` | pass | `ImplementsService` (with liveness), `HandleReleased` |
| `manager_timer_read` | violation | `TimerReadSucceeds`: the assertion in `TimerCallback` can fail |
| `manager_complete` | violation | `CompleteOnReturn`: `HandleRequest` returns before the handle is released |
| `client_calls` | pass | `WireMatchesCall`, `LeftoverMethods`, `MemoryIsOwn`, `ReadResponseIsOwn`, `WriteResponseIsOwn` |
| `client_headers` | violation | `HeadersAreOwn`: a Get without headers uses the freed list of an earlier call |
| `sockets` | pass | `WatchedAsWanted`, `ZeroIsWatched`, `OnlyRefusalIsFatal` |
| `pool` | pass | `IdleNumExact`, `WorkersWoken`, `SoleWaiterWoken`, `WaitCoversEarlierJobs`; `JobsFinish`, `DestructorReturns`, `WaitReturns` and `ImplementsService` (with liveness) with one client that waits while another pushes |
| `pool_two_waiters` | violation | `WaitReturns` for two clients: one sleeps for ever |
| `kqueue` | pass | `NothingMissed`, `LeftoverFilters`, `NoLostWakeup`, `TransferHasTimer`; `ImplementsService` (with liveness) |
| `responses` | pass | `HeadersOfLastResponse`, `StatusIsOwn`, `BodyIsWhole` |
| `extension` | pass | `OverrideHolds`, `BreaksOnlyOnRace`, `WasmStays`, `SetTakesEffect`; `PeersCounted`, `EmittedOnce` |

No run checks a type invariant: those of all modules are proved (section 4).

Several of these properties say how far a hazard goes.  `CompleteOnReturn` fails, and
`ReleaseWindow` says that it fails between `set_value` and
`curl_multi_remove_handle` of one iteration of `CheckMulti` only, on the handle of
the request just answered.  `EntriesLive` says that `ongoing_requests`, keyed by
addresses that come back, has no entry left from an earlier request.
`BlockedHasRequest` follows a request from place to place, which is the safety
side of "the caller is answered": the loop never goes back to the kernel with a
finished transfer unread.  (These three are proved for both builds.)
`LeftoverMethods` and `MemoryIsOwn` name the sequences of calls in which a call
sends the method, or follows a pointer, of another, and exclude any other;
`WriteResponseIsOwn` says that what is left of failed writes goes back to the last
success and no further; `BodyIsWhole` that part of a body shows in `buffer_out` of a
failed Post and nowhere else.  `SoleWaiterWoken` is what makes one
`notify_one` enough for one client in `Wait`, as finding 4 shows it is not for two.

Bounds.  Manager: two callers and two addresses, so that one caller's handle can
be freed and its address given to the other; two requests each, so that a
handle is used again; `MaxEvents` is 2 with up to four sources, so that a batch
is cut.  The refinement run has one request per caller, as liveness of one
request does not depend on a caller's earlier ones beyond what the safety run
covers.  In `manager_safety` one caller has a timeout and one has none.  Client: four
calls are every triple of earlier calls before a fourth; an option remembers only its
last writer.  Sockets: 0 and two others, one of which the kernel may refuse while the
others are watched.  Pool: three workers and four jobs
(asleep, running and about to look at once, with a job left).  kqueue: batches of
two among up to four events; one descriptor, because sockets do not touch one
another's filters (descriptor 0 and any number of them are covered by the
proofs).  The run has one caller with two requests and two addresses: the liveness of two callers is beyond
TLC's time here.  It has the interleavings of `CheckMulti` with the caller's return,
reuse and cleanup, and requests that come while the loop is busy; merged triggers of
several callers are covered by the proofs, which have all the safety properties of the
run for any number of callers, and several callers on the shared path by the runs of the
manager.  Responses: four lines are a redirect
or interim response with a field, and a last one with two, or with one and a
trailer.  Extension: two connections with two calls each are a LOAD of either
extension against a LOAD or SET of the other connection; two rows in each file
and chunks of one row are lists of up to three entries and a boundary after each;
of the IPv4 addresses one is the other read back to front, and the IPv6 one ends
with the bytes of an IPv4 one.
The clients and jobs are bounded, hence `CHECK_DEADLOCK
FALSE`: a model whose callers have used up their requests stops.

Fairness.  Threads are scheduled (weak fairness on their steps); an armed timer
expires; epoll's ready list is round robin, so a source that stays ready is
returned (strong fairness for each); a transfer of a caller in `Timed` ends,
because every `curl_multi_socket_action` runs libcurl's due timeouts (strong
fairness: the calls that could end it come and go with `bg`).  Jobs of the pool come to an end.  In `kqueue` the same is assumed of threads, timer
and transfers, and `kevent` hands out active events round robin, so that the user
event and the timer are returned although filters nobody wants stay active
(strong fairness for each).  Nothing is assumed of callers beyond `Notify` and
`Return`, nor of clients of the pool before they call `Wait`.

`client_calls` states its properties with the conditions under which the code
keeps them.  `WireMatchesCall` needs a client used for reads only or for one
kind of write, which is how duckdb-httpfs is expected to use it (a client is
kept for the reads of a file; a write gets a new one); the class itself, an
`HTTPClient` with all five operations, states no such condition.

## 4. Theorems

`RequestPathProofs`.  Theorems of `PathSpec`: the request path under an event loop
that may set its timer, start a drain, call libcurl or throw as it likes.  The
inductive invariant `IInv` adds to the types the
ownership of requests: a request in the queue, in the background thread's hand,
or in `ongoing_requests` with a live transfer is the latest request of a caller
that is still blocked on it, sits on that caller's own handle, and is in only
one of these places (`QueueInv`, `AddInv`, `OngoingInv`); handles of different
callers differ; a handle is in the multi handle only with an entry
(`StageInv`); between `set_value` and the erase the entry is still there and its
transfer over (`LeavingInv`).
`PathAssertionsHold` and `OwnResponse` are conjuncts: neither is inductive alone,
since that no promise is fulfilled twice depends on who waits, and who waits on
what has been answered.  From `IInv` follow `PathAssertionsNeverFail`,
`ResponsesNeverCross` and `TransfersHaveWaiters`.

A second layer, `RInv`, is inductive relative to `IInv` and says where a request
is: the request in the second half of an iteration of `CheckMulti` has been
answered and is still in `ongoing_requests` (`AnsweredInv`), a transfer that is over
is found before the loop goes back to wait (`DoneInv`), an entry that is not
being erased has its handle in the multi handle (`EntryInv`), and who is on the way
through `HandleRequest` has a client and a request (`CallerInv`).  It gives
`ReleaseWindowIsNarrow` and `NoDeadEntries`.  For `RequestsNeverDropped` the
property itself is carried along: `PlacedStep` and `StillBlocked` show, action by
action, that a request leaves one of its places only for the next.
`PathImplementsService` shows that every step is a step of `RequestService` or a
stutter.

`MultiCurlManagerProofs` and `KqueueLoopProofs`.  `ManagerImplementsPath` and
`KqueueImplementsPath` map each step of a build to a step of `PathSpec` or a stutter,
so that what is proved of `PathSpec` holds of both builds (`ManagerIsSafe`,
`KqueueIsSafe`, `ManagerImplementsService`, `KqueueImplementsService`).  What is
left is each build's own: `WakeupsNeverLost` and `TransfersHaveTimers` of both; on
Linux that the eventfd is readable when a batch says so (`AssertionsNeverFail`) and
that `still_running` is exact until `CheckMulti` is over; on macOS `SocketInv` (what
libcurl wants is registered or was refused, and what a removed or closed socket may
keep), which gives `FiltersSuffice` and `LeftoversAreWriteOnly`.  A batch within its
array rests on lemmas on finite sets.

`ThreadPoolProofs`.  `IInv` is `TypeOK`, `IdleNumExact`, `WorkersWoken`,
`JobsAccounted` and `StopInv` (no worker of a stopped pool is asleep).  The count of idle workers is kept by lemmas on
cardinalities; `WaitWaits` uses that a client's `earlier` never exceeds
`pushed`.  `SoleWaiterNeverForgotten` is an invariant next to `IInv`: only the
report of an executed job can make the predicate of `Wait` true, and that report
notifies; whoever goes to sleep has found the predicate false.
`PoolImplementsService` needs `OwnerInv` (the pool is stopped exactly when its
destructor has begun, and gone only when all workers have exited): `Start` because
a worker that takes a job is idle, so that fewer jobs than workers are executing
(`ExecutingHeld` and cardinalities), `WaitReturn` because a full idle count and an
empty queue leave every pushed job executed (`AllFinished`), `Destroyed` because
nobody executes in a pool whose workers have exited.

`MultiCurlClientProofs`.  For any set of operations and any number of calls:
every property of `client_calls`.  The strengthening says what each option may
still hold given the verbs used so far (`OptInv`) and the call before (`IdleInv`),
what the call under way has set (`CallInv`), that no pointer is ahead of the calls (`PointerInv`), and what
the two `RequestInfo`s hold at each point (`RequestInv`, `InfoInv`).

`EpollSocketsProofs`.  The invariant adds that a `SockInfo` names its own socket
and exists while libcurl wants something (`SockInfoInv`), and that a refused
descriptor has one and no registration (`RefusedInv`): a failing DEL is then one
of a refused descriptor.

`ResponseAssemblyProofs`.  The invariant says of the last block, line by line,
what a response says at the end (status line, first value of each field), so that
`Finish` only has to copy it; blocks before the last never matter again.

`ExtensionProofs`.  `LoadInv`: one LOAD of curl_httpfs at a time, and httpfs
is being loaded exactly while its loader is on its way; `RaceInv`: a connection
on its way to the nested load is not the one that loaded httpfs; `OverrideInv`:
httpfs is loaded before the util is installed, unless it was being loaded at the
check; `SetInv`: a SET that goes on to write has a util to write, not in Wasm,
and whoever installs the util it asks for has noted it.  These are of `UtilSpec`.
Of `TcpSpec`: `ReadInv`, what is left is the end of what was read; a lemma that
reversing the bytes of eight digits undoes the kernel's way to print them, with
which `CountInv`, the counts of all groups, goes row by row; `EmitInv`, the list is sorted and has every
address of the map, which needs that an increasing list of as many entries as there
are addresses leaves none out.  `ExtensionIsCorrect` has all six properties of the run
`extension` for the composition that run checks.

The theorems hold for any values of the constants that meet the assumption of their
module (`PathAssumption` of the request path; `ConstantsAssumption`;
`ConnsAssumption` and `TcpAssumption` in the parts of `Extension`), which TLC evaluates for the values of each run.  Liveness (the `ImplementsService` of manager, kqueue loop and pool beyond their
safety parts, `HandleReleased`, `JobsFinish`, `DestructorReturns`, `WaitReturns`)
is model-checked only: the provers do not reason about fairness and `ENABLED`.  Every other property of a
passing run is the statement of a theorem.
The expected violations are shown by TLC's counterexamples.

## 5. Findings

1. `TimerCallback` asserts that `timer_fd` can be read.  An event earlier in the
   same batch may have set the timer again, which drops the expirations; the
   assertion throws in a thread with no handler.
2. `HandleRequest` does not wait for the completion of a request: the promise is
   fulfilled before the handle leaves the multi handle.
3. `SetHeaders` with an empty list leaves a freed list on the handle.
4. `ThreadPool::Wait` with two callers: `notify_one` releases one of them.

Stated in a property by its conditions, and worth a look:

* `SetGetAttrs` resets `NOBODY` only: a Get after Put, Delete or Post on the same
  client may be sent as PUT, DELETE or POST (`LeftoverMethods`; `WireMatchesCall`
  asks for a client of one kind), with that call's freed buffer (`MemoryIsOwn`).
* A write after a read on one client writes its response into the freed
  `CurlRequest` of the read (`MemoryIsOwn`).
* What a failed write received is prepended to the body of the next
  (`WriteResponseIsOwn`); a failed Post shows part of a body in `buffer_out`
  (`BodyIsWhole`).
* `~ThreadPool` does not notify `job_completion_cv_`: a client asleep in `Wait`
  while jobs are queued sleeps on although the pool is dead, against
  `thread_pool.hpp:29` (`WaitReturns` excepts a stopped pool).
* The connections are not grouped by IP, although `tcp_connection_fetcher.hpp:8` says
  they are: `HexToIP` makes 0.0.0.0, the group of the listeners, of every IPv6 peer, though line
  98 speaks of both families.  `PeersCounted` is about the IPv4 peers and promises
  nothing of that group.
* With an http timeout of 0 nothing ends the wait for a peer that falls silent
  (`Timed`).
* `LOAD curl_httpfs` follows a null pointer when another connection loads httpfs
  between its check and its own load (`BreaksOnlyOnRace`), and may end up with the
  util of httpfs when httpfs was being loaded at the check (`OverrideHolds`).
* The setting's callback compares with names no util has, so it always installs a
  new util for `curl` and `httplib` (`SetTakesEffect` holds because of that too).
* A header line that ends with its colon throws through libcurl (`EndsWithColon`);
  a field or trailer that begins with `HTTP/` is taken for a status line and hides
  the fields before it (`HeadersOfLastResponse`); a failed transfer quotes the last
  status line, which may be a 200 (`StatusIsOwn`).
* kqueue: WRITE filters of removed sockets may stay (`LeftoverFilters`), and the code
  does not notice that the kernel refused a filter (`NothingMissed` excepts these).

## 6. Not modelled

* The macOS build of the connection fetcher: it parses the text of `netstat`.
* Rows of procfs that are not well-formed; overflow of a count.
* Destruction of a job's closure, and the lifetime of an `HTTPUtil` that is
  replaced while in use: C++ ownership outside this code.
* `MultiCurlUtil` (a factory without state), the number of CPUs and the
  system-call macros, except where one throws in a modelled handler.
* The counters of `HTTPState`, the response code, certificates and proxy, the
  verbose-logging flag; httpfs's own setting `httpfs_client_implementation`.
* Destruction of the manager, which never happens.

## 7. What could follow

The plan of the first version is carried out: manager, pool, client, sockets,
header assembly, setting, connection table and the kqueue loop are modelled,
checked and proved.  What would add most next: `EpollSockets` composed with the
batches of `MultiCurlManager` (events of a descriptor that was closed and reused
while its batch was dispatched), and a proof that the two builds' liveness needs
no more fairness than stated, which is beyond the provers today.
