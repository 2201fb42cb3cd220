---------------------------- MODULE EpollSockets ----------------------------
(***************************************************************************)
(* Registration of libcurl's sockets with epoll (SocketCallback and what   *)
(* it calls, src/src/multi_curl_manager.cpp, the Linux build).  libcurl    *)
(* says which events of which descriptor it wants; the callback keeps a    *)
(* SockInfo per socket and edits the epoll set.  libcurl opens and closes  *)
(* connections, so that the kernel hands out descriptors again.            *)
(***************************************************************************)
EXTENDS Naturals, FiniteSets

CONSTANTS
  Fds,         \* descriptors the kernel may give to libcurl's sockets
  MaxWatches,  \* registrations the kernel grants (/proc/sys/fs/epoll/max_user_watches)
  None         \* nullptr, "not registered", "not wanted"

Events == {{"in"}, {"out"}, {"in", "out"}}   \* CURL_POLL_IN, CURL_POLL_OUT, both
SockInfo == [sockfd : Fds \cup {0}, action : Events]

ASSUME ConstantsAssumption ==
  /\ Fds \subseteq Nat /\ IsFiniteSet(Fds)
  /\ MaxWatches \in Nat
  /\ None \notin Events /\ None \notin SockInfo

VARIABLES
  open,     \* descriptors of libcurl's connections
  want,     \* what libcurl last asked for, None after CURL_POLL_REMOVE
  sockp,    \* the SockInfo assigned to the socket, or None
  epoll,    \* the kernel's epoll set: events per descriptor, or None
  refused,  \* history: descriptors whose latest EPOLL_CTL_ADD found no room
  failed    \* a failing EPOLL_CTL_DEL threw, through libcurl's frames

vars == <<open, want, sockp, epoll, refused, failed>>

TypeOK ==
  /\ open \subseteq Fds
  /\ want \in [Fds -> Events \cup {None}]
  /\ sockp \in [Fds -> SockInfo \cup {None}]
  /\ epoll \in [Fds -> Events \cup {None}]
  /\ refused \subseteq Fds
  /\ failed \in BOOLEAN

Init ==
  /\ open = {}
  /\ want = [s \in Fds |-> None]
  /\ sockp = [s \in Fds |-> None]
  /\ epoll = [s \in Fds |-> None]
  /\ refused = {} /\ failed = FALSE

Watched(set) == {s \in Fds : set[s] # None}
-----------------------------------------------------------------------------
(***************************************************************************)
(* The kernel.                                                             *)
(***************************************************************************)
\* epoll_ctl EPOLL_CTL_ADD: fails when the descriptor is registered (EEXIST) or the
\* limit is reached (ENOSPC); the caller does not look.
CtlAdd(set, s, events) ==
  IF set[s] # None \/ Cardinality(Watched(set)) >= MaxWatches
  THEN set ELSE [set EXCEPT ![s] = events]

\* epoll_ctl EPOLL_CTL_DEL.
CtlDel(set, s) == [set EXCEPT ![s] = None]
-----------------------------------------------------------------------------
(***************************************************************************)
(* SocketCallback.                                                         *)
(***************************************************************************)
\* Seeded bug: the old registration stays.
NothingToDelete(f) == FALSE

\* Seeded bug: 0 is taken for a descriptor like any other.
AlwaysToDelete(f) == TRUE

\* SetSockInfo and RemoveSockInfo take descriptor 0 for "none yet".
HasOld(f) == f.sockfd # 0

\* EPOLL_CTL_DEL of a descriptor that is not in the set fails, and throws.
DelFails(f) == HasOld(f) /\ epoll[f.sockfd] = None

\* Seeded bug: the kernel is not told.
SetSockInfoKeeps(f, s, events) ==
  /\ epoll' = epoll
  /\ refused' = refused \ {s}
  /\ sockp' = [sockp EXCEPT ![s] = [sockfd |-> s, action |-> events]]

\* SetSockInfo, when it does not throw: take the old registration out, add the new one.
SetSockInfo(f, s, events) ==
  LET left == IF HasOld(f) THEN CtlDel(epoll, f.sockfd) ELSE epoll IN
  /\ epoll' = CtlAdd(left, s, events)
  /\ refused' = IF left[s] = None /\ epoll'[s] = None THEN refused \cup {s} ELSE refused \ {s}
  /\ sockp' = [sockp EXCEPT ![s] = [sockfd |-> s, action |-> events]]

\* A socket without a SockInfo: AddSockInfo makes one, sockfd 0, and assigns it.
AddSocket(s, events) ==
  /\ ~failed /\ s \in open /\ sockp[s] = None
  /\ want' = [want EXCEPT ![s] = events]
  /\ SetSockInfo([sockfd |-> 0, action |-> events], s, events)
  /\ UNCHANGED <<open, failed>>

\* A socket that has one, and other events than before.
ChangeSocket(s, events) ==
  /\ ~failed /\ s \in open /\ sockp[s] # None /\ want[s] # events
  /\ want' = [want EXCEPT ![s] = events]
  /\ IF DelFails(sockp[s])
     THEN failed' = TRUE /\ UNCHANGED <<sockp, epoll, refused>>
     ELSE SetSockInfo(sockp[s], s, events) /\ UNCHANGED failed
  /\ UNCHANGED open

\* CURL_POLL_REMOVE: RemoveSockInfo, which throws before it deletes the SockInfo.
\* libcurl forgets the pointer with the socket.
RemoveSocket(s) ==
  /\ ~failed /\ s \in open /\ sockp[s] # None
  /\ want' = [want EXCEPT ![s] = None]
  /\ IF DelFails(sockp[s])
     THEN failed' = TRUE /\ UNCHANGED <<sockp, epoll, refused>>
     ELSE /\ epoll' = IF HasOld(sockp[s]) THEN CtlDel(epoll, sockp[s].sockfd) ELSE epoll
          /\ sockp' = [sockp EXCEPT ![s] = None]
          /\ refused' = refused \ {s}
          /\ UNCHANGED failed
  /\ UNCHANGED open
-----------------------------------------------------------------------------
(***************************************************************************)
(* libcurl's connections.                                                  *)
(***************************************************************************)
Open(s) ==
  /\ ~failed /\ s \in Fds \ open
  /\ open' = open \cup {s}
  /\ UNCHANGED <<want, sockp, epoll, refused, failed>>

\* libcurl reports the removal of a socket before it closes it; the kernel takes a
\* closed descriptor out of the epoll set.
Close(s) ==
  /\ ~failed /\ s \in open /\ want[s] = None
  /\ open' = open \ {s}
  /\ epoll' = CtlDel(epoll, s)
  /\ UNCHANGED <<want, sockp, refused, failed>>

Next == \E s \in Fds :
  \/ Open(s)
  \/ Close(s)
  \/ RemoveSocket(s)
  \/ \E events \in Events : AddSocket(s, events) \/ ChangeSocket(s, events)

Spec == Init /\ [][Next]_vars
-----------------------------------------------------------------------------
(***************************************************************************)
(* Properties.                                                             *)
(***************************************************************************)
\* epoll watches exactly what libcurl last asked for, of every descriptor but 0, unless
\* the kernel refused it: descriptors are reused and events change, and nothing of an
\* earlier connection is left in the set.
WatchedAsWanted ==
  ~failed => \A s \in Fds \ ({0} \cup refused) : epoll[s] = want[s]

\* Descriptor 0 too is watched while libcurl waits for it, although the code cannot tell
\* it from a SockInfo that has no descriptor; but it is watched for the events it was
\* first registered for until it is closed, whatever libcurl asks for after that.
ZeroIsWatched ==
  /\ [](~failed /\ 0 \in Fds /\ want[0] # None => 0 \in refused \/ epoll[0] # None)
  /\ [][0 \in open' /\ epoll[0] # None => epoll'[0] = epoll[0]]_vars

\* The callback throws only when libcurl changes its mind about a descriptor that the
\* kernel has refused: that refusal, which SetSockInfo ignores, is then fatal.
OnlyRefusalIsFatal ==
  [][failed' /\ ~failed => \E s \in refused : want'[s] # want[s]]_vars
=============================================================================
