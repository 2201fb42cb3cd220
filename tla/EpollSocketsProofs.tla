-------------------------- MODULE EpollSocketsProofs --------------------------
(***************************************************************************)
(* The epoll set is what libcurl asked for, for any set of descriptors and *)
(* any limit of the kernel.                                                *)
(***************************************************************************)
EXTENDS EpollSockets, TLAPS

\* A SockInfo is the one of its socket, and is there while libcurl wants something.
SockInfoInv ==
  /\ \A s \in Fds : sockp[s] # None => sockp[s] \in SockInfo /\ sockp[s].sockfd = s
  /\ ~failed => \A s \in Fds : sockp[s] = None <=> want[s] = None

\* A refused descriptor has a SockInfo and no registration.
RefusedInv ==
  ~failed => \A s \in refused : sockp[s] # None /\ epoll[s] = None

\* Descriptor 0 is registered, or refused, when it is wanted.
ZeroInv ==
  ~failed /\ 0 \in Fds /\ want[0] # None => 0 \in refused \/ epoll[0] # None

\* What the callbacks keep.
IInv ==
  /\ TypeOK /\ SockInfoInv /\ RefusedInv
  /\ WatchedAsWanted /\ ZeroInv
-----------------------------------------------------------------------------
\* The outcome of SetSockInfo on a socket whose old registration is named by f: the
\* new events are in the set, or 0 keeps its old ones, or the kernel refused.
LEMMA SetSockInfoFacts ==
  ASSUME TypeOK, NEW s \in Fds, NEW events \in Events,
         NEW f \in SockInfo, f.sockfd \in {0, s}, epoll[s] = None \/ f.sockfd = s,
         SetSockInfo(f, s, events)
  PROVE  /\ epoll' \in [Fds -> Events \cup {None}]
         /\ refused' \subseteq Fds
         /\ sockp' = [sockp EXCEPT ![s] = [sockfd |-> s, action |-> events]]
         /\ sockp' \in [Fds -> SockInfo \cup {None}]
         /\ \A t \in Fds \ {s} : epoll'[t] = epoll[t] /\ (t \in refused' <=> t \in refused)
         /\ s # 0 => \/ s \notin refused' /\ epoll'[s] = events
                     \/ s \in refused' /\ epoll'[s] = None
         /\ s = 0 => \/ s \notin refused' /\ epoll'[s] # None
                     \/ s \in refused' /\ epoll'[s] = None
<1> DEFINE left == IF HasOld(f) THEN CtlDel(epoll, f.sockfd) ELSE epoll
<1>1. /\ left \in [Fds -> Events \cup {None}]
      /\ \A t \in Fds \ {s} : left[t] = epoll[t]
      /\ s # 0 => left[s] = None
  BY DEF TypeOK, HasOld, CtlDel
<1>2. /\ epoll' = CtlAdd(left, s, events)
      /\ refused' = IF left[s] = None /\ epoll'[s] = None THEN refused \cup {s} ELSE refused \ {s}
      /\ sockp' = [sockp EXCEPT ![s] = [sockfd |-> s, action |-> events]]
  BY DEF SetSockInfo
<1>3. events # None
  BY ConstantsAssumption
<1> HIDE DEF left
<1>4. epoll' = left \/ (left[s] = None /\ epoll' = [left EXCEPT ![s] = events])
  BY <1>2 DEF CtlAdd
<1>5. sockp' \in [Fds -> SockInfo \cup {None}] /\ refused' \subseteq Fds
  BY <1>2 DEF TypeOK, SockInfo
<1>6. CASE epoll' = left
  BY <1>1, <1>2, <1>3, <1>5, <1>6
<1>7. CASE left[s] = None /\ epoll' = [left EXCEPT ![s] = events]
  BY <1>1, <1>2, <1>3, <1>5, <1>7
<1>8. QED BY <1>4, <1>6, <1>7

\* A call of SetSockInfo keeps the invariant.
LEMMA SetStep ==
  ASSUME IInv, ~failed, UNCHANGED failed, open' \subseteq Fds,
         NEW s \in Fds, NEW events \in Events, want' = [want EXCEPT ![s] = events],
         NEW f \in SockInfo, f.sockfd \in {0, s}, epoll[s] = None \/ f.sockfd = s,
         SetSockInfo(f, s, events)
  PROVE  IInv'
<1>0. TypeOK /\ events # None
  BY ConstantsAssumption DEF IInv
<1>1. /\ epoll' \in [Fds -> Events \cup {None}]
      /\ refused' \subseteq Fds
      /\ sockp' = [sockp EXCEPT ![s] = [sockfd |-> s, action |-> events]]
      /\ sockp' \in [Fds -> SockInfo \cup {None}]
      /\ \A t \in Fds \ {s} : epoll'[t] = epoll[t] /\ (t \in refused' <=> t \in refused)
      /\ s # 0 => \/ s \notin refused' /\ epoll'[s] = events
                  \/ s \in refused' /\ epoll'[s] = None
      /\ s = 0 => \/ s \notin refused' /\ epoll'[s] # None
                  \/ s \in refused' /\ epoll'[s] = None
  BY <1>0, SetSockInfoFacts
<1>2. want' \in [Fds -> Events \cup {None}] /\ want'[s] = events
  BY <1>0 DEF TypeOK
<1>3. \A t \in Fds \ {s} : want'[t] = want[t] /\ sockp'[t] = sockp[t]
  BY <1>0, <1>1 DEF TypeOK
<1>4. /\ sockp'[s] = [sockfd |-> s, action |-> events]
      /\ sockp'[s] \in SockInfo /\ sockp'[s] # None /\ sockp'[s].sockfd = s
  BY <1>0, <1>1, ConstantsAssumption DEF TypeOK, SockInfo
<1>5. TypeOK'
  BY <1>0, <1>1, <1>2 DEF TypeOK
<1>6. SockInfoInv'
  BY <1>0, <1>2, <1>3, <1>4 DEF IInv, SockInfoInv
<1>7. RefusedInv'
  BY <1>1, <1>3, <1>4 DEF IInv, RefusedInv
<1>8. WatchedAsWanted'
  BY <1>1, <1>2, <1>3 DEF IInv, WatchedAsWanted
<1>9. ZeroInv'
  BY <1>1, <1>3 DEF IInv, ZeroInv
<1>10. QED BY <1>5, <1>6, <1>7, <1>8, <1>9 DEF IInv

\* A failing EPOLL_CTL_DEL is that of a refused descriptor.
LEMMA DelFailsOnlyIfRefused ==
  ASSUME IInv, ~failed, NEW s \in Fds, sockp[s] # None, DelFails(sockp[s])
  PROVE  s \in refused
<1>1. s # 0 /\ epoll[s] = None
  BY DEF IInv, SockInfoInv, DelFails, HasOld
<1>2. want[s] # None
  BY DEF IInv, SockInfoInv
<1>3. QED BY <1>1, <1>2 DEF IInv, WatchedAsWanted

\* A throw in the callback leaves what is left of the invariant.
LEMMA ThrowStep ==
  ASSUME IInv, ~failed, NEW s \in Fds, sockp[s] # None, DelFails(sockp[s]),
         failed' = TRUE, UNCHANGED <<open, sockp, epoll, refused>>,
         NEW events \in Events \cup {None}, want' = [want EXCEPT ![s] = events]
  PROVE  IInv'
<1>1. TypeOK'
  BY DEF IInv, TypeOK
<1>2. QED BY <1>1 DEF IInv, SockInfoInv, RefusedInv, WatchedAsWanted, ZeroInv

\* The inductive invariant.
THEOREM Invariance == Spec => []IInv
<1>1. Init => IInv
  BY DEF Init, IInv, TypeOK, SockInfoInv, RefusedInv, WatchedAsWanted, ZeroInv
<1>2. IInv /\ [Next]_vars => IInv'
  <2> SUFFICES ASSUME IInv, [Next]_vars PROVE IInv'
    OBVIOUS
  <2>0. TypeOK
    BY DEF IInv
  <2>1. ASSUME NEW s \in Fds, Open(s) PROVE IInv'
    BY <2>1 DEF Open, IInv, TypeOK, SockInfoInv, RefusedInv, WatchedAsWanted, ZeroInv
  <2>2. ASSUME NEW s \in Fds, Close(s) PROVE IInv'
    <3>1. /\ epoll' = [epoll EXCEPT ![s] = None] /\ want[s] = None /\ open' \subseteq Fds
          /\ ~failed /\ UNCHANGED <<want, sockp, refused, failed>>
      BY <2>0, <2>2 DEF Close, CtlDel, TypeOK
    <3>2. /\ epoll' \in [Fds -> Events \cup {None}] /\ epoll'[s] = None
          /\ \A t \in Fds \ {s} : epoll'[t] = epoll[t]
      BY <2>0, <3>1 DEF TypeOK
    <3>3. TypeOK' /\ SockInfoInv' /\ RefusedInv'
      BY <3>1, <3>2 DEF IInv, TypeOK, SockInfoInv, RefusedInv
    <3>4. WatchedAsWanted' /\ ZeroInv'
      BY <3>1, <3>2 DEF IInv, WatchedAsWanted, ZeroInv
    <3>5. QED BY <3>3, <3>4 DEF IInv
  <2>3. ASSUME NEW s \in Fds, RemoveSocket(s) PROVE IInv'
    <3>1. /\ ~failed /\ sockp[s] # None /\ open' = open
          /\ want' = [want EXCEPT ![s] = None]
      BY <2>3 DEF RemoveSocket
    <3>2. CASE DelFails(sockp[s])
      <4>1. failed' = TRUE /\ UNCHANGED <<open, sockp, epoll, refused>>
        BY <2>3, <3>2 DEF RemoveSocket
      <4>2. QED BY <3>1, <3>2, <4>1, ThrowStep
    <3>3. CASE ~DelFails(sockp[s])
      <4>1. /\ epoll' = IF s # 0 THEN [epoll EXCEPT ![s] = None] ELSE epoll
            /\ sockp' = [sockp EXCEPT ![s] = None]
            /\ refused' = refused \ {s} /\ failed' = failed
        BY <2>3, <3>1, <3>3 DEF RemoveSocket, HasOld, CtlDel, IInv, SockInfoInv
      <4>2. /\ epoll' \in [Fds -> Events \cup {None}] /\ (s # 0 => epoll'[s] = None)
            /\ \A t \in Fds \ {s} :
                 epoll'[t] = epoll[t] /\ want'[t] = want[t] /\ sockp'[t] = sockp[t]
            /\ want'[s] = None /\ sockp'[s] = None
        BY <2>0, <3>1, <4>1 DEF TypeOK
      <4>3. TypeOK'
        BY <2>0, <3>1, <4>1, <4>2 DEF TypeOK
      <4>4. SockInfoInv' /\ RefusedInv'
        BY <3>1, <4>1, <4>2 DEF IInv, SockInfoInv, RefusedInv
      <4>5. WatchedAsWanted' /\ ZeroInv'
        BY <3>1, <4>1, <4>2 DEF IInv, WatchedAsWanted, ZeroInv
      <4>6. QED BY <4>3, <4>4, <4>5 DEF IInv
    <3>4. QED BY <3>2, <3>3
  <2>4. ASSUME NEW s \in Fds, NEW events \in Events, AddSocket(s, events) PROVE IInv'
    <3>1. /\ ~failed /\ sockp[s] = None /\ UNCHANGED <<open, failed>>
          /\ want' = [want EXCEPT ![s] = events]
          /\ SetSockInfo([sockfd |-> 0, action |-> events], s, events)
      BY <2>4 DEF AddSocket
    <3>2. s # 0 => epoll[s] = None
      BY <3>1 DEF IInv, SockInfoInv, RefusedInv, WatchedAsWanted
    <3>3. [sockfd |-> 0, action |-> events] \in SockInfo /\ open' \subseteq Fds
      BY <2>0, <3>1 DEF SockInfo, TypeOK
    <3>4. QED BY <3>1, <3>2, <3>3, SetStep
  <2>5. ASSUME NEW s \in Fds, NEW events \in Events, ChangeSocket(s, events) PROVE IInv'
    <3>1. /\ ~failed /\ sockp[s] # None /\ open' = open
          /\ want' = [want EXCEPT ![s] = events]
      BY <2>5 DEF ChangeSocket
    <3>2. CASE DelFails(sockp[s])
      <4>1. failed' = TRUE /\ UNCHANGED <<open, sockp, epoll, refused>>
        BY <2>5, <3>2 DEF ChangeSocket
      <4>2. QED BY <3>1, <3>2, <4>1, ThrowStep
    <3>3. CASE ~DelFails(sockp[s])
      <4>1. SetSockInfo(sockp[s], s, events) /\ UNCHANGED failed
        BY <2>5, <3>3 DEF ChangeSocket
      <4>2. sockp[s] \in SockInfo /\ sockp[s].sockfd = s /\ open' \subseteq Fds
        BY <2>0, <3>1 DEF IInv, SockInfoInv, TypeOK
      <4>3. QED BY <3>1, <4>1, <4>2, SetStep
    <3>4. QED BY <3>2, <3>3
  <2>6. CASE UNCHANGED vars
    BY <2>6 DEF vars, IInv, TypeOK, SockInfoInv, RefusedInv, WatchedAsWanted, ZeroInv
  <2>7. QED BY <2>1, <2>2, <2>3, <2>4, <2>5, <2>6 DEF Next
<1>3. QED BY <1>1, <1>2, PTL DEF Spec

\* The variables keep their types: a SockInfo, a registration or None for each descriptor.
THEOREM TypeCorrect == Spec => []TypeOK
<1>1. IInv => TypeOK
  BY DEF IInv
<1>2. QED BY <1>1, Invariance, PTL

\* epoll watches what libcurl asked for, descriptor 0 and refusals apart.
THEOREM EpollFollows == Spec => []WatchedAsWanted
<1>1. IInv => WatchedAsWanted
  BY DEF IInv
<1>2. QED BY <1>1, Invariance, PTL

\* Descriptor 0 is watched, for the events it was first registered for.
THEOREM ZeroIsNotDeaf == Spec => ZeroIsWatched
<1> DEFINE Kept == 0 \in open' /\ epoll[0] # None => epoll'[0] = epoll[0]
<1>1. IInv => (~failed /\ 0 \in Fds /\ want[0] # None => 0 \in refused \/ epoll[0] # None)
  BY DEF IInv, ZeroInv
<1>2. IInv /\ [Next]_vars => [Kept]_vars
  <2> SUFFICES ASSUME IInv, Next, 0 \in open', epoll[0] # None PROVE epoll'[0] = epoll[0]
    OBVIOUS
  <2>0. TypeOK /\ SockInfoInv
    BY DEF IInv
  <2>1. ASSUME NEW s \in Fds, Open(s) PROVE epoll'[0] = epoll[0]
    BY <2>1 DEF Open
  <2>2. ASSUME NEW s \in Fds, Close(s) PROVE epoll'[0] = epoll[0]
    BY <2>0, <2>2 DEF Close, CtlDel, TypeOK
  <2>3. ASSUME NEW s \in Fds, NEW f \in SockInfo, f.sockfd \in {0, s}, NEW events, SetSockInfo(f, s, events)
        PROVE  epoll'[0] = epoll[0]
    <3> DEFINE left == IF HasOld(f) THEN CtlDel(epoll, f.sockfd) ELSE epoll
    <3>1. left[0] = epoll[0] /\ left \in [Fds -> Events \cup {None}]
      BY <2>0, <2>3 DEF HasOld, CtlDel, TypeOK
    <3>2. epoll' = CtlAdd(left, s, events)
      BY <2>3 DEF SetSockInfo
    <3> HIDE DEF left
    <3>3. CASE s = 0
      BY <3>1, <3>2, <3>3 DEF CtlAdd
    <3>4. CASE s # 0
      BY <3>1, <3>2, <3>4 DEF CtlAdd
    <3>5. QED BY <3>3, <3>4
  <2>4. ASSUME NEW s \in Fds, RemoveSocket(s) PROVE epoll'[0] = epoll[0]
    <3>1. HasOld(sockp[s]) => sockp[s].sockfd = s /\ s # 0
      BY <2>0, <2>4 DEF RemoveSocket, SockInfoInv, HasOld
    <3>2. QED BY <2>0, <2>4, <3>1 DEF RemoveSocket, CtlDel, TypeOK
  <2>5. ASSUME NEW s \in Fds, NEW events \in Events, AddSocket(s, events) PROVE epoll'[0] = epoll[0]
    <3>1. [sockfd |-> 0, action |-> events] \in SockInfo
      BY DEF SockInfo
    <3>2. QED BY <2>3, <2>5, <3>1 DEF AddSocket
  <2>6. ASSUME NEW s \in Fds, NEW events \in Events, ChangeSocket(s, events) PROVE epoll'[0] = epoll[0]
    <3>1. sockp[s] \in SockInfo /\ sockp[s].sockfd = s
      BY <2>0, <2>6 DEF ChangeSocket, SockInfoInv
    <3>2. QED BY <2>3, <2>6, <3>1 DEF ChangeSocket
  <2>7. QED BY <2>1, <2>2, <2>4, <2>5, <2>6 DEF Next
<1>3. QED BY <1>1, <1>2, Invariance, PTL DEF Spec, ZeroIsWatched

\* RemoveSockInfo and SetSockInfo throw only for a descriptor that was refused.
THEOREM ThrowsOnlyOnRefusal == Spec => OnlyRefusalIsFatal
<1> DEFINE Refused == failed' /\ ~failed => \E s \in refused : want'[s] # want[s]
<1>1. IInv /\ [Next]_vars => [Refused]_vars
  <2> SUFFICES ASSUME IInv, Next, failed', ~failed PROVE \E s \in refused : want'[s] # want[s]
    OBVIOUS
  <2>1. PICK s \in Fds : \/ RemoveSocket(s)
                         \/ \E events \in Events : ChangeSocket(s, events)
    BY DEF Next, Open, Close, AddSocket
  <2>2. sockp[s] # None /\ DelFails(sockp[s])
    BY <2>1 DEF RemoveSocket, ChangeSocket
  <2>3. s \in refused
    BY <2>2, DelFailsOnlyIfRefused
  <2>4. want[s] # None /\ want \in [Fds -> Events \cup {None}]
    BY <2>2 DEF IInv, SockInfoInv, TypeOK
  <2>5. want'[s] # want[s]
    BY <2>1, <2>4 DEF RemoveSocket, ChangeSocket
  <2>6. QED BY <2>3, <2>5
<1>2. QED BY <1>1, Invariance, PTL DEF Spec, OnlyRefusalIsFatal
=============================================================================
