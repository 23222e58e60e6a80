---------------------------- MODULE Encap_proofs ----------------------------
(***************************************************************************)
(* The invariants of the encapsulation layer, for every number of          *)
(* sessions, sockets and pool entries and every inactivity time-out.       *)
(***************************************************************************)
EXTENDS Encap, ConnectionList_proofs, FiniteSetTheorems

(* The inductive invariant: the session table and the timers are needed    *)
(* together, since one is searched by what the other holds.                *)
IInv ==
    /\ TypeOK
    /\ SocketsNotShared
    /\ TimersMatchSessions
    /\ RegistrationFindsTimer
    /\ PoolMatchesList
    /\ TriadsUnique

(* Closing the sockets in F, as CloseTcpSocket does, together with exactly *)
(* the sessions that use them keeps the session table, the timers and the  *)
(* open sockets consistent.                                                *)
LEMMA SessionsClosed ==
    ASSUME TypeOK, SocketsNotShared, TimersMatchSessions,
           NEW F \in SUBSET Fds, NEW H,
           \A h \in Sessions : h \in H <=> registered[h] \in F,
           peer' = [f \in Fds |-> IF f \in F THEN NoHost ELSE peer[f]],
           timers' \in [Sessions -> SocketTimer],
           \A t \in Sessions : timers'[t].socket =
              IF timers[t].socket \in F THEN NoFd ELSE timers[t].socket,
           FreeHandles(H)
    PROVE  /\ peer' \in [Fds -> Hosts \cup {NoHost}]
           /\ registered' \in [Sessions -> Fds \cup {NoFd}]
           /\ SocketsNotShared'
           /\ TimersMatchSessions'
<1> USE EncapAssumption
<1>1. \A h \in Sessions : registered'[h] = IF registered[h] \in F THEN NoFd ELSE registered[h]
  BY DEF FreeHandles
<1>2. /\ peer' \in [Fds -> Hosts \cup {NoHost}]
      /\ registered' \in [Sessions -> Fds \cup {NoFd}]
  BY DEF TypeOK, FreeHandles
<1>3. \A h \in Sessions : registered'[h] # NoFd => registered'[h] \in Fds \ F /\ registered'[h] = registered[h]
  BY <1>1, <1>2
<1>4. SocketsNotShared'
  BY <1>1, <1>3 DEF SocketsNotShared
<1>5. TimersMatchSessions'
  BY <1>1, <1>3 DEF TimersMatchSessions
<1> QED
  BY <1>2, <1>4, <1>5

(* CloseConnection for any set of pool entries keeps the pool and the list *)
(* of active connections consistent.                                       *)
LEMMA ConnectionsClosed ==
    ASSUME TypeOK, PoolMatchesList, TriadsUnique, NEW V, CloseConnections(V)
    PROVE  /\ pool' \in [Slots -> Class3Connection \cup {NoConn}]
           /\ list' \in ListOf(Slots)
           /\ PoolMatchesList'
           /\ TriadsUnique'
<1>1. list' \in ListOf(Slots) /\ list'.members = list.members \ V
  BY RemoveAllIsList DEF TypeOK, CloseConnections
<1>2. pool' \in [Slots -> Class3Connection \cup {NoConn}]
  BY DEF TypeOK, CloseConnections
<1>3. \A s \in Slots : pool'[s] = IF s \in V THEN NoConn ELSE pool[s]
  BY DEF CloseConnections
<1>4. list.members \subseteq Slots
  BY DEF TypeOK, ListOf
<1>5. PoolMatchesList'
  BY <1>1, <1>3 DEF PoolMatchesList
<1>6. TriadsUnique'
  BY <1>1, <1>3, <1>4 DEF TriadsUnique
<1> QED
  BY <1>1, <1>2, <1>5, <1>6

(* A message that only refreshes the timer of its socket.                  *)
LEMMA TouchedTimers ==
    ASSUME TypeOK, NEW f \in Fds
    PROVE  /\ Touched(f) \in [Sessions -> SocketTimer]
           /\ \A t \in Sessions : Touched(f)[t].socket = timers[t].socket
<1> USE EncapAssumption
<1>1. \A t \in Sessions : timers[t] \in SocketTimer
  BY DEF TypeOK
<1>2. \A t \in Sessions : [timers[t] EXCEPT !.idle = 0] \in SocketTimer
                          /\ [timers[t] EXCEPT !.idle = 0].socket = timers[t].socket
  BY <1>1 DEF SocketTimer
<1> QED
  BY <1>1, <1>2 DEF Touched

(* Clearing the timers of the sockets in F.                                *)
LEMMA ClearedTimers ==
    ASSUME TypeOK, NEW F \in SUBSET Fds, CloseTcpSockets(F)
    PROVE  /\ timers' \in [Sessions -> SocketTimer]
           /\ \A t \in Sessions : timers'[t].socket =
                IF timers[t].socket \in F THEN NoFd ELSE timers[t].socket
<1> USE EncapAssumption
<1>1. \A t \in Sessions : timers[t] \in SocketTimer
  BY DEF TypeOK
<1>2. EmptyTimer \in SocketTimer /\ EmptyTimer.socket = NoFd
  BY DEF EmptyTimer, SocketTimer
<1> HIDE DEF EmptyTimer
<1> QED
  BY <1>1, <1>2 DEF CloseTcpSockets

(* RegisterSession: while a session is free, a timer is free too.  Were    *)
(* every timer taken, mapping a timer to the session of its socket would   *)
(* put as many timers as there are sessions into fewer sessions.           *)
LEMMA FreeTimerExists ==
    ASSUME TypeOK, TimersMatchSessions, FreeSessions # {}
    PROVE  EmptyTimers # {}
<1> USE EncapAssumption
<1> SUFFICES ASSUME EmptyTimers = {} PROVE FALSE
  OBVIOUS
<1>1. PICK free \in Sessions : registered[free] = NoFd
  BY DEF FreeSessions
<1>2. \A t \in Sessions : timers[t].socket \in Fds
  BY DEF EmptyTimers, TypeOK, SocketTimer
<1>3. \A t \in Sessions : \E h \in Sessions \ {free} : registered[h] = timers[t].socket
  BY <1>1, <1>2 DEF TimersMatchSessions
<1> DEFINE g == [t \in Sessions |-> CHOOSE h \in Sessions \ {free} : registered[h] = timers[t].socket]
<1>4. /\ g \in [Sessions -> Sessions \ {free}]
      /\ \A t \in Sessions : registered[g[t]] = timers[t].socket
  BY <1>3
<1> HIDE DEF g
<1>5. IsFiniteSet(Sessions)
  BY FS_Interval DEF Sessions
<1>6. /\ IsFiniteSet(Sessions \ {free})
      /\ Cardinality(Sessions \ {free}) = Cardinality(Sessions) - 1
  BY <1>5, FS_RemoveElement
<1>7. Cardinality(Sessions) \in Nat
  BY <1>5, FS_CardinalityType
<1>8. Cardinality(Sessions \ {free}) < Cardinality(Sessions)
  BY <1>6, <1>7
<1>9. PICK t, u \in Sessions : t # u /\ g[t] = g[u]
  BY <1>4, <1>5, <1>6, <1>8, FS_PigeonHole
<1>10. timers[t].socket = timers[u].socket
  BY <1>4, <1>9
<1> QED
  BY <1>2, <1>9, <1>10 DEF TimersMatchSessions

-----------------------------------------------------------------------------
(* The first state: every table is empty.                                  *)
THEOREM InitIInv == Init => IInv
<1> USE EncapAssumption
<1> SUFFICES ASSUME Init PROVE IInv
  OBVIOUS
<1>1. EmptyTimer \in SocketTimer /\ EmptyTimer.socket = NoFd
  BY DEF EmptyTimer, SocketTimer
<1>2. EmptyList \in ListOf(Slots) /\ EmptyList.members = {}
  BY DEF EmptyList, ListOf
<1> HIDE DEF EmptyTimer, EmptyList
<1>3. TypeOK
  BY <1>1, <1>2 DEF Init, TypeOK
<1>4. SocketsNotShared
  BY DEF Init, SocketsNotShared
<1>5. TimersMatchSessions
  BY <1>1 DEF Init, TimersMatchSessions
<1>6. RegistrationFindsTimer
  BY DEF Init, RegistrationFindsTimer
<1>7. PoolMatchesList /\ TriadsUnique
  BY <1>2 DEF Init, PoolMatchesList, TriadsUnique
<1> QED
  BY <1>3, <1>4, <1>5, <1>6, <1>7 DEF IInv

(* The session half of the invariant: what it says of peer, registered and *)
(* timers.                                                                 *)
SessionInv ==
    /\ peer \in [Fds -> Hosts \cup {NoHost}]
    /\ registered \in [Sessions -> Fds \cup {NoFd}]
    /\ timers \in [Sessions -> SocketTimer]
    /\ SocketsNotShared
    /\ TimersMatchSessions

(* The connection half: what it says of pool and list.                     *)
ConnectionInv ==
    /\ pool \in [Slots -> Class3Connection \cup {NoConn}]
    /\ list \in ListOf(Slots)
    /\ PoolMatchesList
    /\ TriadsUnique

StatusInv ==
    /\ status \in {"running", "hung", "crashed", "aborted", "stopped"}
    /\ RegistrationFindsTimer

(* No session depends on who is at the other end of a socket.              *)
LEMMA PeerChanged ==
    ASSUME SessionInv, peer' \in [Fds -> Hosts \cup {NoHost}], UNCHANGED <<registered, timers>>
    PROVE  SessionInv'
BY DEF SessionInv, SocketsNotShared, TimersMatchSessions

(* A message on f that changes no session.                                 *)
LEMMA TouchedSessions ==
    ASSUME SessionInv, TypeOK, NEW f \in Fds, timers' = Touched(f),
           UNCHANGED <<peer, registered>>
    PROVE  SessionInv'
<1>1. /\ timers' \in [Sessions -> SocketTimer]
      /\ \A t \in Sessions : timers'[t].socket = timers[t].socket
  BY TouchedTimers
<1>2. SocketsNotShared'
  BY DEF SessionInv, SocketsNotShared
<1>3. TimersMatchSessions'
  BY <1>1 DEF SessionInv, TimersMatchSessions
<1> QED
  BY <1>1, <1>2, <1>3 DEF SessionInv

(* CloseTcpSocket of the sockets in F with the sessions that use them.     *)
LEMMA SocketsClosed ==
    ASSUME SessionInv, TypeOK, NEW F \in SUBSET Fds, NEW H,
           \A h \in Sessions : h \in H <=> registered[h] \in F,
           CloseTcpSockets(F), FreeHandles(H)
    PROVE  SessionInv'
<1>1. /\ timers' \in [Sessions -> SocketTimer]
      /\ \A t \in Sessions : timers'[t].socket =
           IF timers[t].socket \in F THEN NoFd ELSE timers[t].socket
  BY ClearedTimers
<1>2. peer' = [f \in Fds |-> IF f \in F THEN NoHost ELSE peer[f]]
  BY DEF CloseTcpSockets
<1> QED
  BY <1>1, <1>2, SessionsClosed DEF SessionInv

(* CloseTcpSocket and RemoveSession of one open socket f.                  *)
LEMMA SocketAndSessionClosed ==
    ASSUME SessionInv, ConnectionInv, TypeOK, NEW f \in Fds, NEW A,
           CloseSocketAndSession(f, A)
    PROVE  SessionInv' /\ ConnectionInv'
<1> DEFINE H == {h \in Sessions : registered[h] = f}
<1> DEFINE V == A \cup UNION {Class3ConnectionBasedOnSession(h) : h \in H}
<1>1. CloseTcpSockets({f}) /\ FreeHandles(H) /\ CloseConnections(V)
  BY DEF CloseSocketAndSession
<1>2. \A h \in Sessions : h \in H <=> registered[h] \in {f}
  OBVIOUS
<1>3. {f} \in SUBSET Fds
  OBVIOUS
<1> HIDE DEF H, V
<1>4. SessionInv'
  BY <1>1, <1>2, <1>3, SocketsClosed
<1>5. ConnectionInv'
  BY <1>1, ConnectionsClosed DEF ConnectionInv
<1> QED
  BY <1>4, <1>5

(* RegisterSession takes a free session and a free timer, which exist      *)
(* together.                                                               *)
LEMMA SessionRegistered ==
    ASSUME SessionInv, TypeOK, NEW f \in Fds, HandleReceivedRegisterSessionCommand(f)
    PROVE  SessionInv' /\ UNCHANGED status
<1> USE EncapAssumption
<1> DEFINE t0 == Min(EmptyTimers)
           h0 == Min(FreeSessions)
<1>1. EmptyTimers # {} /\ FreeSessions # {}
  BY FreeTimerExists DEF SessionInv, HandleReceivedRegisterSessionCommand
<1>2. EmptyTimers \in SUBSET Nat /\ FreeSessions \in SUBSET Nat
  BY DEF EmptyTimers, FreeSessions, Sessions
<1>3. t0 \in EmptyTimers /\ h0 \in FreeSessions
  BY <1>1, <1>2, MinInSet
<1> HIDE DEF t0, h0
<1>4. /\ t0 \in Sessions /\ timers[t0].socket = NoFd
      /\ h0 \in Sessions /\ registered[h0] = NoFd
  BY <1>3 DEF EmptyTimers, FreeSessions
<1>5. /\ timers' = [timers EXCEPT ![t0] = [socket |-> f, idle |-> 0]]
      /\ registered' = [registered EXCEPT ![h0] = f]
      /\ UNCHANGED <<peer, status>>
      /\ Open(f)
      /\ \A h \in Sessions : registered[h] # f
  BY <1>1 DEF HandleReceivedRegisterSessionCommand, t0, h0
<1>6. [socket |-> f, idle |-> 0] \in SocketTimer
  BY DEF SocketTimer
<1>7. /\ timers' \in [Sessions -> SocketTimer]
      /\ registered' \in [Sessions -> Fds \cup {NoFd}]
      /\ \A t \in Sessions : timers'[t].socket = IF t = t0 THEN f ELSE timers[t].socket
      /\ \A h \in Sessions : registered'[h] = IF h = h0 THEN f ELSE registered[h]
  BY <1>4, <1>5, <1>6 DEF SessionInv
<1>8. \A t \in Sessions : timers[t].socket # f
  BY <1>5 DEF SessionInv, TimersMatchSessions
<1>9. SocketsNotShared'
  BY <1>4, <1>5, <1>7 DEF SessionInv, SocketsNotShared
<1>10. TimersMatchSessions'
  BY <1>4, <1>5, <1>7, <1>8 DEF SessionInv, TimersMatchSessions
<1> QED
  BY <1>5, <1>7, <1>9, <1>10 DEF SessionInv

(* UnRegisterSession closes the session's socket; a message on another     *)
(* socket refreshes that one's timer as well.                              *)
LEMMA SessionUnregistered ==
    ASSUME SessionInv, TypeOK, NEW f \in Fds, NEW h \in Sessions,
           HandleReceivedUnregisterSessionCommand(f, h)
    PROVE  SessionInv'
<1> USE EncapAssumption
<1> DEFINE F == {registered[h]}
<1>1. registered[h] \in Fds /\ F \in SUBSET Fds
  BY DEF SessionInv, HandleReceivedUnregisterSessionCommand
<1>2. \A g \in Sessions : g \in {h} <=> registered[g] \in F
  BY <1>1 DEF SessionInv, SocketsNotShared
<1>3. peer' = [g \in Fds |-> IF g \in F THEN NoHost ELSE peer[g]]
  BY <1>1 DEF SessionInv, HandleReceivedUnregisterSessionCommand
<1>4. /\ Touched(f) \in [Sessions -> SocketTimer]
      /\ \A t \in Sessions : Touched(f)[t].socket = timers[t].socket
  BY TouchedTimers
<1>5. EmptyTimer \in SocketTimer /\ EmptyTimer.socket = NoFd
  BY DEF EmptyTimer, SocketTimer
<1>6. timers' = [t \in Sessions |->
                    IF timers[t].socket \in F THEN EmptyTimer ELSE Touched(f)[t]]
  BY DEF HandleReceivedUnregisterSessionCommand
<1> HIDE DEF EmptyTimer, F
<1>7. /\ timers' \in [Sessions -> SocketTimer]
      /\ \A t \in Sessions : timers'[t].socket =
           IF timers[t].socket \in F THEN NoFd ELSE timers[t].socket
  BY <1>4, <1>5, <1>6
<1>8. FreeHandles({h})
  BY DEF HandleReceivedUnregisterSessionCommand
<1> QED
  BY <1>1, <1>2, <1>3, <1>7, <1>8, SessionsClosed DEF SessionInv

(* The time that passes between two cycles.                                *)
LEMMA TimePasses ==
    ASSUME SessionInv, TypeOK, Tick
    PROVE  SessionInv'
<1> USE EncapAssumption
<1>1. \A t \in Sessions : timers[t] \in SocketTimer
  BY DEF TypeOK
<1>2. ASSUME NEW t \in Sessions, timers[t].idle < InactivityTimeout
      PROVE  /\ [timers[t] EXCEPT !.idle = @ + 1] \in SocketTimer
             /\ [timers[t] EXCEPT !.idle = @ + 1].socket = timers[t].socket
  BY <1>1, <1>2 DEF SocketTimer
<1>3. timers' = [t \in Sessions |->
                    IF timers[t].socket # NoFd /\ timers[t].idle < InactivityTimeout
                    THEN [timers[t] EXCEPT !.idle = @ + 1] ELSE timers[t]]
  BY DEF Tick
<1>4. ASSUME NEW t \in Sessions
      PROVE  timers'[t] \in SocketTimer /\ timers'[t].socket = timers[t].socket
  BY <1>1, <1>2, <1>3
<1>5. timers' \in [Sessions -> SocketTimer]
  BY <1>3, <1>4
<1>6. UNCHANGED <<peer, registered>>
  BY DEF Tick
<1>7. SocketsNotShared'
  BY <1>6 DEF SessionInv, SocketsNotShared
<1>8. TimersMatchSessions'
  BY <1>4, <1>6 DEF SessionInv, TimersMatchSessions
<1> QED
  BY <1>5, <1>6, <1>7, <1>8 DEF SessionInv

(* A Forward Open puts a free pool entry at the head of the list, with a   *)
(* triad that no active connection has.                                    *)
LEMMA ConnectionEstablished ==
    ASSUME TypeOK, ConnectionInv, NEW f \in Fds, NEW h \in Sessions,
           NEW o \in Originators, NEW n \in Serials,
           EstablishClass3Connection(f, h, o, n)
    PROVE  ConnectionInv'
<1> USE EncapAssumption
<1> DEFINE s0 == Min(FreeSlots)
           c == [orig |-> o, serial |-> n, addr |-> peer[f], sess |-> h]
<1>1. FreeSlots # {} /\ FreeSlots \in SUBSET Nat
  BY DEF EstablishClass3Connection, FreeSlots, Slots
<1>2. s0 \in Slots /\ pool[s0] = NoConn
  BY <1>1, MinInSet DEF FreeSlots
<1>3. /\ pool' = [pool EXCEPT ![s0] = c]
      /\ list' = InsertAtHead(list, s0)
      /\ \A s \in list.members : pool[s].orig # o \/ pool[s].serial # n
      /\ peer[f] \in Hosts
  BY DEF EstablishClass3Connection, Open, TypeOK
<1> HIDE DEF s0
<1>4. c \in Class3Connection /\ c.orig = o /\ c.serial = n
  BY <1>3 DEF Class3Connection
<1> HIDE DEF c
<1>5. s0 \notin list.members /\ list.members \subseteq Slots
  BY <1>2 DEF ConnectionInv, PoolMatchesList
<1>6. list' \in ListOf(Slots)
  BY <1>2, <1>3, <1>5, InsertAtHeadIsList DEF ConnectionInv
<1>7. list'.members = list.members \cup {s0}
  BY <1>3 DEF InsertAtHead
<1>8. pool' \in [Slots -> Class3Connection \cup {NoConn}]
  BY <1>2, <1>3, <1>4 DEF ConnectionInv
<1>9. \A s \in Slots : pool'[s] = IF s = s0 THEN c ELSE pool[s]
  BY <1>2, <1>3 DEF ConnectionInv
<1>10. PoolMatchesList'
  BY <1>2, <1>4, <1>7, <1>9 DEF ConnectionInv, PoolMatchesList
<1>11. TriadsUnique'
  BY <1>2, <1>3, <1>4, <1>5, <1>7, <1>9 DEF ConnectionInv, TriadsUnique
<1> QED
  BY <1>6, <1>8, <1>10, <1>11 DEF ConnectionInv

-----------------------------------------------------------------------------
(* Every handler of the stack, and every step that leaves its state alone, *)
(* keeps the invariant.                                                    *)
THEOREM NextIInv == IInv /\ [Next]_vars => IInv'
<1> USE EncapAssumption
<1> SUFFICES ASSUME IInv, [Next]_vars PROVE IInv'
  OBVIOUS
<1>0. SessionInv' /\ ConnectionInv' /\ StatusInv' => IInv'
  BY DEF IInv, TypeOK, SessionInv, ConnectionInv, StatusInv
<1>1. TypeOK /\ SessionInv /\ ConnectionInv /\ StatusInv
  BY DEF IInv, TypeOK, SessionInv, ConnectionInv, StatusInv
<1>2. ASSUME Running, UNCHANGED status PROVE StatusInv'
  BY <1>2 DEF Running, StatusInv, RegistrationFindsTimer
<1>3. ASSUME UNCHANGED <<peer, registered, timers>> PROVE SessionInv'
  BY <1>1, <1>3 DEF SessionInv, SocketsNotShared, TimersMatchSessions
<1>4. ASSUME UNCHANGED <<pool, list>> PROVE ConnectionInv'
  BY <1>1, <1>4 DEF ConnectionInv, PoolMatchesList, TriadsUnique
<1>5. ASSUME NEW V, CloseConnections(V) PROVE ConnectionInv'
  BY <1>1, <1>5, ConnectionsClosed DEF ConnectionInv
<1>6. ASSUME UNCHANGED vars PROVE IInv'
  <2>1. StatusInv'
    BY <1>1, <1>6 DEF vars, StatusInv, RegistrationFindsTimer
  <2> QED
    BY <1>3, <1>4, <1>6, <2>1, <1>0 DEF vars
<1>7. ASSUME NEW f \in Fds, NEW a \in Hosts, CheckAndHandleTcpListenerSocket(f, a)
      PROVE  IInv'
  <2>1. UNCHANGED <<registered, timers, pool, list>>
    BY <1>7 DEF CheckAndHandleTcpListenerSocket
  <2>2. SessionInv'
    <3>1. CASE UNCHANGED peer
      BY <1>3, <2>1, <3>1
    <3>2. CASE peer' = [peer EXCEPT ![f] = a]
      BY <1>1, <2>1, <3>2, PeerChanged DEF SessionInv
    <3> QED
      BY <1>7, <3>1, <3>2 DEF CheckAndHandleTcpListenerSocket
  <2>3. StatusInv'
    <3>1. Running /\ (UNCHANGED status \/ status' = "aborted")
      BY <1>7 DEF CheckAndHandleTcpListenerSocket
    <3>2. CASE status' = "aborted"
      BY <3>2 DEF StatusInv, RegistrationFindsTimer
    <3> QED
      BY <1>2, <3>1, <3>2
  <2> QED
    BY <1>4, <2>1, <2>2, <2>3, <1>0
<1>8. ASSUME NEW f \in Fds, HandleDataOnTcpSocket(f) PROVE IInv'
  <2>1. /\ Running /\ timers' = Touched(f)
        /\ UNCHANGED <<peer, registered, pool, list, status>>
    BY <1>8 DEF HandleDataOnTcpSocket
  <2> QED
    BY <1>1, <1>2, <1>4, <2>1, TouchedSessions, <1>0
<1>9. ASSUME NEW f \in Fds, HandleReceivedRegisterSessionCommand(f) PROVE IInv'
  <2>1. Running /\ UNCHANGED <<pool, list>>
    BY <1>9 DEF HandleReceivedRegisterSessionCommand
  <2> QED
    BY <1>1, <1>2, <1>4, <1>9, <2>1, SessionRegistered, <1>0
<1>10. ASSUME NEW f \in Fds, NEW h \in Sessions, HandleReceivedUnregisterSessionCommand(f, h)
       PROVE  IInv'
  <2>1. /\ Running /\ UNCHANGED status
        /\ CloseConnections(Class3ConnectionBasedOnSession(h))
    BY <1>10 DEF HandleReceivedUnregisterSessionCommand
  <2> QED
    BY <1>1, <1>2, <1>5, <1>10, <2>1, SessionUnregistered, <1>0
<1>11. ASSUME NEW f \in Fds, NEW h \in Sessions, NEW o \in Originators, NEW n \in Serials,
              EstablishClass3Connection(f, h, o, n)
       PROVE  IInv'
  <2>1. /\ Running /\ timers' = Touched(f)
        /\ UNCHANGED <<peer, registered, status>>
    BY <1>11 DEF EstablishClass3Connection
  <2> QED
    BY <1>1, <1>2, <1>11, <2>1, TouchedSessions, ConnectionEstablished, <1>0
<1>12. ASSUME NEW f \in Fds, NEW h \in Sessions, NEW o \in Originators, NEW n \in Serials,
              ForwardClose(f, h, o, n)
       PROVE  IInv'
  <2>1. /\ Running /\ timers' = Touched(f)
        /\ UNCHANGED <<peer, registered, status>>
        /\ \E V : CloseConnections(V)
    BY <1>12 DEF ForwardClose
  <2> QED
    BY <1>1, <1>2, <1>5, <2>1, TouchedSessions, <1>0
<1>13. ASSUME NEW f \in Fds, ConnectionClosedByClient(f) PROVE IInv'
  <2>1. Running /\ UNCHANGED status /\ CloseSocketAndSession(f, {})
    BY <1>13 DEF ConnectionClosedByClient
  <2> QED
    BY <1>1, <1>2, <2>1, SocketAndSessionClosed, <1>0
<1>14. ASSUME NEW f \in Fds, CheckEncapsulationInactivity(f) PROVE IInv'
  <2> DEFINE A == Class3ConnectionBasedOnSession(GetSessionFromSocket(f))
  <2>1. Running /\ UNCHANGED status /\ CloseSocketAndSession(f, A)
    BY <1>14 DEF CheckEncapsulationInactivity
  <2> HIDE DEF A
  <2> QED
    BY <1>1, <1>2, <2>1, SocketAndSessionClosed, <1>0
<1>15. ASSUME Tick PROVE IInv'
  <2>1. Running /\ UNCHANGED <<pool, list, status>>
    BY <1>15 DEF Tick
  <2> QED
    BY <1>1, <1>2, <1>4, <1>15, <2>1, TimePasses, <1>0
<1>16. ASSUME NEW s \in Slots, NEW othersAlive \in BOOLEAN,
              Class3ConnectionTimeoutHandler(s, othersAlive)
       PROVE  IInv'
  <2> DEFINE h == pool[s].sess
  <2>1. Running /\ s \in list.members
    BY <1>16 DEF Class3ConnectionTimeoutHandler
  <2>2. pool[s] \in Class3Connection
    BY <1>1, <2>1 DEF ConnectionInv, PoolMatchesList
  <2>3. h \in Sessions
    BY <2>2 DEF Class3Connection
  <2>4. CASE CloseConnections({s}) /\ UNCHANGED <<peer, registered, timers, status>>
    BY <1>2, <1>3, <1>5, <2>1, <2>4, <1>0
  <2>5. CASE /\ registered[h] # NoFd
             /\ CloseTcpSockets({registered[h]})
             /\ FreeHandles({h})
             /\ CloseConnections({s})
             /\ UNCHANGED status
    <3> HIDE DEF h
    <3>1. {registered[h]} \in SUBSET Fds
      BY <1>1, <2>3, <2>5 DEF SessionInv
    <3>2. \A g \in Sessions : g \in {h} <=> registered[g] \in {registered[h]}
      BY <1>1, <2>3, <2>5 DEF SessionInv, SocketsNotShared
    <3>3. SessionInv'
      BY <1>1, <2>5, <3>1, <3>2, SocketsClosed
    <3> QED
      BY <1>2, <1>5, <2>1, <2>5, <3>3, <1>0
  <2>6. CASE /\ registered[h] = NoFd /\ status' = "hung"
             /\ UNCHANGED <<peer, registered, timers, pool, list>>
    <3>1. StatusInv'
      BY <2>1, <2>6 DEF StatusInv, RegistrationFindsTimer
    <3> QED
      BY <1>3, <1>4, <2>6, <3>1, <1>0
  <2> QED
    BY <1>16, <2>4, <2>5, <2>6 DEF Class3ConnectionTimeoutHandler
<1>17. ASSUME NEW a \in Hosts, NEW H \in SUBSET Sessions,
              CloseEncapsulationSessionBySockAddr(a, H)
       PROVE  IInv'
  <2> DEFINE F == {registered[h] : h \in H}
  <2>1. /\ Running /\ UNCHANGED status
        /\ \A h \in H : registered[h] # NoFd
        /\ CloseTcpSockets(F)
        /\ FreeHandles(H)
        /\ \E V : CloseConnections(V)
    BY <1>17 DEF CloseEncapsulationSessionBySockAddr
  <2>2. F \in SUBSET Fds
    BY <1>1, <2>1 DEF SessionInv
  <2>3. \A g \in Sessions : g \in H <=> registered[g] \in F
    BY <1>1, <2>1 DEF SessionInv, SocketsNotShared
  <2> HIDE DEF F
  <2>4. SessionInv'
    BY <1>1, <2>1, <2>2, <2>3, SocketsClosed
  <2> QED
    BY <1>2, <1>5, <2>1, <2>4, <1>0
<1>18. ASSUME ShutdownCipStack PROVE IInv'
  <2> DEFINE F == {registered[h] : h \in Sessions} \ {NoFd}
             H == {h \in Sessions : registered[h] # NoFd}
  <2>1. /\ CloseConnections(list.members)
        /\ CloseTcpSockets(F)
        /\ FreeHandles(Sessions)
        /\ status' = "stopped"
    BY <1>18 DEF ShutdownCipStack
  <2>2. FreeHandles(H)
    BY <1>1, <2>1 DEF FreeHandles, SessionInv
  <2>3. F \in SUBSET Fds
    BY <1>1 DEF SessionInv
  <2>4. \A g \in Sessions : g \in H <=> registered[g] \in F
    OBVIOUS
  <2> HIDE DEF F, H
  <2>5. SessionInv'
    BY <1>1, <2>1, <2>2, <2>3, <2>4, SocketsClosed
  <2>6. StatusInv'
    BY <2>1 DEF StatusInv, RegistrationFindsTimer
  <2> QED
    BY <1>5, <2>1, <2>5, <2>6, <1>0
<1>19. ASSUME NEW f \in Fds, CloseUdpSocket(f) PROVE IInv'
  <2>1. /\ Running /\ peer' = [peer EXCEPT ![f] = NoHost]
        /\ UNCHANGED <<registered, timers, pool, list, status>>
    BY <1>19 DEF CloseUdpSocket
  <2>2. SessionInv'
    BY <1>1, <2>1, PeerChanged DEF SessionInv
  <2> QED
    BY <1>2, <1>4, <2>1, <2>2, <1>0
<1>20. ASSUME Halted PROVE IInv'
  BY <1>6, <1>20 DEF Halted
<1> QED
  BY <1>6, <1>7, <1>8, <1>9, <1>10, <1>11, <1>12, <1>13, <1>14, <1>15, <1>16, <1>17,
     <1>18, <1>19, <1>20 DEF Next, TcpRequest

-----------------------------------------------------------------------------
(* Every reachable state satisfies the inductive invariant.                *)
THEOREM Invariance == Spec => []IInv
BY InitIInv, NextIInv, PTL DEF Spec

(* TypeOK for every value of the constants: the tables keep their lengths  *)
(* and connection_list stays a linear order of pool entries.               *)
THEOREM TypeCorrect == Spec => []TypeOK
BY Invariance, PTL DEF IInv

(* No two handles name one socket, not even when accept gives the number   *)
(* of a session that lost its socket to another client.                    *)
THEOREM SessionsCorrect == Spec => []SocketsNotShared
BY Invariance, PTL DEF IInv

(* Exactly the sockets of the registered sessions have a timer, one each.  *)
THEOREM TimersCorrect == Spec => []TimersMatchSessions
BY Invariance, PTL DEF IInv

(* RegisterSession never writes through a NULL timer although it does not  *)
(* test the pointer, however many clients and sessions there are.          *)
THEOREM RegistrationSafe == Spec => []RegistrationFindsTimer
BY Invariance, PTL DEF IInv

(* The pool of class 3 connections and connection_list agree.              *)
THEOREM ConnectionsCorrect == Spec => []PoolMatchesList
BY Invariance, PTL DEF IInv

(* Forward Open never makes a second connection of an active triad.        *)
THEOREM TriadsCorrect == Spec => []TriadsUnique
BY Invariance, PTL DEF IInv

(* What SessionEndsWithSocket says of session h.                           *)
EndsWithSocket(h) ==
    /\ registered[h] # NoFd /\ registered'[h] # registered[h]
          => registered'[h] = NoFd /\ peer'[registered[h]] = NoHost
    /\ registered[h] # NoFd /\ Open(registered[h]) /\ peer'[registered[h]] = NoHost
          => registered'[h] = NoFd \/ CloseUdpSocket(registered[h])

(* Closing the sockets in F while freeing exactly the handles that name    *)
(* one of them.                                                            *)
LEMMA SocketsAndHandlesEnd ==
    ASSUME TypeOK, NEW F, NEW H, FreeHandles(H),
           peer' = [f \in Fds |-> IF f \in F THEN NoHost ELSE peer[f]],
           \A g \in Sessions : registered[g] # NoFd => (g \in H <=> registered[g] \in F),
           NEW h \in Sessions
    PROVE  EndsWithSocket(h)
<1> SUFFICES ASSUME registered[h] # NoFd
             PROVE  /\ registered'[h] # registered[h]
                          => registered'[h] = NoFd /\ peer'[registered[h]] = NoHost
                    /\ Open(registered[h]) /\ peer'[registered[h]] = NoHost
                          => registered'[h] = NoFd
  BY DEF EndsWithSocket
<1>1. registered[h] \in Fds
  BY DEF TypeOK
<1>2. h \in H <=> registered[h] \in F
  OBVIOUS
<1>3. registered'[h] = IF h \in H THEN NoFd ELSE registered[h]
  BY DEF FreeHandles
<1>4. peer'[registered[h]] = IF registered[h] \in F THEN NoHost ELSE peer[registered[h]]
  BY <1>1
<1> QED
  BY <1>2, <1>3, <1>4 DEF Open

(* SessionEndsWithSocket for every value of the constants.  It needs       *)
(* SocketsNotShared: a second handle on a closed socket would outlive it.  *)
THEOREM SessionsEnd == Spec => SessionEndsWithSocket
<1> USE EncapAssumption
<1>1. ASSUME IInv, [Next]_vars, NEW h \in Sessions PROVE EndsWithSocket(h)
  <2>1. TypeOK /\ SocketsNotShared
    BY <1>1 DEF IInv
  <2>2. ASSUME NEW f \in Fds, NEW A, CloseSocketAndSession(f, A) PROVE EndsWithSocket(h)
    <3> DEFINE H == {g \in Sessions : registered[g] = f}
    <3>1. /\ FreeHandles(H)
          /\ peer' = [g \in Fds |-> IF g \in {f} THEN NoHost ELSE peer[g]]
      BY <2>2 DEF CloseSocketAndSession, CloseTcpSockets
    <3>2. \A g \in Sessions : registered[g] # NoFd => (g \in H <=> registered[g] \in {f})
      OBVIOUS
    <3> HIDE DEF H
    <3> QED
      BY <2>1, <3>1, <3>2, SocketsAndHandlesEnd
  <2>3. ASSUME NEW f \in Fds, HandleReceivedRegisterSessionCommand(f) PROVE EndsWithSocket(h)
    <3>1. FreeSessions # {} /\ FreeSessions \in SUBSET Nat /\ UNCHANGED peer
      BY <2>3 DEF HandleReceivedRegisterSessionCommand, FreeSessions, Sessions
    <3>2. registered[Min(FreeSessions)] = NoFd /\ Min(FreeSessions) \in Sessions
      BY <3>1, MinInSet DEF FreeSessions
    <3>3. \/ UNCHANGED registered
          \/ registered' = [registered EXCEPT ![Min(FreeSessions)] = f]
      BY <2>3 DEF HandleReceivedRegisterSessionCommand
    <3> HIDE DEF FreeSessions
    <3>4. registered[h] # NoFd => registered'[h] = registered[h]
      BY <2>1, <3>2, <3>3 DEF TypeOK
    <3> QED
      BY <3>1, <3>4 DEF EndsWithSocket, Open
  <2>4. ASSUME NEW G \in SUBSET Sessions, NEW F, FreeHandles(G),
               \A g \in G : registered[g] # NoFd,
               F = {registered[g] : g \in G},
               peer' = [f \in Fds |-> IF f \in F THEN NoHost ELSE peer[f]]
        PROVE  EndsWithSocket(h)
    <3>1. \A g \in Sessions : registered[g] # NoFd => (g \in G <=> registered[g] \in F)
      BY <2>1, <2>4 DEF SocketsNotShared
    <3> QED
      BY <2>1, <2>4, <3>1, SocketsAndHandlesEnd
  <2>5. ASSUME NEW f \in Fds, NEW g \in Sessions, HandleReceivedUnregisterSessionCommand(f, g)
        PROVE  EndsWithSocket(h)
    <3> DEFINE F == {registered[k] : k \in {g}}
    <3>1. /\ FreeHandles({g})
          /\ registered[g] # NoFd
          /\ peer' = [peer EXCEPT ![registered[g]] = NoHost]
      BY <2>5 DEF HandleReceivedUnregisterSessionCommand
    <3>2. peer' = [k \in Fds |-> IF k \in F THEN NoHost ELSE peer[k]]
      BY <2>1, <3>1 DEF TypeOK
    <3> HIDE DEF F
    <3>3. F = {registered[k] : k \in {g}} /\ {g} \in SUBSET Sessions
      BY DEF F
    <3> QED
      BY <2>4, <3>1, <3>2, <3>3
  <2>6. ASSUME NEW s \in Slots, NEW othersAlive \in BOOLEAN,
               Class3ConnectionTimeoutHandler(s, othersAlive)
        PROVE  EndsWithSocket(h)
    <3>1. CASE UNCHANGED <<peer, registered>>
      BY <3>1 DEF EndsWithSocket, Open
    <3>2. CASE ~UNCHANGED <<peer, registered>>
      <4> DEFINE g == pool[s].sess
                 F == {registered[k] : k \in {g}}
      <4>1. /\ FreeHandles({g}) /\ registered[g] # NoFd
            /\ peer' = [k \in Fds |-> IF k \in F THEN NoHost ELSE peer[k]]
        BY <2>6, <3>2 DEF Class3ConnectionTimeoutHandler, CloseTcpSockets
      <4>2. s \in list.members /\ PoolMatchesList
        BY <1>1, <2>6 DEF Class3ConnectionTimeoutHandler, IInv
      <4>3. g \in Sessions
        BY <2>1, <4>2 DEF TypeOK, PoolMatchesList, Class3Connection
      <4> HIDE DEF g
      <4>4. F = {registered[k] : k \in {g}} /\ {g} \in SUBSET Sessions
        BY <4>3 DEF F
      <4> QED
        BY <2>4, <4>1, <4>4
    <3> QED
      BY <3>1, <3>2
  <2>7. ASSUME NEW a \in Hosts, NEW H \in SUBSET Sessions,
               CloseEncapsulationSessionBySockAddr(a, H)
        PROVE  EndsWithSocket(h)
    <3> DEFINE F == {registered[g] : g \in H}
    <3>1. /\ FreeHandles(H)
          /\ \A g \in H : registered[g] # NoFd
          /\ peer' = [k \in Fds |-> IF k \in F THEN NoHost ELSE peer[k]]
      BY <2>7 DEF CloseEncapsulationSessionBySockAddr, CloseTcpSockets
    <3> QED
      BY <2>4, <3>1
  <2>8. ASSUME ShutdownCipStack PROVE EndsWithSocket(h)
    <3> DEFINE F == {registered[g] : g \in Sessions} \ {NoFd}
    <3>1. /\ FreeHandles(Sessions)
          /\ peer' = [k \in Fds |-> IF k \in F THEN NoHost ELSE peer[k]]
      BY <2>8 DEF ShutdownCipStack, CloseTcpSockets
    <3>2. \A g \in Sessions : registered[g] # NoFd => (g \in Sessions <=> registered[g] \in F)
      OBVIOUS
    <3> HIDE DEF F
    <3> QED
      BY <2>1, <3>1, <3>2, SocketsAndHandlesEnd
  <2>9. ASSUME NEW f \in Fds, ConnectionClosedByClient(f) \/ CheckEncapsulationInactivity(f)
        PROVE  \E A : CloseSocketAndSession(f, A)
    BY <2>9 DEF ConnectionClosedByClient, CheckEncapsulationInactivity
  <2>10. ASSUME NEW f \in Fds, CloseUdpSocket(f) PROVE EndsWithSocket(h)
    <3>1. UNCHANGED registered /\ peer' = [peer EXCEPT ![f] = NoHost]
      BY <2>10 DEF CloseUdpSocket
    <3>2. CASE registered[h] = f
      BY <2>10, <3>1, <3>2 DEF EndsWithSocket
    <3>3. CASE registered[h] # f
      BY <2>1, <3>1, <3>3 DEF EndsWithSocket, Open, TypeOK
    <3> QED
      BY <3>2, <3>3
  <2>11. ASSUME NEW f \in Fds, NEW a \in Hosts, CheckAndHandleTcpListenerSocket(f, a)
         PROVE  EndsWithSocket(h)
    <3>1. /\ UNCHANGED registered /\ ~Open(f)
          /\ UNCHANGED peer \/ peer' = [peer EXCEPT ![f] = a]
      BY <2>11 DEF CheckAndHandleTcpListenerSocket
    <3> QED
      BY <2>1, <3>1 DEF EndsWithSocket, Open, TypeOK
  <2>12. CASE UNCHANGED <<peer, registered>>
    BY <2>12 DEF EndsWithSocket, Open
  <2>13. ASSUME NEW f \in Fds, HandleDataOnTcpSocket(f) PROVE UNCHANGED <<peer, registered>>
    BY <2>13 DEF HandleDataOnTcpSocket
  <2>14. ASSUME NEW f \in Fds, NEW g \in Sessions, NEW o \in Originators, NEW n \in Serials,
                EstablishClass3Connection(f, g, o, n) \/ ForwardClose(f, g, o, n)
         PROVE  UNCHANGED <<peer, registered>>
    BY <2>14 DEF EstablishClass3Connection, ForwardClose
  <2>15. ASSUME Tick \/ Halted \/ UNCHANGED vars PROVE UNCHANGED <<peer, registered>>
    BY <2>15 DEF Tick, Halted, vars
  <2> QED
    BY <1>1, <2>2, <2>3, <2>5, <2>6, <2>7, <2>8, <2>9, <2>10, <2>11, <2>12, <2>13,
       <2>14, <2>15 DEF Next, TcpRequest
<1>2. ASSUME IInv, [Next]_vars PROVE [\A h \in Sessions : EndsWithSocket(h)]_vars
  BY <1>1, <1>2
<1>3. SessionEndsWithSocket <=> [][\A h \in Sessions : EndsWithSocket(h)]_vars
  BY PTL DEF SessionEndsWithSocket, EndsWithSocket
<1> QED
  BY Invariance, <1>2, <1>3, PTL DEF Spec

(* A connection that is the only one of its session is the one that        *)
(* CloseClass3ConnectionBasedOnSession finds.                              *)
LEMMA LoneConnectionFound ==
    ASSUME NEW s \in list.members, s # 0,
           \A t \in list.members \ {s} : pool[t].sess # pool[s].sess
    PROVE  Class3ConnectionBasedOnSession(pool[s].sess) = {s}
<1> DEFINE S == {t \in list.members : pool[t].sess = pool[s].sess}
<1>1. list.members \cap S = {s}
  OBVIOUS
<1>2. FirstIn(list, S, 0) = s
  BY <1>1 DEF FirstIn
<1> QED
  BY <1>2 DEF Class3ConnectionBasedOnSession

(* LoneConnectionEndsWithSession for every value of the constants.         *)
THEOREM LoneConnectionClosed == Spec => LoneConnectionEndsWithSession
<1> USE EncapAssumption
<1> DEFINE Step == \A s \in list.members :
              /\ registered[pool[s].sess] # NoFd /\ registered'[pool[s].sess] = NoFd
              /\ \A t \in list.members \ {s} : pool[t].sess # pool[s].sess
              => s \notin list'.members
<1>1. ASSUME IInv, [Next]_vars PROVE [Step]_vars
  <2>1. TypeOK /\ PoolMatchesList
    BY <1>1 DEF IInv
  <2> SUFFICES ASSUME NEW s \in list.members,
                      registered[pool[s].sess] # NoFd, registered'[pool[s].sess] = NoFd,
                      \A t \in list.members \ {s} : pool[t].sess # pool[s].sess
               PROVE  s \notin list'.members
    OBVIOUS
  <2> DEFINE h == pool[s].sess
  <2>2. s \in Slots /\ s # 0 /\ h \in Sessions
    BY <2>1 DEF TypeOK, PoolMatchesList, Class3Connection, Slots
  <2>3. Class3ConnectionBasedOnSession(h) = {s}
    BY <2>2, LoneConnectionFound
  <2>4. ASSUME NEW V, CloseConnections(V), s \in V PROVE s \notin list'.members
    BY <2>4 DEF CloseConnections, RemoveAll
  <2>5. ASSUME NEW H, FreeHandles(H) PROVE h \in H
    BY <2>2, <2>5 DEF FreeHandles
  <2> HIDE DEF h
  <2>6. ASSUME NEW f \in Fds, NEW A, CloseSocketAndSession(f, A) PROVE s \notin list'.members
    <3> DEFINE H == {g \in Sessions : registered[g] = f}
               V == A \cup UNION {Class3ConnectionBasedOnSession(g) : g \in H}
    <3>1. FreeHandles(H) /\ CloseConnections(V)
      BY <2>6 DEF CloseSocketAndSession
    <3>2. h \in H
      BY <2>5, <3>1
    <3>3. s \in V
      BY <2>3, <3>2
    <3> HIDE DEF V
    <3> QED
      BY <2>4, <3>1, <3>3
  <2>7. ASSUME NEW f \in Fds, NEW g \in Sessions, HandleReceivedUnregisterSessionCommand(f, g)
        PROVE  s \notin list'.members
    <3>1. FreeHandles({g}) /\ CloseConnections(Class3ConnectionBasedOnSession(g))
      BY <2>7 DEF HandleReceivedUnregisterSessionCommand
    <3>2. g = h
      BY <2>5, <3>1
    <3> QED
      BY <2>3, <2>4, <3>1, <3>2
  <2>8. ASSUME NEW t \in Slots, NEW othersAlive \in BOOLEAN,
               Class3ConnectionTimeoutHandler(t, othersAlive)
        PROVE  s \notin list'.members
    <3>1. /\ t \in list.members
          /\ FreeHandles({pool[t].sess}) /\ CloseConnections({t})
      BY <2>8 DEF Class3ConnectionTimeoutHandler, h
    <3>2. pool[t].sess = pool[s].sess
      BY <2>5, <3>1 DEF h
    <3>3. t = s
      BY <3>1, <3>2
    <3> QED
      BY <2>4, <3>1, <3>3
  <2>9. ASSUME NEW a \in Hosts, NEW H \in SUBSET Sessions,
               CloseEncapsulationSessionBySockAddr(a, H)
        PROVE  s \notin list'.members
    <3> DEFINE V == UNION {Class3ConnectionBasedOnSession(g) : g \in H}
    <3>1. FreeHandles(H) /\ CloseConnections(V)
      BY <2>9 DEF CloseEncapsulationSessionBySockAddr
    <3>2. s \in V
      BY <2>3, <2>5, <3>1
    <3> HIDE DEF V
    <3> QED
      BY <2>4, <3>1, <3>2
  <2>10. ASSUME ShutdownCipStack PROVE s \notin list'.members
    BY <2>4, <2>10 DEF ShutdownCipStack
  <2>11. ASSUME UNCHANGED registered PROVE FALSE
    BY <2>11
  <2>12. ASSUME NEW f \in Fds, HandleReceivedRegisterSessionCommand(f) PROVE FALSE
    BY <2>1, <2>2, <2>11, <2>12 DEF HandleReceivedRegisterSessionCommand, TypeOK, h
  <2>13. ASSUME NEW f \in Fds, ConnectionClosedByClient(f) \/ CheckEncapsulationInactivity(f)
         PROVE  \E A : CloseSocketAndSession(f, A)
    BY <2>13 DEF ConnectionClosedByClient, CheckEncapsulationInactivity
  <2>14. ASSUME NEW f \in Fds, NEW a \in Hosts, CheckAndHandleTcpListenerSocket(f, a)
         PROVE  UNCHANGED registered
    BY <2>14 DEF CheckAndHandleTcpListenerSocket
  <2>15. ASSUME NEW f \in Fds, HandleDataOnTcpSocket(f) PROVE UNCHANGED registered
    BY <2>15 DEF HandleDataOnTcpSocket
  <2>16. ASSUME NEW f \in Fds, NEW g \in Sessions, NEW o \in Originators, NEW n \in Serials,
                EstablishClass3Connection(f, g, o, n) \/ ForwardClose(f, g, o, n)
         PROVE  UNCHANGED registered
    BY <2>16 DEF EstablishClass3Connection, ForwardClose
  <2>17. ASSUME NEW f \in Fds, CloseUdpSocket(f) PROVE UNCHANGED registered
    BY <2>17 DEF CloseUdpSocket
  <2>18. ASSUME Tick \/ Halted \/ UNCHANGED vars PROVE UNCHANGED registered
    BY <2>18 DEF Tick, Halted, vars
  <2> QED
    BY <1>1, <2>6, <2>7, <2>8, <2>9, <2>10, <2>11, <2>12, <2>13, <2>14, <2>15, <2>16,
       <2>17, <2>18 DEF Next, TcpRequest
<1> QED
  BY Invariance, <1>1, PTL DEF Spec, LoneConnectionEndsWithSession
=============================================================================
