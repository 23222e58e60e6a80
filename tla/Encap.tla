------------------------------- MODULE Encap --------------------------------
(***************************************************************************)
(* The encapsulation layer of the EtherNet/IP stack: TCP sockets accepted  *)
(* by the network handler, the table of registered sessions, the socket    *)
(* timers of the inactivity check and the explicit (class 3) connections   *)
(* that are opened through a session.                                      *)
(*                                                                         *)
(*   enet_encap/encap.c             sessions                               *)
(*   ports/generic_networkhandler.c sockets, inactivity check              *)
(*   ports/socket_timer.c           socket timers                          *)
(*   cip/cipclass3connection.c      pool of class 3 connections            *)
(*                                                                         *)
(* The stack is one thread, so one action is one whole handler: what       *)
(* NetworkHandlerProcessCyclic does for one ready or idle socket, or what  *)
(* ManageConnections does for one connection that timed out.  IO           *)
(* connections are not in this module, only what they do to it: where the  *)
(* code asks about them, the answer is a choice of the action (othersAlive *)
(* of Class3ConnectionTimeoutHandler, the moment and the address of        *)
(* CloseEncapsulationSessionBySockAddr), and any client's socket may be    *)
(* the one that an IO connection closes (CloseUdpSocket).                  *)
(***************************************************************************)
EXTENDS Naturals, FiniteSetsExt, ConnectionList

CONSTANTS
    Fds, NoFd,          \* socket handles that accept can return; kEipInvalidSocket
    Hosts, NoHost,      \* IP addresses of peers; "this handle is not open"
    Originators,        \* originator vendor id and serial number of a request
    Serials,            \* connection serial numbers
    NumSessions,        \* OPENER_NUMBER_OF_SUPPORTED_SESSIONS
    NumExplicitConns,   \* OPENER_CIP_NUM_EXPLICIT_CONNS
    NoConn,             \* content of a pool entry in state NonExistent
    InactivityTimeout,  \* encapsulation_inactivity_timeout in ticks, 0 is off
    AssertsEnabled      \* whether assert() is compiled in

Sessions == 1..NumSessions          \* session handles: table index plus one
Slots == 1..NumExplicitConns        \* entries of explicit_connection_object_pool

Class3Connection ==
    [orig : Originators, serial : Serials, addr : Hosts, sess : Sessions]

SocketTimer == [socket : Fds \cup {NoFd}, idle : 0..InactivityTimeout]

ASSUME EncapAssumption ==
    /\ NumSessions \in Nat
    /\ NumExplicitConns \in Nat
    /\ InactivityTimeout \in Nat
    /\ AssertsEnabled \in BOOLEAN
    /\ NoFd \notin Fds
    /\ NoHost \notin Hosts
    /\ NoConn \notin Class3Connection

VARIABLES
    peer,        \* peer[f]: address at the other end of client socket f, if open
    registered,  \* g_registered_sessions: the socket of each session handle
    timers,      \* g_timestamps: idle is g_actual_time - last_update
    pool,        \* explicit_connection_object_pool
    list,        \* connection_list, of indices of pool
    status       \* of the thread that runs the stack

vars == <<peer, registered, timers, pool, list, status>>

-----------------------------------------------------------------------------
Running == status = "running"

Open(f) == peer[f] # NoHost

EmptyTimer == [socket |-> NoFd, idle |-> 0]

EmptyTimers == {t \in Sessions : timers[t].socket = NoFd}

FreeSessions == {h \in Sessions : registered[h] = NoFd}

FreeSlots == {s \in Slots : pool[s] = NoConn}

(* SocketTimerSetLastUpdate with the current time, after a message on f.   *)
Touched(f) ==
    [t \in Sessions |->
        IF timers[t].socket = f THEN [timers[t] EXCEPT !.idle = 0] ELSE timers[t]]

(* Mutant: CloseTcpSocket without RemoveSocketTimerFromList.               *)
CloseTcpSocketsKeepingTimers(F) ==
    /\ peer' = [f \in Fds |-> IF f \in F THEN NoHost ELSE peer[f]]
    /\ UNCHANGED timers

(* CloseTcpSocket for every socket in F: its timers are cleared, it leaves *)
(* the set that select watches and the handle is free for the next accept. *)
CloseTcpSockets(F) ==
    /\ peer' = [f \in Fds |-> IF f \in F THEN NoHost ELSE peer[f]]
    /\ timers' = [t \in Sessions |->
                    IF timers[t].socket \in F THEN EmptyTimer ELSE timers[t]]

FreeHandles(H) ==
    registered' = [h \in Sessions |-> IF h \in H THEN NoFd ELSE registered[h]]

(* Mutant: CloseConnection without RemoveFromActiveConnections.            *)
CloseConnectionsKeepingNodes(V) ==
    /\ pool' = [s \in Slots |-> IF s \in V THEN NoConn ELSE pool[s]]
    /\ UNCHANGED list

(* CloseConnection for every pool entry in V.                              *)
CloseConnections(V) ==
    /\ pool' = [s \in Slots |-> IF s \in V THEN NoConn ELSE pool[s]]
    /\ list' = RemoveAll(list, V)

(* Mutant: a session ends without CloseClass3ConnectionBasedOnSession.     *)
NoClass3Connection(h) == {}

(* The connections that CloseClass3ConnectionBasedOnSession(h) closes.     *)
(* Closing one zeroes the list node the loop stands on, so the loop reads  *)
(* a NULL successor and ends: it is the first match only.                  *)
Class3ConnectionBasedOnSession(h) ==
    LET ofSession == {s \in list.members : pool[s].sess = h}
    IN {FirstIn(list, ofSession, 0)} \ {0}

(* GetSessionFromSocket: the index of the session in the table, which is   *)
(* its handle minus one, or the table's length.                            *)
GetSessionFromSocket(f) ==
    LET H == {h \in Sessions : registered[h] = f}
    IN IF H = {} THEN NumSessions ELSE Min(H) - 1

(* CloseTcpSocket and RemoveSession of socket f, in either order.          *)
CloseSocketAndSession(f, alsoClosed) ==
    LET H == {h \in Sessions : registered[h] = f}
    IN /\ CloseTcpSockets({f})
       /\ FreeHandles(H)
       /\ CloseConnections(
             alsoClosed \cup UNION {Class3ConnectionBasedOnSession(h) : h \in H})

-----------------------------------------------------------------------------
(* EncapsulationInit, SocketTimerArrayInitialize and                       *)
(* InitializeClass3ConnectionData.                                         *)
Init ==
    /\ peer = [f \in Fds |-> NoHost]
    /\ registered = [h \in Sessions |-> NoFd]
    /\ timers = [t \in Sessions |-> EmptyTimer]
    /\ pool = [s \in Slots |-> NoConn]
    /\ list = EmptyList
    /\ status = "running"

(* A client at address a connects and gets handle f.  The handler asks for *)
(* an empty timer, asserts that there is one and leaves it unused.         *)
CheckAndHandleTcpListenerSocket(f, a) ==
    /\ Running /\ ~Open(f)
    /\ IF AssertsEnabled /\ EmptyTimers = {}
       THEN status' = "aborted" /\ UNCHANGED peer
       ELSE peer' = [peer EXCEPT ![f] = a] /\ UNCHANGED status
    /\ UNCHANGED <<registered, timers, pool, list>>

(* A message on f that opens or closes nothing: NOP, the List commands, an *)
(* unsupported command, a request that is answered with an error, explicit *)
(* requests that do not reach the connection manager.                      *)
HandleDataOnTcpSocket(f) ==
    /\ Running /\ Open(f)
    /\ timers' = Touched(f)
    /\ UNCHANGED <<peer, registered, pool, list, status>>

(* Mutant: RegisterSession does not look for a session of the same socket. *)
RegisterSessionAgain(f) ==
    /\ Running /\ Open(f)
    /\ FreeSessions # {} /\ EmptyTimers # {}
    /\ timers' = [timers EXCEPT ![Min(EmptyTimers)] = [socket |-> f, idle |-> 0]]
    /\ registered' = [registered EXCEPT ![Min(FreeSessions)] = f]
    /\ UNCHANGED <<peer, pool, list, status>>

(* RegisterSession on a socket without session while a session is free.    *)
(* The timer pointer of the network handler was read before the session    *)
(* had a timer, it is NULL and refreshes nothing.                          *)
HandleReceivedRegisterSessionCommand(f) ==
    /\ Running /\ Open(f)
    /\ \A h \in Sessions : registered[h] # f
    /\ FreeSessions # {}
    /\ IF EmptyTimers = {}
       THEN status' = "crashed" /\ UNCHANGED <<registered, timers>>
       ELSE /\ timers' = [timers EXCEPT ![Min(EmptyTimers)] = [socket |-> f, idle |-> 0]]
            /\ registered' = [registered EXCEPT ![Min(FreeSessions)] = f]
            /\ UNCHANGED status
    /\ UNCHANGED <<peer, pool, list>>

(* Mutant: UnRegisterSession leaves the socket of the session open.        *)
UnregisterSessionKeepingSocket(f, h) ==
    /\ Running /\ Open(f)
    /\ registered[h] # NoFd
    /\ FreeHandles({h})
    /\ CloseConnections(Class3ConnectionBasedOnSession(h))
    /\ UNCHANGED <<peer, timers, status>>

(* UnRegisterSession with a valid handle h, received on any socket f: the  *)
(* socket of the session is closed, whichever socket the request came on.  *)
HandleReceivedUnregisterSessionCommand(f, h) ==
    /\ Running /\ Open(f)
    /\ registered[h] # NoFd
    /\ peer' = [peer EXCEPT ![registered[h]] = NoHost]
    /\ timers' = [t \in Sessions |->
                    IF timers[t].socket = registered[h] THEN EmptyTimer ELSE Touched(f)[t]]
    /\ FreeHandles({h})
    /\ CloseConnections(Class3ConnectionBasedOnSession(h))
    /\ UNCHANGED status

(* Mutant: Forward Open without CheckForExistingConnection.                *)
EstablishClass3ConnectionUnchecked(f, h, o, n) ==
    /\ Running /\ Open(f)
    /\ registered[h] # NoFd
    /\ FreeSlots # {}
    /\ pool' = [pool EXCEPT ![Min(FreeSlots)] =
                    [orig |-> o, serial |-> n, addr |-> peer[f], sess |-> h]]
    /\ list' = InsertAtHead(list, Min(FreeSlots))
    /\ timers' = Touched(f)
    /\ UNCHANGED <<peer, registered, status>>

(* A Forward Open for a class 3 connection, in a SendRRData request with   *)
(* session handle h on socket f, whose triad matches no connection and for *)
(* which the pool has an entry left.                                       *)
EstablishClass3Connection(f, h, o, n) ==
    /\ Running /\ Open(f)
    /\ registered[h] # NoFd
    /\ \A s \in list.members : pool[s].orig # o \/ pool[s].serial # n
    /\ FreeSlots # {}
    /\ pool' = [pool EXCEPT ![Min(FreeSlots)] =
                    [orig |-> o, serial |-> n, addr |-> peer[f], sess |-> h]]
    /\ list' = InsertAtHead(list, Min(FreeSlots))
    /\ timers' = Touched(f)
    /\ UNCHANGED <<peer, registered, status>>

(* A Forward Close for the triad of a class 3 connection from the address  *)
(* that opened it.                                                         *)
ForwardClose(f, h, o, n) ==
    /\ Running /\ Open(f)
    /\ registered[h] # NoFd
    /\ LET triad == {s \in list.members : pool[s].orig = o /\ pool[s].serial = n}
           s == FirstIn(list, triad, 0)
       IN /\ s # 0
          /\ pool[s].addr = peer[f]
          /\ CloseConnections({s})
    /\ timers' = Touched(f)
    /\ UNCHANGED <<peer, registered, status>>

(* The peer closed socket f, receiving failed or a packet was fragmented.  *)
ConnectionClosedByClient(f) ==
    /\ Running /\ Open(f)
    /\ CloseSocketAndSession(f, {})
    /\ UNCHANGED status

(* An IO connection closes the number f while a TCP client uses it.  The   *)
(* connection got the number from another one that then closed it          *)
(* (transfer_master_connection hands on the producing socket, the close    *)
(* goes on to the consuming one, which is the same), and accept gave it to *)
(* the client in between.  CloseSocket knows neither timers nor sessions.  *)
CloseUdpSocket(f) ==
    /\ Running /\ Open(f)
    /\ peer' = [peer EXCEPT ![f] = NoHost]
    /\ UNCHANGED <<registered, timers, pool, list, status>>

-----------------------------------------------------------------------------
(* The time between two cycles of the network handler.                     *)
Tick ==
    /\ Running
    /\ timers' = [t \in Sessions |->
                    IF timers[t].socket # NoFd /\ timers[t].idle < InactivityTimeout
                    THEN [timers[t] EXCEPT !.idle = @ + 1] ELSE timers[t]]
    /\ UNCHANGED <<peer, registered, pool, list, status>>

Expired(f) ==
    \E t \in Sessions : timers[t].socket = f /\ timers[t].idle >= InactivityTimeout

(* Mutant: the inactivity check looks at the sockets select watches only.  *)
CheckEncapsulationInactivityOfOpen(f) ==
    /\ Running
    /\ 0 < InactivityTimeout
    /\ Open(f) /\ Expired(f)
    /\ CloseSocketAndSession(f, Class3ConnectionBasedOnSession(GetSessionFromSocket(f)))
    /\ UNCHANGED status

(* The socket of a session was idle for the time-out; every number up to   *)
(* the highest is looked at, whether it is open or not.  The handler       *)
(* passes the table index to a function that takes a handle, then closes   *)
(* the session of the socket itself.                                       *)
CheckEncapsulationInactivity(f) ==
    /\ Running
    /\ 0 < InactivityTimeout
    /\ Expired(f)
    /\ CloseSocketAndSession(f, Class3ConnectionBasedOnSession(GetSessionFromSocket(f)))
    /\ UNCHANGED status

(* The inactivity watchdog of class 3 connection s expired.  When its      *)
(* originator has no other live connection, CloseSessionBySessionHandle    *)
(* closes the session it was opened through.  Clearing the timers of       *)
(* kEipInvalidSocket never ends while one is empty, since clearing a timer *)
(* gives it that very socket.                                              *)
Class3ConnectionTimeoutHandler(s, othersAlive) ==
    LET h == pool[s].sess
        otherFound == \/ othersAlive
                      \/ \E t \in list.members \ {s} : pool[t].orig = pool[s].orig
    IN /\ Running
       /\ s \in list.members
       /\ \/ /\ otherFound
             /\ CloseConnections({s})
             /\ UNCHANGED <<peer, registered, timers, status>>
          \/ /\ ~otherFound /\ registered[h] # NoFd
             /\ CloseTcpSockets({registered[h]})
             /\ FreeHandles({h})
             /\ CloseConnections({s})
             /\ UNCHANGED status
          \/ /\ ~otherFound /\ registered[h] = NoFd
             /\ EmptyTimers # {}
             /\ status' = "hung"
             /\ UNCHANGED <<peer, registered, timers, pool, list>>

(* An IO connection from address a timed out: every session from there is  *)
(* closed for which getpeername succeeds (H), with CloseSession.           *)
CloseEncapsulationSessionBySockAddr(a, H) ==
    /\ Running
    /\ \A h \in H : registered[h] # NoFd /\ peer[registered[h]] = a
    /\ H # {}
    /\ CloseTcpSockets({registered[h] : h \in H})
    /\ FreeHandles(H)
    /\ CloseConnections(UNION {Class3ConnectionBasedOnSession(h) : h \in H})
    /\ UNCHANGED status

(* CloseAllConnections, then EncapsulationShutDown.  A socket without      *)
(* session stays open.                                                     *)
ShutdownCipStack ==
    /\ Running
    /\ CloseConnections(list.members)
    /\ CloseTcpSockets({registered[h] : h \in Sessions} \ {NoFd})
    /\ FreeHandles(Sessions)
    /\ status' = "stopped"

(* The thread has ended, or spins in RemoveSocketTimerFromList.            *)
Halted == ~Running /\ UNCHANGED vars

TcpRequest(f) ==
    \/ HandleDataOnTcpSocket(f)
    \/ HandleReceivedRegisterSessionCommand(f)
    \/ \E h \in Sessions :
          \/ HandleReceivedUnregisterSessionCommand(f, h)
          \/ \E o \in Originators, n \in Serials :
                EstablishClass3Connection(f, h, o, n) \/ ForwardClose(f, h, o, n)

Next ==
    \/ \E f \in Fds :
          \/ \E a \in Hosts : CheckAndHandleTcpListenerSocket(f, a)
          \/ TcpRequest(f)
          \/ ConnectionClosedByClient(f)
          \/ CloseUdpSocket(f)
          \/ CheckEncapsulationInactivity(f)
    \/ Tick
    \/ \E s \in Slots, othersAlive \in BOOLEAN :
          Class3ConnectionTimeoutHandler(s, othersAlive)
    \/ \E a \in Hosts, H \in SUBSET Sessions : CloseEncapsulationSessionBySockAddr(a, H)
    \/ ShutdownCipStack
    \/ Halted

Spec == Init /\ [][Next]_vars

(* The loop of the stack's thread runs for ever: time passes and every     *)
(* cycle checks every socket for inactivity.                               *)
Fairness ==
    /\ WF_vars(Tick)
    /\ \A f \in Fds : WF_vars(CheckEncapsulationInactivity(f))

FairSpec == Spec /\ Fairness

-----------------------------------------------------------------------------
(* Types of the variables: the arrays keep their lengths and               *)
(* connection_list is a linear order of pool entries.                      *)
TypeOK ==
    /\ peer \in [Fds -> Hosts \cup {NoHost}]
    /\ registered \in [Sessions -> Fds \cup {NoFd}]
    /\ timers \in [Sessions -> SocketTimer]
    /\ pool \in [Slots -> Class3Connection \cup {NoConn}]
    /\ list \in ListOf(Slots)
    /\ status \in {"running", "hung", "crashed", "aborted", "stopped"}

(* Two handles never share a socket: RemoveSession, CloseSession and       *)
(* GetSessionFromSocket stop at the first match.  The number of a session  *)
(* whose socket an IO connection closed goes to the next client, which     *)
(* must not register a second session on it.                               *)
SocketsNotShared ==
    \A g, h \in Sessions : registered[g] = registered[h] /\ g # h => registered[g] = NoFd

(* The sockets with a timer are exactly the sockets with a session, and no *)
(* socket has two timers: the two tables are filled and cleared by         *)
(* different functions of different files.                                 *)
TimersMatchSessions ==
    /\ \A f \in Fds : (\E t \in Sessions : timers[t].socket = f)
                         <=> (\E h \in Sessions : registered[h] = f)
    /\ \A t, u \in Sessions : timers[t].socket = timers[u].socket /\ t # u
                                 => timers[t].socket = NoFd

(* RegisterSession does not look whether SocketTimerArrayGetEmptySocketTimer *)
(* found a timer before it writes to it.                                   *)
RegistrationFindsTimer == status # "crashed"

(* connection_list holds exactly the pool entries that are not             *)
(* NonExistent: an entry that is in one of the two only is never closed,   *)
(* or is handed out while a list node points to it.                        *)
PoolMatchesList == list.members = {s \in Slots : pool[s] # NoConn}

(* Two active connections never have the same triad, so that Forward Close *)
(* and CheckForExistingConnection have one connection to find.             *)
TriadsUnique ==
    \A s, t \in list.members :
        s # t => pool[s].orig # pool[t].orig \/ pool[s].serial # pool[t].serial

(* When a session ends, in any of the six ways the stack ends one, the     *)
(* class 3 connection opened through it ends with it, as long as it is the *)
(* only one: CloseClass3ConnectionBasedOnSession closes one connection.    *)
LoneConnectionEndsWithSession ==
    [][\A s \in list.members :
          /\ registered[pool[s].sess] # NoFd /\ registered'[pool[s].sess] = NoFd
          /\ \A t \in list.members \ {s} : pool[t].sess # pool[s].sess
          => s \notin list'.members]_vars

(* A session and its socket end in the same step, whoever ends either: a   *)
(* handle that is given up closes its socket and is not passed to another  *)
(* one, and a socket that is closed takes its handle along.  The one       *)
(* exception is the close of an IO connection, which leaves the handle to  *)
(* whichever client gets the number next.                                  *)
SessionEndsWithSocket ==
    [][\A h \in Sessions :
          /\ registered[h] # NoFd /\ registered'[h] # registered[h]
                => registered'[h] = NoFd /\ peer'[registered[h]] = NoHost
          /\ registered[h] # NoFd /\ Open(registered[h]) /\ peer'[registered[h]] = NoHost
                => registered'[h] = NoFd \/ CloseUdpSocket(registered[h])]_vars

(* encapsulation_inactivity_timeout: while the stack's thread runs, a      *)
(* handle is freed or its socket heard from again and again, so the table  *)
(* of sessions does not fill up with clients that are gone.  This needs a  *)
(* timer for every session for as long as it lasts, and covers a session   *)
(* whose socket an IO connection closed.                                   *)
SilentSessionsReclaimed ==
    InactivityTimeout > 0 =>
        \A h \in Sessions :
            []<>(\/ ~Running
                 \/ registered[h] = NoFd
                 \/ \E t \in Sessions : timers[t].socket = registered[h] /\ timers[t].idle = 0)

-----------------------------------------------------------------------------
(* Statements of the repository that the code does not keep.               *)

(* ports/generic_networkhandler.c asserts in                               *)
(* CheckAndHandleTcpListenerSocket that a timer is left for every client   *)
(* it accepts.                                                             *)
AcceptFindsTimer == status # "aborted"

(* cip/cipclass3connection.h: an established explicit connection becomes   *)
(* Non-existent by an inactivity time-out; the handler must return.        *)
TimeoutHandlerReturns == status # "hung"

(* cip/cipconnectionobject.h: a connection belongs to "the session handle  *)
(* ID via which the forward open was sent", so the inactivity of a socket  *)
(* closes connections of the session on that socket only.                  *)
InactivityClosesOwnConnections ==
    [][\A f \in Fds : CheckEncapsulationInactivity(f) =>
          \A s \in list.members \ list'.members : registered[pool[s].sess] = f]_vars

(* enet_encap/encap.c refuses a registration because "the socket has       *)
(* already registered a session": a client that was just accepted has      *)
(* registered none.  The session of a client whose socket an IO connection *)
(* closed still has the number, which the next client gets.                *)
AcceptedClientHasNoSession ==
    [][\A f \in Fds : ~Open(f) /\ Open(f)' => \A h \in Sessions : registered'[h] # f]_vars
=============================================================================
