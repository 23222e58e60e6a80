--------------------------- MODULE IoConnections ----------------------------
(***************************************************************************)
(* The IO (class 0 and 1) connections of the stack and their UDP sockets.  *)
(*                                                                         *)
(*   cip/appcontype.c               the pools of connections and the rules *)
(*                                  of the application connection types    *)
(*   cip/cipioconnection.c          opening, closing and time-out          *)
(*   ports/generic_networkhandler.c the UDP sockets                        *)
(*   cip/cipconnectionobject.c      the nodes of connection_list           *)
(*                                                                         *)
(* The connection points are those of the shipped configuration: one       *)
(* exclusive owner, one input only path and one listen only path that all  *)
(* produce the same input assembly.  An IO connection that times out keeps *)
(* its pool entry, its sockets and its list node until its originator      *)
(* opens it again or closes it.                                            *)
(*                                                                         *)
(* The stack is one thread and one action is one handler.  TCP sockets are *)
(* modelled in Encap; here they only come and go, since they share the     *)
(* socket handles.  So are class 3 connections: any number of them, up to  *)
(* NumExplicit, may be anywhere in connection_list, and list is the order  *)
(* of the IO connections in it.                                            *)
(***************************************************************************)
EXTENDS Naturals, FiniteSetsExt, ConnectionList

CONSTANTS
    Fds, NoFd,        \* socket handles of the process; kEipInvalidSocket
    Originators,      \* originator vendor id and serial number of a request
    NumInputOnly,     \* OPENER_CIP_NUM_INPUT_ONLY_CONNS_PER_CON_PATH
    NumListenOnly,    \* OPENER_CIP_NUM_LISTEN_ONLY_CONNS_PER_CON_PATH
    NumExplicit,      \* OPENER_CIP_NUM_EXPLICIT_CONNS
    OToTTypes,        \* connection types that requests ask for, O to T
    TToOTypes,        \* and T to O
    NoConn            \* content of a pool entry in state NonExistent

(* The pools: g_exlusive_owner_connections, g_input_only_connections and   *)
(* g_listen_only_connections.                                              *)
ExclusiveOwner == 1..1
InputOnly == 2 .. 1 + NumInputOnly
ListenOnly == 2 + NumInputOnly .. 1 + NumInputOnly + NumListenOnly
NonListenOnly == ExclusiveOwner \cup InputOnly
Slots == NonListenOnly \cup ListenOnly

(* kNodesAmount of CipConnectionObjectListArrayAllocator adds the numbers  *)
(* of connection paths, not of connections: besides the class 3            *)
(* connections one node for each of the three paths.                       *)
NumIoNodes == 3

Sockets == Fds \cup {NoFd}

(* consumes is consuming_instance # NULL, cons and prod are socket[].      *)
IoConnection ==
    [state : {"Established", "TimedOut"}, orig : Originators,
     ttoo : {"null", "multicast", "p2p"}, consumes : BOOLEAN, cons : Sockets, prod : Sockets]

ASSUME IoAssumption ==
    /\ NumInputOnly \in Nat /\ NumListenOnly \in Nat /\ NumExplicit \in Nat
    /\ OToTTypes \subseteq {"null", "multicast", "p2p"}
    /\ TToOTypes \subseteq {"null", "multicast", "p2p"}
    /\ NoFd \notin Fds
    /\ NoConn \notin IoConnection

VARIABLES
    conn,     \* the pools
    list,     \* connection_list
    fd,       \* what each socket handle of the process is
    udpIo,    \* g_network_status.udp_io_messaging
    status    \* of the thread that runs the stack

vars == <<conn, list, fd, udpIo, status>>

Running == status = "running"

-----------------------------------------------------------------------------
(* GetExistingProducerIoConnection(true, ...) returns the first of these:  *)
(* whoever holds a socket, timed out or not.                               *)
MulticastProducers(c, l) ==
    {s \in l.members : c[s].ttoo = "multicast" /\ c[s].prod # NoFd}

(* GetNextNonControlMasterConnection returns the first of these.           *)
NonControlMasters ==
    {s \in list.members \cap NonListenOnly :
        conn[s].state = "Established" /\ conn[s].ttoo = "multicast" /\ conn[s].prod = NoFd}

(* s is in charge of the multicast production and is no listen only one.   *)
IsMaster(s) == s \in NonListenOnly /\ conn[s].ttoo = "multicast" /\ conn[s].prod # NoFd

(* Mutant: production is never passed on.                                  *)
NeverTransfers(s) == FALSE

(* transfer_master_connection succeeds when s gives up production.         *)
Transfers(s) == IsMaster(s) /\ NonControlMasters # {}

(* Mutant: transfer_master_connection does not reset the socket of s.      *)
TransferredKeepingSocket(s) ==
    IF Transfers(s)
    THEN [conn EXCEPT ![FirstIn(list, NonControlMasters, 0)].prod = conn[s].prod]
    ELSE conn

(* The connections with the producing socket of s passed on, if it is.     *)
Transferred(s) ==
    IF Transfers(s)
    THEN [conn EXCEPT ![FirstIn(list, NonControlMasters, 0)].prod = conn[s].prod,
                      ![s].prod = NoFd]
    ELSE conn

ActiveListeners == list.members \cap ListenOnly

(* Mutant: the last master closes without its listeners.                   *)
ClosedAlone(s) == {s}

(* CloseIoConnection(s) closes s and, when s was the last master, all      *)
(* listen only connections.                                                *)
ClosedWith(s) == {s} \cup (IF IsMaster(s) /\ ~Transfers(s) THEN ActiveListeners ELSE {})

(* Mutant: the close does not call ConnectionObjectInitializeEmpty.        *)
NotEmptied(c, V) == c

(* CloseCommunicationChannelsAndRemoveFromActiveConnectionsList for the    *)
(* connections V of c: what is left of the pools, and of the socket        *)
(* handles, whoever uses a handle by now.                                  *)
Emptied(c, V) == [s \in Slots |-> IF s \in V THEN NoConn ELSE c[s]]

ChannelsClosed(c, V) ==
    [f \in Fds |-> IF \E s \in V : f = c[s].cons \/ f = c[s].prod THEN "closed" ELSE fd[f]]

(* The IO connection behind s in connection_list, 0 if there is none.      *)
Successor(s) == FirstIn(list, {t \in list.members : <<s, t>> \in list.newer}, 0)

(* The node a loop goes to after the node of s may be, or may be none, of  *)
(* the connections V: a class 3 connection may stand in between.           *)
NextMayBeIn(s, V) == Successor(s) \in V

NextMayBeOutside(s, V) == Successor(s) \notin V \/ NumExplicit > 0

-----------------------------------------------------------------------------
(* What a request of originator o for an application connection type (its  *)
(* pool is slots) gets: an entry it left timed out, which is closed first, *)
(* or the first free one; slot 0 is none.  A listen only request needs a   *)
(* producer.  conn, list and fd are the state after that close.            *)
GetIoConnectionForConnectionData(o, slots) ==
    LET reusable == {s \in slots : conn[s] # NoConn /\ conn[s].state = "TimedOut"
                                     /\ conn[s].orig = o}
        free == {s \in slots : conn[s] = NoConn}
        refused == slots = ListenOnly /\ \A s \in list.members : conn[s].prod = NoFd
        s == Min(reusable)
        Unchanged(slot) == [slot |-> slot, conn |-> conn, list |-> list, fd |-> fd]
    IN IF refused \/ reusable \cup free = {} THEN Unchanged(0)
       ELSE IF reusable = {} THEN Unchanged(Min(free))
       ELSE [slot |-> s, conn |-> Emptied(Transferred(s), ClosedWith(s)),
             list |-> RemoveAll(list, ClosedWith(s)),
             fd |-> ChannelsClosed(Transferred(s), ClosedWith(s))]

(* Whether the allocator has a node for one more IO connection depends on  *)
(* the number of class 3 connections, which the list l does not tell.      *)
(* DoublyLinkedListNodeCreate writes to the node without looking whether   *)
(* there is one; with none left the process is gone.                       *)
NodeMayBeLeft(l) == Cardinality(l.members) < NumIoNodes + NumExplicit

NodesMayBeGone(l) == Cardinality(l.members) >= NumIoNodes

(* CreateUdpSocket with the handles d: any handle that is closed, or none. *)
CreateUdpSocket(d) ==
    IF \E f \in Fds : d[f] = "closed" THEN {f \in Fds : d[f] = "closed"} ELSE {NoFd}

(* OpenCommunicationChannels can succeed with the new UDP socket f.        *)
(* OpenMulticastConnection(Consuming) does not need the socket: its caller *)
(* takes its success for the error and every error for success.            *)
ChannelsOpen(otot, ttoo, joins, f) ==
    /\ otot = "p2p" => f # NoFd
    /\ ttoo = "p2p" => f # NoFd
    /\ ttoo = "multicast" /\ ~joins => f # NoFd

(* Mutant: an exclusive owner joins a production like everybody else.      *)
NeverTakesProduction(slots) == FALSE

(* OpenProducingMulticastConnection: exclusive owners take the socket of   *)
(* the connection that produced before.                                    *)
TakesProduction(slots) == slots = ExclusiveOwner

(* A Forward Open for an IO connection with a new triad.  Its multicast    *)
(* production joins an existing one; an exclusive owner takes that over.   *)
(* A null direction has no connection point in the request and keeps the   *)
(* one that an earlier request left in g_dummy_connection_object.          *)
EstablishIoConnection(slots, o) ==
    /\ Running
    /\ \E r \in {GetIoConnectionForConnectionData(o, slots)} :
       /\ r.slot # 0
       /\ \E existing \in {FirstIn(r.list, MulticastProducers(r.conn, r.list), 0)},
             f \in CreateUdpSocket(r.fd), otot \in OToTTypes, ttoo \in TToOTypes :
          LET joins == ttoo = "multicast" /\ existing # 0
              takes == joins /\ TakesProduction(slots)
              new == [state |-> "Established", orig |-> o, ttoo |-> ttoo,
                      consumes |-> otot # "null",
                      cons |-> IF otot = "p2p" THEN f ELSE NoFd,
                      prod |-> IF takes THEN r.conn[existing].prod
                               ELSE IF joins \/ ttoo = "null" THEN NoFd ELSE f]
          IN /\ otot # "null" \/ ttoo # "null"
             /\ ChannelsOpen(otot, ttoo, joins, f)
             /\ udpIo' = f
             /\ fd' = [g \in Fds |-> IF g = f THEN "udp" ELSE r.fd[g]]
             /\ \/ /\ NodeMayBeLeft(r.list)
                   /\ conn' = [t \in Slots |->
                                 IF t = r.slot THEN new
                                 ELSE IF takes /\ t = existing THEN [r.conn[t] EXCEPT !.prod = NoFd]
                                 ELSE r.conn[t]]
                   /\ list' = InsertAtHead(r.list, r.slot)
                   /\ UNCHANGED status
                \/ /\ NodesMayBeGone(r.list)
                   /\ conn' = r.conn /\ list' = r.list
                   /\ status' = "null_node"

(* A Forward Open for an IO connection that fails after it got a pool      *)
(* entry: when its parameters are checked (connection sizes, production    *)
(* inhibit time, multicast parameters, configuration data), or in          *)
(* OpenCommunicationChannels, once there is a UDP socket.                  *)
RefuseIoConnection(slots, o) ==
    /\ Running
    /\ \E r \in {GetIoConnectionForConnectionData(o, slots)} :
       /\ r.slot # 0
       /\ conn' = r.conn /\ list' = r.list
       /\ \/ fd' = r.fd /\ UNCHANGED udpIo
          \/ \E f \in CreateUdpSocket(r.fd) :
                /\ udpIo' = f
                /\ fd' = [g \in Fds |-> IF g = f THEN "udp" ELSE r.fd[g]]
    /\ UNCHANGED status

CloseIoConnection(s) ==
    LET c == Transferred(s)
        V == ClosedWith(s)
    IN /\ conn' = Emptied(c, V)
       /\ list' = RemoveAll(list, V)
       /\ fd' = ChannelsClosed(c, V)

(* A Forward Close from the originator of IO connection s.                 *)
ForwardClose(s) ==
    /\ Running
    /\ s \in list.members
    /\ CloseIoConnection(s)
    /\ UNCHANGED <<udpIo, status>>

(* The consuming socket of s is ready.  The handler reads from             *)
(* udp_io_messaging instead, and closes the connection when that fails or  *)
(* gives no data; a datagram changes nothing here.  The loop has read the  *)
(* successor of s before, which the close may have freed.                  *)
CheckAndHandleConsumingUdpSocket(s) ==
    /\ Running
    /\ s \in list.members
    /\ conn[s].cons # NoFd /\ fd[conn[s].cons] # "closed"
    /\ \/ /\ NextMayBeOutside(s, ClosedWith(s))
          /\ CloseIoConnection(s)
          /\ UNCHANGED <<udpIo, status>>
       \/ /\ NextMayBeIn(s, ClosedWith(s))
          /\ status' = "freed_node"
          /\ UNCHANGED <<conn, list, fd, udpIo>>

-----------------------------------------------------------------------------
(* The time-out of exclusive owner s that produces nothing closes the      *)
(* input only connections in the order of the list.  Production passes     *)
(* along those that can take it; this is the last of them, whose close     *)
(* closes all listen only connections.                                     *)
LastMaster ==
    LET master == {t \in list.members \cap InputOnly : IsMaster(t)}
        chain == master \cup
                   {t \in NonControlMasters : \E m \in master : <<m, t>> \in list.newer}
    IN {t \in chain : \A u \in chain \ {t} : <<u, t>> \in list.newer}

(* The inactivity watchdog of s expired.  It runs for every connection     *)
(* that consumes or that asked for the server direction, which is not part *)
(* of the model.  CloseEncapsulationSessionBySockAddr closes the TCP       *)
(* sockets T when s was the last connection of its originator.  The loop   *)
(* that closes the input only connections may go on from a freed node.     *)
HandleIoConnectionTimeOut(s, T) ==
    LET V == IF Transfers(s) THEN {}
             ELSE IF s \in ExclusiveOwner THEN list.members \cap (InputOnly \cup ListenOnly)
             ELSE IF IsMaster(s) THEN ActiveListeners
             ELSE {}
        c == [Transferred(s) EXCEPT ![s].state = "TimedOut"]
        d == ChannelsClosed(c, V)
        cascades == IF s \in ExclusiveOwner /\ ~IsMaster(s) THEN LastMaster ELSE {}
    IN /\ Running
       /\ s \in list.members
       /\ conn[s].state = "Established"
       /\ \/ /\ \E t \in cascades : NextMayBeIn(t, ListenOnly)
             /\ status' = "freed_node"
             /\ UNCHANGED <<conn, list, fd, udpIo>>
          \/ /\ \A t \in cascades : NextMayBeOutside(t, ListenOnly)
             /\ conn' = Emptied(c, V)
             /\ list' = RemoveAll(list, V)
             /\ fd' = [f \in Fds |-> IF f \in T THEN "closed" ELSE d[f]]
             /\ UNCHANGED <<udpIo, status>>

(* A TCP client comes, or its socket is closed by the encapsulation layer. *)
AcceptTcp(f) ==
    /\ Running
    /\ fd[f] = "closed"
    /\ fd' = [fd EXCEPT ![f] = "tcp"]
    /\ UNCHANGED <<conn, list, udpIo, status>>

CloseTcpSocket(f) ==
    /\ Running
    /\ fd[f] = "tcp"
    /\ fd' = [fd EXCEPT ![f] = "closed"]
    /\ UNCHANGED <<conn, list, udpIo, status>>

(* CloseAllConnections, then the TCP sockets.                              *)
ShutdownCipStack ==
    /\ Running
    /\ conn' = [s \in Slots |-> NoConn]
    /\ list' = EmptyList
    /\ fd' = [f \in Fds |->
                IF fd[f] = "tcp" THEN "closed"
                ELSE ChannelsClosed(conn, list.members)[f]]
    /\ status' = "stopped"
    /\ UNCHANGED udpIo

(* The thread has ended or the process is gone.                            *)
Halted == ~Running /\ UNCHANGED vars

Init ==
    /\ conn = [s \in Slots |-> NoConn]
    /\ list = EmptyList
    /\ fd = [f \in Fds |-> "closed"]
    /\ udpIo = NoFd
    /\ status = "running"

Next ==
    \/ \E slots \in {ExclusiveOwner, InputOnly, ListenOnly}, o \in Originators :
          EstablishIoConnection(slots, o) \/ RefuseIoConnection(slots, o)
    \/ \E s \in Slots :
          \/ ForwardClose(s)
          \/ CheckAndHandleConsumingUdpSocket(s)
          \/ \E T \in SUBSET {f \in Fds : fd[f] = "tcp"} : HandleIoConnectionTimeOut(s, T)
    \/ \E f \in Fds : AcceptTcp(f) \/ CloseTcpSocket(f)
    \/ ShutdownCipStack
    \/ Halted

Spec == Init /\ [][Next]_vars

-----------------------------------------------------------------------------
(* Types of the variables: the pools keep their sizes and connection_list  *)
(* is a linear order of pool entries.                                      *)
TypeOK ==
    /\ conn \in [Slots -> IoConnection \cup {NoConn}]
    /\ list \in ListOf(Slots)
    /\ fd \in [Fds -> {"closed", "udp", "tcp"}]
    /\ udpIo \in Sockets
    /\ status \in {"running", "stopped", "null_node", "freed_node"}

(* connection_list holds exactly the pool entries in use, through closes   *)
(* that cascade to other connections and reuse of timed-out entries.       *)
PoolMatchesList == list.members = {s \in Slots : conn[s] # NoConn}

(* One connection at most is in charge of the multicast production of the  *)
(* input assembly, whatever is opened, closed, timed out and taken over:   *)
(* two would send every datagram twice under one connection id.            *)
OneMulticastProducer ==
    \A s, t \in MulticastProducers(conn, list) : s = t

(* An exclusive owner that asked for multicast is the producer itself, also *)
(* when it joined an existing production.                                  *)
OwnerProduces ==
    \A s \in list.members \cap ExclusiveOwner :
        conn[s].state = "Established" /\ conn[s].ttoo = "multicast" => conn[s].prod # NoFd

(* A step that leaves no exclusive owner or input only connection in       *)
(* charge of the multicast production leaves no listen only connection:    *)
(* the close of the last master cascades to everybody who only listens.    *)
ListenersEndWithMaster ==
    [][ActiveListeners' # {} /\ (\E s \in list.members : IsMaster(s))
          => (\E s \in list.members : IsMaster(s))']_vars

Producing(c, l) == {s \in MulticastProducers(c, l) : c[s].state = "Established"}

(* Closing or losing the multicast producer hands production over whenever *)
(* an exclusive owner or input only connection is left that can take it:   *)
(* nobody who still waits for multicast data is cut off by the end of      *)
(* another connection.                                                     *)
ProductionHandedOver ==
    [][\A s \in Producing(conn, list) \cap NonListenOnly :
          (\E t \in list'.members \cap NonListenOnly \cap list.members :
              conn'[t].state = "Established" /\ conn'[t].ttoo = "multicast")
            => Producing(conn', list') # {}]_vars

-----------------------------------------------------------------------------
(* Statements of the repository that the code does not keep.               *)

(* opener_api.h, CreateUdpSocket: "one socket handles all connections".    *)
(* udp_io_messaging, which receives and sends for all of them, is open as  *)
(* long as a connection is established.                                    *)
OneSocketHandlesAll ==
    Running /\ (\E s \in list.members : conn[s].state = "Established")
       => udpIo # NoFd /\ fd[udpIo] = "udp"

(* appcontype.h: CloseAllConnectionsForInputWithSameType closes all        *)
(* connections of one type; its loop must not step on a freed node.        *)
LoopsStayOnList == status # "freed_node"
=============================================================================
