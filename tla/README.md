# TLA+ models of the EtherNet/IP and Modbus library

The repository is an Android library. Its larger half is a port of the OpENer
EtherNet/IP adapter stack in C with a JNI bridge; its other half is a Java
Modbus library (a j2mod derivative). This directory holds TLA+ models of the
parts that carry the protocol logic, TLC configurations that check them on
small instances, and TLAPS proofs.

Paths in this file that start with `cip/`, `enet_encap/`, `ports/` or `utils/`
are below `src/ethernetiplibrary/src/main/cpp/opener/`; Java paths are below
`src/ethernetiplibrary/src/main/java/com/omnixone/modbuslibrary/`.

## Inventory

| Component | State | Operations | Hard behaviour |
|---|---|---|---|
| Network handler (`ports/generic_networkhandler.c`, `ports/socket_timer.c`) | select set, `g_timestamps`, `udp_io_messaging` | accept, receive, close, inactivity check, cyclic tick | socket numbers are reused by the system; a socket is closed from many places |
| Encapsulation (`enet_encap/encap.c`) | `g_registered_sessions`, delayed messages | RegisterSession, UnRegisterSession, SendRRData, SendUnitData, List commands | six ways to end a session |
| Class 3 connections (`cip/cipclass3connection.c`) | `explicit_connection_object_pool` | open, close, time-out | a connection can outlive its session |
| IO connections (`cip/cipioconnection.c`, `cip/appcontype.c`) | three pools, two sockets per connection | open, refuse, close, time-out, hand-over of production | cascading closes, reuse of timed out entries |
| Connection manager (`cip/cipconnectionmanager.c`) | `connection_list`, `g_dummy_connection_object`, timers | Forward Open, Forward Close, ManageConnections, connected data | loops over a list that the called handlers change |
| `connection_list` (`utils/doublylinkedlist.c`) | nodes in a fixed array | insert at head, remove | nodes are zeroed when freed |
| Message router, object model, CPF (`cip/cipmessagerouter.c`, `cip/cipcommon.c`, `enet_encap/cpf.c`) | registered classes; one global CPF structure; the stored reply of each class 3 connection | dispatch, attribute services, repeated requests | malformed requests, paths beyond the message, replies that overrun |
| Objects (identity, assembly, TCP/IP, QoS, Ethernet link, DLR) | attributes | get and set attributes, reset | values that are stored and values in use |
| NV data (`ports/nvdata/`) | files | load, store | a kill between emptying and filling a file, failures nobody looks at |
| JNI bridge (`native-lib.cpp`) | `g_end_stack1`, shared input assembly | start, stop, set inputs | two threads without locks |
| Modbus transactions and transports (`io/`) | transaction id, request, response | execute with retries | late, lost and duplicated answers |
| Modbus listeners, handlers, thread pool (`net/`, `util/ThreadPool.java`) | queue, threads, sockets | listen, accept, stop | shutdown racing accept |
| Modbus slaves and masters (`slave/`, `facade/`) | slaves by port | create, open, close | lifetimes |
| Modbus messages and process image (`msg/`, `procimg/`) | coils, registers, FIFOs, files | read and write requests | bounds, partial writes |

How they interact: one thread runs `NetworkHandlerProcessCyclic`. A TCP
request goes from the network handler through the encapsulation layer, CPF and
message router to the connection manager, which opens and closes entries of
the pools and links them into `connection_list`. The tick calls
`ManageConnections`, which calls the time-out handlers, and these call back into
the encapsulation layer and the network handler to close sessions and sockets.
The C stack and the Modbus library share nothing.

What makes the core correct: a session, its socket and its timer come and go
together; a handle is never given to a new client while an old one can use it;
pools and list agree; one connection at most produces the multicast data, and
while anybody needs the data somebody does; time-outs end what they must end.

## Modules

| Module | Models |
|---|---|
| `ConnectionList` | `connection_list` as a value: members and their order |
| `Encap` | TCP sockets, sessions, socket timers, class 3 connections |
| `IoConnections` | the IO connection pools, multicast production, UDP sockets |
| `ConsumedData` | the datagrams a class 1 connection consumes, its sequence counts and watchdogs |
| `ForwardOpen` | Forward Open from the segments of its path to the answer, Forward Close, Search Connection Data, the checks of an IO connection |
| `RequestReply` | abstract: what explicit messaging promises a client that repeats its requests |
| `PacketFormat` | the items of the common packet format, of a request and of its reply |
| `ExplicitMessages` | encapsulation commands, class 3 requests and their repetitions over TCP; implements `RequestReply` |
| `ListIdentity` | encapsulation commands over UDP and the delayed answers to a broadcast |
| `RequestPath` | the octets of a message router request and of a padded EPATH |
| `ObjectModel` | the class table: instances, attributes, flags, services, class attributes |
| `Objects` | the services of the message router, the data of the objects, the files they are stored in, restarts and kills |
| `MCEncap`, `MCIoConnections`, `MCForwardOpen`, `MCMessages`, `MCObjects` | constants, requests and symmetry sets for TLC |
| `ConnectionList_proofs`, `Encap_proofs`, `IoConnections_proofs`, `ConsumedData_proofs`, `ForwardOpen_proofs`, `ExplicitMessages_proofs`, `ListIdentity_proofs`, `Objects_proofs` | theorems |

`ExplicitMessages` extends `PacketFormat`; `Objects` extends `ObjectModel`, which
extends `RequestPath`; `MCMessages` composes `ExplicitMessages` and `ListIdentity`.

**One action is one handler.** The stack is single-threaded, so a handler runs
to its end before the next one starts, and its effects, including the closes
it causes in other components, are one step. What differs from run to run is
the order in which sockets become ready, timers expire and requests arrive,
and that is what TLC explores.

`Encap`: `peer` is the set of open sockets with the address at the other end,
`registered` is `g_registered_sessions`, `timers` is `g_timestamps` with the
time since the last update instead of the time stamp, `pool` is
`explicit_connection_object_pool`, `list` is `connection_list`. `status` leaves
`"running"` when the process is stopped or lost: `"aborted"` (assertion),
`"crashed"` (NULL timer), `"hung"` (endless loop). IO connections appear
only by what they do to this layer: the answers they give when the code asks about
them are choices, and `CloseUdpSocket` closes the socket of any client. An IO
connection passes its producing socket on (`cip/cipioconnection.c:717`) and then
closes the number it had (1028-1030); `accept()` gives that number to the next client,
and when the connection that produces now ends it closes the client (1033-1035),
without touching the client's session or timer. The next client may get the number
again.

`IoConnections`: `conn` holds all pools, `fd` what each socket number is
(`"closed"`, `"udp"`, `"tcp"`), `udpIo` is `g_network_status.udp_io_messaging`.
`status` is `"null_node"` when the list has no node left and `"freed_node"` when
a loop goes on from a freed node. The connection points are those of the sample
application. TCP sockets only come and go. Class 3 connections are not entries
here: up to `NumExplicit` of them may stand anywhere in the list, so whether a
node is left and whether the successor of a node is inside or outside a group
that is being closed is a choice.

A loop that calls a close handler and then follows `node->next` is modelled by
what it does with the zeroed node: it ends after the first match
(`Class3ConnectionBasedOnSession`), or it meets a freed node
(`LoopMeetsFreedNode`, `CheckAndHandleConsumingUdpSocket`).

`ConsumedData`: `conn` is the connection object with its sequence counts and its
two watchdogs, `output` the output assembly as the version of the data it holds,
`net` the datagrams on the way. A datagram stays in `net` when it is delivered, so
it may come again, and is lost when it never is. `history` only serves the
properties: the newest datagram taken, and the time since a new one (`silence`)
and since any one (`quiet`). An originator is at most `Window` datagrams ahead of
the receiver, and no datagram is on the way for longer than the next `Window`
ones: the watchdog ends a connection after at most 512 packet intervals, far
below half the range of either sequence number. Left out are datagrams that the
handler drops without a change (unknown connection, wrong address), the
connected address item without a sequence number, and data of a wrong length.

`ForwardOpen`: a request is a record of the fields of the message, its path a
sequence of segments. `dummy` is what survives in `g_dummy_connection_object` from
one request to the next, `conn` holds the pools (exclusive owner, input only, listen
only, class 3), `list` is `connection_list` as in `ConnectionList`, `config`
the data of the configuration assembly, `answer` the last response. The parser runs over the segments in the order of the code, with the words
that are left, and leaves the dummy as it is when it fails. Instance 0 of a class is the class object, which
the parser accepts and writes into the dummy like a connection point; no connection is
granted with it, since a point is never 0 (`PointsAssumption`). The bytes behind the
path are those of a zeroed buffer, which read as a port segment. A connection that joins
a production only has to find an established producer: that this one also has a
socket (`cip/appcontype.c:344`) is a matter of `IoConnections`, so `ForwardOpen`
may grant what the code refuses. What a close or a
time-out takes along is the subject of `IoConnections`; here it may be any listen
only connections (and input only connections when an owner times out). Not
modelled: GetConnectionData by number and GetConnectionOwner, which change nothing,
and the random part of connection ids with its wrap-around.

`ExplicitMessages`: a client is a TCP socket with its session; `toDevice` and
`toClient` are the two directions of the stream, which keeps the order. An answer is
lost when `send()` does not take it. A client repeats a request with the sequence
count it had and drops the connection when it gives up. `pool` holds the class 3
connections with the sequence count and the stored reply of the last request.
`executed` records which numbered requests took effect. A request is either a
`"Read"` (any service that touches no connection), a `"Reset"`, which closes all
connections, or the Forward Open or Close of a connection, also of the one the
request came over. The global CPF structure is not a variable: every field of it
that a reply reads is written for the request, apart from requests with fewer than
two items, which are left out. Requests with items behind the first two are not, whatever
those are and whatever the item count says. IO connections are in `connection_list` too,
where `GetConnectedObject` looks for an id; they are not in this module, and a client
uses the ids that it was given. Messages other than class 3 requests are sent when
the streams are empty. UDP shares no state with TCP, so a behaviour of `MCMessages`
has one or the other.

`Objects`: `objects` is the data of the objects in RAM, `s_active_dscp` the values in
use, `cfg` the two files. A request is octets, followed in the buffer by octets of
an earlier message; with it goes the list of `segments` that its sender meant to
write, which no action reads. `Sound` says that the octets are those segments and
all are logical ones, `Foreign` that another one is among them, `Overlong` that
the path counts more than was sent, and `Named` is the object that the segments name:
the reference against which the decoder is checked. Storing takes two steps, since opening a file for writing
empties it and closing it fills it: `phase` is `"storing"` or `"booting"` in between,
and `Crash` may come there. `promise` is history: the values that the last complete
store has written, none after a failure; `commanded` is the extended status that
was set last, and whether it was merged into the status word since. `s_active_dscp` takes the
values of the QoS object when the stack comes up, since `NetworkHandlerInitialize`
calls `CipQosUpdateUsedSetQosValues` (`ports/generic_networkhandler.c:129`) behind
`NvdataLoad`, and when a reset does the same. `focus` in `MCObjects` lets a behaviour be
about one group of objects. Left out: an empty request (its length becomes -1),
short strings with a length of 128 to 254, `g_run_idle_state`, which nothing here
reads, and power loss (only the process is killed: the code does not sync its
files).

## Runs

Runs that pass:

| Run | Shows |
|---|---|
| `encap` | sessions, timers, sockets, pool and list agree; triads are unique; a handle and its socket end together, except for a socket that an IO connection closes, and no two handles share one; the only connection of a session ends with it; a session whose client is silent or gone is reclaimed |
| `io` | pool and list agree, one multicast producer, an exclusive owner produces, production is handed over, the listen only connections end with the last master |
| `forward_open` | a granted connection has the connection points of its own path, the answer is about it, sharers of a production agree, a close ends the triad it names, the size in a refusal leads to a grant, configuration data does not change under a connection |
| `messages` | a class 3 request takes effect at most once and its own answer is accepted (refinement of `RequestReply`), replies are well formed, requests are answered at last; a delayed List Identity answer is sent, in the time that was asked for |
| `objects` | a request reaches the attribute its path names, answers are true, stored values survive restarts and kills, the status word shows faults, DSCP values take effect with a restart or a reset |
| `consumed_data` | the output assembly never goes back and holds the newest data, only new data keeps a connection open, a silent connection ends and takes the session with it when nothing at all came |

Runs that TLC refutes, each with a finding in `PROJECT.json` that quotes the
statement the code does not keep:

| Run | Shows |
|---|---|
| `encap_assert` | one client more than there are sessions fails the listener's assertion |
| `encap_hang` | the time-out of a class 3 connection whose session is gone never returns |
| `encap_inactivity` | the inactivity of a socket closes the connections of another session |
| `encap_socket` | a client that was just accepted has the session of another one, whose socket an IO connection closed |
| `io_socket` | closing one IO connection closes the UDP socket another one needs |
| `io_freed_node` | a loop over `connection_list` goes on from a freed node |

The models also show, without a run of their own:

- a session with two class 3 connections closes one of them when it ends, and
  the other one stays (`Class3ConnectionBasedOnSession`);
- a TCP socket without a session has no timer and is never closed for
  inactivity;
- with enough class 3 connections `connection_list` has no node left for an IO
  connection that found a free entry (`status` = `"null_node"`);
- a listen only connection can be opened next to an owner that has timed out,
  and is then without a producer;
- a connection that asks for multicast consumption gets no socket: success and
  failure of the call are exchanged (`ChannelsOpen`);
- both handles of a connection are closed even when they are the same number or
  were closed before; in between, the number may have gone to a TCP client
  (`ChannelsClosed`; what becomes of the client's session is the subject of `encap_socket`);
- every Forward Open creates a UDP socket; when no direction of the connection
  uses it (no consumption, and production that joins an existing one), nothing
  closes it once `udp_io_messaging` names the next one;
- the data of the first datagram of a connection is skipped when its sequence
  count is zero or in the upper half of the range, because it is compared with
  the zero of an empty connection (the exception in `LatestDataApplied`);
- a connection whose Forward Open asks for one direction only gets the connection
  point of the other direction from an earlier request, out of the dummy; no direction that it asked for is affected (`OwnConnectionPoints`);
- a size that is too small for the run/idle header is answered with a size that is
  too small again; the second retry fits (`SizeHintConverges`);
- with a production inhibit time behind the connection points, which counts as two
  words, the parser can stop before the last segment; what it has read by then are the
  points that the path names;
- a refused Forward Open may answer with sockaddr items that the item count does
  not count, and a request with optional items that are no sockaddr items, are two of
  one type or are not there at all gets its own item count back with fewer items
  (`enet_encap/cpf.c:245`, 277-306, 320-322, 626 and 692-715): the two exceptions in
  `RepliesFit`;
- the first request of a class 3 connection is taken for a repetition when its
  sequence count is zero, and is answered with an empty reply;
- the 16 bit member id in a path counts two words and passes one, so the data of
  such a request begins two octets early (the exception in `RequestReachesNamed`);
- SetAttributeSingle with less data than the attribute has takes the rest from
  what lies behind the message (the exception in `AnswerTrue`);
- TCP/IP settings are acknowledged, but `NvTcpipStore` empties `tcpip.cfg` and nobody
  reads it; every restart of the process returns to DHCP and 120 seconds;
- a reset to the initial configuration changes the values in RAM and not `qos.cfg`:
  the old values are back after the next start;
- `NvdataLoad` writes `qos.cfg` again after it could be read and not after it could
  not, so every start opens a window in which a kill loses the settings;
- `SetDeviceStatus` writes the status word without the Major Fault override, so a fault
  that it reports is shown only after the next merge (`StatusShowsFault`), and
  nothing sets the extended status back when the last IO connection ends;
- `last_package_watchdog_timer` is zero until the first datagram and wraps
  around, so the session of an originator that never sent one stays open.

Bounds. `encap` has three sockets, two sessions and two connections: one
socket more than sessions, so that a client can be without session and a table
can be full, and both connections can be of one session or one of each. The
inactivity time-out is one tick. The runs that TLC refutes have the
fewest sockets, sessions and connections that show what they are about. `io` has one exclusive owner, two input only and one listen only
connection: production can pass from the owner to one input only connection and
on to the other while a listener watches. Two socket numbers are enough for one
to be reused. `consumed_data` has numbers modulo 8 with a window of 3, the
largest that the comparison can bear; five datagrams reach the wrap-around from
either start, on both sides of a second Forward Open. A watchdog of four and an
initial one of five, in steps of one or two, let a datagram come at any point of
its run. The run may stop: sending and opening are bounded, so deadlock is not
checked.
`forward_open` has seventeen requests of two originators, eight that can be granted
and nine that are refused for different reasons, over pools of one: every pool can
be full, every type can meet every other, and every early return of the parser and
of the checks is taken. `messages` has one client, one connection and sequence
counts modulo 2, so that the third request has the number of the first; one answer
may be lost and a request repeated twice, so a lost answer never exhausts the
retries; two connections are opened one after the other, so an answer of the old
one can meet the new one. `ListIdentity` has two places for answers and two
requesters that ask again and again. `objects` has three starts (one restart on
the file of the other), values on both sides of each limit, and a reply of 20
octets that three attributes overrun.
Symmetry is declared in `io` for socket numbers and originators, which the
code only compares; not in runs with liveness.

Fairness: in `encap` time passes and the inactivity check of each socket is
run; in `consumed_data` `ManageConnections` is called. All are unconditional parts
of `NetworkHandlerProcessCyclic`, which the thread calls in a loop. In `messages` the
stack serves its sockets and `ManageConnections` is called, for the same reason; for
`RequestAnswered` the client has to read its replies and to repeat what is not
answered, which is an assumption on the client and no part of this code. Otherwise
nothing is assumed of clients, originators or the network.

Refinement. `AtMostOnce` is `RequestReply!Spec` with `issued` the number of a client's
last request, `executed` as recorded where a service runs, and `answered` the number
in the answer that the client accepted. It is the duplicate detection of
`NotifyConnectedCommonPacketFormat` that makes it true; a reply that is stored for
the wrong connection, or too late, breaks it.

## Proofs

`Encap_proofs` proves for any number of sockets, addresses, sessions and
connections that the six invariants of the run `encap` hold. Their conjunction
`IInv` is inductive: `RegistrationFindsTimer` needs that timers and sessions
correspond one to one (so a free session means an empty timer, by a counting
argument over the two tables), `TimersMatchSessions` needs that no two sessions
share a socket, and `TriadsUnique` needs that pool and list agree. From `IInv`
follow the action properties `SessionEndsWithSocket` and
`LoneConnectionEndsWithSession`. `ConnectionList_proofs` has the lemmas on
insertion and removal that keep the list a linear order. The assumption is
`EncapAssumption`: the numbers are natural numbers and the null values are not
among the proper ones.

`ConsumedData_proofs` proves the safety properties of the run `consumed_data` for
every width of the sequence numbers and timers, so for the 32, 16 and 64 bits of
the code, and for any number of datagrams. `SeqCompare` is the arithmetic: two
numbers at most `Window` apart are told apart by the sign of their difference
when the modulus is more than twice `Window`. The inductive invariant adds to the
properties that what is on the way is in order and carries the numbers that
follow from the start of its connection (`NetOrdered`), that what the connection
took fits into that order (`TakenOrdered`), without which a comparison of
sequence numbers would say nothing about age, and that the second watchdog
measures the time since any datagram (`LastPackageMeasuresQuiet`). The assumption
is `ConsumedDataAssumption`: the window is less than half of each range, and the
time-outs fit into a timer.

`Objects_proofs` proves `SettingsDurable`, `StatusShowsFault` and `ActivatedByRestart`
for every set of requests, whatever their octets, and any number of restarts.
`RouterEffect` says what the message router may do: no service touches the Identity
object, and of the services only Reset changes the DSCP values in use, to those of the QoS
object. The inductive invariant says where a promise is kept: in RAM as long as the
stack runs, in the file as long as nobody writes it (`PromiseKept`); and that the
extended status behind a fault is the one set last (`StatusKept`), without which
clearing the fault could show anything. The assumption is
`DeviceStatusAssumption`: what the application passes to `SetDeviceStatus` consists
of flags of `CipIdentityStatus`, those of faults included, and of an extended status
in its four bits.

`TypeOK` of `Objects` is proved from an invariant of its own, `TypeInv`: the
decoders of integers do not look at the size of the data, so what they read are octets
only because the position behind the path is still inside the buffer. `DecoderStops`
shows that for every path: the position of `DecodePaddedEPath` never runs ahead of the
words it counts, and a path that counts more words than the message has is refused
(`StructureInBuffer`). It is an induction over the turns of the loop, done with the
least turn that would break it (`UpTo`). `TypeInv` also bounds the DSCP values in `qos.cfg`,
because a start loads them unchecked. The assumptions are `RequestAssumption` (messages
and stale buffer are octets) and `AssemblyAssumption`.

`RequestReachesNamed` and `AnswerTrue` are about what loops compute from the octets of
a request, of any length. The prover has no induction over data and does not know
that a recursive function exists. Both are made up for by `UpTo`, induction as a
fact about a set of numbers below a bound, and by lemmas that build the function of a
loop up to its bound and so show that the definition chooses it (`DecoderWalks`,
`GetListWalks`, `SetListWalks`, `RecordsWalk`).

`ReachesNamed` then follows the decoder over the segments of the sender:
after n turns it stands behind n segments and has `Named` of them (`LogicalsRead`), as
long as none of them is a 16 bit member id, which may only be the last one
(`SoundDecoded`); at a segment that is no logical one it stops with an error
(`ForeignRefused`). `DataFound` says that the octets behind the path are the data that
was sent.

`AnswersTrue` puts this together with the services. `ValueFits` goes through the tables
of the classes: every attribute that can be read has a value that fits into its
type. `ReadBack` says that such a value is read as it was encoded, for every type,
the path in attribute 4 of the TCP/IP object included. It needs the status word to
stay below 2^16, which is an invariant of its own (`ExtendedInRange`: no run/idle
header and no call of the application sets a bit outside of `kExtStatusMask`).
`WhatCanBeSet` finds the attributes that pass the checks of `SetAttributeSingle`,
`DecodedSent` says that their decoders read what was sent, `SetTrue` that a get reads
what was set and every other attribute as before. `GetListTrue` follows the loop of
`GetAttributeList`: as long as it is successful it has one record for each attribute,
with its value. `SetListRefused` says that `SetAttributeList` never succeeds, since no
attribute of the Identity object can be set. `RouterReturns` puts the services
together. The assumptions are `RequestAssumption`, `AssemblyAssumption` (numbers and
lengths of assemblies have 16 bits) and `DeviceStatusAssumption`; requests are
otherwise arbitrary, and so are the product name and the space of a reply.

`IoConnections_proofs` proves all safety and action properties of the run
`io` for any number of sockets, originators and connections and any
mix of connection types. A close is taken apart into what the code does: the
producing socket is passed on, the entries are emptied, the nodes are removed; and a
lemma for each says what it does to `Consistent`, which is stated of any pair of
pools and list because a Forward Open that reuses an entry runs a close in the
middle of its own step. That one connection at most is in charge is part of it: an
owner that joins a production takes the socket from the one that has it.
The assumption is `IoAssumption`: sizes are natural numbers, the types are those of
the code, null values are not proper ones.

`ForwardOpen_proofs` proves the properties of the run `forward_open` for any set of
requests, any pools and assemblies. The inductive invariant adds to them what the
list says about age: of all connections with one triad the established one is the
newest (`NewestEstablished`), because a request with the triad of an established
connection is refused and a new connection goes to the head. So the first
connection with a triad is the live one, which is what Forward Close relies on, and
the entry that a new request gets is not on the list when it is put there
(`EntryIsFree`). `OwnPaths` says that what a connection has comes from its own request and
not from an earlier one through the dummy object; `OwnerPointKept` that an owner
produces the assembly of its point, which `SharedProductionAgrees` needs when an
owner joins a production. `ParsedRequest` follows the parser over the segments, in the order in which the code
reads them: key and production inhibit time are no class (`ReadsToClass`), the class
comes next and its instance behind it (`ReadsToPoints`), and the connection points
behind those, one for each direction (`PointsParsed`). A path that was read with success
therefore names the points that were read (`NamesPoint`, which is about the path
alone), whatever the parser leaves unread behind them. The assumptions are
`PoolsAssumption`, `PointsAssumption` (the application's points are registered
assemblies, whose numbers are not 0), `NoConnAssumption` and `MessagesAssumption`.

`ExplicitMessages_proofs` proves that `ExplicitMessages` implements `RequestReply`, and
`RepliesFit`, for any number of clients and connections, any modulus of the sequence
counts and any numbers of losses and repetitions. The messages of a
client arrive in the order of their numbers and at most one request on a connection
was not executed yet (`Numbering`); the sequence count of the connection object tells
whether that one was executed (`Tracking`); and nobody else uses the connection, since
its id was granted once, to one client (`Grants`). With these a step that executes a
request maps to `RequestReply!Execute` with a number larger than all before, and
every other one to the issue, the answer or a stutter. The assumptions are
`ExplicitAssumption`, `OtherAssumption` (the other traffic has sender contexts of its own and is not sent
on a connection; when it goes to the common packet format it has an address and a data item,
and may have and count anything behind them)
and `PacketAssumption`.

`ListIdentity_proofs` proves `DelayKept` for all delays and any number of places: the
age of an answer and its remaining time together stay below the delay that was asked
for, and an answer that is due is sent in the same cycle. The assumption is
`ListIdentityAssumption`.

Only model-checked: the liveness properties (fairness and `ENABLED` are out of
the prover's reach). Every invariant, every action property and the refinement that
a passing run checks is also proved. What `GetAttributeAll` puts into its reply is
neither: `AnswerTrue` only says that it changes nothing.

## Not modelled

Left out for good: logging, the network interface configuration
(`networkconfig.c`), the hooks of the application that this build leaves empty, the
DLR, file and security objects, which the build switches off, the USB serial port.

Left for an extension, in this order:

1. `ProducedData`: the production and inhibit timers of `ManageConnections` and
   `TriggerConnections`, at their widths, and the sequence counts of production
   over a hand-over.
2. `StackThread`: start and stop through JNI while the old thread still runs, and
   the input data that both sides share. Most of what happens there is a data race
   on the whole global state, so little can be promised.
3. Modbus: `ModbusTransaction` (retries), `ThreadPool` and the listeners,
   the slave factory, the process image with its requests. It shares nothing with
   the C stack and is a project of its own.
