----------------------------- MODULE ForwardOpen -----------------------------
(***************************************************************************)
(* The Connection Manager's requests: Forward Open from the bytes of its   *)
(* connection path to the answer, Forward Close and Search Connection      *)
(* Data.                                                                   *)
(*                                                                         *)
(*   cip/cipconnectionmanager.c   the requests and the path parser         *)
(*   cip/cipepath.c               the segments of a path                   *)
(*   cip/cipelectronickey.c       the electronic key                       *)
(*   cip/cipconnectionobject.c    what a request puts in a connection      *)
(*   cip/appcontype.c, cip/cipioconnection.c                               *)
(*                                the checks of an IO connection           *)
(*                                                                         *)
(* A request is parsed into the one g_dummy_connection_object, which the   *)
(* new connection is copied from.  Of the fields of the dummy only the     *)
(* consumed and produced path survive a request: the others are written    *)
(* before anything reads them.  Sockets, and which connections a close     *)
(* takes along, are the subject of IoConnections; here a channel may fail  *)
(* to open and a close may take along any listen only connections.         *)
(***************************************************************************)
EXTENDS Integers, SequencesExt, ConnectionList

CONSTANTS
    Requests,          \* the Forward Open requests that originators send
    Messages,          \* what is received of each of them
    AssemblyLength,    \* registered assembly instances and their lengths
    OwnerPoint,        \* [out, in, cfg] of the exclusive owner connection
    InputPoint,        \* of the input only connections
    ListenPoint,       \* of the listen only connections
    NumInputOnly, NumListenOnly, NumExplicit,
    ConsumeRunIdle,    \* s_consume_run_idle
    ProduceRunIdle,    \* s_produce_run_idle
    Identity,          \* g_identity: vendor, product, device, major, minor
    SizeModulus,       \* of size_t
    NoConn             \* content of a pool entry in state NonExistent

AssemblyClass == 4
MessageRouterClass == 2

(* Classes with an object: identity, message router, assembly, connection  *)
(* manager, QoS, TCP/IP interface, Ethernet link.  All but the assembly    *)
(* have the one instance 1.                                                *)
RegisteredClasses == {1, MessageRouterClass, AssemblyClass, 6, 72, 245, 246}

GetCipInstances(class) ==
    IF class = AssemblyClass THEN DOMAIN AssemblyLength ELSE {1}

(* Numbers that GetCipInstance finds something for: 0 is the class itself. *)
InstanceNumbers(class) == {0} \cup GetCipInstances(class)

InstanceNumMax == 65535    \* kCipInstanceNumMax

NoPit == 256           \* "we haven't got a PIT segment"
NotWritten == -1       \* no point: the parser leaves that path of the dummy alone

(* The pools: g_exlusive_owner_connections, g_input_only_connections,      *)
(* g_listen_only_connections and explicit_connection_object_pool.          *)
ExclusiveOwner == 1..1
InputOnly == 2 .. 1 + NumInputOnly
ListenOnly == 2 + NumInputOnly .. 1 + NumInputOnly + NumListenOnly
IoSlots == ExclusiveOwner \cup InputOnly \cup ListenOnly
Explicit == 2 + NumInputOnly + NumListenOnly .. 1 + NumInputOnly + NumListenOnly + NumExplicit
Slots == IoSlots \cup Explicit

ASSUME PoolsAssumption ==
    NumInputOnly \in Nat /\ NumListenOnly \in Nat /\ NumExplicit \in Nat

(* The application connects registered assemblies, all paths to one        *)
(* configuration assembly, which is as long as some data segment.          *)
ASSUME PointsAssumption ==
    /\ 0 \notin DOMAIN AssemblyLength /\ DOMAIN AssemblyLength \subseteq Nat
    /\ \A instance \in DOMAIN AssemblyLength : AssemblyLength[instance] \in Nat
    /\ \A point \in {OwnerPoint, InputPoint, ListenPoint} :
          /\ point.cfg = OwnerPoint.cfg
          /\ point.out \in DOMAIN AssemblyLength /\ point.in \in DOMAIN AssemblyLength
    /\ AssemblyLength[OwnerPoint.cfg] \in Nat /\ AssemblyLength[OwnerPoint.cfg] % 2 = 0
    /\ SizeModulus \in Nat \ {0}

-----------------------------------------------------------------------------
(* Segments of a path.  format is the width of a logical value, value what *)
(* the segment carries; a data segment carries the words value.            *)
SegmentTypes == {"port", "logical", "network", "symbolic", "data",
                 "constructed", "elementary", "reserved"}

LogicalTypes == {"class", "instance", "member", "point", "attribute",
                 "special", "service", "extended"}

NetworkSubtypes == {"schedule", "fixed_tag", "pit_ms", "safety", "pit_us", "extended_network"}

DataSubtypes == {"simple", "symbol"}

LogicalFormats == {8, 16, 32}

(* The buffer a request is received in is zeroed: behind the path lies     *)
(* what reads as a port segment.                                           *)
BehindPath == [type |-> "port", sub |-> "none", format |-> 8, value |-> 0]

IsLogical(seg, sub) == seg.type = "logical" /\ seg.sub = sub

(* An electronic key of format 4.                                          *)
IsKey(seg) == IsLogical(seg, "special") /\ seg.format = 8

IsPit(seg) == seg.type = "network" /\ seg.sub = "pit_ms"

(* Words that a segment takes up in the path.                              *)
Words(seg) ==
    CASE IsKey(seg) -> 5
      [] seg.type = "logical" -> (CASE seg.format = 8 -> 1 [] seg.format = 16 -> 2 [] OTHER -> 3)
      [] seg.type = "data" -> 1 + Len(seg.value)
      [] OTHER -> 1

PathWords(path) == FoldLeft(LAMBDA n, seg : n + Words(seg), 0, path)

IsSegment(seg) ==
    /\ seg.type \in SegmentTypes
    /\ seg.type = "logical" =>
          /\ seg.sub \in LogicalTypes /\ seg.format \in LogicalFormats
          /\ ~IsKey(seg) => seg.value \in Nat
    /\ seg.type = "network" => seg.sub \in NetworkSubtypes /\ seg.value \in Nat
    /\ seg.type = "data" => seg.sub \in DataSubtypes

-----------------------------------------------------------------------------
(* Network connection parameters: a word, in a Large Forward Open a double *)
(* word, of bit fields.                                                    *)
Field(params, large, word, double, width) ==
    (params \div 2^(IF large THEN double ELSE word)) % 2^width

GetConnectionType(params, large) ==
    <<"null", "multicast", "p2p", "invalid">>[1 + Field(params, large, 13, 29, 2)]

GetPriority(params, large) ==
    <<"low", "high", "scheduled", "urgent">>[1 + Field(params, large, 10, 26, 2)]

GetConnectionSizeType(params, large) ==
    <<"fixed", "variable">>[1 + Field(params, large, 9, 25, 1)]

GetConnectionSize(params, large) == params % 2^(IF large THEN 16 ELSE 9)

(* The byte with transport class and production trigger.                   *)
GetProductionTrigger(transport) ==
    LET trigger == (transport \div 16) % 8
    IN IF trigger <= 2 THEN <<"cyclic", "change_of_state", "application">>[1 + trigger] ELSE "invalid"

GetTransportClass(transport) == transport % 16    \* above 3 is invalid

(* ConnectionObjectInitializeFromMessage: what the connection object holds *)
(* of a request s that is sent; words is the connection path size, excess  *)
(* by how many words the message is longer than that.                      *)
Received(s) ==
    [triad |-> s.triad, near |-> s.near, rpi |-> s.rpi,
     otot |-> GetConnectionType(s.oparams, s.large),
     ttoo |-> GetConnectionType(s.tparams, s.large),
     osize |-> GetConnectionSize(s.oparams, s.large),
     tsize |-> GetConnectionSize(s.tparams, s.large),
     priority |-> GetPriority(s.tparams, s.large),
     sizetype |-> GetConnectionSizeType(s.tparams, s.large),
     trigger |-> GetProductionTrigger(s.transport),
     class |-> GetTransportClass(s.transport),
     words |-> PathWords(s.path), excess |-> s.excess, path |-> s.path]

ASSUME MessagesAssumption ==
    \A r \in Requests :
        /\ DOMAIN Messages[r].path = 1 .. Len(Messages[r].path) /\ Len(Messages[r].path) \in Nat
        /\ \A i \in DOMAIN Messages[r].path : IsSegment(Messages[r].path[i])
        /\ Messages[r].osize \in Nat

(* The messages, tabulated over the requests.                              *)
Message == [r \in Requests |-> Messages[r]]

-----------------------------------------------------------------------------
VARIABLES
    dummy,    \* consumed_path and produced_path of g_dummy_connection_object
    conn,     \* the pools
    list,     \* connection_list
    config,   \* data of the configuration assembly
    answer    \* response sent in the last step

vars == <<dummy, conn, list, config, answer>>

NoAnswer == [kind |-> "none"]

Triad(c) == Message[c.req].triad
Originator(c) == Message[c.req].triad[1]    \* ConnectionObjectEqualOriginator
Established(c) == c.state = "Established"

(* connection_list.first, 0 for NULL.                                      *)
First(l) == FirstIn(l, Slots, 0)

-----------------------------------------------------------------------------
(* CheckElectronicKeyData: 0 matches everything; with the compatibility    *)
(* bit the minor revision may also be an older one.                        *)
CheckElectronicKeyData(key) ==
    IF ~(key.vendor \in {0, Identity.vendor} /\ key.product \in {0, Identity.product})
    THEN "VendorIdOrProductcodeError"
    ELSE IF key.device \notin {0, Identity.device} THEN "DeviceTypeError"
    ELSE IF \/ ~key.compatible /\ key.major = 0
            \/ ~key.compatible /\ key.major = Identity.major /\ key.minor \in {0, Identity.minor}
            \/ key.compatible /\ key.major = Identity.major /\ key.minor \in 1 .. Identity.minor
    THEN "Success"
    ELSE "RevisionMismatch"

(* The state of the parser: the segment it is at, the words it believes to *)
(* be left, the general and extended status, and what it found.            *)
ParserStart(m) ==
    [at |-> 1, left |-> m.words, general |-> "Success", extended |-> "Success",
     class |-> 0, instance |-> 0, pit |-> NoPit, cfg |-> 0,
     cons |-> NotWritten, prod |-> NotWritten, config |-> <<>>]

SegmentAt(m, p) == IF p.at \in DOMAIN m.path THEN m.path[p.at] ELSE BehindPath

Fails(p, general, extended) == [p EXCEPT !.general = general, !.extended = extended]

(* The parser goes on behind a segment that it counts as n words.          *)
Advance(p, n) == [p EXCEPT !.at = @ + 1, !.left = (@ - n) % SizeModulus]

ParseSize(m, p) ==
    CASE m.words = 0 -> Fails(p, "Error", "Success")
      [] m.excess > 0 -> Fails(p, "TooMuchData", "none")
      [] m.excess < 0 -> Fails(p, "NotEnoughData", "none")
      [] OTHER -> p

ParseKey(m, p) ==
    LET seg == SegmentAt(m, p)
        verdict == CheckElectronicKeyData(seg.value)
    IN IF ~IsKey(seg) THEN p
       ELSE IF p.left < 5 THEN Fails(p, "NotEnoughData", "none")
       ELSE IF verdict # "Success" THEN Fails(p, "ConnectionFailure", verdict)
       ELSE Advance(p, 5)

(* Only a connection that is not cyclic may have a production inhibit      *)
(* time.                                                                   *)
ParsePit(m, p) ==
    LET seg == SegmentAt(m, p)
    IN IF m.trigger # "cyclic" /\ IsPit(seg)
       THEN [Advance(p, 1) EXCEPT !.pit = seg.value]
       ELSE p

(* The class counts as one word whatever its format is.                    *)
ParseClass(m, p) ==
    LET seg == SegmentAt(m, p)
    IN IF ~IsLogical(seg, "class") THEN Fails(p, "ConnectionFailure", "InvalidSegmentType")
       ELSE IF seg.value \notin RegisteredClasses
       THEN Fails(p, "ConnectionFailure",
                  IF seg.value >= 200 THEN "InvalidSegmentType" ELSE "InconsistentPathCombo")
       ELSE [Advance(p, 1) EXCEPT !.class = seg.value]

(* An instance counts as two words when its number needs two.              *)
InstanceWords(n) == IF n > 255 THEN 2 ELSE 1

ParseInstance(m, p) ==
    LET seg == SegmentAt(m, p)
    IN IF ~IsLogical(seg, "instance") THEN p    \* no config data
       ELSE IF seg.value \notin InstanceNumbers(p.class)
       THEN Fails(p, "ConnectionFailure", "InvalidSegmentType")
       ELSE [Advance(p, InstanceWords(seg.value)) EXCEPT !.instance = seg.value]

(* A class 3 path ends here and leads to the message router.               *)
ParseClass3(m, p) ==
    IF p.left > 0 THEN Fails(p, "ConnectionFailure", "InvalidSegmentType")
    ELSE IF p.class # MessageRouterClass \/ p.instance # 1
    THEN Fails(p, "ConnectionFailure", "InconsistentPathCombo")
    ELSE [p EXCEPT !.cfg = 1, !.prod = 1]

(* The connection point of direction dir, unless the request leaves the    *)
(* direction out.  The point is in the dummy before it is checked.         *)
ParsePoint(m, p, dir) ==
    LET seg == SegmentAt(m, p)
        q == [p EXCEPT ![dir] = seg.value]
    IN IF m[IF dir = "cons" THEN "otot" ELSE "ttoo"] = "null" THEN p
       ELSE IF \/ ~(IsLogical(seg, "instance") \/ IsLogical(seg, "point"))
               \/ seg.value > InstanceNumMax
       THEN Fails(p, "ConnectionFailure", "InvalidSegmentType")
       ELSE IF seg.value \notin InstanceNumbers(p.class)
       THEN Fails(q, "ConnectionFailure", "InconsistentPathCombo")
       ELSE Advance(q, InstanceWords(seg.value))

(* One turn of the loop over what is left of the path: configuration data  *)
(* or a production inhibit time, which counts as two words here.  The      *)
(* extended status "offset" is the offset of the segment that the parser   *)
(* does not accept.                                                        *)
ParseTrailing(m, p, seg) ==
    CASE p.general # "Success" \/ p.left = 0 -> p
      [] seg.type = "data" /\ seg.sub = "simple" ->
            [Advance(p, 1 + Len(seg.value)) EXCEPT !.config = seg.value]
      [] seg.type = "data" /\ seg.sub # "simple" -> Fails(p, "PathSegmentError", "Success")
      [] IsPit(seg) /\ m.trigger # "cyclic" -> [Advance(p, 2) EXCEPT !.pit = seg.value]
      [] IsPit(seg) /\ m.trigger = "cyclic" -> Fails(p, "PathSegmentError", "offset")
      [] seg.type = "network" /\ ~IsPit(seg) -> Fails(p, "PathSegmentError", "Success")
      [] OTHER -> Fails(p, "PathSegmentErrorInUnconnectedSend", "offset")

(* The loop leaves the class and the points that were found alone; the     *)
(* offset is the only extended status that it writes.                      *)
ParseRest(m, p) ==
    LET q == FoldLeft(LAMBDA q, seg : ParseTrailing(m, q, seg), p,
                      SubSeq(m.path, p.at, Len(m.path)) \o <<BehindPath>>)
    IN IF p.left = 0 THEN p
       ELSE [p EXCEPT !.at = q.at, !.left = q.left, !.general = q.general,
                      !.extended = IF q.extended = "offset" THEN "offset" ELSE "Success",
                      !.pit = q.pit, !.config = q.config]

(* ParseConnectionPath returns at the first step that fails: q is the      *)
(* parser after the step that follows p.                                   *)
Then(p, q) == IF p.general = "Success" THEN q ELSE p

(* The path up to the object: key, production inhibit time, class and      *)
(* instance.                                                               *)
ParseObject(m) ==
    LET sized == ParseSize(m, ParserStart(m))
        keyed == Then(sized, ParseKey(m, sized))
        inhibited == Then(keyed, ParsePit(m, keyed))
        classed == Then(inhibited, ParseClass(m, inhibited))
    IN Then(classed, ParseInstance(m, classed))

ParsePoints(m) ==
    LET object == ParseObject(m)
        consumed == Then(object, ParsePoint(m, [object EXCEPT !.cfg = object.instance], "cons"))
    IN Then(consumed, ParsePoint(m, consumed, "prod"))

ParseConnectionPath(m) ==
    IF m.class = 3 THEN Then(ParseObject(m), ParseClass3(m, ParseObject(m)))
    ELSE Then(ParsePoints(m), ParseRest(m, ParsePoints(m)))

Parsed == [r \in Requests |-> ParseConnectionPath(Message[r])]

(* Mutant: a path that the dummy already has is not written.               *)
PathsKept(p) ==
    [cons |-> IF dummy.cons # 0 THEN dummy.cons ELSE p.cons,
     prod |-> IF dummy.prod # 0 THEN dummy.prod ELSE p.prod]

(* The dummy after the parser: a path that is not written stays.           *)
PathsOf(p) ==
    [cons |-> IF p.cons = NotWritten THEN dummy.cons ELSE p.cons,
     prod |-> IF p.prod = NotWritten THEN dummy.prod ELSE p.prod]

-----------------------------------------------------------------------------
(* AssembleForwardOpenResponse: about the triad of connection object c, to *)
(* request r.  hint is the connection size that would be correct.          *)
ForwardOpenResponse(r, triad, general, extended, hint) ==
    [kind |-> "open", req |-> r, triad |-> triad, general |-> general,
     extended |-> IF general \in {"NotEnoughData", "TooMuchData"} THEN "none" ELSE extended,
     hint |-> hint]

Failure(r, general, extended) ==
    ForwardOpenResponse(r, Message[r].triad, general, extended, 0)

(* Mutant: CheckForExistingConnection finds nothing.                       *)
NeverMatching(m) == FALSE

(* CheckForExistingConnection: a matching request.                         *)
Matching(m) == \E s \in list.members : Established(conn[s]) /\ Triad(conn[s]) = m.triad

(* What ForwardOpenRoutine and the handlers of null and of matching        *)
(* requests refuse, and the trigger check of the handler that opens.       *)
RefusedAtOnce(m) ==
    IF m.otot = "invalid" THEN "InvalidOToTConnectionType"
    ELSE IF m.ttoo = "invalid" THEN "InvalidTToOConnectionType"
    ELSE IF m.ttoo = "multicast" /\ ~m.near THEN "NotConfiguredForOffSubnetMulticast"
    ELSE IF m.otot = "null" /\ m.ttoo = "null" THEN "NullForwardOpenNotSupported"
    ELSE IF Matching(m) THEN "ConnectionInUseOrDuplicateForwardOpen"
    ELSE IF m.trigger = "invalid" THEN "TransportClassAndTriggerNotSupported"
    ELSE "Success"

RefuseForwardOpen(r) ==
    /\ RefusedAtOnce(Message[r]) # "Success"
    /\ answer' = Failure(r, "ConnectionFailure", RefusedAtOnce(Message[r]))
    /\ UNCHANGED <<dummy, conn, list, config>>

(* GetConnectionManagementEntry.                                           *)
ConnectableClasses == {MessageRouterClass, AssemblyClass}

(* The path has an error or leads to a class without connections.          *)
RefusePath(r, p) ==
    /\ \/ p.general # "Success" /\ answer' = Failure(r, p.general, p.extended)
       \/ /\ p.general = "Success" /\ p.class \notin ConnectableClasses
          /\ answer' = Failure(r, "Error", "InconsistentPathCombo")
    /\ UNCHANGED <<conn, list, config>>

NewConnection(r, p, pit) ==
    [state |-> "Established", req |-> r, cons |-> p.cons, prod |-> p.prod, cfg |-> p.cfg,
     pit |-> pit]

(* Mutant: the new connection goes to the end of the list.                 *)
AddAtTail(l, s) ==
    [members |-> l.members \cup {s}, newer |-> l.newer \cup (l.members \X {s})]

AddNewActiveConnection(l, s) == InsertAtHead(l, s)

(* HandleNonNullNonMatchingForwardOpenRequest after its open function has  *)
(* put connection c into entry s of the pools rest: the success response   *)
(* is about the head of the list, the failure response about the dummy.    *)
Opened(r, s, c, l, rest) ==
    /\ list' = AddNewActiveConnection(l, s)
    /\ conn' = [rest EXCEPT ![s] = c]
    /\ answer' = ForwardOpenResponse(r, Triad(conn'[First(list')]), "Success", "Success", 0)

FirstOf(slots) == IF slots = {} THEN 0 ELSE Min(slots)

Free(slots) == {s \in slots : conn[s] = NoConn}

(* Mutant: the state of the entry is not looked at.                        *)
FirstExplicitConnection == FirstOf(Explicit)

GetFreeExplicitConnection == FirstOf(Free(Explicit))

EstablishClass3Connection(r, p) ==
    /\ p.general = "Success" /\ p.class = MessageRouterClass
    /\ IF GetFreeExplicitConnection # 0
       THEN Opened(r, GetFreeExplicitConnection, NewConnection(r, p, p.pit), list, conn)
       ELSE /\ answer' = Failure(r, "ConnectionFailure", "NoMoreConnectionsAvailable")
            /\ UNCHANGED <<conn, list>>
    /\ UNCHANGED config

-----------------------------------------------------------------------------
(* What an application connection type says to the points of p: the entry  *)
(* of its pool that the request gets, 0 for none, and the error.  An entry *)
(* that is in use is closed first: it timed out and is of the same         *)
(* originator.                                                             *)
Found(s) == [slot |-> s, error |-> "Success"]
NotFound(error) == [slot |-> 0, error |-> error]

TimedOutOf(slots, m) ==
    {s \in slots \ Free(slots) : ~Established(conn[s]) /\ Originator(conn[s]) = m.triad[1]}

GetExclusiveOwnerConnection(m, p) ==
    LET owner == FirstIn(list, {s \in list.members \cap ExclusiveOwner : conn[s].prod = p.prod}, 0)
    IN IF [out |-> p.cons, in |-> p.prod, cfg |-> p.cfg] # OwnerPoint THEN NotFound("Success")
       ELSE IF owner = 0 \/ owner \in TimedOutOf(ExclusiveOwner, m) THEN Found(1)
       ELSE NotFound("OwnershipConflict")

(* GetInputOnlyConnection and GetListenOnlyConnection, for the one path    *)
(* point and the pool slots behind it.  The code also wants a producer     *)
(* with a socket; a listen only request that it refuses for that may be    *)
(* granted here.                                                           *)
GetSharedConnection(m, p, slots, point) ==
    LET producers == {s \in list.members \cap IoSlots :
                        conn[s].prod = p.prod /\ Message[conn[s].req].ttoo # "null"}
    IN IF point.out # p.cons THEN NotFound("Success")
       ELSE IF point.in # p.prod THEN NotFound("InvalidProducingApplicationPath")
       ELSE IF point.cfg # p.cfg THEN NotFound("InconsistentPathCombo")
       ELSE IF slots = ListenOnly /\ producers = {}
       THEN NotFound("NonListenOnlyConnectionNotOpened")
       ELSE IF TimedOutOf(slots, m) # {} THEN Found(Min(TimedOutOf(slots, m)))
       ELSE IF Free(slots) # {} THEN Found(Min(Free(slots)))
       ELSE NotFound("TargetObjectOutOfConnections")

GetIoConnectionForConnectionData(m, p) ==
    LET owner == GetExclusiveOwnerConnection(m, p)
        input == GetSharedConnection(m, p, InputOnly, InputPoint)
        listen == GetSharedConnection(m, p, ListenOnly, ListenPoint)
    IN IF owner # NotFound("Success") THEN owner
       ELSE IF input # NotFound("Success") THEN input
       ELSE IF listen # NotFound("Success") THEN listen
       ELSE NotFound("InconsistentPathCombo")

(* Connections that the close of s can close: CloseIoConnection may take   *)
(* along listen only connections.                                          *)
ClosedWith(s) ==
    IF s \in Explicit THEN {{s}}
    ELSE {{s} \cup gone : gone \in SUBSET (list.members \cap ListenOnly)}

ClosedForReuse(s) == IF conn[s] = NoConn THEN {{}} ELSE ClosedWith(s)

(* The pools without the connections V.                                    *)
Emptied(V) == [s \in Slots |-> IF s \in V THEN NoConn ELSE conn[s]]

(* ProcessProductionInhibitTime; NoPit is no PIT segment.                  *)
ProductionInhibitTime(m, p) ==
    IF m.trigger = "cyclic" /\ p.pit = NoPit THEN m.rpi \div 4 ELSE p.pit

(* A connection object; pit is its production inhibit time.                *)
ConnectionObjects ==
    [state : {"Established", "TimedOut"}, req : Requests, cons : Nat, prod : Nat, cfg : Nat,
     pit : {Parsed[r].pit : r \in Requests}
             \cup {ProductionInhibitTime(Message[r], Parsed[r]) : r \in Requests}]

ASSUME NoConnAssumption == NoConn \notin ConnectionObjects

(* Mutant: the run/idle header is counted when there is no room for it.    *)
HeaderWithoutRoom(size, class, length, runIdle) ==
    LET count == IF class = 1 THEN 2 ELSE 0
    IN count + (IF runIdle /\ size - count < length + 4 /\ length > 0 THEN 4 ELSE 0)

(* diff_size: what a connection of the requested size carries besides the  *)
(* assembly, the sequence count and the run/idle header.  A size too small *)
(* for the header does not count it.                                       *)
HeaderSize(size, class, length, runIdle) ==
    LET count == IF class = 1 THEN 2 ELSE 0
    IN count + (IF runIdle /\ size - count > 0 /\ length > 0 THEN 4 ELSE 0)

(* The connection point setup refuses the size and names the right one.    *)
WrongSize(size, class, length, runIdle) ==
    length # size - HeaderSize(size, class, length, runIdle)

(* Mutant: only the packet intervals are compared.                         *)
SharedInterval(m, c, pit) ==
    IF m.rpi # Message[c.req].rpi THEN "RpiValuesNotAcceptable" ELSE "Success"

(* What a multicast request with inhibit time pit has to share with        *)
(* connection c that has its produced path.                                *)
SharedParameters(m, c, pit) ==
    IF m.rpi # Message[c.req].rpi THEN "RpiValuesNotAcceptable"
    ELSE IF m.sizetype # Message[c.req].sizetype THEN "MismatchedTToONetworkConnectionFixVar"
    ELSE IF m.priority # Message[c.req].priority THEN "MismatchedTToONetworkConnectionPriority"
    ELSE IF m.class # Message[c.req].class THEN "MismatchedTransportClass"
    ELSE IF m.trigger # Message[c.req].trigger THEN "MismatchedTToOProductionTrigger"
    ELSE IF pit # c.pit THEN "MismatchedTToOProductionInhibitTimeSegment"
    ELSE "Success"

(* The loop returns the first mismatch on the list l.                      *)
SharedMismatch(m, p, l, pit) ==
    LET bad == {s \in l.members : conn[s].prod = p.prod
                                    /\ SharedParameters(m, conn[s], pit) # "Success"}
    IN IF m.ttoo = "multicast" /\ bad # {} THEN SharedParameters(m, conn[FirstIn(l, bad, 0)], pit)
       ELSE "Success"

(* Mutant: configuration data is written under the connections that use it. *)
OverwriteConfigData(p, l) == [error |-> "Success", config |-> p.config]

(* HandleConfigData: data for the configuration assembly of p when the     *)
(* list is l.                                                              *)
HandleConfigData(p, l) ==
    LET shared == \E s \in l.members : conn[s].cfg = p.cfg
        Refused(error) == [error |-> error, config |-> config]
    IN IF p.config = <<>> THEN Refused("Success")
       ELSE IF shared
       THEN Refused(IF p.config = config THEN "Success" ELSE "OwnershipConflict")
       ELSE IF 2 * Len(p.config) # AssemblyLength[p.cfg]
       THEN Refused("InvalidConfigurationApplicationPath")
       ELSE [error |-> "Success", config |-> p.config]

(* The checks of EstablishIoConnection in their order, for the list l; the *)
(* size in the response is the one of the direction that failed.           *)
IoChecks(m, p, l) ==
    LET pit == ProductionInhibitTime(m, p)
        olen == AssemblyLength[p.cons]
        tlen == AssemblyLength[p.prod]
        Result(error, hint) == [error |-> error, hint |-> hint, config |-> config]
        data == HandleConfigData(p, l)
    IN IF m.trigger = "cyclic" /\ p.pit # NoPit /\ p.pit > m.rpi
       THEN Result("ProductionInhibitTimerGreaterThanRpi", 0)
       ELSE IF m.otot # "null" /\ WrongSize(m.osize, m.class, olen, ConsumeRunIdle)
       THEN Result("InvalidOToTConnectionSize",
                   olen + HeaderSize(m.osize, m.class, olen, ConsumeRunIdle))
       ELSE IF SharedMismatch(m, p, l, pit) # "Success"
       THEN Result(SharedMismatch(m, p, l, pit), 0)
       ELSE IF m.ttoo # "null" /\ WrongSize(m.tsize, m.class, tlen, ProduceRunIdle)
       THEN Result("InvalidTToOConnectionSize",
                   tlen + HeaderSize(m.tsize, m.class, tlen, ProduceRunIdle))
       ELSE [error |-> data.error, hint |-> 0, config |-> data.config]

(* A Forward Open that reaches the assembly object.  Configuration data is *)
(* written before the channels are opened and stays when that fails.       *)
EstablishIoConnection(r, p) ==
    LET m == Message[r]
        found == GetIoConnectionForConnectionData(m, p)
    IN /\ p.general = "Success" /\ p.class = AssemblyClass
       /\ \/ /\ found.slot = 0
             /\ answer' = Failure(r, "ConnectionFailure", found.error)
             /\ UNCHANGED <<conn, list, config>>
          \/ /\ found.slot # 0
             /\ \E V \in ClosedForReuse(found.slot) :
                \E l \in {RemoveAll(list, V)} : \E checks \in {IoChecks(m, p, l)} :
                   /\ config' = checks.config
                   /\ \/ /\ checks.error # "Success"
                         /\ list' = l /\ conn' = Emptied(V)
                         /\ answer' = ForwardOpenResponse(r, m.triad, "ConnectionFailure",
                                                          checks.error, checks.hint)
                      \/ /\ checks.error = "Success"
                         /\ Opened(r, found.slot, NewConnection(r, p, ProductionInhibitTime(m, p)),
                                   l, Emptied(V))
                      \/ /\ checks.error = "Success"    \* OpenCommunicationChannels fails
                         /\ list' = l /\ conn' = Emptied(V)
                         /\ answer' = Failure(r, "ConnectionFailure", "Success")

(* The parser leaves in the dummy what it found, also when it fails.       *)
ForwardOpen(r) ==
    \/ RefuseForwardOpen(r)
    \/ /\ RefusedAtOnce(Message[r]) = "Success"
       /\ dummy' = PathsOf(Parsed[r])
       /\ \E p \in {[Parsed[r] EXCEPT !.cons = dummy'.cons, !.prod = dummy'.prod]} :
             RefusePath(r, p) \/ EstablishClass3Connection(r, p) \/ EstablishIoConnection(r, p)

-----------------------------------------------------------------------------
(* First connection of the list with triad t, 0 if there is none.          *)
FirstWithTriad(t) == FirstIn(list, {s \in list.members : Triad(conn[s]) = t}, 0)

(* Forward Close by triad, from the address of the connection's originator *)
(* or from another one.                                                    *)
ForwardClose(t, owner) ==
    LET s == FirstWithTriad(t)
        Response(status) == [kind |-> "close", triad |-> t, status |-> status]
    IN /\ \/ /\ s = 0
             /\ answer' = Response("ConnectionTargetConnectionNotFound")
             /\ UNCHANGED <<conn, list>>
          \/ /\ s # 0 /\ ~owner
             /\ answer' = Response("WrongCloser")
             /\ UNCHANGED <<conn, list>>
          \/ /\ s # 0 /\ owner
             /\ answer' = Response("Success")
             /\ \E V \in ClosedWith(s) : list' = RemoveAll(list, V) /\ conn' = Emptied(V)
       /\ UNCHANGED <<dummy, config>>

(* SearchConnectionData: the first connection with the triad.              *)
SearchConnectionData(t) ==
    /\ answer' = [kind |-> "search", triad |-> t,
                  state |-> IF FirstWithTriad(t) = 0 THEN "PathDestinationUnknown"
                            ELSE conn[FirstWithTriad(t)].state]
    /\ UNCHANGED <<dummy, conn, list, config>>

(* The watchdog of connection s: a class 3 connection is closed, an IO     *)
(* connection stays as timed out and may take others along, an exclusive   *)
(* owner also input only connections.                                      *)
TimeOut(s) ==
    LET others == ListenOnly \cup (IF s \in ExclusiveOwner THEN InputOnly ELSE {})
    IN /\ Established(conn[s])
       /\ IF s \in Explicit THEN list' = RemoveAll(list, {s}) /\ conn' = Emptied({s})
          ELSE \E gone \in SUBSET ((list.members \cap others) \ {s}) :
                  /\ list' = RemoveAll(list, gone)
                  /\ conn' = [Emptied(gone) EXCEPT ![s].state = "TimedOut"]
       /\ answer' = NoAnswer
       /\ UNCHANGED <<dummy, config>>

Init ==
    /\ dummy = [cons |-> 0, prod |-> 0]
    /\ conn = [s \in Slots |-> NoConn]
    /\ list = EmptyList
    /\ config = [i \in 1 .. AssemblyLength[OwnerPoint.cfg] \div 2 |-> 0]
    /\ answer = NoAnswer

Triads == {Message[r].triad : r \in Requests}

Next ==
    \/ \E r \in Requests : ForwardOpen(r)
    \/ \E t \in Triads : SearchConnectionData(t) \/ \E owner \in BOOLEAN : ForwardClose(t, owner)
    \/ \E s \in list.members : TimeOut(s)

Spec == Init /\ [][Next]_vars

-----------------------------------------------------------------------------
(* Types of the variables: connection_list holds every connection that the *)
(* pools hold, once.                                                       *)
TypeOK ==
    /\ dummy \in [cons : Nat, prod : Nat]
    /\ conn \in [Slots -> ConnectionObjects \cup {NoConn}]
    /\ list \in ListOf(Slots)
    /\ \A s \in Slots : s \in list.members <=> conn[s] # NoConn
    /\ 2 * Len(config) = AssemblyLength[OwnerPoint.cfg]
    /\ answer.kind \in {"none", "open", "close", "search"}

(* Segment i of a path is the first one behind the class and, where it is  *)
(* there, the configuration instance.                                      *)
FirstPoint(path, i) ==
    \E k \in DOMAIN path :
        /\ IsLogical(path[k], "class")
        /\ \A j \in 1 .. k - 1 : ~IsLogical(path[j], "class")
        /\ i = IF k + 1 \in DOMAIN path /\ IsLogical(path[k + 1], "instance") THEN k + 2 ELSE k + 1

(* The n-th connection point that a path names is v.                       *)
NamesPoint(path, n, v) ==
    \E i \in DOMAIN path :
        FirstPoint(path, i) /\ i + n - 1 \in DOMAIN path /\ path[i + n - 1].value = v

(* In each direction that its request asked for, an IO connection has the  *)
(* connection point of its own request, although all requests are parsed   *)
(* into one dummy, which failed requests leave half written and which      *)
(* keeps the point of a direction that the next request leaves out.  The   *)
(* point to consume comes first in the path.                               *)
OwnConnectionPoints ==
    \A s \in list.members \cap IoSlots :
        LET m == Message[conn[s].req]
        IN /\ m.otot # "null" => NamesPoint(m.path, 1, conn[s].cons)
           /\ m.ttoo # "null" =>
                 NamesPoint(m.path, IF m.otot = "null" THEN 1 ELSE 2, conn[s].prod)

(* A response to Forward Open is about the triad of the request, and       *)
(* success means that its own connection is established at the head of the *)
(* list: the response is assembled from connection_list.first, whatever    *)
(* the open function did to the list.                                      *)
SuccessMeansOpen ==
    answer.kind = "open" =>
        /\ answer.triad = Message[answer.req].triad
        /\ answer.general = "Success"
             => /\ list.members # {}
                /\ conn[First(list)].req = answer.req /\ Established(conn[First(list)])

(* Connections that share a multicast production of one assembly agree on  *)
(* everything that the one producer of the datagrams decides, also after   *)
(* connections in between have come, timed out and gone.                   *)
SharedProductionAgrees ==
    \A s, t \in list.members \cap IoSlots :
        LET m == Message[conn[s].req]
            n == Message[conn[t].req]
        IN m.ttoo = "multicast" /\ n.ttoo = "multicast" /\ conn[s].prod = conn[t].prod =>
              /\ m.rpi = n.rpi /\ m.class = n.class /\ m.trigger = n.trigger
              /\ conn[s].pit = conn[t].pit

(* After a Forward Close that answers success no established connection    *)
(* has the triad: an older, timed-out connection with the same triad never *)
(* hides the live one.                                                     *)
CloseEndsTriad ==
    answer.kind = "close" /\ answer.status = "Success" =>
        \A s \in list.members : Established(conn[s]) => Triad(conn[s]) # answer.triad

(* The size in the answer to a request of size hint is not refused.        *)
HintFits(hint, class, length, runIdle) ==
    ~WrongSize(length + HeaderSize(hint, class, length, runIdle), class, length, runIdle)

(* An originator that answers a refused connection size with the size that *)
(* the response names gets past the size check with the second retry at    *)
(* the latest (a size too small for the run/idle header is answered with a *)
(* size that is too small again).                                          *)
SizeHintConverges ==
    answer.kind = "open" /\ answer.extended = "InvalidOToTConnectionSize" =>
        LET m == Message[answer.req]
        IN \E v \in DOMAIN AssemblyLength :
              /\ NamesPoint(m.path, 1, v)
              /\ HintFits(answer.hint, m.class, AssemblyLength[v], ConsumeRunIdle)

(* The data of the configuration assembly never changes under a connection *)
(* that was opened with it: only a Forward Open that finds no other        *)
(* connection with the configuration point writes it.                      *)
ConfigKeptForConnections ==
    [][config' # config =>
          \A s \in list.members \cap list'.members :
              conn'[s] = conn[s] => conn[s].cfg # OwnerPoint.cfg]_vars

=============================================================================
