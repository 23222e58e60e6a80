------------------------------ MODULE Objects ------------------------------
(***************************************************************************)
(* The objects of the device behind the message router: what their         *)
(* services read and write, what of it is kept in a file over a restart,   *)
(* and the status word of the Identity object.                             *)
(*                                                                         *)
(*   cip/cipmessagerouter.c, cip/cipcommon.c      routing, services        *)
(*   cip/cipqos.c, cip/ciptcpipinterface.c, cip/cipassembly.c,             *)
(*   cip/cipidentity.c, cip/cipethernetlink.c     the objects              *)
(*   ports/nvdata/nvdata.c, nvqos.c, nvtcpip.c, conffile.c   the files     *)
(*   sample_application/sampleapplication.c       reset, run/idle          *)
(*                                                                         *)
(* The stack has one thread, so a request is handled before the next one   *)
(* is read.  The process may be killed at any time, also while a file is   *)
(* written: fopen(.., "w") empties the file, fclose fills it.              *)
(***************************************************************************)
EXTENDS ObjectModel, SequencesExt, FiniteSetsExt

CONSTANTS
    Requests,           \* the requests of clients, see the MC module
    StaleOctets,        \* what may follow a message in the receive buffer
    ListSpace,          \* PC_OPENER_ETHERNET_BUFFER_SIZE - 33
    ProductName,        \* OPENER_DEVICE_NAME, as octets
    FaultFlags,         \* status flags the application sets and clears
    DeviceStatuses,     \* flags the application gives to SetDeviceStatus
    MaxStarts           \* bound: starts of the stack

VARIABLES
    phase,      \* "down", "up", or a file is open: "storing", "booting"
    objects,    \* the data of the objects, in RAM
    s_active_dscp,
    cfg,        \* qos.cfg, <<>> when there is nothing to read, and tcpip.cfg
    request,    \* the request that the last step handled
    reply,      \* its answer; it leaves when phase is "up" again
    promise,    \* history: what a finished store has made durable
    commanded,  \* history: the extended status that was set last, and
                \* whether it has been merged with the flags since
    starts

vars == <<phase, objects, s_active_dscp, cfg, request, reply, promise, commanded, starts>>

NoRequest == [service |-> "none"]
NoReply == [status |-> "none", octets |-> <<>>]
NoPromise == <<>>

(* Messages are octets, and so is what earlier ones left in the buffer.    *)
(* segments is what the sender means by its path.                          *)
ASSUME RequestAssumption ==
    /\ \A q \in Requests :
          q.path \in Seq(Octet) /\ q.data \in Seq(Octet) /\ q.segments \in Seq(Segment)
    /\ StaleOctets \subseteq Octet
    /\ ProductName \in Seq(Octet)

-----------------------------------------------------------------------------
(* The data of the objects and where the attributes find it.               *)
DscpAttributes == 4..8

DefaultDscp == [n \in DscpAttributes |-> <<0, 0, 0, 55, 47, 43, 31, 27>>[n]]

(* Status flags of CipIdentityStatus by their bit, extended status by its  *)
(* value, which is in the bits of kExtStatusMask.                          *)
Owned == 1
Configured == 4
MinorRecoverableFault == 256
MinorUncoverableFault == 512
MajorRecoverableFault == 1024
MajorUnrecoverableFault == 2048
MajorFault == 80
RunMode == 96
IdleMode == 112
ExtStatusMask == 240

StatusFlags == {Owned, Configured, MinorRecoverableFault, MinorUncoverableFault,
                MajorRecoverableFault, MajorUnrecoverableFault}

DefaultObjects ==
    [qos      |-> DefaultDscp,
     tcpip    |-> [config_control |-> 2, encapsulation_inactivity_timeout |-> 120],
     identity |-> [flags |-> {}, shown |-> 0, ext_status |-> 0],
     assembly |-> [i \in AssemblyInstances |-> Zeros(AssemblySize[i])]]

StatusWord(identity) ==
    LET Bit(flag) == IF flag \in identity.flags THEN flag ELSE 0
    IN Bit(Owned) + Bit(Configured) + Bit(MinorRecoverableFault) + Bit(MinorUncoverableFault)
         + Bit(MajorRecoverableFault) + Bit(MajorUnrecoverableFault) + identity.shown

(* CipTcpIpObject: attributes 3 and 13 are data of the model, the others   *)
(* keep the values of g_tcpip; addresses and host name, which the network  *)
(* interface fills in, stay empty.                                         *)
TcpIpValue(tcpip, n) ==
    <<1, 4, tcpip.config_control, Path(EthernetLink, 1, 0), Zeros(22), <<>>, Zeros(6),
      1, <<0, 0, 1, 0, 0, 0, 0, 0>>, 0, Zeros(35), 0,
      tcpip.encapsulation_inactivity_timeout>>[n]

(* CipEthernetLinkObject; the last attribute lists 100 Mbit/s full duplex. *)
EthernetLinkValue(n) ==
    <<100, 15, Zeros(6), Zeros(44), Zeros(48), Zeros(4), 2, 0, 0, <<>>,
      <<2, 0, 0, 0, 1, 100, 0, 1>>>>[n]

IdentityValue(identity, n) ==
    <<1, 12, 65001, <<1, 0>>, StatusWord(identity), 123456789, ProductName>>[n]

Value(o, c, i, n) ==
    IF i = 0 THEN ClassAttributeValue(c, GetCipClass(c), n)
    ELSE CASE c = Identity -> IdentityValue(o.identity, n)
           [] c = QoS -> IF n \in DscpAttributes THEN o.qos[n] ELSE 0
           [] c = TcpIp -> TcpIpValue(o.tcpip, n)
           [] c = EthernetLink -> EthernetLinkValue(n)
           [] c = Assembly -> IF n = 3 THEN o.assembly[i] ELSE AssemblySize[i]

WithValue(o, c, i, n, v) ==
    CASE c = QoS -> [o EXCEPT !.qos[n] = v]
      [] c = TcpIp /\ n = 3 -> [o EXCEPT !.tcpip.config_control = v]
      [] c = TcpIp /\ n = 13 -> [o EXCEPT !.tcpip.encapsulation_inactivity_timeout = v]
      [] OTHER -> [o EXCEPT !.assembly[i] = v]

-----------------------------------------------------------------------------
(* Services that leave the objects alone return [status, octets].          *)
Answer(status, octets) == [status |-> status, octets |-> octets]

GetAttributeSingle(o, p) ==
    LET attributes == AttributesOf(GetCipClass(p.class_id), p.instance_number)
        n == p.attribute_number
    IN IF n \in DOMAIN attributes /\ InGetSingleMask(attributes[n])
       THEN Answer("Success",
                   Encode(attributes[n].type, Value(o, p.class_id, p.instance_number, n), 0))
       ELSE Answer("AttributeNotSupported", <<>>)

GetAttributeAll(o, p) ==
    LET attributes == AttributesOf(GetCipClass(p.class_id), p.instance_number)
        Add(octets, n) ==
            IF InGetAllMask(attributes[n])
            THEN octets \o Encode(attributes[n].type,
                                  Value(o, p.class_id, p.instance_number, n), Len(octets))
            ELSE octets
    IN IF DOMAIN attributes = {} THEN Answer("ServiceNotSupported", <<>>)
       ELSE Answer("Success", FoldLeft(Add, <<>>, [n \in DOMAIN attributes |-> n]))

(* The loop of GetAttributeList over the attribute numbers of a request.   *)
(* The status "PartialTransfer" ends it; the space is the data of the      *)
(* attribute without the four octets in front of it.                       *)
Needed(attributes, n) ==
    IF n \in DOMAIN attributes
    THEN GetCipDataTypeLength(attributes[n].type, Len(ProductName)) ELSE 2

NoSpace(s, needed) == needed > ListSpace - (2 + Len(s.octets))

Listed(s, n, status, octets) ==
    [s EXCEPT !.octets = @ \o LittleEndian(n, 2) \o <<status, 0>> \o octets]

ListError(s) == [s EXCEPT !.status = "AttributeListError"]

OutOfSpaceSilent(s) == [s EXCEPT !.ended = TRUE]    \* mutant: the status is forgotten

OutOfSpace(s) ==
    [s EXCEPT !.status = IF @ = "AttributeListError" THEN @ ELSE "PartialTransfer",
              !.ended = TRUE]

NotGettable == 44
NotSetable == 14
NotSupported == 20

GetListed(o, p, attributes, s, n) ==
    CASE s.ended -> s
      [] ~s.ended /\ NoSpace(s, Needed(attributes, n)) -> OutOfSpace(s)
      [] OTHER ->
           IF n \notin DOMAIN attributes THEN ListError(Listed(s, n, NotSupported, <<>>))
           ELSE IF ~InGetSingleMask(attributes[n])
                THEN ListError(Listed(s, n, NotGettable, <<>>))
                ELSE Listed(s, n, 0, Encode(attributes[n].type,
                                Value(o, p.class_id, p.instance_number, n), 0))

ListStart(data) ==
    [status |-> "Success", octets |-> <<>>, ended |-> FALSE, counted |-> TRUE, rest |-> data]

GetAttributeList(o, p, data) ==
    LET count == GetUint(data, 1)
        attributes == AttributesOf(GetCipClass(p.class_id), p.instance_number)
        after[j \in 0..count] ==
            IF j = 0 THEN ListStart(<<>>)
            ELSE GetListed(o, p, attributes, after[j - 1], GetUint(data, 2 * j + 1))
    IN IF count = 0 THEN Answer("AttributeListError", <<>>)
       ELSE Answer(after[count].status, LittleEndian(count, 2) \o after[count].octets)

(* SetAttributeList is a service of the Identity object alone, and none of *)
(* its attributes can be set: a request is walked through by the lengths   *)
(* of the attributes it names.  When a length is 0 the count of the reply  *)
(* stays as InitializeENIPMessage left it.                                 *)
SetListed(attributes, s) ==
    LET n == GetUint(s.rest, 1)
        rest == SubSeq(s.rest, 3, Len(s.rest))
        length == GetCipDataTypeLength(attributes[n].type, rest[1])
    IN CASE s.ended -> s
         [] ~s.ended /\ NoSpace(s, Needed(attributes, n)) -> OutOfSpace(s)
         [] OTHER ->
              IF n \notin DOMAIN attributes
              THEN [ListError(Listed(s, n, NotSupported, <<>>)) EXCEPT !.rest = rest]
              ELSE IF length # 0
              THEN [ListError(Listed(s, n, NotSetable, <<>>))
                        EXCEPT !.rest = SubSeq(rest, length + 1, Len(rest))]
              ELSE [Listed(s, n, NotSetable, <<>>)
                        EXCEPT !.status = "PartialTransfer", !.ended = TRUE, !.counted = FALSE]

SetAttributeList(p, data) ==
    LET count == GetUint(data, 1)
        attributes == AttributesOf(GetCipClass(p.class_id), p.instance_number)
        after[j \in 0..count] ==
            IF j = 0 THEN ListStart(SubSeq(data, 3, Len(data)))
            ELSE SetListed(attributes, after[j - 1])
    IN IF count = 0 THEN Answer("AttributeListError", <<>>)
       ELSE Answer(after[count].status,
                   LittleEndian(IF after[count].counted THEN count ELSE 0, 2)
                     \o after[count].octets)

-----------------------------------------------------------------------------
(* The decode functions of the attributes that can be set: [status, value].*)
(* None of the integers looks at the size of the data.                     *)
Decoded(status, value) == [status |-> status, value |-> value]

DecodeQosUnchecked(data) == Decoded("Success", GetUsint(data, 1))   \* mutant: any octet

DecodeCipQoSAttribute(data) ==
    Decoded(IF GetUsint(data, 1) < 64 THEN "Success" ELSE "InvalidAttributeValue",
            GetUsint(data, 1))

DecodeConfigurationControl(data) ==
    LET v == GetDint(data, 1)
    IN Decoded(IF v % 16 >= 3 \/ v \div 16 # 0 THEN "InvalidAttributeValue" ELSE "Success", v)

MaxInactivityTimeout == 3600

DecodeInactivityTimeout(data) ==
    Decoded(IF GetUint(data, 1) > MaxInactivityTimeout THEN "InvalidAttributeValue" ELSE "Success",
            GetUint(data, 1))

(* The application of this build, AfterAssemblyDataReceived, takes any     *)
(* data.                                                                   *)
DecodeCipAssemblyAttribute3(data, size, length) ==
    Decoded(CASE size < length -> "NotEnoughData" [] size > length -> "TooMuchData"
              [] OTHER -> "Success",
            SubSeq(data, 1, length))

Decode(c, i, n, data, size) ==
    CASE c = QoS -> DecodeCipQoSAttribute(data)
      [] c = TcpIp /\ n = 3 -> DecodeConfigurationControl(data)
      [] c = TcpIp /\ n = 13 -> DecodeInactivityTimeout(data)
      [] c = Assembly -> DecodeCipAssemblyAttribute3(data, size, AssemblySize[i])

(* Services that may change something return [status, octets, objects,     *)
(* dscp, store]: the active DSCP values, and the file that is written      *)
(* before the reply leaves.                                                *)
EffectAtOnce(answer, o, dscp, store) ==     \* mutant: what is set is active
    [status |-> answer.status, octets |-> answer.octets,
     objects |-> o, dscp |-> o.qos, store |-> store]

Effect(answer, o, dscp, store) ==
    [status |-> answer.status, octets |-> answer.octets,
     objects |-> o, dscp |-> dscp, store |-> store]

(* The PostSetCallback runs whatever the decode function said.             *)
PostSetCallback(c) == CASE c = QoS -> "qos" [] c = TcpIp -> "tcpip" [] OTHER -> "none"

SetAttributeSingle(o, dscp, p, data, size) ==
    LET c == p.class_id
        i == p.instance_number
        n == p.attribute_number
        attributes == AttributesOf(GetCipClass(c), i)
        a == attributes[n]
        d == Decode(c, i, n, data, size)
        Refuse(status) == Effect(Answer(status, <<>>), o, dscp, "none")
    IN IF n \notin DOMAIN attributes \/ a.flags \in {GetableAllDummy, NotSetOrGetable, GetableAll}
       THEN Refuse("AttributeNotSupported")
       ELSE IF ~InSetMask(a) THEN Refuse("AttributeNotSetable")
       ELSE Effect(Answer(d.status, <<>>),
                   IF d.status = "Success" THEN WithValue(o, c, i, n, d.value) ELSE o,
                   dscp, PostSetCallback(c))

(* ResetDevice closes all connections, which is not part of this module,   *)
(* and activates the DSCP values.                                          *)
ResetDeviceToInitialConfiguration(o) ==
    [o EXCEPT !.qos = DefaultDscp, !.tcpip.encapsulation_inactivity_timeout = 120]

IdentityObjectPreResetCallback(o, dscp, data, size) ==
    LET type == IF size = 1 THEN GetUsint(data, 1) ELSE 0
        initial == ResetDeviceToInitialConfiguration(o)
    IN CASE size > 1 -> Effect(Answer("TooMuchData", <<>>), o, dscp, "none")
         [] size <= 1 /\ type = 0 -> Effect(Answer("Success", <<>>), o, o.qos, "none")
         [] size <= 1 /\ type = 1 -> Effect(Answer("Success", <<>>), initial, initial.qos, "none")
         [] OTHER -> Effect(Answer("InvalidParameter", <<>>), o, dscp, "none")

(* The services that only read.  What SetAttributeList is asked to write   *)
(* cannot be set.                                                          *)
ReadingService(o, p, service, data) ==
    CASE service = "GetAttributeSingle" -> GetAttributeSingle(o, p)
      [] service = "GetAttributeAll" -> GetAttributeAll(o, p)
      [] service = "GetAttributeList" -> GetAttributeList(o, p, data)
      [] service = "SetAttributeList" -> SetAttributeList(p, data)

(* NotifyMessageRouter and NotifyClass for a request whose structure is r. *)
NotifyMessageRouter(o, dscp, service, r) ==
    LET p == r.path
        class == GetCipClass(p.class_id)
        Only(answer) == Effect(answer, o, dscp, "none")
    IN IF r.status # "Success" THEN Only(Answer(r.status, <<>>))
       ELSE IF p.class_id \notin Registered \/ ~InstanceExists(class, p.instance_number)
       THEN Only(Answer("PathDestinationUnknown", <<>>))
       ELSE IF service \notin ServicesOf(class, p.instance_number)
       THEN Only(Answer("ServiceNotSupported", <<>>))
       ELSE CASE service = "SetAttributeSingle" ->
                     SetAttributeSingle(o, dscp, p, r.data, r.size)
              [] service = "Reset" ->
                     IdentityObjectPreResetCallback(o, dscp, r.data, r.size)
              [] OTHER -> Only(ReadingService(o, p, service, r.data))

-----------------------------------------------------------------------------
Init ==
    /\ phase = "down"
    /\ objects = DefaultObjects
    /\ s_active_dscp = DefaultDscp
    /\ cfg = [qos |-> <<>>, tcpip |-> "none"]
    /\ request = NoRequest
    /\ reply = NoReply
    /\ promise = NoPromise
    /\ commanded = [ext |-> 0, merged |-> TRUE]
    /\ starts = 0

Quiet == request' = NoRequest /\ reply' = NoReply

(* A request arrives, and its service runs up to the point where a file is *)
(* open.  Opening qos.cfg may fail, which NvQosStore reports as success;   *)
(* NvTcpipStore empties tcpip.cfg and writes nothing.  Nobody looks at     *)
(* what the callback returns.                                              *)
HandleRequest(q) ==
    \E stale \in StaleOctets :
        LET b == q.path \o q.data \o [k \in 1..8 |-> stale]
            r == CreateMessageRouterRequestStructure(b, Len(q.path \o q.data))
            e == NotifyMessageRouter(objects, s_active_dscp, q.service, r)
        IN /\ phase = "up" /\ request = NoRequest
           /\ objects' = e.objects
           /\ s_active_dscp' = e.dscp
           /\ \/ phase' = phase /\ cfg' = cfg
              \/ e.store = "qos" /\ phase' = "storing" /\ cfg' = [cfg EXCEPT !.qos = <<>>]
              \/ e.store = "tcpip" /\ phase' = phase /\ cfg' = [cfg EXCEPT !.tcpip = "empty"]
           /\ promise' = IF e.objects.qos = objects.qos THEN promise ELSE NoPromise
           /\ request' = [service |-> q.service, sent |-> q, structure |-> r]
           /\ reply' = Answer(e.status, e.octets)
           /\ UNCHANGED <<commanded, starts>>

(* The reply is sent, and the thread is ready for what comes next.         *)
SendReply ==
    /\ phase = "up" /\ request # NoRequest
    /\ Quiet
    /\ UNCHANGED <<phase, objects, s_active_dscp, cfg, promise, commanded, starts>>

(* fprintf and fclose of NvQosStore; they may fail and leave nothing.      *)
(* After NvdataLoad, NetworkHandlerInitialize brings the stack up.         *)
NvQosStore ==
    /\ phase \in {"storing", "booting"}
    /\ phase' = "up"
    /\ s_active_dscp' = IF phase = "booting" THEN objects.qos ELSE s_active_dscp
    /\ \/ cfg' = [cfg EXCEPT !.qos = <<objects.qos>>] /\ promise' = <<objects.qos>>
       \/ cfg' = cfg /\ promise' = NoPromise
    /\ UNCHANGED <<objects, request, reply, commanded, starts>>

(* startOpENerStack.  The stack gets new assemblies, but the one for       *)
(* explicit messages keeps its static data.  NvdataLoad writes the file    *)
(* again exactly when it could be read, and NetworkHandlerInitialize then  *)
(* makes the DSCP values of the QoS object the ones in use.                *)
CipStackInit(o) ==
    [o EXCEPT !.assembly = [i \in AssemblyInstances |->
                              IF i = ExplicitAssembly THEN @[i] ELSE Zeros(AssemblySize[i])]]

NvQosLoadReversed(o) ==     \* mutant: the values are read in another order
    IF cfg.qos = <<>> THEN o
    ELSE [o EXCEPT !.qos = [n \in DscpAttributes |-> cfg.qos[1][12 - n]]]

NvQosLoad(o) == IF cfg.qos = <<>> THEN o ELSE [o EXCEPT !.qos = cfg.qos[1]]

Start ==
    /\ phase = "down"
    /\ starts < MaxStarts
    /\ starts' = starts + 1
    /\ objects' = NvQosLoad(CipStackInit(objects))
    /\ \E opened \in BOOLEAN :
          /\ opened => cfg.qos # <<>>
          /\ phase' = IF opened THEN "booting" ELSE "up"
          /\ cfg' = IF opened THEN [cfg EXCEPT !.qos = <<>>] ELSE cfg
          /\ s_active_dscp' = IF opened THEN s_active_dscp ELSE objects'.qos
    /\ Quiet
    /\ UNCHANGED <<promise, commanded>>

(* stopOpENerStack: the loop ends and the classes are deleted; what is     *)
(* static keeps its value.                                                 *)
Stop ==
    /\ phase = "up" /\ request = NoRequest
    /\ phase' = "down"
    /\ Quiet
    /\ UNCHANGED <<objects, s_active_dscp, cfg, promise, commanded, starts>>

(* The process is killed.  A file that is open stays empty.                *)
Crash ==
    /\ phase' = "down"
    /\ objects' = DefaultObjects
    /\ s_active_dscp' = DefaultDscp
    /\ promise' = IF phase \in {"storing", "booting"} THEN NoPromise ELSE promise
    /\ commanded' = [ext |-> 0, merged |-> TRUE]
    /\ Quiet
    /\ UNCHANGED <<cfg, starts>>

-----------------------------------------------------------------------------
(* The status word.  MergeStatusAndExtStatus lets a major fault override   *)
(* the extended status that is shown, not the one that is kept.            *)
Faulted(flags) == flags \cap {MajorRecoverableFault, MajorUnrecoverableFault} # {}

(* The application sets the flags of CipIdentityStatus only.               *)
ASSUME DeviceStatusAssumption ==
    /\ \A s \in DeviceStatuses : s.flags \subseteq StatusFlags /\ s.ext \in 0..ExtStatusMask
    /\ FaultFlags \subseteq StatusFlags

MergeLosing(id) ==  \* mutant: the override is kept
    LET ext == IF Faulted(id.flags) THEN MajorFault ELSE id.ext_status
    IN [id EXCEPT !.shown = ext, !.ext_status = ext]

MergeStatusAndExtStatus(id) ==
    [id EXCEPT !.shown = IF Faulted(id.flags) THEN MajorFault ELSE id.ext_status]

IdentityStep(id) ==
    /\ phase = "up" /\ request = NoRequest
    /\ objects' = [objects EXCEPT !.identity = id]
    /\ Quiet
    /\ UNCHANGED <<phase, s_active_dscp, cfg, promise, starts>>

(* I/O data with a run/idle header: HandleReceivedIoConnectionData and,    *)
(* when the header changes, RunIdleChanged set the same extended status.   *)
CipIdentitySetExtendedDeviceStatus(ext) ==
    /\ IdentityStep(MergeStatusAndExtStatus([objects.identity EXCEPT !.ext_status = ext]))
    /\ commanded' = [ext |-> ext, merged |-> TRUE]

CipIdentitySetStatusFlags(flags) ==
    /\ IdentityStep(MergeStatusAndExtStatus([objects.identity EXCEPT !.flags = @ \cup flags]))
    /\ commanded' = [ext |-> commanded.ext, merged |-> TRUE]

CipIdentityClearStatusFlags(flags) ==
    /\ IdentityStep(MergeStatusAndExtStatus([objects.identity EXCEPT !.flags = @ \ flags]))
    /\ commanded' = [ext |-> commanded.ext, merged |-> TRUE]

(* SetDeviceStatus writes the whole word, a fault flag included, and does  *)
(* not merge.                                                              *)
SetDeviceStatus(flags, ext) ==
    /\ IdentityStep([flags |-> flags, shown |-> ext, ext_status |-> ext])
    /\ commanded' = [ext |-> ext, merged |-> FALSE]

DeviceStep ==
    \/ SendReply
    \/ NvQosStore
    \/ Start
    \/ Stop
    \/ Crash
    \/ \E ext \in {RunMode, IdleMode} : CipIdentitySetExtendedDeviceStatus(ext)
    \/ \E f \in FaultFlags : CipIdentitySetStatusFlags({f}) \/ CipIdentityClearStatusFlags({f})
    \/ \E s \in DeviceStatuses : SetDeviceStatus(s.flags, s.ext)

Next == (\E q \in Requests : HandleRequest(q)) \/ DeviceStep

Spec == Init /\ [][Next]_vars

-----------------------------------------------------------------------------
Dscp == [DscpAttributes -> Octet]

(* Every variable stays in its domain: what is loaded from qos.cfg and     *)
(* what is set from a message, also from one without data, are octets of   *)
(* the QoS object, control and time-out are those the decoders let pass.   *)
TypeOK ==
    /\ phase \in {"down", "up", "storing", "booting"}
    /\ objects.qos \in Dscp /\ \A n \in DscpAttributes : objects.qos[n] < 64
    /\ objects.tcpip.config_control \in 0..2
    /\ objects.tcpip.encapsulation_inactivity_timeout \in 0..MaxInactivityTimeout
    /\ \A i \in AssemblyInstances : Len(objects.assembly[i]) = AssemblySize[i]
    /\ s_active_dscp \in Dscp
    /\ Len(cfg.qos) <= 1 /\ Range(cfg.qos) \subseteq Dscp
    /\ cfg.tcpip \in {"none", "empty"}
    /\ Len(promise) <= 1 /\ Range(promise) \subseteq Dscp

(* How the path of a request is written.  Sound: the octets are those of   *)
(* logical segments, with a wide member id at the end at most.  Foreign:   *)
(* a segment among them is no logical one.  Overlong: the path says that   *)
(* it is longer than the message.                                          *)
Sound(q) ==
    LET n == Len(q.segments)
    IN /\ WrittenAs(q.path, q.segments)
       /\ Logicals(q.segments, n - 1)
       /\ n > 0 => q.segments[n].field # "other"

Foreign(q) ==
    /\ WrittenAs(q.path, q.segments)
    /\ \E j \in DOMAIN q.segments :
          q.segments[j].field = "other" /\ Logicals(q.segments, j - 1)

Overlong(q) == q.path # <<>> /\ 2 * q.path[1] + 1 > Len(q.path \o q.data)

EndsWide(q) == q.segments # <<>> /\ WideMember(q.segments[Len(q.segments)])

(* DecodePaddedEPath and CreateMessageRouterRequestStructure: a request    *)
(* with a sound path, in the 8 bit or the 16 bit format, with or without a *)
(* member id, addresses the object that its sender named, and its data     *)
(* begins where the path ends (not behind a wide member id); a path that   *)
(* is longer than the message, or has a segment that is no logical one, is *)
(* never taken for a request.                                              *)
RequestReachesNamed ==
    request # NoRequest =>
        LET r == request.structure
            q == request.sent
        IN /\ Sound(q) =>
                 /\ r.status = "Success" /\ r.size = Len(q.data)
                 /\ r.path = Named(q.segments, Len(q.segments))
                 /\ EndsWide(q) \/ SubSeq(r.data, 1, r.size) = q.data
           /\ Foreign(q) \/ Overlong(q) => r.status # "Success"

(* What a client reads in octets of a type.                                *)
Read(type, octets) ==
    CASE type \in {"Usint", "Bool"} -> GetUsint(octets, 1)
      [] type \in {"Uint", "Word"} -> GetUint(octets, 1)
      [] type \in {"Udint", "Dword"} -> GetDint(octets, 1)
      [] type = "ShortString" -> SubSeq(octets, 2, octets[1] + 1)
      [] type = "String" -> SubSeq(octets, 3, GetUint(octets, 1) + 2)
      [] type = "Epath" -> DecodePaddedEPath(<<octets[1]>> \o SubSeq(octets, 3, Len(octets))).path
      [] OTHER -> octets

(* The octets an integer needs.                                            *)
Width(type) == GetCipDataTypeLength(type, 0)

(* The attributes that can be set: class, instance and number.             *)
Settable == ({QoS} \X {1} \X DscpAttributes) \cup {<<TcpIp, 1, 3>>, <<TcpIp, 1, 13>>}
                \cup ({Assembly} \X AssemblyInstances \X {3})

(* The records of a list of attributes in which each one has its value.    *)
Records(o, data) ==
    LET after[k \in 0..GetUint(data, 1)] ==
            IF k = 0 THEN <<>>
            ELSE LET n == GetUint(data, 2 * k + 1)
                 IN after[k - 1] \o LittleEndian(n, 2) \o <<0, 0>>
                      \o Encode(CipIdentityInit.attributes[n].type, Value(o, Identity, 1, n), 0)
    IN after[GetUint(data, 1)]

WholeList(data) == Len(data) >= 2 /\ Len(data) >= 2 * GetUint(data, 1) + 2

(* What the answer to the request q says of this step.                     *)
MeansAnswer(q) ==
    LET p == Named(q.segments, Len(q.segments))
        type == AttributesOf(GetCipClass(p.class_id), p.instance_number)[p.attribute_number].type
        now == Value(objects', p.class_id, p.instance_number, p.attribute_number)
        named == <<p.class_id, p.instance_number, p.attribute_number>>
        direct == Sound(q) /\ ~ EndsWide(q)
    IN IF reply'.status # "Success" THEN objects' = objects /\ s_active_dscp' = s_active_dscp
       ELSE CASE q.service = "GetAttributeSingle" ->
                   /\ Sound(q) => Read(type, reply'.octets) = now
                   /\ objects' = objects
              [] q.service = "SetAttributeSingle" ->
                   /\ (direct /\ Len(q.data) >= Width(type)) => now = Read(type, q.data)
                   /\ Sound(q) => \A a \in Settable \ {named} :
                         Value(objects', a[1], a[2], a[3]) = Value(objects, a[1], a[2], a[3])
                   /\ objects'.identity = objects.identity
              [] q.service = "GetAttributeList" ->
                   /\ direct /\ WholeList(q.data) =>
                         reply'.octets = LittleEndian(GetUint(q.data, 1), 2)
                                             \o Records(objects, q.data)
                   /\ objects' = objects
              [] q.service = "GetAttributeAll" -> objects' = objects
              [] q.service = "Reset" -> s_active_dscp' = objects'.qos
              [] OTHER -> FALSE

(* SetAttributeSingle, GetAttributeSingle and the list services mean what  *)
(* they answer.  A successful get returns the value of the attribute that  *)
(* was named; a successful set gives exactly that attribute the value that *)
(* was sent and leaves every other one alone; a list is successful when    *)
(* each attribute on it is in the reply with its value; whatever is        *)
(* refused, and every get, changes nothing.  A set with fewer octets than  *)
(* its attribute, or a list with fewer than it counts, is left out: the    *)
(* missing ones come from the buffer.                                      *)
AnswerTrue ==
    [][request = NoRequest /\ request' # NoRequest => MeansAnswer(request'.sent)]_vars

(* NvQosSetCallback, NvQosStore and NvdataLoad: what was in the QoS object *)
(* when qos.cfg was last written completely is there again after every     *)
(* restart and every kill of the process, until a store fails, the process *)
(* is killed while the file is open, or a reset to the initial             *)
(* configuration replaces the values without writing them.                 *)
SettingsDurable == (phase = "up" /\ promise # NoPromise) => <<objects.qos>> = promise

(* MergeStatusAndExtStatus: the status word shows Major Fault as long as a *)
(* major fault flag is set, whatever the run/idle headers say meanwhile,   *)
(* and the extended status that was set last as soon as the flags are      *)
(* cleared.  Between SetDeviceStatus and the next merge the word is what   *)
(* the application gave, also when it holds a fault flag and says that all *)
(* is well.                                                                *)
StatusShowsFault ==
    objects.identity.shown =
        IF commanded.merged /\ Faulted(objects.identity.flags) THEN MajorFault ELSE commanded.ext

(* s_active_dscp "inherits its data from the QoS object on boot-up", and   *)
(* "changes should come into effect only after a restart": when the stack  *)
(* comes up, in a new process or in the old one, the values in use are     *)
(* those of the QoS object, the loaded ones if there were any; after that  *)
(* no set changes one of them, and a reset takes over all of them.         *)
ActivatedByRestart ==
    [][LET comesUp == phase \in {"down", "booting"} /\ phase' = "up"
       IN /\ comesUp => s_active_dscp' = objects'.qos
          /\ s_active_dscp' # s_active_dscp =>
                \/ comesUp
                \/ request'.service = "Reset" /\ s_active_dscp' = objects'.qos
                \/ objects' = DefaultObjects /\ phase' = "down"]_vars
=============================================================================
