----------------------------- MODULE MCObjects -----------------------------
(***************************************************************************)
(* Requests to every class, in every format of the path, with data at the  *)
(* limits of the decoders.  A behaviour is about one group of objects, so  *)
(* that the states of unrelated objects are not multiplied.                *)
(***************************************************************************)
EXTENDS Objects

VARIABLE focus

MCAssemblySize == [i \in AssemblyInstances |->
                     IF i \in {OutputAssembly, ExplicitAssembly} THEN 2 ELSE 0]
MCProductName == <<79, 112, 101>>

(* The path as a client writes it.                                         *)
Wide(f, v) == <<Logical[f] + 1, 0>> \o LittleEndian(v, 2)

PathOctets(p, form) ==
    LET short == EncodeLogical("class_id", p.class_id)
                     \o EncodeLogical("instance_number", p.instance_number)
                     \o EncodeLogical("attribute_number", p.attribute_number)
        wide  == Wide("class_id", p.class_id) \o Wide("instance_number", p.instance_number)
                     \o Wide("attribute_number", p.attribute_number)
        Sized(octets) == <<Len(octets) \div 2>> \o octets
    IN CASE form = "short"    -> Sized(short)
         [] form = "wide"     -> Sized(wide)
         [] form = "member"   -> Sized(short \o <<MemberId, 1>>)
         [] form = "member16" -> Sized(short \o <<MemberId + 1, 0, 1, 0>>)
         [] form = "reserved" -> Sized(short \o <<225, 0>>)
         [] form = "cut"      -> <<4>> \o short
         [] form = "cutValue" -> <<2, 32, 1, 37>>

SegmentsOf(p, form) ==
    LET seg(f, v) == [field |-> f, wide |-> form = "wide" \/ v >= 256, value |-> v]
        named == <<seg("class_id", p.class_id), seg("instance_number", p.instance_number),
                   seg("attribute_number", p.attribute_number)>>
        Behind(f, w, v) == <<[field |-> f, wide |-> w, value |-> v]>>
    IN CASE form = "member"   -> named \o Behind("member", FALSE, 1)
         [] form = "member16" -> named \o Behind("member", TRUE, 1)
         [] form = "reserved" -> named \o Behind("other", FALSE, 0)
         [] OTHER             -> named

Request(service, c, i, n, form, data) ==
    [service |-> service, segments |-> SegmentsOf(Path(c, i, n), form),
     path |-> PathOctets(Path(c, i, n), form), data |-> data]

Get(c, i, n) == Request("GetAttributeSingle", c, i, n, "short", <<>>)
Set(c, i, n, data) == Request("SetAttributeSingle", c, i, n, "short", data)

List(numbers) ==
    LittleEndian(Len(numbers), 2) \o FlattenSeq([k \in DOMAIN numbers |-> LittleEndian(numbers[k], 2)])

Forms == {"wide", "member", "member16", "reserved", "cut", "cutValue"}

QosRequests ==
    {Get(QoS, 1, n) : n \in {1, 4, 8, 9}}
    \cup {Set(QoS, 1, n, data) : n \in {4, 8}, data \in {<<63>>, <<64>>, <<>>}}
    \cup {Set(QoS, 1, 1, <<1>>), Set(QoS, 0, 1, <<1>>)}
    \cup {Request("SetAttributeSingle", QoS, 1, 4, form, <<63>>) : form \in {"wide", "reserved", "cut"}}
    \cup {Request("Reset", Identity, 1, 0, "short", data) : data \in {<<>>, <<1>>}}

TcpIpRequests ==
    {Get(TcpIp, 1, n) : n \in {3, 4, 6, 7, 13}} \cup {Get(TcpIp, 0, n) : n \in {2, 5, 7}}
    \cup {Get(EthernetLink, 1, n) : n \in {3, 6}}
    \cup {Request("GetAttributeAll", c, i, 0, "short", <<>>) :
            c \in {TcpIp, EthernetLink}, i \in {0, 1}}
    \cup {Set(TcpIp, 1, 3, data) : data \in {<<1, 0, 0, 0>>, <<3, 0, 0, 0>>, <<16, 0, 0, 0>>}}
    \cup {Set(TcpIp, 1, 13, data) : data \in {<<16, 14>>, <<17, 14>>, <<60>>}}
    \cup {Set(TcpIp, 1, 5, <<>>), Set(TcpIp, 1, 7, <<>>)}
    \cup {Request("Reset", Identity, 1, 0, "short", data) : data \in {<<0>>, <<1>>}}

DeviceRequests ==
    {Get(Identity, i, n) : i \in {0, 1}, n \in {2, 5, 7}}
    \cup {Request("GetAttributeSingle", Identity, 1, 5, form, <<>>) : form \in Forms}
    \cup {Request("GetAttributeAll", c, i, 0, "short", <<>>) :
            c \in {Identity, MessageRouter, Assembly}, i \in {0, 1}}
    \cup {Get(MessageRouter, 1, 1), Get(300, 1, 1), Get(Identity, 2, 1)}
    \cup {Request("GetAttributeList", Identity, i, 0, "short", List(l)) : i \in {0, 1},
            l \in {<<>>, <<5, 6>>, <<1, 9>>, <<9, 6, 6>>, <<7, 7, 7>>}}
    \cup {Request("SetAttributeList", Identity, 1, 0, "short", data) :
            data \in {List(<<>>), List(<<9>>), List(<<7>>), List(<<1, 9, 6>>), List(<<6, 9, 9, 1, 1>>)}}
    \cup {Request("Reset", Identity, 1, 0, "short", data) : data \in {<<2>>, <<0, 0>>}}
    \cup {Set(Assembly, i, 3, data) :
            i \in {OutputAssembly, ExplicitAssembly}, data \in {<<1>>, <<1, 2>>, <<1, 2, 3>>}}
    \cup {Set(Assembly, HeartbeatInputOnly, 3, <<>>), Set(Assembly, OutputAssembly, 4, <<1, 2>>)}
    \cup {Get(Assembly, i, n) : i \in {OutputAssembly, ExplicitAssembly}, n \in {3, 4}}

MCRequests == QosRequests \cup TcpIpRequests \cup DeviceRequests

(* What RequestReachesNamed says is said of every request of the run.      *)
ASSUME MCRequestsAssumption == \A q \in MCRequests : Sound(q) \/ Foreign(q) \/ Overlong(q)

MCDeviceStatuses == {[flags |-> {Owned}, ext |-> RunMode], [flags |-> {}, ext |-> 0],
                     [flags |-> {MajorRecoverableFault}, ext |-> RunMode]}

MCInit == Init /\ focus \in {"qos", "tcpip", "device"}

RequestsOf ==
    [qos |-> QosRequests, tcpip |-> TcpIpRequests, device |-> DeviceRequests]

(* Next, with the requests of the group.                                   *)
MCNext ==
    /\ \/ \E q \in RequestsOf[focus] : HandleRequest(q)
       \/ DeviceStep
    /\ focus # "device" => objects'.identity = objects.identity
    /\ UNCHANGED focus

MCSpec == MCInit /\ [][MCNext]_<<vars, focus>>
=============================================================================
