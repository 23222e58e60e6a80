---------------------------- MODULE ObjectModel ----------------------------
(***************************************************************************)
(* The classes the stack registers at the message router, as CipStackInit  *)
(* leaves them: instances, attributes with their flags, services, and the  *)
(* class attributes that every class has (cip/cipcommon.c, the Init        *)
(* function of each object, sample_application/sampleapplication.c).  The  *)
(* build options are those of opener_user_conf.h: no DLR, no counters, no  *)
(* interface control, no label, interface configuration not settable.      *)
(* ConnectionManagerInit registers one more class; its services are in the *)
(* modules about connections.                                              *)
(***************************************************************************)
EXTENDS RequestPath, FiniteSets

CONSTANTS
    InputAssembly, OutputAssembly, ConfigAssembly,  \* numbers the Java side chose
    AssemblySize        \* octets of each assembly: a function of the number

Identity == 1
MessageRouter == 2
Assembly == 4
QoS == 72
TcpIp == 245
EthernetLink == 246

HeartbeatInputOnly == 152
HeartbeatListenOnly == 153
ExplicitAssembly == 154

AssemblyInstances == {InputAssembly, OutputAssembly, ConfigAssembly,
                      HeartbeatInputOnly, HeartbeatListenOnly, ExplicitAssembly}

(* Input, output and configuration share no number; CreateAssemblyObject   *)
(* asserts when an instance gets its attributes twice.  Number and length  *)
(* are 16 bit wide, and number 0 is the class.                             *)
ASSUME AssemblyAssumption ==
    /\ Cardinality(AssemblyInstances) = 6
    /\ AssemblySize \in [AssemblyInstances -> Nat]
    /\ \A i \in AssemblyInstances : i \in Nat \ {0} /\ i < 65536 /\ AssemblySize[i] < 65536
    /\ AssemblySize[HeartbeatInputOnly] = 0
    /\ AssemblySize[HeartbeatListenOnly] = 0

-----------------------------------------------------------------------------
(* CIPAttributeFlag.  kNvDataFunc and kPostSetFunc are the same bit.       *)
NotSetOrGetable == {}
GetableAll == {"all"}
GetableSingle == {"single"}
GetableSingleAndAll == {"single", "all"}
GetableAllDummy == {"dummy"}
Setable == {"set"}
SetAndGetAble == {"set", "single", "all"}
NvDataFunc == {"postSet"}

(* InsertAttribute; the bit masks of a class are what the flags say.       *)
InsertAttribute(type, flags) == [type |-> type, flags |-> flags]

InGetSingleMask(a) == "single" \in a.flags
InGetAllMask(a) == a.flags \cap {"all", "dummy"} # {}
InSetMask(a) == "set" \in a.flags

(* CreateCipClass without an initializer: the seven class attributes, and  *)
(* GetAttributeAll for a class with more than one class service.           *)
ClassAttributes ==
    <<InsertAttribute("Uint", GetableSingleAndAll),
      InsertAttribute("Uint", GetableSingleAndAll),
      InsertAttribute("Uint", GetableSingleAndAll),
      InsertAttribute("Uint", GetableAllDummy),
      InsertAttribute("Uint", NotSetOrGetable),
      InsertAttribute("Uint", GetableSingle),
      InsertAttribute("Uint", GetableSingle)>>

ClassServices(number) ==
    {"GetAttributeSingle"} \cup (IF number > 1 THEN {"GetAttributeAll"} ELSE {})

(* The class attributes of InitializeCipIdentity and                       *)
(* InitializeCipMessageRouterClass have other flags.                       *)
InitializeCipIdentity ==
    [n \in 1..7 |-> InsertAttribute("Uint",
        CASE n = 3 -> GetableSingle [] n \in {4, 5} -> NotSetOrGetable
          [] OTHER -> GetableSingleAndAll)]

InitializeCipMessageRouterClass ==
    [n \in 1..7 |-> InsertAttribute("Uint",
        CASE n \in {2, 3} -> GetableSingle [] n \in {4, 5} -> GetableAll
          [] OTHER -> GetableSingleAndAll)]

(* AddCipInstances gives the numbers from 1 on.                            *)
AddCipInstances(number) == 1..number

CreateCipClass(revision, highest, instances, attributes, services, classAttributes, classServices) ==
    [revision |-> revision, highest |-> highest, instances |-> instances,
     attributes |-> attributes, services |-> services,
     classAttributes |-> classAttributes, classServices |-> classServices]

-----------------------------------------------------------------------------
CipIdentityInit ==
    LET types == <<"Uint", "Uint", "Uint", "UsintUsint", "Word", "Udint", "ShortString">>
    IN CreateCipClass(1, 7, AddCipInstances(1),
           [n \in 1..7 |-> InsertAttribute(types[n], GetableSingleAndAll)],
           {"GetAttributeSingle", "GetAttributeAll", "Reset", "GetAttributeList",
            "SetAttributeList"},
           InitializeCipIdentity, ClassServices(2))

CipMessageRouterInit ==
    CreateCipClass(1, 0, AddCipInstances(1), <<>>, {"GetAttributeSingle"},
                   InitializeCipMessageRouterClass, ClassServices(2))

(* CreateAssemblyObject adds the instances the application asks for.       *)
CreateAssemblyObject ==
    [n \in {3, 4} |->
        IF n = 3 THEN InsertAttribute("ByteArray", SetAndGetAble \cup {"preGet", "postSet"})
        ELSE InsertAttribute("Uint", GetableSingle)]

CreateAssemblyClass ==
    CreateCipClass(2, 4, AssemblyInstances, CreateAssemblyObject,
                   {"GetAttributeSingle", "SetAttributeSingle"},
                   ClassAttributes, ClassServices(1))

CipQoSInit ==
    CreateCipClass(1, 8, AddCipInstances(1),
        [n \in 1..8 |-> InsertAttribute("Usint",
            IF n \in 1..3 THEN NotSetOrGetable ELSE GetableSingle \cup Setable \cup NvDataFunc)],
        {"GetAttributeSingle", "SetAttributeSingle"},
        ClassAttributes, ClassServices(2))

CipTcpIpInterfaceInit ==
    LET types == <<"Dword", "Dword", "Dword", "Epath", "Octets", "String", "Octets",
                   "Usint", "Octets", "Bool", "Octets", "Bool", "Uint">>
    IN CreateCipClass(4, 13, AddCipInstances(1),
        [n \in 1..13 |-> InsertAttribute(types[n],
            CASE n \in {3, 13} -> SetAndGetAble \cup NvDataFunc
              [] n \in {5, 6} -> GetableSingleAndAll \cup NvDataFunc
              [] n \in {7, 10, 11, 12} -> GetableAllDummy
              [] OTHER -> GetableSingleAndAll)],
        {"GetAttributeSingle", "GetAttributeAll", "SetAttributeSingle"},
        ClassAttributes, ClassServices(2))

CipEthernetLinkInit ==
    LET types == <<"Udint", "Dword", "Octets", "Octets", "Octets", "Octets",
                   "Usint", "Usint", "Usint", "ShortString", "Octets">>
    IN CreateCipClass(4, 11, AddCipInstances(1),
        [n \in 1..11 |-> InsertAttribute(types[n],
            CASE n \in {4, 5, 8, 9} -> GetableAllDummy
              [] n \in {6, 10} -> GetableAll
              [] OTHER -> GetableSingleAndAll)],
        {"GetAttributeSingle", "GetAttributeAll"},
        ClassAttributes, ClassServices(2))

(* GetRegisteredObject                                                     *)
Registered == {Identity, MessageRouter, Assembly, QoS, TcpIp, EthernetLink}

GetCipClass(c) ==
    CASE c = Identity -> CipIdentityInit
      [] c = MessageRouter -> CipMessageRouterInit
      [] c = Assembly -> CreateAssemblyClass
      [] c = QoS -> CipQoSInit
      [] c = TcpIp -> CipTcpIpInterfaceInit
      [] c = EthernetLink -> CipEthernetLinkInit

(* GetCipInstance: instance 0 is the class itself.                         *)
InstanceExists(class, i) == i = 0 \/ i \in class.instances

AttributesOf(class, i) == IF i = 0 THEN class.classAttributes ELSE class.attributes

ServicesOf(class, i) == IF i = 0 THEN class.classServices ELSE class.services

(* GetMaxInstanceNumber                                                    *)
GetMaxInstanceNumber(class) ==
    IF class.instances = {} THEN 0
    ELSE CHOOSE m \in class.instances : \A i \in class.instances : i <= m

(* The values of the class attributes.  The two classes with an            *)
(* initializer give the number of instances as the largest number.         *)
ClassAttributeValue(c, class, n) ==
    CASE n = 1 -> class.revision
      [] n = 2 -> IF c \in {Identity, MessageRouter} THEN Cardinality(class.instances)
                  ELSE GetMaxInstanceNumber(class)
      [] n = 3 -> Cardinality(class.instances)
      [] n \in {4, 5} -> 0
      [] n = 6 -> 7
      [] n = 7 -> class.highest

-----------------------------------------------------------------------------
(* The Encode functions: v is the value, used what the reply holds so far. *)
(* Strings are padded to an even message.                                  *)
Encode(type, v, used) ==
    CASE type \in {"Usint", "Bool"} -> LittleEndian(v, 1)
      [] type \in {"Uint", "Word"} -> LittleEndian(v, 2)
      [] type \in {"Udint", "Dword"} -> LittleEndian(v, 4)
      [] type = "ShortString" -> <<Len(v)>> \o v
      [] type = "String" -> LittleEndian(Len(v), 2) \o v
                            \o (IF v # <<>> /\ (used + Len(v)) % 2 = 1 THEN <<0>> ELSE <<>>)
      [] type = "Epath" -> EncodeCipEPath(v, 2)
      [] type \in {"UsintUsint", "ByteArray", "Octets"} -> v

(* GetCipDataTypeLength; for a short string the octet d is its length, a   *)
(* signed number to which one is added: 255 gives 0.  Lengths from 128 to  *)
(* 254, which are negative, are left out.                                  *)
GetCipDataTypeLength(type, d) ==
    CASE type \in {"Usint", "Bool"} -> 1
      [] type \in {"Uint", "Word", "UsintUsint"} -> 2
      [] type \in {"Udint", "Dword"} -> 4
      [] type = "ShortString" -> (d + 1) % 256
      [] OTHER -> 0
=============================================================================
