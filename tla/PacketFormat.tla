---------------------------- MODULE PacketFormat ----------------------------
(***************************************************************************)
(* The common packet format (enet_encap/cpf.c): how the items of a request *)
(* are read and how the items of a reply are written, with the number of   *)
(* bytes that each item says it has and the number that is written.        *)
(***************************************************************************)
EXTENDS Naturals, Sequences

CONSTANTS
    NameLength,     \* length of the product name of the device
    ReadLength      \* length of the data of a Read

ASSUME PacketAssumption == NameLength \in Nat /\ ReadLength \in Nat

(* A request: the encapsulation header fields that are looked at (see      *)
(* CreateEncapsulationStructure), the types of its items and what is in    *)
(* them.  data_length < 6 is ~long; fits says how the items fill the data: *)
(* exactly, with bytes left over, or with a data item that is cut off.     *)
(* count is the item count of the request, whatever there is behind it.    *)
Message(c, command, ctx, items, id, seq, service, n) ==
    [command |-> command, session |-> c, ctx |-> ctx, options |-> FALSE,
     long |-> TRUE, fits |-> "exact", count |-> Len(items), items |-> items,
     id |-> id, seq |-> seq, service |-> service, n |-> n]

SockaddrItems == {"OtoT", "TtoO"}

(* The items of m are those it counts: address, data and at most one       *)
(* sockaddr item of each type.  The code accepts other requests as well.   *)
SockaddrItemsOnly(m) ==
    /\ m.count = Len(m.items) /\ m.count <= 4
    /\ \A j \in 3..Len(m.items) : m.items[j] \in SockaddrItems
    /\ Len(m.items) = 4 => m.items[3] # m.items[4]

(* The type of optional item j: what is no sockaddr item is read again as  *)
(* the next item, so nothing behind it is recognised; behind the data the  *)
(* buffer is zero.                                                         *)
InfoItem(m, j) ==
    IF j + 2 <= m.count /\ \A k \in 1..j :
          k + 2 <= Len(m.items) /\ m.items[k + 2] \in SockaddrItems
    THEN m.items[j + 2] ELSE "none"

(* CreateCommonPacketFormatStructure of at least two items; with fewer the *)
(* code goes on with what the message before left in the structure.        *)
CreateCommonPacketFormatStructure(m) ==
    [count |-> m.count, addr |-> m.items[1], id |-> m.id, data |-> m.items[2],
     seq |-> m.seq, info |-> <<InfoItem(m, 1), InfoItem(m, 2)>>]

(* The length that it returns an error for: bytes that are left over are   *)
(* taken for an optional item when more than two items are counted.        *)
WrongLength(m) ==
    \/ m.fits = "overrun"
    \/ m.count = 2 /\ (m.fits = "longer" \/ Len(m.items) > 2)

-----------------------------------------------------------------------------
HeaderLength == 24      \* ENCAPSULATION_HEADER_LENGTH

(* An item as it is written: the length it says, the bytes it takes.       *)
Item(type, length, bytes) == [type |-> type, length |-> length, bytes |-> bytes]

(* GenerateEncapsulationHeader: a message of which length bytes follow.    *)
Header(m, status, length) ==
    [command |-> m.command, session |-> m.session, ctx |-> m.ctx, status |-> status,
     length |-> length, used |-> HeaderLength, count |-> 0, items |-> <<>>,
     id |-> 0, seq |-> 0, service |-> "none", result |-> 0]

(* A reply with an item count and one item behind the header.              *)
WithItem(header, item) ==
    [header EXCEPT !.count = 1, !.items = <<item>>, !.used = @ + 2 + item.bytes]

(* HandleReceivedListServicesCommand, a structure of 24 bytes.             *)
ListServicesReply(m) ==
    WithItem(Header(m, "Success", 2 + 24),
             Item("ListServices", 24 - 4, 2 + 2 + 2 + 2 + 16))

(* HandleReceivedListInterfacesCommand: an item count of zero.             *)
ListInterfacesReply(m) == [Header(m, "Success", 2) EXCEPT !.used = @ + 2]

ListIdentityGetCipIdentityItemLength ==
    2 + 2 + 2 + 4 + 8 * 1 + 2 + 2 + 2 + 2 * 1 + 2 + 4 + 1 + NameLength + 1

(* EncodeListIdentityCipIdentityItem: type, length and version, address of *)
(* the device, zeros, the identity, the name and the state.                *)
EncodeListIdentityCipIdentityItem ==
    Item("CipIdentity", ListIdentityGetCipIdentityItemLength,
         (2 + 2 + 2) + (2 + 2 + 4) + 8 + (2 + 2 + 2 + 1 + 1 + 2 + 4) + (1 + NameLength) + 1)

(* EncapsulateListIdentityResponseMessage.                                 *)
ListIdentityReply(m) ==
    WithItem(Header(m, "Success", ListIdentityGetCipIdentityItemLength + 2 + 2 + 2),
             EncodeListIdentityCipIdentityItem)

(* EncapsulateRegisterSessionCommandResponseMessage: version and options.  *)
RegisterSessionReply(m, status) ==
    [Header(m, status, 4) EXCEPT !.used = @ + 2 + 2]

(* EncodeNullAddressItem and EncodeConnectedAddressItem.                   *)
EncodeAddressItem(p) ==
    IF p.addr = "Connection" THEN Item("Connection", 4, 2 + 2 + 4)
    ELSE Item("Null", 0, 2 + 2)

(* EncodeConnectedDataItemLength and EncodeUnconnectedDataItemLength.      *)
DataItemLength(p, response) ==
    response.used + 4 + (IF p.data = "Connected" THEN 2 ELSE 0) + 2 * response.extended

(* EncodeReplyService, EncodeReservedFieldOfLengthByte,                    *)
(* EncodeGeneralStatus, EncodeExtendedStatus and                           *)
(* EncodeMessageRouterResponseData.                                        *)
RouterResponseBytes(response) == 1 + 1 + 1 + (1 + 2 * response.extended) + response.used

(* The data item: type, length, sequence count, message router response.   *)
EncodeDataItem(p, response) ==
    Item(p.data, DataItemLength(p, response),
         2 + 2 + (IF p.data = "Connected" THEN 2 ELSE 0) + RouterResponseBytes(response))

(* EncodeSockaddrInfoItemTypeId, EncodeSockaddrInfoLength and              *)
(* EncapsulateIpAddress with eight zeros, of the first item of a type.     *)
SockaddrBytes == 2 + 2 + (2 + 2 + 4) + 8

EncodeSockaddr(p, type) ==
    IF type \in {p.info[1], p.info[2]} THEN <<Item(type, 16, SockaddrBytes)>> ELSE <<>>

(* Whatever their order in the request, O to T is first.                   *)
EncodeSockaddrs(p) == EncodeSockaddr(p, "OtoT") \o EncodeSockaddr(p, "TtoO")

(* AssembleLinearMessage for a reply of the message router, which has four *)
(* bytes of interface handle and two of time-out before the item count.    *)
(* The header is generated last and says how many bytes there are.         *)
AssembleLinearMessage(m, p, response) ==
    LET address == EncodeAddressItem(p)
        data == EncodeDataItem(p, response)
        sockaddrs == EncodeSockaddrs(p)
        items == <<address, data>> \o sockaddrs
        used == 4 + 2 + 2 + address.bytes + data.bytes + SockaddrBytes * Len(sockaddrs)
    IN [Header(m, "Success", used) EXCEPT
          !.used = @ + used,
          !.count = p.count,
          !.items = items,
          !.id = IF p.addr = "Connection" THEN p.id ELSE 0,
          !.seq = IF p.data = "Connected" THEN p.seq ELSE 0,
          !.service = m.service,
          !.result = response.result]

(* What NotifyConnectedCommonPacketFormat makes of the last reply for a    *)
(* request that is repeated: the length loses the header and gets it back. *)
WithNewHeader(m, last) ==
    [last EXCEPT !.command = m.command, !.session = m.session, !.ctx = m.ctx,
                 !.length = last.used - HeaderLength,
                 !.used = (last.used - HeaderLength) + HeaderLength]
=============================================================================
