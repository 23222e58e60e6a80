---------------------------- MODULE RequestPath ----------------------------
(***************************************************************************)
(* The octets of a request to the message router: service, padded EPATH    *)
(* and data (cip/cipcommon.c, cip/cipmessagerouter.c), and the integers of *)
(* enet_encap/endianconv.c.  The decoder reads a buffer in which the bytes *)
(* of earlier messages follow those that were received, so a buffer is     *)
(* longer than its message and the length is a parameter of its own.       *)
(***************************************************************************)
EXTENDS Naturals, Integers, Sequences

Octet == 0..255

Zeros(n) == [i \in 1..n |-> 0]

(* AddSintToMessage, AddIntToMessage, AddDintToMessage: n octets, the      *)
(* least significant one first.                                            *)
Weights == <<1, 256, 65536, 16777216>>

LittleEndian(v, n) == [i \in 1..n |-> (v \div Weights[i]) % 256]

(* GetUsintFromMessage, GetUintFromMessage, GetDintFromMessage at i.       *)
GetUsint(b, i) == b[i]

GetUint(b, i) == b[i] + 256 * b[i + 1]

GetDint(b, i) == GetUint(b, i) + 65536 * GetUint(b, i + 2)

(* Logical segments by the field they set: the octet of the 8 bit format,  *)
(* the 16 bit format is the next one.                                      *)
Logical == [class_id |-> 32, instance_number |-> 36, attribute_number |-> 48]
MemberId == 40

Path(c, i, a) == [class_id |-> c, instance_number |-> i, attribute_number |-> a]

-----------------------------------------------------------------------------
(* The fields that a logical segment of a type sets.                       *)
NarrowFields(type) == {f \in DOMAIN Logical : type = Logical[f]}
WideFields(type) == {f \in DOMAIN Logical : type = Logical[f] + 1}

WithFields(path, fields, v) == [f \in DOMAIN path |-> IF f \in fields THEN v ELSE path[f]]

(* One turn of the loop of DecodePaddedEPath.  A segment counts one word,  *)
(* or two when it is 16 bit wide.  The 16 bit member id counts two words   *)
(* but the runner passes only one of them.                                 *)
DecodeSegment(b, s) ==
    LET type == b[s.pos]
    IN CASE NarrowFields(type) # {} ->
              [s EXCEPT !.path = WithFields(@, NarrowFields(type), GetUsint(b, s.pos + 1)),
                        !.pos = @ + 2, !.words = @ + 1]
         [] WideFields(type) # {} ->
              [s EXCEPT !.path = WithFields(@, WideFields(type), GetUint(b, s.pos + 2)),
                        !.pos = @ + 4, !.words = @ + 2]
         [] type \in {MemberId, MemberId + 1} ->
              [s EXCEPT !.pos = @ + 2, !.words = @ + 1 + (type - MemberId)]
         [] OTHER -> [s EXCEPT !.ok = FALSE]

DecodePaddedEPath(b) ==
    LET start == [ok |-> TRUE, pos |-> 2, words |-> 0, path |-> Path(0, 0, 0)]
        after[n \in 0..b[1]] ==
            IF n = 0 THEN start
            ELSE LET s == after[n - 1]
                 IN IF s.ok /\ s.words < b[1] THEN DecodeSegment(b, s) ELSE s
    IN after[b[1]]

ConsumedWithoutSize(d) == 2 * d.words   \* mutant: the octet of the path size is not counted

BytesConsumed(d) == 2 * d.words + 1

(* EncodeEPath and EncodeCipEPath: a path of path_size words.  The narrow  *)
(* format is used wherever it is possible.                                 *)
EncodeLogical(f, v) ==
    IF v < 256 THEN <<Logical[f], v>> ELSE <<Logical[f] + 1, 0>> \o LittleEndian(v, 2)

EncodeEPath(path, path_size) ==
    LET class == EncodeLogical("class_id", path.class_id)
        inst  == EncodeLogical("instance_number", path.instance_number)
        attr  == EncodeLogical("attribute_number", path.attribute_number)
    IN class \o (IF Len(class) < 2 * path_size THEN inst ELSE <<>>)
             \o (IF Len(class \o inst) < 2 * path_size THEN attr ELSE <<>>)

EncodeCipEPath(path, path_size) ==
    LittleEndian(path_size, 2) \o EncodeEPath(path, path_size)

-----------------------------------------------------------------------------
(* CreateMessageRouterRequestStructure, behind the service octet: b is the *)
(* buffer from the path size on, length what was received of it.  The      *)
(* comparison with the length comes after the path was read.               *)
CreateMessageRouterRequestStructure(b, length) ==
    LET d == DecodePaddedEPath(b)
        consumed == BytesConsumed(d)
    IN [status |-> IF ~d.ok THEN "PathSegmentError"
                   ELSE IF consumed > length THEN "PathSizeInvalid"
                   ELSE "Success",
        path |-> d.path,
        data |-> SubSeq(b, d.pos, Len(b)),
        size |-> length - consumed]

-----------------------------------------------------------------------------
(* What a client means by the octets of a path, without the decoder: one   *)
(* segment after the other, each with its type, a value of one octet or,   *)
(* wide, of two octets behind a pad.  "other" is any segment that is no    *)
(* logical one; what is in it does not matter.                             *)
Segment == [field : DOMAIN Logical \cup {"member", "other"}, wide : BOOLEAN, value : Nat]

SegmentTypes == {32, 33, 36, 37, 48, 49, MemberId, MemberId + 1}

SegmentAt(path, k, seg) ==
    LET narrow == IF seg.field = "member" THEN MemberId ELSE Logical[seg.field]
    IN IF seg.field = "other" THEN path[k] \notin SegmentTypes
       ELSE /\ path[k] = IF seg.wide THEN narrow + 1 ELSE narrow
            /\ seg.value = IF seg.wide THEN GetUint(path, k + 2) ELSE GetUsint(path, k + 1)

(* Where the segments end: the next one begins there.                      *)
Ends(segments) ==
    LET end[j \in 0..Len(segments)] ==
            IF j = 0 THEN 2 ELSE end[j - 1] + (IF segments[j].wide THEN 4 ELSE 2)
    IN end

WrittenAs(path, segments) ==
    /\ Len(path) + 1 = Ends(segments)[Len(segments)]
    /\ Len(path) = 2 * path[1] + 1
    /\ \A j \in 1..Len(segments) : SegmentAt(path, Ends(segments)[j - 1], segments[j])

(* Behind a wide member id the decoder goes on too early.                  *)
WideMember(seg) == seg.field = "member" /\ seg.wide

Logicals(segments, n) == \A j \in 1..n : segments[j].field # "other" /\ ~ WideMember(segments[j])

(* The object that the first n segments name: the last value of each kind. *)
Named(segments, n) ==
    [f \in DOMAIN Logical |->
        LET given == {j \in 1..n : segments[j].field = f}
        IN IF given = {} THEN 0
           ELSE segments[CHOOSE j \in given : \A k \in given : k <= j].value]
=============================================================================
