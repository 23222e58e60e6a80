-------------------------- MODULE ExplicitMessages --------------------------
(***************************************************************************)
(* Explicit messaging: encapsulation commands and the common packet format *)
(* items they carry, from the TCP stream of a client to the reply.         *)
(*                                                                         *)
(*   enet_encap/encap.c   commands, encapsulation header                   *)
(*   enet_encap/cpf.c     items of a request, items of the reply, repeated *)
(*                        requests on a class 3 connection                 *)
(*                                                                         *)
(* A client is one TCP socket with its session.  It sends a request again  *)
(* when the answer does not come in time; it drops its connection when it  *)
(* gives up.  The streams keep the order of messages; an answer is lost    *)
(* when send() does not take it.  Competition for sessions is in Encap;    *)
(* here the handle of a client's session is the client.                    *)
(***************************************************************************)
EXTENDS Naturals, Sequences, FiniteSetsExt, PacketFormat

CONSTANTS
    Clients, NoClient,
    NumExplicitConns,   \* OPENER_CIP_NUM_EXPLICIT_CONNS
    SeqModulus,         \* 65536, class 3 sequence counts are CipUint
    FirstSeq,           \* sequence count of the first request of a connection
    Services,           \* what a class 3 request asks for
    OtherMessages,      \* what clients send besides, see the MC module
    NoReply,            \* an ENIPMessage with used_message_length 0
    MaxRequests,        \* bound: class 3 requests of a client
    MaxConnectionId,    \* bound: connections that are ever opened
    MaxRetries,         \* bound: repetitions of one request
    MaxLost,            \* bound: answers that send() does not take
    MaxQueue            \* bound: messages in a stream

Counts == 0..(SeqModulus - 1)

(* What a client can send, see Message.                                    *)
Requests ==
    [command : {"NOP", "ListServices", "ListIdentity", "ListInterfaces", "other",
                "RegisterSession", "UnregisterSession", "SendRRData", "SendUnitData"},
     session : Clients \cup {NoClient}, ctx : Nat \X Nat,
     options : BOOLEAN, long : BOOLEAN, fits : {"exact", "overrun", "longer"},
     count : Nat,
     items : Seq({"Null", "Connection", "Unconnected", "Connected", "none"} \cup SockaddrItems),
     id : Nat, seq : Counts, service : {"none", "Open", "Close", "Reset", "Read"}, n : Nat]

ASSUME ExplicitAssumption ==
    /\ NumExplicitConns \in Nat \ {0}
    /\ SeqModulus \in Nat \ {0, 1}
    /\ FirstSeq \in 1..(SeqModulus - 1)
    /\ NoClient \notin Clients /\ 0 \notin Clients
    /\ Services \subseteq {"Read", "Reset", "Close"}
    /\ MaxRequests \in Nat /\ MaxConnectionId \in Nat /\ MaxQueue \in Nat
    /\ MaxRetries \in Nat /\ MaxLost \in Nat /\ MaxLost < MaxRetries

(* The messages besides class 3 requests and the opening of a connection   *)
(* have sender contexts of their own and are not sent on a connection.     *)
(* Those that go to the common packet format have an address and a data    *)
(* item and count both; what they have or count behind them is arbitrary.  *)
ASSUME OtherAssumption ==
    /\ OtherMessages \subseteq Requests
    /\ \A m \in OtherMessages :
          /\ m.n = 0 /\ m.ctx[1] = 0 /\ m.ctx[2] # 1
          /\ m.command \in {"SendRRData", "SendUnitData"} =>
                Len(m.items) >= 2 /\ m.count >= 2 /\ m.service # "none"
          /\ m.command = "SendUnitData" => m.items[1] # "Connection"

VARIABLES
    registered, \* clients with an entry in g_registered_sessions
    pool,       \* explicit_connection_object_pool
    lastId,     \* the last connection id that was given out
    executed,   \* numbered requests of each client, as they took effect
    toDevice,   \* messages on the way from a client
    toClient,   \* replies on the way to a client
    client,     \* what a client waits for
    lost        \* answers lost so far

vars == <<registered, pool, lastId, executed, toDevice, toClient, client, lost>>

Slots == 1..NumExplicitConns

EmptyEntry == [id |-> 0, prod |-> NoClient, sess |-> NoClient, seq |-> 0, last |-> NoReply]

(* GetConnectedObject, as a set.  It looks through connection_list, of     *)
(* which the IO connections, with ids of their own, are not in this module.*)
GetConnectedObject(id) == {s \in Slots : pool[s].id = id /\ id # 0}

-----------------------------------------------------------------------------
(* The message router, down to what it does to connections and the items   *)
(* of the reply.  A Read stands for the services that touch neither.       *)

(* EstablishClass3Connection: ConnectionObjectDeepCopy of the dummy and    *)
(* ConnectionObjectGeneralConfiguration.                                   *)
Established(c) ==
    [EmptyEntry EXCEPT !.id = lastId + 1, !.prod = c, !.sess = c]

FreeSlots == {s \in Slots : pool[s].id = 0}

(* The pool after a service of client c on connection id.                  *)
PoolAfter(service, c, id) ==
    CASE service = "Open" /\ FreeSlots # {} ->
            [pool EXCEPT ![Min(FreeSlots)] = Established(c)]
      [] service = "Close" ->
            [s \in Slots |-> IF s \in GetConnectedObject(id) THEN EmptyEntry ELSE pool[s]]
      [] service = "Reset" -> [s \in Slots |-> EmptyEntry]
      [] OTHER -> pool

(* The items of the reply after a service.  AssembleForwardOpenResponse    *)
(* and AssembleForwardCloseResponse answer with a null address and an      *)
(* unconnected data item on whatever the request came.  The first counts   *)
(* the sockaddr items when it grants the request and says two items when   *)
(* it refuses, but leaves the sockaddr items in place; ForwardClose takes  *)
(* them out.                                                               *)
ItemsAfter(service, p) ==
    LET unconnected == [p EXCEPT !.addr = "Null", !.data = "Unconnected", !.count = 2]
        infos == Cardinality({j \in 1..2 : p.info[j] # "none"})
    IN CASE service = "Open" /\ FreeSlots # {} -> [unconnected EXCEPT !.count = 2 + infos]
         [] service = "Open" /\ FreeSlots = {} -> unconnected
         [] service = "Close" -> [unconnected EXCEPT !.info = <<"none", "none">>]
         [] OTHER -> p

(* The message router response: its data, the number of extended status    *)
(* words and what the reply tells the client.                              *)
Response(service, id, n) ==
    CASE service = "Open" /\ FreeSlots # {} -> [used |-> 26, extended |-> 0, result |-> lastId + 1]
      [] service = "Open" /\ FreeSlots = {} -> [used |-> 10, extended |-> 1, result |-> 0]
      [] service = "Close" ->
            [used |-> 10, extended |-> IF GetConnectedObject(id) = {} THEN 1 ELSE 0, result |-> n]
      [] service = "Reset" -> [used |-> 0, extended |-> 0, result |-> n]
      [] service = "Read"  -> [used |-> ReadLength, extended |-> 0, result |-> n]

(* NotifyMessageRouter, all of the above.                                  *)
NotifyMessageRouter(m) ==
    /\ lastId' = IF m.service = "Open" /\ FreeSlots # {} THEN lastId + 1 ELSE lastId
    /\ executed' = IF m.n = 0 THEN executed ELSE [executed EXCEPT ![m.session] = Append(@, m.n)]

-----------------------------------------------------------------------------
Put(c, m) == [toDevice EXCEPT ![c] = Append(@, m)]

(* HandleDataOnTcpSocket: the next message of client c is taken and there  *)
(* is room for a reply.                                                    *)
Takes(c) ==
    /\ Len(toClient[c]) < MaxQueue
    /\ toDevice' = [toDevice EXCEPT ![c] = Tail(@)]
    /\ UNCHANGED <<client, lost>>

Replies(c, r) ==
    toClient' = IF r = NoReply THEN toClient ELSE [toClient EXCEPT ![c] = Append(@, r)]

Answers(c, r) ==
    /\ Replies(c, r)
    /\ UNCHANGED <<registered, pool, lastId, executed>>

(* The List commands are answered with session handle 0.                   *)
Anonymous(r) == [r EXCEPT !.session = NoClient]

(* The cases of HandleReceivedExplictTcpData that keep no state: options   *)
(* that are set are not answered, NOP is not, the List commands and an     *)
(* unknown command are, as is a request without a session.  A request with *)
(* less than the six bytes before the items is not answered.               *)
HandleStateless(c, m) ==
    /\ Takes(c)
    /\ \/ m.options /\ Answers(c, NoReply)
       \/ /\ ~m.options
          /\ \/ m.command = "NOP" /\ Answers(c, NoReply)
             \/ m.command = "ListServices" /\ Answers(c, Anonymous(ListServicesReply(m)))
             \/ m.command = "ListIdentity" /\ Answers(c, Anonymous(ListIdentityReply(m)))
             \/ m.command = "ListInterfaces" /\ Answers(c, Anonymous(ListInterfacesReply(m)))
             \/ m.command = "other" /\ Answers(c, Header(m, "InvalidCommand", 0))
             \/ /\ m.command \in {"SendRRData", "SendUnitData"}
                /\ ~m.long
                /\ Answers(c, NoReply)
             \/ /\ m.command \in {"SendRRData", "SendUnitData"}
                /\ m.long /\ m.session \notin registered
                /\ Answers(c, Header(m, "InvalidSessionHandle", 0))

(* HandleReceivedRegisterSessionCommand with a free session: a second      *)
(* session on the socket is refused.                                       *)
HandleRegisterSession(c, m) ==
    /\ Takes(c) /\ m.command = "RegisterSession" /\ ~m.options
    /\ registered' = registered \cup {c}
    /\ Replies(c, RegisterSessionReply(m, IF c \in registered THEN "InvalidCommand" ELSE "Success"))
    /\ UNCHANGED <<pool, lastId, executed>>

(* CloseClass3ConnectionBasedOnSession ends at the connection it closes,   *)
(* which is the one that was opened last.                                  *)
PoolWithoutSession(c) ==
    LET ids == {pool[s].id : s \in {t \in Slots : pool[t].sess = c}}
    IN [s \in Slots |-> IF pool[s].id \in ids /\ pool[s].id = Max(ids)
                        THEN EmptyEntry ELSE pool[s]]

(* A client without a connection: only the numbers of its requests stay.   *)
Resting(k, state) ==
    [k EXCEPT !.state = state, !.tries = 0, !.id = 0, !.seq = FirstSeq, !.service = "Read"]

(* The end of the socket and session of c: what was in the streams is      *)
(* gone, rest is left of the pool.                                         *)
SessionEnds(c, rest) ==
    /\ registered' = registered \ {c}
    /\ pool' = rest
    /\ toDevice' = [toDevice EXCEPT ![c] = <<>>]
    /\ toClient' = [toClient EXCEPT ![c] = <<>>]
    /\ client' = [client EXCEPT ![c] = Resting(@, "off")]
    /\ UNCHANGED <<lastId, executed, lost>>

(* HandleReceivedUnregisterSessionCommand.                                 *)
HandleUnregisterSession(c, m) ==
    /\ m.command = "UnregisterSession" /\ ~m.options
    /\ c \in registered
    /\ SessionEnds(c, PoolWithoutSession(c))

UnregisterRefused(c, m) ==
    /\ Takes(c) /\ m.command = "UnregisterSession" /\ ~m.options
    /\ c \notin registered
    /\ Answers(c, Header(m, "InvalidSessionHandle", 0))

(* A request that reaches the common packet format.                        *)
TakesItems(c, m, command) ==
    /\ Takes(c)
    /\ m.command = command /\ ~m.options /\ m.long /\ m.session \in registered
    /\ UNCHANGED registered

(* NotifyCommonPacketFormat: wrong length is not answered, wrong items are *)
(* answered with an error, the rest goes to the message router.            *)
NotifyCommonPacketFormat(c, m) ==
    LET p == CreateCommonPacketFormatStructure(m)
        q == ItemsAfter(m.service, p)
    IN /\ TakesItems(c, m, "SendRRData")
       /\ IF WrongLength(m) \/ <<p.addr, p.data>> # <<"Null", "Unconnected">>
          THEN /\ Replies(c, IF WrongLength(m) THEN NoReply ELSE Header(m, "IncorrectData", 0))
               /\ UNCHANGED <<pool, lastId, executed>>
          ELSE /\ pool' = PoolAfter(m.service, c, m.id)
               /\ NotifyMessageRouter(m)
               /\ Replies(c, AssembleLinearMessage(m, q, Response(m.service, m.id, m.n)))

(* NotifyConnectedCommonPacketFormat for what is not answered: wrong       *)
(* length, wrong address or data item, a connection that is not there.     *)
ConnectedRefused(c, m) ==
    /\ TakesItems(c, m, "SendUnitData")
    /\ \/ WrongLength(m)
       \/ m.items[1] # "Connection"
       \/ m.items[2] # "Connected"
       \/ GetConnectedObject(m.id) = {}
    /\ Replies(c, NoReply)
    /\ UNCHANGED <<pool, lastId, executed>>

(* A request that NotifyConnectedCommonPacketFormat finds the connection   *)
(* of.                                                                     *)
TakesConnected(c, m, s) ==
    /\ TakesItems(c, m, "SendUnitData")
    /\ ~WrongLength(m)
    /\ m.items[1] = "Connection" /\ m.items[2] = "Connected"
    /\ s \in GetConnectedObject(m.id)

(* Mutants: a repeated request is dropped; its reply keeps the header of   *)
(* the first one.                                                          *)
Dropped(m, last) == NoReply

WithOldHeader(m, last) == last

(* The reply of a repeated request is the last one with a new header.  As  *)
(* long as there is none its length is zero and nothing is sent.           *)
Repeated(m, last) == IF last = NoReply THEN NoReply ELSE WithNewHeader(m, last)

(* NotifyConnectedCommonPacketFormat: the sequence count is that of the    *)
(* last request.                                                           *)
RepeatedRequest(c, m) ==
    \E s \in Slots :
        /\ TakesConnected(c, m, s)
        /\ pool[s].seq = m.seq
        /\ Replies(c, Repeated(m, pool[s].last))
        /\ UNCHANGED <<pool, lastId, executed>>

(* Mutants: sequence_count_consuming is not stored; it is stored after the *)
(* service, into whatever the service left of the object.                  *)
StoredReplyOnly(e, seq, r) == [e EXCEPT !.last = r]

StoredLate(e, seq, r) == [e EXCEPT !.seq = seq, !.last = r]

(* The connection object after a request; when the service closed the      *)
(* connection, the reply is written into the empty entry.                  *)
StoredReply(e, seq, r) ==
    IF e.id = 0 THEN [e EXCEPT !.last = r] ELSE [e EXCEPT !.seq = seq, !.last = r]

(* NotifyConnectedCommonPacketFormat: the request is executed; the reply   *)
(* carries the produced connection id that the object has afterwards.      *)
NewRequest(c, m) ==
    \E s \in Slots :
        LET after == PoolAfter(m.service, c, m.id)
            q == [ItemsAfter(m.service, CreateCommonPacketFormatStructure(m))
                    EXCEPT !.id = after[s].prod]
            r == AssembleLinearMessage(m, q, Response(m.service, m.id, m.n))
        IN /\ TakesConnected(c, m, s)
           /\ pool[s].seq # m.seq
           /\ NotifyMessageRouter(m)
           /\ pool' = [after EXCEPT ![s] = StoredReply(@, m.seq, r)]
           /\ Replies(c, r)

HandleReceivedExplictTcpData(c) ==
    /\ toDevice[c] # <<>>
    /\ LET m == Head(toDevice[c]) IN
          \/ HandleStateless(c, m)
          \/ HandleRegisterSession(c, m)
          \/ HandleUnregisterSession(c, m)
          \/ UnregisterRefused(c, m)
          \/ NotifyCommonPacketFormat(c, m)
          \/ ConnectedRefused(c, m)
          \/ RepeatedRequest(c, m)
          \/ NewRequest(c, m)

(* The stream of c ends or breaks off within a message: RemoveSession.     *)
SocketEnds(c) == client[c].state # "off" /\ SessionEnds(c, PoolWithoutSession(c))

(* Class3ConnectionTimeoutHandler: the session is closed as well, unless   *)
(* its originator has other connections, which may be IO connections.      *)
ConnectionTimesOut(s) ==
    LET rest == [pool EXCEPT ![s] = EmptyEntry] IN
    /\ pool[s].id # 0
    /\ \/ SessionEnds(pool[s].sess, rest)
       \/ /\ pool' = rest
          /\ UNCHANGED <<registered, lastId, executed, toDevice, toClient, client, lost>>

-----------------------------------------------------------------------------
(* The clients.                                                            *)
Sends(c, m, next) ==
    /\ Len(toDevice[c]) < MaxQueue
    /\ toDevice' = Put(c, m)
    /\ client' = [client EXCEPT ![c] = next]
    /\ UNCHANGED <<registered, pool, lastId, executed, toClient, lost>>

ClientConnects(c) ==
    /\ client[c].state = "off"
    /\ Sends(c, Message(c, "RegisterSession", <<0, 0>>, <<>>, 0, 0, "none", 0),
             [client[c] EXCEPT !.state = "registering"])

(* Forward Open of a class 3 connection, by an unconnected message.        *)
ClientOpens(c) ==
    /\ client[c].state = "idle" /\ lastId < MaxConnectionId
    /\ Sends(c, Message(c, "SendRRData", <<0, 1>>, <<"Null", "Unconnected">>, 0, 0, "Open", 0),
             [client[c] EXCEPT !.state = "opening"])

Class3Request(c, k, id, seq, service, n) ==
    Message(c, "SendUnitData", <<n, k>>, <<"Connection", "Connected">>, id, seq, service, n)

ClientRequests(c, service) ==
    LET k == client[c] IN
    /\ k.state = "ready" /\ k.n < MaxRequests
    /\ Sends(c, Class3Request(c, 0, k.id, k.seq, service, k.n + 1),
             [k EXCEPT !.state = "waiting", !.n = @ + 1, !.tries = 0, !.service = service])

ClientRetries(c) ==
    LET k == client[c] IN
    /\ k.state = "waiting" /\ k.tries < MaxRetries
    /\ Sends(c, Class3Request(c, k.tries + 1, k.id, k.seq, k.service, k.n),
             [k EXCEPT !.tries = @ + 1])

(* Other messages are sent while nothing else is on its way (a bound).     *)
ClientSendsOther(c, m) ==
    /\ client[c].state \in {"idle", "off"} /\ toDevice[c] = <<>> /\ toClient[c] = <<>>
    /\ m.service = "Open" => lastId < MaxConnectionId
    /\ Sends(c, [m EXCEPT !.session = c], client[c])

(* A client that hears nothing drops the connection, not the session.      *)
ClientGivesUp(c) ==
    /\ client[c].state \in {"waiting", "opening"}
    /\ client' = [client EXCEPT ![c] = Resting(@, "idle")]
    /\ UNCHANGED <<registered, pool, lastId, executed, toDevice, toClient, lost>>

Accepts(c, r) ==
    LET k == client[c] IN
    CASE k.state = "registering" /\ r.command = "RegisterSession" ->
            [k EXCEPT !.state = "idle"]
      [] k.state = "opening" /\ r.ctx = <<0, 1>> /\ r.result # 0 ->
            [k EXCEPT !.state = "ready", !.id = r.result, !.seq = FirstSeq]
      [] /\ k.state = "waiting" /\ r.command = "SendUnitData"
         /\ r.ctx[1] = k.n /\ r.id = c /\ r.seq = k.seq ->
            [k EXCEPT !.state = "ready", !.seq = (@ + 1) % SeqModulus, !.tries = 0,
                      !.service = "Read", !.answer = r.result]
      [] OTHER -> k

ClientReceives(c) ==
    /\ toClient[c] # <<>>
    /\ client' = [client EXCEPT ![c] = Accepts(c, Head(toClient[c]))]
    /\ toClient' = [toClient EXCEPT ![c] = Tail(@)]
    /\ UNCHANGED <<registered, pool, lastId, executed, toDevice, lost>>

AnswerLost(c) ==
    /\ toClient[c] # <<>> /\ lost < MaxLost
    /\ lost' = lost + 1
    /\ toClient' = [toClient EXCEPT ![c] = Tail(@)]
    /\ UNCHANGED <<registered, pool, lastId, executed, toDevice, client>>

-----------------------------------------------------------------------------
(* EncapsulationInit and InitializeClass3ConnectionData.                   *)
Init ==
    /\ registered = {}
    /\ pool = [s \in Slots |-> EmptyEntry]
    /\ lastId = 0
    /\ executed = [c \in Clients |-> <<>>]
    /\ toDevice = [c \in Clients |-> <<>>]
    /\ toClient = [c \in Clients |-> <<>>]
    /\ client = [c \in Clients |-> [state |-> "off", n |-> 0, tries |-> 0, id |-> 0,
                                    seq |-> FirstSeq, service |-> "Read", answer |-> 0]]
    /\ lost = 0

Next ==
    \/ \E c \in Clients :
          \/ HandleReceivedExplictTcpData(c)
          \/ SocketEnds(c)
          \/ ClientConnects(c)
          \/ ClientOpens(c)
          \/ \E service \in Services : ClientRequests(c, service)
          \/ ClientRetries(c)
          \/ \E m \in OtherMessages : ClientSendsOther(c, m)
          \/ ClientGivesUp(c)
          \/ ClientReceives(c)
          \/ AnswerLost(c)
    \/ \E s \in Slots : ConnectionTimesOut(s)

(* The stack serves its sockets cyclically; a client reads its replies and *)
(* repeats a request that is not answered.                                 *)
Fairness ==
    /\ \A c \in Clients : /\ WF_vars(HandleReceivedExplictTcpData(c))
                          /\ WF_vars(ClientReceives(c))
                          /\ WF_vars(ClientRetries(c))

Spec == Init /\ [][Next]_vars /\ Fairness

-----------------------------------------------------------------------------
(* Types: an entry that is free has no sequence count and no owner, and    *)
(* sequence counts stay below the modulus.                                 *)
TypeOK ==
    /\ registered \subseteq Clients
    /\ lastId \in Nat
    /\ \A s \in Slots :
          /\ pool[s].id \in 0..lastId
          /\ pool[s].seq \in Counts
          /\ pool[s].prod \in Clients \cup {NoClient}
          /\ pool[s].id = 0 <=> pool[s].prod = NoClient
          /\ pool[s].id = 0 => pool[s].seq = 0 /\ pool[s].sess = NoClient
    /\ \A s, t \in Slots : pool[s].id = pool[t].id => s = t \/ pool[s].id = 0
    /\ \A c \in Clients :
          /\ executed[c] \in Seq(1..MaxRequests)
          /\ client[c].seq \in Counts /\ client[c].n \in 0..MaxRequests
    /\ lost \in 0..MaxLost

(* Explicit messaging keeps the promise of RequestReply: a class 3 request *)
(* takes effect at most once however often it is repeated, and the answer  *)
(* a client accepts is the answer to its last request.                     *)
Promise == INSTANCE RequestReply WITH
    issued <- [c \in Clients |-> client[c].n],
    executed <- executed,
    answered <- [c \in Clients |-> client[c].answer]

AtMostOnce == Promise!Spec

(* A sender context used by a request with items of another kind.          *)
OddContext(ctx) == \E m \in OtherMessages : m.ctx = ctx /\ ~SockaddrItemsOnly(m)

(* A reply can be read: every item has the bytes it says, the header says  *)
(* how many bytes follow, and there are as many items as the count says.   *)
(* Of the count there are two exceptions: a refused Forward Open may carry *)
(* sockaddr items that it does not count, and the reply to a request with  *)
(* optional items that are no sockaddr items, are two of one type or are   *)
(* not there repeats the count of the request, which is too high then.  A  *)
(* repeated class 3 request never gets either.  No two replies on their    *)
(* way carry the sender context of the same class 3 request.               *)
RepliesFit ==
    \A c \in Clients : \A i, j \in DOMAIN toClient[c] :
        LET r == toClient[c][i] IN
        /\ r.used = HeaderLength + r.length
        /\ \A k \in DOMAIN r.items : r.items[k].bytes = 4 + r.items[k].length
        /\ \/ r.count = Len(r.items)
           \/ r.service = "Open" /\ r.result = 0 /\ r.count < Len(r.items)
           \/ OddContext(r.ctx) /\ r.count > Len(r.items)
        /\ i # j /\ r.ctx[1] # 0 => r.ctx # toClient[c][j].ctx

(* A client that waits for the answer to a class 3 request gets it, or it  *)
(* gives up, or its connection is gone.                                    *)
RequestAnswered ==
    \A c \in Clients :
        client[c].state = "waiting"
            ~> \/ client[c].state # "waiting"
               \/ GetConnectedObject(client[c].id) = {}
=============================================================================
