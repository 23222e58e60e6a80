---------------------- MODULE ExplicitMessages_proofs -----------------------
(***************************************************************************)
(* Explicit messaging implements RequestReply, for any number of clients   *)
(* and connections, any modulus of the sequence counts and any bounds on   *)
(* repetitions, losses and queues; and every reply can be read.            *)
(*                                                                         *)
(* Why a repeated request is never executed twice: the messages of a       *)
(* client arrive in the order of their request numbers (Numbering), a      *)
(* client has at most one request on each connection that was not executed *)
(* yet, and the sequence count of the connection object tells an executed  *)
(* request from one that was not (Tracking).  That needs that nobody else  *)
(* uses the connection: its id was granted to one client, once (Grants).   *)
(***************************************************************************)
EXTENDS ExplicitMessages, ConnectionList_proofs, SequenceTheorems

Commands == {"NOP", "ListServices", "ListIdentity", "ListInterfaces", "other",
             "RegisterSession", "UnregisterSession", "SendRRData", "SendUnitData"}

ReplyItems ==
    [type : {"ListServices", "CipIdentity", "Null", "Connection", "Unconnected", "Connected"}
              \cup SockaddrItems,
     length : Nat, bytes : Nat]

(* What Header and AssembleLinearMessage make.                             *)
ReplyMessages ==
    [command : Commands, session : Clients \cup {NoClient}, ctx : Nat \X Nat,
     status : {"Success", "InvalidCommand", "InvalidSessionHandle", "IncorrectData"},
     length : Nat, used : Nat, count : Nat, items : Seq(ReplyItems),
     id : {0, NoClient} \cup Clients, seq : Counts,
     service : {"none", "Open", "Close", "Reset", "Read"}, result : Nat]

Entries ==
    [id : Nat, prod : Clients \cup {NoClient}, sess : Clients \cup {NoClient},
     seq : Counts, last : ReplyMessages \cup {NoReply}]

ClientStates ==
    [state : {"off", "registering", "idle", "opening", "ready", "waiting"},
     n : 0..MaxRequests, tries : Nat, id : Nat, seq : Counts,
     service : {"Read", "Reset", "Close"}, answer : Nat]

Types ==
    /\ registered \in SUBSET Clients
    /\ pool \in [Slots -> Entries]
    /\ lastId \in Nat
    /\ executed \in [Clients -> Seq(1..MaxRequests)]
    /\ toDevice \in [Clients -> Seq(Requests)]
    /\ toClient \in [Clients -> Seq(ReplyMessages)]
    /\ client \in [Clients -> ClientStates]
    /\ lost \in 0..MaxLost

(* A free entry is empty, an entry in use has an owner, and no connection  *)
(* id is used twice.                                                       *)
PoolInv ==
    /\ \A s \in Slots :
          /\ pool[s].id <= lastId
          /\ pool[s].id = 0 => pool[s].seq = 0 /\ pool[s].prod = NoClient /\ pool[s].sess = NoClient
          /\ pool[s].id # 0 => pool[s].prod \in Clients /\ pool[s].sess = pool[s].prod
    /\ \A s, t \in Slots : pool[s].id = pool[t].id /\ pool[s].id # 0 => s = t

-----------------------------------------------------------------------------
(* The messages on the way from and to client c.                           *)
Sent(c) == {toDevice[c][i] : i \in 1..Len(toDevice[c])}

Due(c) == {toClient[c][i] : i \in 1..Len(toClient[c])}

(* The number of the last request of c that took effect.                   *)
LastDone(c) == IF executed[c] = <<>> THEN 0 ELSE executed[c][Len(executed[c])]

(* A class 3 request of client c, as ClientRequests and ClientRetries make *)
(* it, and any other message.                                              *)
Class3Form(c, m) ==
    /\ m.command = "SendUnitData" /\ m.session = c /\ m.ctx[1] = m.n
    /\ m.items = <<"Connection", "Connected">> /\ m.count = 2
    /\ m.service \in {"Read", "Reset", "Close"}
    /\ m.id # 0 /\ m.id <= lastId /\ m.n <= client[c].n

OtherForm(m) ==
    /\ m.n = 0 /\ m.ctx[1] = 0
    /\ m.ctx[2] = 1 => m.command = "SendRRData" /\ m.service = "Open"
    /\ m.command \in {"SendRRData", "SendUnitData"} =>
          /\ Len(m.items) >= 2 /\ m.count >= 2 /\ m.service # "none"
          /\ SockaddrItemsOnly(m) \/ OddContext(m.ctx)
    /\ m.command = "SendUnitData" => m.items[1] # "Connection"

Formed(c) == \A m \in Sent(c) : IF m.n = 0 THEN OtherForm(m) ELSE Class3Form(c, m)

(* Requests are on the way in the order of their numbers, all messages     *)
(* with one number are the same request, and on one connection there is at *)
(* most one request that was not executed yet: the one the client waits    *)
(* for, or one that it gave up.                                            *)
Numbering(c) ==
    /\ LastDone(c) <= client[c].n
    /\ \A m \in Sent(c) : m.n # 0 => LastDone(c) <= m.n
    /\ \A i, j \in 1..Len(toDevice[c]) :
          i < j /\ toDevice[c][i].n # 0 /\ toDevice[c][j].n # 0
             => toDevice[c][i].n <= toDevice[c][j].n
    /\ \A m, q \in Sent(c) : m.n = q.n /\ m.n # 0 => m.id = q.id /\ m.seq = q.seq
    /\ \A m, q \in Sent(c) : m.id = q.id /\ LastDone(c) < m.n /\ LastDone(c) < q.n => m.n = q.n
    /\ client[c].state = "waiting" =>
          /\ client[c].n # 0
          /\ \A m \in Sent(c) :
                /\ m.n = client[c].n => m.id = client[c].id /\ m.seq = client[c].seq
                /\ m.id = client[c].id /\ LastDone(c) < m.n => m.n = client[c].n
    /\ client[c].state = "ready" =>
          \A m \in Sent(c) : m.id = client[c].id => ~(LastDone(c) < m.n)

(* What the connection object e knows of request n of client c.            *)
Tracks(c, e, n, seq) ==
    IF LastDone(c) < n THEN e.seq # seq
    ELSE e.seq = seq /\ (e.last # NoReply => e.last.result = n)

Tracking(c) ==
    /\ client[c].id <= lastId
    /\ client[c].state \in {"ready", "waiting"} => client[c].id # 0
    /\ \A s \in Slots :
          /\ \A m \in Sent(c) :
                m.n # 0 /\ pool[s].id = m.id => pool[s].prod = c /\ Tracks(c, pool[s], m.n, m.seq)
          /\ client[c].state \in {"ready", "waiting"} /\ pool[s].id = client[c].id =>
                /\ pool[s].prod = c
                /\ client[c].state = "waiting" => Tracks(c, pool[s], client[c].n, client[c].seq)
                /\ client[c].state = "ready" => pool[s].seq # client[c].seq

(* A reply that grants a connection names one that nobody has used yet.    *)
IsGrant(r) == r.ctx = <<0, 1>> /\ r.result # 0

Grants(c) ==
    /\ \A r \in Due(c) :
          IsGrant(r) =>
             /\ r.result <= lastId /\ r.result # client[c].id
             /\ \A m \in Sent(c) : m.n # 0 => m.id # r.result
             /\ \A s \in Slots : pool[s].id = r.result => pool[s].prod = c /\ pool[s].seq = 0
    /\ \A i, j \in 1..Len(toClient[c]) :
          i # j /\ IsGrant(toClient[c][i]) /\ IsGrant(toClient[c][j])
             => toClient[c][i].result # toClient[c][j].result

(* A reply that the client would accept for a request is the answer to     *)
(* that request, which took effect.                                        *)
AnswerTrue(c, r) ==
    r.command = "SendUnitData" /\ r.id = c /\ r.ctx[1] # 0
       => r.result = r.ctx[1] /\ r.ctx[1] <= LastDone(c)

Answered(c) == \A r \in Due(c) : AnswerTrue(c, r)

(* A sender context that client c has used by now.                         *)
ContextUsed(c, ctx) ==
    /\ ctx[1] <= client[c].n
    /\ client[c].state = "waiting" /\ ctx[1] = client[c].n => ctx[2] <= client[c].tries

(* No two messages of a client, on the way or answered, have the sender    *)
(* context of the same class 3 request.                                    *)
Contexts(c) ==
    /\ \A i, j \in 1..Len(toDevice[c]) :
          i # j /\ toDevice[c][i].ctx[1] # 0 => toDevice[c][i].ctx # toDevice[c][j].ctx
    /\ \A i, j \in 1..Len(toClient[c]) :
          i # j /\ toClient[c][i].ctx[1] # 0 => toClient[c][i].ctx # toClient[c][j].ctx
    /\ \A m \in Sent(c), r \in Due(c) : m.ctx[1] # 0 => m.ctx # r.ctx
    /\ \A m \in Sent(c) : ContextUsed(c, m.ctx)
    /\ \A r \in Due(c) : ContextUsed(c, r.ctx)

(* A reply whose lengths are what is written, and its item count as well;  *)
(* a reply that may repeat the count of a request with other items.        *)
FitsAlways(r) ==
    /\ r.used = HeaderLength + r.length
    /\ \A k \in DOMAIN r.items : r.items[k].bytes = 4 + r.items[k].length
    /\ \/ r.count = Len(r.items)
       \/ r.service = "Open" /\ r.result = 0 /\ r.count < Len(r.items)

Fits(r) ==
    /\ r.used = HeaderLength + r.length
    /\ \A k \in DOMAIN r.items : r.items[k].bytes = 4 + r.items[k].length
    /\ \/ r.count = Len(r.items)
       \/ r.service = "Open" /\ r.result = 0 /\ r.count < Len(r.items)
       \/ OddContext(r.ctx) /\ r.count > Len(r.items)

AllFit ==
    /\ \A c \in Clients : \A r \in Due(c) : Fits(r)
    /\ \A s \in Slots : pool[s].last # NoReply => FitsAlways(pool[s].last)

ClientInv(c) ==
    Formed(c) /\ Numbering(c) /\ Tracking(c) /\ Grants(c) /\ Answered(c) /\ Contexts(c)

IInv == Types /\ PoolInv /\ AllFit /\ \A c \in Clients : ClientInv(c)

-----------------------------------------------------------------------------
(* Taking the first message of a stream leaves the others in their order.  *)
LEMMA TailOfStream ==
    ASSUME NEW S, NEW q \in Seq(S), q # <<>>
    PROVE  /\ Tail(q) \in Seq(S) /\ Head(q) \in S
           /\ Len(q) \in Nat /\ Len(Tail(q)) = Len(q) - 1
           /\ 1 \in 1..Len(q) /\ Head(q) = q[1]
           /\ \A i \in 1..Len(Tail(q)) : i + 1 \in 1..Len(q) /\ i + 1 # 1 /\ Tail(q)[i] = q[i + 1]
           /\ {Tail(q)[i] : i \in 1..Len(Tail(q))} \in SUBSET {q[i] : i \in 1..Len(q)}
           /\ Head(q) \in {q[i] : i \in 1..Len(q)}
<1>1. Len(q) \in Nat /\ Len(q) # 0
  BY EmptySeq, LenProperties
<1>2. /\ Tail(q) \in Seq(S) /\ Len(Tail(q)) = Len(q) - 1
      /\ \A i \in 1..Len(Tail(q)) : Tail(q)[i] = q[i + 1]
      /\ Head(q) \in S /\ Head(q) = q[1]
  BY <1>1, HeadTailProperties
<1>3. 1 \in 1..Len(q) /\ \A i \in 1..Len(Tail(q)) : i + 1 \in 1..Len(q) /\ i + 1 # 1
  BY <1>1, <1>2
<1> QED
  BY <1>1, <1>2, <1>3

(* Putting a message into a stream leaves the others in their order.       *)
LEMMA AppendedToStream ==
    ASSUME NEW S, NEW q \in Seq(S), NEW x \in S
    PROVE  /\ Append(q, x) \in Seq(S)
           /\ Len(q) \in Nat /\ Len(Append(q, x)) = Len(q) + 1
           /\ \A i \in 1..Len(q) : i \in 1..Len(q) + 1 /\ i # Len(q) + 1 /\ Append(q, x)[i] = q[i]
           /\ Append(q, x)[Len(q) + 1] = x
           /\ \A i \in 1..Len(q) + 1 : i = Len(q) + 1 \/ i \in 1..Len(q)
           /\ {Append(q, x)[i] : i \in 1..Len(Append(q, x))} = {q[i] : i \in 1..Len(q)} \cup {x}
<1>1. /\ Append(q, x) \in Seq(S)
      /\ Len(q) \in Nat /\ Len(Append(q, x)) = Len(q) + 1
      /\ \A i \in 1..Len(q) : Append(q, x)[i] = q[i]
      /\ Append(q, x)[Len(q) + 1] = x
  BY AppendProperties, LenProperties
<1>2. /\ \A i \in 1..Len(q) : i \in 1..Len(q) + 1 /\ i # Len(q) + 1
      /\ \A i \in 1..Len(q) + 1 : i = Len(q) + 1 \/ i \in 1..Len(q)
      /\ Len(q) + 1 \in 1..Len(q) + 1
  BY <1>1
<1> QED
  BY <1>1, <1>2

(* The fields of what is on the way that the invariant compares.           *)
LEMMA StreamTypes ==
    ASSUME Types, NEW c \in Clients
    PROVE  /\ \A m \in Sent(c) : /\ m \in Requests
                                 /\ m.id \in Nat /\ m.n \in Nat /\ m.seq \in Counts
                                 /\ m.ctx \in Nat \X Nat
           /\ \A r \in Due(c) : r \in ReplyMessages /\ r.result \in Nat /\ r.ctx \in Nat \X Nat
           /\ client[c].id \in Nat /\ client[c].n \in Nat /\ client[c].seq \in Counts
           /\ client[c].tries \in Nat
           /\ LastDone(c) \in Nat
<1>1. toDevice[c] \in Seq(Requests) /\ toClient[c] \in Seq(ReplyMessages)
  BY DEF Types
<1>2. Sent(c) \in SUBSET Requests
  BY <1>1, ElementOfSeq DEF Sent
<1>3. Due(c) \in SUBSET ReplyMessages
  BY <1>1, ElementOfSeq DEF Due
<1>4. \A m \in Requests : m.id \in Nat /\ m.n \in Nat /\ m.seq \in Counts /\ m.ctx \in Nat \X Nat
  BY DEF Requests
<1>5. \A r \in ReplyMessages : r.result \in Nat /\ r.ctx \in Nat \X Nat
  BY DEF ReplyMessages
<1>6. client[c] \in ClientStates
  BY DEF Types
<1>7. /\ client[c].id \in Nat /\ client[c].n \in Nat /\ client[c].seq \in Counts
      /\ client[c].tries \in Nat
  BY <1>6, ExplicitAssumption DEF ClientStates
<1>8. executed[c] \in Seq(1..MaxRequests)
  BY DEF Types
<1>9. executed[c] # <<>> => Len(executed[c]) \in 1..Len(executed[c])
  BY <1>8, EmptySeq, LenProperties
<1>10. LastDone(c) \in Nat
  BY <1>8, <1>9, ElementOfSeq, ExplicitAssumption DEF LastDone
<1> QED
  BY <1>2, <1>3, <1>4, <1>5, <1>7, <1>10

(* Of the connections that are there already, a step changes no connection *)
(* of c but the one with this id, except that it may close it.             *)
PoolKept(c, id) ==
    \A s \in Slots :
        pool'[s].id \notin {0, id} /\ pool'[s].id <= lastId =>
            \/ pool'[s] = pool[s]
            \/ pool[s].prod # c /\ pool'[s].id = pool[s].id /\ pool'[s].prod = pool[s].prod

(* What a step does that neither c nor its connections take part in.       *)
NotInvolved(c) ==
    /\ lastId' \in Nat /\ lastId <= lastId'
    /\ PoolKept(c, 0)
    /\ toDevice'[c] = toDevice[c] /\ toClient'[c] = toClient[c]
    /\ client'[c] = client[c] /\ executed'[c] = executed[c]

(* Such a step keeps what the invariant says of c.                         *)
LEMMA OthersKept ==
    ASSUME Types, NEW c \in Clients, ClientInv(c), NotInvolved(c)
    PROVE  ClientInv(c)'
<1>1. Sent(c)' = Sent(c) /\ Due(c)' = Due(c) /\ LastDone(c)' = LastDone(c)
  BY DEF NotInvolved, Sent, Due, LastDone
<1>2. /\ client'[c] = client[c] /\ toDevice'[c] = toDevice[c] /\ toClient'[c] = toClient[c]
      /\ lastId \in Nat /\ lastId' \in Nat /\ lastId <= lastId'
  BY DEF NotInvolved, Types
<1>3. /\ \A m \in Sent(c) : m.id \in Nat
      /\ \A r \in Due(c) : r.result \in Nat
      /\ client[c].id \in Nat
  BY StreamTypes
<1>4. Formed(c)'
  <2> SUFFICES ASSUME NEW m \in Sent(c)
               PROVE  IF m.n = 0 THEN OtherForm(m) ELSE Class3Form(c, m)'
    BY <1>1 DEF Formed
  <2>1. IF m.n = 0 THEN OtherForm(m) ELSE Class3Form(c, m)
    BY DEF ClientInv, Formed
  <2>2. m.id <= lastId => m.id <= lastId'
    BY <1>2, <1>3
  <2> QED
    BY <1>2, <2>1, <2>2 DEF Class3Form
<1>5. Numbering(c)'
  BY <1>1, <1>2 DEF ClientInv, Numbering
<1>6. Tracking(c)'
  <2>1. client[c].id <= lastId'
    BY <1>2, <1>3 DEF ClientInv, Tracking
  <2>2. ASSUME NEW s \in Slots, NEW m \in Sent(c), m.n # 0, pool'[s].id = m.id
        PROVE  pool'[s].prod = c /\ Tracks(c, pool[s], m.n, m.seq) /\ pool'[s] = pool[s]
    <3>1. m.id # 0 /\ m.id <= lastId
      BY <2>2 DEF ClientInv, Formed, Class3Form
    <3>2. \/ pool'[s] = pool[s]
          \/ pool[s].prod # c /\ pool'[s].id = pool[s].id /\ pool'[s].prod = pool[s].prod
      BY <2>2, <3>1 DEF NotInvolved, PoolKept
    <3> QED
      BY <2>2, <3>2 DEF ClientInv, Tracking
  <2>3. ASSUME NEW s \in Slots, client[c].state \in {"ready", "waiting"}, pool'[s].id = client[c].id
        PROVE  pool'[s] = pool[s]
    <3>1. client[c].id # 0 /\ client[c].id <= lastId
      BY <2>3 DEF ClientInv, Tracking
    <3>2. \/ pool'[s] = pool[s]
          \/ pool[s].prod # c /\ pool'[s].id = pool[s].id /\ pool'[s].prod = pool[s].prod
      BY <2>3, <3>1 DEF NotInvolved, PoolKept
    <3> QED
      BY <2>3, <3>2 DEF ClientInv, Tracking
  <2> QED
    BY <1>1, <1>2, <2>1, <2>2, <2>3 DEF ClientInv, Tracking, Tracks
<1>7. Grants(c)'
  <2>1. ASSUME NEW r \in Due(c), IsGrant(r)
        PROVE  /\ r.result <= lastId'
               /\ \A s \in Slots : pool'[s].id = r.result => pool'[s].prod = c /\ pool'[s].seq = 0
    <3>1. r.result # 0 /\ r.result <= lastId
      BY <2>1 DEF ClientInv, Grants, IsGrant
    <3>2. ASSUME NEW s \in Slots, pool'[s].id = r.result
          PROVE  pool'[s].prod = c /\ pool'[s].seq = 0
      <4>1. \/ pool'[s] = pool[s]
            \/ pool[s].prod # c /\ pool'[s].id = pool[s].id /\ pool'[s].prod = pool[s].prod
        BY <3>1, <3>2 DEF NotInvolved, PoolKept
      <4> QED
        BY <2>1, <3>2, <4>1 DEF ClientInv, Grants
    <3> QED
      BY <1>2, <1>3, <3>1, <3>2
  <2> QED
    BY <1>1, <1>2, <2>1 DEF ClientInv, Grants, IsGrant
<1>8. Answered(c)'
  BY <1>1 DEF ClientInv, Answered, AnswerTrue
<1>9. Contexts(c)'
  BY <1>1, <1>2 DEF ClientInv, Contexts, ContextUsed
<1> QED
  BY <1>4, <1>5, <1>6, <1>7, <1>8, <1>9 DEF ClientInv

(* The reply r, if there is one, to message m of client c: it carries the  *)
(* sender context of m, says nothing wrong, and when it grants a           *)
(* connection then a new one.                                              *)
ReplyTo(c, m, r) ==
    /\ r \in ReplyMessages
    /\ r.ctx = m.ctx
    /\ r.command = "SendUnitData" /\ r.id = c /\ r.ctx[1] # 0
          => r.result = r.ctx[1] /\ r.ctx[1] <= LastDone(c)'
    /\ IsGrant(r) =>
          /\ r.result = lastId' /\ lastId' = lastId + 1
          /\ \A s \in Slots : pool'[s].id = lastId' => pool'[s].prod = c /\ pool'[s].seq = 0

(* The message m of client c is taken from its stream and answered.        *)
TakenFrom(c, m) ==
    /\ toDevice[c] # <<>> /\ m = Head(toDevice[c])
    /\ toDevice'[c] = Tail(toDevice[c])
    /\ client'[c] = client[c]
    /\ lastId' \in Nat /\ lastId <= lastId'
    /\ \/ toClient'[c] = toClient[c]
       \/ \E r : ReplyTo(c, m, r) /\ toClient'[c] = Append(toClient[c], r)

(* What is said of the streams of c alone, for a message that is taken.    *)
LEMMA StreamsAfterTake ==
    ASSUME Types, NEW c \in Clients, ClientInv(c), NEW m, TakenFrom(c, m)
    PROVE  /\ m \in Sent(c)
           /\ Sent(c)' \in SUBSET Sent(c)
           /\ \A q \in Sent(c)' : m.n # 0 /\ q.n # 0 => m.n <= q.n
           /\ \A i, j \in 1..Len(toDevice'[c]) :
                 i < j /\ toDevice'[c][i].n # 0 /\ toDevice'[c][j].n # 0
                    => toDevice'[c][i].n <= toDevice'[c][j].n
           /\ Contexts(c)'
<1>1. toDevice[c] \in Seq(Requests) /\ toClient[c] \in Seq(ReplyMessages)
  BY DEF Types
<1>2. /\ toDevice[c] # <<>> /\ m = Head(toDevice[c]) /\ toDevice'[c] = Tail(toDevice[c])
      /\ client'[c] = client[c]
  BY DEF TakenFrom
<1>3. /\ Len(toDevice[c]) \in Nat /\ Len(toDevice'[c]) = Len(toDevice[c]) - 1
      /\ 1 \in 1..Len(toDevice[c]) /\ m = toDevice[c][1]
      /\ \A i \in 1..Len(toDevice'[c]) : /\ i + 1 \in 1..Len(toDevice[c]) /\ i + 1 # 1
                                         /\ toDevice'[c][i] = toDevice[c][i + 1]
      /\ Sent(c)' \in SUBSET Sent(c)
      /\ m \in Sent(c)
  BY <1>1, <1>2, TailOfStream DEF Sent
<1>4. Numbering(c) /\ Contexts(c)
  BY DEF ClientInv
<1>5. \A i \in 1..Len(toDevice'[c]) : m.n # 0 /\ toDevice'[c][i].n # 0 => m.n <= toDevice'[c][i].n
  <2> SUFFICES ASSUME NEW i \in 1..Len(toDevice'[c]), m.n # 0, toDevice'[c][i].n # 0
               PROVE  m.n <= toDevice'[c][i].n
    OBVIOUS
  <2>1. 1 < i + 1 /\ i + 1 \in 1..Len(toDevice[c])
    BY <1>3
  <2> QED
    BY <1>3, <1>4, <2>1 DEF Numbering
<1>6. \A q \in Sent(c)' : m.n # 0 /\ q.n # 0 => m.n <= q.n
  BY <1>5 DEF Sent
<1>7. \A i, j \in 1..Len(toDevice'[c]) :
         i < j /\ toDevice'[c][i].n # 0 /\ toDevice'[c][j].n # 0
            => toDevice'[c][i].n <= toDevice'[c][j].n
  <2> SUFFICES ASSUME NEW i \in 1..Len(toDevice'[c]), NEW j \in 1..Len(toDevice'[c]),
                      i < j, toDevice'[c][i].n # 0, toDevice'[c][j].n # 0
               PROVE  toDevice'[c][i].n <= toDevice'[c][j].n
    OBVIOUS
  <2>1. i + 1 < j + 1 /\ i + 1 \in 1..Len(toDevice[c]) /\ j + 1 \in 1..Len(toDevice[c])
    BY <1>3
  <2>2. toDevice'[c][i] = toDevice[c][i + 1] /\ toDevice'[c][j] = toDevice[c][j + 1]
    BY <1>3
  <2>3. \A a, b \in 1..Len(toDevice[c]) :
          a < b /\ toDevice[c][a].n # 0 /\ toDevice[c][b].n # 0
             => toDevice[c][a].n <= toDevice[c][b].n
    BY <1>4 DEF Numbering
  <2> QED
    BY <2>1, <2>2, <2>3
<1>8. ASSUME NEW i \in 1..Len(toDevice'[c]), NEW j \in 1..Len(toDevice'[c]),
             i # j, toDevice'[c][i].ctx[1] # 0
      PROVE  toDevice'[c][i].ctx # toDevice'[c][j].ctx
  <2>1. i + 1 # j + 1 /\ i + 1 \in 1..Len(toDevice[c]) /\ j + 1 \in 1..Len(toDevice[c])
    BY <1>3, <1>8
  <2>2. toDevice'[c][i] = toDevice[c][i + 1] /\ toDevice'[c][j] = toDevice[c][j + 1]
    BY <1>3
  <2>3. \A a, b \in 1..Len(toDevice[c]) :
          a # b /\ toDevice[c][a].ctx[1] # 0 => toDevice[c][a].ctx # toDevice[c][b].ctx
    BY <1>4 DEF Contexts
  <2> QED
    BY <1>8, <2>1, <2>2, <2>3
<1>9. ASSUME NEW q \in Sent(c)', q.ctx[1] # 0 PROVE q.ctx # m.ctx
  <2>1. PICK i \in 1..Len(toDevice'[c]) : q = toDevice'[c][i]
    BY DEF Sent
  <2>2. i + 1 \in 1..Len(toDevice[c]) /\ i + 1 # 1 /\ q = toDevice[c][i + 1]
    BY <1>3, <2>1
  <2> QED
    BY <1>3, <1>4, <1>9, <2>2 DEF Contexts
<1>10. \A q \in Sent(c)' : ContextUsed(c, q.ctx)
  BY <1>3, <1>4 DEF Contexts
<1>11. \A q : ContextUsed(c, q)' <=> ContextUsed(c, q)
  BY <1>2 DEF ContextUsed
<1>12. CASE toClient'[c] = toClient[c]
  <2>1. Due(c)' = Due(c)
    BY <1>12 DEF Due
  <2> QED
    BY <1>3, <1>4, <1>6, <1>7, <1>8, <1>10, <1>11, <1>12, <2>1 DEF Contexts
<1>13. ASSUME NEW r, ReplyTo(c, m, r), toClient'[c] = Append(toClient[c], r)
       PROVE  Contexts(c)'
  <2>1. r \in ReplyMessages /\ r.ctx = m.ctx
    BY <1>13 DEF ReplyTo
  <2>2. /\ Len(toClient[c]) \in Nat /\ Len(toClient'[c]) = Len(toClient[c]) + 1
        /\ \A i \in 1..Len(toClient[c]) : toClient'[c][i] = toClient[c][i]
        /\ toClient'[c][Len(toClient[c]) + 1] = r
        /\ \A i \in 1..Len(toClient[c]) + 1 : i = Len(toClient[c]) + 1 \/ i \in 1..Len(toClient[c])
        /\ Due(c)' = Due(c) \cup {r}
    BY <1>1, <1>13, <2>1, AppendedToStream DEF Due
  <2>3. \A d \in Due(c) : m.ctx[1] # 0 => r.ctx # d.ctx
    BY <1>3, <1>4, <2>1 DEF Contexts
  <2>4. ASSUME NEW i \in 1..Len(toClient[c]) PROVE toClient[c][i] \in Due(c)
    BY DEF Due
  <2>5. ASSUME NEW i \in 1..Len(toClient'[c]), NEW j \in 1..Len(toClient'[c]),
               i # j, toClient'[c][i].ctx[1] # 0
        PROVE  toClient'[c][i].ctx # toClient'[c][j].ctx
    <3>1. CASE i \in 1..Len(toClient[c]) /\ j \in 1..Len(toClient[c])
      <4>1. \A a, b \in 1..Len(toClient[c]) :
              a # b /\ toClient[c][a].ctx[1] # 0 => toClient[c][a].ctx # toClient[c][b].ctx
        BY <1>4 DEF Contexts
      <4> QED
        BY <2>2, <2>5, <3>1, <4>1
    <3>2. CASE i = Len(toClient[c]) + 1 /\ j \in 1..Len(toClient[c])
      BY <2>1, <2>2, <2>3, <2>4, <2>5, <3>2
    <3>3. CASE j = Len(toClient[c]) + 1 /\ i \in 1..Len(toClient[c])
      BY <2>1, <2>2, <2>3, <2>4, <2>5, <3>3
    <3> QED
      BY <2>2, <2>5, <3>1, <3>2, <3>3
  <2>6. \A q \in Sent(c)', d \in Due(c)' : q.ctx[1] # 0 => q.ctx # d.ctx
    BY <1>3, <1>4, <1>9, <2>1, <2>2 DEF Contexts
  <2>7. \A d \in Due(c)' : ContextUsed(c, d.ctx)
    BY <1>3, <1>4, <2>1, <2>2 DEF Contexts
  <2> QED
    BY <1>8, <1>10, <1>11, <2>5, <2>6, <2>7 DEF Contexts
<1> QED
  BY <1>3, <1>6, <1>7, <1>12, <1>13 DEF TakenFrom

(* What is said of the grants on their way to c, for a message that is     *)
(* taken: a class 3 request is not on a connection of such a grant.        *)
LEMMA GrantsAfterTake ==
    ASSUME Types, NEW c \in Clients, ClientInv(c), NEW m, TakenFrom(c, m),
           NEW id, id = 0 \/ (m.n # 0 /\ id = m.id), PoolKept(c, id)
    PROVE  Grants(c)'
<1>1. toClient[c] \in Seq(ReplyMessages) /\ lastId \in Nat
  BY DEF Types
<1>2. m \in Sent(c) /\ Sent(c)' \in SUBSET Sent(c)
  BY StreamsAfterTake
<1>3. client'[c] = client[c] /\ lastId' \in Nat /\ lastId <= lastId'
  BY DEF TakenFrom
<1>4. Grants(c) /\ Formed(c) /\ Tracking(c)
  BY DEF ClientInv
<1>5. ASSUME NEW r \in Due(c), IsGrant(r)
      PROVE  /\ r.result <= lastId' /\ r.result <= lastId /\ r.result # client[c].id
             /\ \A q \in Sent(c)' : q.n # 0 => q.id # r.result
             /\ \A s \in Slots : pool'[s].id = r.result => pool'[s].prod = c /\ pool'[s].seq = 0
  <2>1. /\ r.result \in Nat /\ r.result # 0 /\ r.result <= lastId /\ r.result # client[c].id
        /\ \A q \in Sent(c) : q.n # 0 => q.id # r.result
    BY <1>4, <1>5, StreamTypes DEF Grants, IsGrant
  <2>2. r.result # id
    BY <1>2, <2>1
  <2>3. ASSUME NEW s \in Slots, pool'[s].id = r.result
        PROVE  pool'[s].prod = c /\ pool'[s].seq = 0
    <3>1. \/ pool'[s] = pool[s]
          \/ pool[s].prod # c /\ pool'[s].id = pool[s].id /\ pool'[s].prod = pool[s].prod
      BY <2>1, <2>2, <2>3 DEF PoolKept
    <3> QED
      BY <1>4, <1>5, <2>3, <3>1 DEF Grants
  <2>4. r.result <= lastId'
    BY <1>1, <1>3, <2>1
  <2> QED
    BY <1>2, <2>1, <2>3, <2>4
<1>6. CASE toClient'[c] = toClient[c]
  <2>1. Due(c)' = Due(c)
    BY <1>6 DEF Due
  <2> QED
    BY <1>3, <1>4, <1>5, <1>6, <2>1 DEF Grants, IsGrant
<1>7. ASSUME NEW r, ReplyTo(c, m, r), toClient'[c] = Append(toClient[c], r)
      PROVE  Grants(c)'
  <2>1. r \in ReplyMessages
    BY <1>7 DEF ReplyTo
  <2>2. /\ Len(toClient[c]) \in Nat /\ Len(toClient'[c]) = Len(toClient[c]) + 1
        /\ \A i \in 1..Len(toClient[c]) : toClient'[c][i] = toClient[c][i]
        /\ toClient'[c][Len(toClient[c]) + 1] = r
        /\ \A i \in 1..Len(toClient[c]) + 1 : i = Len(toClient[c]) + 1 \/ i \in 1..Len(toClient[c])
        /\ Due(c)' = Due(c) \cup {r}
    BY <1>1, <1>7, <2>1, AppendedToStream DEF Due
  <2>3. ASSUME IsGrant(r)
        PROVE  /\ r.result = lastId + 1 /\ r.result <= lastId' /\ r.result # client[c].id
               /\ \A q \in Sent(c)' : q.n # 0 => q.id # r.result
               /\ \A s \in Slots : pool'[s].id = r.result => pool'[s].prod = c /\ pool'[s].seq = 0
    <3>1. /\ r.result = lastId + 1 /\ r.result = lastId'
          /\ \A s \in Slots : pool'[s].id = r.result => pool'[s].prod = c /\ pool'[s].seq = 0
      BY <1>7, <2>3 DEF ReplyTo
    <3>2. r.result # client[c].id
      BY <1>1, <1>4, <3>1, StreamTypes DEF Tracking
    <3>3. ASSUME NEW q \in Sent(c), q.n # 0 PROVE q.id # r.result
      <4>1. q.id \in Nat /\ q.id <= lastId
        BY <1>4, <3>3, StreamTypes DEF Formed, Class3Form
      <4> QED
        BY <1>1, <3>1, <4>1
    <3> QED
      BY <1>2, <1>3, <3>1, <3>2, <3>3
  <2>4. ASSUME NEW i \in 1..Len(toClient[c]) PROVE toClient[c][i] \in Due(c)
    BY DEF Due
  <2>5. \A d \in Due(c) : IsGrant(r) /\ IsGrant(d) => r.result # d.result
    BY <1>1, <1>5, <2>3, StreamTypes
  <2>6. ASSUME NEW i \in 1..Len(toClient'[c]), NEW j \in 1..Len(toClient'[c]),
               i # j, IsGrant(toClient'[c][i]), IsGrant(toClient'[c][j])
        PROVE  toClient'[c][i].result # toClient'[c][j].result
    <3>1. CASE i \in 1..Len(toClient[c]) /\ j \in 1..Len(toClient[c])
      <4>1. \A a, b \in 1..Len(toClient[c]) :
              a # b /\ IsGrant(toClient[c][a]) /\ IsGrant(toClient[c][b])
                 => toClient[c][a].result # toClient[c][b].result
        BY <1>4 DEF Grants
      <4> QED
        BY <2>2, <2>6, <3>1, <4>1
    <3>2. CASE i = Len(toClient[c]) + 1 /\ j \in 1..Len(toClient[c])
      BY <2>2, <2>4, <2>5, <2>6, <3>2
    <3>3. CASE j = Len(toClient[c]) + 1 /\ i \in 1..Len(toClient[c])
      BY <2>2, <2>4, <2>5, <2>6, <3>3
    <3> QED
      BY <2>2, <2>6, <3>1, <3>2, <3>3
  <2>7. ASSUME NEW d \in Due(c)', IsGrant(d)
        PROVE  /\ d.result <= lastId' /\ d.result # client[c].id
               /\ \A q \in Sent(c)' : q.n # 0 => q.id # d.result
               /\ \A s \in Slots : pool'[s].id = d.result => pool'[s].prod = c /\ pool'[s].seq = 0
    BY <1>5, <2>2, <2>3, <2>7
  <2> QED
    BY <1>3, <2>6, <2>7 DEF Grants, IsGrant
<1> QED
  BY <1>6, <1>7 DEF TakenFrom

(* The forms and the numbers of what is left in the stream, as long as no  *)
(* more than m is executed.                                                *)
LEMMA FormedAfterTake ==
    ASSUME Types, NEW c \in Clients, ClientInv(c), NEW m, TakenFrom(c, m)
    PROVE  Formed(c)'
<1>1. Sent(c)' \in SUBSET Sent(c)
  BY StreamsAfterTake
<1>2. client'[c] = client[c] /\ lastId' \in Nat /\ lastId <= lastId' /\ lastId \in Nat
  BY DEF TakenFrom, Types
<1> SUFFICES ASSUME NEW q \in Sent(c)
             PROVE  IF q.n = 0 THEN OtherForm(q) ELSE Class3Form(c, q)'
  BY <1>1 DEF Formed
<1>3. IF q.n = 0 THEN OtherForm(q) ELSE Class3Form(c, q)
  BY DEF ClientInv, Formed
<1>4. q.id <= lastId => q.id <= lastId'
  BY <1>2, StreamTypes
<1> QED
  BY <1>2, <1>3, <1>4 DEF Class3Form

(* The answers on their way to c are still true when more was executed.    *)
LEMMA AnsweredAfterTake ==
    ASSUME Types, NEW c \in Clients, ClientInv(c), NEW m, TakenFrom(c, m),
           LastDone(c)' \in Nat, LastDone(c) <= LastDone(c)'
    PROVE  Answered(c)'
<1>1. toClient[c] \in Seq(ReplyMessages)
  BY DEF Types
<1>2. \A d \in Due(c) : AnswerTrue(c, d)'
  <2> SUFFICES ASSUME NEW d \in Due(c) PROVE AnswerTrue(c, d)'
    OBVIOUS
  <2>1. AnswerTrue(c, d)
    BY DEF ClientInv, Answered
  <2>2. d.ctx \in Nat \X Nat /\ LastDone(c) \in Nat
    BY StreamTypes
  <2>3. d.ctx[1] <= LastDone(c) => d.ctx[1] <= LastDone(c)'
    BY <2>2
  <2> QED
    BY <2>1, <2>3 DEF AnswerTrue
<1>3. CASE toClient'[c] = toClient[c]
  <2>1. Due(c)' = Due(c)
    BY <1>3 DEF Due
  <2> QED
    BY <1>2, <2>1 DEF Answered
<1>4. ASSUME NEW r, ReplyTo(c, m, r), toClient'[c] = Append(toClient[c], r)
      PROVE  Answered(c)'
  <2>1. r \in ReplyMessages /\ AnswerTrue(c, r)'
    BY <1>4 DEF ReplyTo, AnswerTrue
  <2>2. Due(c)' = Due(c) \cup {r}
    BY <1>1, <1>4, <2>1, AppendedToStream DEF Due
  <2> QED
    BY <1>2, <2>1, <2>2 DEF Answered
<1> QED
  BY <1>3, <1>4 DEF TakenFrom

(* A step that takes and answers a message without executing a class 3     *)
(* request keeps what the invariant says of c.                             *)
LEMMA TakenKept ==
    ASSUME Types, NEW c \in Clients, ClientInv(c), NEW m, TakenFrom(c, m),
           PoolKept(c, 0), executed'[c] = executed[c]
    PROVE  ClientInv(c)'
<1>1. LastDone(c)' = LastDone(c)
  BY DEF LastDone
<1>2. /\ Sent(c)' \in SUBSET Sent(c)
      /\ \A i, j \in 1..Len(toDevice'[c]) :
            i < j /\ toDevice'[c][i].n # 0 /\ toDevice'[c][j].n # 0
               => toDevice'[c][i].n <= toDevice'[c][j].n
      /\ Contexts(c)'
  BY StreamsAfterTake
<1>3. client'[c] = client[c] /\ lastId' \in Nat /\ lastId <= lastId' /\ lastId \in Nat
  BY DEF TakenFrom, Types
<1>4. Grants(c)'
  BY GrantsAfterTake
<1>5. Formed(c)'
  BY FormedAfterTake
<1>6. Numbering(c)'
  BY <1>1, <1>2, <1>3 DEF ClientInv, Numbering
<1>7. Tracking(c)'
  <2>1. client[c].id <= lastId'
    BY <1>3, StreamTypes DEF ClientInv, Tracking
  <2>2. ASSUME NEW s \in Slots, NEW q \in Sent(c), q.n # 0, pool'[s].id = q.id
        PROVE  pool'[s].prod = c /\ Tracks(c, pool[s], q.n, q.seq) /\ pool'[s] = pool[s]
    <3>1. q.id # 0 /\ q.id <= lastId
      BY <2>2 DEF ClientInv, Formed, Class3Form
    <3>2. \/ pool'[s] = pool[s]
          \/ pool[s].prod # c /\ pool'[s].id = pool[s].id /\ pool'[s].prod = pool[s].prod
      BY <2>2, <3>1 DEF PoolKept
    <3> QED
      BY <2>2, <3>2 DEF ClientInv, Tracking
  <2>3. ASSUME NEW s \in Slots, client[c].state \in {"ready", "waiting"}, pool'[s].id = client[c].id
        PROVE  pool'[s] = pool[s]
    <3>1. client[c].id # 0 /\ client[c].id <= lastId
      BY <2>3 DEF ClientInv, Tracking
    <3>2. \/ pool'[s] = pool[s]
          \/ pool[s].prod # c /\ pool'[s].id = pool[s].id /\ pool'[s].prod = pool[s].prod
      BY <2>3, <3>1 DEF PoolKept
    <3> QED
      BY <2>3, <3>2 DEF ClientInv, Tracking
  <2> QED
    BY <1>1, <1>2, <1>3, <2>1, <2>2, <2>3 DEF ClientInv, Tracking, Tracks
<1>8. Answered(c)'
  BY <1>1, StreamTypes, AnsweredAfterTake
<1> QED
  BY <1>2, <1>4, <1>5, <1>6, <1>7, <1>8 DEF ClientInv

(* A step that executes the class 3 request m of c keeps what the          *)
(* invariant says of c, when the connection of m, if it is still there,    *)
(* has the sequence count and the reply of m afterwards.                   *)
LEMMA ExecutedKept ==
    ASSUME Types, NEW c \in Clients, ClientInv(c), NEW m, TakenFrom(c, m),
           m.n # 0, LastDone(c) < m.n, LastDone(c)' = m.n, PoolKept(c, m.id),
           \A s \in Slots : pool'[s].id = m.id =>
               /\ pool'[s].prod = c /\ pool'[s].seq = m.seq
               /\ pool'[s].last # NoReply => pool'[s].last.result = m.n
    PROVE  ClientInv(c)'
<1>1. /\ m \in Sent(c) /\ Sent(c)' \in SUBSET Sent(c)
      /\ \A q \in Sent(c)' : m.n # 0 /\ q.n # 0 => m.n <= q.n
      /\ \A i, j \in 1..Len(toDevice'[c]) :
            i < j /\ toDevice'[c][i].n # 0 /\ toDevice'[c][j].n # 0
               => toDevice'[c][i].n <= toDevice'[c][j].n
      /\ Contexts(c)'
  BY StreamsAfterTake
<1>2. client'[c] = client[c] /\ lastId' \in Nat /\ lastId <= lastId' /\ lastId \in Nat
  BY DEF TakenFrom, Types
<1>3. /\ \A q \in Sent(c) : q.id \in Nat /\ q.n \in Nat
      /\ client[c].id \in Nat /\ client[c].n \in Nat /\ LastDone(c) \in Nat
  BY StreamTypes
<1>4. Formed(c) /\ Numbering(c) /\ Tracking(c)
  BY DEF ClientInv
<1>5. m.n \in Nat /\ m.n <= client[c].n /\ m.id # 0
  BY <1>1, <1>3, <1>4 DEF Formed, Class3Form
<1>6. Grants(c)'
  BY GrantsAfterTake
<1>7. Formed(c)'
  BY FormedAfterTake
<1>8. Answered(c)'
  BY <1>3, <1>5, AnsweredAfterTake
<1>9. \A q \in Sent(c) : m.n < q.n => LastDone(c) < q.n
  BY <1>3, <1>5
<1>10. Numbering(c)'
  <2>1. \A q \in Sent(c)' : q.n # 0 => m.n <= q.n
    BY <1>1
  <2>2. \A q, u \in Sent(c)' : q.id = u.id /\ m.n < q.n /\ m.n < u.n => q.n = u.n
    BY <1>1, <1>4, <1>9 DEF Numbering
  <2>3. \A q, u \in Sent(c)' : q.n = u.n /\ q.n # 0 => q.id = u.id /\ q.seq = u.seq
    BY <1>1, <1>4 DEF Numbering
  <2>4. client[c].state = "waiting" =>
          /\ client[c].n # 0
          /\ \A q \in Sent(c)' :
                /\ q.n = client[c].n => q.id = client[c].id /\ q.seq = client[c].seq
                /\ q.id = client[c].id /\ m.n < q.n => q.n = client[c].n
    BY <1>1, <1>4, <1>9 DEF Numbering
  <2>5. client[c].state = "ready" => \A q \in Sent(c)' : q.id = client[c].id => ~(m.n < q.n)
    BY <1>1, <1>4, <1>9 DEF Numbering
  <2> QED
    BY <1>1, <1>2, <1>5, <2>1, <2>2, <2>3, <2>4, <2>5 DEF Numbering
<1>11. ASSUME NEW s \in Slots, pool'[s].id # 0, pool'[s].id <= lastId, pool'[s].id # m.id
       PROVE  \/ pool'[s] = pool[s]
              \/ pool[s].prod # c /\ pool'[s].id = pool[s].id /\ pool'[s].prod = pool[s].prod
  BY <1>11 DEF PoolKept
<1>12. ASSUME NEW s \in Slots, NEW q \in Sent(c)', q.n # 0, pool'[s].id = q.id
       PROVE  pool'[s].prod = c /\ Tracks(c, pool[s], q.n, q.seq)'
  <2>1. q \in Sent(c) /\ q.id # 0 /\ q.id <= lastId
    BY <1>1, <1>4, <1>12 DEF Formed, Class3Form
  <2>2. q.n \in Nat /\ m.n <= q.n
    BY <1>1, <1>3, <1>12
  <2>3. CASE q.id = m.id
    <3>1. q.n = m.n
      <4>1. LastDone(c) < q.n
        BY <1>3, <1>5, <2>2
      <4> QED
        BY <1>1, <1>4, <2>1, <2>3, <4>1 DEF Numbering
    <3>2. q.seq = m.seq
      BY <1>1, <1>4, <2>1, <3>1 DEF Numbering
    <3>3. ~(m.n < q.n)
      BY <1>5, <3>1
    <3> QED
      BY <1>12, <2>3, <3>1, <3>2, <3>3 DEF Tracks
  <2>4. CASE q.id # m.id
    <3>1. \/ pool'[s] = pool[s]
          \/ pool[s].prod # c /\ pool'[s].id = pool[s].id /\ pool'[s].prod = pool[s].prod
      BY <1>11, <1>12, <2>1, <2>4
    <3>2. pool'[s] = pool[s] /\ pool[s].prod = c /\ Tracks(c, pool[s], q.n, q.seq)
      BY <1>4, <1>12, <2>1, <3>1 DEF Tracking
    <3>3. q.n # m.n
      BY <1>1, <1>4, <1>12, <2>1, <2>4 DEF Numbering
    <3>4. m.n < q.n /\ LastDone(c) < q.n
      BY <1>3, <1>5, <2>2, <3>3
    <3> QED
      BY <3>2, <3>4 DEF Tracks
  <2> QED
    BY <2>3, <2>4
<1>13. ASSUME NEW s \in Slots, client[c].state \in {"ready", "waiting"}, pool'[s].id = client[c].id
       PROVE  /\ pool'[s].prod = c
              /\ client[c].state = "waiting" => Tracks(c, pool[s], client[c].n, client[c].seq)'
              /\ client[c].state = "ready" => pool'[s].seq # client[c].seq
  <2>1. client[c].id # 0 /\ client[c].id <= lastId
    BY <1>4, <1>13 DEF Tracking
  <2>2. CASE client[c].id = m.id
    <3>1. client[c].state = "waiting" /\ m.n = client[c].n /\ m.seq = client[c].seq
      BY <1>1, <1>4, <1>13, <2>2 DEF Numbering
    <3>2. ~(m.n < client[c].n)
      BY <1>5, <3>1
    <3> QED
      BY <1>2, <1>13, <2>2, <3>1, <3>2 DEF Tracks
  <2>3. CASE client[c].id # m.id
    <3>1. \/ pool'[s] = pool[s]
          \/ pool[s].prod # c /\ pool'[s].id = pool[s].id /\ pool'[s].prod = pool[s].prod
      BY <1>11, <1>13, <2>1, <2>3
    <3>2. /\ pool'[s] = pool[s] /\ pool[s].prod = c
          /\ client[c].state = "waiting" => Tracks(c, pool[s], client[c].n, client[c].seq)
          /\ client[c].state = "ready" => pool[s].seq # client[c].seq
      BY <1>4, <1>13, <3>1 DEF Tracking
    <3>3. client[c].state = "waiting" => m.n # client[c].n
      BY <1>1, <1>4, <2>3 DEF Numbering
    <3>4. client[c].state = "waiting" => m.n < client[c].n /\ LastDone(c) < client[c].n
      BY <1>3, <1>5, <3>3
    <3> QED
      BY <1>2, <3>2, <3>4 DEF Tracks
  <2> QED
    BY <2>2, <2>3
<1>14. client[c].id <= lastId'
  BY <1>2, <1>3, <1>4 DEF Tracking
<1>15. Tracking(c)'
  BY <1>2, <1>4, <1>12, <1>13, <1>14 DEF Tracking
<1> QED
  BY <1>1, <1>6, <1>7, <1>8, <1>10, <1>15 DEF ClientInv

-----------------------------------------------------------------------------
(* A reply to m without a connection and a result that can be read.        *)
PlainReply(m, r) ==
    /\ r \in ReplyMessages /\ r.ctx = m.ctx
    /\ r.id = 0 /\ r.result = 0
    /\ Fits(r)

(* The header fields of a message that length bytes follow.                *)
LEMMA HeaderType ==
    ASSUME NEW m \in Requests, NEW length \in Nat,
           NEW status \in {"Success", "InvalidCommand", "InvalidSessionHandle", "IncorrectData"}
    PROVE  /\ Header(m, status, length) \in ReplyMessages
           /\ Header(m, status, length).ctx = m.ctx
           /\ Header(m, status, length).id = 0 /\ Header(m, status, length).result = 0
           /\ Header(m, status, length).used = HeaderLength
           /\ Header(m, status, length).length = length
           /\ Header(m, status, length).items = <<>> /\ Header(m, status, length).count = 0
<1>1. <<>> \in Seq(ReplyItems) /\ 0 \in Counts /\ HeaderLength \in Nat
  BY EmptySeq, ExplicitAssumption DEF Counts, HeaderLength
<1>2. /\ m.command \in Commands /\ m.session \in Clients \cup {NoClient} /\ m.ctx \in Nat \X Nat
  BY DEF Requests, Commands
<1> QED
  BY <1>1, <1>2 DEF Header, ReplyMessages

(* A header alone, and the replies of the commands without a session.      *)
LEMMA PlainReplies ==
    ASSUME NEW m \in Requests
    PROVE  /\ \A status \in {"InvalidCommand", "InvalidSessionHandle", "IncorrectData"} :
                 PlainReply(m, Header(m, status, 0))
           /\ PlainReply(m, Anonymous(ListServicesReply(m)))
           /\ PlainReply(m, Anonymous(ListIdentityReply(m)))
           /\ PlainReply(m, Anonymous(ListInterfacesReply(m)))
           /\ \A status \in {"Success", "InvalidCommand"} :
                 PlainReply(m, RegisterSessionReply(m, status))
<1>1. HeaderLength = 24 /\ Len(<<>>) = 0 /\ <<>> \in Seq(ReplyItems) /\ DOMAIN <<>> = {}
  BY EmptySeq DEF HeaderLength
<1>2. ASSUME NEW status \in {"InvalidCommand", "InvalidSessionHandle", "IncorrectData"}
      PROVE  PlainReply(m, Header(m, status, 0))
  BY <1>1, HeaderType DEF PlainReply, Fits
<1>3. ASSUME NEW item \in ReplyItems, NEW length \in Nat, item.bytes = 4 + item.length,
             length = 2 + item.bytes
      PROVE  PlainReply(m, Anonymous(WithItem(Header(m, "Success", length), item)))
  <2> DEFINE h == Header(m, "Success", length)
             r == Anonymous(WithItem(h, item))
  <2>1. /\ h \in ReplyMessages /\ h.ctx = m.ctx /\ h.id = 0 /\ h.result = 0
        /\ h.used = HeaderLength /\ h.length = length
    BY HeaderType
  <2>2. <<item>> \in Seq(ReplyItems) /\ Len(<<item>>) = 1 /\ <<item>>[1] = item
    OBVIOUS
  <2>3. item.bytes \in Nat /\ HeaderLength + 2 + item.bytes \in Nat
    BY <1>1 DEF ReplyItems
  <2> HIDE DEF h
  <2>4. r \in ReplyMessages
    BY <1>1, <2>1, <2>2, <2>3 DEF ReplyMessages, WithItem, Anonymous
  <2>5. /\ r.ctx = m.ctx /\ r.id = 0 /\ r.result = 0
        /\ r.used = HeaderLength + 2 + item.bytes /\ r.length = length
        /\ r.items = <<item>> /\ r.count = 1
    BY <1>1, <2>1, <2>2 DEF ReplyMessages, WithItem, Anonymous
  <2>6. Fits(r)
    BY <1>1, <1>3, <2>2, <2>3, <2>5 DEF Fits
  <2> QED
    BY <2>4, <2>5, <2>6 DEF PlainReply, h
<1>4. PlainReply(m, Anonymous(ListServicesReply(m)))
  <2>1. Item("ListServices", 20, 24) \in ReplyItems
    BY DEF Item, ReplyItems
  <2> QED
    BY <1>3, <2>1 DEF ListServicesReply, Item
<1>5. PlainReply(m, Anonymous(ListIdentityReply(m)))
  <2>1. /\ EncodeListIdentityCipIdentityItem \in ReplyItems
        /\ EncodeListIdentityCipIdentityItem.length = ListIdentityGetCipIdentityItemLength
        /\ EncodeListIdentityCipIdentityItem.bytes = 4 + EncodeListIdentityCipIdentityItem.length
        /\ ListIdentityGetCipIdentityItemLength \in Nat
    BY PacketAssumption
    DEF EncodeListIdentityCipIdentityItem, ListIdentityGetCipIdentityItemLength, Item, ReplyItems
  <2> QED
    BY <1>3, <2>1 DEF ListIdentityReply
<1>6. ASSUME NEW length \in Nat, NEW status \in {"Success", "InvalidCommand"}
      PROVE  PlainReply(m, [Header(m, status, length) EXCEPT !.used = @ + length])
  <2> DEFINE h == Header(m, status, length)
  <2>1. /\ h \in ReplyMessages /\ h.ctx = m.ctx /\ h.id = 0 /\ h.result = 0
        /\ h.used = HeaderLength /\ h.length = length /\ h.items = <<>> /\ h.count = 0
    BY HeaderType
  <2> HIDE DEF h
  <2>2. [h EXCEPT !.used = @ + length] \in ReplyMessages
    BY <1>1, <2>1 DEF ReplyMessages
  <2> QED
    BY <1>1, <2>1, <2>2 DEF PlainReply, Fits, ReplyMessages, h
<1>7. PlainReply(m, Anonymous(ListInterfacesReply(m)))
  <2> DEFINE r == [Header(m, "Success", 2) EXCEPT !.used = @ + 2]
  <2>1. PlainReply(m, r)
    BY <1>6
  <2> HIDE DEF r
  <2>2. PlainReply(m, Anonymous(r))
    BY <2>1 DEF PlainReply, Anonymous, ReplyMessages, Fits
  <2> QED
    BY <2>2 DEF r, ListInterfacesReply
<1>8. ASSUME NEW status \in {"Success", "InvalidCommand"}
      PROVE  PlainReply(m, RegisterSessionReply(m, status))
  <2>1. PlainReply(m, [Header(m, status, 4) EXCEPT !.used = @ + 4])
    BY <1>6
  <2>2. [Header(m, status, 4) EXCEPT !.used = @ + 4] = RegisterSessionReply(m, status)
    BY HeaderType, <1>1 DEF RegisterSessionReply, ReplyMessages
  <2> QED
    BY <2>1, <2>2
<1> QED
  BY <1>2, <1>4, <1>5, <1>7, <1>8

(* k sockaddr items are written of the structure p: the first of each type.*)
HasSockaddrs(p, k) ==
    \/ k = 0 /\ p.info = <<"none", "none">>
    \/ k = 1 /\ p.info \in {<<"OtoT", "none">>, <<"TtoO", "none">>}
    \/ k = 1 /\ p.info \in {<<"OtoT", "OtoT">>, <<"TtoO", "TtoO">>}
    \/ k = 2 /\ p.info \in {<<"OtoT", "TtoO">>, <<"TtoO", "OtoT">>}

Distinct(p) == p.info[1] = p.info[2] => p.info[1] = "none"

(* All that p counts is written.                                           *)
Exact(p, k) == p.count = 2 + k /\ Distinct(p)

(* What is read from a request: never more items than it counts, and all   *)
(* of them when they are sockaddr items of different types.                *)
LEMMA SockaddrsRead ==
    ASSUME NEW m \in Requests, Len(m.items) >= 2, m.count >= 2,
           NEW p, p = CreateCommonPacketFormatStructure(m)
    PROVE  \E k \in 0..2 : /\ HasSockaddrs(p, k) /\ p.count >= 2 + k
                           /\ SockaddrItemsOnly(m) => Exact(p, k)
<1>1. /\ p.info = <<InfoItem(m, 1), InfoItem(m, 2)>> /\ p.count = m.count
      /\ p.info[1] = InfoItem(m, 1) /\ p.info[2] = InfoItem(m, 2)
      /\ SockaddrItems = {"OtoT", "TtoO"} /\ m.count \in Nat /\ Len(m.items) \in Nat
  <2>1. m.items \in Seq({"Null", "Connection", "Unconnected", "Connected", "none"} \cup SockaddrItems)
    BY DEF Requests
  <2> QED
    BY <2>1, LenProperties DEF CreateCommonPacketFormatStructure, SockaddrItems, Requests
<1>2. /\ InfoItem(m, 1) = IF 3 <= m.count /\ 3 <= Len(m.items) /\ m.items[3] \in SockaddrItems
                          THEN m.items[3] ELSE "none"
      /\ InfoItem(m, 2) = IF /\ 4 <= m.count /\ 4 <= Len(m.items)
                             /\ m.items[3] \in SockaddrItems /\ m.items[4] \in SockaddrItems
                          THEN m.items[4] ELSE "none"
  <2>1. 1..1 = {1} /\ 1..2 = {1, 2} /\ 1 + 2 = 3 /\ 2 + 2 = 4
    OBVIOUS
  <2>2. (4 <= m.count => 3 <= m.count) /\ (4 <= Len(m.items) => 3 <= Len(m.items))
    BY <1>1
  <2> QED
    BY <2>1, <2>2 DEF InfoItem
<1>3. SockaddrItemsOnly(m) =>
         /\ m.count = Len(m.items) /\ m.count <= 4
         /\ m.count >= 3 => m.items[3] \in SockaddrItems
         /\ m.count = 4 => m.items[4] \in SockaddrItems /\ m.items[3] # m.items[4]
  BY <1>1 DEF SockaddrItemsOnly
<1>4. CASE InfoItem(m, 1) = "none"
  <2>1. InfoItem(m, 2) = "none" /\ (SockaddrItemsOnly(m) => m.count = 2)
    BY <1>1, <1>2, <1>3, <1>4
  <2> QED
    BY <1>1, <1>4, <2>1 DEF HasSockaddrs, Exact, Distinct
<1>5. CASE InfoItem(m, 1) # "none" /\ InfoItem(m, 2) = "none"
  <2>1. /\ InfoItem(m, 1) \in {"OtoT", "TtoO"} /\ m.count >= 3
        /\ SockaddrItemsOnly(m) => m.count = 3
    BY <1>1, <1>2, <1>3, <1>5
  <2> QED
    BY <1>1, <1>5, <2>1 DEF HasSockaddrs, Exact, Distinct
<1>6. CASE InfoItem(m, 1) # "none" /\ InfoItem(m, 2) # "none"
  <2>1. /\ InfoItem(m, 1) \in {"OtoT", "TtoO"} /\ InfoItem(m, 2) \in {"OtoT", "TtoO"}
        /\ m.count >= 4
        /\ SockaddrItemsOnly(m) => m.count = 4 /\ InfoItem(m, 1) # InfoItem(m, 2)
    BY <1>1, <1>2, <1>3, <1>6
  <2>2. CASE InfoItem(m, 1) = InfoItem(m, 2)
    BY <1>1, <1>6, <2>1, <2>2 DEF HasSockaddrs, Exact, Distinct
  <2>3. CASE InfoItem(m, 1) # InfoItem(m, 2)
    BY <1>1, <1>6, <2>1, <2>3 DEF HasSockaddrs, Exact, Distinct
  <2> QED
    BY <2>2, <2>3
<1> QED
  BY <1>4, <1>5, <1>6

(* AssembleForwardOpenResponse counts the sockaddr items that are written, *)
(* unless they are two of one type, of which it counts both.               *)
LEMMA SockaddrsCounted ==
    ASSUME NEW p, NEW k, HasSockaddrs(p, k)
    PROVE  /\ \E n \in {k, 2} : /\ Cardinality({j \in 1..2 : p.info[j] # "none"}) = n
                                /\ Distinct(p) => n = k
           /\ EncodeSockaddrs(p) \in Seq(ReplyItems) /\ Len(EncodeSockaddrs(p)) = k
           /\ k \in {0, 1, 2} /\ k \in Nat
           /\ \A j \in 1..k : EncodeSockaddrs(p)[j].bytes = 4 + EncodeSockaddrs(p)[j].length
<1> DEFINE some == {j \in 1..2 : p.info[j] # "none"}
<1>1. \A type \in SockaddrItems : /\ Item(type, 16, SockaddrBytes) \in ReplyItems
                                  /\ Item(type, 16, SockaddrBytes).bytes = 20
                                  /\ Item(type, 16, SockaddrBytes).length = 16
  BY DEF Item, ReplyItems, SockaddrBytes
<1> DEFINE o == Item("OtoT", 16, SockaddrBytes)
           t == Item("TtoO", 16, SockaddrBytes)
<1>2. /\ o \in ReplyItems /\ o.bytes = 20 /\ o.length = 16
      /\ t \in ReplyItems /\ t.bytes = 20 /\ t.length = 16
  BY <1>1 DEF SockaddrItems
<1>3. CASE k = 0 /\ p.info = <<"none", "none">>
  <2>1. some = {}
    BY <1>3
  <2>2. EncodeSockaddrs(p) = <<>> \o <<>>
    BY <1>3 DEF EncodeSockaddrs, EncodeSockaddr
  <2>3. <<>> \o <<>> = <<>> /\ <<>> \in Seq(ReplyItems) /\ Len(<<>>) = 0
    BY EmptySeq, ConcatEmptySeq
  <2> QED
    <3>1. Cardinality(some) = 0
      BY <2>1, FS_EmptySet
    <3>2. \E n \in {k, 2} : Cardinality(some) = n /\ (Distinct(p) => n = k)
      BY <1>3, <3>1
    <3> HIDE DEF some
    <3>3. k = 0 /\ 1..0 = {} /\ k \in {0, 1, 2} /\ k \in Nat
      BY <1>3
    <3> QED
      BY <2>2, <2>3, <3>2, <3>3 DEF some
<1>6. Cardinality({1} \cup {2}) = 2
  <2>1. IsFiniteSet({1}) /\ Cardinality({1}) = 1
    BY FS_Singleton
  <2>2. Cardinality({1} \cup {2}) = IF 2 \in {1} THEN Cardinality({1}) ELSE Cardinality({1}) + 1
    BY <2>1, FS_AddElement
  <2>3. 2 \notin {1}
    OBVIOUS
  <2> QED
    BY <2>1, <2>2, <2>3
<1>4. CASE k = 1 /\ p.info \in {<<"OtoT", "none">>, <<"TtoO", "none">>,
                              <<"OtoT", "OtoT">>, <<"TtoO", "TtoO">>}
  <2>1. Cardinality(some) \in {1, 2} /\ (Distinct(p) => Cardinality(some) = 1)
    <3>1. CASE p.info \in {<<"OtoT", "none">>, <<"TtoO", "none">>}
      <4>1. some = {1}
        BY <3>1
      <4> QED
        BY <4>1, FS_Singleton
    <3>2. CASE p.info \in {<<"OtoT", "OtoT">>, <<"TtoO", "TtoO">>}
      <4>1. some = {1} \cup {2} /\ ~Distinct(p)
        BY <3>2 DEF Distinct
      <4> QED
        BY <1>6, <4>1
    <3> QED
      BY <1>4, <3>1, <3>2
  <2>2. EncodeSockaddrs(p) = <<o>> \o <<>> \/ EncodeSockaddrs(p) = <<>> \o <<t>>
    <3>1. CASE p.info \in {<<"OtoT", "none">>, <<"OtoT", "OtoT">>}
      <4>1. EncodeSockaddr(p, "OtoT") = <<o>> /\ EncodeSockaddr(p, "TtoO") = <<>>
        BY <3>1 DEF EncodeSockaddr
      <4> QED
        BY <4>1 DEF EncodeSockaddrs
    <3>2. CASE p.info \in {<<"TtoO", "none">>, <<"TtoO", "TtoO">>}
      <4>1. EncodeSockaddr(p, "OtoT") = <<>> /\ EncodeSockaddr(p, "TtoO") = <<t>>
        BY <3>2 DEF EncodeSockaddr
      <4> QED
        BY <4>1 DEF EncodeSockaddrs
    <3> QED
      BY <1>4, <3>1, <3>2
  <2> HIDE DEF o, t
  <2>3. /\ <<o>> \in Seq(ReplyItems) /\ <<t>> \in Seq(ReplyItems)
        /\ Len(<<o>>) = 1 /\ <<o>>[1] = o /\ Len(<<t>>) = 1 /\ <<t>>[1] = t
    BY <1>2
  <2>4. <<o>> \o <<>> = <<o>> /\ <<>> \o <<t>> = <<t>>
    BY <2>3, ConcatEmptySeq
  <2>5. /\ EncodeSockaddrs(p) \in Seq(ReplyItems) /\ Len(EncodeSockaddrs(p)) = 1
        /\ EncodeSockaddrs(p)[1] \in {o, t}
    BY <2>2, <2>3, <2>4
  <2> QED
    <3>2. \A j \in 1..1 : EncodeSockaddrs(p)[j].bytes = 4 + EncodeSockaddrs(p)[j].length
      BY <1>2, <2>5
    <3>3. \E n \in {k, 2} : Cardinality(some) = n /\ (Distinct(p) => n = k)
      BY <1>4, <2>1
    <3>4. k = 1 /\ k \in {0, 1, 2} /\ k \in Nat
      BY <1>4
    <3> HIDE DEF some
    <3> QED
      BY <2>5, <3>2, <3>3, <3>4 DEF some
<1>5. CASE k = 2 /\ p.info \in {<<"OtoT", "TtoO">>, <<"TtoO", "OtoT">>}
  <2>1. some = {1} \cup {2}
    BY <1>5
  <2>3. EncodeSockaddrs(p) = <<o>> \o <<t>>
    BY <1>5 DEF EncodeSockaddrs, EncodeSockaddr
  <2> HIDE DEF o, t
  <2>4. /\ <<o>> \in Seq(ReplyItems) /\ Len(<<o>>) = 1 /\ <<o>>[1] = o
        /\ <<t>> \in Seq(ReplyItems) /\ Len(<<t>>) = 1 /\ <<t>>[1] = t
    BY <1>2
  <2> DEFINE u == <<o>>
             v == <<t>>
  <2> HIDE DEF u, v
  <2>5. /\ u \o v \in Seq(ReplyItems) /\ Len(u \o v) = 2
        /\ (u \o v)[1] = o /\ (u \o v)[2] = t
    <3>1. u \in Seq(ReplyItems) /\ Len(u) = 1 /\ u[1] = o /\ v \in Seq(ReplyItems) /\ Len(v) = 1 /\ v[1] = t
      BY <2>4 DEF u, v
    <3>2. /\ u \o v \in Seq(ReplyItems) /\ Len(u \o v) = Len(u) + Len(v)
          /\ \A i \in 1 .. Len(u) + Len(v) :
                (u \o v)[i] = IF i <= Len(u) THEN u[i] ELSE v[i - Len(u)]
      BY <3>1, ConcatProperties
    <3> QED
      BY <3>1, <3>2
  <2>6. EncodeSockaddrs(p) = u \o v
    BY <2>3 DEF u, v
  <2>7. \A j \in 1..2 : EncodeSockaddrs(p)[j].bytes = 4 + EncodeSockaddrs(p)[j].length
    BY <1>2, <2>5, <2>6
  <2>8. \E n \in {k, 2} : Cardinality(some) = n /\ (Distinct(p) => n = k)
    BY <1>5, <1>6, <2>1
  <2>9. k = 2 /\ k \in {0, 1, 2} /\ k \in Nat
    BY <1>5
  <2> HIDE DEF some
  <2> QED
    BY <2>5, <2>6, <2>7, <2>8, <2>9 DEF some
<1> QED
  BY <1>3, <1>4, <1>5 DEF HasSockaddrs

(* A reply of the message router has the items that were given to it, with *)
(* the lengths that are written, and as many bytes as its header says.     *)
LEMMA Assembled ==
    ASSUME NEW m \in Requests, m.service # "none",
           NEW p, p.count \in Nat, p.addr \in {"Null", "Connection"},
           p.data \in {"Unconnected", "Connected"}, p.seq \in Counts,
           p.addr = "Connection" => p.id \in {0, NoClient} \cup Clients,
           NEW k, HasSockaddrs(p, k),
           NEW response, response.used \in Nat, response.extended \in Nat, response.result \in Nat,
           NEW r, r = AssembleLinearMessage(m, p, response)
    PROVE  /\ r \in ReplyMessages /\ r.ctx = m.ctx /\ r.command = m.command
           /\ r.result = response.result /\ r.service = m.service
           /\ r.id = IF p.addr = "Connection" THEN p.id ELSE 0
           /\ r.count = p.count /\ Len(r.items) = 2 + k
           /\ r.used = HeaderLength + r.length
           /\ \A j \in DOMAIN r.items : r.items[j].bytes = 4 + r.items[j].length
<1> DEFINE address == EncodeAddressItem(p)
           data == EncodeDataItem(p, response)
           sockaddrs == EncodeSockaddrs(p)
           items == <<address, data>> \o sockaddrs
           used == 4 + 2 + 2 + address.bytes + data.bytes + SockaddrBytes * Len(sockaddrs)
           id == IF p.addr = "Connection" THEN p.id ELSE 0
           seq == IF p.data = "Connected" THEN p.seq ELSE 0
           h == Header(m, "Success", used)
<1>1. r = [h EXCEPT !.used = @ + used, !.count = p.count, !.items = items, !.id = id,
                    !.seq = seq, !.service = m.service, !.result = response.result]
  BY DEF AssembleLinearMessage
<1>2. address \in ReplyItems /\ address.bytes \in Nat /\ address.bytes = 4 + address.length
  BY DEF EncodeAddressItem, Item, ReplyItems
<1>3. data \in ReplyItems /\ data.bytes \in Nat /\ data.bytes = 4 + data.length
  <2>1. CASE p.data = "Connected"
    BY <2>1 DEF EncodeDataItem, Item, ReplyItems, DataItemLength, RouterResponseBytes
  <2>2. CASE p.data = "Unconnected"
    BY <2>2 DEF EncodeDataItem, Item, ReplyItems, DataItemLength, RouterResponseBytes
  <2> QED
    BY <2>1, <2>2
<1>4. /\ sockaddrs \in Seq(ReplyItems) /\ Len(sockaddrs) = k /\ k \in Nat
      /\ \A j \in 1..k : sockaddrs[j].bytes = 4 + sockaddrs[j].length
  BY SockaddrsCounted
<1> HIDE DEF address, data, sockaddrs
<1>5. /\ items \in Seq(ReplyItems) /\ Len(items) = 2 + k
      /\ \A j \in DOMAIN items : items[j].bytes = 4 + items[j].length
  <2> DEFINE two == <<address, data>>
  <2>1. two \in Seq(ReplyItems) /\ Len(two) = 2 /\ two[1] = address /\ two[2] = data
    BY <1>2, <1>3
  <2> HIDE DEF two
  <2>2. /\ two \o sockaddrs \in Seq(ReplyItems)
        /\ Len(two \o sockaddrs) = Len(two) + Len(sockaddrs)
        /\ \A j \in 1 .. Len(two) + Len(sockaddrs) :
              (two \o sockaddrs)[j] = IF j <= Len(two) THEN two[j] ELSE sockaddrs[j - Len(two)]
    BY <1>4, <2>1, ConcatProperties
  <2>3. DOMAIN (two \o sockaddrs) = 1 .. 2 + k
    BY <1>4, <2>1, <2>2, LenProperties
  <2>4. ASSUME NEW j \in 1 .. 2 + k
        PROVE  (two \o sockaddrs)[j].bytes = 4 + (two \o sockaddrs)[j].length
    <3>1. CASE j = 1
      BY <1>2, <1>4, <2>1, <2>2, <3>1
    <3>2. CASE j = 2
      BY <1>3, <1>4, <2>1, <2>2, <3>2
    <3>3. CASE j \in 3 .. 2 + k
      <4>1. j - 2 \in 1..k /\ (two \o sockaddrs)[j] = sockaddrs[j - 2]
        BY <1>4, <2>1, <2>2, <3>3
      <4>2. PICK i \in 1..k : (two \o sockaddrs)[j] = sockaddrs[i]
        BY <4>1
      <4> QED
        BY <1>4, <4>2
    <3>4. j = 1 \/ j = 2 \/ j \in 3 .. 2 + k
      BY <1>4
    <3> QED
      BY <3>1, <3>2, <3>3, <3>4
  <2> QED
    BY <1>4, <2>1, <2>2, <2>3, <2>4 DEF two
<1>6. used \in Nat
  <2>1. SockaddrBytes * Len(sockaddrs) \in Nat
    BY <1>4 DEF SockaddrBytes
  <2> QED
    BY <1>2, <1>3, <2>1
<1>7. id \in {0, NoClient} \cup Clients
  OBVIOUS
<1>8. seq \in Counts
  BY ExplicitAssumption DEF Counts
<1>9. m.service \in {"Open", "Close", "Reset", "Read"}
  BY DEF Requests
<1> HIDE DEF items, used, id, seq
<1>10. /\ h \in ReplyMessages /\ h.ctx = m.ctx
       /\ h.used = HeaderLength /\ h.length = used /\ h.command = m.command
  BY <1>6, HeaderType DEF Header
<1>11. h.used + used \in Nat
  BY <1>6, <1>10 DEF HeaderLength
<1> HIDE DEF h
<1>12. r \in ReplyMessages
  <2>1. response.result \in Nat /\ p.count \in Nat /\ items \in Seq(ReplyItems)
    BY <1>5
  <2>2. h \in ReplyMessages
    BY <1>10
  <2> QED
    BY <1>1, <1>7, <1>8, <1>9, <1>11, <2>1, <2>2 DEF ReplyMessages
<1>13. /\ r.ctx = h.ctx /\ r.command = h.command /\ r.length = h.length
       /\ r.used = h.used + used /\ r.count = p.count /\ r.items = items /\ r.id = id
       /\ r.service = m.service /\ r.result = response.result
  BY <1>1, <1>10 DEF ReplyMessages
<1> QED
  BY <1>5, <1>10, <1>12, <1>13 DEF id

-----------------------------------------------------------------------------
(* What an entry of the pool can become: free, still in use for the same   *)
(* client, or the new connection of client c.                              *)
Emptied(e) == e.id = 0 /\ e.seq = 0 /\ e.prod = NoClient /\ e.sess = NoClient

StillUsed(s) ==
    /\ pool'[s].id = pool[s].id /\ pool[s].id # 0
    /\ pool'[s].prod = pool[s].prod /\ pool'[s].sess = pool[s].sess

NewEntry(c, e) == e.id = lastId + 1 /\ e.prod = c /\ e.sess = c /\ e.seq = 0

(* The pool stays in order when at most one entry is new.                  *)
LEMMA PoolInvAfter ==
    ASSUME Types, PoolInv, NEW c \in Clients, NEW u \in Slots,
           lastId' \in Nat, lastId <= lastId',
           \A s \in Slots : \/ pool'[s] = pool[s]
                            \/ Emptied(pool'[s])
                            \/ StillUsed(s)
                            \/ s = u /\ lastId' = lastId + 1 /\ NewEntry(c, pool'[s])
    PROVE  PoolInv'
<1>1. /\ lastId \in Nat
      /\ \A s \in Slots : /\ pool[s].id \in Nat /\ pool[s].id <= lastId
                          /\ pool[s].id = 0 => Emptied(pool[s])
                          /\ pool[s].id # 0 => pool[s].prod \in Clients /\ pool[s].sess = pool[s].prod
  BY DEF Types, PoolInv, Entries, Emptied
<1>2. \A s \in Slots : \/ pool'[s].id = 0
                       \/ pool'[s].id = pool[s].id
                       \/ s = u /\ lastId' = lastId + 1 /\ pool'[s].id = lastId + 1
  BY DEF Emptied, StillUsed, NewEntry
<1>3. ASSUME NEW s \in Slots
      PROVE  /\ pool'[s].id <= lastId'
             /\ pool'[s].id = 0 => Emptied(pool'[s])
             /\ pool'[s].id # 0 => pool'[s].prod \in Clients /\ pool'[s].sess = pool'[s].prod
  <2>1. pool'[s].id <= lastId'
    BY <1>1, <1>2
  <2>2. pool'[s].id = 0 => Emptied(pool'[s])
    BY <1>1 DEF StillUsed, NewEntry, Emptied
  <2>3. pool'[s].id # 0 => pool'[s].prod \in Clients /\ pool'[s].sess = pool'[s].prod
    BY <1>1 DEF StillUsed, NewEntry, Emptied
  <2> QED
    BY <2>1, <2>2, <2>3
<1>4. ASSUME NEW s \in Slots, NEW t \in Slots, pool'[s].id = pool'[t].id, pool'[s].id # 0
      PROVE  s = t
  <2>1. CASE pool'[s].id = pool[s].id /\ pool'[t].id = pool[t].id
    BY <1>4, <2>1 DEF PoolInv
  <2>2. CASE pool'[s].id = lastId + 1
    <3>1. \A v \in Slots : pool'[v].id = lastId + 1 => pool'[v].id # 0 /\ pool'[v].id # pool[v].id
      BY <1>1
    <3>2. \A v \in Slots : pool'[v].id = lastId + 1 => v = u
      BY <1>2, <3>1
    <3> QED
      BY <1>4, <2>2, <3>2
  <2>3. \/ pool'[s].id = pool[s].id /\ pool'[t].id = pool[t].id
        \/ pool'[s].id = lastId + 1
    BY <1>2, <1>4
  <2> QED
    BY <2>1, <2>2, <2>3
<1> QED
  BY <1>3, <1>4 DEF PoolInv, Emptied

(* What is known of the step before the client is looked at.               *)
StepTypes ==
    /\ registered' \in SUBSET Clients
    /\ pool' \in [Slots -> Entries]
    /\ lastId' \in Nat /\ lastId <= lastId'
    /\ executed' \in [Clients -> Seq(1..MaxRequests)]
    /\ PoolInv'
    /\ \A s \in Slots : pool'[s].last # NoReply => FitsAlways(pool'[s].last)

(* The streams of a step that takes message m of c and replies r.          *)
LEMMA StreamsOfStep ==
    ASSUME IInv, NEW c \in Clients, toDevice[c] # <<>>, Takes(c),
           NEW r, Replies(c, r), r # NoReply => r \in ReplyMessages /\ Fits(r)
    PROVE  /\ toDevice' \in [Clients -> Seq(Requests)]
           /\ toClient' \in [Clients -> Seq(ReplyMessages)]
           /\ client' = client /\ lost' = lost
           /\ toDevice'[c] = Tail(toDevice[c])
           /\ \/ toClient'[c] = toClient[c]
              \/ r # NoReply /\ toClient'[c] = Append(toClient[c], r)
           /\ \A d \in Clients \ {c} : toDevice'[d] = toDevice[d] /\ toClient'[d] = toClient[d]
           /\ \A d \in Clients : \A x \in Due(d)' : Fits(x)
<1>1. Types /\ AllFit
  BY DEF IInv
<1>2. toDevice \in [Clients -> Seq(Requests)] /\ toClient \in [Clients -> Seq(ReplyMessages)]
  BY <1>1 DEF Types
<1>3. toDevice' = [toDevice EXCEPT ![c] = Tail(@)] /\ client' = client /\ lost' = lost
  BY DEF Takes
<1>4. Tail(toDevice[c]) \in Seq(Requests)
  BY <1>2, TailOfStream
<1>5. r # NoReply => Append(toClient[c], r) \in Seq(ReplyMessages)
  BY <1>2, AppendedToStream
<1>6. \/ toClient' = toClient
      \/ r # NoReply /\ toClient' = [toClient EXCEPT ![c] = Append(@, r)]
  BY DEF Replies
<1>7. /\ toDevice' \in [Clients -> Seq(Requests)] /\ toDevice'[c] = Tail(toDevice[c])
      /\ \A d \in Clients \ {c} : toDevice'[d] = toDevice[d]
  BY <1>2, <1>3, <1>4
<1>8. /\ toClient' \in [Clients -> Seq(ReplyMessages)]
      /\ \/ toClient'[c] = toClient[c]
         \/ r # NoReply /\ toClient'[c] = Append(toClient[c], r)
      /\ \A d \in Clients \ {c} : toClient'[d] = toClient[d]
  BY <1>2, <1>5, <1>6
<1>9. ASSUME NEW d \in Clients, NEW x \in Due(d)' PROVE Fits(x)
  <2>1. CASE toClient'[d] = toClient[d]
    <3>1. Due(d)' = Due(d)
      BY <2>1 DEF Due
    <3> QED
      BY <1>1, <1>9, <3>1 DEF AllFit
  <2>2. CASE d = c /\ r # NoReply /\ toClient'[c] = Append(toClient[c], r)
    <3>1. Due(c)' = Due(c) \cup {r}
      <4>1. r \in ReplyMessages /\ toClient[c] \in Seq(ReplyMessages)
        BY <1>2, <2>2
      <4> QED
        BY <2>2, <4>1, AppendedToStream DEF Due
    <3> QED
      BY <1>1, <1>9, <2>2, <3>1 DEF AllFit
  <2> QED
    BY <1>8, <2>1, <2>2
<1> QED
  BY <1>3, <1>7, <1>8, <1>9

(* The invariant after a step of client c or on its behalf: the others are *)
(* not involved.                                                           *)
LEMMA StepOfClient ==
    ASSUME IInv, NEW c \in Clients, StepTypes,
           toDevice' \in [Clients -> Seq(Requests)],
           toClient' \in [Clients -> Seq(ReplyMessages)],
           client' \in [Clients -> ClientStates],
           lost' \in 0..MaxLost,
           \A d \in Clients : \A x \in Due(d)' : Fits(x),
           \A d \in Clients \ {c} :
              /\ toDevice'[d] = toDevice[d] /\ toClient'[d] = toClient[d]
              /\ client'[d] = client[d] /\ executed'[d] = executed[d]
              /\ PoolKept(d, 0),
           ClientInv(c)'
    PROVE  IInv'
<1>1. Types /\ \A d \in Clients : ClientInv(d)
  BY DEF IInv
<1>2. Types' /\ PoolInv'
  BY DEF StepTypes, Types
<1>3. AllFit'
  BY DEF StepTypes, AllFit
<1>4. ASSUME NEW d \in Clients \ {c} PROVE ClientInv(d)'
  <2>1. NotInvolved(d)
    BY DEF NotInvolved, StepTypes
  <2> QED
    BY <1>1, <2>1, OthersKept
<1> QED
  BY <1>2, <1>3, <1>4 DEF IInv

(* When only the entries change that become free or new, the pool is kept  *)
(* for everybody.                                                          *)
LEMMA PoolKeptForAll ==
    ASSUME Types, NEW d, lastId' \in Nat,
           \A s \in Slots : \/ pool'[s] = pool[s]
                            \/ Emptied(pool'[s])
                            \/ pool'[s].id = lastId + 1
    PROVE  PoolKept(d, 0)
<1>1. lastId \in Nat /\ ~(lastId + 1 <= lastId)
  BY DEF Types
<1> QED
  BY <1>1 DEF PoolKept, Emptied

(* A step that takes m from the stream of c and replies r, without a       *)
(* change of the pool or of what is executed.                              *)
LEMMA AnswersStep ==
    ASSUME IInv, NEW c \in Clients, NEW m, toDevice[c] # <<>>, m = Head(toDevice[c]),
           Takes(c), registered' \in SUBSET Clients, UNCHANGED <<pool, lastId, executed>>,
           NEW r, Replies(c, r),
           r # NoReply =>
              /\ r \in ReplyMessages /\ r.ctx = m.ctx /\ Fits(r)
              /\ r.command = "SendUnitData" /\ r.id = c /\ r.ctx[1] # 0
                    => r.result = r.ctx[1] /\ r.ctx[1] <= LastDone(c)
              /\ ~IsGrant(r)
    PROVE  IInv'
<1>1. Types /\ PoolInv /\ AllFit /\ ClientInv(c)
  BY DEF IInv
<1>2. /\ toDevice' \in [Clients -> Seq(Requests)]
      /\ toClient' \in [Clients -> Seq(ReplyMessages)]
      /\ client' = client /\ lost' = lost
      /\ toDevice'[c] = Tail(toDevice[c])
      /\ \/ toClient'[c] = toClient[c]
         \/ r # NoReply /\ toClient'[c] = Append(toClient[c], r)
      /\ \A d \in Clients \ {c} : toDevice'[d] = toDevice[d] /\ toClient'[d] = toClient[d]
      /\ \A d \in Clients : \A x \in Due(d)' : Fits(x)
  BY StreamsOfStep
<1>3. pool' = pool /\ lastId' = lastId /\ executed' = executed /\ lastId \in Nat
  BY <1>1 DEF Types
<1>4. \A d : PoolKept(d, 0)
  BY <1>3 DEF PoolKept
<1>5. LastDone(c)' = LastDone(c)
  BY <1>3 DEF LastDone
<1>6. r # NoReply => ReplyTo(c, m, r)
  BY <1>5 DEF ReplyTo
<1>7. TakenFrom(c, m)
  BY <1>2, <1>3, <1>6 DEF TakenFrom
<1>8. ClientInv(c)'
  BY <1>1, <1>3, <1>4, <1>7, TakenKept
<1>9. StepTypes
  BY <1>1, <1>3 DEF StepTypes, Types, PoolInv, AllFit
<1>10. client' \in [Clients -> ClientStates] /\ lost' \in 0..MaxLost
  BY <1>1, <1>2 DEF Types
<1> QED
  BY <1>2, <1>3, <1>4, <1>8, <1>9, <1>10, StepOfClient

(* A plain reply tells the client nothing about a connection.              *)
LEMMA PlainStep ==
    ASSUME IInv, NEW c \in Clients, NEW m, toDevice[c] # <<>>, m = Head(toDevice[c]),
           Takes(c), registered' \in SUBSET Clients, UNCHANGED <<pool, lastId, executed>>,
           NEW r, Replies(c, r), r = NoReply \/ PlainReply(m, r)
    PROVE  IInv'
<1>1. r # NoReply => /\ r \in ReplyMessages /\ r.ctx = m.ctx /\ Fits(r)
                     /\ r.id # c /\ ~IsGrant(r)
  BY ExplicitAssumption DEF PlainReply, IsGrant
<1> QED
  BY <1>1, AnswersStep

(* The message that is taken has the form of what c has sent.              *)
LEMMA TakenMessage ==
    ASSUME IInv, NEW c \in Clients, NEW m, toDevice[c] # <<>>, m = Head(toDevice[c])
    PROVE  m \in Requests /\ m \in Sent(c) /\ (IF m.n = 0 THEN OtherForm(m) ELSE Class3Form(c, m))
<1>1. toDevice[c] \in Seq(Requests) /\ Formed(c)
  BY DEF IInv, Types, ClientInv
<1>2. m \in Requests /\ m \in Sent(c)
  BY <1>1, TailOfStream DEF Sent
<1> QED
  BY <1>1, <1>2 DEF Formed

(* The requests that are answered without a look at a connection.          *)
LEMMA StatelessStep ==
    ASSUME IInv, NEW c \in Clients, NEW m, toDevice[c] # <<>>, m = Head(toDevice[c]),
           \/ HandleStateless(c, m)
           \/ HandleRegisterSession(c, m)
           \/ UnregisterRefused(c, m)
           \/ ConnectedRefused(c, m)
    PROVE  IInv'
<1>1. m \in Requests
  BY TakenMessage
<1>2. registered \in SUBSET Clients
  BY DEF IInv, Types
<1>3. ASSUME NEW r, Takes(c), Answers(c, r), r = NoReply \/ PlainReply(m, r) PROVE IInv'
  <2>1. registered' \in SUBSET Clients /\ UNCHANGED <<pool, lastId, executed>> /\ Replies(c, r)
    BY <1>2, <1>3 DEF Answers
  <2> QED
    BY <1>3, <2>1, PlainStep
<1>4. CASE HandleStateless(c, m)
  BY <1>1, <1>3, <1>4, PlainReplies DEF HandleStateless
<1>5. CASE HandleRegisterSession(c, m)
  <2>1. registered' \in SUBSET Clients
    BY <1>2, <1>5 DEF HandleRegisterSession
  <2>2. \E status \in {"Success", "InvalidCommand"} : Replies(c, RegisterSessionReply(m, status))
    BY <1>5 DEF HandleRegisterSession
  <2>3. PICK status \in {"Success", "InvalidCommand"} : Replies(c, RegisterSessionReply(m, status))
    BY <2>2
  <2>4. PlainReply(m, RegisterSessionReply(m, status))
    BY <1>1, PlainReplies
  <2>5. Takes(c) /\ UNCHANGED <<pool, lastId, executed>>
    BY <1>5 DEF HandleRegisterSession
  <2> QED
    BY <2>1, <2>3, <2>4, <2>5, PlainStep
<1>6. CASE UnregisterRefused(c, m)
  BY <1>1, <1>3, <1>6, PlainReplies DEF UnregisterRefused
<1>7. CASE ConnectedRefused(c, m)
  <2>1. Takes(c) /\ registered' = registered /\ Replies(c, NoReply) /\ UNCHANGED <<pool, lastId, executed>>
    BY <1>7 DEF ConnectedRefused, TakesItems
  <2> QED
    BY <1>2, <2>1, PlainStep
<1> QED
  BY <1>4, <1>5, <1>6, <1>7

(* What is known of a request that finds its connection: it is a class 3   *)
(* request of c, the connection is one of c, and its sequence count says   *)
(* whether the request was executed.                                       *)
LEMMA FoundConnection ==
    ASSUME IInv, NEW c \in Clients, NEW m, toDevice[c] # <<>>, m = Head(toDevice[c]),
           NEW s \in Slots, TakesConnected(c, m, s)
    PROVE  /\ Takes(c) /\ registered' = registered
           /\ m \in Requests /\ m.n # 0 /\ Class3Form(c, m)
           /\ pool[s] \in Entries /\ pool[s].id = m.id /\ m.id # 0 /\ pool[s].prod = c
           /\ LastDone(c) \in Nat /\ m.n \in Nat
           /\ IF pool[s].seq = m.seq
              THEN m.n <= LastDone(c) /\ (pool[s].last # NoReply => pool[s].last.result = m.n)
              ELSE LastDone(c) < m.n
<1>1. /\ m \in Requests /\ m \in Sent(c)
      /\ IF m.n = 0 THEN OtherForm(m) ELSE Class3Form(c, m)
  BY TakenMessage
<1>2. /\ Takes(c) /\ registered' = registered /\ m.command = "SendUnitData"
      /\ m.items[1] = "Connection" /\ pool[s].id = m.id /\ m.id # 0
  BY DEF TakesConnected, TakesItems, GetConnectedObject
<1>3. m.n # 0 /\ Class3Form(c, m)
  BY <1>1, <1>2 DEF OtherForm
<1>4. Types /\ ClientInv(c)
  BY DEF IInv
<1>5. LastDone(c) \in Nat /\ m.n \in Nat /\ pool[s] \in Entries
  BY <1>1, <1>4, StreamTypes DEF Types
<1>6. pool[s].prod = c /\ Tracks(c, pool[s], m.n, m.seq)
  BY <1>1, <1>2, <1>3, <1>4 DEF ClientInv, Tracking
<1>7. IF pool[s].seq = m.seq
      THEN ~(LastDone(c) < m.n) /\ (pool[s].last # NoReply => pool[s].last.result = m.n)
      ELSE LastDone(c) < m.n
  BY <1>6 DEF Tracks
<1>8. ~(LastDone(c) < m.n) => m.n <= LastDone(c)
  BY <1>5
<1> QED
  BY <1>1, <1>2, <1>3, <1>5, <1>6, <1>7, <1>8

(* A repeated request: the stored reply is that of the same request.       *)
LEMMA RepeatedStep ==
    ASSUME IInv, NEW c \in Clients, NEW m, toDevice[c] # <<>>, m = Head(toDevice[c]),
           RepeatedRequest(c, m)
    PROVE  IInv'
<1>1. PICK s \in Slots : /\ TakesConnected(c, m, s)
                         /\ pool[s].seq = m.seq
                         /\ Replies(c, Repeated(m, pool[s].last))
                         /\ UNCHANGED <<pool, lastId, executed>>
  BY DEF RepeatedRequest
<1>2. /\ Takes(c) /\ registered' = registered
      /\ m \in Requests /\ m.n # 0 /\ Class3Form(c, m) /\ pool[s] \in Entries
      /\ m.n <= LastDone(c) /\ (pool[s].last # NoReply => pool[s].last.result = m.n)
  BY <1>1, FoundConnection
<1>3. registered' \in SUBSET Clients /\ (pool[s].last # NoReply => FitsAlways(pool[s].last))
  BY <1>2 DEF IInv, Types, AllFit
<1> DEFINE last == pool[s].last
           r == WithNewHeader(m, last)
<1>4. CASE last = NoReply
  <2>1. Replies(c, NoReply)
    BY <1>1, <1>4 DEF Repeated
  <2> QED
    BY <1>1, <1>2, <1>3, <2>1, PlainStep
<1>5. CASE last # NoReply
  <2>1. last \in ReplyMessages /\ FitsAlways(last) /\ last.result = m.n
    BY <1>2, <1>3, <1>5 DEF Entries
  <2>2. /\ m.command \in Commands /\ m.session \in Clients \cup {NoClient} /\ m.ctx \in Nat \X Nat
        /\ m.ctx[1] = m.n
    BY <1>2 DEF Requests, Commands, Class3Form
  <2> HIDE DEF last
  <2>3. last.used \in Nat /\ last.length \in Nat /\ last.used - HeaderLength = last.length
    BY <2>1 DEF ReplyMessages, FitsAlways, HeaderLength
  <2>4. (last.used - HeaderLength) + HeaderLength = HeaderLength + last.length
    BY <2>3 DEF HeaderLength
  <2>5. HeaderLength + last.length \in Nat
    BY <2>3 DEF HeaderLength
  <2>6. r = [last EXCEPT !.command = m.command, !.session = m.session, !.ctx = m.ctx,
                         !.length = last.length, !.used = HeaderLength + last.length]
    BY <2>3, <2>4 DEF WithNewHeader
  <2> HIDE DEF r
  <2>7. r \in ReplyMessages
    BY <2>1, <2>2, <2>3, <2>5, <2>6 DEF ReplyMessages
  <2>8. /\ r.ctx = m.ctx /\ r.result = last.result /\ r.used = HeaderLength + r.length
        /\ r.items = last.items /\ r.count = last.count /\ r.service = last.service
    BY <2>1, <2>6 DEF ReplyMessages
  <2>9. Fits(r)
    BY <2>1, <2>8 DEF Fits, FitsAlways
  <2>10. ~IsGrant(r) /\ r.ctx[1] = m.n
    BY <1>2, <2>2, <2>8 DEF IsGrant
  <2>11. Replies(c, r)
    BY <1>1, <1>5 DEF Repeated, r, last
  <2> QED
    BY <1>1, <1>2, <1>3, <2>1, <2>7, <2>8, <2>9, <2>10, <2>11, AnswersStep
<1> QED
  BY <1>4, <1>5

-----------------------------------------------------------------------------
(* The structures of the common packet format that reach the router.       *)
Structures ==
    [count : Nat, addr : {"Null", "Connection"}, id : Nat \cup {NoClient} \cup Clients,
     data : {"Unconnected", "Connected"}, seq : Counts,
     info : ({"none"} \cup SockaddrItems) \X ({"none"} \cup SockaddrItems)]

(* The items of the reply are those it counts, except those of a refused   *)
(* Forward Open, and except when it counts more than was written.          *)
LEMMA ItemsOfReply ==
    ASSUME NEW p \in Structures, NEW k, HasSockaddrs(p, k), p.count >= 2 + k,
           NEW service \in {"Open", "Close", "Reset", "Read"},
           NEW q, q = ItemsAfter(service, p)
    PROVE  /\ q \in Structures
           /\ \E j \in Nat : /\ HasSockaddrs(q, j)
                             /\ IF service = "Open" /\ FreeSlots = {} THEN q.count = 2
                                ELSE q.count >= 2 + j /\ (Exact(p, k) => q.count = 2 + j)
           /\ q.addr = "Connection" => service \in {"Reset", "Read"}
<1>1. k \in {0, 1, 2} /\ k \in Nat
  BY SockaddrsCounted
<1> DEFINE infos == Cardinality({j \in 1..2 : p.info[j] # "none"})
<1>9. PICK n : n \in {k, 2} /\ infos = n /\ (Distinct(p) => n = k)
  BY SockaddrsCounted
<1>2. n \in Nat /\ 2 + n \in Nat /\ 2 \in Nat /\ 2 + n >= 2 + k
  BY <1>1, <1>9
<1>3. <<"none", "none">> \in ({"none"} \cup SockaddrItems) \X ({"none"} \cup SockaddrItems)
  OBVIOUS
<1> DEFINE unconnected == [p EXCEPT !.addr = "Null", !.data = "Unconnected", !.count = 2]
<1>4. /\ unconnected \in Structures /\ unconnected.count = 2 /\ unconnected.addr = "Null"
      /\ unconnected.info = p.info
  BY <1>2 DEF Structures
<1> HIDE DEF unconnected
<1>5. CASE service = "Open" /\ FreeSlots # {}
  <2>1. q = [unconnected EXCEPT !.count = 2 + infos]
    BY <1>5 DEF ItemsAfter, unconnected
  <2> HIDE DEF infos
  <2>2. q \in Structures /\ q.count = 2 + n /\ q.info = p.info /\ q.addr = "Null"
    BY <1>2, <1>4, <1>9, <2>1 DEF Structures
  <2>3. HasSockaddrs(q, k)
    BY <2>2 DEF HasSockaddrs
  <2>4. q.count >= 2 + k /\ (Exact(p, k) => q.count = 2 + k)
    BY <1>1, <1>2, <1>9, <2>2 DEF Exact
  <2> QED
    BY <1>1, <1>5, <2>2, <2>3, <2>4
<1>6. CASE service = "Open" /\ FreeSlots = {}
  <2>1. q = unconnected
    BY <1>6 DEF ItemsAfter, unconnected
  <2>2. HasSockaddrs(q, k) /\ q.count = 2 /\ q \in Structures /\ q.addr = "Null"
    BY <1>4, <2>1 DEF HasSockaddrs
  <2> QED
    BY <1>1, <1>6, <2>2
<1>7. CASE service = "Close"
  <2>1. q = [unconnected EXCEPT !.info = <<"none", "none">>]
    BY <1>7 DEF ItemsAfter, unconnected
  <2>2. q \in Structures /\ q.count = 2 /\ q.info = <<"none", "none">> /\ q.addr = "Null"
    BY <1>3, <1>4, <2>1 DEF Structures
  <2>3. HasSockaddrs(q, 0) /\ q.count >= 2 + 0 /\ q.count = 2 + 0 /\ 0 \in Nat
    BY <2>2 DEF HasSockaddrs
  <2> QED
    BY <1>7, <2>2, <2>3
<1>8. CASE service \in {"Reset", "Read"}
  <2>1. q = p
    BY <1>8 DEF ItemsAfter
  <2>2. Exact(p, k) => p.count = 2 + k
    BY DEF Exact
  <2> QED
    BY <1>1, <1>8, <2>1, <2>2
<1> QED
  BY <1>5, <1>6, <1>7, <1>8

(* The structure q has the items of p, with the id of an object.           *)
SameItems(q, p) ==
    /\ q.count = p.count /\ q.addr = p.addr /\ q.data = p.data /\ q.seq = p.seq
    /\ q.info = p.info
    /\ q.addr = "Connection" => q.id \in Clients \cup {NoClient}

(* What a client can tell from the reply r of the router to m.             *)
IsRouted(m, q, r) ==
    /\ r \in ReplyMessages /\ r.ctx = m.ctx /\ r.command = m.command /\ Fits(r)
    /\ SockaddrItemsOnly(m) => FitsAlways(r)
    /\ r.result = IF m.service # "Open" THEN m.n ELSE IF FreeSlots # {} THEN lastId + 1 ELSE 0
    /\ r.id # 0 => m.service \in {"Reset", "Read"} /\ r.id = q.id

(* The reply of the router to m, written with the structure q that it has  *)
(* made of p or with another connection id in it.                          *)
LEMMA RoutedReply ==
    ASSUME Types, NEW m \in Requests, m.service # "none",
           NEW p \in Structures, NEW k, HasSockaddrs(p, k), p.count >= 2 + k,
           SockaddrItemsOnly(m) => Exact(p, k), SockaddrItemsOnly(m) \/ OddContext(m.ctx),
           NEW q, SameItems(q, ItemsAfter(m.service, p)),
           NEW r, r = AssembleLinearMessage(m, q, Response(m.service, m.id, m.n))
    PROVE  IsRouted(m, q, r)
<1>1. m.service \in {"Open", "Close", "Reset", "Read"} /\ m.n \in Nat /\ lastId \in Nat
  BY DEF Requests, Types
<1> DEFINE q0 == ItemsAfter(m.service, p)
           response == Response(m.service, m.id, m.n)
<1>2. /\ q0 \in Structures
      /\ q0.addr = "Connection" => m.service \in {"Reset", "Read"}
  BY <1>1, ItemsOfReply
<1>3. PICK j \in Nat : /\ HasSockaddrs(q0, j)
                       /\ IF m.service = "Open" /\ FreeSlots = {} THEN q0.count = 2
                          ELSE q0.count >= 2 + j /\ (Exact(p, k) => q0.count = 2 + j)
  BY <1>1, ItemsOfReply
<1>5. /\ response.used \in Nat /\ response.extended \in Nat /\ response.result \in Nat
      /\ response.result = IF m.service # "Open" THEN m.n
                           ELSE IF FreeSlots # {} THEN lastId + 1 ELSE 0
  BY <1>1, PacketAssumption DEF Response
<1> HIDE DEF q0, response
<1>6. /\ q.count = q0.count /\ q.addr = q0.addr /\ q.data = q0.data /\ q.seq = q0.seq
      /\ q.info = q0.info
      /\ q.addr = "Connection" => q.id \in Clients \cup {NoClient}
  BY DEF SameItems, q0
<1>7. /\ q.count \in Nat /\ q.addr \in {"Null", "Connection"}
      /\ q.data \in {"Unconnected", "Connected"} /\ q.seq \in Counts
      /\ HasSockaddrs(q, j)
      /\ q.addr = "Connection" => q.id \in {0, NoClient} \cup Clients
  BY <1>2, <1>3, <1>6 DEF Structures, HasSockaddrs
<1>8. r = AssembleLinearMessage(m, q, response)
  BY DEF response
<1>9. /\ r \in ReplyMessages /\ r.ctx = m.ctx /\ r.command = m.command
      /\ r.result = response.result /\ r.service = m.service
      /\ r.id = IF q.addr = "Connection" THEN q.id ELSE 0
      /\ r.count = q.count /\ Len(r.items) = 2 + j
      /\ r.used = HeaderLength + r.length
      /\ \A i \in DOMAIN r.items : r.items[i].bytes = 4 + r.items[i].length
  BY <1>5, <1>7, <1>8, Assembled
<1>10. \/ r.count = Len(r.items)
       \/ r.service = "Open" /\ r.result = 0 /\ r.count < Len(r.items)
       \/ ~SockaddrItemsOnly(m) /\ OddContext(r.ctx) /\ r.count > Len(r.items)
  <2>1. r.count = q0.count /\ q0.count \in Nat
    BY <1>6, <1>7, <1>9
  <2>2. CASE m.service = "Open" /\ FreeSlots = {}
    BY <1>3, <1>5, <1>9, <2>1, <2>2
  <2>3. CASE ~(m.service = "Open" /\ FreeSlots = {})
    BY <1>3, <1>9, <2>1, <2>3
  <2> QED
    BY <2>2, <2>3
<1>11. Fits(r) /\ (SockaddrItemsOnly(m) => FitsAlways(r))
  BY <1>9, <1>10 DEF Fits, FitsAlways
<1>12. r.id # 0 => m.service \in {"Reset", "Read"} /\ r.id = q.id
  BY <1>2, <1>6, <1>9
<1> QED
  BY <1>5, <1>9, <1>11, <1>12 DEF IsRouted

-----------------------------------------------------------------------------
(* The entries that operations put into the pool.                          *)
LEMMA EntryTypes ==
    ASSUME Types
    PROVE  /\ EmptyEntry \in Entries /\ Emptied(EmptyEntry) /\ EmptyEntry.last = NoReply
           /\ \A c \in Clients : /\ Established(c) \in Entries /\ NewEntry(c, Established(c))
                                 /\ Established(c).last = NoReply
<1>1. 0 \in Counts /\ lastId + 1 \in Nat
  BY ExplicitAssumption DEF Counts, Types
<1>2. EmptyEntry \in Entries /\ Emptied(EmptyEntry) /\ EmptyEntry.last = NoReply
  BY <1>1 DEF EmptyEntry, Entries, Emptied
<1>3. ASSUME NEW c \in Clients
      PROVE  /\ Established(c) \in Entries /\ NewEntry(c, Established(c))
             /\ Established(c).last = NoReply
  BY <1>1 DEF Established, EmptyEntry, Entries, NewEntry
<1> QED
  BY <1>2, <1>3

(* What a service does to the pool: it frees entries, or it fills one that *)
(* was free.                                                               *)
LEMMA PoolAfterService ==
    ASSUME Types, PoolInv, NEW c \in Clients,
           NEW service \in {"Open", "Close", "Reset", "Read"}, NEW id,
           NEW after, after = PoolAfter(service, c, id)
    PROVE  /\ after \in [Slots -> Entries]
           /\ \A s \in Slots : after[s].last \in {pool[s].last, NoReply}
           /\ IF service = "Open" /\ FreeSlots # {}
              THEN \E u \in Slots : /\ NewEntry(c, after[u])
                                    /\ \A s \in Slots \ {u} : after[s] = pool[s]
              ELSE \A s \in Slots : after[s] = pool[s] \/ after[s] = EmptyEntry
           /\ service = "Close" =>
                 \A s \in Slots : after[s] = IF pool[s].id = id /\ id # 0 THEN EmptyEntry ELSE pool[s]
           /\ service = "Reset" => \A s \in Slots : after[s] = EmptyEntry
           /\ service = "Read" => after = pool
<1>1. pool \in [Slots -> Entries]
  BY DEF Types
<1>2. EmptyEntry \in Entries /\ EmptyEntry.last = NoReply
  BY EntryTypes
<1>3. CASE service = "Open" /\ FreeSlots # {}
  <2>1. PICK u \in FreeSlots : u = Min(FreeSlots)
    <3>1. FreeSlots \in SUBSET Nat
      BY DEF FreeSlots, Slots
    <3> QED
      BY <1>3, <3>1, MinInSet
  <2>2. u \in Slots
    BY DEF FreeSlots
  <2>3. after = [pool EXCEPT ![u] = Established(c)]
    BY <1>3, <2>1 DEF PoolAfter
  <2>4. Established(c) \in Entries /\ NewEntry(c, Established(c)) /\ Established(c).last = NoReply
    BY EntryTypes
  <2>5. after[u] = Established(c) /\ \A s \in Slots \ {u} : after[s] = pool[s]
    BY <1>1, <2>2, <2>3
  <2>6. after \in [Slots -> Entries]
    BY <1>1, <2>2, <2>3, <2>4
  <2> QED
    BY <1>3, <2>2, <2>4, <2>5, <2>6
<1>4. CASE service = "Open" /\ FreeSlots = {}
  BY <1>1, <1>4 DEF PoolAfter
<1>5. CASE service = "Close"
  <2>1. after = [s \in Slots |-> IF s \in GetConnectedObject(id) THEN EmptyEntry ELSE pool[s]]
    BY <1>5 DEF PoolAfter
  <2>2. \A s \in Slots : s \in GetConnectedObject(id) <=> pool[s].id = id /\ id # 0
    BY DEF GetConnectedObject
  <2> QED
    BY <1>1, <1>2, <1>5, <2>1, <2>2
<1>6. CASE service = "Reset"
  BY <1>1, <1>2, <1>6 DEF PoolAfter
<1>7. CASE service = "Read"
  BY <1>1, <1>7 DEF PoolAfter
<1> QED
  BY <1>3, <1>4, <1>5, <1>6, <1>7

(* A request that the router gets by an unconnected message.               *)
LEMMA UnconnectedStep ==
    ASSUME IInv, NEW c \in Clients, NEW m, toDevice[c] # <<>>, m = Head(toDevice[c]),
           NotifyCommonPacketFormat(c, m)
    PROVE  IInv'
<1> DEFINE p == CreateCommonPacketFormatStructure(m)
           q == ItemsAfter(m.service, p)
<1>1. m \in Requests /\ (IF m.n = 0 THEN OtherForm(m) ELSE Class3Form(c, m))
  BY TakenMessage
<1>2. Takes(c) /\ registered' \in SUBSET Clients /\ m.command = "SendRRData"
  BY DEF NotifyCommonPacketFormat, TakesItems, IInv, Types
<1>3. m.n = 0 /\ OtherForm(m)
  BY <1>1, <1>2 DEF Class3Form
<1>4. Types /\ PoolInv /\ AllFit /\ ClientInv(c) /\ lastId \in Nat
  BY DEF IInv, Types
<1>5. CASE WrongLength(m) \/ <<p.addr, p.data>> # <<"Null", "Unconnected">>
  <2>1. /\ Replies(c, IF WrongLength(m) THEN NoReply ELSE Header(m, "IncorrectData", 0))
        /\ UNCHANGED <<pool, lastId, executed>>
    BY <1>5 DEF NotifyCommonPacketFormat
  <2>2. PlainReply(m, Header(m, "IncorrectData", 0))
    BY <1>1, PlainReplies
  <2> QED
    BY <1>2, <2>1, <2>2, PlainStep
<1>6. CASE ~(WrongLength(m) \/ <<p.addr, p.data>> # <<"Null", "Unconnected">>)
  <2> DEFINE r == AssembleLinearMessage(m, q, Response(m.service, m.id, m.n))
  <2>1. /\ pool' = PoolAfter(m.service, c, m.id)
        /\ NotifyMessageRouter(m)
        /\ Replies(c, r)
    BY <1>6 DEF NotifyCommonPacketFormat
  <2>2. /\ m.service \in {"Open", "Close", "Reset", "Read"} /\ m.service # "none"
        /\ m.id \in Nat /\ m.count \in Nat
    BY <1>1, <1>2, <1>3 DEF OtherForm, Requests
  <2>3. p.addr = "Null" /\ p.data = "Unconnected"
    BY <1>6
  <2>4. /\ Len(m.items) >= 2 /\ m.count >= 2
        /\ SockaddrItemsOnly(m) \/ OddContext(m.ctx)
    BY <1>2, <1>3 DEF OtherForm
  <2>5. PICK k : /\ k \in 0..2
                 /\ HasSockaddrs(p, k) /\ p.count >= 2 + k
                 /\ SockaddrItemsOnly(m) => Exact(p, k)
    <3> HIDE DEF p
    <3> QED
      BY <1>1, <2>4, SockaddrsRead DEF p
  <2>6. p \in Structures
    <3>1. p.info \in ({"none"} \cup SockaddrItems) \X ({"none"} \cup SockaddrItems)
      <4> HIDE DEF p
      <4>1. p.info \in {<<"none", "none">>, <<"OtoT", "none">>, <<"TtoO", "none">>,
                        <<"OtoT", "TtoO">>, <<"TtoO", "OtoT">>,
                        <<"OtoT", "OtoT">>, <<"TtoO", "TtoO">>}
        BY <2>5 DEF HasSockaddrs
      <4>2. {"none"} \cup SockaddrItems = {"none", "OtoT", "TtoO"}
        BY DEF SockaddrItems
      <4> QED
        BY <4>1, <4>2
    <3>2. m.seq \in Counts
      BY <1>1 DEF Requests
    <3> QED
      BY <2>2, <2>3, <3>1, <3>2 DEF Structures, CreateCommonPacketFormatStructure
  <2>7. /\ r \in ReplyMessages /\ r.ctx = m.ctx /\ r.command = m.command /\ Fits(r)
        /\ r.result = IF m.service # "Open" THEN m.n ELSE IF FreeSlots # {} THEN lastId + 1 ELSE 0
    <3> HIDE DEF p
    <3>1. q.addr = "Null"
      BY <2>2, <2>3, <2>6 DEF ItemsAfter, Structures
    <3>3. SameItems(q, ItemsAfter(m.service, p))
      BY <3>1 DEF SameItems
    <3> HIDE DEF q
    <3>2. r = AssembleLinearMessage(m, q, Response(m.service, m.id, m.n))
      OBVIOUS
    <3>4. m.service # "none"
      BY <2>2
    <3> HIDE DEF r
    <3>5. Types /\ m \in Requests /\ m.service # "none" /\ p \in Structures
      BY <1>1, <1>4, <2>6, <3>4
    <3>6. /\ HasSockaddrs(p, k) /\ p.count >= 2 + k
          /\ SockaddrItemsOnly(m) => Exact(p, k)
          /\ SockaddrItemsOnly(m) \/ OddContext(m.ctx)
      BY <2>4, <2>5
    <3>7. IsRouted(m, q, r)
      BY <3>2, <3>3, <3>5, <3>6, RoutedReply
    <3> QED
      BY <3>7 DEF IsRouted
  <2> HIDE DEF r, q, p
  <2>8. /\ lastId' = IF m.service = "Open" /\ FreeSlots # {} THEN lastId + 1 ELSE lastId
        /\ executed' = executed
    BY <1>3, <2>1 DEF NotifyMessageRouter
  <2>9. lastId' \in Nat /\ lastId <= lastId'
    BY <1>4, <2>8
  <2>10. /\ pool' \in [Slots -> Entries]
         /\ \A s \in Slots : pool'[s].last \in {pool[s].last, NoReply}
         /\ IF m.service = "Open" /\ FreeSlots # {}
            THEN \E u \in Slots : /\ NewEntry(c, pool'[u])
                                  /\ \A s \in Slots \ {u} : pool'[s] = pool[s]
            ELSE \A s \in Slots : pool'[s] = pool[s] \/ pool'[s] = EmptyEntry
    BY <1>4, <2>1, <2>2, PoolAfterService
  <2>11. Emptied(EmptyEntry) /\ 1 \in Slots
    BY <1>4, EntryTypes, ExplicitAssumption DEF Slots
  <2>12. PICK u \in Slots : \A s \in Slots : \/ pool'[s] = pool[s]
                                             \/ Emptied(pool'[s])
                                             \/ s = u /\ lastId' = lastId + 1 /\ NewEntry(c, pool'[s])
    BY <2>8, <2>10, <2>11
  <2>13. PoolInv'
    BY <1>4, <2>9, <2>12, PoolInvAfter
  <2>14. \A d : PoolKept(d, 0)
    <3> TAKE d
    <3>1. \A s \in Slots : pool'[s] = pool[s] \/ Emptied(pool'[s]) \/ pool'[s].id = lastId + 1
      BY <2>12 DEF NewEntry
    <3> QED
      BY <1>4, <2>9, <3>1, PoolKeptForAll
  <2>15. IsGrant(r) =>
            /\ r.result = lastId' /\ lastId' = lastId + 1
            /\ \A s \in Slots : pool'[s].id = lastId' => pool'[s].prod = c /\ pool'[s].seq = 0
    <3> SUFFICES ASSUME IsGrant(r)
                 PROVE  /\ r.result = lastId' /\ lastId' = lastId + 1
                        /\ \A s \in Slots : pool'[s].id = lastId' => pool'[s].prod = c /\ pool'[s].seq = 0
      OBVIOUS
    <3>1. m.service = "Open"
      BY <1>3, <2>7 DEF IsGrant, OtherForm
    <3>2. r.result = lastId' /\ lastId' = lastId + 1
      BY <2>7, <2>8, <3>1 DEF IsGrant
    <3>3. \A s \in Slots : pool[s].id # lastId + 1
      BY <1>4 DEF PoolInv, Types, Entries
    <3>4. \A s \in Slots : Emptied(pool'[s]) => pool'[s].id # lastId + 1
      BY <1>4 DEF Emptied
    <3> QED
      BY <2>12, <3>2, <3>3, <3>4 DEF NewEntry
  <2>16. ReplyTo(c, m, r)
    BY <1>2, <2>7, <2>15 DEF ReplyTo
  <2>17. /\ toDevice' \in [Clients -> Seq(Requests)]
         /\ toClient' \in [Clients -> Seq(ReplyMessages)]
         /\ client' = client /\ lost' = lost
         /\ toDevice'[c] = Tail(toDevice[c])
         /\ \/ toClient'[c] = toClient[c]
            \/ r # NoReply /\ toClient'[c] = Append(toClient[c], r)
         /\ \A d \in Clients \ {c} : toDevice'[d] = toDevice[d] /\ toClient'[d] = toClient[d]
         /\ \A d \in Clients : \A x \in Due(d)' : Fits(x)
    BY <1>2, <2>1, <2>7, StreamsOfStep
  <2>18. TakenFrom(c, m)
    BY <2>9, <2>16, <2>17 DEF TakenFrom
  <2>19. ClientInv(c)'
    BY <1>4, <2>8, <2>14, <2>18, TakenKept
  <2>20. \A s \in Slots : pool'[s].last # NoReply => FitsAlways(pool'[s].last)
    BY <1>4, <2>10 DEF AllFit
  <2>21. StepTypes
    BY <1>2, <1>4, <2>8, <2>9, <2>10, <2>13, <2>20 DEF StepTypes, Types
  <2>22. client' \in [Clients -> ClientStates] /\ lost' \in 0..MaxLost
    BY <1>4, <2>17 DEF Types
  <2> QED
    BY <2>8, <2>14, <2>17, <2>19, <2>21, <2>22, StepOfClient
<1> QED
  BY <1>5, <1>6

(* A new request: it is executed, and its sequence count and its reply are *)
(* stored in the connection object, if that is still there.                *)
LEMMA NewRequestStep ==
    ASSUME IInv, NEW c \in Clients, NEW m, toDevice[c] # <<>>, m = Head(toDevice[c]),
           NewRequest(c, m)
    PROVE  IInv'
<1> DEFINE after == PoolAfter(m.service, c, m.id)
           p == CreateCommonPacketFormatStructure(m)
           q0 == ItemsAfter(m.service, p)
           q(s) == [q0 EXCEPT !.id = after[s].prod]
           r(s) == AssembleLinearMessage(m, q(s), Response(m.service, m.id, m.n))
<1>1. PICK s \in Slots : /\ TakesConnected(c, m, s)
                         /\ pool[s].seq # m.seq
                         /\ NotifyMessageRouter(m)
                         /\ pool' = [after EXCEPT ![s] = StoredReply(@, m.seq, r(s))]
                         /\ Replies(c, r(s))
  BY DEF NewRequest
<1>2. /\ Takes(c) /\ registered' = registered
      /\ m \in Requests /\ m.n # 0 /\ Class3Form(c, m)
      /\ pool[s] \in Entries /\ pool[s].id = m.id /\ m.id # 0 /\ pool[s].prod = c
      /\ LastDone(c) \in Nat /\ m.n \in Nat /\ LastDone(c) < m.n
  BY <1>1, FoundConnection
<1>3. Types /\ PoolInv /\ AllFit /\ ClientInv(c) /\ lastId \in Nat
  BY DEF IInv, Types
<1>4. /\ m.command = "SendUnitData" /\ m.session = c /\ m.ctx[1] = m.n
      /\ m.items = <<"Connection", "Connected">> /\ m.count = 2
      /\ m.service \in {"Read", "Reset", "Close"}
  BY <1>2 DEF Class3Form
<1>5. m.seq \in Counts /\ m.id \in Nat
  BY <1>2 DEF Requests
<1>6. /\ p \in Structures /\ HasSockaddrs(p, 0) /\ p.count >= 2 + 0 /\ Exact(p, 0)
      /\ SockaddrItemsOnly(m)
  <2> DEFINE two == <<"Connection", "Connected">>
  <2>1. two[1] = "Connection" /\ two[2] = "Connected"
    OBVIOUS
  <2>2. InfoItem(m, 1) = "none" /\ InfoItem(m, 2) = "none"
    BY <1>4 DEF InfoItem
  <2>3. p = [count |-> 2, addr |-> "Connection", id |-> m.id, data |-> "Connected",
             seq |-> m.seq, info |-> <<"none", "none">>]
    <3>1. m.items[1] = "Connection" /\ m.items[2] = "Connected"
      BY <1>4, <2>1
    <3> QED
      BY <1>4, <2>2, <3>1 DEF CreateCommonPacketFormatStructure
  <2>4. <<"none", "none">> \in ({"none"} \cup SockaddrItems) \X ({"none"} \cup SockaddrItems)
    OBVIOUS
  <2>5. SockaddrItemsOnly(m)
    <3>1. Len(two) = 2 /\ 3..2 = {}
      OBVIOUS
    <3>2. m.items = two /\ m.count = 2 /\ Len(m.items) = 2
      BY <1>4, <3>1
    <3> HIDE DEF two
    <3>3. 2 = 2 /\ 2 <= 4 /\ 2 # 4
      OBVIOUS
    <3> QED
      BY <3>1, <3>2, <3>3 DEF SockaddrItemsOnly
  <2> QED
    BY <2>5, <1>5, <2>3, <2>4 DEF Structures, HasSockaddrs, Distinct, Exact
<1>7. /\ after \in [Slots -> Entries]
      /\ \A t \in Slots : after[t].last \in {pool[t].last, NoReply}
      /\ \A t \in Slots : after[t] = pool[t] \/ after[t] = EmptyEntry
  BY <1>3, <1>4, PoolAfterService
<1>8. IsRouted(m, q(s), r(s))
  <2> HIDE DEF p
  <2>1. q0 \in Structures
    BY <1>4, <1>6, ItemsOfReply
  <2>2. after[s].prod \in Clients \cup {NoClient}
    BY <1>7 DEF Entries
  <2> HIDE DEF q0, after
  <2>3. SameItems(q(s), q0)
    BY <2>1, <2>2 DEF SameItems, Structures
  <2>4. SameItems(q(s), ItemsAfter(m.service, p))
    BY <2>3 DEF q0
  <2>5. m.service # "none"
    BY <1>4
  <2> HIDE DEF q
  <2> QED
    BY <1>2, <1>3, <1>6, <2>4, <2>5, RoutedReply
<1>9. /\ r(s) \in ReplyMessages /\ r(s).ctx = m.ctx /\ r(s).command = "SendUnitData"
      /\ Fits(r(s)) /\ FitsAlways(r(s)) /\ r(s).result = m.n
  <2> HIDE DEF r, q
  <2> QED
    BY <1>4, <1>6, <1>8 DEF IsRouted
<1> HIDE DEF after, p, q0, q, r
<1>10. Emptied(EmptyEntry) /\ EmptyEntry \in Entries
  BY <1>3, EntryTypes
<1>11. /\ StoredReply(after[s], m.seq, r(s)) \in Entries
       /\ StoredReply(after[s], m.seq, r(s)).last = r(s)
       /\ \/ Emptied(StoredReply(after[s], m.seq, r(s)))
          \/ /\ after[s] = pool[s]
             /\ StoredReply(after[s], m.seq, r(s)).id = pool[s].id
             /\ StoredReply(after[s], m.seq, r(s)).prod = pool[s].prod
             /\ StoredReply(after[s], m.seq, r(s)).sess = pool[s].sess
             /\ StoredReply(after[s], m.seq, r(s)).seq = m.seq
  <2>1. CASE after[s] = EmptyEntry
    BY <1>9, <1>10, <2>1 DEF StoredReply, Emptied, Entries
  <2>2. CASE after[s] = pool[s]
    BY <1>2, <1>5, <1>9, <2>2 DEF StoredReply, Entries
  <2> QED
    BY <1>7, <2>1, <2>2
<1>12. pool'[s] = StoredReply(after[s], m.seq, r(s)) /\ \A t \in Slots \ {s} : pool'[t] = after[t]
  BY <1>1, <1>7
<1>13. pool' \in [Slots -> Entries]
  BY <1>1, <1>7, <1>11
<1>14. pool'[s].last = r(s) /\ \A t \in Slots \ {s} : pool'[t] = pool[t] \/ Emptied(pool'[t])
  BY <1>7, <1>10, <1>11, <1>12
<1>15. \/ Emptied(pool'[s])
       \/ StillUsed(s) /\ pool'[s].seq = m.seq
  BY <1>2, <1>11, <1>12 DEF StillUsed
<1>16. \A t \in Slots : pool'[t].last # NoReply => FitsAlways(pool'[t].last)
  BY <1>3, <1>7, <1>9, <1>12, <1>14 DEF AllFit
<1>17. lastId' = lastId /\ executed' = [executed EXCEPT ![c] = Append(@, m.n)]
  BY <1>1, <1>2, <1>4 DEF NotifyMessageRouter
<1>18. PoolInv'
  BY <1>3, <1>14, <1>15, <1>17, PoolInvAfter
<1>19. \A t \in Slots : pool'[t].id = m.id =>
          /\ pool'[t].prod = c /\ pool'[t].seq = m.seq
          /\ pool'[t].last # NoReply => pool'[t].last.result = m.n
  <2> SUFFICES ASSUME NEW t \in Slots, pool'[t].id = m.id
               PROVE  pool'[t].prod = c /\ pool'[t].seq = m.seq /\ pool'[t].last = r(s)
    BY <1>9
  <2>1. t = s
    <3>1. CASE t # s
      <4>1. pool'[t] = pool[t] /\ pool[t].id = pool[s].id /\ pool[s].id # 0
        BY <1>2, <1>14, <3>1 DEF Emptied
      <4> QED
        BY <1>3, <4>1 DEF PoolInv
    <3> QED
      BY <3>1
  <2> QED
    BY <1>2, <1>14, <1>15, <2>1 DEF Emptied, StillUsed
<1>20. PoolKept(c, m.id)
  BY <1>2, <1>14, <1>15 DEF PoolKept, Emptied, StillUsed
<1>21. \A d \in Clients \ {c} : PoolKept(d, 0)
  BY <1>2, <1>14, <1>15 DEF PoolKept, Emptied, StillUsed
<1>22. /\ executed' \in [Clients -> Seq(1..MaxRequests)]
       /\ LastDone(c)' = m.n
       /\ \A d \in Clients \ {c} : executed'[d] = executed[d]
  <2>1. executed \in [Clients -> Seq(1..MaxRequests)] /\ client[c] \in ClientStates
    BY <1>3 DEF Types
  <2>2. m.n \in 1..MaxRequests
    <3>1. m.n <= client[c].n /\ client[c].n \in 0..MaxRequests
      BY <1>2, <2>1 DEF Class3Form, ClientStates
    <3> QED
      BY <1>2, <3>1, ExplicitAssumption
  <2>3. /\ Append(executed[c], m.n) \in Seq(1..MaxRequests)
        /\ Len(executed[c]) \in Nat /\ Len(Append(executed[c], m.n)) = Len(executed[c]) + 1
        /\ Append(executed[c], m.n)[Len(executed[c]) + 1] = m.n
    BY <2>1, <2>2, AppendedToStream
  <2>4. executed'[c] = Append(executed[c], m.n) /\ \A d \in Clients \ {c} : executed'[d] = executed[d]
    BY <1>17, <2>1
  <2>5. Append(executed[c], m.n) # <<>>
    <3>1. Len(Append(executed[c], m.n)) # 0
      BY <2>3
    <3> QED
      BY <3>1
  <2>6. LastDone(c)' = m.n
    BY <2>3, <2>4, <2>5 DEF LastDone
  <2>7. executed' \in [Clients -> Seq(1..MaxRequests)]
    BY <1>17, <2>1, <2>3
  <2> QED
    BY <2>4, <2>6, <2>7
<1>23. /\ toDevice' \in [Clients -> Seq(Requests)]
       /\ toClient' \in [Clients -> Seq(ReplyMessages)]
       /\ client' = client /\ lost' = lost
       /\ toDevice'[c] = Tail(toDevice[c])
       /\ \/ toClient'[c] = toClient[c]
          \/ r(s) # NoReply /\ toClient'[c] = Append(toClient[c], r(s))
       /\ \A d \in Clients \ {c} : toDevice'[d] = toDevice[d] /\ toClient'[d] = toClient[d]
       /\ \A d \in Clients : \A x \in Due(d)' : Fits(x)
  BY <1>1, <1>2, <1>9, StreamsOfStep
<1>24. ReplyTo(c, m, r(s))
  <2>1. r(s).ctx[1] = m.n /\ m.n <= m.n
    BY <1>2, <1>4, <1>9
  <2>2. ~IsGrant(r(s))
    BY <1>2, <2>1 DEF IsGrant
  <2> QED
    BY <1>9, <1>22, <2>1, <2>2 DEF ReplyTo
<1>25. TakenFrom(c, m)
  <2>1. lastId' \in Nat /\ lastId <= lastId'
    BY <1>3, <1>17
  <2> QED
    BY <1>23, <1>24, <2>1 DEF TakenFrom
<1>26. ClientInv(c)'
  BY <1>2, <1>3, <1>19, <1>20, <1>22, <1>25, ExecutedKept
<1>27. StepTypes
  <2>1. registered' \in SUBSET Clients /\ lastId' \in Nat /\ lastId <= lastId'
    BY <1>2, <1>3, <1>17 DEF Types
  <2> QED
    BY <1>13, <1>16, <1>18, <1>22, <2>1 DEF StepTypes
<1>28. client' \in [Clients -> ClientStates] /\ lost' \in 0..MaxLost
  BY <1>3, <1>23 DEF Types
<1> QED
  BY <1>21, <1>22, <1>23, <1>26, <1>27, <1>28, StepOfClient

-----------------------------------------------------------------------------
(* A client without a connection and with empty streams.                   *)
LEMMA NothingOnTheWay ==
    ASSUME Types, NEW c \in Clients, ClientInv(c),
           toDevice'[c] = <<>>, toClient'[c] = <<>>, executed'[c] = executed[c],
           client'[c].state \notin {"ready", "waiting"}, client'[c].id = 0,
           client'[c].n = client[c].n, lastId' \in Nat
    PROVE  ClientInv(c)'
<1>1. Len(toDevice'[c]) = 0 /\ Len(toClient'[c]) = 0
  BY EmptySeq
<1>2. 1..0 = {}
  OBVIOUS
<1>3. Sent(c)' = {} /\ Due(c)' = {}
  BY <1>1, <1>2 DEF Sent, Due
<1>4. LastDone(c)' = LastDone(c)
  BY DEF LastDone
<1>5. Formed(c)' /\ Answered(c)'
  BY <1>3 DEF Formed, Answered
<1>6. Numbering(c)'
  BY <1>1, <1>2, <1>3, <1>4 DEF Numbering, ClientInv
<1>7. Tracking(c)'
  BY <1>3 DEF Tracking
<1>8. Grants(c)' /\ Contexts(c)'
  BY <1>1, <1>2, <1>3 DEF Grants, Contexts
<1> QED
  BY <1>5, <1>6, <1>7, <1>8 DEF ClientInv

(* A client that rests keeps the number of its last request.               *)
LEMMA RestingType ==
    ASSUME NEW k \in ClientStates, NEW state \in {"off", "idle"}
    PROVE  /\ Resting(k, state) \in ClientStates
           /\ Resting(k, state).state = state /\ Resting(k, state).id = 0
           /\ Resting(k, state).n = k.n /\ Resting(k, state).answer = k.answer
<1>1. FirstSeq \in Counts
  BY ExplicitAssumption DEF Counts
<1> QED
  BY <1>1 DEF Resting, ClientStates

(* The end of a session, when what is left of the pool is as it was.       *)
LEMMA SessionEndsStep ==
    ASSUME IInv, NEW c \in Clients, NEW rest, SessionEnds(c, rest),
           rest \in [Slots -> Entries],
           \A s \in Slots : rest[s] = pool[s] \/ rest[s] = EmptyEntry
    PROVE  IInv'
<1>1. Types /\ PoolInv /\ AllFit /\ ClientInv(c) /\ lastId \in Nat
  BY DEF IInv, Types
<1>2. /\ registered' = registered \ {c} /\ pool' = rest
      /\ toDevice' = [toDevice EXCEPT ![c] = <<>>]
      /\ toClient' = [toClient EXCEPT ![c] = <<>>]
      /\ client' = [client EXCEPT ![c] = Resting(@, "off")]
      /\ lastId' = lastId /\ executed' = executed /\ lost' = lost
  BY DEF SessionEnds
<1>3. /\ toDevice \in [Clients -> Seq(Requests)] /\ toClient \in [Clients -> Seq(ReplyMessages)]
      /\ client \in [Clients -> ClientStates] /\ client[c] \in ClientStates
  BY <1>1 DEF Types
<1>4. Emptied(EmptyEntry) /\ EmptyEntry.last = NoReply /\ 1 \in Slots
  BY <1>1, EntryTypes, ExplicitAssumption DEF Slots
<1>5. \A s \in Slots : pool'[s] = pool[s] \/ (Emptied(pool'[s]) /\ pool'[s].last = NoReply)
  BY <1>2, <1>4
<1>6. PoolInv'
  BY <1>1, <1>2, <1>4, <1>5, PoolInvAfter
<1>7. \A d : PoolKept(d, 0)
  BY <1>1, <1>2, <1>5, PoolKeptForAll
<1>8. StepTypes
  <2>1. registered' \in SUBSET Clients /\ lastId' \in Nat /\ lastId <= lastId'
        /\ executed' \in [Clients -> Seq(1..MaxRequests)]
    BY <1>1, <1>2 DEF Types
  <2>2. \A s \in Slots : pool'[s].last # NoReply => FitsAlways(pool'[s].last)
    BY <1>1, <1>5 DEF AllFit
  <2> QED
    BY <1>2, <1>6, <2>1, <2>2 DEF StepTypes
<1>9. /\ toDevice' \in [Clients -> Seq(Requests)] /\ toDevice'[c] = <<>>
      /\ \A d \in Clients \ {c} : toDevice'[d] = toDevice[d]
  BY <1>2, <1>3, EmptySeq
<1>10. /\ toClient' \in [Clients -> Seq(ReplyMessages)] /\ toClient'[c] = <<>>
       /\ \A d \in Clients \ {c} : toClient'[d] = toClient[d]
  BY <1>2, <1>3, EmptySeq
<1>11. /\ Resting(client[c], "off") \in ClientStates
       /\ Resting(client[c], "off").state = "off" /\ Resting(client[c], "off").id = 0
       /\ Resting(client[c], "off").n = client[c].n
  BY <1>3, RestingType
<1>12. /\ client' \in [Clients -> ClientStates] /\ client'[c] = Resting(client[c], "off")
       /\ \A d \in Clients \ {c} : client'[d] = client[d]
  BY <1>2, <1>3, <1>11
<1>13. ClientInv(c)'
  BY <1>1, <1>2, <1>9, <1>10, <1>11, <1>12, NothingOnTheWay
<1>14. \A d \in Clients : \A x \in Due(d)' : Fits(x)
  <2> SUFFICES ASSUME NEW d \in Clients, NEW x \in Due(d)' PROVE Fits(x)
    OBVIOUS
  <2>1. PICK i \in 1..Len(toClient'[d]) : x = toClient'[d][i]
    BY DEF Due
  <2>2. d # c
    <3>1. Len(toClient'[c]) = 0 /\ 1..0 = {}
      BY <1>10, EmptySeq
    <3> QED
      BY <2>1, <3>1
  <2>3. x \in Due(d)
    BY <1>10, <2>1, <2>2 DEF Due
  <2> QED
    BY <1>1, <2>3 DEF AllFit
<1>15. lost' \in 0..MaxLost
  BY <1>1, <1>2 DEF Types
<1> QED
  BY <1>2, <1>7, <1>8, <1>9, <1>10, <1>12, <1>13, <1>14, <1>15, StepOfClient

(* UnregisterSession, the end of a socket and the time-out of a connection.*)
LEMMA EndSteps ==
    ASSUME IInv,
           \/ \E c \in Clients : SocketEnds(c) \/ \E m : HandleUnregisterSession(c, m)
           \/ \E s \in Slots : ConnectionTimesOut(s)
    PROVE  IInv'
<1>1. Types /\ PoolInv /\ AllFit /\ pool \in [Slots -> Entries]
  BY DEF IInv, Types
<1>2. EmptyEntry \in Entries /\ Emptied(EmptyEntry) /\ EmptyEntry.last = NoReply /\ 1 \in Slots
  BY <1>1, EntryTypes, ExplicitAssumption DEF Slots
<1>3. ASSUME NEW c \in Clients, SessionEnds(c, PoolWithoutSession(c)) PROVE IInv'
  <2> DEFINE rest == PoolWithoutSession(c)
  <2>1. rest \in [Slots -> Entries] /\ \A s \in Slots : rest[s] = pool[s] \/ rest[s] = EmptyEntry
    BY <1>1, <1>2 DEF PoolWithoutSession
  <2> HIDE DEF rest
  <2>2. SessionEnds(c, rest)
    BY <1>3 DEF rest
  <2> QED
    BY <2>1, <2>2, SessionEndsStep
<1>4. ASSUME NEW s \in Slots, ConnectionTimesOut(s) PROVE IInv'
  <2> DEFINE rest == [pool EXCEPT ![s] = EmptyEntry]
  <2>1. /\ rest \in [Slots -> Entries] /\ rest[s] = EmptyEntry
        /\ \A t \in Slots \ {s} : rest[t] = pool[t]
    BY <1>1, <1>2
  <2>2. pool[s].sess \in Clients
    BY <1>1, <1>4 DEF ConnectionTimesOut, PoolInv
  <2>3. SessionEnds(pool[s].sess, rest) \/
        (pool' = rest /\ UNCHANGED <<registered, lastId, executed, toDevice, toClient, client, lost>>)
    BY <1>4 DEF ConnectionTimesOut
  <2> HIDE DEF rest
  <2>4. CASE SessionEnds(pool[s].sess, rest)
    BY <2>1, <2>2, <2>4, SessionEndsStep
  <2>5. CASE pool' = rest /\ UNCHANGED <<registered, lastId, executed, toDevice, toClient, client, lost>>
    <3>1. /\ lastId' = lastId /\ lastId \in Nat
          /\ \A t \in Slots : pool'[t] = pool[t] \/ (Emptied(pool'[t]) /\ pool'[t].last = NoReply)
      BY <1>1, <1>2, <2>1, <2>5 DEF Types
    <3>2. \A d : PoolKept(d, 0)
      BY <1>1, <3>1, PoolKeptForAll
    <3>3. \A d \in Clients : ClientInv(d)'
      <4> SUFFICES ASSUME NEW d \in Clients PROVE ClientInv(d)'
        OBVIOUS
      <4>1. NotInvolved(d)
        BY <2>5, <3>1, <3>2 DEF NotInvolved
      <4> QED
        BY <1>1, <4>1, OthersKept DEF IInv
    <3>4. PICK c \in Clients : TRUE
      BY <2>2
    <3>5. PoolInv'
      BY <1>1, <1>2, <3>1, <3>4, PoolInvAfter
    <3>6. Types'
      BY <1>1, <2>1, <2>5 DEF Types
    <3>7. AllFit'
      BY <1>1, <2>5, <3>1 DEF AllFit, Due
    <3> QED
      BY <3>3, <3>5, <3>6, <3>7 DEF IInv
  <2> QED
    BY <2>3, <2>4, <2>5
<1> QED
  BY <1>3, <1>4 DEF SocketEnds, HandleUnregisterSession

-----------------------------------------------------------------------------
(* The streams of c after it has sent m, whose number is not less than     *)
(* those on the way and whose sender context is new.                       *)
LEMMA StreamsAfterSend ==
    ASSUME Types, NEW c \in Clients, ClientInv(c), NEW m \in Requests,
           toDevice'[c] = Append(toDevice[c], m), toClient'[c] = toClient[c],
           \A q \in Sent(c) : q.n # 0 /\ m.n # 0 => q.n <= m.n,
           m.ctx[1] # 0 => \A x \in Sent(c) \cup Due(c) : x.ctx # m.ctx
    PROVE  /\ Sent(c)' = Sent(c) \cup {m} /\ Due(c)' = Due(c)
           /\ \A i, j \in 1..Len(toDevice'[c]) :
                 i < j /\ toDevice'[c][i].n # 0 /\ toDevice'[c][j].n # 0
                    => toDevice'[c][i].n <= toDevice'[c][j].n
           /\ \A i, j \in 1..Len(toDevice'[c]) :
                 i # j /\ toDevice'[c][i].ctx[1] # 0 => toDevice'[c][i].ctx # toDevice'[c][j].ctx
           /\ \A q \in Sent(c)', r \in Due(c)' : q.ctx[1] # 0 => q.ctx # r.ctx
<1>1. toDevice[c] \in Seq(Requests)
  BY DEF Types
<1>2. /\ Len(toDevice[c]) \in Nat /\ Len(toDevice'[c]) = Len(toDevice[c]) + 1
      /\ \A i \in 1..Len(toDevice[c]) : toDevice'[c][i] = toDevice[c][i]
      /\ toDevice'[c][Len(toDevice[c]) + 1] = m
      /\ \A i \in 1..Len(toDevice[c]) + 1 : i = Len(toDevice[c]) + 1 \/ i \in 1..Len(toDevice[c])
      /\ Sent(c)' = Sent(c) \cup {m}
  BY <1>1, AppendedToStream DEF Sent
<1>3. Due(c)' = Due(c)
  BY DEF Due
<1>4. Numbering(c) /\ Contexts(c)
  BY DEF ClientInv
<1>5. ASSUME NEW i \in 1..Len(toDevice[c]) PROVE toDevice[c][i] \in Sent(c)
  BY DEF Sent
<1>6. ASSUME NEW i \in 1..Len(toDevice'[c]), NEW j \in 1..Len(toDevice'[c]),
             i < j, toDevice'[c][i].n # 0, toDevice'[c][j].n # 0
      PROVE  toDevice'[c][i].n <= toDevice'[c][j].n
  <2>1. i \in 1..Len(toDevice[c]) /\ toDevice'[c][i] = toDevice[c][i]
    BY <1>2, <1>6
  <2>2. CASE j \in 1..Len(toDevice[c])
    <3>1. toDevice'[c][j] = toDevice[c][j]
      BY <1>2, <2>2
    <3>2. \A a, b \in 1..Len(toDevice[c]) :
            a < b /\ toDevice[c][a].n # 0 /\ toDevice[c][b].n # 0
               => toDevice[c][a].n <= toDevice[c][b].n
      BY <1>4 DEF Numbering
    <3> QED
      BY <1>6, <2>1, <2>2, <3>1, <3>2
  <2>3. CASE j = Len(toDevice[c]) + 1
    BY <1>2, <1>5, <1>6, <2>1, <2>3
  <2> QED
    BY <1>2, <2>2, <2>3
<1>7. ASSUME NEW i \in 1..Len(toDevice'[c]), NEW j \in 1..Len(toDevice'[c]),
             i # j, toDevice'[c][i].ctx[1] # 0
      PROVE  toDevice'[c][i].ctx # toDevice'[c][j].ctx
  <2>1. CASE i \in 1..Len(toDevice[c]) /\ j \in 1..Len(toDevice[c])
    <3>1. toDevice'[c][i] = toDevice[c][i] /\ toDevice'[c][j] = toDevice[c][j]
      BY <1>2, <2>1
    <3>2. \A a, b \in 1..Len(toDevice[c]) :
            a # b /\ toDevice[c][a].ctx[1] # 0 => toDevice[c][a].ctx # toDevice[c][b].ctx
      BY <1>4 DEF Contexts
    <3> QED
      BY <1>7, <2>1, <3>1, <3>2
  <2>2. CASE i = Len(toDevice[c]) + 1 /\ j \in 1..Len(toDevice[c])
    BY <1>2, <1>5, <1>7, <2>2
  <2>3. CASE j = Len(toDevice[c]) + 1 /\ i \in 1..Len(toDevice[c])
    <3>1. toDevice'[c][i] \in Sent(c) /\ toDevice'[c][j] = m
      BY <1>2, <1>5, <2>3
    <3>2. toDevice'[c][i].ctx = m.ctx => m.ctx[1] # 0
      BY <1>7
    <3> QED
      BY <3>1, <3>2
  <2> QED
    BY <1>2, <1>7, <2>1, <2>2, <2>3
<1>8. \A q \in Sent(c)', r \in Due(c)' : q.ctx[1] # 0 => q.ctx # r.ctx
  BY <1>2, <1>3, <1>4 DEF Contexts
<1> QED
  BY <1>2, <1>3, <1>6, <1>7, <1>8

(* The invariant after a client has sent a message.                        *)
LEMMA SendsStep ==
    ASSUME IInv, NEW c \in Clients, NEW m \in Requests, NEW next \in ClientStates,
           Sends(c, m, next), ClientInv(c)'
    PROVE  IInv'
<1>1. Types /\ PoolInv /\ AllFit /\ lastId \in Nat
  BY DEF IInv, Types
<1>2. /\ toDevice' = [toDevice EXCEPT ![c] = Append(@, m)]
      /\ client' = [client EXCEPT ![c] = next]
      /\ UNCHANGED <<registered, pool, lastId, executed, toClient, lost>>
  BY DEF Sends, Put
<1>3. toDevice \in [Clients -> Seq(Requests)] /\ client \in [Clients -> ClientStates]
  BY <1>1 DEF Types
<1>4. Append(toDevice[c], m) \in Seq(Requests)
  BY <1>3, AppendedToStream
<1>5. /\ toDevice' \in [Clients -> Seq(Requests)]
      /\ \A d \in Clients \ {c} : toDevice'[d] = toDevice[d]
  BY <1>2, <1>3, <1>4
<1>6. client' \in [Clients -> ClientStates] /\ \A d \in Clients \ {c} : client'[d] = client[d]
  BY <1>2, <1>3
<1>7. \A d : PoolKept(d, 0)
  BY <1>2 DEF PoolKept
<1>8. StepTypes
  BY <1>1, <1>2 DEF StepTypes, Types, PoolInv, AllFit
<1>9. \A d \in Clients : \A x \in Due(d)' : Fits(x)
  BY <1>1, <1>2 DEF AllFit, Due
<1>10. toClient' \in [Clients -> Seq(ReplyMessages)] /\ lost' \in 0..MaxLost
  BY <1>1, <1>2 DEF Types
<1> QED
  BY <1>2, <1>5, <1>6, <1>7, <1>8, <1>9, <1>10, StepOfClient

(* A message besides class 3 requests changes nothing for those.           *)
LEMMA OtherSent ==
    ASSUME Types, NEW c \in Clients, ClientInv(c), NEW m \in Requests,
           m.n = 0, OtherForm(m),
           toDevice'[c] = Append(toDevice[c], m),
           UNCHANGED <<registered, pool, lastId, executed, toClient, lost>>,
           client'[c].id = client[c].id, client'[c].n = client[c].n,
           client'[c].state \notin {"ready", "waiting"}
    PROVE  ClientInv(c)'
<1>1. m.ctx[1] = 0
  BY DEF OtherForm
<1>2. /\ Sent(c)' = Sent(c) \cup {m} /\ Due(c)' = Due(c)
      /\ \A i, j \in 1..Len(toDevice'[c]) :
            i < j /\ toDevice'[c][i].n # 0 /\ toDevice'[c][j].n # 0
               => toDevice'[c][i].n <= toDevice'[c][j].n
      /\ \A i, j \in 1..Len(toDevice'[c]) :
            i # j /\ toDevice'[c][i].ctx[1] # 0 => toDevice'[c][i].ctx # toDevice'[c][j].ctx
      /\ \A q \in Sent(c)', r \in Due(c)' : q.ctx[1] # 0 => q.ctx # r.ctx
  BY <1>1, StreamsAfterSend
<1>3. /\ LastDone(c)' = LastDone(c) /\ pool' = pool /\ lastId' = lastId
      /\ toClient' = toClient
  BY DEF LastDone
<1>4. LastDone(c) \in Nat /\ client[c].n \in Nat /\ ~(LastDone(c) < m.n) /\ 0 <= client[c].n
  BY StreamTypes
<1>5. Formed(c) /\ Numbering(c) /\ Tracking(c) /\ Grants(c) /\ Answered(c) /\ Contexts(c)
  BY DEF ClientInv
<1>6. Formed(c)'
  BY <1>2, <1>3, <1>5 DEF Formed, Class3Form
<1>7. Numbering(c)'
  BY <1>2, <1>3, <1>4, <1>5 DEF Numbering
<1>8. Tracking(c)'
  BY <1>2, <1>3, <1>5 DEF Tracking, Tracks
<1>9. Grants(c)'
  BY <1>2, <1>3, <1>5 DEF Grants
<1>10. Answered(c)'
  BY <1>2, <1>3, <1>5 DEF Answered, AnswerTrue
<1>11. Contexts(c)'
  <2>1. \A x \in Sent(c)' : x.ctx[1] <= client[c].n
    BY <1>1, <1>2, <1>4, <1>5 DEF Contexts, ContextUsed
  <2>2. \A x \in Due(c)' : x.ctx[1] <= client[c].n
    BY <1>2, <1>5 DEF Contexts, ContextUsed
  <2> QED
    BY <1>2, <1>3, <1>5, <2>1, <2>2 DEF Contexts, ContextUsed
<1> QED
  BY <1>6, <1>7, <1>8, <1>9, <1>10, <1>11 DEF ClientInv

(* The fields of a class 3 request.                                        *)
Class3Fields(m, c, k, id, seq, service, n) ==
    /\ m \in Requests /\ m.n = n /\ m.id = id /\ m.seq = seq /\ m.ctx = <<n, k>>
    /\ m.command = "SendUnitData" /\ m.session = c
    /\ m.items = <<"Connection", "Connected">> /\ m.count = 2 /\ m.service = service

(* A class 3 request as it is sent.                                        *)
LEMMA Class3RequestForm ==
    ASSUME Types, NEW c \in Clients, NEW k \in Nat, NEW id \in Nat, NEW seq \in Counts,
           NEW service \in {"Read", "Reset", "Close"}, NEW n \in Nat,
           NEW m, m = Class3Request(c, k, id, seq, service, n)
    PROVE  Class3Fields(m, c, k, id, seq, service, n)
<1> DEFINE two == <<"Connection", "Connected">>
           types == {"Null", "Connection", "Unconnected", "Connected"} \cup SockaddrItems
<1>1. "Connection" \in types /\ "Connected" \in types
  OBVIOUS
<1>2. Len(two) = 2
  OBVIOUS
<1>3. two \in Seq(types)
  <2> HIDE DEF types
  <2> QED
    BY <1>1
<1>4. <<n, k>> \in Nat \X Nat
  OBVIOUS
<1>5. m = [command |-> "SendUnitData", session |-> c, ctx |-> <<n, k>>, options |-> FALSE,
           long |-> TRUE, fits |-> "exact", count |-> 2, items |-> two,
           id |-> id, seq |-> seq, service |-> service, n |-> n]
  BY <1>2 DEF Class3Request, Message
<1> HIDE DEF two, types
<1>6. m \in Requests
  BY <1>3, <1>4, <1>5 DEF Requests, types
<1> QED
  BY <1>5, <1>6 DEF two, Class3Fields

(* A client that is ready makes its next request.                          *)
LEMMA RequestSent ==
    ASSUME IInv, NEW c \in Clients, NEW service \in Services, ClientRequests(c, service)
    PROVE  IInv'
<1>1. Types /\ ClientInv(c) /\ pool \in [Slots -> Entries]
  BY DEF IInv, Types
<1>2. PICK k : k = client[c]
  OBVIOUS
<1>3. /\ k \in ClientStates /\ k.id \in Nat /\ k.n \in Nat /\ k.seq \in Counts
      /\ LastDone(c) \in Nat /\ lastId \in Nat
  BY <1>1, <1>2, StreamTypes DEF Types
<1>4. PICK n : n = k.n + 1
  OBVIOUS
<1>5. PICK next : next = [k EXCEPT !.state = "waiting", !.n = n, !.tries = 0, !.service = service]
  OBVIOUS
<1>6. PICK m : m = Class3Request(c, 0, k.id, k.seq, service, n)
  OBVIOUS
<1>7. k.state = "ready" /\ k.n < MaxRequests /\ Sends(c, m, next)
  BY <1>2, <1>4, <1>5, <1>6 DEF ClientRequests
<1>8. service \in {"Read", "Reset", "Close"} /\ n \in 0..MaxRequests /\ n \in Nat
  BY <1>3, <1>4, <1>7, ExplicitAssumption
<1>9. /\ next \in ClientStates /\ next.state = "waiting" /\ next.n = n /\ next.id = k.id
      /\ next.seq = k.seq /\ next.tries = 0
  BY <1>3, <1>5, <1>8 DEF ClientStates
<1>10. /\ m \in Requests /\ m.n = n /\ m.id = k.id /\ m.seq = k.seq /\ m.ctx = <<n, 0>>
       /\ m.command = "SendUnitData" /\ m.session = c
       /\ m.items = <<"Connection", "Connected">> /\ m.count = 2 /\ m.service = service
  <2>1. 0 \in Nat
    OBVIOUS
  <2>2. Class3Fields(m, c, 0, k.id, k.seq, service, n)
    BY <1>1, <1>3, <1>6, <1>8, <2>1, Class3RequestForm
  <2> QED
    BY <2>2 DEF Class3Fields
<1>11. /\ toDevice'[c] = Append(toDevice[c], m) /\ client'[c] = next
       /\ pool' = pool /\ lastId' = lastId /\ executed' = executed /\ toClient' = toClient
  BY <1>1, <1>7 DEF Sends, Put, Types
<1>12. Formed(c) /\ Numbering(c) /\ Tracking(c) /\ Grants(c) /\ Answered(c) /\ Contexts(c)
  BY <1>1 DEF ClientInv
<1>13. /\ \A q \in Sent(c) : q.n \in Nat /\ q.n <= n /\ q.n # n
       /\ LastDone(c) <= n /\ LastDone(c) < n /\ n # 0
  <2>1. \A q \in Sent(c) : q.n \in Nat
    BY <1>1, StreamTypes
  <2>2. \A q \in Sent(c) : q.n <= k.n
    BY <1>2, <1>3, <1>12, <2>1 DEF Formed, Class3Form
  <2>3. LastDone(c) <= k.n
    BY <1>2, <1>12 DEF Numbering
  <2> QED
    BY <1>3, <1>4, <2>1, <2>2, <2>3
<1>14. \A x \in Sent(c) \cup Due(c) : x.ctx[1] <= n /\ x.ctx[1] # n
  <2>1. \A x \in Sent(c) \cup Due(c) : x.ctx[1] \in Nat
    BY <1>1, StreamTypes
  <2>2. \A x \in Sent(c) \cup Due(c) : x.ctx[1] <= k.n
    BY <1>2, <1>12 DEF Contexts, ContextUsed
  <2> QED
    BY <1>3, <1>4, <2>1, <2>2
<1>15. \A x \in Sent(c) \cup Due(c) : x.ctx # m.ctx
  BY <1>10, <1>14
<1>16. /\ Sent(c)' = Sent(c) \cup {m} /\ Due(c)' = Due(c)
       /\ \A i, j \in 1..Len(toDevice'[c]) :
             i < j /\ toDevice'[c][i].n # 0 /\ toDevice'[c][j].n # 0
                => toDevice'[c][i].n <= toDevice'[c][j].n
       /\ \A i, j \in 1..Len(toDevice'[c]) :
             i # j /\ toDevice'[c][i].ctx[1] # 0 => toDevice'[c][i].ctx # toDevice'[c][j].ctx
       /\ \A q \in Sent(c)', r \in Due(c)' : q.ctx[1] # 0 => q.ctx # r.ctx
  BY <1>1, <1>10, <1>11, <1>13, <1>15, StreamsAfterSend
<1>17. LastDone(c)' = LastDone(c)
  BY <1>11 DEF LastDone
<1>18. k.id # 0 /\ k.id <= lastId
  BY <1>2, <1>7, <1>12 DEF Tracking
<1>19. Formed(c)'
  <2>1. ASSUME NEW q \in Sent(c) PROVE IF q.n = 0 THEN OtherForm(q) ELSE Class3Form(c, q)'
    <3>1. IF q.n = 0 THEN OtherForm(q) ELSE Class3Form(c, q)
      BY <1>12 DEF Formed
    <3> QED
      BY <1>9, <1>11, <1>13, <3>1 DEF Class3Form
  <2>2. m.n # 0 /\ Class3Form(c, m)'
    <3>1. m.ctx[1] = m.n /\ n <= n
      BY <1>8, <1>10
    <3> QED
      BY <1>8, <1>9, <1>10, <1>11, <1>13, <1>18, <3>1 DEF Class3Form
  <2> QED
    BY <1>16, <2>1, <2>2 DEF Formed
<1>20. Numbering(c)'
  <2>1. \A q \in Sent(c) : q.id = k.id => ~(LastDone(c) < q.n)
    BY <1>2, <1>7, <1>12 DEF Numbering
  <2>2. \A q \in Sent(c)' : q.n # 0 => LastDone(c) <= q.n
    BY <1>10, <1>12, <1>13, <1>16 DEF Numbering
  <2>3. \A q, u \in Sent(c)' : q.n = u.n /\ q.n # 0 => q.id = u.id /\ q.seq = u.seq
    BY <1>10, <1>12, <1>13, <1>16 DEF Numbering
  <2>4. \A q, u \in Sent(c)' : q.id = u.id /\ LastDone(c) < q.n /\ LastDone(c) < u.n => q.n = u.n
    BY <1>10, <1>12, <1>16, <2>1 DEF Numbering
  <2>5. \A q \in Sent(c)' : /\ q.n = n => q.id = k.id /\ q.seq = k.seq
                            /\ q.id = k.id /\ LastDone(c) < q.n => q.n = n
    BY <1>10, <1>13, <1>16, <2>1
  <2> QED
    BY <1>9, <1>11, <1>13, <1>16, <1>17, <2>2, <2>3, <2>4, <2>5 DEF Numbering
<1>21. Tracking(c)'
  <2>1. \A s \in Slots : pool[s].id = k.id => pool[s].prod = c /\ Tracks(c, pool[s], n, k.seq)
    BY <1>2, <1>7, <1>12, <1>13 DEF Tracking, Tracks
  <2>2. \A s \in Slots : \A q \in Sent(c)' :
           q.n # 0 /\ pool[s].id = q.id => pool[s].prod = c /\ Tracks(c, pool[s], q.n, q.seq)
    BY <1>10, <1>12, <1>16, <2>1 DEF Tracking
  <2> QED
    BY <1>9, <1>11, <1>17, <1>18, <2>1, <2>2 DEF Tracking, Tracks
<1>22. Grants(c)'
  <2>1. \A r \in Due(c) : IsGrant(r) => r.result # k.id
    BY <1>2, <1>12 DEF Grants
  <2>2. \A r \in Due(c)' : IsGrant(r) =>
           /\ r.result <= lastId /\ r.result # next.id
           /\ \A q \in Sent(c)' : q.n # 0 => q.id # r.result
           /\ \A s \in Slots : pool[s].id = r.result => pool[s].prod = c /\ pool[s].seq = 0
    BY <1>9, <1>10, <1>12, <1>16, <2>1 DEF Grants
  <2>3. \A i, j \in 1..Len(toClient[c]) :
          i # j /\ IsGrant(toClient[c][i]) /\ IsGrant(toClient[c][j])
             => toClient[c][i].result # toClient[c][j].result
    BY <1>12 DEF Grants
  <2> QED
    BY <1>11, <2>2, <2>3 DEF Grants
<1>23. Answered(c)'
  BY <1>12, <1>16, <1>17 DEF Answered, AnswerTrue
<1>24. Contexts(c)'
  <2>1. m.ctx[1] <= n /\ m.ctx[2] <= 0
    BY <1>8, <1>10
  <2>2. \A x \in Sent(c)' \cup Due(c)' : ContextUsed(c, x.ctx)'
    BY <1>9, <1>11, <1>14, <1>16, <2>1 DEF ContextUsed
  <2> QED
    BY <1>11, <1>12, <1>16, <2>2 DEF Contexts
<1>25. ClientInv(c)'
  BY <1>19, <1>20, <1>21, <1>22, <1>23, <1>24 DEF ClientInv
<1> QED
  BY <1>7, <1>9, <1>10, <1>25, SendsStep

(* A client that waits repeats its request.                                *)
LEMMA RetrySent ==
    ASSUME IInv, NEW c \in Clients, ClientRetries(c)
    PROVE  IInv'
<1>1. Types /\ ClientInv(c) /\ pool \in [Slots -> Entries]
  BY DEF IInv, Types
<1>2. PICK k : k = client[c]
  OBVIOUS
<1>3. /\ k \in ClientStates /\ k.id \in Nat /\ k.n \in Nat /\ k.seq \in Counts /\ k.tries \in Nat
      /\ k.service \in {"Read", "Reset", "Close"} /\ LastDone(c) \in Nat /\ lastId \in Nat
  BY <1>1, <1>2, StreamTypes DEF Types, ClientStates
<1>4. PICK t : t = k.tries + 1
  OBVIOUS
<1>5. PICK next : next = [k EXCEPT !.tries = t]
  OBVIOUS
<1>6. PICK m : m = Class3Request(c, t, k.id, k.seq, k.service, k.n)
  OBVIOUS
<1>7. k.state = "waiting" /\ Sends(c, m, next)
  BY <1>2, <1>4, <1>5, <1>6 DEF ClientRetries
<1>8. t \in Nat /\ k.tries <= t /\ ~(t <= k.tries)
  BY <1>3, <1>4
<1>9. /\ next \in ClientStates /\ next.state = "waiting" /\ next.n = k.n /\ next.id = k.id
      /\ next.seq = k.seq /\ next.tries = t
  BY <1>3, <1>5, <1>7, <1>8 DEF ClientStates
<1>10. /\ m \in Requests /\ m.n = k.n /\ m.id = k.id /\ m.seq = k.seq /\ m.ctx = <<k.n, t>>
       /\ m.command = "SendUnitData" /\ m.session = c
       /\ m.items = <<"Connection", "Connected">> /\ m.count = 2 /\ m.service = k.service
  <2>1. Class3Fields(m, c, t, k.id, k.seq, k.service, k.n)
    BY <1>1, <1>3, <1>6, <1>8, Class3RequestForm
  <2> QED
    BY <2>1 DEF Class3Fields
<1>11. /\ toDevice'[c] = Append(toDevice[c], m) /\ client'[c] = next
       /\ pool' = pool /\ lastId' = lastId /\ executed' = executed /\ toClient' = toClient
  BY <1>1, <1>7 DEF Sends, Put, Types
<1>12. Formed(c) /\ Numbering(c) /\ Tracking(c) /\ Grants(c) /\ Answered(c) /\ Contexts(c)
  BY <1>1 DEF ClientInv
<1>13. /\ \A q \in Sent(c) : q.n # 0 => q.n <= k.n
       /\ LastDone(c) <= k.n /\ k.n # 0
  BY <1>2, <1>7, <1>12 DEF Formed, Class3Form, Numbering
<1>14. \A x \in Sent(c) \cup Due(c) : x.ctx[1] <= k.n /\ (x.ctx[1] = k.n => x.ctx[2] <= k.tries)
  BY <1>2, <1>7, <1>12 DEF Contexts, ContextUsed
<1>15. \A x \in Sent(c) \cup Due(c) : x.ctx # m.ctx
  BY <1>8, <1>10, <1>14
<1>16. /\ Sent(c)' = Sent(c) \cup {m} /\ Due(c)' = Due(c)
       /\ \A i, j \in 1..Len(toDevice'[c]) :
             i < j /\ toDevice'[c][i].n # 0 /\ toDevice'[c][j].n # 0
                => toDevice'[c][i].n <= toDevice'[c][j].n
       /\ \A i, j \in 1..Len(toDevice'[c]) :
             i # j /\ toDevice'[c][i].ctx[1] # 0 => toDevice'[c][i].ctx # toDevice'[c][j].ctx
       /\ \A q \in Sent(c)', r \in Due(c)' : q.ctx[1] # 0 => q.ctx # r.ctx
  BY <1>1, <1>10, <1>11, <1>13, <1>15, StreamsAfterSend
<1>17. LastDone(c)' = LastDone(c)
  BY <1>11 DEF LastDone
<1>18. k.id # 0 /\ k.id <= lastId
  BY <1>2, <1>7, <1>12 DEF Tracking
<1>19. Formed(c)'
  <2>1. ASSUME NEW q \in Sent(c) PROVE IF q.n = 0 THEN OtherForm(q) ELSE Class3Form(c, q)'
    <3>1. IF q.n = 0 THEN OtherForm(q) ELSE Class3Form(c, q)
      BY <1>12 DEF Formed
    <3> QED
      BY <1>9, <1>11, <1>13, <3>1 DEF Class3Form
  <2>2. m.n # 0 /\ Class3Form(c, m)'
    <3>1. m.ctx[1] = m.n /\ k.n <= k.n
      BY <1>3, <1>10
    <3> QED
      BY <1>3, <1>9, <1>10, <1>11, <1>13, <1>18, <3>1 DEF Class3Form
  <2> QED
    BY <1>16, <2>1, <2>2 DEF Formed
<1>20. Numbering(c)'
  <2>1. \A q \in Sent(c) : /\ q.n = k.n => q.id = k.id /\ q.seq = k.seq
                           /\ q.id = k.id /\ LastDone(c) < q.n => q.n = k.n
    BY <1>2, <1>7, <1>12 DEF Numbering
  <2>2. \A q \in Sent(c)' : q.n # 0 => LastDone(c) <= q.n
    BY <1>10, <1>12, <1>13, <1>16 DEF Numbering
  <2>3. \A q, u \in Sent(c)' : q.n = u.n /\ q.n # 0 => q.id = u.id /\ q.seq = u.seq
    BY <1>10, <1>12, <1>16, <2>1 DEF Numbering
  <2>4. \A q, u \in Sent(c)' : q.id = u.id /\ LastDone(c) < q.n /\ LastDone(c) < u.n => q.n = u.n
    BY <1>10, <1>12, <1>16, <2>1 DEF Numbering
  <2>5. \A q \in Sent(c)' : /\ q.n = k.n => q.id = k.id /\ q.seq = k.seq
                            /\ q.id = k.id /\ LastDone(c) < q.n => q.n = k.n
    BY <1>10, <1>16, <2>1
  <2> QED
    BY <1>9, <1>11, <1>13, <1>16, <1>17, <2>2, <2>3, <2>4, <2>5 DEF Numbering
<1>21. Tracking(c)'
  <2>1. \A s \in Slots : pool[s].id = k.id => pool[s].prod = c /\ Tracks(c, pool[s], k.n, k.seq)
    BY <1>2, <1>7, <1>12 DEF Tracking
  <2>2. \A s \in Slots : \A q \in Sent(c)' :
           q.n # 0 /\ pool[s].id = q.id => pool[s].prod = c /\ Tracks(c, pool[s], q.n, q.seq)
    BY <1>10, <1>12, <1>16, <2>1 DEF Tracking
  <2> QED
    BY <1>9, <1>11, <1>17, <1>18, <2>1, <2>2 DEF Tracking, Tracks
<1>22. Grants(c)'
  <2>1. \A r \in Due(c) : IsGrant(r) => r.result # k.id
    BY <1>2, <1>12 DEF Grants
  <2>2. \A r \in Due(c)' : IsGrant(r) =>
           /\ r.result <= lastId /\ r.result # next.id
           /\ \A q \in Sent(c)' : q.n # 0 => q.id # r.result
           /\ \A s \in Slots : pool[s].id = r.result => pool[s].prod = c /\ pool[s].seq = 0
    BY <1>9, <1>10, <1>12, <1>16, <2>1 DEF Grants
  <2>3. \A i, j \in 1..Len(toClient[c]) :
          i # j /\ IsGrant(toClient[c][i]) /\ IsGrant(toClient[c][j])
             => toClient[c][i].result # toClient[c][j].result
    BY <1>12 DEF Grants
  <2> QED
    BY <1>11, <2>2, <2>3 DEF Grants
<1>23. Answered(c)'
  BY <1>12, <1>16, <1>17 DEF Answered, AnswerTrue
<1>24. Contexts(c)'
  <2>1. m.ctx[1] <= k.n /\ m.ctx[2] <= t
    BY <1>3, <1>8, <1>10
  <2>2. \A x \in Sent(c) \cup Due(c) : x.ctx[2] \in Nat
    BY <1>1, StreamTypes
  <2>3. \A x \in Sent(c) \cup Due(c) : x.ctx[1] <= k.n /\ (x.ctx[1] = k.n => x.ctx[2] <= t)
    BY <1>3, <1>8, <1>14, <2>2
  <2>4. \A x \in Sent(c)' \cup Due(c)' : ContextUsed(c, x.ctx)'
    BY <1>9, <1>11, <1>16, <2>1, <2>3 DEF ContextUsed
  <2> QED
    BY <1>11, <1>12, <1>16, <2>4 DEF Contexts
<1>25. ClientInv(c)'
  BY <1>19, <1>20, <1>21, <1>22, <1>23, <1>24 DEF ClientInv
<1> QED
  BY <1>7, <1>9, <1>10, <1>25, SendsStep

(* The messages that open a session or a connection, and the others.       *)
LEMMA OtherMessageSent ==
    ASSUME IInv, NEW c \in Clients,
           ClientConnects(c) \/ ClientOpens(c) \/ \E m \in OtherMessages : ClientSendsOther(c, m)
    PROVE  IInv'
<1>1. Types /\ ClientInv(c) /\ client \in [Clients -> ClientStates] /\ client[c] \in ClientStates
  BY DEF IInv, Types
<1>2. ASSUME NEW m \in Requests, m.n = 0, OtherForm(m), NEW next \in ClientStates,
             Sends(c, m, next), next.id = client[c].id, next.n = client[c].n,
             next.state \notin {"ready", "waiting"}
      PROVE  IInv'
  <2>1. /\ toDevice'[c] = Append(toDevice[c], m) /\ client'[c] = next
        /\ UNCHANGED <<registered, pool, lastId, executed, toClient, lost>>
    BY <1>1, <1>2 DEF Sends, Put, Types
  <2>2. ClientInv(c)'
    BY <1>1, <1>2, <2>1, OtherSent
  <2> QED
    BY <1>2, <2>2, SendsStep
<1> DEFINE types == {"Null", "Connection", "Unconnected", "Connected", "none"} \cup SockaddrItems
<1>3. <<0, 0>> \in Nat \X Nat /\ <<0, 1>> \in Nat \X Nat /\ 0 \in Counts /\ <<>> \in Seq(types)
  BY EmptySeq, ExplicitAssumption DEF Counts
<1>4. CASE ClientConnects(c)
  <2>1. PICK m : m = Message(c, "RegisterSession", <<0, 0>>, <<>>, 0, 0, "none", 0)
    OBVIOUS
  <2>2. PICK next : next = [client[c] EXCEPT !.state = "registering"]
    OBVIOUS
  <2>3. Sends(c, m, next)
    BY <1>4, <2>1, <2>2 DEF ClientConnects
  <2>4. /\ next \in ClientStates /\ next.id = client[c].id /\ next.n = client[c].n
        /\ next.state = "registering"
    BY <1>1, <2>2 DEF ClientStates
  <2>5. Len(<<>>) = 0
    BY EmptySeq
  <2>6. m \in Requests /\ m.n = 0 /\ m.ctx = <<0, 0>> /\ m.command = "RegisterSession"
    BY <1>3, <2>1, <2>5 DEF Message, Requests
  <2>7. OtherForm(m)
    BY <2>6 DEF OtherForm
  <2> QED
    BY <1>2, <2>3, <2>4, <2>6, <2>7
<1>5. CASE ClientOpens(c)
  <2>1. PICK items : items = <<"Null", "Unconnected">>
    OBVIOUS
  <2>2. PICK m : m = Message(c, "SendRRData", <<0, 1>>, items, 0, 0, "Open", 0)
    OBVIOUS
  <2>3. PICK next : next = [client[c] EXCEPT !.state = "opening"]
    OBVIOUS
  <2>4. Sends(c, m, next)
    BY <1>5, <2>1, <2>2, <2>3 DEF ClientOpens
  <2>5. /\ next \in ClientStates /\ next.id = client[c].id /\ next.n = client[c].n
        /\ next.state = "opening"
    BY <1>1, <2>3 DEF ClientStates
  <2>6. Len(items) = 2
    BY <2>1
  <2>7. items \in Seq(types)
    <3>1. "Null" \in types /\ "Unconnected" \in types
      OBVIOUS
    <3> HIDE DEF types
    <3> QED
      BY <2>1, <3>1
  <2>8. /\ m \in Requests /\ m.n = 0 /\ m.ctx = <<0, 1>> /\ m.command = "SendRRData"
        /\ m.service = "Open" /\ m.items = items /\ m.count = 2
    BY <1>3, <2>2, <2>6, <2>7 DEF Message, Requests
  <2>9. OtherForm(m)
    <3>1. Len(m.items) = 2 /\ 3..2 = {} /\ m.ctx[1] = 0
      BY <2>6, <2>8
    <3>2. SockaddrItemsOnly(m)
      BY <2>8, <3>1 DEF SockaddrItemsOnly
    <3> QED
      BY <2>8, <3>1, <3>2 DEF OtherForm
  <2> QED
    BY <1>2, <2>4, <2>5, <2>8, <2>9
<1>6. ASSUME NEW m \in OtherMessages, ClientSendsOther(c, m) PROVE IInv'
  <2>1. PICK x : x = [m EXCEPT !.session = c]
    OBVIOUS
  <2>2. Sends(c, x, client[c]) /\ client[c].state \in {"idle", "off"}
    BY <1>6, <2>1 DEF ClientSendsOther
  <2>3. m \in Requests
    BY OtherAssumption
  <2>4. /\ x \in Requests /\ x.n = m.n /\ x.ctx = m.ctx /\ x.command = m.command
        /\ x.service = m.service /\ x.items = m.items /\ x.count = m.count
    BY <2>1, <2>3 DEF Requests
  <2>5. x.n = 0 /\ OtherForm(x)
    <3>1. SockaddrItemsOnly(x) <=> SockaddrItemsOnly(m)
      BY <2>4 DEF SockaddrItemsOnly
    <3>2. SockaddrItemsOnly(x) \/ OddContext(x.ctx)
      BY <2>4, <3>1 DEF OddContext
    <3> QED
      BY <2>4, <3>2, OtherAssumption DEF OtherForm
  <2> QED
    BY <1>1, <1>2, <2>2, <2>4, <2>5
<1> QED
  BY <1>4, <1>5, <1>6

-----------------------------------------------------------------------------
(* The streams of c when it has taken reply r, or when r was lost.         *)
LEMMA StreamsAfterReply ==
    ASSUME Types, NEW c \in Clients, ClientInv(c), toClient[c] # <<>>,
           NEW r, r = Head(toClient[c]), toClient'[c] = Tail(toClient[c]),
           toDevice'[c] = toDevice[c]
    PROVE  /\ r \in Due(c) /\ Due(c)' \in SUBSET Due(c) /\ Sent(c)' = Sent(c)
           /\ toClient'[c] \in Seq(ReplyMessages)
           /\ \A i, j \in 1..Len(toClient'[c]) :
                 i # j /\ IsGrant(toClient'[c][i]) /\ IsGrant(toClient'[c][j])
                    => toClient'[c][i].result # toClient'[c][j].result
           /\ \A d \in Due(c)' : IsGrant(r) /\ IsGrant(d) => d.result # r.result
           /\ \A i, j \in 1..Len(toClient'[c]) :
                 i # j /\ toClient'[c][i].ctx[1] # 0 => toClient'[c][i].ctx # toClient'[c][j].ctx
<1>1. toClient[c] \in Seq(ReplyMessages)
  BY DEF Types
<1>2. /\ Tail(toClient[c]) \in Seq(ReplyMessages)
      /\ Len(toClient[c]) \in Nat /\ Len(toClient'[c]) = Len(toClient[c]) - 1
      /\ 1 \in 1..Len(toClient[c]) /\ r = toClient[c][1]
      /\ \A i \in 1..Len(toClient'[c]) : /\ i + 1 \in 1..Len(toClient[c]) /\ i + 1 # 1
                                         /\ toClient'[c][i] = toClient[c][i + 1]
      /\ Due(c)' \in SUBSET Due(c) /\ r \in Due(c)
  BY <1>1, TailOfStream DEF Due
<1>3. /\ \A a, b \in 1..Len(toClient[c]) :
            a # b /\ toClient[c][a].ctx[1] # 0 => toClient[c][a].ctx # toClient[c][b].ctx
      /\ \A a, b \in 1..Len(toClient[c]) :
            a # b /\ IsGrant(toClient[c][a]) /\ IsGrant(toClient[c][b])
               => toClient[c][a].result # toClient[c][b].result
  BY DEF ClientInv, Contexts, Grants
<1>4. ASSUME NEW i \in 1..Len(toClient'[c]), NEW j \in 1..Len(toClient'[c]), i # j
      PROVE  /\ IsGrant(toClient'[c][i]) /\ IsGrant(toClient'[c][j])
                   => toClient'[c][i].result # toClient'[c][j].result
             /\ toClient'[c][i].ctx[1] # 0 => toClient'[c][i].ctx # toClient'[c][j].ctx
  <2>1. PICK a \in 1..Len(toClient[c]) : a = i + 1 /\ toClient'[c][i] = toClient[c][a]
    BY <1>2
  <2>2. PICK b \in 1..Len(toClient[c]) : b = j + 1 /\ toClient'[c][j] = toClient[c][b]
    BY <1>2
  <2>3. a # b
    BY <1>2, <1>4, <2>1, <2>2
  <2> QED
    BY <1>3, <2>1, <2>2, <2>3
<1>5. ASSUME NEW d \in Due(c)', IsGrant(r), IsGrant(d) PROVE d.result # r.result
  <2>1. PICK i \in 1..Len(toClient'[c]) : d = toClient'[c][i]
    BY DEF Due
  <2>2. PICK a \in 1..Len(toClient[c]) : a # 1 /\ d = toClient[c][a]
    BY <1>2, <2>1
  <2> QED
    BY <1>2, <1>3, <1>5, <2>2
<1> QED
  BY <1>2, <1>4, <1>5 DEF Sent

(* The invariant after a step that takes a reply or that changes only the  *)
(* state of client c.                                                      *)
LEMMA ReplyTakenStep ==
    ASSUME IInv, NEW c \in Clients, NEW next \in ClientStates,
           client' = [client EXCEPT ![c] = next],
           \/ toClient' = toClient
           \/ toClient[c] # <<>> /\ toClient' = [toClient EXCEPT ![c] = Tail(@)],
           UNCHANGED <<registered, pool, lastId, executed, toDevice>>,
           lost' \in 0..MaxLost, ClientInv(c)'
    PROVE  IInv'
<1>1. Types /\ PoolInv /\ AllFit /\ lastId \in Nat
  BY DEF IInv, Types
<1>2. toClient \in [Clients -> Seq(ReplyMessages)] /\ client \in [Clients -> ClientStates]
  BY <1>1 DEF Types
<1>3. toClient[c] # <<>> => /\ Tail(toClient[c]) \in Seq(ReplyMessages)
                            /\ {Tail(toClient[c])[i] : i \in 1..Len(Tail(toClient[c]))} \in SUBSET Due(c)
  BY <1>2, TailOfStream DEF Due
<1>4. /\ toClient' \in [Clients -> Seq(ReplyMessages)]
      /\ \A d \in Clients \ {c} : toClient'[d] = toClient[d]
  BY <1>2, <1>3
<1>5. client' \in [Clients -> ClientStates] /\ \A d \in Clients \ {c} : client'[d] = client[d]
  BY <1>2
<1>6. \A d : PoolKept(d, 0)
  BY DEF PoolKept
<1>7. StepTypes
  BY <1>1 DEF StepTypes, Types, PoolInv, AllFit
<1>8. \A d \in Clients : Due(d)' \in SUBSET Due(d)
  <2> SUFFICES ASSUME NEW d \in Clients PROVE Due(d)' \in SUBSET Due(d)
    OBVIOUS
  <2>1. CASE toClient'[d] = toClient[d]
    BY <2>1 DEF Due
  <2>2. CASE d = c /\ toClient[c] # <<>> /\ toClient'[c] = Tail(toClient[c])
    BY <1>3, <2>2 DEF Due
  <2> QED
    BY <1>2, <1>4, <2>1, <2>2
<1>9. \A d \in Clients : \A x \in Due(d)' : Fits(x)
  BY <1>1, <1>8 DEF AllFit
<1>10. toDevice' \in [Clients -> Seq(Requests)]
  BY <1>1 DEF Types
<1> QED
  BY <1>4, <1>5, <1>6, <1>7, <1>9, <1>10, StepOfClient

(* What c has to know of its connection when it changes its state.         *)
Follows(c, next) ==
    /\ next.n = client[c].n /\ next.id <= lastId
    /\ next.state = "waiting" => next = client[c]
    /\ next.state = "ready" =>
          /\ next.id # 0
          /\ \A m \in Sent(c) : m.id = next.id => ~(LastDone(c) < m.n)
          /\ \A s \in Slots : pool[s].id = next.id => pool[s].prod = c /\ pool[s].seq # next.seq
    /\ \A r \in Due(c)' : IsGrant(r) => r.result # next.id

(* A change of the state of c that follows from what it has received.      *)
LEMMA StateChanged ==
    ASSUME Types, NEW c \in Clients, ClientInv(c), NEW next, client'[c] = next,
           UNCHANGED <<pool, lastId, executed>>, toDevice'[c] = toDevice[c],
           Due(c)' \in SUBSET Due(c), Sent(c)' = Sent(c),
           \A i, j \in 1..Len(toClient'[c]) :
              i # j /\ IsGrant(toClient'[c][i]) /\ IsGrant(toClient'[c][j])
                 => toClient'[c][i].result # toClient'[c][j].result,
           \A i, j \in 1..Len(toClient'[c]) :
              i # j /\ toClient'[c][i].ctx[1] # 0 => toClient'[c][i].ctx # toClient'[c][j].ctx,
           Follows(c, next)
    PROVE  ClientInv(c)'
<1>1. Formed(c) /\ Numbering(c) /\ Tracking(c) /\ Grants(c) /\ Answered(c) /\ Contexts(c)
  BY DEF ClientInv
<1>2. LastDone(c)' = LastDone(c) /\ pool' = pool /\ lastId' = lastId
  BY DEF LastDone
<1>3. next.n = client[c].n /\ next.id <= lastId /\ (next.state = "waiting" => next = client[c])
  BY DEF Follows
<1>4. Formed(c)'
  BY <1>1, <1>2, <1>3 DEF Formed, Class3Form
<1>5. Numbering(c)'
  <2>1. next.state = "ready" => \A m \in Sent(c) : m.id = next.id => ~(LastDone(c) < m.n)
    BY DEF Follows
  <2> QED
    BY <1>1, <1>2, <1>3, <2>1 DEF Numbering
<1>6. Tracking(c)'
  <2>1. next.state = "ready" =>
          /\ next.id # 0
          /\ \A s \in Slots : pool[s].id = next.id => pool[s].prod = c /\ pool[s].seq # next.seq
    BY DEF Follows
  <2>2. next.state = "waiting" =>
          /\ next.id # 0
          /\ \A s \in Slots : pool[s].id = next.id =>
                pool[s].prod = c /\ Tracks(c, pool[s], next.n, next.seq)
    BY <1>1, <1>3 DEF Tracking
  <2>3. \A s \in Slots : \A m \in Sent(c) :
           m.n # 0 /\ pool[s].id = m.id => pool[s].prod = c /\ Tracks(c, pool[s], m.n, m.seq)
    BY <1>1 DEF Tracking
  <2> QED
    BY <1>2, <1>3, <2>1, <2>2, <2>3 DEF Tracking, Tracks
<1>7. Grants(c)'
  <2>1. \A r \in Due(c)' : IsGrant(r) =>
           /\ r.result <= lastId /\ r.result # next.id
           /\ \A m \in Sent(c) : m.n # 0 => m.id # r.result
           /\ \A s \in Slots : pool[s].id = r.result => pool[s].prod = c /\ pool[s].seq = 0
    BY <1>1 DEF Grants, Follows
  <2> QED
    BY <1>2, <2>1 DEF Grants
<1>8. Answered(c)'
  BY <1>1, <1>2 DEF Answered, AnswerTrue
<1>9. Contexts(c)'
  <2>1. \A x \in Sent(c)' \cup Due(c)' : ContextUsed(c, x.ctx)'
    BY <1>1, <1>3 DEF Contexts, ContextUsed
  <2>2. \A i, j \in 1..Len(toDevice'[c]) :
          i # j /\ toDevice'[c][i].ctx[1] # 0 => toDevice'[c][i].ctx # toDevice'[c][j].ctx
    BY <1>1 DEF Contexts
  <2>3. \A m \in Sent(c)', r \in Due(c)' : m.ctx[1] # 0 => m.ctx # r.ctx
    BY <1>1 DEF Contexts
  <2> QED
    BY <2>1, <2>2, <2>3 DEF Contexts
<1> QED
  BY <1>4, <1>5, <1>6, <1>7, <1>8, <1>9 DEF ClientInv

(* The state of a client that waits on follows.                            *)
LEMMA SameStateFollows ==
    ASSUME Types, NEW c \in Clients, ClientInv(c), Due(c)' \in SUBSET Due(c)
    PROVE  Follows(c, client[c])
BY DEF Follows, ClientInv, Numbering, Tracking, Grants

(* What a client makes of a reply follows: a grant is a new connection     *)
(* whose sequence count is zero, and the answer to its request means that  *)
(* the request was executed, so that the next sequence count is new.       *)
LEMMA AcceptsFollows ==
    ASSUME Types, NEW c \in Clients, ClientInv(c), NEW r \in Due(c), Due(c)' \in SUBSET Due(c),
           \A d \in Due(c)' : IsGrant(r) /\ IsGrant(d) => d.result # r.result,
           NEW next, next = Accepts(c, r)
    PROVE  /\ next \in ClientStates /\ Follows(c, next)
           /\ next.answer # client[c].answer =>
                 LastDone(c) = client[c].n /\ next.answer = client[c].n
<1>1. PICK k : k = client[c]
  OBVIOUS
<1>2. /\ k \in ClientStates /\ k.n \in Nat /\ k.id \in Nat /\ k.seq \in Counts
      /\ r \in ReplyMessages /\ r.result \in Nat /\ r.ctx \in Nat \X Nat
      /\ LastDone(c) \in Nat /\ lastId \in Nat
      /\ \A m \in Sent(c) : m.n \in Nat
  BY <1>1, StreamTypes DEF Types
<1>3. Formed(c) /\ Numbering(c) /\ Tracking(c) /\ Grants(c) /\ Answered(c)
  BY DEF ClientInv
<1>4. CASE next = k
  BY <1>1, <1>2, <1>4, SameStateFollows
<1>5. CASE k.state = "registering" /\ next = [k EXCEPT !.state = "idle"]
  <2>1. next \in ClientStates /\ next.state = "idle" /\ next.n = k.n /\ next.id = k.id
        /\ next.answer = k.answer
    BY <1>2, <1>5 DEF ClientStates
  <2>2. \A d \in Due(c)' : IsGrant(d) => d.result # k.id
    BY <1>1, <1>3 DEF Grants
  <2> QED
    BY <1>1, <1>3, <2>1, <2>2 DEF Follows, Tracking
<1>6. CASE /\ k.state = "opening" /\ r.ctx = <<0, 1>> /\ r.result # 0
           /\ next = [k EXCEPT !.state = "ready", !.id = r.result, !.seq = FirstSeq]
  <2>1. IsGrant(r)
    BY <1>6 DEF IsGrant
  <2>2. FirstSeq \in Counts /\ FirstSeq # 0
    BY ExplicitAssumption DEF Counts
  <2>3. /\ next \in ClientStates /\ next.state = "ready" /\ next.n = k.n /\ next.id = r.result
        /\ next.seq = FirstSeq /\ next.answer = k.answer
    BY <1>2, <1>6, <2>2 DEF ClientStates
  <2>4. /\ r.result <= lastId
        /\ \A m \in Sent(c) : m.n # 0 => m.id # r.result
        /\ \A s \in Slots : pool[s].id = r.result => pool[s].prod = c /\ pool[s].seq = 0
    BY <1>3, <2>1 DEF Grants
  <2>5. \A m \in Sent(c) : m.id = r.result => ~(LastDone(c) < m.n)
    BY <1>2, <2>4
  <2> QED
    BY <1>1, <1>6, <2>1, <2>2, <2>3, <2>4, <2>5 DEF Follows
<1>7. CASE /\ k.state = "waiting" /\ r.command = "SendUnitData"
           /\ r.ctx[1] = k.n /\ r.id = c /\ r.seq = k.seq
           /\ next = [k EXCEPT !.state = "ready", !.seq = (@ + 1) % SeqModulus, !.tries = 0,
                               !.service = "Read", !.answer = r.result]
  <2>1. k.n # 0 /\ LastDone(c) <= k.n
    BY <1>1, <1>3, <1>7 DEF Numbering
  <2>2. r.result = k.n /\ k.n <= LastDone(c)
    BY <1>3, <1>7, <2>1 DEF Answered, AnswerTrue
  <2>3. LastDone(c) = k.n
    BY <1>2, <2>1, <2>2
  <2>4. PICK seq \in Counts : seq = (k.seq + 1) % SeqModulus /\ seq # k.seq
    <3>1. (k.seq + 1) % SeqModulus \in Counts /\ (k.seq + 1) % SeqModulus # k.seq
      BY <1>2, ExplicitAssumption DEF Counts
    <3> QED
      BY <3>1
  <2>5. /\ next \in ClientStates /\ next.state = "ready" /\ next.n = k.n /\ next.id = k.id
        /\ next.seq = seq /\ next.answer = r.result
    <3>1. next = [k EXCEPT !.state = "ready", !.seq = seq, !.tries = 0, !.service = "Read",
                           !.answer = r.result]
      BY <1>7, <2>4
    <3>2. PICK answer \in Nat : answer = r.result
      BY <1>2
    <3>3. k \in ClientStates /\ 0 \in Nat
      BY <1>2
    <3>4. next = [k EXCEPT !.state = "ready", !.seq = seq, !.tries = 0, !.service = "Read",
                           !.answer = answer]
      BY <3>1, <3>2
    <3>5. next \in ClientStates
      BY <3>3, <3>4 DEF ClientStates
    <3>6. /\ next.state = "ready" /\ next.n = k.n /\ next.id = k.id
          /\ next.seq = seq /\ next.answer = answer
      BY <3>3, <3>4 DEF ClientStates
    <3> QED
      BY <3>2, <3>5, <3>6
  <2>6. \A m \in Sent(c) : ~(LastDone(c) < m.n)
    <3>1. \A m \in Sent(c) : m.n # 0 => m.n <= k.n
      BY <1>1, <1>3 DEF Formed, Class3Form
    <3> QED
      BY <1>2, <2>3, <3>1
  <2>7. \A s \in Slots : pool[s].id = k.id => pool[s].prod = c /\ pool[s].seq = k.seq
    <3>1. ~(LastDone(c) < k.n)
      BY <1>2, <2>3
    <3> QED
      BY <1>1, <1>3, <1>7, <3>1 DEF Tracking, Tracks
  <2>8. k.id # 0 /\ k.id <= lastId /\ \A d \in Due(c)' : IsGrant(d) => d.result # k.id
    BY <1>1, <1>3, <1>7 DEF Tracking, Grants
  <2> QED
    BY <1>1, <2>2, <2>3, <2>4, <2>5, <2>6, <2>7, <2>8 DEF Follows
<1> QED
  BY <1>1, <1>4, <1>5, <1>6, <1>7 DEF Accepts

(* A client gives up, receives a reply, or a reply to it is lost.          *)
LEMMA ReplySteps ==
    ASSUME IInv, NEW c \in Clients, ClientGivesUp(c) \/ ClientReceives(c) \/ AnswerLost(c)
    PROVE  IInv'
<1>1. /\ Types /\ ClientInv(c) /\ client \in [Clients -> ClientStates] /\ client[c] \in ClientStates
      /\ toClient \in [Clients -> Seq(ReplyMessages)] /\ lost \in 0..MaxLost /\ lastId \in Nat
  BY DEF IInv, Types
<1>2. CASE ClientGivesUp(c)
  <2>1. PICK next : next = Resting(client[c], "idle")
    OBVIOUS
  <2>2. /\ client' = [client EXCEPT ![c] = next]
        /\ UNCHANGED <<registered, pool, lastId, executed, toDevice, toClient, lost>>
    BY <1>2, <2>1 DEF ClientGivesUp
  <2>3. next \in ClientStates /\ next.state = "idle" /\ next.id = 0 /\ next.n = client[c].n
    BY <1>1, <2>1, RestingType
  <2>4. Due(c)' = Due(c) /\ Sent(c)' = Sent(c) /\ client'[c] = next /\ 0 <= lastId
    BY <1>1, <2>2 DEF Due, Sent
  <2>5. Follows(c, next)
    BY <2>3, <2>4 DEF Follows, IsGrant
  <2>6. ClientInv(c)'
    <3>1. Grants(c) /\ Contexts(c)
      BY <1>1 DEF ClientInv
    <3>2. /\ \A i, j \in 1..Len(toClient'[c]) :
              i # j /\ IsGrant(toClient'[c][i]) /\ IsGrant(toClient'[c][j])
                 => toClient'[c][i].result # toClient'[c][j].result
          /\ \A i, j \in 1..Len(toClient'[c]) :
              i # j /\ toClient'[c][i].ctx[1] # 0 => toClient'[c][i].ctx # toClient'[c][j].ctx
      BY <2>2, <3>1 DEF Grants, Contexts
    <3> QED
      BY <1>1, <2>2, <2>4, <2>5, <3>2, StateChanged
  <2> QED
    BY <1>1, <2>2, <2>3, <2>6, ReplyTakenStep
<1>3. ASSUME toClient[c] # <<>>, toClient' = [toClient EXCEPT ![c] = Tail(@)],
             UNCHANGED <<registered, pool, lastId, executed, toDevice>>, lost' \in 0..MaxLost,
             NEW next \in ClientStates, client' = [client EXCEPT ![c] = next],
             Due(c)' \in SUBSET Due(c) => Follows(c, next)
      PROVE  IInv'
  <2>1. PICK r : r = Head(toClient[c])
    OBVIOUS
  <2>2. toClient'[c] = Tail(toClient[c]) /\ toDevice'[c] = toDevice[c] /\ client'[c] = next
    BY <1>1, <1>3
  <2>3. /\ Due(c)' \in SUBSET Due(c) /\ Sent(c)' = Sent(c)
        /\ \A i, j \in 1..Len(toClient'[c]) :
              i # j /\ IsGrant(toClient'[c][i]) /\ IsGrant(toClient'[c][j])
                 => toClient'[c][i].result # toClient'[c][j].result
        /\ \A i, j \in 1..Len(toClient'[c]) :
              i # j /\ toClient'[c][i].ctx[1] # 0 => toClient'[c][i].ctx # toClient'[c][j].ctx
    BY <1>1, <1>3, <2>1, <2>2, StreamsAfterReply
  <2>4. ClientInv(c)'
    BY <1>1, <1>3, <2>2, <2>3, StateChanged
  <2> QED
    BY <1>3, <2>4, ReplyTakenStep
<1>4. CASE ClientReceives(c)
  <2>1. PICK r : r = Head(toClient[c])
    OBVIOUS
  <2>2. PICK next : next = Accepts(c, r)
    OBVIOUS
  <2>3. /\ toClient[c] # <<>> /\ toClient' = [toClient EXCEPT ![c] = Tail(@)]
        /\ UNCHANGED <<registered, pool, lastId, executed, toDevice>> /\ lost' = lost
        /\ client' = [client EXCEPT ![c] = next]
    BY <1>4, <2>1, <2>2 DEF ClientReceives
  <2>4. toClient'[c] = Tail(toClient[c]) /\ toDevice'[c] = toDevice[c]
    BY <1>1, <2>3
  <2>5. /\ r \in Due(c) /\ Due(c)' \in SUBSET Due(c)
        /\ \A d \in Due(c)' : IsGrant(r) /\ IsGrant(d) => d.result # r.result
    BY <1>1, <2>1, <2>3, <2>4, StreamsAfterReply
  <2>6. next \in ClientStates /\ Follows(c, next)
    BY <1>1, <2>2, <2>5, AcceptsFollows
  <2> QED
    BY <1>1, <1>3, <2>3, <2>6
<1>5. CASE AnswerLost(c)
  <2>1. PICK next : next = client[c]
    OBVIOUS
  <2>2. /\ toClient[c] # <<>> /\ toClient' = [toClient EXCEPT ![c] = Tail(@)]
        /\ UNCHANGED <<registered, pool, lastId, executed, toDevice>>
        /\ lost < MaxLost /\ lost' = lost + 1 /\ client' = client
    BY <1>5 DEF AnswerLost
  <2>3. lost' \in 0..MaxLost
    BY <1>1, <2>2, ExplicitAssumption
  <2>4. client' = [client EXCEPT ![c] = next] /\ next \in ClientStates
    BY <1>1, <2>1, <2>2
  <2>5. Due(c)' \in SUBSET Due(c) => Follows(c, next)
    BY <1>1, <2>1, SameStateFollows
  <2> QED
    BY <1>3, <2>2, <2>3, <2>4, <2>5
<1> QED
  BY <1>2, <1>4, <1>5

-----------------------------------------------------------------------------
(* EncapsulationInit and InitializeClass3ConnectionData establish the      *)
(* invariant.                                                              *)
LEMMA InitEstablishes == Init => IInv
<1> SUFFICES ASSUME Init PROVE IInv
  OBVIOUS
<1>1. 0 \in Counts /\ FirstSeq \in Counts /\ <<>> \in Seq(Requests) /\ <<>> \in Seq(ReplyMessages)
      /\ <<>> \in Seq(1..MaxRequests)
  BY EmptySeq, ExplicitAssumption DEF Counts
<1>2. EmptyEntry \in Entries /\ Emptied(EmptyEntry) /\ EmptyEntry.last = NoReply
  BY <1>1 DEF EmptyEntry, Entries, Emptied
<1>3. Types
  <2>1. client \in [Clients -> ClientStates]
    BY <1>1, ExplicitAssumption DEF Init, ClientStates
  <2>2. lost \in 0..MaxLost
    BY ExplicitAssumption DEF Init
  <2> QED
    BY <1>1, <1>2, <2>1, <2>2 DEF Init, Types
<1>4. \A s \in Slots : pool[s] = EmptyEntry
  BY DEF Init
<1>5. PoolInv
  BY <1>2, <1>4 DEF PoolInv, Emptied, Init
<1>6. 1..0 = {} /\ Len(<<>>) = 0
  BY EmptySeq
<1>7. ASSUME NEW c \in Clients
      PROVE  /\ Sent(c) = {} /\ Due(c) = {} /\ toDevice[c] = <<>> /\ toClient[c] = <<>>
             /\ LastDone(c) = 0 /\ client[c].n = 0 /\ client[c].id = 0 /\ client[c].state = "off"
  BY <1>6 DEF Init, Sent, Due, LastDone
<1>8. AllFit
  BY <1>2, <1>4, <1>7 DEF AllFit
<1>9. ASSUME NEW c \in Clients PROVE ClientInv(c)
  <2>1. lastId = 0
    BY DEF Init
  <2>2. Formed(c) /\ Answered(c)
    BY <1>7 DEF Formed, Answered
  <2>3. Numbering(c)
    BY <1>6, <1>7 DEF Numbering
  <2>4. Tracking(c)
    BY <1>7, <2>1 DEF Tracking
  <2>5. Grants(c) /\ Contexts(c)
    BY <1>6, <1>7 DEF Grants, Contexts
  <2> QED
    BY <2>2, <2>3, <2>4, <2>5 DEF ClientInv
<1> QED
  BY <1>3, <1>5, <1>8, <1>9 DEF IInv

(* Every step of the device, of the clients and of the network keeps it.   *)
LEMMA NextPreserves == IInv /\ [Next]_vars => IInv'
<1> SUFFICES ASSUME IInv, [Next]_vars PROVE IInv'
  OBVIOUS
<1>1. ASSUME NEW c \in Clients, HandleReceivedExplictTcpData(c) PROVE IInv'
  <2>1. PICK m : m = Head(toDevice[c])
    OBVIOUS
  <2>2. /\ toDevice[c] # <<>>
        /\ \/ HandleStateless(c, m)
           \/ HandleRegisterSession(c, m)
           \/ HandleUnregisterSession(c, m)
           \/ UnregisterRefused(c, m)
           \/ NotifyCommonPacketFormat(c, m)
           \/ ConnectedRefused(c, m)
           \/ RepeatedRequest(c, m)
           \/ NewRequest(c, m)
    BY <1>1, <2>1 DEF HandleReceivedExplictTcpData
  <2> QED
    BY <2>1, <2>2, StatelessStep, EndSteps, UnconnectedStep, RepeatedStep, NewRequestStep
<1>2. CASE UNCHANGED vars
  <2>1. /\ registered' = registered /\ pool' = pool /\ lastId' = lastId /\ executed' = executed
        /\ toDevice' = toDevice /\ toClient' = toClient /\ client' = client /\ lost' = lost
    BY <1>2 DEF vars
  <2>2. Types' /\ PoolInv'
    BY <2>1 DEF IInv, Types, PoolInv
  <2>3. AllFit'
    BY <2>1 DEF IInv, AllFit, Due
  <2>4. ASSUME NEW d \in Clients PROVE ClientInv(d)'
    <3>1. Types /\ ClientInv(d) /\ lastId \in Nat /\ lastId <= lastId
      BY DEF IInv, Types
    <3>2. NotInvolved(d)
      BY <2>1, <3>1 DEF NotInvolved, PoolKept
    <3> QED
      BY <3>1, <3>2, OthersKept
  <2> QED
    BY <2>2, <2>3, <2>4 DEF IInv
<1> QED
  BY <1>1, <1>2, EndSteps, OtherMessageSent, RequestSent, RetrySent, ReplySteps DEF Next

(* The inductive invariant holds in every behaviour, whatever is fair.     *)
THEOREM Invariance == Spec => []IInv
<1>1. Init => IInv
  BY InitEstablishes
<1>2. IInv /\ [Next]_vars => IInv'
  BY NextPreserves
<1> QED
  BY <1>1, <1>2, PTL DEF Spec

(* Type correctness: a free entry of explicit_connection_object_pool has   *)
(* no owner and no sequence count, and no connection id is used twice.     *)
THEOREM TypeCorrect == Spec => []TypeOK
<1>1. IInv => TypeOK
  <2> SUFFICES ASSUME IInv PROVE TypeOK
    OBVIOUS
  <2>1. Types /\ PoolInv
    BY DEF IInv
  <2>2. ASSUME NEW s \in Slots
        PROVE  /\ pool[s].id \in 0..lastId
               /\ pool[s].seq \in Counts
               /\ pool[s].prod \in Clients \cup {NoClient}
               /\ pool[s].id = 0 <=> pool[s].prod = NoClient
               /\ pool[s].id = 0 => pool[s].seq = 0 /\ pool[s].sess = NoClient
    <3>1. pool[s] \in Entries /\ lastId \in Nat
      BY <2>1 DEF Types
    <3>2. pool[s].id \in Nat /\ pool[s].seq \in Counts /\ pool[s].prod \in Clients \cup {NoClient}
      BY <3>1 DEF Entries
    <3>3. /\ pool[s].id <= lastId
          /\ pool[s].id = 0 => pool[s].seq = 0 /\ pool[s].prod = NoClient /\ pool[s].sess = NoClient
          /\ pool[s].id # 0 => pool[s].prod \in Clients
      BY <2>1 DEF PoolInv
    <3>4. pool[s].id \in 0..lastId
      BY <3>1, <3>2, <3>3
    <3> QED
      BY <3>2, <3>3, <3>4, ExplicitAssumption
  <2>3. \A s, t \in Slots : pool[s].id = pool[t].id => s = t \/ pool[s].id = 0
    BY <2>1 DEF PoolInv
  <2>4. ASSUME NEW c \in Clients
        PROVE  /\ executed[c] \in Seq(1..MaxRequests)
               /\ client[c].seq \in Counts /\ client[c].n \in 0..MaxRequests
    <3>1. executed[c] \in Seq(1..MaxRequests) /\ client[c] \in ClientStates
      BY <2>1 DEF Types
    <3> QED
      BY <3>1 DEF ClientStates
  <2>5. registered \subseteq Clients /\ lastId \in Nat /\ lost \in 0..MaxLost
    BY <2>1 DEF Types
  <2> QED
    BY <2>2, <2>3, <2>4, <2>5 DEF TypeOK
<1> QED
  BY <1>1, Invariance, PTL

(* Every reply can be read, and no two replies on their way carry the      *)
(* sender context of the same class 3 request.                             *)
THEOREM RepliesReadable == Spec => []RepliesFit
<1>1. IInv => RepliesFit
  <2> SUFFICES ASSUME IInv, NEW c \in Clients,
                      NEW i \in DOMAIN toClient[c], NEW j \in DOMAIN toClient[c]
               PROVE  /\ Fits(toClient[c][i])
                      /\ i # j /\ toClient[c][i].ctx[1] # 0
                            => toClient[c][i].ctx # toClient[c][j].ctx
    BY DEF RepliesFit, Fits
  <2>1. toClient[c] \in Seq(ReplyMessages)
    BY DEF IInv, Types
  <2>2. i \in 1..Len(toClient[c]) /\ j \in 1..Len(toClient[c])
    BY <2>1, LenProperties
  <2>3. Fits(toClient[c][i])
    <3>1. toClient[c][i] \in Due(c)
      BY <2>2 DEF Due
    <3> QED
      BY <3>1 DEF IInv, AllFit
  <2>4. \A a, b \in 1..Len(toClient[c]) :
          a # b /\ toClient[c][a].ctx[1] # 0 => toClient[c][a].ctx # toClient[c][b].ctx
    BY DEF IInv, ClientInv, Contexts
  <2> QED
    BY <2>2, <2>3, <2>4
<1> QED
  BY <1>1, Invariance, PTL

-----------------------------------------------------------------------------
(* A step that executes nothing and that changes neither the number of a   *)
(* client's last request nor its last answer is no step of the promise.    *)
LEMMA NothingPromised ==
    ASSUME executed' = executed,
           \A d \in Clients : client'[d].n = client[d].n /\ client'[d].answer = client[d].answer
    PROVE  UNCHANGED Promise!vars
BY DEF Promise!vars

(* The same when only client c changes.                                    *)
LEMMA NothingPromisedTo ==
    ASSUME Types, NEW c \in Clients, NEW next, client' = [client EXCEPT ![c] = next],
           next.n = client[c].n, next.answer = client[c].answer, executed' = executed
    PROVE  UNCHANGED Promise!vars
<1>1. client \in [Clients -> ClientStates]
  BY DEF Types
<1>2. \A d \in Clients : client'[d].n = client[d].n /\ client'[d].answer = client[d].answer
  BY <1>1
<1> QED
  BY <1>2, NothingPromised

(* The end of a session and a client that gives up forget no number.       *)
LEMMA RestPromises ==
    ASSUME IInv, NEW c \in Clients, NEW state \in {"off", "idle"},
           client' = [client EXCEPT ![c] = Resting(@, state)], executed' = executed
    PROVE  UNCHANGED Promise!vars
<1>1. Types /\ client[c] \in ClientStates
  BY DEF IInv, Types
<1>2. PICK next : next = Resting(client[c], state)
  OBVIOUS
<1>3. next.n = client[c].n /\ next.answer = client[c].answer
  BY <1>1, <1>2, RestingType
<1>4. client' = [client EXCEPT ![c] = next]
  BY <1>2
<1> QED
  BY <1>1, <1>3, <1>4, NothingPromisedTo

(* Only a new request on a connection is executed, once.                   *)
LEMMA HandlerPromises ==
    ASSUME IInv, NEW c \in Clients, HandleReceivedExplictTcpData(c)
    PROVE  [Promise!Next]_(Promise!vars)
<1>1. PICK m : m = Head(toDevice[c])
  OBVIOUS
<1>2. /\ toDevice[c] # <<>>
      /\ \/ HandleStateless(c, m)
         \/ HandleRegisterSession(c, m)
         \/ HandleUnregisterSession(c, m)
         \/ UnregisterRefused(c, m)
         \/ NotifyCommonPacketFormat(c, m)
         \/ ConnectedRefused(c, m)
         \/ RepeatedRequest(c, m)
         \/ NewRequest(c, m)
  BY <1>1 DEF HandleReceivedExplictTcpData
<1>3. CASE executed' = executed /\ client' = client
  BY <1>3, NothingPromised
<1>4. CASE \/ HandleStateless(c, m)
           \/ HandleRegisterSession(c, m)
           \/ UnregisterRefused(c, m)
           \/ ConnectedRefused(c, m)
           \/ RepeatedRequest(c, m)
  <2>1. executed' = executed /\ client' = client
    BY <1>4 DEF HandleStateless, HandleRegisterSession, UnregisterRefused, ConnectedRefused,
                RepeatedRequest, TakesConnected, TakesItems, Takes, Answers
  <2> QED
    BY <1>3, <2>1
<1>5. CASE HandleUnregisterSession(c, m)
  <2>1. executed' = executed /\ client' = [client EXCEPT ![c] = Resting(@, "off")]
    BY <1>5 DEF HandleUnregisterSession, SessionEnds
  <2> QED
    BY <2>1, RestPromises
<1>6. CASE NotifyCommonPacketFormat(c, m)
  <2>1. client' = client /\ m.command = "SendRRData"
    BY <1>6 DEF NotifyCommonPacketFormat, TakesItems, Takes
  <2>2. IF m.n = 0 THEN OtherForm(m) ELSE Class3Form(c, m)
    BY <1>1, <1>2, TakenMessage
  <2>3. m.n = 0
    BY <2>1, <2>2 DEF Class3Form
  <2>4. executed' = executed
    BY <1>6, <2>3 DEF NotifyCommonPacketFormat, NotifyMessageRouter
  <2> QED
    BY <1>3, <2>1, <2>4
<1>7. CASE NewRequest(c, m)
  <2>1. PICK s \in Slots : TakesConnected(c, m, s) /\ pool[s].seq # m.seq /\ NotifyMessageRouter(m)
    BY <1>7 DEF NewRequest
  <2>2. /\ Takes(c) /\ m.n # 0 /\ Class3Form(c, m)
        /\ LastDone(c) \in Nat /\ m.n \in Nat /\ LastDone(c) < m.n
    BY <1>1, <1>2, <2>1, FoundConnection
  <2>3. client' = client /\ m.session = c /\ m.n <= client[c].n
    BY <2>2 DEF Takes, Class3Form
  <2>4. executed' = [executed EXCEPT ![c] = Append(@, m.n)]
    BY <2>1, <2>2, <2>3 DEF NotifyMessageRouter
  <2>5. client[c].n \in Nat
    <3>1. client[c] \in ClientStates
      BY DEF IInv, Types
    <3> QED
      BY <3>1 DEF ClientStates
  <2>6. m.n \in (LastDone(c) + 1)..client[c].n
    BY <2>2, <2>3, <2>5
  <2>7. m.n \in (Promise!LastExecuted(c) + 1)..[d \in Clients |-> client[d].n][c]
    BY <2>6 DEF LastDone, Promise!LastExecuted
  <2>8. Promise!Execute(c)
    BY <2>3, <2>4, <2>7 DEF Promise!Execute
  <2> QED
    BY <2>8 DEF Promise!Next
<1> QED
  BY <1>2, <1>4, <1>5, <1>6, <1>7

(* A client sends its next request, or something that is no new request.   *)
LEMMA ClientPromises ==
    ASSUME IInv, NEW c \in Clients,
           \/ ClientConnects(c) \/ ClientOpens(c) \/ ClientRetries(c)
           \/ \E service \in Services : ClientRequests(c, service)
           \/ \E m \in OtherMessages : ClientSendsOther(c, m)
    PROVE  [Promise!Next]_(Promise!vars)
<1>1. Types /\ client \in [Clients -> ClientStates]
  BY DEF IInv, Types
<1>2. PICK k \in ClientStates : k = client[c]
  BY <1>1
<1>3. ASSUME NEW next, client' = [client EXCEPT ![c] = next], executed' = executed,
             next.n = k.n, next.answer = k.answer
      PROVE  UNCHANGED Promise!vars
  BY <1>1, <1>2, <1>3, NothingPromisedTo
<1>4. CASE ClientConnects(c)
  <2>1. PICK next : next = [k EXCEPT !.state = "registering"]
    OBVIOUS
  <2>2. client' = [client EXCEPT ![c] = next] /\ executed' = executed
    BY <1>2, <1>4, <2>1 DEF ClientConnects, Sends
  <2>3. next.n = k.n /\ next.answer = k.answer
    BY <2>1 DEF ClientStates
  <2> QED
    BY <1>3, <2>2, <2>3
<1>5. CASE ClientOpens(c)
  <2>1. PICK next : next = [k EXCEPT !.state = "opening"]
    OBVIOUS
  <2>2. client' = [client EXCEPT ![c] = next] /\ executed' = executed
    BY <1>2, <1>5, <2>1 DEF ClientOpens, Sends
  <2>3. next.n = k.n /\ next.answer = k.answer
    BY <2>1 DEF ClientStates
  <2> QED
    BY <1>3, <2>2, <2>3
<1>6. CASE ClientRetries(c)
  <2>1. PICK next : next = [k EXCEPT !.tries = @ + 1]
    OBVIOUS
  <2>2. client' = [client EXCEPT ![c] = next] /\ executed' = executed
    BY <1>2, <1>6, <2>1 DEF ClientRetries, Sends
  <2>3. next.n = k.n /\ next.answer = k.answer
    BY <2>1 DEF ClientStates
  <2> QED
    BY <1>3, <2>2, <2>3
<1>7. ASSUME NEW service \in Services, ClientRequests(c, service)
      PROVE  [Promise!Next]_(Promise!vars)
  <2>1. PICK next : next = [k EXCEPT !.state = "waiting", !.n = @ + 1, !.tries = 0,
                                     !.service = service]
    OBVIOUS
  <2>2. client' = [client EXCEPT ![c] = next] /\ executed' = executed
    BY <1>2, <1>7, <2>1 DEF ClientRequests, Sends
  <2>3. next.n = k.n + 1 /\ next.answer = k.answer
    BY <2>1 DEF ClientStates
  <2>4. /\ client'[c] = next
        /\ \A d \in Clients \ {c} : client'[d] = client[d]
    BY <1>1, <2>2
  <2>5. [d \in Clients |-> client'[d].n]
          = [[d \in Clients |-> client[d].n] EXCEPT ![c] = @ + 1]
    BY <1>2, <2>3, <2>4
  <2>6. [d \in Clients |-> client'[d].answer] = [d \in Clients |-> client[d].answer]
    BY <1>2, <2>3, <2>4
  <2>7. Promise!Issue(c)
    BY <2>2, <2>5, <2>6 DEF Promise!Issue
  <2> QED
    BY <2>7 DEF Promise!Next
<1>8. ASSUME NEW m \in OtherMessages, ClientSendsOther(c, m) PROVE UNCHANGED Promise!vars
  <2>1. client' = [client EXCEPT ![c] = k] /\ executed' = executed
    BY <1>2, <1>8 DEF ClientSendsOther, Sends
  <2> QED
    BY <1>3, <2>1
<1> QED
  BY <1>4, <1>5, <1>6, <1>7, <1>8

(* A client that accepts an answer has its last request executed.          *)
LEMMA AnswerPromises ==
    ASSUME IInv, NEW c \in Clients, ClientReceives(c)
    PROVE  [Promise!Next]_(Promise!vars)
<1>1. /\ Types /\ ClientInv(c) /\ client \in [Clients -> ClientStates]
      /\ toClient \in [Clients -> Seq(ReplyMessages)]
  BY DEF IInv, Types
<1>2. PICK r : r = Head(toClient[c])
  OBVIOUS
<1>3. PICK next : next = Accepts(c, r)
  OBVIOUS
<1>4. /\ toClient[c] # <<>> /\ toClient' = [toClient EXCEPT ![c] = Tail(@)]
      /\ toDevice' = toDevice /\ executed' = executed
      /\ client' = [client EXCEPT ![c] = next]
  BY <1>2, <1>3 DEF ClientReceives
<1>5. toClient'[c] = Tail(toClient[c]) /\ toDevice'[c] = toDevice[c]
  BY <1>1, <1>4
<1>6. /\ r \in Due(c) /\ Due(c)' \in SUBSET Due(c)
      /\ \A d \in Due(c)' : IsGrant(r) /\ IsGrant(d) => d.result # r.result
  BY <1>1, <1>2, <1>4, <1>5, StreamsAfterReply
<1>7. next.answer # client[c].answer =>
         LastDone(c) = client[c].n /\ next.answer = client[c].n
  BY <1>1, <1>3, <1>6, AcceptsFollows
<1>8. next.n = client[c].n
  <2>1. PICK k \in ClientStates : k = client[c]
    BY <1>1
  <2>2. \/ next = [k EXCEPT !.state = "idle"]
        \/ next = [k EXCEPT !.state = "ready", !.id = r.result, !.seq = FirstSeq]
        \/ next = [k EXCEPT !.state = "ready", !.seq = (@ + 1) % SeqModulus, !.tries = 0,
                            !.service = "Read", !.answer = r.result]
        \/ next = k
    BY <1>3, <2>1 DEF Accepts
  <2> QED
    BY <2>1, <2>2 DEF ClientStates
<1>9. CASE next.answer = client[c].answer
  BY <1>1, <1>4, <1>8, <1>9, NothingPromisedTo
<1>10. CASE next.answer # client[c].answer
  <2>1. LastDone(c) = client[c].n /\ next.answer = client[c].n
    BY <1>7, <1>10
  <2>2. client'[c] = next /\ \A d \in Clients \ {c} : client'[d] = client[d]
    BY <1>1, <1>4
  <2>3. [d \in Clients |-> client'[d].n] = [d \in Clients |-> client[d].n]
    BY <1>8, <2>2
  <2>4. [d \in Clients |-> client'[d].answer]
          = [[d \in Clients |-> client[d].answer] EXCEPT ![c] = [d \in Clients |-> client[d].n][c]]
    BY <2>1, <2>2
  <2>5. Promise!LastExecuted(c) = [d \in Clients |-> client[d].n][c]
    BY <2>1 DEF LastDone, Promise!LastExecuted
  <2>6. Promise!Answer(c)
    BY <1>4, <2>3, <2>4, <2>5 DEF Promise!Answer
  <2> QED
    BY <2>6 DEF Promise!Next
<1> QED
  BY <1>9, <1>10

(* Explicit messaging implements RequestReply: a class 3 request takes     *)
(* effect at most once however often it is repeated, requests take effect  *)
(* in the order of their numbers, and the answer that a client accepts is  *)
(* the answer to its last request.                                         *)
THEOREM Refinement == Spec => AtMostOnce
<1>1. Init => Promise!Init
  BY DEF Init, Promise!Init
<1>2. IInv /\ [Next]_vars => [Promise!Next]_(Promise!vars)
  <2> SUFFICES ASSUME IInv, [Next]_vars PROVE [Promise!Next]_(Promise!vars)
    OBVIOUS
  <2>1. CASE UNCHANGED vars
    <3>1. executed' = executed /\ client' = client
      BY <2>1 DEF vars
    <3> QED
      BY <3>1, NothingPromised
  <2>2. ASSUME NEW c \in Clients, SocketEnds(c) PROVE UNCHANGED Promise!vars
    <3>1. executed' = executed /\ client' = [client EXCEPT ![c] = Resting(@, "off")]
      BY <2>2 DEF SocketEnds, SessionEnds
    <3> QED
      BY <3>1, RestPromises
  <2>3. ASSUME NEW c \in Clients, ClientGivesUp(c) PROVE UNCHANGED Promise!vars
    <3>1. executed' = executed /\ client' = [client EXCEPT ![c] = Resting(@, "idle")]
      BY <2>3 DEF ClientGivesUp
    <3> QED
      BY <3>1, RestPromises
  <2>4. ASSUME NEW c \in Clients, AnswerLost(c) PROVE UNCHANGED Promise!vars
    <3>1. executed' = executed /\ client' = client
      BY <2>4 DEF AnswerLost
    <3> QED
      BY <3>1, NothingPromised
  <2>5. ASSUME NEW s \in Slots, ConnectionTimesOut(s) PROVE UNCHANGED Promise!vars
    <3>1. PICK c : c = pool[s].sess
      OBVIOUS
    <3>2. c \in Clients
      BY <2>5, <3>1 DEF IInv, PoolInv, ConnectionTimesOut
    <3>3. /\ executed' = executed
          /\ client' = client \/ client' = [client EXCEPT ![c] = Resting(@, "off")]
      BY <2>5, <3>1 DEF ConnectionTimesOut, SessionEnds
    <3>4. CASE client' = client
      BY <3>3, <3>4, NothingPromised
    <3> QED
      BY <3>2, <3>3, <3>4, RestPromises
  <2>6. CASE Next
    BY <2>2, <2>3, <2>4, <2>5, <2>6, HandlerPromises, ClientPromises, AnswerPromises DEF Next
  <2> QED
    BY <2>1, <2>6
<1> QED
  BY <1>1, <1>2, Invariance, PTL DEF Spec, AtMostOnce, Promise!Spec
=============================================================================
