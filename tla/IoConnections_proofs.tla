------------------------ MODULE IoConnections_proofs ------------------------
(***************************************************************************)
(* The safety properties of IoConnections, for any number of sockets,      *)
(* originators and connections and any mix of connection types.            *)
(*                                                                         *)
(* A close is made of three steps of the code: the producing socket is     *)
(* passed on, the entries are emptied, the nodes are removed.  The lemmas  *)
(* say what each of them does to Consistent, which is the invariant as a   *)
(* property of a pair of pools and list: the pools and the list that       *)
(* GetIoConnectionForConnectionData leaves in the middle of a Forward Open *)
(* satisfy it too.                                                         *)
(***************************************************************************)
EXTENDS IoConnections, ConnectionList_proofs

(* The pools c and the list l have their types and hold the same entries,  *)
(* one of which at most is in charge of the multicast production.          *)
Consistent(c, l) ==
    /\ c \in [Slots -> IoConnection \cup {NoConn}]
    /\ l \in ListOf(Slots)
    /\ l.members = {s \in Slots : c[s] # NoConn}
    /\ \A s, t \in MulticastProducers(c, l) : s = t

(* The exclusive owners in S that asked for multicast produce it.          *)
OwnersProduce(c, S) ==
    \A s \in S \cap ExclusiveOwner :
        c[s].state = "Established" /\ c[s].ttoo = "multicast" => c[s].prod # NoFd

IInv ==
    /\ TypeOK
    /\ Consistent(conn, list)
    /\ OwnersProduce(conn, list.members)

-----------------------------------------------------------------------------
(* Pool entries are numbered from 1 and the owner's, input only and listen *)
(* only ones are different.                                                *)
LEMMA SlotsAreFinite ==
    /\ Slots \in SUBSET Nat
    /\ 0 \notin Slots
    /\ IsFiniteSet(Slots)
    /\ ExclusiveOwner = {1}
    /\ ExclusiveOwner \in SUBSET Slots /\ InputOnly \in SUBSET Slots /\ ListenOnly \in SUBSET Slots
    /\ NonListenOnly \cap ListenOnly = {}
    /\ ExclusiveOwner \cap InputOnly = {}
<1> USE IoAssumption
<1>1. /\ Slots \in SUBSET Nat
      /\ 0 \notin Slots
      /\ ExclusiveOwner = {1}
      /\ ExclusiveOwner \in SUBSET Slots /\ InputOnly \in SUBSET Slots /\ ListenOnly \in SUBSET Slots
      /\ NonListenOnly \cap ListenOnly = {}
      /\ ExclusiveOwner \cap InputOnly = {}
      /\ Slots \in SUBSET (1 .. 1 + NumInputOnly + NumListenOnly)
  BY DEF Slots, NonListenOnly, ExclusiveOwner, InputOnly, ListenOnly
<1>2. IsFiniteSet(1 .. 1 + NumInputOnly + NumListenOnly)
  BY FS_Interval
<1> QED
  BY <1>1, <1>2, FS_Subset

(* The fields of a pool entry in use.                                      *)
LEMMA EntryFields ==
    ASSUME NEW c \in IoConnection
    PROVE  /\ c = [state |-> c.state, orig |-> c.orig, ttoo |-> c.ttoo,
                   consumes |-> c.consumes, cons |-> c.cons, prod |-> c.prod]
           /\ c.prod \in Sockets /\ c.cons \in Sockets
           /\ c # NoConn
BY IoAssumption DEF IoConnection

(* CloseCommunicationChannelsAndRemoveFromActiveConnectionsList of any set *)
(* of entries keeps pools and list consistent.                             *)
LEMMA EmptiedConsistent ==
    ASSUME NEW c, NEW l, Consistent(c, l), NEW V
    PROVE  /\ Consistent(Emptied(c, V), RemoveAll(l, V))
           /\ RemoveAll(l, V).members = l.members \ V
           /\ \A s \in l.members \ V : Emptied(c, V)[s] = c[s]
           /\ OwnersProduce(c, l.members \ V)
                => OwnersProduce(Emptied(c, V), RemoveAll(l, V).members)
<1> DEFINE d == Emptied(c, V)
           m == RemoveAll(l, V)
<1>1. m \in ListOf(Slots) /\ m.members = l.members \ V
  BY RemoveAllIsList DEF Consistent
<1>2. /\ d \in [Slots -> IoConnection \cup {NoConn}]
      /\ \A s \in Slots : d[s] = IF s \in V THEN NoConn ELSE c[s]
  BY DEF Emptied, Consistent
<1>3. m.members = {s \in Slots : d[s] # NoConn}
  BY <1>1, <1>2 DEF Consistent
<1>4. \A s \in m.members : d[s] = c[s] /\ s \in l.members
  BY <1>1, <1>2 DEF Consistent
<1>5. MulticastProducers(d, m) \in SUBSET MulticastProducers(c, l)
  BY <1>4 DEF MulticastProducers
<1> QED
  BY <1>1, <1>2, <1>3, <1>4, <1>5 DEF Consistent, OwnersProduce

(* transfer_master_connection passes the socket of s to another            *)
(* established connection and leaves everything else alone.                *)
LEMMA TransferredEntries ==
    ASSUME IInv, NEW s \in list.members
    PROVE  /\ Transferred(s) \in [Slots -> IoConnection \cup {NoConn}]
           /\ \A t \in list.members :
                 /\ Transferred(s)[t] \in IoConnection
                 /\ Transferred(s)[t].state = conn[t].state
                 /\ Transferred(s)[t].ttoo = conn[t].ttoo
           /\ \A t \in Slots \ list.members : Transferred(s)[t] = NoConn
           /\ ~Transfers(s) => Transferred(s) = conn
           /\ Transfers(s) =>
                \E n \in NonControlMasters \ {s} :
                   /\ Transferred(s)[n].prod = conn[s].prod
                   /\ Transferred(s)[s].prod = NoFd
                   /\ \A t \in Slots \ {n, s} : Transferred(s)[t] = conn[t]
<1>1. /\ conn \in [Slots -> IoConnection \cup {NoConn}]
      /\ list \in ListOf(Slots)
      /\ list.members = {t \in Slots : conn[t] # NoConn}
  BY DEF IInv, Consistent
<1>2. CASE ~Transfers(s)
  BY <1>1, <1>2 DEF Transferred
<1>3. CASE Transfers(s)
  <2> DEFINE n == FirstIn(list, NonControlMasters, 0)
  <2>1. list.members \cap NonControlMasters # {}
    BY <1>3 DEF Transfers, NonControlMasters
  <2>2. n \in NonControlMasters /\ n \in list.members
    BY <1>1, <2>1, FirstInIsFirst, SlotsAreFinite
  <2>3. conn[n].prod = NoFd /\ conn[s].prod # NoFd
    BY <1>3, <2>2 DEF Transfers, IsMaster, NonControlMasters
  <2> HIDE DEF n
  <2>4. n # s
    BY <2>3
  <2>5. conn[n] \in IoConnection /\ conn[s] \in IoConnection /\ n \in Slots /\ s \in Slots
    BY <1>1, <2>2
  <2>6. Transferred(s) = [conn EXCEPT ![n].prod = conn[s].prod, ![s].prod = NoFd]
    BY <1>3 DEF Transferred, n
  <2>7. Transferred(s) = [t \in Slots |->
            IF t = s THEN [conn[s] EXCEPT !.prod = NoFd]
            ELSE IF t = n THEN [conn[n] EXCEPT !.prod = conn[s].prod]
            ELSE conn[t]]
    BY <1>1, <2>4, <2>5, <2>6
  <2>8. /\ [conn[s] EXCEPT !.prod = NoFd] \in IoConnection
        /\ [conn[s] EXCEPT !.prod = NoFd].prod = NoFd
        /\ [conn[s] EXCEPT !.prod = NoFd].state = conn[s].state
        /\ [conn[s] EXCEPT !.prod = NoFd].ttoo = conn[s].ttoo
    BY <2>5 DEF IoConnection, Sockets
  <2>9. /\ [conn[n] EXCEPT !.prod = conn[s].prod] \in IoConnection
        /\ [conn[n] EXCEPT !.prod = conn[s].prod].prod = conn[s].prod
        /\ [conn[n] EXCEPT !.prod = conn[s].prod].state = conn[n].state
        /\ [conn[n] EXCEPT !.prod = conn[s].prod].ttoo = conn[n].ttoo
    BY <2>5 DEF IoConnection, Sockets
  <2>10. /\ Transferred(s)[s] = [conn[s] EXCEPT !.prod = NoFd]
         /\ Transferred(s)[n] = [conn[n] EXCEPT !.prod = conn[s].prod]
         /\ \A t \in Slots \ {n, s} : Transferred(s)[t] = conn[t]
         /\ \A t \in Slots : Transferred(s)[t] \in IoConnection \cup {NoConn}
    BY <1>1, <2>4, <2>5, <2>7, <2>8, <2>9
  <2>11. \A t \in list.members :
           /\ Transferred(s)[t] \in IoConnection
           /\ Transferred(s)[t].state = conn[t].state
           /\ Transferred(s)[t].ttoo = conn[t].ttoo
    BY <1>1, <2>8, <2>9, <2>10
  <2>12. \A t \in Slots \ list.members : Transferred(s)[t] = NoConn
    BY <1>1, <2>2, <2>10
  <2> HIDE DEF n
  <2> QED
    BY <1>3, <2>2, <2>4, <2>7, <2>8, <2>9, <2>10, <2>11, <2>12
<1> QED
  BY <1>2, <1>3

(* transfer_master_connection keeps pools and list consistent: the socket  *)
(* moves, and nobody else held one.  Every owner but s still produces.     *)
LEMMA TransferredConsistent ==
    ASSUME IInv, NEW s \in list.members
    PROVE  /\ Consistent(Transferred(s), list)
           /\ OwnersProduce(Transferred(s), list.members \ {s})
<1> DEFINE c == Transferred(s)
<1>1. /\ Consistent(conn, list)
      /\ OwnersProduce(conn, list.members)
  BY DEF IInv
<1>2. CASE ~Transfers(s)
  BY <1>1, <1>2, TransferredEntries DEF OwnersProduce
<1>3. CASE Transfers(s)
  <2>1. /\ c \in [Slots -> IoConnection \cup {NoConn}]
        /\ list.members = {t \in Slots : c[t] # NoConn}
    BY <1>1, TransferredEntries, EntryFields DEF Consistent
  <2>2. PICK n \in NonControlMasters \ {s} :
                   /\ c[n].prod = conn[s].prod
                   /\ c[s].prod = NoFd
                   /\ \A t \in Slots \ {n, s} : c[t] = conn[t]
    BY <1>3, TransferredEntries
  <2>3. s \in MulticastProducers(conn, list)
    BY <1>3 DEF Transfers, IsMaster, MulticastProducers
  <2>4. ASSUME NEW t \in MulticastProducers(c, list) PROVE t = n
    <3>1. t \in list.members /\ t \in Slots /\ c[t].ttoo = "multicast" /\ c[t].prod # NoFd
      BY <1>1 DEF MulticastProducers, Consistent, ListOf
    <3>2. t # s
      BY <2>2, <3>1
    <3>3. CASE t # n
      BY <1>1, <2>2, <2>3, <3>1, <3>2, <3>3 DEF MulticastProducers, Consistent
    <3> QED
      BY <3>3
  <2>5. ASSUME NEW t \in (list.members \ {s}) \cap ExclusiveOwner,
               c[t].state = "Established", c[t].ttoo = "multicast"
        PROVE  c[t].prod # NoFd
    <3>1. t \in Slots /\ conn[t].state = "Established" /\ conn[t].ttoo = "multicast"
      BY <1>1, <2>5, TransferredEntries DEF Consistent
    <3>2. CASE t = n
      BY <1>3, <2>2, <3>2 DEF Transfers, IsMaster
    <3>3. CASE t # n
      BY <1>1, <2>2, <2>5, <3>1, <3>3 DEF OwnersProduce
    <3> QED
      BY <3>2, <3>3
  <2>6. Consistent(c, list)
    BY <1>1, <2>1, <2>4 DEF Consistent
  <2>7. OwnersProduce(c, list.members \ {s})
    BY <2>5 DEF OwnersProduce
  <2> QED
    BY <2>6, <2>7
<1> QED
  BY <1>2, <1>3

(* Closing sockets leaves every handle of the process in one of its states. *)
LEMMA ChannelsClosedType ==
    ASSUME IInv, NEW c, NEW V
    PROVE  ChannelsClosed(c, V) \in [Fds -> {"closed", "udp", "tcp"}]
BY DEF IInv, TypeOK, ChannelsClosed

(* CloseIoConnection keeps pools and list consistent, cascade included.    *)
LEMMA ClosedConsistent ==
    ASSUME IInv, NEW s \in list.members
    PROVE  LET c == Emptied(Transferred(s), ClosedWith(s))
               l == RemoveAll(list, ClosedWith(s))
           IN /\ Consistent(c, l)
              /\ OwnersProduce(c, l.members)
              /\ l.members = list.members \ ClosedWith(s)
              /\ \A t \in l.members : c[t] = Transferred(s)[t]
              /\ s \notin l.members
<1>1. /\ Consistent(Transferred(s), list)
      /\ OwnersProduce(Transferred(s), list.members \ {s})
  BY TransferredConsistent
<1>2. s \in ClosedWith(s)
  BY DEF ClosedWith
<1>3. OwnersProduce(Transferred(s), list.members \ ClosedWith(s))
  BY <1>1, <1>2 DEF OwnersProduce
<1> DEFINE c == Emptied(Transferred(s), ClosedWith(s))
           l == RemoveAll(list, ClosedWith(s))
<1>4. /\ Consistent(c, l)
      /\ l.members = list.members \ ClosedWith(s)
      /\ \A t \in list.members \ ClosedWith(s) : c[t] = Transferred(s)[t]
      /\ OwnersProduce(c, l.members)
  BY <1>1, <1>3, EmptiedConsistent
<1> HIDE DEF c, l
<1>5. s \notin l.members /\ \A t \in l.members : c[t] = Transferred(s)[t]
  BY <1>2, <1>4
<1> QED
  BY <1>4, <1>5 DEF c, l

(* As long as somebody else produces, the close of s is a close of s       *)
(* alone: only one connection holds a producing socket.                    *)
LEMMA OtherProducerKept ==
    ASSUME IInv, NEW s \in list.members,
           NEW p \in MulticastProducers(conn, list), p # s
    PROVE  /\ ~IsMaster(s) /\ ~Transfers(s)
           /\ Transferred(s) = conn
           /\ ClosedWith(s) = {s}
<1>1. s \notin MulticastProducers(conn, list)
  BY DEF IInv, Consistent
<1>2. ~IsMaster(s)
  BY <1>1 DEF IsMaster, MulticastProducers
<1> QED
  BY <1>2 DEF Transfers, Transferred, ClosedWith

(* Production that is passed on has a producer again, one that was neither *)
(* timed out nor a listener.                                               *)
LEMMA TransferFindsProducer ==
    ASSUME IInv, NEW s \in list.members, Transfers(s)
    PROVE  \E n \in (list.members \cap NonListenOnly) \ {s} :
              /\ Transferred(s)[n].state = "Established"
              /\ Transferred(s)[n].ttoo = "multicast"
              /\ Transferred(s)[n].prod # NoFd
              /\ ClosedWith(s) = {s}
<1>1. PICK n \in NonControlMasters \ {s} : Transferred(s)[n].prod = conn[s].prod
  BY TransferredEntries
<1>2. /\ n \in list.members \cap NonListenOnly
      /\ conn[n].state = "Established" /\ conn[n].ttoo = "multicast"
  BY <1>1 DEF NonControlMasters
<1>3. Transferred(s)[n].state = "Established" /\ Transferred(s)[n].ttoo = "multicast"
  BY <1>2, TransferredEntries
<1>4. Transferred(s)[n].prod # NoFd
  BY <1>1 DEF Transfers, IsMaster
<1>5. ClosedWith(s) = {s}
  BY DEF ClosedWith
<1> QED
  BY <1>1, <1>2, <1>3, <1>4, <1>5

(* What GetIoConnectionForConnectionData gives to a Forward Open: a free   *)
(* entry of the requested pool in consistent pools, with nothing changed   *)
(* or with the timed-out connection that held the entry closed.            *)
LEMMA GotConnection ==
    ASSUME IInv, NEW slots \in {ExclusiveOwner, InputOnly, ListenOnly}, NEW o \in Originators,
           NEW r, r = GetIoConnectionForConnectionData(o, slots), r.slot # 0
    PROVE  /\ r.slot \in slots /\ r.slot \in Slots
           /\ Consistent(r.conn, r.list)
           /\ OwnersProduce(r.conn, r.list.members)
           /\ r.slot \notin r.list.members
           /\ r.fd \in [Fds -> {"closed", "udp", "tcp"}]
           /\ \/ r.conn = conn /\ r.list = list
              \/ /\ r.slot \in list.members
                 /\ conn[r.slot].state = "TimedOut"
                 /\ r.conn = Emptied(Transferred(r.slot), ClosedWith(r.slot))
                 /\ r.list = RemoveAll(list, ClosedWith(r.slot))
<1> DEFINE reusable == {s \in slots : conn[s] # NoConn /\ conn[s].state = "TimedOut"
                                     /\ conn[s].orig = o}
           free == {s \in slots : conn[s] = NoConn}
           refused == slots = ListenOnly /\ \A s \in list.members : conn[s].prod = NoFd
           s == Min(reusable)
           Unchanged(slot) == [slot |-> slot, conn |-> conn, list |-> list, fd |-> fd]
<1>1. r = IF refused \/ reusable \cup free = {} THEN Unchanged(0)
          ELSE IF reusable = {} THEN Unchanged(Min(free))
          ELSE [slot |-> s, conn |-> Emptied(Transferred(s), ClosedWith(s)),
                list |-> RemoveAll(list, ClosedWith(s)),
                fd |-> ChannelsClosed(Transferred(s), ClosedWith(s))]
  BY DEF GetIoConnectionForConnectionData
<1>2. slots \in SUBSET Slots /\ slots \in SUBSET Nat
  BY SlotsAreFinite
<1>3. ~(refused \/ reusable \cup free = {})
  BY <1>1
<1>4. /\ Consistent(conn, list) /\ OwnersProduce(conn, list.members)
      /\ list.members = {t \in Slots : conn[t] # NoConn}
      /\ fd \in [Fds -> {"closed", "udp", "tcp"}]
  BY DEF IInv, Consistent, TypeOK
<1>5. CASE reusable = {}
  <2>1. r = Unchanged(Min(free))
    BY <1>1, <1>3, <1>5
  <2>2. free \in SUBSET Nat /\ free # {}
    BY <1>2, <1>3, <1>5
  <2>3. Min(free) \in free
    BY <2>2, MinInSet
  <2>4. r.slot \in free /\ r.conn = conn /\ r.list = list /\ r.fd = fd
    BY <2>1, <2>3
  <2> HIDE DEF Unchanged, refused, reusable
  <2> QED
    BY <1>2, <1>4, <2>4
<1>6. CASE reusable # {}
  <2>1. reusable \in SUBSET Nat
    BY <1>2
  <2>2. s \in reusable
    BY <1>6, <2>1, MinInSet
  <2>3. /\ r.slot = s
        /\ r.conn = Emptied(Transferred(s), ClosedWith(s))
        /\ r.list = RemoveAll(list, ClosedWith(s))
        /\ r.fd = ChannelsClosed(Transferred(s), ClosedWith(s))
    BY <1>1, <1>3, <1>6
  <2>4. s \in list.members /\ s \in slots /\ conn[s].state = "TimedOut"
    BY <1>2, <1>4, <2>2
  <2> HIDE DEF s, Unchanged, refused, reusable, free
  <2>5. r.fd \in [Fds -> {"closed", "udp", "tcp"}]
    BY <2>3, ChannelsClosedType
  <2>6. /\ Consistent(r.conn, r.list)
        /\ OwnersProduce(r.conn, r.list.members)
        /\ s \notin r.list.members
    BY <2>3, <2>4, ClosedConsistent
  <2> QED
    BY <1>2, <2>3, <2>4, <2>5, <2>6
<1> QED
  BY <1>5, <1>6

-----------------------------------------------------------------------------
(* The entry and the socket that a new IO connection gets, when there is a *)
(* node for it: pools and list stay consistent whether its production is a *)
(* new one, joins the existing one or takes that over.                     *)
LEMMA NewConnectionConsistent ==
    ASSUME NEW c, NEW l, Consistent(c, l), OwnersProduce(c, l.members),
           NEW slot \in Slots, slot \notin l.members,
           NEW existing, existing = FirstIn(l, MulticastProducers(c, l), 0),
           NEW new \in IoConnection, NEW takes \in BOOLEAN,
           NEW d, d = [t \in Slots |->
                         IF t = slot THEN new
                         ELSE IF takes /\ t = existing THEN [c[t] EXCEPT !.prod = NoFd]
                         ELSE c[t]],
           takes => existing # 0,
           new.ttoo = "multicast" /\ new.prod # NoFd => takes \/ existing = 0,
           slot \in ExclusiveOwner /\ new.ttoo = "multicast" => new.prod # NoFd,
           takes => slot \in ExclusiveOwner
    PROVE  /\ Consistent(d, InsertAtHead(l, slot))
           /\ OwnersProduce(d, InsertAtHead(l, slot).members)
           /\ InsertAtHead(l, slot).members = l.members \cup {slot}
           /\ d[slot] = new
           /\ ~takes => \A t \in l.members : d[t] = c[t]
<1> DEFINE m == InsertAtHead(l, slot)
<1>1. /\ c \in [Slots -> IoConnection \cup {NoConn}]
      /\ l \in ListOf(Slots) /\ l.members \in SUBSET Slots
      /\ l.members = {t \in Slots : c[t] # NoConn}
  BY DEF Consistent, ListOf
<1>2. m \in ListOf(Slots) /\ m.members = l.members \cup {slot}
  BY <1>1, InsertAtHeadIsList DEF InsertAtHead
<1>3. MulticastProducers(c, l) = {} => existing = 0
  BY DEF FirstIn
<1>4. MulticastProducers(c, l) # {} =>
        existing \in MulticastProducers(c, l) /\ existing \in l.members /\ existing # 0
  <2> SUFFICES ASSUME MulticastProducers(c, l) # {}
               PROVE  existing \in MulticastProducers(c, l) /\ existing \in l.members /\ existing # 0
    OBVIOUS
  <2>1. l.members \cap MulticastProducers(c, l) # {}
    BY DEF MulticastProducers
  <2> QED
    BY <1>1, <2>1, FirstInIsFirst, SlotsAreFinite
<1>5. takes => existing \in l.members /\ existing # slot
  BY <1>3, <1>4
<1>6. ASSUME takes
      PROVE  /\ [c[existing] EXCEPT !.prod = NoFd] \in IoConnection
             /\ [c[existing] EXCEPT !.prod = NoFd].prod = NoFd
  <2>1. c[existing] \in IoConnection
    BY <1>1, <1>5, <1>6
  <2> QED
    BY <2>1 DEF IoConnection, Sockets
<1>7. \A t \in Slots : /\ t = slot => d[t] = new
                       /\ takes /\ t = existing => d[t] = [c[existing] EXCEPT !.prod = NoFd]
                       /\ t # slot /\ (~takes \/ t # existing) => d[t] = c[t]
  BY <1>5
<1>8. \A t \in Slots : d[t] \in IoConnection \cup {NoConn}
  BY <1>1, <1>6, <1>7
<1>9. d \in [Slots -> IoConnection \cup {NoConn}]
  BY <1>8
<1>10. m.members = {t \in Slots : d[t] # NoConn}
  BY <1>1, <1>2, <1>5, <1>6, <1>7, EntryFields
<1>11. \A s, t \in MulticastProducers(d, m) : s = t
  <2>1. ASSUME NEW t \in MulticastProducers(d, m), t # slot
        PROVE  t \in MulticastProducers(c, l) /\ ~takes
    <3>1. t \in l.members /\ d[t].ttoo = "multicast" /\ d[t].prod # NoFd
      BY <1>2, <2>1 DEF MulticastProducers
    <3>2. ~(takes /\ t = existing)
      BY <1>1, <1>6, <1>7, <3>1
    <3>3. t \in MulticastProducers(c, l)
      BY <1>1, <1>7, <2>1, <3>1, <3>2 DEF MulticastProducers
    <3> QED
      BY <1>4, <3>2, <3>3 DEF Consistent
  <2>2. ASSUME slot \in MulticastProducers(d, m), NEW t \in MulticastProducers(d, m), t # slot
        PROVE  FALSE
    <3>1. new.ttoo = "multicast" /\ new.prod # NoFd
      BY <1>7, <2>2 DEF MulticastProducers
    <3> QED
      BY <1>4, <2>1, <2>2, <3>1
  <2> QED
    BY <2>1, <2>2 DEF Consistent
<1>12. OwnersProduce(d, m.members)
  <2> SUFFICES ASSUME NEW t \in m.members \cap ExclusiveOwner,
                      d[t].state = "Established", d[t].ttoo = "multicast"
               PROVE  d[t].prod # NoFd
    BY DEF OwnersProduce
  <2>1. CASE t = slot
    BY <1>7, <2>1
  <2>2. CASE t # slot
    <3>1. t \in l.members /\ ~(takes /\ t = existing)
      BY <1>2, <2>2, SlotsAreFinite
    <3> QED
      BY <1>1, <1>7, <2>2, <3>1 DEF OwnersProduce
  <2> QED
    BY <2>1, <2>2
<1>13. Consistent(d, m)
  BY <1>2, <1>9, <1>10, <1>11 DEF Consistent
<1>14. d[slot] = new /\ (~takes => \A t \in l.members : d[t] = c[t])
  BY <1>1, <1>7
<1> QED
  BY <1>2, <1>12, <1>13, <1>14

(* A Forward Open that succeeds: what it got, and the connection it makes. *)
(* In the other outcome the process is gone.                               *)
LEMMA EstablishedConnection ==
    ASSUME IInv, NEW slots \in {ExclusiveOwner, InputOnly, ListenOnly}, NEW o \in Originators,
           EstablishIoConnection(slots, o)
    PROVE  \E r \in {GetIoConnectionForConnectionData(o, slots)} :
             /\ r.slot # 0
             /\ udpIo' \in Sockets
             /\ fd' \in [Fds -> {"closed", "udp", "tcp"}]
             /\ Consistent(conn', list') /\ OwnersProduce(conn', list'.members)
             /\ \/ conn' = r.conn /\ list' = r.list /\ status' = "null_node"
                \/ /\ status' = status
                   /\ list'.members = r.list.members \cup {r.slot}
                   /\ conn'[r.slot].state = "Established"
                   /\ \/ \A t \in r.list.members : conn'[t] = r.conn[t]
                      \/ /\ r.slot \in ExclusiveOwner
                         /\ conn'[r.slot].ttoo = "multicast" /\ conn'[r.slot].prod # NoFd
<1> DEFINE Joins(existing, ttoo) == ttoo = "multicast" /\ existing # 0
           Takes(existing, ttoo) == Joins(existing, ttoo) /\ TakesProduction(slots)
           New(r, existing, f, otot, ttoo) ==
                     [state |-> "Established", orig |-> o, ttoo |-> ttoo,
                      consumes |-> otot # "null",
                      cons |-> IF otot = "p2p" THEN f ELSE NoFd,
                      prod |-> IF Takes(existing, ttoo) THEN r.conn[existing].prod
                               ELSE IF Joins(existing, ttoo) \/ ttoo = "null" THEN NoFd ELSE f]
           Opened(r, existing, f, otot, ttoo) ==
             /\ conn' = [t \in Slots |->
                             IF t = r.slot THEN New(r, existing, f, otot, ttoo)
                             ELSE IF Takes(existing, ttoo) /\ t = existing
                                  THEN [r.conn[t] EXCEPT !.prod = NoFd]
                             ELSE r.conn[t]]
             /\ list' = InsertAtHead(r.list, r.slot)
             /\ UNCHANGED status
           Lost(r) == conn' = r.conn /\ list' = r.list /\ status' = "null_node"
<1>0. PICK r \in {GetIoConnectionForConnectionData(o, slots)} :
         /\ r.slot # 0
         /\ \E existing \in {FirstIn(r.list, MulticastProducers(r.conn, r.list), 0)},
              f \in CreateUdpSocket(r.fd), otot \in OToTTypes, ttoo \in TToOTypes :
              /\ ChannelsOpen(otot, ttoo, Joins(existing, ttoo), f)
              /\ udpIo' = f
              /\ fd' = [g \in Fds |-> IF g = f THEN "udp" ELSE r.fd[g]]
              /\ Opened(r, existing, f, otot, ttoo) \/ Lost(r)
  BY DEF EstablishIoConnection
<1>1. PICK existing \in {FirstIn(r.list, MulticastProducers(r.conn, r.list), 0)},
           f \in CreateUdpSocket(r.fd), otot \in OToTTypes, ttoo \in TToOTypes :
              /\ ChannelsOpen(otot, ttoo, Joins(existing, ttoo), f)
              /\ udpIo' = f
              /\ fd' = [g \in Fds |-> IF g = f THEN "udp" ELSE r.fd[g]]
              /\ Opened(r, existing, f, otot, ttoo) \/ Lost(r)
  BY <1>0, Zenon
<1> DEFINE new == New(r, existing, f, otot, ttoo)
           takes == Takes(existing, ttoo)
<1> HIDE DEF Opened, Lost
<1>2. /\ r.slot \in slots /\ r.slot \in Slots
      /\ Consistent(r.conn, r.list)
      /\ OwnersProduce(r.conn, r.list.members)
      /\ r.slot \notin r.list.members
      /\ r.fd \in [Fds -> {"closed", "udp", "tcp"}]
  BY <1>0, GotConnection
<1>3. f \in Sockets
  BY DEF CreateUdpSocket, Sockets
<1>4. udpIo' \in Sockets /\ fd' \in [Fds -> {"closed", "udp", "tcp"}]
  BY <1>1, <1>2, <1>3
<1>5. CASE Lost(r)
  BY <1>0, <1>2, <1>4, <1>5 DEF Lost
<1>6. CASE Opened(r, existing, f, otot, ttoo)
  <2>1. existing # 0 => /\ existing \in r.list.members
                        /\ r.conn[existing] \in IoConnection
                        /\ r.conn[existing].prod # NoFd
    <3> SUFFICES ASSUME existing # 0
                 PROVE  /\ existing \in r.list.members
                        /\ r.conn[existing] \in IoConnection
                        /\ r.conn[existing].prod # NoFd
      OBVIOUS
    <3>1. r.list.members \cap MulticastProducers(r.conn, r.list) # {}
      BY <1>1 DEF FirstIn
    <3>2. r.list \in ListOf(Slots)
      BY <1>2 DEF Consistent
    <3>3. existing \in MulticastProducers(r.conn, r.list)
      BY <1>1, <3>1, <3>2, FirstInIsFirst, SlotsAreFinite
    <3>4. existing \in r.list.members /\ r.conn[existing].prod # NoFd
      BY <3>3 DEF MulticastProducers
    <3> QED
      BY <1>2, <3>4 DEF Consistent
  <2>2. takes => existing # 0 /\ slots = ExclusiveOwner
    BY DEF TakesProduction
  <2>3. ttoo \in {"null", "multicast", "p2p"}
    BY IoAssumption
  <2>4. new.prod \in Sockets
    BY <1>3, <2>1, <2>2, EntryFields DEF Sockets
  <2>5. new \in IoConnection
    BY <1>3, <2>3, <2>4 DEF IoConnection, Sockets
  <2>6. /\ new.state = "Established" /\ new.ttoo = ttoo
        /\ new.prod = IF takes THEN r.conn[existing].prod
                      ELSE IF Joins(existing, ttoo) \/ ttoo = "null" THEN NoFd ELSE f
    OBVIOUS
  <2> HIDE DEF New
  <2>7. new.ttoo = "multicast" /\ new.prod # NoFd => takes \/ existing = 0
    BY <2>6
  <2>8. ttoo = "multicast" /\ ~Joins(existing, ttoo) => f # NoFd
    BY <1>1 DEF ChannelsOpen
  <2>9. r.slot \in ExclusiveOwner => slots = ExclusiveOwner
    BY <1>2, SlotsAreFinite DEF NonListenOnly
  <2>10. r.slot \in ExclusiveOwner /\ new.ttoo = "multicast" => new.prod # NoFd
    BY <2>1, <2>6, <2>8, <2>9 DEF TakesProduction
  <2>11. takes => r.slot \in ExclusiveOwner
    BY <1>2, <2>2
  <2>12. takes \in BOOLEAN
    BY DEF TakesProduction
  <2>13. takes => new.ttoo = "multicast"
    BY <2>6
  <2> HIDE DEF takes, new
  <2>14. /\ Consistent(conn', list')
         /\ OwnersProduce(conn', list'.members)
         /\ list'.members = r.list.members \cup {r.slot}
         /\ conn'[r.slot] = new
         /\ ~takes => \A t \in r.list.members : conn'[t] = r.conn[t]
    <3>1. conn' = [t \in Slots |->
                             IF t = r.slot THEN new
                             ELSE IF takes /\ t = existing
                                  THEN [r.conn[t] EXCEPT !.prod = NoFd]
                             ELSE r.conn[t]]
      BY <1>6 DEF takes, new, Opened
    <3>2. existing = FirstIn(r.list, MulticastProducers(r.conn, r.list), 0)
      BY <1>1
    <3>3. list' = InsertAtHead(r.list, r.slot)
      BY <1>6 DEF Opened
    <3> QED
      BY <1>2, <2>2, <2>5, <2>7, <2>10, <2>11, <2>12, <3>1, <3>2, <3>3, NewConnectionConsistent
  <2> QED
    BY <1>0, <1>4, <1>6, <2>6, <2>10, <2>11, <2>13, <2>14 DEF Opened, new
<1> QED
  BY <1>1, <1>5, <1>6

(* What the time-out of s leaves: s itself stays in the pool, timed out,   *)
(* with its production passed on when somebody can take it.                *)
TimedOutPools(s) == [Transferred(s) EXCEPT ![s].state = "TimedOut"]

(* Marking a connection timed out changes nothing but its state, and an    *)
(* owner that is timed out need not produce.                               *)
LEMMA TimedOutConsistent ==
    ASSUME IInv, NEW s \in list.members
    PROVE  /\ Consistent(TimedOutPools(s), list)
           /\ OwnersProduce(TimedOutPools(s), list.members)
           /\ TimedOutPools(s)[s].state = "TimedOut"
           /\ TimedOutPools(s)[s].ttoo = Transferred(s)[s].ttoo
           /\ TimedOutPools(s)[s].prod = Transferred(s)[s].prod
           /\ \A t \in list.members \ {s} : TimedOutPools(s)[t] = Transferred(s)[t]
<1> DEFINE b == Transferred(s)
           e == [b[s] EXCEPT !.state = "TimedOut"]
           c == TimedOutPools(s)
<1>1. Consistent(b, list) /\ OwnersProduce(b, list.members \ {s})
  BY TransferredConsistent
<1>2. b[s] \in IoConnection /\ s \in Slots /\ list.members \in SUBSET Slots
  BY <1>1, TransferredEntries DEF Consistent
<1>3. /\ e \in IoConnection /\ e.state = "TimedOut"
      /\ e.ttoo = b[s].ttoo /\ e.prod = b[s].prod
  BY <1>2 DEF IoConnection
<1>4. c \in [Slots -> IoConnection \cup {NoConn}] /\ c[s] = e
      /\ \A t \in Slots \ {s} : c[t] = b[t]
  BY <1>1, <1>2, <1>3 DEF Consistent, TimedOutPools
<1> HIDE DEF b, e, c
<1>5. list.members = {t \in Slots : c[t] # NoConn}
  BY <1>1, <1>2, <1>3, <1>4, EntryFields DEF Consistent
<1>6. MulticastProducers(c, list) = MulticastProducers(b, list)
  BY <1>2, <1>3, <1>4 DEF MulticastProducers
<1>7. Consistent(c, list)
  BY <1>1, <1>4, <1>5, <1>6 DEF Consistent
<1>8. OwnersProduce(c, list.members)
  BY <1>1, <1>2, <1>3, <1>4 DEF OwnersProduce
<1> QED
  BY <1>2, <1>3, <1>4, <1>7, <1>8 DEF b, c

(* The entries that the time-out of s does not empty stay as they are      *)
(* after s was marked.                                                     *)
LEMMA TimedOutOthersKept ==
    ASSUME IInv, NEW s \in list.members, NEW V
    PROVE  /\ RemoveAll(list, V).members = list.members \ V
           /\ \A t \in list.members \ V : Emptied(TimedOutPools(s), V)[t] = TimedOutPools(s)[t]
<1>1. list.members \in SUBSET Slots
  BY DEF IInv, Consistent
<1> QED
  BY <1>1 DEF RemoveAll, Emptied

(* A time-out that does not run into a freed node empties a set V of       *)
(* entries that s is not in, after it marked s.                            *)
LEMMA TimeOutStep ==
    ASSUME IInv, NEW s \in Slots, NEW T, HandleIoConnectionTimeOut(s, T),
           ~UNCHANGED <<conn, list, fd, udpIo>>
    PROVE  LET V == IF Transfers(s) THEN {}
                    ELSE IF s \in ExclusiveOwner
                         THEN list.members \cap (InputOnly \cup ListenOnly)
                    ELSE IF IsMaster(s) THEN ActiveListeners ELSE {}
           IN /\ s \in list.members
              /\ s \notin V
              /\ conn[s].state = "Established"
              /\ conn' = Emptied(TimedOutPools(s), V)
              /\ list' = RemoveAll(list, V)
              /\ fd' \in [Fds -> {"closed", "udp", "tcp"}]
              /\ UNCHANGED <<udpIo, status>>
<1> DEFINE V == IF Transfers(s) THEN {}
                ELSE IF s \in ExclusiveOwner
                     THEN list.members \cap (InputOnly \cup ListenOnly)
                ELSE IF IsMaster(s) THEN ActiveListeners ELSE {}
           d == ChannelsClosed(TimedOutPools(s), V)
<1>1. /\ s \in list.members
      /\ conn[s].state = "Established"
      /\ conn' = Emptied(TimedOutPools(s), V)
      /\ list' = RemoveAll(list, V)
      /\ fd' = [f \in Fds |-> IF f \in T THEN "closed" ELSE d[f]]
      /\ UNCHANGED <<udpIo, status>>
  BY DEF HandleIoConnectionTimeOut, TimedOutPools
<1>2. d \in [Fds -> {"closed", "udp", "tcp"}]
  BY ChannelsClosedType
<1>3. s \notin V
  BY SlotsAreFinite DEF IsMaster, ActiveListeners, NonListenOnly
<1> HIDE DEF V, d
<1>4. fd' \in [Fds -> {"closed", "udp", "tcp"}]
  BY <1>1, <1>2
<1> QED
  BY <1>1, <1>3, <1>4 DEF V

-----------------------------------------------------------------------------
(* The pools, the list and the producer are consistent in every reachable  *)
(* state.                                                                  *)
THEOREM Invariance == Spec => []IInv
<1>1. Init => IInv
  <2> SUFFICES ASSUME Init PROVE IInv
    OBVIOUS
  <2>1. EmptyList \in ListOf(Slots) /\ EmptyList.members = {}
    BY DEF EmptyList, ListOf
  <2>2. TypeOK
    BY <2>1 DEF Init, TypeOK, Sockets
  <2>3. Consistent(conn, list)
    BY <2>1, <2>2 DEF Init, TypeOK, Consistent, MulticastProducers
  <2> QED
    BY <2>1, <2>2, <2>3 DEF Init, IInv, OwnersProduce
<1>2. IInv /\ [Next]_vars => IInv'
  <2> SUFFICES ASSUME IInv, [Next]_vars PROVE IInv'
    OBVIOUS
  <2> USE DEF IInv
  <2>0. /\ conn \in [Slots -> IoConnection \cup {NoConn}]
        /\ list \in ListOf(Slots)
        /\ fd \in [Fds -> {"closed", "udp", "tcp"}]
        /\ udpIo \in Sockets
        /\ status \in {"running", "stopped", "null_node", "freed_node"}
    BY DEF TypeOK
  <2>1. ASSUME Consistent(conn', list'), OwnersProduce(conn', list'.members),
               fd' \in [Fds -> {"closed", "udp", "tcp"}], udpIo' \in Sockets,
               status' \in {"running", "stopped", "null_node", "freed_node"}
        PROVE  IInv'
    BY <2>1 DEF TypeOK, Consistent, OwnersProduce, MulticastProducers
  <2>2. ASSUME NEW slots \in {ExclusiveOwner, InputOnly, ListenOnly}, NEW o \in Originators,
               EstablishIoConnection(slots, o)
        PROVE  IInv'
    BY <2>0, <2>1, <2>2, EstablishedConnection
  <2>3. ASSUME NEW slots \in {ExclusiveOwner, InputOnly, ListenOnly}, NEW o \in Originators,
               RefuseIoConnection(slots, o)
        PROVE  IInv'
    <3>1. PICK r \in {GetIoConnectionForConnectionData(o, slots)} :
            /\ r.slot # 0
            /\ conn' = r.conn /\ list' = r.list
            /\ \/ fd' = r.fd /\ UNCHANGED udpIo
               \/ \E f \in CreateUdpSocket(r.fd) :
                     /\ udpIo' = f
                     /\ fd' = [g \in Fds |-> IF g = f THEN "udp" ELSE r.fd[g]]
      BY <2>3 DEF RefuseIoConnection
    <3>2. /\ Consistent(r.conn, r.list) /\ OwnersProduce(r.conn, r.list.members)
          /\ r.fd \in [Fds -> {"closed", "udp", "tcp"}]
      BY <3>1, GotConnection
    <3>3. udpIo' \in Sockets /\ fd' \in [Fds -> {"closed", "udp", "tcp"}]
      BY <2>0, <3>1, <3>2 DEF CreateUdpSocket, Sockets
    <3>4. status' = status
      BY <2>3 DEF RefuseIoConnection
    <3> QED
      BY <2>0, <2>1, <3>1, <3>2, <3>3, <3>4
  <2>4. ASSUME NEW s \in list.members, CloseIoConnection(s), UNCHANGED <<udpIo, status>>
        PROVE  IInv'
    <3>1. fd' \in [Fds -> {"closed", "udp", "tcp"}]
      BY <2>4, ChannelsClosedType DEF CloseIoConnection
    <3>2. Consistent(conn', list') /\ OwnersProduce(conn', list'.members)
      BY <2>4, ClosedConsistent DEF CloseIoConnection
    <3> QED
      BY <2>0, <2>1, <2>4, <3>1, <3>2
  <2>5. ASSUME UNCHANGED <<conn, list, fd, udpIo>>,
               status' \in {"running", "stopped", "null_node", "freed_node"}
        PROVE  IInv'
    BY <2>0, <2>1, <2>5
  <2>6. ASSUME NEW s \in Slots, ForwardClose(s)
        PROVE  IInv'
    BY <2>4, <2>6 DEF ForwardClose
  <2>7. ASSUME NEW s \in Slots, CheckAndHandleConsumingUdpSocket(s)
        PROVE  IInv'
    BY <2>4, <2>5, <2>7 DEF CheckAndHandleConsumingUdpSocket
  <2>8. ASSUME NEW s \in Slots, NEW T, HandleIoConnectionTimeOut(s, T)
        PROVE  IInv'
    <3>1. CASE UNCHANGED <<conn, list, fd, udpIo>>
      <4>1. status' = "freed_node" \/ status' = status
        BY <2>8 DEF HandleIoConnectionTimeOut
      <4> QED
        BY <2>0, <2>5, <3>1, <4>1
    <3>2. CASE ~UNCHANGED <<conn, list, fd, udpIo>>
      <4>1. PICK V : /\ s \in list.members
                     /\ conn' = Emptied(TimedOutPools(s), V)
                     /\ list' = RemoveAll(list, V)
                     /\ fd' \in [Fds -> {"closed", "udp", "tcp"}]
                     /\ UNCHANGED <<udpIo, status>>
        BY <2>8, <3>2, TimeOutStep
      <4>2. /\ Consistent(TimedOutPools(s), list)
            /\ OwnersProduce(TimedOutPools(s), list.members)
        BY <4>1, TimedOutConsistent
      <4>3. OwnersProduce(TimedOutPools(s), list.members \ V)
        BY <4>2 DEF OwnersProduce
      <4>4. Consistent(conn', list') /\ OwnersProduce(conn', list'.members)
        BY <4>1, <4>2, <4>3, EmptiedConsistent
      <4> QED
        BY <2>0, <2>1, <4>1, <4>4
    <3> QED
      BY <3>1, <3>2
  <2>9. ASSUME NEW f \in Fds, AcceptTcp(f) \/ CloseTcpSocket(f)
        PROVE  IInv'
    BY <2>0, <2>1, <2>9 DEF AcceptTcp, CloseTcpSocket
  <2>10. ASSUME ShutdownCipStack
         PROVE  IInv'
    <3>1. list' \in ListOf(Slots) /\ list'.members = {}
      BY <2>10 DEF ShutdownCipStack, EmptyList, ListOf
    <3>2. conn' \in [Slots -> IoConnection \cup {NoConn}] /\ \A s \in Slots : conn'[s] = NoConn
      BY <2>10 DEF ShutdownCipStack
    <3>3. Consistent(conn', list') /\ OwnersProduce(conn', list'.members)
      BY <3>1, <3>2 DEF Consistent, OwnersProduce, MulticastProducers
    <3>4. ChannelsClosed(conn, list.members) \in [Fds -> {"closed", "udp", "tcp"}]
      BY ChannelsClosedType
    <3>5. fd' \in [Fds -> {"closed", "udp", "tcp"}]
      BY <2>0, <2>10, <3>4 DEF ShutdownCipStack
    <3>6. udpIo' = udpIo /\ status' = "stopped"
      BY <2>10 DEF ShutdownCipStack
    <3> QED
      BY <2>0, <2>1, <3>3, <3>5, <3>6
  <2>11. CASE UNCHANGED vars
    BY <2>0, <2>5, <2>11 DEF vars
  <2> QED
    BY <2>2, <2>3, <2>6, <2>7, <2>8, <2>9, <2>10, <2>11 DEF Next, Halted
<1> QED
  BY <1>1, <1>2, PTL DEF Spec

(* The types: pools keep their sizes, connection_list stays a linear order *)
(* of pool entries through every cascade of closes.                        *)
THEOREM TypeCorrect == Spec => []TypeOK
BY Invariance, PTL DEF IInv

(* connection_list holds exactly the pool entries in use.                  *)
THEOREM PoolListConsistent == Spec => []PoolMatchesList
<1>1. IInv => PoolMatchesList
  BY DEF IInv, Consistent, PoolMatchesList
<1> QED
  BY <1>1, Invariance, PTL

(* Never two connections in charge of the multicast production.            *)
THEOREM SingleProducer == Spec => []OneMulticastProducer
<1>1. IInv => OneMulticastProducer
  BY DEF IInv, Consistent, OneMulticastProducer
<1> QED
  BY <1>1, Invariance, PTL

(* An established exclusive owner that asked for multicast produces it.    *)
THEOREM OwnerIsProducer == Spec => []OwnerProduces
<1>1. IInv => OwnerProduces
  BY DEF IInv, OwnersProduce, OwnerProduces
<1> QED
  BY <1>1, Invariance, PTL

-----------------------------------------------------------------------------
(* An exclusive owner or input only connection of the list l is in charge  *)
(* of the multicast production.                                            *)
MasterIn(c, l) ==
    \E s \in l.members \cap NonListenOnly : c[s].ttoo = "multicast" /\ c[s].prod # NoFd

(* CloseIoConnection of the master leaves another master or no listener.   *)
LEMMA CloseKeepsMasterOrEndsListeners ==
    ASSUME IInv, NEW s \in list.members, MasterIn(conn, list),
           NEW c, c = Emptied(Transferred(s), ClosedWith(s)),
           NEW l, l = RemoveAll(list, ClosedWith(s))
    PROVE  MasterIn(c, l) \/ (s \in NonListenOnly /\ l.members \cap ListenOnly = {})
<1>1. /\ l.members = list.members \ ClosedWith(s)
      /\ \A t \in l.members : c[t] = Transferred(s)[t]
  BY ClosedConsistent
<1>2. PICK p \in list.members \cap NonListenOnly :
         conn[p].ttoo = "multicast" /\ conn[p].prod # NoFd
  BY DEF MasterIn
<1>3. CASE p # s
  <2>1. Transferred(s) = conn /\ ClosedWith(s) = {s}
    BY <1>2, <1>3, OtherProducerKept DEF MulticastProducers
  <2> QED
    BY <1>1, <1>2, <1>3, <2>1 DEF MasterIn
<1>4. CASE p = s /\ Transfers(s)
  BY <1>1, <1>4, TransferFindsProducer DEF MasterIn
<1>5. CASE p = s /\ ~Transfers(s)
  <2>1. ActiveListeners \in SUBSET ClosedWith(s)
    BY <1>2, <1>5 DEF ClosedWith, IsMaster
  <2> QED
    BY <1>1, <1>2, <1>5, <2>1 DEF ActiveListeners
<1> QED
  BY <1>3, <1>4, <1>5

(* A step that leaves no exclusive owner or input only connection in       *)
(* charge of the multicast production leaves no listen only connection.    *)
THEOREM ListenersEnd == Spec => ListenersEndWithMaster
<1> DEFINE Kept == ActiveListeners' # {} /\ (\E s \in list.members : IsMaster(s))
                      => (\E s \in list.members : IsMaster(s))'
<1>1. IInv /\ [Next]_vars => [Kept]_vars
  <2> SUFFICES ASSUME IInv, [Next]_vars, MasterIn(conn, list)
               PROVE  MasterIn(conn', list') \/ list'.members \cap ListenOnly = {}
    BY DEF MasterIn, IsMaster, ActiveListeners
  <2>1. ASSUME NEW slots \in {ExclusiveOwner, InputOnly, ListenOnly}, NEW o \in Originators,
               NEW r, r = GetIoConnectionForConnectionData(o, slots), r.slot # 0
        PROVE  MasterIn(r.conn, r.list)
                  \/ (r.list.members \cap ListenOnly = {} /\ r.slot \notin ListenOnly)
    <3>1. CASE r.conn = conn /\ r.list = list
      BY <3>1
    <3>2. CASE /\ r.slot \in list.members
               /\ r.conn = Emptied(Transferred(r.slot), ClosedWith(r.slot))
               /\ r.list = RemoveAll(list, ClosedWith(r.slot))
      <4>1. MasterIn(r.conn, r.list)
              \/ (r.slot \in NonListenOnly /\ r.list.members \cap ListenOnly = {})
        BY <3>2, CloseKeepsMasterOrEndsListeners
      <4> QED
        BY <4>1, SlotsAreFinite
    <3> QED
      BY <2>1, <3>1, <3>2, GotConnection
  <2>2. ASSUME NEW slots \in {ExclusiveOwner, InputOnly, ListenOnly}, NEW o \in Originators,
               EstablishIoConnection(slots, o)
        PROVE  MasterIn(conn', list') \/ list'.members \cap ListenOnly = {}
    <3>1. PICK r \in {GetIoConnectionForConnectionData(o, slots)} :
             /\ r.slot # 0
             /\ \/ conn' = r.conn /\ list' = r.list
                \/ /\ list'.members = r.list.members \cup {r.slot}
                   /\ \/ \A t \in r.list.members : conn'[t] = r.conn[t]
                      \/ /\ r.slot \in ExclusiveOwner
                         /\ conn'[r.slot].ttoo = "multicast" /\ conn'[r.slot].prod # NoFd
      BY <2>2, EstablishedConnection
    <3>2. MasterIn(r.conn, r.list)
            \/ (r.list.members \cap ListenOnly = {} /\ r.slot \notin ListenOnly)
      BY <2>1, <3>1
    <3>3. CASE conn' = r.conn /\ list' = r.list
      BY <3>2, <3>3
    <3>4. CASE /\ list'.members = r.list.members \cup {r.slot}
               /\ \A t \in r.list.members : conn'[t] = r.conn[t]
      BY <3>2, <3>4 DEF MasterIn
    <3>5. CASE /\ list'.members = r.list.members \cup {r.slot}
               /\ r.slot \in ExclusiveOwner
               /\ conn'[r.slot].ttoo = "multicast" /\ conn'[r.slot].prod # NoFd
      BY <3>5 DEF MasterIn, NonListenOnly
    <3> QED
      BY <3>1, <3>3, <3>4, <3>5
  <2>3. ASSUME NEW slots \in {ExclusiveOwner, InputOnly, ListenOnly}, NEW o \in Originators,
               RefuseIoConnection(slots, o)
        PROVE  MasterIn(conn', list') \/ list'.members \cap ListenOnly = {}
    <3>1. PICK r \in {GetIoConnectionForConnectionData(o, slots)} :
            r.slot # 0 /\ conn' = r.conn /\ list' = r.list
      BY <2>3 DEF RefuseIoConnection
    <3> QED
      BY <2>1, <3>1
  <2>4. ASSUME NEW s \in list.members, CloseIoConnection(s)
        PROVE  MasterIn(conn', list') \/ list'.members \cap ListenOnly = {}
    BY <2>4, CloseKeepsMasterOrEndsListeners DEF CloseIoConnection
  <2>5. ASSUME UNCHANGED <<conn, list>>
        PROVE  MasterIn(conn', list') \/ list'.members \cap ListenOnly = {}
    BY <2>5
  <2>6. ASSUME NEW s \in Slots, NEW T, HandleIoConnectionTimeOut(s, T)
        PROVE  MasterIn(conn', list') \/ list'.members \cap ListenOnly = {}
    <3>1. CASE UNCHANGED <<conn, list, fd, udpIo>>
      BY <2>5, <3>1
    <3>2. CASE ~UNCHANGED <<conn, list, fd, udpIo>>
      <4> DEFINE V == IF Transfers(s) THEN {}
                      ELSE IF s \in ExclusiveOwner
                           THEN list.members \cap (InputOnly \cup ListenOnly)
                      ELSE IF IsMaster(s) THEN ActiveListeners ELSE {}
      <4>1. /\ s \in list.members
            /\ conn' = Emptied(TimedOutPools(s), V)
            /\ list' = RemoveAll(list, V)
        BY <2>6, <3>2, TimeOutStep
      <4>2. /\ Consistent(TimedOutPools(s), list)
            /\ TimedOutPools(s)[s].ttoo = Transferred(s)[s].ttoo
            /\ TimedOutPools(s)[s].prod = Transferred(s)[s].prod
            /\ \A t \in list.members \ {s} : TimedOutPools(s)[t] = Transferred(s)[t]
        BY <4>1, TimedOutConsistent
      <4> HIDE DEF V
      <4>3. /\ list'.members = list.members \ V
            /\ \A t \in list.members \ V : conn'[t] = TimedOutPools(s)[t]
        BY <4>1, TimedOutOthersKept
      <4>4. CASE Transfers(s)
        <5>1. V = {}
          BY <4>4 DEF V
        <5> QED
          BY <4>1, <4>2, <4>3, <4>4, <5>1, TransferFindsProducer DEF MasterIn
      <4>5. CASE ~Transfers(s) /\ (s \in ExclusiveOwner \/ IsMaster(s))
        <5>1. list.members \cap ListenOnly \in SUBSET V
          BY <4>5 DEF V, ActiveListeners
        <5> QED
          BY <4>3, <5>1
      <4>6. CASE ~Transfers(s) /\ ~(s \in ExclusiveOwner \/ IsMaster(s))
        <5>1. V = {}
          BY <4>6 DEF V
        <5>2. Transferred(s) = conn
          BY <4>6 DEF Transferred
        <5>3. MasterIn(TimedOutPools(s), list)
          BY <4>2, <5>2 DEF MasterIn
        <5> QED
          BY <4>3, <5>1, <5>3 DEF MasterIn
      <4> QED
        BY <4>4, <4>5, <4>6
    <3> QED
      BY <3>1, <3>2
  <2>7. ASSUME ShutdownCipStack
        PROVE  MasterIn(conn', list') \/ list'.members \cap ListenOnly = {}
    BY <2>7 DEF ShutdownCipStack, EmptyList
  <2>8. ASSUME NEW s \in Slots, ForwardClose(s)
        PROVE  MasterIn(conn', list') \/ list'.members \cap ListenOnly = {}
    BY <2>4, <2>8 DEF ForwardClose
  <2>9. ASSUME NEW s \in Slots, CheckAndHandleConsumingUdpSocket(s)
        PROVE  MasterIn(conn', list') \/ list'.members \cap ListenOnly = {}
    BY <2>4, <2>5, <2>9 DEF CheckAndHandleConsumingUdpSocket
  <2>10. ASSUME NEW f \in Fds, AcceptTcp(f) \/ CloseTcpSocket(f)
         PROVE  MasterIn(conn', list') \/ list'.members \cap ListenOnly = {}
    BY <2>5, <2>10 DEF AcceptTcp, CloseTcpSocket
  <2>11. CASE UNCHANGED vars
    BY <2>5, <2>11 DEF vars
  <2> QED
    BY <2>2, <2>3, <2>6, <2>7, <2>8, <2>9, <2>10, <2>11 DEF Next, Halted
<1> QED
  BY <1>1, Invariance, PTL DEF Spec, ListenersEndWithMaster

-----------------------------------------------------------------------------
(* A connection that can take the production over: not timed out, not a    *)
(* listener, and asking for multicast.                                     *)
WaitsIn(c, S) ==
    \E t \in S \cap NonListenOnly : c[t].state = "Established" /\ c[t].ttoo = "multicast"

(* The close of a connection, when p produces and another connection waits *)
(* that can take over, leaves an established producer.                     *)
LEMMA CloseHandsOver ==
    ASSUME IInv, NEW s \in list.members,
           NEW p \in Producing(conn, list) \cap NonListenOnly,
           NEW c, c = Emptied(Transferred(s), ClosedWith(s)),
           NEW l, l = RemoveAll(list, ClosedWith(s)),
           WaitsIn(c, l.members)
    PROVE  Producing(c, l) # {}
<1>1. /\ l.members = list.members \ ClosedWith(s)
      /\ \A t \in l.members : c[t] = Transferred(s)[t]
      /\ s \notin l.members
  BY ClosedConsistent
<1>2. /\ p \in MulticastProducers(conn, list) /\ p \in list.members
      /\ conn[p].state = "Established"
      /\ conn[p].ttoo = "multicast" /\ conn[p].prod # NoFd
  BY DEF Producing, MulticastProducers
<1>3. CASE p # s
  <2>1. Transferred(s) = conn /\ ClosedWith(s) = {s}
    BY <1>2, <1>3, OtherProducerKept
  <2>2. p \in l.members /\ c[p] = conn[p]
    BY <1>1, <1>2, <1>3, <2>1
  <2> QED
    BY <1>2, <2>2 DEF Producing, MulticastProducers
<1>4. CASE p = s
  <2>1. PICK t \in l.members \cap NonListenOnly :
           c[t].state = "Established" /\ c[t].ttoo = "multicast"
    BY DEF WaitsIn
  <2>2. t \in list.members /\ t # s /\ conn[t].state = "Established" /\ conn[t].ttoo = "multicast"
    BY <1>1, <2>1, TransferredEntries
  <2>3. conn[t].prod = NoFd
    BY <1>2, <1>4, <2>2 DEF IInv, Consistent, MulticastProducers
  <2>4. Transfers(s)
    BY <1>2, <1>4, <2>1, <2>2, <2>3 DEF Transfers, IsMaster, NonControlMasters
  <2>5. PICK n \in (list.members \cap NonListenOnly) \ {s} :
              /\ Transferred(s)[n].state = "Established"
              /\ Transferred(s)[n].ttoo = "multicast"
              /\ Transferred(s)[n].prod # NoFd
              /\ ClosedWith(s) = {s}
    BY <2>4, TransferFindsProducer
  <2>6. n \in l.members /\ c[n] = Transferred(s)[n]
    BY <1>1, <2>5
  <2> QED
    BY <2>5, <2>6 DEF Producing, MulticastProducers
<1> QED
  BY <1>3, <1>4

(* The entry that a Forward Open gets was timed out or free, so that an    *)
(* established producer is still there and unchanged.                      *)
LEMMA GotKeepsProducer ==
    ASSUME IInv, NEW slots \in {ExclusiveOwner, InputOnly, ListenOnly}, NEW o \in Originators,
           NEW r, r = GetIoConnectionForConnectionData(o, slots), r.slot # 0,
           NEW p \in Producing(conn, list)
    PROVE  p \in r.list.members /\ p \in Producing(r.conn, r.list) /\ p # r.slot
<1>1. /\ p \in MulticastProducers(conn, list) /\ p \in list.members
      /\ conn[p].state = "Established"
      /\ conn[p].ttoo = "multicast" /\ conn[p].prod # NoFd
  BY DEF Producing, MulticastProducers
<1>2. CASE r.conn = conn /\ r.list = list
  BY <1>1, <1>2, GotConnection DEF Producing
<1>3. CASE /\ r.slot \in list.members
           /\ conn[r.slot].state = "TimedOut"
           /\ r.conn = Emptied(Transferred(r.slot), ClosedWith(r.slot))
           /\ r.list = RemoveAll(list, ClosedWith(r.slot))
  <2>1. p # r.slot
    BY <1>1, <1>3
  <2>2. Transferred(r.slot) = conn /\ ClosedWith(r.slot) = {r.slot}
    BY <1>1, <1>3, <2>1, OtherProducerKept
  <2>3. /\ r.list.members = list.members \ {r.slot}
        /\ \A t \in r.list.members : r.conn[t] = conn[t]
    <3>1. /\ RemoveAll(list, ClosedWith(r.slot)).members = list.members \ ClosedWith(r.slot)
          /\ \A t \in RemoveAll(list, ClosedWith(r.slot)).members :
                Emptied(Transferred(r.slot), ClosedWith(r.slot))[t] = Transferred(r.slot)[t]
      BY <1>3, ClosedConsistent
    <3>2. r.list.members = list.members \ {r.slot}
      BY <1>3, <2>2, <3>1
    <3>3. \A t \in r.list.members : r.conn[t] = Transferred(r.slot)[t]
      BY <1>3, <3>1
    <3> QED
      BY <2>2, <3>2, <3>3
  <2> QED
    BY <1>1, <2>1, <2>3 DEF Producing, MulticastProducers
<1> QED
  BY <1>2, <1>3, GotConnection

(* Closing or losing the multicast producer hands production over whenever *)
(* an exclusive owner or input only connection is left that can take it.   *)
THEOREM HandOver == Spec => ProductionHandedOver
<1> DEFINE Handed == \A s \in Producing(conn, list) \cap NonListenOnly :
          (\E t \in list'.members \cap NonListenOnly \cap list.members :
              conn'[t].state = "Established" /\ conn'[t].ttoo = "multicast")
            => Producing(conn', list') # {}
<1>1. IInv /\ [Next]_vars => [Handed]_vars
  <2> SUFFICES ASSUME IInv, [Next]_vars,
                      NEW p \in Producing(conn, list) \cap NonListenOnly,
                      WaitsIn(conn', list'.members)
               PROVE  Producing(conn', list') # {}
    BY DEF WaitsIn
  <2>1. ASSUME NEW slots \in {ExclusiveOwner, InputOnly, ListenOnly}, NEW o \in Originators,
               EstablishIoConnection(slots, o)
        PROVE  Producing(conn', list') # {}
    <3>1. PICK r \in {GetIoConnectionForConnectionData(o, slots)} :
             /\ r.slot # 0
             /\ \/ conn' = r.conn /\ list' = r.list
                \/ /\ list'.members = r.list.members \cup {r.slot}
                   /\ conn'[r.slot].state = "Established"
                   /\ \/ \A t \in r.list.members : conn'[t] = r.conn[t]
                      \/ conn'[r.slot].ttoo = "multicast" /\ conn'[r.slot].prod # NoFd
      BY <2>1, EstablishedConnection
    <3>2. p \in r.list.members /\ p \in Producing(r.conn, r.list)
      BY <3>1, GotKeepsProducer
    <3> QED
      BY <3>1, <3>2 DEF Producing, MulticastProducers
  <2>2. ASSUME NEW slots \in {ExclusiveOwner, InputOnly, ListenOnly}, NEW o \in Originators,
               RefuseIoConnection(slots, o)
        PROVE  Producing(conn', list') # {}
    <3>1. PICK r \in {GetIoConnectionForConnectionData(o, slots)} :
            r.slot # 0 /\ conn' = r.conn /\ list' = r.list
      BY <2>2 DEF RefuseIoConnection
    <3> QED
      BY <3>1, GotKeepsProducer
  <2>3. ASSUME NEW s \in list.members, CloseIoConnection(s)
        PROVE  Producing(conn', list') # {}
    BY <2>3, CloseHandsOver DEF CloseIoConnection
  <2>4. ASSUME UNCHANGED <<conn, list>>
        PROVE  Producing(conn', list') # {}
    BY <2>4
  <2>5. ASSUME NEW s \in Slots, NEW T, HandleIoConnectionTimeOut(s, T)
        PROVE  Producing(conn', list') # {}
    <3>1. CASE UNCHANGED <<conn, list, fd, udpIo>>
      BY <2>4, <3>1
    <3>2. CASE ~UNCHANGED <<conn, list, fd, udpIo>>
      <4> DEFINE V == IF Transfers(s) THEN {}
                      ELSE IF s \in ExclusiveOwner
                           THEN list.members \cap (InputOnly \cup ListenOnly)
                      ELSE IF IsMaster(s) THEN ActiveListeners ELSE {}
      <4>1. /\ s \in list.members
            /\ conn' = Emptied(TimedOutPools(s), V)
            /\ list' = RemoveAll(list, V)
        BY <2>5, <3>2, TimeOutStep
      <4>2. /\ Consistent(TimedOutPools(s), list)
            /\ TimedOutPools(s)[s].state = "TimedOut"
            /\ \A t \in list.members \ {s} : TimedOutPools(s)[t] = Transferred(s)[t]
        BY <4>1, TimedOutConsistent
      <4> HIDE DEF V
      <4>3. /\ list'.members = list.members \ V
            /\ \A t \in list.members \ V : conn'[t] = TimedOutPools(s)[t]
        BY <4>1, TimedOutOthersKept
      <4>4. /\ p \in MulticastProducers(conn, list) /\ p \in list.members
            /\ conn[p].state = "Established"
            /\ conn[p].ttoo = "multicast" /\ conn[p].prod # NoFd
        BY DEF Producing, MulticastProducers
      <4>5. PICK t \in list'.members \cap NonListenOnly :
               conn'[t].state = "Established" /\ conn'[t].ttoo = "multicast"
        BY DEF WaitsIn
      <4>6. t \in list.members /\ t # s /\ t \notin V
        BY <4>1, <4>2, <4>3, <4>5
      <4>7. CASE p # s
        <5>1. ~IsMaster(s) /\ ~Transfers(s) /\ Transferred(s) = conn
          BY <4>1, <4>4, <4>7, OtherProducerKept
        <5>2. s \notin ExclusiveOwner
          <6> SUFFICES ASSUME s \in ExclusiveOwner PROVE FALSE
            OBVIOUS
          <6>1. t \in InputOnly
            BY <4>5, <4>6, SlotsAreFinite DEF NonListenOnly
          <6> QED
            BY <4>6, <5>1, <6>1 DEF V
        <5>3. V = {}
          BY <5>1, <5>2 DEF V
        <5>4. p \in list'.members /\ conn'[p] = conn[p]
          BY <4>2, <4>3, <4>4, <4>7, <5>1, <5>3
        <5> QED
          BY <4>4, <5>4 DEF Producing, MulticastProducers
      <4>8. CASE p = s
        <5>1. conn[t].state = "Established" /\ conn[t].ttoo = "multicast"
          BY <4>1, <4>2, <4>3, <4>5, <4>6, TransferredEntries
        <5>2. conn[t].prod = NoFd
          BY <4>4, <4>6, <4>8, <5>1 DEF IInv, Consistent, MulticastProducers
        <5>3. Transfers(s)
          BY <4>4, <4>5, <4>6, <4>8, <5>1, <5>2 DEF Transfers, IsMaster, NonControlMasters
        <5>4. V = {}
          BY <5>3 DEF V
        <5>5. PICK n \in (list.members \cap NonListenOnly) \ {s} :
              /\ Transferred(s)[n].state = "Established"
              /\ Transferred(s)[n].ttoo = "multicast"
              /\ Transferred(s)[n].prod # NoFd
          BY <4>1, <5>3, TransferFindsProducer
        <5>6. n \in list'.members /\ conn'[n] = Transferred(s)[n]
          BY <4>2, <4>3, <5>4, <5>5
        <5> QED
          BY <5>5, <5>6 DEF Producing, MulticastProducers
      <4> QED
        BY <4>7, <4>8
    <3> QED
      BY <3>1, <3>2
  <2>6. ASSUME ShutdownCipStack
        PROVE  Producing(conn', list') # {}
    BY <2>6 DEF ShutdownCipStack, EmptyList, WaitsIn
  <2>7. ASSUME NEW s \in Slots, ForwardClose(s)
        PROVE  Producing(conn', list') # {}
    BY <2>3, <2>7 DEF ForwardClose
  <2>8. ASSUME NEW s \in Slots, CheckAndHandleConsumingUdpSocket(s)
        PROVE  Producing(conn', list') # {}
    BY <2>3, <2>4, <2>8 DEF CheckAndHandleConsumingUdpSocket
  <2>9. ASSUME NEW f \in Fds, AcceptTcp(f) \/ CloseTcpSocket(f)
        PROVE  Producing(conn', list') # {}
    BY <2>4, <2>9 DEF AcceptTcp, CloseTcpSocket
  <2>10. CASE UNCHANGED vars
    BY <2>4, <2>10 DEF vars
  <2> QED
    BY <2>1, <2>2, <2>5, <2>6, <2>7, <2>8, <2>9, <2>10 DEF Next, Halted
<1> QED
  BY <1>1, Invariance, PTL DEF Spec, ProductionHandedOver
=============================================================================
