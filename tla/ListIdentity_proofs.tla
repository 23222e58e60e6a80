------------------------ MODULE ListIdentity_proofs -------------------------
(***************************************************************************)
(* The delay of List Identity answers, for every number of places, every   *)
(* delay a requester can ask for and every length of a cycle.              *)
(***************************************************************************)
EXTENDS ListIdentity, ConnectionList_proofs

(* An answer that is kept is sent before the maximum it was drawn for: the *)
(* ticks it waited and the ticks it still has to wait add up to the delay  *)
(* that was drawn.                                                         *)
IInv ==
    /\ delayed \in [1..DelaySlots -> DelayedMessage \cup {NoMessage}]
    /\ \A i \in 1..DelaySlots :
          delayed[i] # NoMessage =>
             delayed[i].age + delayed[i].time_out < MaximumDelay(delayed[i].asked)

(* DetermineDelayTime: what the code computes with comparisons is the      *)
(* larger of the delay asked for and the minimum, or the default for zero; *)
(* so the delay drawn is a number of ticks, and there is one.              *)
LEMMA MaximumDelayIsMax ==
    ASSUME NEW asked \in AskedDelays
    PROVE  /\ MaximumDelay(asked) \in Nat \ {0}
           /\ MaximumDelay(asked) = IF asked = 0 THEN DefaultDelay
                                    ELSE Max({asked, MinimumDelay})
<1>1. asked \in Nat /\ DefaultDelay \in Nat \ {0} /\ MinimumDelay \in Nat \ {0}
  BY ListIdentityAssumption
<1>2. Max({asked, MinimumDelay}) = IF asked >= MinimumDelay THEN asked ELSE MinimumDelay
  BY <1>1 DEF Max
<1>3. CASE asked = 0
  BY <1>1, <1>3 DEF MaximumDelay
<1>4. CASE asked # 0 /\ asked < MinimumDelay
  BY <1>1, <1>2, <1>4 DEF MaximumDelay
<1>5. CASE asked # 0 /\ asked >= MinimumDelay
  BY <1>1, <1>2, <1>5 DEF MaximumDelay
<1> QED
  BY <1>1, <1>3, <1>4, <1>5

(* A message that waits one cycle more keeps the sum of what it waited and *)
(* what it has to wait.                                                    *)
LEMMA CycleKeepsSum ==
    ASSUME NEW m \in DelayedMessage, NEW elapsed \in Nat, ~(m.time_out <= elapsed)
    PROVE  LET w == [m EXCEPT !.time_out = @ - elapsed, !.age = @ + elapsed]
           IN /\ w \in DelayedMessage
              /\ w.asked = m.asked
              /\ w.age + w.time_out = m.age + m.time_out
<1> DEFINE w == [m EXCEPT !.time_out = @ - elapsed, !.age = @ + elapsed]
<1>1. /\ m = [to |-> m.to, time_out |-> m.time_out, asked |-> m.asked, age |-> m.age]
      /\ m.to \in Requesters /\ m.time_out \in Nat /\ m.asked \in AskedDelays /\ m.age \in Nat
  BY DEF DelayedMessage
<1>2. DOMAIN m = {"to", "time_out", "asked", "age"}
  BY DEF DelayedMessage
<1>3. m.time_out - elapsed \in Nat /\ m.age + elapsed \in Nat
  BY <1>1
<1>4. w \in DelayedMessage
  BY <1>1, <1>2, <1>3 DEF DelayedMessage
<1>5. w.asked = m.asked /\ w.age = m.age + elapsed /\ w.time_out = m.time_out - elapsed
  BY <1>2
<1> HIDE DEF w
<1>6. w.age + w.time_out = m.age + m.time_out
  BY <1>1, <1>5
<1> QED
  BY <1>4, <1>5, <1>6 DEF w

(* Every UDP step keeps the sums below the maximum.                        *)
THEOREM UdpInvariance == UdpSpec => []IInv
<1>1. UdpInit => IInv
  BY DEF UdpInit, IInv
<1>2. IInv /\ [UdpNext]_udpVars => IInv'
  <2> SUFFICES ASSUME IInv, [UdpNext]_udpVars PROVE IInv'
    OBVIOUS
  <2>0. /\ delayed \in [1..DelaySlots -> DelayedMessage \cup {NoMessage}]
        /\ DOMAIN delayed = 1..DelaySlots
    BY DEF IInv
  <2>1. ASSUME UNCHANGED delayed PROVE IInv'
    BY <2>1 DEF IInv
  <2>2. ASSUME NEW r \in Requesters, NEW asked \in AskedDelays,
               HandleReceivedListIdentityCommandUdp(r, asked)
        PROVE  IInv'
    <3> DEFINE free == {i \in DOMAIN delayed : delayed[i] = NoMessage}
               k == Min(free)
    <3>1. CASE free = {}
      BY <2>1, <2>2, <3>1 DEF HandleReceivedListIdentityCommandUdp
    <3>2. CASE free # {}
      <4>1. PICK t \in DetermineDelayTime(asked) :
               delayed' = [delayed EXCEPT ![k] =
                             [to |-> r, time_out |-> t, asked |-> asked, age |-> 0]]
        BY <2>2, <3>2 DEF HandleReceivedListIdentityCommandUdp
      <4>2. free \in SUBSET Nat
        BY <2>0, ListIdentityAssumption
      <4>3. k \in free
        BY <3>2, <4>2, MinInSet
      <4>4. k \in 1..DelaySlots
        BY <2>0, <4>3
      <4> DEFINE m == [to |-> r, time_out |-> t, asked |-> asked, age |-> 0]
      <4>5. t \in Nat /\ t < MaximumDelay(asked)
        <5>1. MaximumDelay(asked) \in Nat
          BY MaximumDelayIsMax
        <5>2. t \in 0..(MaximumDelay(asked) - 1)
          BY <4>1 DEF DetermineDelayTime
        <5> QED
          BY <5>1, <5>2
      <4>6. m \in DelayedMessage /\ m.age + m.time_out < MaximumDelay(m.asked)
        BY <4>5 DEF DelayedMessage
      <4>7. delayed' = [delayed EXCEPT ![k] = m]
        BY <4>1
      <4> HIDE DEF free, k, m
      <4> QED
        BY <2>0, <4>4, <4>6, <4>7 DEF IInv
    <3> QED
      BY <3>1, <3>2
  <2>3. ASSUME NEW elapsed \in 1..MaxCycle, ManageEncapsulationMessages(elapsed)
        PROVE  IInv'
    <3> DEFINE due == {i \in DOMAIN delayed : delayed[i] # NoMessage
                                                /\ delayed[i].time_out <= elapsed}
               W(i) == [delayed[i] EXCEPT !.time_out = @ - elapsed, !.age = @ + elapsed]
    <3>1. delayed' = [i \in 1..DelaySlots |->
            CASE i \in due                 -> NoMessage
              [] delayed[i] = NoMessage \/ i \notin 1..DelaySlots -> delayed[i]
              [] OTHER                     -> W(i)]
      BY <2>0, <2>3 DEF ManageEncapsulationMessages, ManagePlaces
    <3>2. elapsed \in Nat
      BY ListIdentityAssumption
    <3> SUFFICES ASSUME NEW i \in 1..DelaySlots
                 PROVE  /\ delayed'[i] \in DelayedMessage \cup {NoMessage}
                        /\ delayed'[i] # NoMessage =>
                             delayed'[i].age + delayed'[i].time_out
                                < MaximumDelay(delayed'[i].asked)
      BY <3>1 DEF IInv
    <3>3. CASE delayed[i] = NoMessage
      BY <3>1, <3>3
    <3>4. CASE delayed[i] # NoMessage /\ delayed[i].time_out <= elapsed
      BY <2>0, <3>1, <3>4
    <3>5. CASE delayed[i] # NoMessage /\ ~(delayed[i].time_out <= elapsed)
      <4>1. delayed'[i] = W(i)
        BY <2>0, <3>1, <3>5
      <4>2. delayed[i] \in DelayedMessage
        BY <2>0, <3>5
      <4>3. /\ W(i) \in DelayedMessage
            /\ W(i).asked = delayed[i].asked
            /\ W(i).age + W(i).time_out = delayed[i].age + delayed[i].time_out
        BY <3>2, <3>5, <4>2, CycleKeepsSum
      <4> HIDE DEF W
      <4> QED
        BY <3>5, <4>1, <4>3 DEF IInv
    <3> QED
      BY <3>3, <3>4, <3>5
  <2>4. CASE UdpDatagramIgnored
    BY <2>1, <2>4 DEF UdpDatagramIgnored
  <2>5. ASSUME NEW r, NEW command, NEW unicast, UdpAnswered(r, command, unicast)
        PROVE  IInv'
    BY <2>1, <2>5 DEF UdpAnswered
  <2>6. CASE UNCHANGED udpVars
    BY <2>1, <2>6 DEF udpVars
  <2> QED
    BY <2>2, <2>3, <2>4, <2>5, <2>6 DEF UdpNext, ManageUdp
<1> QED
  BY <1>1, <1>2, PTL DEF UdpSpec

(* An answer that ManageEncapsulationMessages has not sent yet is still    *)
(* within the time its requester allowed.                                  *)
THEOREM DelayIsKept == UdpSpec => []DelayKept
<1>1. IInv => DelayKept
  <2> SUFFICES ASSUME IInv, NEW i \in 1..DelaySlots, delayed[i] # NoMessage
               PROVE  delayed[i].age < IF delayed[i].asked = 0 THEN DefaultDelay
                                       ELSE Max({delayed[i].asked, MinimumDelay})
    BY DEF IInv, DelayKept
  <2>1. /\ delayed[i].age \in Nat /\ delayed[i].time_out \in Nat
        /\ delayed[i].asked \in AskedDelays
    BY DEF IInv, DelayedMessage
  <2>2. delayed[i].age + delayed[i].time_out < MaximumDelay(delayed[i].asked)
    BY DEF IInv
  <2>3. MaximumDelay(delayed[i].asked) \in Nat
    BY <2>1, MaximumDelayIsMax
  <2>4. delayed[i].age < MaximumDelay(delayed[i].asked)
    BY <2>1, <2>2, <2>3
  <2> QED
    BY <2>1, <2>4, MaximumDelayIsMax
<1> QED
  BY <1>1, UdpInvariance, PTL
=============================================================================
