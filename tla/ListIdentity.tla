---------------------------- MODULE ListIdentity ----------------------------
(***************************************************************************)
(* Encapsulation commands that arrive as UDP datagrams.  The answer to a   *)
(* List Identity that was broadcast is kept for a random time, so that the *)
(* devices of a network do not all answer at once; the stack has a fixed   *)
(* number of places for such answers.  Time is counted in ticks.           *)
(***************************************************************************)
EXTENDS Naturals, FiniteSetsExt

CONSTANTS
    Requesters,     \* addresses that UDP requests come from
    DelaySlots,     \* ENCAP_NUMBER_OF_SUPPORTED_DELAYED_ENCAP_MESSAGES
    DefaultDelay,   \* kListIdentityDefaultDelayTime
    MinimumDelay,   \* kListIdentityMinimumDelayTime
    AskedDelays,    \* maximum delays that a sender context can ask for
    MaxCycle,       \* bound: ticks between two calls of ManageConnections
    NoMessage       \* content of a place whose socket is kEipInvalidSocket

(* A place that holds an answer.  asked and age, the ticks it has waited,  *)
(* are not kept by the code: they say what the delay is about.             *)
DelayedMessage == [to : Requesters, time_out : Nat, asked : AskedDelays, age : Nat]

ASSUME ListIdentityAssumption ==
    /\ DelaySlots \in Nat
    /\ DefaultDelay \in Nat \ {0}
    /\ MinimumDelay \in Nat \ {0}
    /\ AskedDelays \subseteq Nat
    /\ MaxCycle \in Nat \ {0}
    /\ NoMessage \notin DelayedMessage

VARIABLES
    delayed,    \* g_delayed_encapsulation_messages
    datagrams   \* what the last UDP step sent

udpVars == <<delayed, datagrams>>

UdpCommands == {"ListServices", "ListIdentity", "ListInterfaces", "other"}

(* DetermineDelayTime, the maximum that the sender context asks for.       *)
MaximumDelay(asked) ==
    CASE asked = 0                         -> DefaultDelay
      [] asked \in 1..(MinimumDelay - 1)   -> MinimumDelay
      [] OTHER                             -> asked

(* Mutant: the remainder of the random number is not taken.                *)
DelayUnbounded(asked) == 0..(2 * DefaultDelay)

(* DetermineDelayTime: rand() modulo the maximum.                          *)
DetermineDelayTime(asked) == 0..(MaximumDelay(asked) - 1)

Datagram(r, what) == [to |-> r, what |-> what]

-----------------------------------------------------------------------------
(* EncapsulationInit.                                                      *)
UdpInit ==
    /\ delayed = [i \in 1..DelaySlots |-> NoMessage]
    /\ datagrams = {}

(* HandleReceivedExplictUdpData for a datagram whose length or options are *)
(* wrong, which is not answered.                                           *)
UdpDatagramIgnored ==
    /\ datagrams' = {}
    /\ UNCHANGED delayed

(* HandleReceivedExplictUdpData for all that is answered at once.  For a   *)
(* command that UDP does not have nothing is written into the outgoing     *)
(* message, and the caller sends it with length zero.                      *)
UdpAnswered(r, command, unicast) ==
    /\ ~(command = "ListIdentity" /\ ~unicast)
    /\ datagrams' = {Datagram(r, IF command = "other" THEN "empty" ELSE command)}
    /\ UNCHANGED delayed

(* HandleReceivedListIdentityCommandUdp: the request takes the first free  *)
(* place, or is dropped when there is none.                                *)
HandleReceivedListIdentityCommandUdp(r, asked) ==
    LET free == {i \in DOMAIN delayed : delayed[i] = NoMessage}
    IN /\ IF free = {}
          THEN UNCHANGED delayed
          ELSE \E t \in DetermineDelayTime(asked) :
                  delayed' = [delayed EXCEPT ![Min(free)] =
                      [to |-> r, time_out |-> t, asked |-> asked, age |-> 0]]
       /\ datagrams' = {}

(* What one cycle does to the messages in the places of S.                 *)
ManagePlaces(S, elapsed) ==
    LET due == {i \in S : delayed[i] # NoMessage /\ delayed[i].time_out <= elapsed}
    IN /\ delayed' = [i \in DOMAIN delayed |->
            CASE i \in due                               -> NoMessage
              [] delayed[i] = NoMessage \/ i \notin S    -> delayed[i]
              [] OTHER -> [delayed[i] EXCEPT !.time_out = @ - elapsed,
                                             !.age = @ + elapsed]]
       /\ datagrams' = {Datagram(delayed[i].to, "ListIdentity") : i \in due}

(* Mutant: the loop ends before the last place.                            *)
ManageAllButLast(elapsed) == ManagePlaces(1..(DelaySlots - 1), elapsed)

(* ManageEncapsulationMessages: every message whose delay is reached or    *)
(* passed is sent and its place is free.                                   *)
ManageEncapsulationMessages(elapsed) == ManagePlaces(DOMAIN delayed, elapsed)

ManageUdp == \E elapsed \in 1..MaxCycle : ManageEncapsulationMessages(elapsed)

UdpNext ==
    \/ UdpDatagramIgnored
    \/ \E r \in Requesters :
          \/ \E command \in UdpCommands, unicast \in BOOLEAN :
                UdpAnswered(r, command, unicast)
          \/ \E asked \in AskedDelays : HandleReceivedListIdentityCommandUdp(r, asked)
    \/ ManageUdp

(* ManageConnections is called cyclically.                                 *)
UdpFairness == WF_udpVars(ManageUdp)

UdpSpec == UdpInit /\ [][UdpNext]_udpVars /\ UdpFairness

-----------------------------------------------------------------------------
(* An answer that is kept is still within the time its requester allowed,  *)
(* or within the shortest time the device uses: a requester that waits for *)
(* its maximum and for one cycle of the device has every answer.           *)
DelayKept ==
    \A i \in DOMAIN delayed :
        delayed[i] # NoMessage =>
            delayed[i].age < IF delayed[i].asked = 0 THEN DefaultDelay
                             ELSE Max({delayed[i].asked, MinimumDelay})

(* An answer that is kept is sent to its requester at last, because the    *)
(* stack calls ManageConnections cyclically.                               *)
DelayedAnswerSent ==
    \A r \in Requesters :
        (\E i \in DOMAIN delayed : delayed[i] # NoMessage /\ delayed[i].to = r)
            ~> (Datagram(r, "ListIdentity") \in datagrams)
=============================================================================
