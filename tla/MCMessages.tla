----------------------------- MODULE MCMessages -----------------------------
(***************************************************************************)
(* Explicit messaging with small streams.  Besides class 3 requests the    *)
(* clients send one message for each early return of the encapsulation     *)
(* layer and of the common packet format.  UDP requests share no state     *)
(* with the TCP streams, so a behaviour has the one or the other.          *)
(***************************************************************************)
EXTENDS ExplicitMessages, ListIdentity

VARIABLE part   \* which of the two parts runs; they share no state

Plain(command, items, service) ==
    Message(NoClient, command, <<0, 2>>, items, 1, 0, service, 0)

Unconnected == <<"Null", "Unconnected">>

(* Requests with items other than those they count have their own context. *)
Odd(m) == [m EXCEPT !.ctx = <<0, 3>>]

MCOtherMessages == {
    Plain("NOP", <<>>, "none"),
    Plain("ListServices", <<>>, "none"),
    Plain("ListIdentity", <<>>, "none"),
    Plain("ListInterfaces", <<>>, "none"),
    Plain("other", <<>>, "none"),
    Plain("RegisterSession", <<>>, "none"),
    Plain("UnregisterSession", <<>>, "none"),
    [Plain("NOP", <<>>, "none") EXCEPT !.options = TRUE],
    [Plain("SendRRData", Unconnected, "Read") EXCEPT !.long = FALSE],
    [Plain("SendRRData", Unconnected, "Read") EXCEPT !.fits = "overrun"],
    [Plain("SendRRData", Unconnected, "Read") EXCEPT !.fits = "longer"],
    Plain("SendRRData", <<"Connection", "Unconnected">>, "Read"),
    Plain("SendRRData", Unconnected \o <<"TtoO", "OtoT">>, "Read"),
    Plain("SendRRData", Unconnected \o <<"TtoO">>, "Open"),
    Plain("SendRRData", Unconnected \o <<"OtoT">>, "Close"),
    Plain("SendUnitData", <<"Null", "Connected">>, "Read"),
    Odd(Plain("SendRRData", Unconnected \o <<"none">>, "Read")),
    Odd(Plain("SendRRData", Unconnected \o <<"TtoO", "TtoO">>, "Read")),
    Odd(Plain("SendRRData", Unconnected \o <<"OtoT", "OtoT">>, "Open")),
    Odd([Plain("SendRRData", Unconnected, "Read") EXCEPT !.count = 6])}

MCInit == Init /\ UdpInit /\ part \in {"tcp", "udp"}

MCNext ==
    \/ part = "tcp" /\ Next /\ UNCHANGED <<udpVars, part>>
    \/ part = "udp" /\ UdpNext /\ UNCHANGED <<vars, part>>

MCSpec == MCInit /\ [][MCNext]_<<vars, udpVars, part>> /\ Fairness /\ UdpFairness
=============================================================================
