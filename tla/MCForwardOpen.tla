--------------------------- MODULE MCForwardOpen ----------------------------
(* Requests, assemblies and identity for the model checker.                *)
EXTENDS ForwardOpen

(* The assemblies of the sample application: 101 is the output, 102 the    *)
(* input, 103 the configuration, 152 and 153 the heartbeats.               *)
MCAssemblyLength == (101 :> 8) @@ (102 :> 8) @@ (103 :> 2) @@ (152 :> 0) @@ (153 :> 0)

MCOwnerPoint == [out |-> 101, in |-> 102, cfg |-> 103]
MCInputPoint == [out |-> 152, in |-> 102, cfg |-> 103]
MCListenPoint == [out |-> 153, in |-> 102, cfg |-> 103]

MCIdentity == [vendor |-> 1, product |-> 65, device |-> 12, major |-> 2, minor |-> 3]

Logical(sub, format, value) ==
    [type |-> "logical", sub |-> sub, format |-> format, value |-> value]
Pit(ms) == [type |-> "network", sub |-> "pit_ms", format |-> 8, value |-> ms]
Data(words) == [type |-> "data", sub |-> "simple", format |-> 8, value |-> words]
Key(major, minor, compatible) ==
    Logical("special", 8, [vendor |-> 1, product |-> 0, device |-> 12, major |-> major,
                           minor |-> minor, compatible |-> compatible])

IoPath(out, in) ==
    <<Logical("class", 8, 4), Logical("instance", 8, 103), Logical("point", 8, out),
      Logical("point", 8, in)>>
RouterPath == <<Logical("class", 8, 2), Logical("instance", 8, 1)>>

(* Network connection parameters.                                          *)
None == 0
Multicast(size) == 2^13 + size
PointToPoint(size) == 2 * 2^13 + size
LargePointToPoint(size) == 2 * 2^29 + size

(* Transport byte.                                                         *)
Class1Cyclic == 1
Class1Application == 2 * 16 + 1
Class3Server == 8 * 16 + 3

Request(triad, path) ==
    [triad |-> triad, large |-> FALSE, oparams |-> PointToPoint(14), tparams |-> Multicast(10),
     transport |-> Class1Cyclic, near |-> TRUE, rpi |-> 8, excess |-> 0, path |-> path]

Owner(t) == Request(t, IoPath(101, 102))
Input(t) == [Request(t, IoPath(152, 102)) EXCEPT !.oparams = PointToPoint(2)]
Listen(t) == [Request(t, IoPath(153, 102)) EXCEPT !.oparams = PointToPoint(2)]
WithData(request, words) == [request EXCEPT !.path = @ \o <<Data(words)>>]
Class3(t) ==
    [Request(t, RouterPath) EXCEPT !.oparams = PointToPoint(500), !.tparams = PointToPoint(500),
                                   !.transport = Class3Server]

A == <<"a", 1>>
B == <<"b", 1>>

(* Requests that can be granted.  The parser stops in front of the last    *)
(* segment of the seventh, whose inhibit time behind the points counts as  *)
(* two words; the last one asks for one direction only.                    *)
Granted ==
    <<WithData(Owner(A), <<1>>), [Owner(B) EXCEPT !.large = TRUE, !.oparams = LargePointToPoint(14),
                                                !.tparams = LargePointToPoint(10), !.rpi = 4],
      WithData(Input(B), <<2>>), Listen(A), Class3(A), Class3(B),
      [Request(B, <<Key(2, 2, TRUE), Pit(4)>> \o IoPath(152, 102)
                      \o <<Pit(3), Logical("point", 8, 101)>>)
          EXCEPT !.oparams = PointToPoint(2), !.transport = Class1Application],
      [Request(B, <<Logical("class", 8, 4), Logical("instance", 8, 103), Logical("point", 8, 102)>>)
          EXCEPT !.oparams = None]>>

(* Requests that are refused whatever came before.                         *)
Refused ==
    <<[Owner(A) EXCEPT !.oparams = PointToPoint(2)], [Owner(B) EXCEPT !.near = FALSE],
      [Owner(A) EXCEPT !.excess = 1], Request(A, <<Key(2, 4, TRUE)>> \o IoPath(101, 102)),
      Request(A, IoPath(153, 300)), Request(A, IoPath(0, 102)), WithData(Owner(B), <<1, 2>>),
      Request(B, <<Logical("class", 16, 4)>> \o Tail(IoPath(101, 102))),
      [Request(A, <<Logical("class", 8, 1), Logical("instance", 8, 1), Logical("point", 8, 1)>>)
          EXCEPT !.oparams = None]>>

(* The requests are the numbers of their messages.                         *)
MCSent == Granted \o Refused
MCRequests == DOMAIN MCSent
MCMessages == [r \in MCRequests |-> Received(MCSent[r])]
=============================================================================
