---------------------------- MODULE ConsumedData ----------------------------
(***************************************************************************)
(* The data that a class 1 IO connection consumes.                         *)
(*                                                                         *)
(*   cip/cipconnectionmanager.c  HandleReceivedConnectedData, the watchdog *)
(*                               part of ManageConnections                 *)
(*   cip/cipioconnection.c       HandleReceivedIoConnectionData            *)
(*   cip/cipassembly.c           NotifyAssemblyConnectedDataReceived       *)
(*   cip/cipconnectionobject.c   watchdog timers and sequence counts       *)
(*                                                                         *)
(* The originator sends datagrams that the network loses, duplicates and   *)
(* reorders.  Each has an encapsulation sequence number, counted for every *)
(* datagram, and a class 1 sequence count, counted when the data changes.  *)
(* Datagrams have a sequenced address item, the negotiated length and a    *)
(* run/idle header.  One that is not delivered is lost.                    *)
(***************************************************************************)
EXTENDS Integers

CONSTANTS
    EipModulus,      \* 2^32: encapsulation sequence numbers
    CountModulus,    \* 2^16: class 1 sequence counts
    TimerModulus,    \* 2^64: timers
    Rpi,             \* requested packet interval, microseconds
    Multiplier,      \* connection_timeout_multiplier
    MinimumInitial,  \* 10000 ms: kMinimumInitialTimeoutValue
    MaxElapsed,      \* longest time between two calls of ManageConnections
    Window,          \* how far the network and the originator get apart
    Starts,          \* where the sequence numbers of a new connection start
    MaxSent,         \* bound: datagrams sent
    MaxOpens         \* bound: times the connection is opened

(* A packet interval below a millisecond gives zero: the next call of      *)
(* ManageConnections then ends the connection.                             *)
RegularWatchdog == (Rpi \div 1000) * 2^(2 + Multiplier)

(* Until the first datagram arrives.                                       *)
InitialWatchdog ==
    IF RegularWatchdog > MinimumInitial THEN RegularWatchdog ELSE MinimumInitial

ASSUME ConsumedDataAssumption ==
    /\ EipModulus \in Nat /\ CountModulus \in Nat /\ TimerModulus \in Nat
    /\ Rpi \in Nat /\ Multiplier \in Nat /\ MinimumInitial \in Nat
    /\ RegularWatchdog \in 0 .. TimerModulus - 1 /\ MinimumInitial < TimerModulus
    /\ MaxElapsed \in Nat \ {0} /\ Window \in Nat /\ MaxSent \in Nat /\ MaxOpens \in Nat
    /\ 2 * Window < EipModulus /\ 2 * Window < CountModulus
    /\ Starts \subseteq Nat

VARIABLES
    originator,  \* what the originator sent last, and where its counts start
    net,         \* datagrams on the way
    conn,        \* the connection object
    output,      \* the data in the output assembly, as its version
    runIdle,     \* g_run_idle_state, as the datagram it comes from
    closed,      \* the last time-out closed the session of the originator
    history      \* what happened to conn, for the properties

vars == <<originator, net, conn, output, runIdle, closed, history>>

(* Version v is the v-th value of the data, n numbers the datagrams; the   *)
(* receiver sees neither of them.                                          *)
Datagrams ==
    [id : 0..MaxOpens, n : 0..MaxSent, version : 0..MaxSent,
     eip : 0 .. EipModulus - 1, count : 0 .. CountModulus - 1]

Originators ==
    [id : 0..MaxOpens, n : 0..MaxSent, version : 0..MaxSent, eipStart : Nat, countStart : Nat]

ConnectionObjects ==
    [state : {"NonExistent", "Established", "TimedOut"}, id : 0..MaxOpens, first : BOOLEAN,
     eip : 0 .. EipModulus - 1, count : 0 .. CountModulus - 1,
     watchdog : 0 .. TimerModulus - 1, lastPackage : 0 .. TimerModulus - 1]

Histories ==
    [n : 0..MaxSent, firstVersion : 0..MaxSent, version : 0..MaxSent,
     silence : 0..InitialWatchdog, quiet : 0..InitialWatchdog]

(* GetConnectedObject finds the connection only in this state.             *)
Established == conn.state = "Established"

-----------------------------------------------------------------------------
(* Mutant: "for now the sequence number will be ignored".                  *)
SeqIgnored(a, b) == TRUE

(* The signed difference of two unsigned numbers is positive.              *)
SEQ_GT32(a, b) == ((a + EipModulus - b) % EipModulus) \in 1 .. (EipModulus - 1) \div 2

(* Mutant: the counts are compared as unsigned numbers.                    *)
LessOrEqual(a, b) == a <= b

(* The signed difference of two unsigned numbers is not positive.          *)
SEQ_LEQ16(a, b) ==
    ((a + CountModulus - b) % CountModulus) \notin 1 .. (CountModulus - 1) \div 2

Init ==
    /\ originator = [id |-> 0, n |-> 0, version |-> 0, eipStart |-> 0, countStart |-> 0]
    /\ net = {}
    /\ conn = [state |-> "NonExistent", id |-> 0, first |-> FALSE, eip |-> 0, count |-> 0,
               watchdog |-> 0, lastPackage |-> 0]
    /\ output = 0
    /\ runIdle = 0
    /\ closed = FALSE
    /\ history = [n |-> 0, firstVersion |-> 0, version |-> 0, silence |-> 0, quiet |-> 0]

(* A Forward Open resets the sequence counts and gives the connection a    *)
(* new connection id (its 16 bits come round long after the datagrams of   *)
(* an old one are gone); the first datagram may have any numbers.          *)
(* last_package_watchdog_timer is zero until the first datagram.           *)
ForwardOpen(eipStart, countStart) ==
    /\ ~Established
    /\ originator.id < MaxOpens
    /\ originator' = [originator EXCEPT !.id = @ + 1, !.eipStart = eipStart,
                                        !.countStart = countStart]
    /\ conn' = [state |-> "Established", id |-> conn.id + 1, first |-> FALSE, eip |-> 0,
                count |-> 0, watchdog |-> InitialWatchdog, lastPackage |-> 0]
    /\ history' = [n |-> originator.n, firstVersion |-> 0, version |-> 0,
                   silence |-> 0, quiet |-> 0]
    /\ UNCHANGED <<net, output, runIdle, closed>>

(* The originator sends its data, new or not.  It is never more than       *)
(* Window datagrams ahead of the receiver, since the watchdog ends the     *)
(* connection after 4 to 512 packet intervals, and no datagram is on the   *)
(* way for longer than the next Window ones.                               *)
Produce(changed) ==
    /\ Established
    /\ originator.n < MaxSent
    /\ originator.n < history.n + Window
    /\ originator' = [originator EXCEPT !.n = @ + 1, !.version = IF changed THEN @ + 1 ELSE @]
    /\ net' = {d \in net : d.n + Window > originator'.n} \cup
              {[id |-> originator.id, n |-> originator'.n, version |-> originator'.version,
                eip |-> (originator.eipStart + originator'.n) % EipModulus,
                count |-> (originator.countStart + originator'.version) % CountModulus]}
    /\ UNCHANGED <<conn, output, runIdle, closed, history>>

NotifyAssemblyConnectedDataReceived(d) == output' = d.version

(* HandleReceivedIoConnectionData, called for a datagram that is not old:  *)
(* run/idle is taken from every one, the data if its count is new.         *)
HandleReceivedIoConnectionData(d) ==
    /\ IF SEQ_LEQ16(d.count, conn.count)
       THEN UNCHANGED output
       ELSE NotifyAssemblyConnectedDataReceived(d)
    /\ runIdle' = d.n

(* Mutant: every datagram reloads the inactivity watchdog.                 *)
WatchdogAlwaysReset(d) ==
    /\ Established
    /\ d.id = conn.id
    /\ IF SEQ_GT32(d.eip, conn.eip) \/ ~conn.first
       THEN /\ HandleReceivedIoConnectionData(d)
            /\ conn' = [conn EXCEPT !.eip = d.eip, !.first = TRUE, !.count = d.count,
                                    !.watchdog = RegularWatchdog,
                                    !.lastPackage = RegularWatchdog]
            /\ history' = [n |-> d.n, version |-> d.version, silence |-> 0, quiet |-> 0,
                           firstVersion |-> IF conn.first THEN history.firstVersion
                                            ELSE d.version]
       ELSE /\ conn' = [conn EXCEPT !.watchdog = RegularWatchdog,
                                    !.lastPackage = RegularWatchdog]
            /\ history' = [history EXCEPT !.quiet = 0]
            /\ UNCHANGED <<output, runIdle>>
    /\ UNCHANGED <<originator, net, closed>>

(* HandleReceivedConnectedData for a datagram of the originator with the   *)
(* id of the connection.  It stays on the network: it may come again.      *)
HandleReceivedConnectedData(d) ==
    /\ Established
    /\ d.id = conn.id
    /\ IF SEQ_GT32(d.eip, conn.eip) \/ ~conn.first
       THEN /\ HandleReceivedIoConnectionData(d)
            /\ conn' = [conn EXCEPT !.eip = d.eip, !.first = TRUE, !.count = d.count,
                                    !.watchdog = RegularWatchdog,
                                    !.lastPackage = RegularWatchdog]
            /\ history' = [n |-> d.n, version |-> d.version, silence |-> 0, quiet |-> 0,
                           firstVersion |-> IF conn.first THEN history.firstVersion
                                            ELSE d.version]
       ELSE /\ conn' = [conn EXCEPT !.lastPackage = RegularWatchdog]
            /\ history' = [history EXCEPT !.quiet = 0]
            /\ UNCHANGED <<output, runIdle>>
    /\ UNCHANGED <<originator, net, closed>>

(* Mutant: the timer wraps around unless it is met exactly.                *)
ExpiresExactly(elapsed) == elapsed = conn.watchdog

Expires(elapsed) == elapsed >= conn.watchdog

(* Mutant: only the inactivity watchdog is decremented.                    *)
LastPackageKept(elapsed) == conn.lastPackage

(* Mutant: the timer does not wrap around.                                 *)
LastPackageSigned(elapsed) == conn.lastPackage - elapsed

LastPackageAfter(elapsed) == (conn.lastPackage + TimerModulus - elapsed) % TimerModulus

(* The time measured for the properties; no connection lives beyond the    *)
(* bound.                                                                  *)
Later(time, elapsed) ==
    IF time + elapsed > InitialWatchdog THEN InitialWatchdog ELSE time + elapsed

(* The handler closes the sessions of the originator, which has no other   *)
(* connection here, when the two watchdogs agree.                          *)
HandleIoConnectionTimeOut ==
    /\ conn' = [conn EXCEPT !.state = "TimedOut"]
    /\ closed' = (conn.lastPackage = conn.watchdog)

(* ManageConnections after the time elapsed.                               *)
ManageConnections(elapsed) ==
    /\ Established
    /\ IF Expires(elapsed)
       THEN HandleIoConnectionTimeOut /\ UNCHANGED history
       ELSE /\ conn' = [conn EXCEPT
                          !.watchdog = (@ + TimerModulus - elapsed) % TimerModulus,
                          !.lastPackage = LastPackageAfter(elapsed)]
            /\ history' = [history EXCEPT !.silence = Later(@, elapsed),
                                          !.quiet = Later(@, elapsed)]
            /\ UNCHANGED closed
    /\ UNCHANGED <<originator, net, output, runIdle>>

Next ==
    \/ \E eipStart, countStart \in Starts : ForwardOpen(eipStart, countStart)
    \/ \E changed \in BOOLEAN : Produce(changed)
    \/ \E d \in net : HandleReceivedConnectedData(d)
    \/ \E elapsed \in 1..MaxElapsed : ManageConnections(elapsed)

Spec == Init /\ [][Next]_vars

(* The thread of the stack calls ManageConnections for ever.               *)
FairSpec == Spec /\ WF_vars(\E elapsed \in 1..MaxElapsed : ManageConnections(elapsed))

-----------------------------------------------------------------------------
(* Types of the variables; every number keeps the width of its field.      *)
TypeOK ==
    /\ originator \in Originators
    /\ net \subseteq Datagrams
    /\ conn \in ConnectionObjects
    /\ output \in 0..MaxSent /\ runIdle \in 0..MaxSent
    /\ closed \in BOOLEAN
    /\ history \in Histories

(* The output assembly and the run/idle state never get older values than  *)
(* those they hold, whatever the network does, also when a sequence number *)
(* wraps around and when the connection is opened again with old datagrams *)
(* on the way.                                                             *)
OutputNeverGoesBack == [][output' >= output /\ runIdle' >= runIdle]_vars

(* The output assembly holds the data of the newest datagram taken, except *)
(* that the data of the first one may be skipped: its count is compared    *)
(* with the zero of an empty connection.                                   *)
LatestDataApplied ==
    conn.first /\ history.version # history.firstVersion => output = history.version

(* Only a datagram that is newer than all before keeps a connection alive: *)
(* the watchdog measures the time since the last such one, or since the    *)
(* Forward Open.  Duplicates and stragglers do not count.                  *)
WatchdogMeasuresSilence ==
    Established =>
        conn.watchdog + history.silence =
            IF conn.first THEN RegularWatchdog ELSE InitialWatchdog

(* A connection that times out after some data takes the originator's      *)
(* session down exactly when nothing at all came since the last new        *)
(* datagram: stragglers show that the originator is still there.           *)
SessionClosedOnSilence ==
    [][conn.first /\ conn'.state = "TimedOut" /\ Established
          => closed' = (history.silence = history.quiet)]_vars

(* A connection is never kept open for ever by an originator that sends    *)
(* nothing new.                                                            *)
SilentConnectionEnds ==
    \A k \in 0..MaxSent : (Established /\ history.n = k) ~> (~Established \/ history.n # k)
=============================================================================
