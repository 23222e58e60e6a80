------------------------- MODULE ConsumedData_proofs -------------------------
(***************************************************************************)
(* The safety properties of ConsumedData, for sequence numbers and timers  *)
(* of any width and for any number of datagrams.                           *)
(***************************************************************************)
EXTENDS ConsumedData, TLAPS

(* A number keeps its width.                                               *)
LEMMA Wrap ==
    ASSUME NEW m \in Nat \ {0}, NEW a \in Int
    PROVE  a % m \in 0 .. m - 1
OBVIOUS

(* A timer from which less than its value is taken does not wrap around.   *)
LEMMA WrapBelow ==
    ASSUME NEW m \in Nat \ {0}, NEW w \in 0 .. m - 1, NEW e \in Nat, e <= w
    PROVE  (w + m - e) % m = w - e
OBVIOUS

(* A multiple of the modulus does not change a remainder.                  *)
LEMMA WrapUnique ==
    ASSUME NEW m \in Nat \ {0}, NEW k \in Int, NEW r \in 0 .. m - 1
    PROVE  (r + m * k) % m = r
OBVIOUS

(* The comparison of sequence numbers, modulo m, tells which of two        *)
(* datagrams at most w apart is newer when m is more than twice w.         *)
LEMMA SeqCompare ==
    ASSUME NEW m \in Nat \ {0}, NEW w \in Nat, 2 * w < m,
           NEW b \in Nat, NEW x \in Nat, NEW y \in Nat, x - y <= w, y - x <= w
    PROVE  ((((b + x) % m) + m - ((b + y) % m)) % m \in 1 .. (m - 1) \div 2) <=> x > y
<1> DEFINE p == (b + x) \div m
           q == (b + y) \div m
           half == (m - 1) \div 2
           diff == ((b + x) % m) + m - ((b + y) % m)
<1>1. /\ p \in Int /\ q \in Int
      /\ (b + x) % m = b + x - m * p
      /\ (b + y) % m = b + y - m * q
  OBVIOUS
<1>2. diff = (x - y) + m * (1 + q - p)
  BY <1>1
<1>3. half \in Int /\ w <= half /\ 2 * half <= m - 1
  OBVIOUS
<1>4. diff % m \in 1 .. half <=> x > y
  <2> HIDE DEF p, q, half, diff
  <2>1. CASE x >= y
    <3>1. x - y \in 0 .. m - 1 /\ 1 + q - p \in Int
      BY <1>1, <2>1
    <3>2. ((x - y) + m * (1 + q - p)) % m = x - y
      BY <3>1, WrapUnique, Zenon
    <3> QED  BY <1>2, <1>3, <2>1, <3>2
  <2>2. CASE x < y
    <3>1. m + x - y \in 0 .. m - 1 /\ q - p \in Int
      BY <1>1, <2>2
    <3>2. ((m + x - y) + m * (q - p)) % m = m + x - y
      BY <3>1, WrapUnique, Zenon
    <3>3. diff = (m + x - y) + m * (q - p)
      BY <1>1, <1>2
    <3> QED  BY <1>3, <2>2, <3>2, <3>3
  <2> QED  BY <2>1, <2>2
<1> QED  BY <1>4

-----------------------------------------------------------------------------
(* From a to b there are at most as many versions as datagrams.            *)
Follows(a, b) == a.version <= b.version /\ b.version - a.version <= b.n - a.n

(* What is on the way is recent, in order of its numbers, and what belongs *)
(* to the connection has the sequence numbers that follow from its start.  *)
NetOrdered ==
    /\ originator.version <= originator.n
    /\ \A d \in net :
          /\ d.id <= originator.id
          /\ d.n <= originator.n /\ originator.n < d.n + Window
          /\ Follows(d, originator)
          /\ d.id = originator.id =>
                /\ d.eip = (originator.eipStart + d.n) % EipModulus
                /\ d.count = (originator.countStart + d.version) % CountModulus
    /\ \A d, e \in net : d.n <= e.n => Follows(d, e)

(* What the connection has taken, compared with what is on the way.        *)
TakenOrdered ==
    /\ conn.id = originator.id
    /\ history.n <= originator.n /\ originator.n <= history.n + Window
    /\ runIdle <= history.n
    /\ output <= originator.version
    /\ conn.first =>
          /\ conn.eip = (originator.eipStart + history.n) % EipModulus
          /\ conn.count = (originator.countStart + history.version) % CountModulus
          /\ Follows(history, originator)
          /\ history.version # history.firstVersion => output = history.version
    /\ \A d \in net : d.id = conn.id =>
          /\ ~conn.first => d.n > history.n
          /\ d.n > history.n => output <= d.version
          /\ conn.first /\ d.n > history.n => Follows(history, d)

(* The second watchdog measures the time since anything came.              *)
LastPackageMeasuresQuiet ==
    /\ history.quiet <= history.silence
    /\ Established /\ conn.first => conn.lastPackage + history.quiet = RegularWatchdog

(* The inductive invariant.                                                *)
IInv ==
    /\ TypeOK
    /\ NetOrdered
    /\ TakenOrdered
    /\ WatchdogMeasuresSilence
    /\ LastPackageMeasuresQuiet

-----------------------------------------------------------------------------
(* The widths and the time-outs that follow from the assumptions.          *)
LEMMA Moduli ==
    /\ EipModulus \in Nat \ {0} /\ CountModulus \in Nat \ {0} /\ TimerModulus \in Nat \ {0}
    /\ RegularWatchdog \in 0 .. TimerModulus - 1
    /\ InitialWatchdog \in RegularWatchdog .. TimerModulus - 1
<1> RegularWatchdog \in 0 .. TimerModulus - 1
  BY ConsumedDataAssumption
<1> HIDE DEF RegularWatchdog
<1> QED  BY ConsumedDataAssumption DEF InitialWatchdog

(* The fields of the records have their types.                             *)
LEMMA Types ==
    ASSUME TypeOK
    PROVE  /\ originator.id \in 0..MaxOpens /\ originator.n \in 0..MaxSent
           /\ originator.version \in 0..MaxSent
           /\ originator.eipStart \in Nat /\ originator.countStart \in Nat
           /\ conn.id \in 0..MaxOpens
           /\ conn.watchdog \in 0 .. TimerModulus - 1
           /\ conn.lastPackage \in 0 .. TimerModulus - 1
           /\ history.n \in 0..MaxSent /\ history.version \in 0..MaxSent
           /\ history.firstVersion \in 0..MaxSent
           /\ history.silence \in 0..InitialWatchdog /\ history.quiet \in 0..InitialWatchdog
           /\ output \in 0..MaxSent /\ runIdle \in 0..MaxSent
           /\ \A d \in net : /\ d \in Datagrams
                             /\ d.id \in 0..MaxOpens /\ d.n \in 0..MaxSent
                             /\ d.version \in 0..MaxSent
                             /\ d.eip \in 0 .. EipModulus - 1
                             /\ d.count \in 0 .. CountModulus - 1
<1>1. originator \in Originators /\ conn \in ConnectionObjects /\ history \in Histories
  BY DEF TypeOK
<1>2. net \subseteq Datagrams /\ output \in 0..MaxSent /\ runIdle \in 0..MaxSent
  BY DEF TypeOK
<1> QED  BY <1>1, <1>2 DEF Originators, ConnectionObjects, Histories, Datagrams

(* An empty connection object satisfies the invariant.                     *)
LEMMA InitInvariant == Init => IInv
<1> SUFFICES ASSUME Init PROVE IInv
  OBVIOUS
<1> USE Moduli, ConsumedDataAssumption DEF Init
<1>1. TypeOK
  <2>1. originator \in Originators /\ net \subseteq Datagrams
    BY DEF Originators
  <2>2. conn \in ConnectionObjects
    BY DEF ConnectionObjects
  <2>3. history \in Histories
    BY DEF Histories
  <2>4. output \in 0..MaxSent /\ runIdle \in 0..MaxSent
    OBVIOUS
  <2>5. closed \in BOOLEAN
    OBVIOUS
  <2> QED  BY <2>1, <2>2, <2>3, <2>4, <2>5, Zenon DEF TypeOK
<1>2. NetOrdered
  BY DEF NetOrdered
<1>3. TakenOrdered
  BY DEF TakenOrdered
<1>4. WatchdogMeasuresSilence /\ LastPackageMeasuresQuiet
  BY DEF WatchdogMeasuresSilence, LastPackageMeasuresQuiet, Established
<1> QED  BY <1>1, <1>2, <1>3, <1>4 DEF IInv

(* Opening: nothing on the way has the new connection id.                  *)
LEMMA ForwardOpenInvariant ==
    ASSUME IInv, NEW e \in Starts, NEW c \in Starts, ForwardOpen(e, c)
    PROVE  IInv'
<1> USE Moduli, ConsumedDataAssumption
<1>1. TypeOK /\ NetOrdered /\ TakenOrdered
  BY DEF IInv
<1>2. /\ originator.id < MaxOpens
      /\ originator' = [originator EXCEPT !.id = @ + 1, !.eipStart = e, !.countStart = c]
      /\ conn' = [state |-> "Established", id |-> conn.id + 1, first |-> FALSE, eip |-> 0,
                  count |-> 0, watchdog |-> InitialWatchdog, lastPackage |-> 0]
      /\ history' = [n |-> originator.n, firstVersion |-> 0, version |-> 0,
                     silence |-> 0, quiet |-> 0]
      /\ UNCHANGED <<net, output, runIdle, closed>>
  BY DEF ForwardOpen
<1>3. /\ originator'.id = originator.id + 1 /\ originator'.n = originator.n
      /\ originator'.version = originator.version
      /\ originator' \in Originators
  <2>1. originator \in Originators /\ e \in Nat /\ c \in Nat
    BY <1>1 DEF TypeOK
  <2>2. originator.id + 1 \in 0..MaxOpens
    BY <1>2, <2>1 DEF Originators
  <2> QED  BY <1>2, <2>1, <2>2 DEF Originators
<1>4. conn.id = originator.id
  BY <1>1 DEF TakenOrdered
<1>5. TypeOK'
  <2>1. conn' \in ConnectionObjects
    BY <1>1, <1>2, <1>4, Types DEF ConnectionObjects
  <2>2. history' \in Histories
    BY <1>1, <1>2, Types DEF Histories
  <2> QED  BY <1>1, <1>2, <1>3, <2>1, <2>2, Zenon DEF TypeOK
<1>6. NetOrdered'
  BY <1>1, <1>2, <1>3, Types DEF NetOrdered, Follows
<1>7. TakenOrdered'
  BY <1>1, <1>2, <1>3, <1>4, Types DEF NetOrdered, TakenOrdered
<1>8. WatchdogMeasuresSilence' /\ LastPackageMeasuresQuiet'
  BY <1>2 DEF WatchdogMeasuresSilence, LastPackageMeasuresQuiet, Established
<1> QED  BY <1>5, <1>6, <1>7, <1>8 DEF IInv

(* Sending: the new datagram comes after all others.                       *)
LEMMA ProduceInvariant ==
    ASSUME IInv, NEW changed \in BOOLEAN, Produce(changed)
    PROVE  IInv'
<1> USE Moduli, ConsumedDataAssumption
<1> DEFINE new == [id |-> originator.id, n |-> originator'.n, version |-> originator'.version,
                   eip |-> (originator.eipStart + originator'.n) % EipModulus,
                   count |-> (originator.countStart + originator'.version) % CountModulus]
<1>1. TypeOK /\ NetOrdered /\ TakenOrdered
  BY DEF IInv
<1>2. /\ originator.n < MaxSent /\ originator.n < history.n + Window
      /\ originator' = [originator EXCEPT !.n = @ + 1,
                                          !.version = IF changed THEN @ + 1 ELSE @]
      /\ net' = {d \in net : d.n + Window > originator'.n} \cup {new}
      /\ UNCHANGED <<conn, output, runIdle, closed, history>>
  BY DEF Produce
<1>3. /\ originator' \in Originators
      /\ originator'.id = originator.id /\ originator'.n = originator.n + 1
      /\ originator'.eipStart = originator.eipStart
      /\ originator'.countStart = originator.countStart
      /\ originator'.version - originator.version \in {0, 1}
      /\ originator'.version <= originator'.n
  <2>1. originator \in Originators /\ originator.version <= originator.n
    BY <1>1 DEF TypeOK, NetOrdered
  <2>2. originator.n + 1 \in 0..MaxSent /\ originator.version + 1 \in 0..MaxSent
    BY <1>2, <2>1 DEF Originators
  <2>3. PICK v \in {originator.version, originator.version + 1} :
             originator' = [originator EXCEPT !.n = @ + 1, !.version = v]
    BY <1>2, Zenon
  <2>4. v \in 0..MaxSent /\ v - originator.version \in {0, 1}
    BY <2>1, <2>2 DEF Originators
  <2>5. /\ originator' \in Originators
        /\ originator'.id = originator.id /\ originator'.n = originator.n + 1
        /\ originator'.eipStart = originator.eipStart
        /\ originator'.countStart = originator.countStart
        /\ originator'.version = v
    BY <2>1, <2>2, <2>3, <2>4 DEF Originators
  <2>6. v <= originator.n + 1
    BY <2>1 DEF Originators
  <2> QED  BY <2>4, <2>5, <2>6
<1>4. /\ new \in Datagrams
      /\ new.id = originator.id
      /\ new.n = originator'.n /\ new.version = originator'.version
      /\ new.eip = (originator.eipStart + new.n) % EipModulus
      /\ new.count = (originator.countStart + new.version) % CountModulus
  <2>1. /\ originator.eipStart + originator'.n \in Int
        /\ originator.countStart + originator'.version \in Int
    BY <1>3 DEF Originators
  <2>2. /\ (originator.eipStart + originator'.n) % EipModulus \in 0 .. EipModulus - 1
        /\ (originator.countStart + originator'.version) % CountModulus
              \in 0 .. CountModulus - 1
    BY <2>1, Wrap
  <2> QED  BY <1>3, <2>2 DEF Originators, Datagrams
<1> HIDE DEF new
<1>5. Window > 0
  BY <1>1, <1>2, Types DEF TakenOrdered
<1>6. TypeOK'
  <2>1. net' \subseteq Datagrams
    BY <1>1, <1>2, <1>4 DEF TypeOK
  <2> QED  BY <1>1, <1>2, <1>3, <2>1, Zenon DEF TypeOK
<1>7. originator'.n \in Nat /\ originator'.version \in Nat /\ originator'.id \in Nat
  BY <1>3 DEF Originators
<1>8. ASSUME NEW d \in net', d # new
      PROVE  /\ d \in net /\ originator'.n < d.n + Window
             /\ d.n < originator'.n /\ Follows(d, originator') /\ Follows(d, new)
  BY <1>1, <1>2, <1>3, <1>4, <1>7, <1>8, Types DEF NetOrdered, Follows
<1>9. NetOrdered'
  <2>1. ASSUME NEW d \in net', NEW e \in net', d.n <= e.n
        PROVE  Follows(d, e)
    BY <1>1, <1>4, <1>7, <1>8, <2>1, Types DEF NetOrdered, Follows
  <2>2. ASSUME NEW d \in net'
        PROVE  /\ d.id <= originator'.id
               /\ d.n <= originator'.n /\ originator'.n < d.n + Window
               /\ Follows(d, originator')
               /\ d.id = originator'.id =>
                     /\ d.eip = (originator'.eipStart + d.n) % EipModulus
                     /\ d.count = (originator'.countStart + d.version) % CountModulus
    <3>1. CASE d = new
      BY <1>3, <1>4, <1>5, <1>7, <3>1 DEF Follows
    <3>2. CASE d # new
      BY <1>1, <1>3, <1>7, <1>8, <3>2, Types DEF NetOrdered
    <3> QED  BY <3>1, <3>2
  <2> QED  BY <1>3, <2>1, <2>2 DEF NetOrdered
<1>10. TakenOrdered'
  <2>1. ASSUME NEW d \in net', d.id = conn.id
        PROVE  /\ ~conn.first => d.n > history.n
               /\ d.n > history.n => output <= d.version
               /\ conn.first /\ d.n > history.n => Follows(history, d)
    <3>1. CASE d = new
      BY <1>1, <1>3, <1>4, <1>7, <3>1, Types DEF TakenOrdered, Follows
    <3>2. CASE d # new
      BY <1>1, <1>8, <2>1, <3>2 DEF TakenOrdered
    <3> QED  BY <3>1, <3>2
  <2>2. conn.first => Follows(history, originator')
    BY <1>1, <1>3, <1>7, Types DEF TakenOrdered, Follows
  <2> QED  BY <1>1, <1>2, <1>3, <1>7, <2>1, <2>2, Types DEF TakenOrdered
<1>11. WatchdogMeasuresSilence' /\ LastPackageMeasuresQuiet'
  BY <1>2 DEF IInv, WatchdogMeasuresSilence, LastPackageMeasuresQuiet, Established
<1> QED  BY <1>6, <1>9, <1>10, <1>11 DEF IInv

(* Receiving: SEQ_GT32 takes exactly the newer datagrams and SEQ_LEQ16     *)
(* skips exactly the ones without new data, but for the first one.         *)
LEMMA ReceiveInvariant ==
    ASSUME IInv, NEW d \in net, HandleReceivedConnectedData(d)
    PROVE  IInv' /\ output' >= output /\ runIdle' >= runIdle
<1> USE Moduli, ConsumedDataAssumption
<1>1. TypeOK /\ NetOrdered /\ TakenOrdered
  BY DEF IInv
<1>2. /\ Established /\ d.id = conn.id /\ conn.id = originator.id
      /\ UNCHANGED <<originator, net, closed>>
  BY <1>1 DEF HandleReceivedConnectedData, TakenOrdered
<1>3. conn.first => (SEQ_GT32(d.eip, conn.eip) <=> d.n > history.n)
  <2>1. SUFFICES ASSUME conn.first
                 PROVE  SEQ_GT32(d.eip, conn.eip) <=> d.n > history.n
    OBVIOUS
  <2>2. /\ d.eip = (originator.eipStart + d.n) % EipModulus
        /\ conn.eip = (originator.eipStart + history.n) % EipModulus
    BY <1>1, <1>2, <2>1 DEF NetOrdered, TakenOrdered
  <2>3. d.n - history.n <= Window /\ history.n - d.n <= Window
    BY <1>1, Types DEF NetOrdered, TakenOrdered
  <2>4. /\ originator.eipStart \in Nat /\ d.n \in Nat /\ history.n \in Nat
        /\ Window \in Nat /\ 2 * Window < EipModulus
    BY <1>1, Types
  <2> QED  BY <2>2, <2>3, <2>4, SeqCompare DEF SEQ_GT32
<1>4. conn.first /\ d.n > history.n =>
          (SEQ_LEQ16(d.count, conn.count) <=> d.version = history.version)
  <2>1. SUFFICES ASSUME conn.first, d.n > history.n
                 PROVE  SEQ_LEQ16(d.count, conn.count) <=> d.version = history.version
    OBVIOUS
  <2>2. /\ d.count = (originator.countStart + d.version) % CountModulus
        /\ conn.count = (originator.countStart + history.version) % CountModulus
        /\ Follows(history, d)
    BY <1>1, <1>2, <2>1 DEF NetOrdered, TakenOrdered
  <2>3. /\ d.version - history.version <= Window /\ history.version <= d.version
        /\ history.version - d.version <= Window
    BY <1>1, <2>2, Types DEF NetOrdered, TakenOrdered, Follows
  <2>4. /\ originator.countStart \in Nat /\ d.version \in Nat /\ history.version \in Nat
        /\ Window \in Nat /\ 2 * Window < CountModulus
    BY <1>1, Types
  <2>5. SEQ_LEQ16(d.count, conn.count) <=> ~(d.version > history.version)
    BY <2>2, <2>3, <2>4, SeqCompare DEF SEQ_LEQ16
  <2> QED  BY <2>3, <2>4, <2>5
<1>5. CASE conn.first /\ ~(d.n > history.n)
  <2>1. /\ conn' = [conn EXCEPT !.lastPackage = RegularWatchdog]
        /\ history' = [history EXCEPT !.quiet = 0]
        /\ UNCHANGED <<originator, net, output, runIdle, closed>>
    BY <1>3, <1>5 DEF HandleReceivedConnectedData
  <2>2. conn \in ConnectionObjects /\ history \in Histories
    BY <1>1 DEF TypeOK
  <2>3. /\ conn' \in ConnectionObjects
        /\ conn'.lastPackage = RegularWatchdog
        /\ conn'.state = conn.state /\ conn'.id = conn.id /\ conn'.first = conn.first
        /\ conn'.eip = conn.eip /\ conn'.count = conn.count /\ conn'.watchdog = conn.watchdog
    BY <2>1, <2>2 DEF ConnectionObjects
  <2>4. /\ history' \in Histories /\ history'.quiet = 0
        /\ history'.n = history.n /\ history'.version = history.version
        /\ history'.firstVersion = history.firstVersion /\ history'.silence = history.silence
    BY <2>1, <2>2 DEF Histories
  <2>5. TypeOK'
    BY <1>1, <2>1, <2>3, <2>4, Zenon DEF TypeOK
  <2>6. NetOrdered'
    BY <1>1, <2>1 DEF NetOrdered
  <2>7. TakenOrdered'
    BY <1>1, <2>1, <2>3, <2>4 DEF TakenOrdered, Follows
  <2>8. WatchdogMeasuresSilence' /\ LastPackageMeasuresQuiet'
    BY <1>1, <2>3, <2>4, Types
       DEF IInv, WatchdogMeasuresSilence, LastPackageMeasuresQuiet, Established
  <2> QED  BY <1>1, <2>1, <2>5, <2>6, <2>7, <2>8, Types DEF IInv
<1>6. CASE ~conn.first \/ d.n > history.n
  <2>1. d.n > history.n
    BY <1>1, <1>2, <1>6 DEF TakenOrdered
  <2>2. /\ HandleReceivedIoConnectionData(d)
        /\ conn' = [conn EXCEPT !.eip = d.eip, !.first = TRUE, !.count = d.count,
                                !.watchdog = RegularWatchdog,
                                !.lastPackage = RegularWatchdog]
        /\ history' = [n |-> d.n, version |-> d.version, silence |-> 0, quiet |-> 0,
                       firstVersion |-> IF conn.first THEN history.firstVersion
                                        ELSE d.version]
    BY <1>3, <1>6 DEF HandleReceivedConnectedData
  <2>3. /\ runIdle' = d.n
        /\ output' = output \/ output' = d.version
        /\ SEQ_LEQ16(d.count, conn.count) => output' = output
        /\ ~SEQ_LEQ16(d.count, conn.count) => output' = d.version
    BY <2>2 DEF HandleReceivedIoConnectionData, NotifyAssemblyConnectedDataReceived
  <2>4. /\ conn' \in ConnectionObjects
        /\ conn'.state = conn.state /\ conn'.id = conn.id /\ conn'.first = TRUE
        /\ conn'.eip = d.eip /\ conn'.count = d.count
        /\ conn'.watchdog = RegularWatchdog /\ conn'.lastPackage = RegularWatchdog
    <3>1. conn \in ConnectionObjects
      BY <1>1 DEF TypeOK
    <3> QED  BY <1>1, <2>2, <3>1, Types DEF ConnectionObjects
  <2>5. /\ history'.n = d.n /\ history'.version = d.version
        /\ history'.silence = 0 /\ history'.quiet = 0
        /\ conn.first => history'.firstVersion = history.firstVersion
        /\ ~conn.first => history'.firstVersion = d.version
    BY <2>2
  <2>6. history' \in Histories
    <3>1. (IF conn.first THEN history.firstVersion ELSE d.version) \in 0..MaxSent
      BY <1>1, Types
    <3> QED  BY <1>1, <2>2, <3>1, Types DEF Histories
  <2>7. /\ output <= d.version /\ output' >= output /\ output' <= d.version
        /\ output' \in 0..MaxSent
        /\ runIdle' >= runIdle /\ runIdle' \in 0..MaxSent
    BY <1>1, <1>2, <2>1, <2>3, Types DEF TakenOrdered
  <2>8. TypeOK'
    BY <1>1, <1>2, <2>4, <2>6, <2>7, Zenon DEF TypeOK
  <2>9. NetOrdered'
    BY <1>1, <1>2 DEF NetOrdered
  <2>10. history'.version # history'.firstVersion => output' = history'.version
    <3>1. CASE conn.first /\ d.version = history.version
      BY <1>1, <1>4, <2>1, <2>3, <2>5, <3>1 DEF TakenOrdered
    <3>2. CASE conn.first /\ d.version # history.version
      BY <1>4, <2>1, <2>3, <2>5, <3>2
    <3>3. CASE ~conn.first
      BY <2>5, <3>3
    <3> QED  BY <3>1, <3>2, <3>3
  <2>11. TakenOrdered'
    <3>1. ASSUME NEW f \in net, f.n > d.n
          PROVE  output' <= f.version /\ Follows(history', f)
      BY <1>1, <2>5, <2>7, <3>1, Types DEF NetOrdered, Follows
    <3>2. /\ d.n <= originator.n /\ originator.n <= d.n + Window
          /\ Follows(history', originator) /\ output' <= originator.version
          /\ d.eip = (originator.eipStart + d.n) % EipModulus
          /\ d.count = (originator.countStart + d.version) % CountModulus
      BY <1>1, <1>2, <2>5, <2>7, Types DEF NetOrdered, Follows
    <3> QED  BY <1>1, <1>2, <2>3, <2>4, <2>5, <2>10, <3>1, <3>2, Types DEF TakenOrdered
  <2>12. WatchdogMeasuresSilence' /\ LastPackageMeasuresQuiet'
    BY <2>4, <2>5 DEF WatchdogMeasuresSilence, LastPackageMeasuresQuiet, Established
  <2> QED  BY <2>7, <2>8, <2>9, <2>11, <2>12 DEF IInv
<1> QED  BY <1>5, <1>6

(* Waiting: neither watchdog wraps around once a datagram was taken.       *)
LEMMA ManageInvariant ==
    ASSUME IInv, NEW elapsed \in 1..MaxElapsed, ManageConnections(elapsed)
    PROVE  IInv'
<1> USE Moduli, ConsumedDataAssumption
<1>1. TypeOK /\ NetOrdered /\ TakenOrdered
  BY DEF IInv
<1>2. Established /\ UNCHANGED <<originator, net, output, runIdle>>
  BY DEF ManageConnections
<1>3. conn \in ConnectionObjects /\ history \in Histories
  BY <1>1 DEF TypeOK
<1>4. CASE Expires(elapsed)
  <2>1. /\ conn' = [conn EXCEPT !.state = "TimedOut"]
        /\ closed' = (conn.lastPackage = conn.watchdog)
        /\ UNCHANGED history
    BY <1>4 DEF ManageConnections, HandleIoConnectionTimeOut
  <2>2. /\ conn' \in ConnectionObjects /\ conn'.state = "TimedOut"
        /\ conn'.id = conn.id /\ conn'.first = conn.first
        /\ conn'.eip = conn.eip /\ conn'.count = conn.count
    BY <1>3, <2>1 DEF ConnectionObjects
  <2>3. closed' \in BOOLEAN
    BY <2>1, Zenon
  <2>4. TypeOK'
    BY <1>1, <1>2, <2>1, <2>2, <2>3, Zenon DEF TypeOK
  <2>5. NetOrdered' /\ TakenOrdered'
    BY <1>1, <1>2, <2>1, <2>2 DEF NetOrdered, TakenOrdered
  <2>6. WatchdogMeasuresSilence' /\ LastPackageMeasuresQuiet'
    BY <2>1, <2>2 DEF IInv, WatchdogMeasuresSilence, LastPackageMeasuresQuiet, Established
  <2> QED  BY <2>4, <2>5, <2>6 DEF IInv
<1>5. CASE ~Expires(elapsed)
  <2>1. /\ conn' = [conn EXCEPT !.watchdog = (@ + TimerModulus - elapsed) % TimerModulus,
                                !.lastPackage = LastPackageAfter(elapsed)]
        /\ history' = [history EXCEPT !.silence = Later(@, elapsed),
                                      !.quiet = Later(@, elapsed)]
        /\ UNCHANGED closed
    BY <1>5 DEF ManageConnections
  <2>2. elapsed \in Nat /\ elapsed < conn.watchdog
    BY <1>1, <1>5, Types DEF Expires
  <2>3. (conn.watchdog + TimerModulus - elapsed) % TimerModulus = conn.watchdog - elapsed
    BY <1>1, <2>2, Types, WrapBelow
  <2>4. /\ conn.watchdog + history.silence =
              IF conn.first THEN RegularWatchdog ELSE InitialWatchdog
        /\ history.quiet <= history.silence
        /\ conn.first => conn.lastPackage + history.quiet = RegularWatchdog
    BY <1>2 DEF IInv, WatchdogMeasuresSilence, LastPackageMeasuresQuiet
  <2>5. /\ Later(history.silence, elapsed) = history.silence + elapsed
        /\ Later(history.quiet, elapsed) = history.quiet + elapsed
        /\ history.silence + elapsed \in 0..InitialWatchdog
    BY <1>1, <2>2, <2>4, Types DEF Later
  <2>6. LastPackageAfter(elapsed) \in 0 .. TimerModulus - 1
    <3>1. conn.lastPackage + TimerModulus - elapsed \in Int
      BY <1>1, <2>2, Types
    <3> QED  BY <3>1, Wrap DEF LastPackageAfter
  <2>7. conn.first => LastPackageAfter(elapsed) = conn.lastPackage - elapsed
    <3>1. conn.first => elapsed <= conn.lastPackage
      BY <1>1, <2>2, <2>4, Types
    <3>2. conn.lastPackage \in 0 .. TimerModulus - 1
      BY <1>1, Types
    <3> QED  BY <2>2, <3>1, <3>2, WrapBelow DEF LastPackageAfter
  <2>8. /\ conn' \in ConnectionObjects
        /\ conn'.state = conn.state /\ conn'.id = conn.id /\ conn'.first = conn.first
        /\ conn'.eip = conn.eip /\ conn'.count = conn.count
        /\ conn'.watchdog = conn.watchdog - elapsed
        /\ conn'.lastPackage = LastPackageAfter(elapsed)
    <3>1. conn.watchdog - elapsed \in 0 .. TimerModulus - 1
      BY <1>1, <2>2, Types
    <3> QED  BY <1>3, <2>1, <2>3, <2>6, <3>1 DEF ConnectionObjects
  <2>9. /\ history' \in Histories
        /\ history'.n = history.n /\ history'.version = history.version
        /\ history'.firstVersion = history.firstVersion
        /\ history'.silence = history.silence + elapsed
        /\ history'.quiet = history.quiet + elapsed
    <3>1. history.quiet + elapsed \in 0..InitialWatchdog
      BY <1>1, <2>2, <2>4, <2>5, Types
    <3> QED  BY <1>3, <2>1, <2>5, <3>1 DEF Histories
  <2>10. TypeOK'
    BY <1>1, <1>2, <2>1, <2>8, <2>9, Zenon DEF TypeOK
  <2>11. NetOrdered' /\ TakenOrdered'
    BY <1>1, <1>2, <2>8, <2>9 DEF NetOrdered, TakenOrdered, Follows
  <2>12. WatchdogMeasuresSilence' /\ LastPackageMeasuresQuiet'
    BY <1>1, <1>2, <2>2, <2>4, <2>7, <2>8, <2>9, Types
       DEF WatchdogMeasuresSilence, LastPackageMeasuresQuiet, Established
  <2> QED  BY <2>10, <2>11, <2>12 DEF IInv
<1> QED  BY <1>4, <1>5

(* Every step keeps the invariant and replaces no value by an older one.   *)
LEMMA NextInvariant ==
    IInv /\ [Next]_vars => IInv' /\ [output' >= output /\ runIdle' >= runIdle]_vars
<1> SUFFICES ASSUME IInv, [Next]_vars
             PROVE  IInv' /\ (output' >= output /\ runIdle' >= runIdle)
  BY DEF vars
<1>1. output \in Nat /\ runIdle \in Nat
  BY ConsumedDataAssumption, Types DEF IInv
<1>2. CASE UNCHANGED vars
  BY <1>1, <1>2
     DEF vars, IInv, TypeOK, NetOrdered, TakenOrdered, WatchdogMeasuresSilence,
         LastPackageMeasuresQuiet, Established, Follows
<1>3. ASSUME NEW e \in Starts, NEW c \in Starts, ForwardOpen(e, c)
      PROVE  IInv' /\ (output' >= output /\ runIdle' >= runIdle)
  <2>1. UNCHANGED <<output, runIdle>>
    BY <1>3 DEF ForwardOpen
  <2>2. IInv'
    BY <1>3, ForwardOpenInvariant
  <2> QED  BY <1>1, <2>1, <2>2
<1>4. ASSUME NEW changed \in BOOLEAN, Produce(changed)
      PROVE  IInv' /\ (output' >= output /\ runIdle' >= runIdle)
  <2>1. UNCHANGED <<output, runIdle>>
    BY <1>4 DEF Produce
  <2>2. IInv'
    BY <1>4, ProduceInvariant
  <2> QED  BY <1>1, <2>1, <2>2
<1>5. ASSUME NEW d \in net, HandleReceivedConnectedData(d)
      PROVE  IInv' /\ (output' >= output /\ runIdle' >= runIdle)
  BY <1>5, ReceiveInvariant
<1>6. ASSUME NEW elapsed \in 1..MaxElapsed, ManageConnections(elapsed)
      PROVE  IInv' /\ (output' >= output /\ runIdle' >= runIdle)
  <2>1. UNCHANGED <<output, runIdle>>
    BY <1>6 DEF ManageConnections
  <2>2. IInv'
    BY <1>6, ManageInvariant
  <2> QED  BY <1>1, <2>1, <2>2
<1> QED  BY <1>2, <1>3, <1>4, <1>5, <1>6 DEF Next

(* What the connection holds and what is on the way stay in order.         *)
THEOREM Invariant == Spec => []IInv
BY InitInvariant, NextInvariant, PTL DEF Spec

(* Every number of the receiver keeps the width of its field.              *)
THEOREM TypeCorrect == Spec => []TypeOK
<1>1. IInv => TypeOK
  BY DEF IInv
<1> QED  BY <1>1, Invariant, PTL

(* HandleReceivedIoConnectionData leaves the newest data in the output     *)
(* assembly.                                                               *)
THEOREM LatestData == Spec => []LatestDataApplied
<1>1. IInv => LatestDataApplied
  BY DEF IInv, TakenOrdered, LatestDataApplied
<1> QED  BY <1>1, Invariant, PTL

(* The inactivity watchdog measures the time since the last new datagram.  *)
THEOREM WatchdogMeasures == Spec => []WatchdogMeasuresSilence
<1>1. IInv => WatchdogMeasuresSilence
  BY DEF IInv
<1> QED  BY <1>1, Invariant, PTL

(* Neither the data nor the run/idle state of an older datagram replaces   *)
(* that of a newer one.                                                    *)
THEOREM NeverGoesBack == Spec => OutputNeverGoesBack
BY Invariant, NextInvariant, PTL DEF Spec, OutputNeverGoesBack

(* A time-out closes the session of an originator that has gone silent,    *)
(* and of no other one.                                                    *)
THEOREM ClosedOnSilence == Spec => SessionClosedOnSilence
<1>1. IInv /\ [Next]_vars =>
        [conn.first /\ conn'.state = "TimedOut" /\ Established
            => closed' = (history.silence = history.quiet)]_vars
  <2>1. SUFFICES ASSUME IInv, [Next]_vars, conn.first, conn'.state = "TimedOut", Established
                 PROVE  closed' = (history.silence = history.quiet)
    BY DEF vars
  <2>2. conn \in ConnectionObjects /\ conn.state = "Established"
    BY <2>1 DEF IInv, TypeOK, Established
  <2>3. ~ UNCHANGED vars
    BY <2>1, <2>2 DEF vars
  <2>4. ASSUME NEW d \in net, HandleReceivedConnectedData(d)
        PROVE  FALSE
    BY <2>1, <2>2, <2>4 DEF HandleReceivedConnectedData, ConnectionObjects
  <2>5. PICK elapsed \in 1..MaxElapsed : ManageConnections(elapsed)
    BY <2>1, <2>2, <2>3, <2>4 DEF Next, ForwardOpen, Produce
  <2>6. Expires(elapsed)
    BY <2>1, <2>2, <2>5 DEF ManageConnections, ConnectionObjects
  <2>7. closed' = (conn.lastPackage = conn.watchdog)
    BY <2>5, <2>6 DEF ManageConnections, HandleIoConnectionTimeOut
  <2>8. (conn.lastPackage = conn.watchdog) <=> (history.silence = history.quiet)
    <3>1. TypeOK /\ RegularWatchdog \in Nat /\ InitialWatchdog \in Nat
      BY <2>1, Moduli DEF IInv
    <3>2. /\ conn.watchdog + history.silence = RegularWatchdog
          /\ conn.lastPackage + history.quiet = RegularWatchdog
      BY <2>1 DEF IInv, WatchdogMeasuresSilence, LastPackageMeasuresQuiet
    <3> QED  BY <3>1, <3>2, Moduli, Types
  <2> QED  BY <2>7, <2>8, Zenon
<1> QED  BY <1>1, Invariant, PTL DEF Spec, SessionClosedOnSilence
=============================================================================
