--------------------------- MODULE Objects_proofs ---------------------------
(***************************************************************************)
(* What the message router may do to the objects of the device, for every  *)
(* request and every sequence of restarts and kills; and, from what the    *)
(* decoder of a path consumes, that no request leaves a value behind that  *)
(* its decoder would refuse, that it reaches the object its sender named,  *)
(* and that its answer is true.                                            *)
(***************************************************************************)
EXTENDS Objects, ConnectionList_proofs

(* The objects a request can find: records with these fields.              *)
Shaped(o) ==
    /\ DOMAIN o = {"qos", "tcpip", "identity", "assembly"}
    /\ DOMAIN o.identity = {"flags", "shown", "ext_status"}

(* No service touches the Identity object, and the DSCP values in use only *)
(* change by a Reset, to those of the QoS object.                          *)
LEMMA SetAttributeSingleEffect ==
    ASSUME NEW o, Shaped(o), NEW dscp, NEW p, NEW data, NEW size
    PROVE  LET e == SetAttributeSingle(o, dscp, p, data, size)
           IN Shaped(e.objects) /\ e.objects.identity = o.identity /\ e.dscp = dscp
<1>1. ASSUME NEW c, NEW i, NEW n, NEW v
      PROVE  /\ Shaped(WithValue(o, c, i, n, v))
             /\ WithValue(o, c, i, n, v).identity = o.identity
  BY DEF Shaped, WithValue
<1>2. ASSUME NEW a, NEW w, NEW f
      PROVE  Effect(a, w, dscp, f).objects = w /\ Effect(a, w, dscp, f).dscp = dscp
  BY DEF Effect
<1> QED
  BY <1>1, <1>2 DEF SetAttributeSingle

(* Reset: the same, but the DSCP values of the QoS object come into use.   *)
LEMMA ResetEffect ==
    ASSUME NEW o, Shaped(o), NEW dscp, NEW data, NEW size
    PROVE  LET e == IdentityObjectPreResetCallback(o, dscp, data, size)
           IN /\ Shaped(e.objects) /\ e.objects.identity = o.identity
              /\ e.dscp = dscp \/ e.dscp = e.objects.qos
<1> DEFINE initial == ResetDeviceToInitialConfiguration(o)
<1>1. Shaped(initial) /\ initial.identity = o.identity
  BY DEF Shaped, ResetDeviceToInitialConfiguration
<1> HIDE DEF initial
<1>2. ASSUME NEW a, NEW w, NEW d, NEW f
      PROVE  Effect(a, w, d, f).objects = w /\ Effect(a, w, d, f).dscp = d
  BY DEF Effect
<1> QED
  BY <1>1, <1>2 DEF IdentityObjectPreResetCallback, initial

(* The router: one of these, or nothing.                                   *)
LEMMA RouterEffect ==
    ASSUME NEW o, Shaped(o), NEW dscp, NEW service, NEW r
    PROVE  LET e == NotifyMessageRouter(o, dscp, service, r)
           IN /\ Shaped(e.objects) /\ e.objects.identity = o.identity
              /\ \/ e.dscp = dscp
                 \/ service = "Reset" /\ e.dscp = e.objects.qos
<1>1. ASSUME NEW a
      PROVE  /\ Effect(a, o, dscp, "none").objects = o
             /\ Effect(a, o, dscp, "none").dscp = dscp
  BY DEF Effect
<1> QED
  BY <1>1, SetAttributeSingleEffect, ResetEffect DEF NotifyMessageRouter

-----------------------------------------------------------------------------
(* The extended status that is kept is the one that was set last, and the  *)
(* one that is shown follows from it.                                      *)
StatusKept ==
    /\ objects.identity.ext_status = commanded.ext
    /\ StatusShowsFault

(* What is promised is in RAM as long as the stack runs, and in the file   *)
(* as long as nobody writes it.                                            *)
PromiseKept ==
    /\ phase \in {"down", "up", "storing", "booting"}
    /\ promise # NoPromise => promise = <<promise[1]>>
    /\ promise # NoPromise /\ phase # "down" => promise = <<objects.qos>>
    /\ promise # NoPromise /\ phase \in {"down", "up"} => promise = cfg.qos

IInv ==
    /\ Shaped(objects)
    /\ DOMAIN cfg = {"qos", "tcpip"}
    /\ StatusKept
    /\ PromiseKept

(* A new process: no status, no promise.                                   *)
LEMMA InitIInv == Init => IInv
<1> SUFFICES ASSUME Init PROVE IInv
  OBVIOUS
<1>1. Shaped(objects) /\ objects.identity = [flags |-> {}, shown |-> 0, ext_status |-> 0]
  BY DEF Init, DefaultObjects, Shaped
<1>2. ~ Faulted({})
  BY DEF Faulted
<1> QED
  BY <1>1, <1>2 DEF Init, IInv, StatusKept, StatusShowsFault, PromiseKept

(* A step that sets nothing but the Identity object.                       *)
LEMMA IdentityStepIInv ==
    ASSUME IInv, NEW id, IdentityStep(id), DOMAIN id = {"flags", "shown", "ext_status"},
           id.ext_status = commanded'.ext,
           id.shown = IF commanded'.merged /\ Faulted(id.flags) THEN MajorFault ELSE commanded'.ext
    PROVE  IInv'
<1>1. /\ Shaped(objects') /\ objects'.identity = id /\ objects'.qos = objects.qos
  BY DEF IInv, IdentityStep, Shaped
<1>2. UNCHANGED <<phase, cfg, promise>>
  BY DEF IdentityStep
<1> QED
  BY <1>1, <1>2 DEF IInv, StatusKept, StatusShowsFault, PromiseKept

(* MergeStatusAndExtStatus writes what is shown and nothing else.          *)
LEMMA MergeShows ==
    ASSUME NEW id, DOMAIN id = {"flags", "shown", "ext_status"}
    PROVE  LET m == MergeStatusAndExtStatus(id)
           IN /\ DOMAIN m = DOMAIN id /\ m.ext_status = id.ext_status /\ m.flags = id.flags
              /\ m.shown = IF Faulted(m.flags) THEN MajorFault ELSE m.ext_status
BY DEF MergeStatusAndExtStatus

(* Every step keeps the invariant.                                         *)
LEMMA NextIInv == IInv /\ [Next]_vars => IInv'
<1> SUFFICES ASSUME IInv, [Next]_vars PROVE IInv'
  OBVIOUS
<1> USE DEF IInv
<1>1. ASSUME NEW q \in Requests, HandleRequest(q) PROVE IInv'
  <2>1. PICK r :
          LET e == NotifyMessageRouter(objects, s_active_dscp, q.service, r)
          IN /\ phase = "up" /\ objects' = e.objects
             /\ \/ phase' = phase /\ cfg' = cfg
                \/ phase' = "storing" /\ cfg' = [cfg EXCEPT !.qos = <<>>]
                \/ phase' = phase /\ cfg' = [cfg EXCEPT !.tcpip = "empty"]
             /\ promise' = IF e.objects.qos = objects.qos THEN promise ELSE NoPromise
             /\ commanded' = commanded
    BY <1>1 DEF HandleRequest
  <2>2. Shaped(objects') /\ objects'.identity = objects.identity
    BY <2>1, RouterEffect
  <2>3. DOMAIN cfg' = {"qos", "tcpip"} /\ StatusKept'
    BY <2>1, <2>2 DEF StatusKept, StatusShowsFault
  <2>4. promise' = IF objects'.qos = objects.qos THEN promise ELSE NoPromise
    BY <2>1
  <2>5. /\ phase = "up" /\ phase' \in {"up", "storing"}
        /\ phase' = "up" => cfg'.qos = cfg.qos
    BY <2>1
  <2>6. PromiseKept'
    BY <2>4, <2>5 DEF PromiseKept
  <2> QED
    BY <2>2, <2>3, <2>6
<1>2. ASSUME SendReply PROVE IInv'
  BY <1>2 DEF SendReply, StatusKept, StatusShowsFault, PromiseKept
<1>3. ASSUME NvQosStore PROVE IInv'
  BY <1>3 DEF NvQosStore, StatusKept, StatusShowsFault, PromiseKept
<1>4. ASSUME Start PROVE IInv'
  <2> DEFINE o == CipStackInit(objects)
  <2>1. Shaped(o) /\ o.identity = objects.identity
    BY DEF CipStackInit, Shaped
  <2>2. /\ Shaped(NvQosLoad(o)) /\ NvQosLoad(o).identity = o.identity
        /\ cfg.qos # <<>> => NvQosLoad(o).qos = cfg.qos[1]
    <3> HIDE DEF o
    <3> QED  BY <2>1 DEF NvQosLoad, Shaped
  <2>3. Shaped(objects') /\ objects'.identity = objects.identity
    BY <1>4, <2>1, <2>2 DEF Start
  <2>4. DOMAIN cfg' = {"qos", "tcpip"} /\ StatusKept'
    BY <1>4, <2>3 DEF Start, StatusKept, StatusShowsFault
  <2>5. promise # NoPromise => promise = <<objects'.qos>>
    BY <1>4, <2>2 DEF Start, PromiseKept, NoPromise
  <2>6. PromiseKept'
    BY <1>4, <2>5 DEF Start, PromiseKept
  <2> QED
    BY <2>3, <2>4, <2>6
<1>5. ASSUME Stop PROVE IInv'
  BY <1>5 DEF Stop, StatusKept, StatusShowsFault, PromiseKept
<1>6. ASSUME Crash PROVE IInv'
  <2>1. /\ Shaped(objects')
        /\ objects'.identity = [flags |-> {}, shown |-> 0, ext_status |-> 0]
    BY <1>6 DEF Crash, DefaultObjects, Shaped
  <2>2. StatusKept'
    BY <1>6, <2>1 DEF Crash, StatusKept, StatusShowsFault, Faulted
  <2>3. PromiseKept'
    BY <1>6 DEF Crash, PromiseKept
  <2> QED
    BY <1>6, <2>1, <2>2, <2>3 DEF Crash
<1>7. ASSUME NEW ext, CipIdentitySetExtendedDeviceStatus(ext) PROVE IInv'
  <2> DEFINE id == [objects.identity EXCEPT !.ext_status = ext]
  <2>1. DOMAIN id = {"flags", "shown", "ext_status"} /\ id.ext_status = ext
    BY DEF Shaped
  <2> HIDE DEF id
  <2>2. IdentityStep(MergeStatusAndExtStatus(id)) /\ commanded' = [ext |-> ext, merged |-> TRUE]
    BY <1>7 DEF CipIdentitySetExtendedDeviceStatus, id
  <2>3. commanded'.ext = ext /\ commanded'.merged
    BY <2>2
  <2> QED
    BY <2>1, <2>2, <2>3, MergeShows, IdentityStepIInv
<1>8. ASSUME NEW f \in FaultFlags,
             CipIdentitySetStatusFlags({f}) \/ CipIdentityClearStatusFlags({f})
      PROVE  IInv'
  <2>1. PICK id : /\ IdentityStep(MergeStatusAndExtStatus(id))
                  /\ commanded' = [ext |-> commanded.ext, merged |-> TRUE]
                  /\ DOMAIN id = {"flags", "shown", "ext_status"}
                  /\ id.ext_status = objects.identity.ext_status
    <3>1. CASE CipIdentitySetStatusFlags({f})
      <4> WITNESS [objects.identity EXCEPT !.flags = @ \cup {f}]
      <4> QED  BY <3>1 DEF CipIdentitySetStatusFlags, Shaped
    <3>2. CASE CipIdentityClearStatusFlags({f})
      <4> WITNESS [objects.identity EXCEPT !.flags = @ \ {f}]
      <4> QED  BY <3>2 DEF CipIdentityClearStatusFlags, Shaped
    <3> QED  BY <1>8, <3>1, <3>2
  <2>2. commanded'.ext = commanded.ext /\ commanded'.merged
    BY <2>1
  <2> QED
    BY <2>1, <2>2, MergeShows, IdentityStepIInv DEF StatusKept
<1>9. ASSUME NEW s \in DeviceStatuses, SetDeviceStatus(s.flags, s.ext) PROVE IInv'
  <2> DEFINE id == [flags |-> s.flags, shown |-> s.ext, ext_status |-> s.ext]
  <2>1. /\ DOMAIN id = {"flags", "shown", "ext_status"}
        /\ id.shown = s.ext /\ id.ext_status = s.ext
    OBVIOUS
  <2>2. IdentityStep(id) /\ commanded' = [ext |-> s.ext, merged |-> FALSE]
    BY <1>9 DEF SetDeviceStatus
  <2> HIDE DEF id
  <2>3. commanded'.ext = s.ext /\ ~ commanded'.merged
    BY <2>2
  <2> QED
    BY <2>1, <2>2, <2>3, IdentityStepIInv
<1>10. ASSUME UNCHANGED vars PROVE IInv'
  BY <1>10 DEF vars, StatusKept, StatusShowsFault, PromiseKept
<1> QED
  BY <1>1, <1>2, <1>3, <1>4, <1>5, <1>6, <1>7, <1>8, <1>9, <1>10 DEF Next, DeviceStep

-----------------------------------------------------------------------------
(* The invariant holds for every set of requests and any number of starts. *)
THEOREM Invariance == Spec => []IInv
BY InitIInv, NextIInv, PTL DEF Spec

(* MergeStatusAndExtStatus: a major fault shows as long as its flag is set *)
(* and gives the extended status back, whatever the application writes     *)
(* with SetDeviceStatus in between, which shows as given until a merge.    *)
THEOREM FaultShown == Spec => []StatusShowsFault
<1>1. IInv => StatusShowsFault
  BY DEF IInv, StatusKept
<1> QED  BY <1>1, Invariance, PTL

(* NvQosStore and NvQosLoad: what was written completely is there after    *)
(* every restart.                                                          *)
THEOREM StoredSurvives == Spec => []SettingsDurable
<1>1. IInv => SettingsDurable
  BY DEF IInv, PromiseKept, SettingsDurable
<1> QED  BY <1>1, Invariance, PTL

(* CipQosUpdateUsedSetQosValues: when the stack comes up the DSCP values   *)
(* in use are those of the QoS object, and no request but a reset, which   *)
(* takes over all of them, changes one until the stack goes down.          *)
THEOREM ActivatedAtRestart == Spec => ActivatedByRestart
<1> DEFINE comesUp == phase \in {"down", "booting"} /\ phase' = "up"
           killed == objects' = DefaultObjects /\ phase' = "down"
           reset == request'.service = "Reset" /\ s_active_dscp' = objects'.qos
           Step == /\ comesUp => s_active_dscp' = objects'.qos
                   /\ s_active_dscp' # s_active_dscp => comesUp \/ reset \/ killed
<1>1. IInv /\ [Next]_vars => [Step]_vars
  <2> SUFFICES ASSUME IInv, Next PROVE Step
    OBVIOUS
  <2>1. ASSUME NEW q \in Requests, HandleRequest(q) PROVE Step
    <3>1. PICK r :
            LET e == NotifyMessageRouter(objects, s_active_dscp, q.service, r)
            IN objects' = e.objects /\ s_active_dscp' = e.dscp
      BY <2>1 DEF HandleRequest
    <3>2. request'.service = q.service /\ ~ comesUp
      BY <2>1 DEF HandleRequest
    <3> HIDE DEF comesUp
    <3> QED
      BY <3>1, <3>2, RouterEffect DEF IInv
  <2>2. ASSUME Crash PROVE Step
    BY <2>2 DEF Crash
  <2>3. ASSUME NvQosStore PROVE Step
    BY <2>3 DEF NvQosStore
  <2>4. ASSUME Start PROVE Step
    BY <2>4 DEF Start
  <2>5. ASSUME DeviceStep, ~ Crash, ~ NvQosStore, ~ Start
        PROVE  UNCHANGED s_active_dscp /\ ~ comesUp
    BY <2>5 DEF DeviceStep, SendReply, Stop, IdentityStep,
         CipIdentitySetExtendedDeviceStatus, CipIdentitySetStatusFlags,
         CipIdentityClearStatusFlags, SetDeviceStatus
  <2> QED
    BY <2>1, <2>2, <2>3, <2>4, <2>5 DEF Next
<1> QED
  BY <1>1, Invariance, PTL DEF Spec, ActivatedByRestart

-----------------------------------------------------------------------------
(* Induction over the turns of a loop, for a set of numbers instead of a   *)
(* predicate: a first number outside of the set would follow one in it.    *)
LEMMA UpTo ==
    ASSUME NEW S, NEW m \in Nat, 0 \in S, \A n \in 1..m : n - 1 \in S => n \in S
    PROVE  \A n \in 0..m : n \in S
<1> DEFINE bad == {n \in 0..m : n \notin S}
           k == Min(bad)
<1> SUFFICES ASSUME bad # {} PROVE FALSE
  OBVIOUS
<1>1. k \in bad /\ \A n \in bad : k <= n
  BY MinIsLeast
<1> HIDE DEF k
<1>2. k \in 1..m /\ k - 1 \in 0..m /\ ~ (k <= k - 1)
  BY <1>1
<1>3. k - 1 \in S
  BY <1>1, <1>2
<1> QED
  BY <1>1, <1>2, <1>3

(* The decoder of a path: the state before the first turn of its loop, one *)
(* turn, and the states of all turns.                                      *)
DecodeStart == [ok |-> TRUE, pos |-> 2, words |-> 0, path |-> Path(0, 0, 0)]

DecodeTurn(b, s) == IF s.ok /\ s.words < b[1] THEN DecodeSegment(b, s) ELSE s

Turns(b, after) ==
    /\ after[0] = DecodeStart
    /\ \A n \in 1..b[1] : after[n] = DecodeTurn(b, after[n - 1])

(* The turns of the loop: the recursive function of DecodePaddedEPath      *)
(* exists, and it is the one that the definition chooses.                  *)
LEMMA DecoderWalks ==
    ASSUME NEW b, b[1] \in Nat
    PROVE  \E after : DecodePaddedEPath(b) = after[b[1]] /\ Turns(b, after)
<1> DEFINE Turn(s) == DecodeTurn(b, s)
           Walks(m, f) == f = [n \in 0..m |-> IF n = 0 THEN DecodeStart ELSE Turn(f[n - 1])]
           S == {m \in Nat : \E f : Walks(m, f)}
<1> HIDE DEF Turn
<1>1. 0 \in S
  <2>1. Walks(0, [n \in 0..0 |-> DecodeStart])
    OBVIOUS
  <2> QED  BY <2>1
<1>2. ASSUME NEW m \in 1..b[1], m - 1 \in S PROVE m \in S
  <2>1. PICK f : Walks(m - 1, f)
    BY <1>2
  <2> DEFINE g == [n \in 0..m |-> IF n = m THEN Turn(f[m - 1]) ELSE f[n]]
  <2>2. \A n \in 0..m : g[n] = IF n = 0 THEN DecodeStart ELSE Turn(g[n - 1])
    BY <2>1
  <2>3. Walks(m, g)
    BY <2>2
  <2>4. m \in Nat
    OBVIOUS
  <2> HIDE DEF Walks, g
  <2> QED  BY <2>3, <2>4
<1>3. \E f : Walks(b[1], f)
  <2> HIDE DEF S
  <2>1. b[1] \in 0..b[1]
    OBVIOUS
  <2>2. b[1] \in S
    BY <1>1, <1>2, <2>1, UpTo
  <2> QED  BY <2>2 DEF S
<1> DEFINE after[n \in 0..b[1]] ==
             IF n = 0 THEN DecodeStart
             ELSE LET s == after[n - 1]
                  IN IF s.ok /\ s.words < b[1] THEN DecodeSegment(b, s) ELSE s
<1>4. DecodePaddedEPath(b) = after[b[1]]
  BY Zenon DEF DecodePaddedEPath, DecodeStart
<1>5. Walks(b[1], after)
  BY <1>3, Zenon DEF Turn, DecodeTurn
<1> HIDE DEF after
<1>6. \A n \in 0..b[1] : after[n] = IF n = 0 THEN DecodeStart ELSE Turn(after[n - 1])
  BY <1>5
<1>7. after[0] = DecodeStart /\ \A n \in 1..b[1] : after[n] = Turn(after[n - 1])
  BY <1>6
<1> QED
  BY <1>4, <1>7 DEF Turn, Turns

(* Its position never runs ahead of the words that it has counted; it may  *)
(* fall behind, by a 16 bit member id.                                     *)
DecoderState(s) ==
    /\ DOMAIN s = {"ok", "pos", "words", "path"}
    /\ s.pos \in Nat /\ s.words \in Nat
    /\ 2 <= s.pos /\ s.pos <= 2 * s.words + 2

(* One turn of the loop keeps that.                                        *)
LEMMA SegmentAdvances ==
    ASSUME NEW b, NEW s, DecoderState(s)
    PROVE  DecoderState(DecodeSegment(b, s))
<1> DEFINE type == b[s.pos]
<1>1. \A p : DecoderState([s EXCEPT !.path = p, !.pos = @ + 2, !.words = @ + 1])
  BY DEF DecoderState
<1>2. \A p : DecoderState([s EXCEPT !.path = p, !.pos = @ + 4, !.words = @ + 2])
  BY DEF DecoderState
<1>3. ASSUME type \in {MemberId, MemberId + 1}
      PROVE  DecoderState([s EXCEPT !.pos = @ + 2, !.words = @ + 1 + (type - MemberId)])
  BY <1>3 DEF DecoderState, MemberId
<1>4. DecoderState([s EXCEPT !.ok = FALSE])
  BY DEF DecoderState
<1> QED
  BY <1>1, <1>2, <1>3, <1>4 DEF DecodeSegment

(* And so does the loop.                                                   *)
LEMMA DecoderStops ==
    ASSUME NEW b, b[1] \in Nat
    PROVE  DecoderState(DecodePaddedEPath(b))
<1>1. PICK after : DecodePaddedEPath(b) = after[b[1]] /\ Turns(b, after)
  BY DecoderWalks
<1> DEFINE S == {n \in Nat : DecoderState(after[n])}
<1>2. 0 \in S
  BY <1>1 DEF Turns, DecodeStart, DecoderState
<1>3. ASSUME NEW n \in 1..b[1], n - 1 \in S PROVE n \in S
  <2>1. n \in Nat /\ DecoderState(after[n - 1]) /\ after[n] = DecodeTurn(b, after[n - 1])
    BY <1>1, <1>3 DEF Turns
  <2>2. DecoderState(DecodeTurn(b, after[n - 1]))
    BY <2>1, SegmentAdvances DEF DecodeTurn
  <2> QED  BY <2>1, <2>2
<1>4. b[1] \in S
  <2> HIDE DEF S
  <2>1. b[1] \in 0..b[1]
    OBVIOUS
  <2> QED  BY <1>2, <1>3, <2>1, UpTo
<1> QED
  BY <1>1, <1>4

-----------------------------------------------------------------------------
(* What a path means, against what the decoder reads in it.  Each type of  *)
(* segment sets one field, or none.                                        *)
LEMMA LogicalTypes ==
    /\ DOMAIN Logical = {"class_id", "instance_number", "attribute_number"}
    /\ \A f \in DOMAIN Logical :
          /\ NarrowFields(Logical[f]) = {f} /\ WideFields(Logical[f]) = {}
          /\ NarrowFields(Logical[f] + 1) = {} /\ WideFields(Logical[f] + 1) = {f}
          /\ Logical[f] \notin {MemberId, MemberId + 1}
          /\ Logical[f] + 1 \notin {MemberId, MemberId + 1}
    /\ NarrowFields(MemberId) = {} /\ WideFields(MemberId) = {}
    /\ NarrowFields(MemberId + 1) = {} /\ WideFields(MemberId + 1) = {}
    /\ \A t : t \notin SegmentTypes =>
          NarrowFields(t) = {} /\ WideFields(t) = {} /\ t \notin {MemberId, MemberId + 1}
BY DEF Logical, MemberId, NarrowFields, WideFields, SegmentTypes

(* What a logical segment does to the state.                               *)
Takes(s, seg, d) ==
    /\ d.ok = s.ok
    /\ d.pos = s.pos + (IF seg.wide /\ seg.field # "member" THEN 4 ELSE 2)
    /\ d.words = s.words + (IF seg.wide THEN 2 ELSE 1)
    /\ d.path = IF seg.field = "member" THEN s.path
                ELSE [s.path EXCEPT ![seg.field] = seg.value]

(* One turn at a logical segment.                                          *)
LEMMA SegmentRead ==
    ASSUME NEW b, NEW s, DecoderState(s), NEW seg \in Segment, seg.field # "other",
           SegmentAt(b, s.pos, seg)
    PROVE  Takes(s, seg, DecodeSegment(b, s))
<1> DEFINE type == b[s.pos]
           d == DecodeSegment(b, s)
           f == seg.field
           v == seg.value
<1>1. CASE f = "member"
  <2>1. type = IF seg.wide THEN MemberId + 1 ELSE MemberId
    BY <1>1 DEF SegmentAt
  <2>2. NarrowFields(type) = {} /\ WideFields(type) = {}
    BY <2>1, LogicalTypes
  <2>3. type \in {MemberId, MemberId + 1} /\ type - MemberId = IF seg.wide THEN 1 ELSE 0
    BY <2>1 DEF MemberId
  <2>4. d = [s EXCEPT !.pos = @ + 2, !.words = @ + 1 + (type - MemberId)]
    BY <2>2, <2>3 DEF DecodeSegment
  <2> QED  BY <1>1, <2>3, <2>4 DEF DecoderState, Takes
<1>2. ASSUME f # "member"
      PROVE  f \in DOMAIN Logical /\ type = IF seg.wide THEN Logical[f] + 1 ELSE Logical[f]
  BY <1>2 DEF SegmentAt, Segment
<1>3. WithFields(s.path, {f}, v) = [s.path EXCEPT ![f] = v]
  BY DEF WithFields
<1>4. CASE f # "member" /\ ~ seg.wide
  <2>1. NarrowFields(type) = {f} /\ WideFields(type) = {} /\ type \notin {MemberId, MemberId + 1}
    BY <1>2, <1>4, LogicalTypes
  <2>2. v = GetUsint(b, s.pos + 1)
    BY <1>4 DEF SegmentAt
  <2>3. d = [s EXCEPT !.path = WithFields(@, {f}, v), !.pos = @ + 2, !.words = @ + 1]
    BY <2>1, <2>2 DEF DecodeSegment
  <2> QED  BY <1>3, <1>4, <2>3 DEF DecoderState, Takes
<1>5. CASE f # "member" /\ seg.wide
  <2>1. NarrowFields(type) = {} /\ WideFields(type) = {f} /\ type \notin {MemberId, MemberId + 1}
    BY <1>2, <1>5, LogicalTypes
  <2>2. v = GetUint(b, s.pos + 2)
    BY <1>5 DEF SegmentAt
  <2>3. d = [s EXCEPT !.path = WithFields(@, {f}, v), !.pos = @ + 4, !.words = @ + 2]
    BY <2>1, <2>2 DEF DecodeSegment
  <2> QED  BY <1>3, <1>5, <2>3 DEF DecoderState, Takes
<1> QED
  BY <1>1, <1>4, <1>5

(* One turn at a segment of another type.                                  *)
LEMMA SegmentRefused ==
    ASSUME NEW b, NEW s, DecoderState(s), b[s.pos] \notin SegmentTypes
    PROVE  DecodeSegment(b, s).ok = FALSE
<1>1. DecodeSegment(b, s) = [s EXCEPT !.ok = FALSE]
  BY LogicalTypes DEF DecodeSegment
<1> QED
  BY <1>1 DEF DecoderState

(* One more segment: it replaces the value of its kind.                    *)
LEMMA NamedStep ==
    ASSUME NEW segments \in Seq(Segment), NEW n \in 1..Len(segments)
    PROVE  Named(segments, n) =
             IF segments[n].field \in DOMAIN Logical
             THEN [Named(segments, n - 1) EXCEPT ![segments[n].field] = segments[n].value]
             ELSE Named(segments, n - 1)
<1> DEFINE Given(m, f) == {j \in 1..m : segments[j].field = f}
           Latest(g) == IF g = {} THEN 0 ELSE segments[CHOOSE j \in g : \A k \in g : k <= j].value
           new == segments[n].field
<1>1. \A m : Named(segments, m) = [f \in DOMAIN Logical |-> Latest(Given(m, f))]
  BY DEF Named
<1>2. \A f : f # new => Given(n, f) = Given(n - 1, f)
  OBVIOUS
<1>3. Latest(Given(n, new)) = segments[n].value
  <2>1. n \in Given(n, new) /\ \A k \in Given(n, new) : k <= n /\ k \in Nat
    OBVIOUS
  <2>2. ASSUME NEW j \in Given(n, new), \A k \in Given(n, new) : k <= j PROVE j = n
    BY <2>1, <2>2
  <2> DEFINE g == Given(n, new)
  <2> HIDE DEF g
  <2>3. (CHOOSE j \in g : \A k \in g : k <= j) = n
    BY <2>1, <2>2 DEF g
  <2> QED  BY <2>1, <2>3 DEF g
<1> HIDE DEF Given, Latest, new
<1> QED
  BY <1>1, <1>2, <1>3 DEF new

(* The ends of the segments.                                               *)
LEMMA EndsWalk ==
    ASSUME NEW segments \in Seq(Segment)
    PROVE  /\ Ends(segments)[0] = 2
           /\ \A n \in 1..Len(segments) :
                 Ends(segments)[n] = Ends(segments)[n - 1] + (IF segments[n].wide THEN 4 ELSE 2)
<1> DEFINE N == Len(segments)
           More(n) == IF segments[n].wide THEN 4 ELSE 2
           Walks(m, f) == f = [n \in 0..m |-> IF n = 0 THEN 2 ELSE f[n - 1] + More(n)]
           S == {m \in Nat : \E f : Walks(m, f)}
<1> N \in Nat
  OBVIOUS
<1> HIDE DEF N, More
<1>1. 0 \in S
  <2>1. Walks(0, [n \in 0..0 |-> 2])
    OBVIOUS
  <2> QED  BY <2>1
<1>2. ASSUME NEW m \in 1..N, m - 1 \in S PROVE m \in S
  <2>1. PICK f : Walks(m - 1, f)
    BY <1>2
  <2> DEFINE g == [n \in 0..m |-> IF n = m THEN f[m - 1] + More(m) ELSE f[n]]
  <2>2. \A n \in 0..m : g[n] = IF n = 0 THEN 2 ELSE g[n - 1] + More(n)
    BY <2>1
  <2>3. Walks(m, g)
    BY <2>2
  <2>4. m \in Nat
    OBVIOUS
  <2> HIDE DEF Walks, g
  <2> QED  BY <2>3, <2>4
<1>3. \E f : Walks(N, f)
  <2> HIDE DEF S
  <2>1. N \in 0..N
    OBVIOUS
  <2>2. N \in S
    BY <1>1, <1>2, <2>1, UpTo
  <2> QED  BY <2>2 DEF S
<1>4. Walks(N, Ends(segments))
  BY <1>3, Zenon DEF Ends, More, N
<1> DEFINE e == Ends(segments)
<1> HIDE DEF e
<1>5. \A n \in 0..N : e[n] = IF n = 0 THEN 2 ELSE e[n - 1] + More(n)
  BY <1>4 DEF e
<1>6. e[0] = 2 /\ \A n \in 1..N : e[n] = e[n - 1] + More(n)
  BY <1>5
<1> QED
  BY <1>6 DEF e, More, N

(* They grow by two octets at least.                                       *)
LEMMA EndsGrow ==
    ASSUME NEW segments \in Seq(Segment)
    PROVE  \A n \in 0..Len(segments) :
              /\ Ends(segments)[n] \in Nat
              /\ \A k \in 0..n : Ends(segments)[k] + 2 * (n - k) <= Ends(segments)[n]
<1> DEFINE e == Ends(segments)
           N == Len(segments)
           Grown(n) == e[n] \in Nat /\ \A k \in 0..n : e[k] \in Nat /\ e[k] + 2 * (n - k) <= e[n]
           S == {n \in Nat : Grown(n)}
<1> N \in Nat
  OBVIOUS
<1>1. e[0] = 2 /\ \A n \in 1..N : e[n] = e[n - 1] + 2 \/ e[n] = e[n - 1] + 4
  BY EndsWalk
<1> HIDE DEF e, N
<1>2. 0 \in S
  BY <1>1
<1>3. ASSUME NEW n \in 1..N, n - 1 \in S PROVE n \in S
  <2>1. e[n - 1] \in Nat /\ \A k \in 0..(n - 1) : e[k] \in Nat /\ e[k] + 2 * (n - 1 - k) <= e[n - 1]
    BY <1>3
  <2>2. n \in Nat /\ e[n] \in Nat /\ e[n - 1] + 2 <= e[n]
    <3>1. (e[n] = e[n - 1] + 2 \/ e[n] = e[n - 1] + 4) /\ n \in Nat
      BY <1>1
    <3> QED  BY <2>1, <3>1
  <2>3. ASSUME NEW k \in 0..n PROVE e[k] \in Nat /\ e[k] + 2 * (n - k) <= e[n]
    BY <2>1, <2>2
  <2> QED  BY <2>2, <2>3
<1>4. \A n \in 0..N : n \in S
  <2> HIDE DEF S
  <2> QED  BY <1>2, <1>3, UpTo
<1> QED
  BY <1>4 DEF e, N

(* The state of the decoder behind n segments.                             *)
ReadUpTo(s, segments, n) ==
    /\ DecoderState(s)
    /\ s.ok
    /\ s.pos = Ends(segments)[n]
    /\ 2 * s.words + 2 = Ends(segments)[n]
    /\ s.path = Named(segments, n)

(* After n turns the decoder stands behind n segments.                    *)
LEMMA LogicalsRead ==
    ASSUME NEW b, b[1] \in Nat, NEW after, Turns(b, after),
           NEW segments \in Seq(Segment), NEW m \in 0..Len(segments), Logicals(segments, m),
           Ends(segments)[Len(segments)] = 2 * b[1] + 2,
           \A j \in 1..m : SegmentAt(b, Ends(segments)[j - 1], segments[j])
    PROVE  /\ Len(segments) <= b[1]
           /\ \A n \in 0..m : /\ ReadUpTo(after[n], segments, n)
                              /\ n < Len(segments) => after[n].words < b[1]
<1> DEFINE e == Ends(segments)
           N == Len(segments)
           S == {n \in Nat : ReadUpTo(after[n], segments, n)}
<1> N \in Nat /\ m \in Nat /\ m <= N
  OBVIOUS
<1>1. \A n \in 0..N : e[n] \in Nat /\ e[n] + 2 * (N - n) <= 2 * b[1] + 2
  <2>1. N \in 0..N
    OBVIOUS
  <2>2. \A n \in 0..N : e[n] \in Nat /\ e[n] + 2 * (N - n) <= e[N]
    BY <2>1, EndsGrow
  <2> QED  BY <2>2
<1>2. e[0] = 2 /\ \A n \in 1..N : e[n] = e[n - 1] + (IF segments[n].wide THEN 4 ELSE 2)
  BY EndsWalk
<1>3. N <= b[1]
  BY <1>1, <1>2
<1>4. ASSUME NEW n \in 0..N, n < N, NEW s, ReadUpTo(s, segments, n) PROVE s.words < b[1]
  <2>1. e[n] + 2 * (N - n) <= 2 * b[1] + 2 /\ N - n >= 1 /\ n \in Nat
    BY <1>1, <1>4
  <2>2. 2 * s.words + 2 = e[n] /\ s.words \in Nat
    BY <1>4 DEF ReadUpTo, DecoderState
  <2> HIDE DEF e, N
  <2> QED  BY <2>1, <2>2
<1>5. 0 \in S
  <2>1. DecodeStart.path = Named(segments, 0)
    BY DEF DecodeStart, Path, Named, Logical
  <2>2. ReadUpTo(DecodeStart, segments, 0)
    BY <1>2, <2>1 DEF ReadUpTo, DecoderState, DecodeStart
  <2> QED  BY <2>2 DEF Turns
<1>6. ASSUME NEW n \in 1..m, n - 1 \in S PROVE n \in S
  <2> DEFINE s == after[n - 1]
             seg == segments[n]
             d == DecodeSegment(b, s)
  <2>1. ReadUpTo(s, segments, n - 1) /\ n \in Nat /\ n \in 1..N /\ n - 1 \in 0..N
    BY <1>6
  <2>2. /\ DecoderState(s) /\ s.ok /\ s.pos = e[n - 1] /\ 2 * s.words + 2 = e[n - 1]
        /\ s.path = Named(segments, n - 1) /\ s.words \in Nat
    BY <2>1 DEF ReadUpTo, DecoderState
  <2>3. s.words < b[1]
    BY <1>4, <2>1
  <2>4. after[n] = d
    <3>1. n \in 1..b[1]
      BY <1>3
    <3> QED  BY <2>2, <2>3, <3>1 DEF Turns, DecodeTurn
  <2>5. seg \in Segment /\ seg.field # "other" /\ ~ WideMember(seg)
    BY <2>1 DEF Logicals
  <2>6. SegmentAt(b, s.pos, seg)
    BY <2>2
  <2>7. DecoderState(d) /\ Takes(s, seg, d)
    BY <2>2, <2>5, <2>6, SegmentRead, SegmentAdvances
  <2>8. e[n] = e[n - 1] + (IF seg.wide THEN 4 ELSE 2) /\ e[n - 1] \in Nat
    BY <1>1, <1>2, <2>1
  <2>9. d.pos = e[n] /\ 2 * d.words + 2 = e[n]
    <3>1. seg.wide => seg.field # "member"
      BY <2>5 DEF WideMember
    <3> HIDE DEF s, seg, d, e
    <3> QED  BY <2>2, <2>7, <2>8, <3>1 DEF Takes
  <2>10. d.path = Named(segments, n)
    <3>1. seg.field \in DOMAIN Logical <=> seg.field # "member"
      BY <2>5, LogicalTypes DEF Segment
    <3> QED  BY <2>1, <2>2, <2>7, <3>1, NamedStep DEF Takes
  <2>11. ReadUpTo(after[n], segments, n)
    <3> HIDE DEF s, d
    <3> QED  BY <2>2, <2>4, <2>7, <2>9, <2>10 DEF ReadUpTo, Takes
  <2> QED  BY <2>1, <2>11
<1>7. \A n \in 0..m : n \in S
  <2> HIDE DEF S
  <2> QED  BY <1>5, <1>6, UpTo
<1> QED
  BY <1>3, <1>4, <1>7

(* When the loop has nothing more to do.                                   *)
LEMMA DecoderStays ==
    ASSUME NEW b, b[1] \in Nat, NEW after, Turns(b, after), NEW n \in 0..b[1],
           ~ (after[n].ok /\ after[n].words < b[1])
    PROVE  after[b[1]] = after[n]
<1> DEFINE S == {k \in Nat : k < n \/ after[k] = after[n]}
<1>1. 0 \in S
  OBVIOUS
<1>2. ASSUME NEW k \in 1..b[1], k - 1 \in S PROVE k \in S
  <2>1. k \in Nat /\ (k < n \/ k = n \/ ~ (k - 1 < n))
    OBVIOUS
  <2>2. ASSUME ~ (k - 1 < n) PROVE after[k] = after[n]
    <3>1. after[k - 1] = after[n]
      BY <1>2, <2>2
    <3> QED  BY <3>1 DEF Turns, DecodeTurn
  <2> QED  BY <2>1, <2>2
<1>3. b[1] \in S
  <2> HIDE DEF S
  <2> QED  BY <1>1, <1>2, UpTo
<1> QED
  BY <1>3

(* What the decoder reads begins with the octets of the path.              *)
Begins(b, path) == \A k \in 1..Len(path) : b[k] = path[k]

(* A path that is written with octets: the decoder finds it in its buffer. *)
LEMMA WrittenInBuffer ==
    ASSUME NEW path \in Seq(Octet), NEW segments \in Seq(Segment),
           WrittenAs(path, segments), NEW b, Begins(b, path)
    PROVE  /\ b[1] \in Nat /\ Len(path) = 2 * b[1] + 1
           /\ Ends(segments)[Len(segments)] = 2 * b[1] + 2
           /\ \A j \in 1..Len(segments) : SegmentAt(b, Ends(segments)[j - 1], segments[j])
<1> DEFINE e == Ends(segments)
           N == Len(segments)
<1> N \in Nat
  OBVIOUS
<1>1. \A n \in 0..N : e[n] \in Nat /\ 2 <= e[n] /\ e[n] <= e[N]
  <2>1. N \in 0..N /\ e[0] = 2
    BY EndsWalk
  <2>2. ASSUME NEW n \in 0..N PROVE e[n] \in Nat /\ e[0] + 2 * (n - 0) <= e[n] /\ e[n] + 2 * (N - n) <= e[N] /\ e[N] \in Nat
    BY <2>1, EndsGrow
  <2>3. ASSUME NEW n \in 0..N PROVE e[n] \in Nat /\ 2 <= e[n] /\ e[n] <= e[N]
    <3> HIDE DEF e, N
    <3> QED  BY <2>1, <2>2
  <2> QED  BY <2>3
<1>2. e[N] = Len(path) + 1 /\ Len(path) = 2 * path[1] + 1 /\ Len(path) \in Nat
  BY DEF WrittenAs
<1>3. Len(path) >= 1
  BY <1>1, <1>2
<1>4. path[1] \in Nat /\ \A k \in 1..Len(path) : b[k] = path[k]
  <2>1. path[1] \in Octet
    BY <1>3
  <2>2. \A x \in Octet : x \in Nat
    BY DEF Octet
  <2> QED  BY <2>1, <2>2 DEF Begins
<1>5. b[1] \in Nat /\ b[1] = path[1]
  BY <1>3, <1>4
<1>6. ASSUME NEW j \in 1..N PROVE SegmentAt(b, e[j - 1], segments[j])
  <2>1. SegmentAt(path, e[j - 1], segments[j])
    BY DEF WrittenAs
  <2>2. /\ e[j - 1] \in Nat /\ 2 <= e[j - 1] /\ e[j] <= Len(path) + 1
        /\ e[j] = e[j - 1] + (IF segments[j].wide THEN 4 ELSE 2)
    BY <1>1, <1>2, EndsWalk
  <2> DEFINE k == e[j - 1]
  <2> HIDE DEF e
  <2>3. /\ b[k] = path[k] /\ b[k + 1] = path[k + 1]
        /\ segments[j].wide => b[k + 2] = path[k + 2] /\ b[k + 3] = path[k + 3]
    <3>1. k \in 1..Len(path) /\ k + 1 \in 1..Len(path)
      BY <1>2, <2>2
    <3>2. ASSUME segments[j].wide PROVE k + 2 \in 1..Len(path) /\ k + 3 \in 1..Len(path)
      <4>1. e[j] = k + 4
        BY <2>2, <3>2
      <4>2. \A x, y, l \in Nat : 2 <= x /\ y = x + 4 /\ y <= l + 1
              => x + 2 \in 1..l /\ x + 3 \in 1..l
        OBVIOUS
      <4>3. e[j] \in Nat /\ k \in Nat
        BY <2>2, <4>1
      <4> HIDE DEF k
      <4> QED  BY <1>2, <2>2, <4>1, <4>2, <4>3 DEF k
    <3> QED  BY <1>4, <3>1, <3>2
  <2>4. /\ GetUsint(b, k + 1) = GetUsint(path, k + 1)
        /\ segments[j].wide => GetUint(b, k + 2) = GetUint(path, k + 2)
    <3>1. k + 2 + 1 = k + 3
      BY <2>2
    <3> QED  BY <2>3, <3>1 DEF GetUsint, GetUint
  <2> HIDE DEF k
  <2>5. SegmentAt(b, k, segments[j])
    BY <2>1, <2>3, <2>4 DEF SegmentAt, k
  <2> QED  BY <2>5 DEF k
<1> QED
  BY <1>2, <1>5, <1>6

(* DecodePaddedEPath reads a sound path as it was meant.                   *)
LEMMA SoundDecoded ==
    ASSUME NEW path \in Seq(Octet), NEW segments \in Seq(Segment),
           WrittenAs(path, segments), Logicals(segments, Len(segments) - 1),
           Len(segments) > 0 => segments[Len(segments)].field # "other",
           NEW b, Begins(b, path)
    PROVE  LET d == DecodePaddedEPath(b)
           IN /\ d.ok /\ 2 * d.words + 1 = Len(path) /\ d.words \in Nat /\ d.pos \in Nat
              /\ d.path = Named(segments, Len(segments))
              /\ \/ Len(segments) > 0 /\ WideMember(segments[Len(segments)])
                 \/ d.pos = Len(path) + 1
<1> DEFINE e == Ends(segments)
           N == Len(segments)
           d == DecodePaddedEPath(b)
           last == segments[N]
<1> N \in Nat
  OBVIOUS
<1>1. /\ b[1] \in Nat /\ Len(path) = 2 * b[1] + 1 /\ e[N] = 2 * b[1] + 2
      /\ \A j \in 1..N : SegmentAt(b, e[j - 1], segments[j])
  BY WrittenInBuffer
<1>2. PICK after : d = after[b[1]] /\ Turns(b, after)
  BY <1>1, DecoderWalks
<1> HIDE DEF d
<1>3. CASE N = 0 \/ ~ WideMember(last)
  <2>1. Logicals(segments, N)
    BY <1>3 DEF Logicals
  <2>2. ReadUpTo(after[N], segments, N) /\ N \in 0..b[1]
    <3>1. N \in 0..N
      OBVIOUS
    <3>2. N <= b[1] /\ \A n \in 0..N : ReadUpTo(after[n], segments, n)
      BY <1>1, <1>2, <2>1, <3>1, LogicalsRead
    <3> QED  BY <1>1, <3>1, <3>2
  <2>3. after[N].ok /\ after[N].pos = e[N] /\ after[N].words = b[1] /\ after[N].path = Named(segments, N)
    BY <1>1, <2>2 DEF ReadUpTo, DecoderState
  <2>4. d = after[N]
    BY <1>1, <1>2, <2>2, <2>3, DecoderStays
  <2> QED  BY <1>1, <2>3, <2>4 DEF d
<1>4. CASE N > 0 /\ WideMember(last)
  <2> DEFINE s == after[N - 1]
  <2>1. /\ ReadUpTo(s, segments, N - 1) /\ s.words < b[1] /\ N \in 1..b[1]
    <3>1. N - 1 \in 0..N /\ N - 1 < N
      BY <1>4
    <3>2. \A j \in 1..(N - 1) : SegmentAt(b, e[j - 1], segments[j])
      BY <1>1
    <3> QED  BY <1>1, <1>2, <1>4, <3>1, <3>2, LogicalsRead
  <2>2. /\ DecoderState(s) /\ s.ok /\ s.pos = e[N - 1] /\ 2 * s.words + 2 = e[N - 1]
        /\ s.path = Named(segments, N - 1) /\ s.words \in Nat /\ s.pos \in Nat
    BY <2>1 DEF ReadUpTo, DecoderState
  <2>3. last \in Segment /\ last.field = "member" /\ last.wide /\ SegmentAt(b, s.pos, last)
    BY <1>1, <1>4, <2>2 DEF WideMember
  <2>4. Takes(s, last, DecodeSegment(b, s))
    <3> HIDE DEF s, last
    <3> QED  BY <2>2, <2>3, SegmentRead
  <2>5. after[N] = DecodeSegment(b, s)
    BY <1>2, <2>1, <2>2 DEF Turns, DecodeTurn
  <2>6. e[N] = e[N - 1] + 4 /\ N \in 0..b[1]
    BY <1>4, <2>1, <2>3, EndsWalk
  <2>7. /\ after[N].ok /\ after[N].pos = s.pos + 2 /\ after[N].words = b[1]
        /\ after[N].path = s.path
    <3> DEFINE t == after[N]
    <3>1. Takes(s, last, t)
      BY <2>4, <2>5
    <3> HIDE DEF s, last, e, t
    <3>2. t.ok /\ t.pos = s.pos + 2 /\ t.words = s.words + 2 /\ t.path = s.path
      BY <2>2, <2>3, <3>1 DEF Takes
    <3>3. t.words = b[1]
      <4>1. \A w, x, l \in Nat : 2 * w + 2 = x /\ x + 4 = 2 * l + 2 => w + 2 = l
        OBVIOUS
      <4>2. e[N - 1] \in Nat
        BY <2>2
      <4>3. /\ s.words \in Nat /\ b[1] \in Nat /\ 2 * s.words + 2 = e[N - 1]
            /\ e[N - 1] + 4 = 2 * b[1] + 2
        BY <1>1, <2>2, <2>6
      <4>4. s.words + 2 = b[1]
        BY <4>1, <4>2, <4>3
      <4> QED  BY <3>2, <4>4
    <3> QED  BY <3>2, <3>3 DEF t
  <2>8. d = after[N]
    <3>1. ~ (after[N].words < b[1])
      BY <1>1, <2>7
    <3> QED  BY <1>1, <1>2, <2>6, <3>1, DecoderStays
  <2>9. Named(segments, N) = Named(segments, N - 1)
    BY <1>4, <2>3, NamedStep, LogicalTypes
  <2>10. d.ok /\ d.words = b[1] /\ d.pos = s.pos + 2 /\ d.path = Named(segments, N)
    BY <2>2, <2>7, <2>8, <2>9
  <2>11. d.pos \in Nat /\ 2 * d.words + 1 = Len(path) /\ d.words \in Nat
    <3>1. s.pos + 2 \in Nat
      BY <2>2
    <3>2. 2 * b[1] + 1 = Len(path) /\ b[1] \in Nat
      BY <1>1
    <3> HIDE DEF s
    <3> QED  BY <2>10, <3>1, <3>2
  <2> QED  BY <1>4, <2>10, <2>11 DEF d
<1> QED
  BY <1>3, <1>4

(* A segment that is no logical one ends the path with an error.          *)
LEMMA ForeignRefused ==
    ASSUME NEW path \in Seq(Octet), NEW segments \in Seq(Segment),
           WrittenAs(path, segments), NEW j \in 1..Len(segments),
           segments[j].field = "other", Logicals(segments, j - 1),
           NEW b, Begins(b, path)
    PROVE  ~ DecodePaddedEPath(b).ok
<1> DEFINE e == Ends(segments)
           N == Len(segments)
           d == DecodePaddedEPath(b)
<1> N \in Nat /\ j \in Nat
  OBVIOUS
<1>1. /\ b[1] \in Nat /\ e[N] = 2 * b[1] + 2
      /\ \A k \in 1..N : SegmentAt(b, e[k - 1], segments[k])
  BY WrittenInBuffer
<1>2. PICK after : d = after[b[1]] /\ Turns(b, after)
  BY <1>1, DecoderWalks
<1>3. ReadUpTo(after[j - 1], segments, j - 1) /\ after[j - 1].words < b[1] /\ j \in 1..b[1]
  <2>1. j - 1 \in 0..N /\ j - 1 < N /\ \A k \in 1..(j - 1) : SegmentAt(b, e[k - 1], segments[k])
    BY <1>1
  <2>2. N <= b[1]
    BY <1>1, <1>2, <2>1, LogicalsRead
  <2>3. \A n \in 0..(j - 1) : /\ ReadUpTo(after[n], segments, n)
                              /\ n < N => after[n].words < b[1]
    BY <1>1, <1>2, <2>1, LogicalsRead
  <2>4. j - 1 \in 0..(j - 1)
    OBVIOUS
  <2> QED  BY <1>1, <2>1, <2>2, <2>3, <2>4
<1>4. /\ DecoderState(after[j - 1]) /\ after[j - 1].ok
      /\ b[after[j - 1].pos] \notin SegmentTypes
  <2>1. SegmentAt(b, e[j - 1], segments[j])
    BY <1>1
  <2> QED  BY <1>3, <2>1 DEF ReadUpTo, SegmentAt
<1>5. ~ after[j].ok
  <2>1. after[j] = DecodeSegment(b, after[j - 1])
    BY <1>2, <1>3, <1>4 DEF Turns, DecodeTurn
  <2> QED  BY <1>4, <2>1, SegmentRefused
<1>6. d = after[j]
  BY <1>1, <1>2, <1>3, <1>5, DecoderStays
<1> QED
  BY <1>5, <1>6

(* A path is read to its end, or refused.                                  *)
LEMMA AllWordsRead ==
    ASSUME NEW b, b[1] \in Nat, DecodePaddedEPath(b).ok
    PROVE  DecodePaddedEPath(b).words >= b[1]
<1> DEFINE d == DecodePaddedEPath(b)
<1>1. PICK after : d = after[b[1]] /\ Turns(b, after)
  BY DecoderWalks
<1> DEFINE Going(s, n) == DecoderState(s) /\ (s.ok => s.words >= n \/ s.words >= b[1])
           S == {n \in Nat : Going(after[n], n)}
<1>2. 0 \in S
  <2>1. after[0] = DecodeStart
    BY <1>1 DEF Turns
  <2>2. Going(DecodeStart, 0)
    BY DEF DecodeStart, DecoderState
  <2> QED  BY <2>1, <2>2
<1>3. ASSUME NEW n \in 1..b[1], n - 1 \in S PROVE n \in S
  <2> DEFINE s == after[n - 1]
  <2>1. Going(s, n - 1) /\ after[n] = DecodeTurn(b, s) /\ n \in Nat
    BY <1>1, <1>3 DEF Turns
  <2>2. CASE ~ (s.ok /\ s.words < b[1])
    <3>1. after[n] = s
      BY <2>1, <2>2 DEF DecodeTurn
    <3> QED  BY <2>1, <2>2, <3>1 DEF DecoderState
  <2>3. CASE s.ok /\ s.words < b[1]
    <3> DEFINE t == DecodeSegment(b, s)
    <3>1. after[n] = t /\ DecoderState(s) /\ DecoderState(t) /\ s.words \in Nat /\ s.words >= n - 1
      <4>1. after[n] = t /\ DecoderState(s) /\ DecoderState(t)
        BY <2>1, <2>3, SegmentAdvances DEF DecodeTurn
      <4>2. s.words \in Nat /\ (s.words >= n - 1 \/ s.words >= b[1])
        BY <2>1, <2>3 DEF DecoderState
      <4> HIDE DEF s, t
      <4> QED  BY <2>1, <2>3, <4>1, <4>2
    <3>2. t.ok => t.words >= s.words + 1
      <4> HIDE DEF s
      <4> QED  BY <3>1 DEF DecodeSegment, DecoderState, MemberId
    <3>3. t.words \in Nat
      BY <3>1 DEF DecoderState
    <3> HIDE DEF t, s
    <3> QED  BY <2>1, <3>1, <3>2, <3>3
  <2> QED  BY <2>2, <2>3
<1>4. b[1] \in S
  <2> HIDE DEF S
  <2>1. b[1] \in 0..b[1]
    OBVIOUS
  <2> QED  BY <1>2, <1>3, <2>1, UpTo
<1> QED
  BY <1>1, <1>4

-----------------------------------------------------------------------------
(* What a service finds behind the path: octets, and at least eight more   *)
(* than the size says, because the stale octets of the buffer follow.  A   *)
(* path that is counted longer than the message is refused.                *)
Behind(r) ==
    /\ r.data \in Seq(Octet)
    /\ r.status = "Success" => r.size \in Nat /\ Len(r.data) >= r.size + 8

(* CreateMessageRouterRequestStructure.                                    *)
LEMMA StructureInBuffer ==
    ASSUME NEW sent \in Seq(Octet), NEW stale \in Octet
    PROVE  Behind(CreateMessageRouterRequestStructure(sent \o [k \in 1..8 |-> stale], Len(sent)))
<1> DEFINE b == sent \o [k \in 1..8 |-> stale]
           d == DecodePaddedEPath(b)
           r == CreateMessageRouterRequestStructure(b, Len(sent))
<1>1. b \in Seq(Octet) /\ Len(b) = Len(sent) + 8 /\ Len(sent) \in Nat
  <2>1. [k \in 1..8 |-> stale] \in Seq(Octet) /\ Len([k \in 1..8 |-> stale]) = 8
    OBVIOUS
  <2> QED  BY <2>1
<1> HIDE DEF b
<1>2. b[1] \in Nat
  <2>1. 1 \in 1..Len(b)
    BY <1>1
  <2>2. b[1] \in Octet
    BY <1>1, <2>1
  <2>3. \A x \in Octet : x \in Nat
    BY DEF Octet
  <2> QED  BY <2>2, <2>3
<1>3. DecoderState(d)
  BY <1>2, DecoderStops
<1> HIDE DEF d
<1>4. r = [status |-> IF ~d.ok THEN "PathSegmentError"
                      ELSE IF 2 * d.words + 1 > Len(sent) THEN "PathSizeInvalid"
                      ELSE "Success",
           path |-> d.path,
           data |-> SubSeq(b, d.pos, Len(b)),
           size |-> Len(sent) - (2 * d.words + 1)]
  BY DEF CreateMessageRouterRequestStructure, BytesConsumed, d
<1> HIDE DEF r
<1>5. d.pos \in Nat /\ d.words \in Nat /\ 2 <= d.pos /\ d.pos <= 2 * d.words + 2
  BY <1>3 DEF DecoderState
<1>6. SubSeq(b, d.pos, Len(b)) \in Seq(Octet)
  BY <1>1, <1>5, \A i \in d.pos..Len(b) : b[i] \in Octet
<1>7. r.status = "Success" => 2 * d.words + 1 <= Len(sent)
  BY <1>1, <1>4, <1>5
<1>8. ASSUME 2 * d.words + 1 <= Len(sent)
      PROVE  Len(SubSeq(b, d.pos, Len(b))) >= Len(sent) - (2 * d.words + 1) + 8
  <2>1. Len(SubSeq(b, d.pos, Len(b))) = Len(b) - d.pos + 1
    BY <1>1, <1>5, <1>8
  <2> QED  BY <1>1, <1>5, <1>8, <2>1
<1> QED
  <2>1. r.data \in Seq(Octet)
    BY <1>4, <1>6
  <2>2. ASSUME r.status = "Success" PROVE r.size \in Nat /\ Len(r.data) >= r.size + 8
    <3>1. r.size = Len(sent) - (2 * d.words + 1) /\ r.data = SubSeq(b, d.pos, Len(b))
      BY <1>4
    <3>2. 2 * d.words + 1 <= Len(sent)
      BY <1>7, <2>2
    <3>3. Len(r.data) >= Len(sent) - (2 * d.words + 1) + 8
      BY <1>8, <3>1, <3>2
    <3>4. Len(sent) - (2 * d.words + 1) \in Nat
      <4>1. \A x, y \in Nat : 2 * y + 1 <= x => x - (2 * y + 1) \in Nat
        OBVIOUS
      <4> QED  BY <1>1, <1>5, <3>2, <4>1
    <3> QED  BY <3>1, <3>3, <3>4
  <2>3. Behind(r)
    BY <2>1, <2>2 DEF Behind
  <2> QED  BY <2>3 DEF r, b

-----------------------------------------------------------------------------
(* The classes with attributes that can be set, and which these are.       *)
LEMMA ClassTables ==
    /\ GetCipClass(Identity) = CipIdentityInit
    /\ GetCipClass(MessageRouter) = CipMessageRouterInit
    /\ GetCipClass(Assembly) = CreateAssemblyClass
    /\ GetCipClass(QoS) = CipQoSInit
    /\ GetCipClass(TcpIp) = CipTcpIpInterfaceInit
    /\ GetCipClass(EthernetLink) = CipEthernetLinkInit
BY DEF GetCipClass, Identity, MessageRouter, Assembly, QoS, TcpIp, EthernetLink

(* What passes the checks of SetAttributeSingle has a decode function.     *)
LEMMA SettableAttributes ==
    ASSUME NEW c \in Registered, NEW i, NEW n, InstanceExists(GetCipClass(c), i),
           "SetAttributeSingle" \in ServicesOf(GetCipClass(c), i),
           n \in DOMAIN AttributesOf(GetCipClass(c), i),
           InSetMask(AttributesOf(GetCipClass(c), i)[n])
    PROVE  \/ c = QoS /\ n \in DscpAttributes
           \/ c = TcpIp /\ n \in {3, 13}
           \/ c = Assembly /\ i \in AssemblyInstances /\ n = 3
<1>1. i # 0
  BY DEF GetCipClass, ServicesOf, Registered, ClassServices, CipIdentityInit, CipMessageRouterInit,
         CreateAssemblyClass, CipQoSInit, CipTcpIpInterfaceInit, CipEthernetLinkInit, CreateCipClass,
         Identity, MessageRouter, Assembly, QoS, TcpIp, EthernetLink
<1>2. c \in {Assembly, QoS, TcpIp}
  BY <1>1 DEF GetCipClass, ServicesOf, Registered, CipIdentityInit, CipMessageRouterInit,
         CipEthernetLinkInit, CreateCipClass,
         Identity, MessageRouter, Assembly, QoS, TcpIp, EthernetLink
<1>3. CASE c = QoS
  <2> GetCipClass(c) = CipQoSInit
    BY <1>3, ClassTables
  <2>1. AttributesOf(GetCipClass(c), i) =
          [k \in 1..8 |-> InsertAttribute("Usint",
              IF k \in 1..3 THEN NotSetOrGetable ELSE GetableSingle \cup Setable \cup NvDataFunc)]
    BY <1>1 DEF AttributesOf, CipQoSInit, CreateCipClass
  <2>2. n \in 1..8 /\ (n \in 1..3 => AttributesOf(GetCipClass(c), i)[n].flags = {})
    BY <2>1 DEF InsertAttribute, NotSetOrGetable
  <2> QED  BY <1>3, <2>2 DEF InSetMask, DscpAttributes
<1>4. CASE c = TcpIp
  <2> DEFINE Flags(k) ==
            CASE k \in {3, 13} -> SetAndGetAble \cup NvDataFunc
              [] k \in {5, 6} -> GetableSingleAndAll \cup NvDataFunc
              [] k \in {7, 10, 11, 12} -> GetableAllDummy
              [] OTHER -> GetableSingleAndAll
  <2> GetCipClass(c) = CipTcpIpInterfaceInit
    BY <1>4, ClassTables
  <2>1. PICK types : AttributesOf(GetCipClass(c), i) =
          [k \in 1..13 |-> InsertAttribute(types[k], Flags(k))]
    BY <1>1 DEF AttributesOf, CipTcpIpInterfaceInit, CreateCipClass
  <2>2. n \in 1..13 /\ AttributesOf(GetCipClass(c), i)[n].flags = Flags(n)
    BY <2>1 DEF InsertAttribute
  <2>3. n \notin {3, 13} => "set" \notin Flags(n)
    BY <2>2 DEF GetableSingleAndAll, GetableAllDummy, NvDataFunc
  <2> QED  BY <1>4, <2>2, <2>3 DEF InSetMask
<1>5. CASE c = Assembly
  <2> GetCipClass(c) = CreateAssemblyClass
    BY <1>5, ClassTables
  <2>1. AttributesOf(GetCipClass(c), i) = CreateAssemblyObject /\ GetCipClass(c).instances = AssemblyInstances
    BY <1>1 DEF AttributesOf, CreateAssemblyClass, CreateCipClass
  <2>2. n \in {3, 4} /\ (n = 4 => AttributesOf(GetCipClass(c), i)[n].flags = {"single"})
    BY <2>1 DEF CreateAssemblyObject, InsertAttribute, GetableSingle
  <2> QED  BY <1>1, <1>5, <2>1, <2>2 DEF InSetMask, InstanceExists
<1> QED
  BY <1>2, <1>3, <1>4, <1>5
-----------------------------------------------------------------------------
(* What the objects may hold: values that the decode functions let pass.   *)
Valid(o) ==
    /\ DOMAIN o = {"qos", "tcpip", "identity", "assembly"}
    /\ o.qos \in [DscpAttributes -> 0..63]
    /\ o.tcpip \in [config_control : 0..2, encapsulation_inactivity_timeout : 0..MaxInactivityTimeout]
    /\ DOMAIN o.assembly = AssemblyInstances
    /\ \A i \in AssemblyInstances : Len(o.assembly[i]) = AssemblySize[i]

(* The values of the source are valid.                                     *)
LEMMA DefaultDscpValid == DefaultDscp \in [DscpAttributes -> 0..63]
BY DEF DefaultDscp, DscpAttributes

(* A new assembly has its size.                                            *)
LEMMA ZerosLength == \A n \in Nat : Len(Zeros(n)) = n
BY DEF Zeros

(* The default time-out is one that could be set.                          *)
LEMMA MaxTimeoutIsNat == MaxInactivityTimeout \in Nat /\ 120 \in 0..MaxInactivityTimeout
BY DEF MaxInactivityTimeout

(* The objects of a new process are valid.                                 *)
LEMMA DefaultObjectsValid == Valid(DefaultObjects)
<1>1. \A i \in AssemblyInstances : AssemblySize[i] \in Nat
  BY AssemblyAssumption
<1>2. \A i \in AssemblyInstances : Len(Zeros(AssemblySize[i])) = AssemblySize[i]
  BY <1>1, ZerosLength
<1> QED
  BY <1>2, DefaultDscpValid, MaxTimeoutIsNat DEF DefaultObjects, Valid

(* The decode functions of the integers, which do not look at the size:    *)
(* what they read is octets of the buffer all the same.                    *)
LEMMA DecodedValid ==
    ASSUME NEW data \in Seq(Octet), Len(data) >= 8
    PROVE  /\ DecodeCipQoSAttribute(data).status = "Success"
                => DecodeCipQoSAttribute(data).value \in 0..63
           /\ DecodeConfigurationControl(data).status = "Success"
                => DecodeConfigurationControl(data).value \in 0..2
           /\ DecodeInactivityTimeout(data).status = "Success"
                => DecodeInactivityTimeout(data).value \in 0..MaxInactivityTimeout
<1>1. data[1] \in Octet /\ data[2] \in Octet /\ data[3] \in Octet /\ data[4] \in Octet
  OBVIOUS
<1>2. data[1] \in Nat /\ data[2] \in Nat /\ data[3] \in Nat /\ data[4] \in Nat
  <2>1. \A x \in Octet : x \in Nat
    BY DEF Octet
  <2> QED  BY <1>1, <2>1
<1>3. DecodeCipQoSAttribute(data).status = "Success"
        => DecodeCipQoSAttribute(data).value \in 0..63
  <2>1. \A v \in Nat : v < 64 => v \in 0..63
    OBVIOUS
  <2> QED  BY <1>2, <2>1 DEF DecodeCipQoSAttribute, Decoded, GetUsint
<1>4. GetUint(data, 1) \in Nat /\ GetUint(data, 3) \in Nat
  <2>1. \A x, y \in Nat : x + 256 * y \in Nat
    OBVIOUS
  <2>2. GetUint(data, 1) = data[1] + 256 * data[2] /\ GetUint(data, 3) = data[3] + 256 * data[4]
    BY DEF GetUint
  <2> QED  BY <1>2, <2>1, <2>2
<1>5. GetDint(data, 1) \in Nat
  BY <1>4 DEF GetDint
<1>6. \A v \in Nat : v % 16 < 3 /\ v \div 16 = 0 => v \in 0..2
  OBVIOUS
<1>7. DecodeConfigurationControl(data).status = "Success"
        => DecodeConfigurationControl(data).value \in 0..2
  BY <1>5, <1>6 DEF DecodeConfigurationControl, Decoded
<1>8. DecodeInactivityTimeout(data).status = "Success"
        => DecodeInactivityTimeout(data).value \in 0..MaxInactivityTimeout
  <2>1. ~ (GetUint(data, 1) > MaxInactivityTimeout) => GetUint(data, 1) \in 0..MaxInactivityTimeout
    BY <1>4, MaxTimeoutIsNat
  <2>2. DecodeInactivityTimeout(data).status = "Success" => ~ (GetUint(data, 1) > MaxInactivityTimeout)
    BY DEF DecodeInactivityTimeout, Decoded
  <2>3. DecodeInactivityTimeout(data).value = GetUint(data, 1)
    BY DEF DecodeInactivityTimeout, Decoded
  <2> QED  BY <2>1, <2>2, <2>3, Zenon
<1> QED
  BY <1>3, <1>7, <1>8

(* SetAttributeSingle, Reset and the router keep the objects valid.        *)
LEMMA SetIsValid ==
    ASSUME NEW o, Valid(o), NEW dscp, NEW p, NEW data \in Seq(Octet), NEW size \in Nat,
           Len(data) >= size + 8, p.class_id \in Registered,
           InstanceExists(GetCipClass(p.class_id), p.instance_number),
           "SetAttributeSingle" \in ServicesOf(GetCipClass(p.class_id), p.instance_number)
    PROVE  LET e == SetAttributeSingle(o, dscp, p, data, size)
           IN Valid(e.objects) /\ e.dscp = dscp
<1> DEFINE c == p.class_id
           i == p.instance_number
           n == p.attribute_number
           a == AttributesOf(GetCipClass(c), i)
           d == Decode(c, i, n, data, size)
           e == SetAttributeSingle(o, dscp, p, data, size)
<1>1. /\ e.dscp = dscp
      /\ \/ e.objects = o
         \/ /\ n \in DOMAIN a /\ InSetMask(a[n]) /\ d.status = "Success"
            /\ e.objects = WithValue(o, c, i, n, d.value)
  BY DEF SetAttributeSingle, Effect, Answer
<1> HIDE DEF e
<1>2. ASSUME n \in DOMAIN a, InSetMask(a[n]), d.status = "Success"
      PROVE  Valid(WithValue(o, c, i, n, d.value))
  <2>0. Len(data) >= 8
    OBVIOUS
  <2>1. \/ c = QoS /\ n \in DscpAttributes
        \/ c = TcpIp /\ n \in {3, 13}
        \/ c = Assembly /\ i \in AssemblyInstances /\ n = 3
    BY <1>2, SettableAttributes
  <2>2. CASE c = QoS /\ n \in DscpAttributes
    <3>1. d.value \in 0..63
      BY <1>2, <2>0, <2>2, DecodedValid DEF Decode, QoS, TcpIp, Assembly
    <3>2. WithValue(o, c, i, n, d.value) = [o EXCEPT !.qos[n] = d.value]
      BY <2>2 DEF WithValue, QoS, TcpIp
    <3>3. PICK w, v : w = WithValue(o, c, i, n, d.value) /\ v = d.value
      OBVIOUS
    <3>4. w = [o EXCEPT !.qos[n] = v] /\ v \in 0..63
      BY <3>1, <3>2, <3>3
    <3>5. Valid(w)
      BY <2>2, <3>4 DEF Valid
    <3> QED  BY <3>3, <3>5
  <2>3. CASE c = TcpIp /\ n = 3
    <3>1. d.value \in 0..2
      BY <1>2, <2>0, <2>3, DecodedValid DEF Decode, QoS, TcpIp, Assembly
    <3>2. WithValue(o, c, i, n, d.value) = [o EXCEPT !.tcpip.config_control = d.value]
      BY <2>3 DEF WithValue, QoS, TcpIp
    <3>3. PICK w, v : w = WithValue(o, c, i, n, d.value) /\ v = d.value
      OBVIOUS
    <3>4. v \in 0..2
      BY <3>1, <3>3, Zenon
    <3>5. w = [o EXCEPT !.tcpip.config_control = v]
      BY <3>2, <3>3, Zenon
    <3>6. /\ DOMAIN w = DOMAIN o /\ w.qos = o.qos /\ w.assembly = o.assembly
          /\ w.tcpip = [o.tcpip EXCEPT !.config_control = v]
      BY <3>5 DEF Valid
    <3>7. w.tcpip \in [config_control : 0..2, encapsulation_inactivity_timeout : 0..MaxInactivityTimeout]
      BY <3>4, <3>6 DEF Valid
    <3>8. Valid(w)
      BY <3>6, <3>7, Zenon DEF Valid
    <3> QED  BY <3>3, <3>8
  <2>4. CASE c = TcpIp /\ n = 13
    <3>1. d.value \in 0..MaxInactivityTimeout
      BY <1>2, <2>0, <2>4, DecodedValid DEF Decode, QoS, TcpIp, Assembly
    <3>2. WithValue(o, c, i, n, d.value)
            = [o EXCEPT !.tcpip.encapsulation_inactivity_timeout = d.value]
      BY <2>4 DEF WithValue, QoS, TcpIp
    <3>3. PICK w, v : w = WithValue(o, c, i, n, d.value) /\ v = d.value
      OBVIOUS
    <3>4. v \in 0..MaxInactivityTimeout
      BY <3>1, <3>3, Zenon
    <3>5. w = [o EXCEPT !.tcpip.encapsulation_inactivity_timeout = v]
      BY <3>2, <3>3, Zenon
    <3>6. /\ DOMAIN w = DOMAIN o /\ w.qos = o.qos /\ w.assembly = o.assembly
          /\ w.tcpip = [o.tcpip EXCEPT !.encapsulation_inactivity_timeout = v]
      BY <3>5 DEF Valid
    <3>7. w.tcpip \in [config_control : 0..2, encapsulation_inactivity_timeout : 0..MaxInactivityTimeout]
      BY <3>4, <3>6 DEF Valid
    <3>8. Valid(w)
      BY <3>6, <3>7, Zenon DEF Valid
    <3> QED  BY <3>3, <3>8
  <2>5. CASE c = Assembly /\ i \in AssemblyInstances /\ n = 3
    <3>1. AssemblySize[i] \in Nat
      BY <2>5, AssemblyAssumption
    <3>2. d = DecodeCipAssemblyAttribute3(data, size, AssemblySize[i])
      BY <2>5 DEF Decode, QoS, TcpIp, Assembly
    <3>3. size = AssemblySize[i] /\ d.value = SubSeq(data, 1, AssemblySize[i])
      BY <1>2, <3>1, <3>2 DEF DecodeCipAssemblyAttribute3, Decoded
    <3>4. Len(d.value) = AssemblySize[i]
      BY <3>1, <3>3
    <3>5. WithValue(o, c, i, n, d.value) = [o EXCEPT !.assembly[i] = d.value]
      BY <2>5 DEF WithValue, QoS, TcpIp, Assembly
    <3>6. PICK w, v : w = WithValue(o, c, i, n, d.value) /\ v = d.value
      OBVIOUS
    <3>7. w = [o EXCEPT !.assembly[i] = v] /\ Len(v) = AssemblySize[i]
      BY <3>4, <3>5, <3>6
    <3>8. Valid(w)
      BY <2>5, <3>7 DEF Valid
    <3> QED  BY <3>6, <3>8
  <2> QED  BY <2>1, <2>2, <2>3, <2>4, <2>5
<1> QED
  BY <1>1, <1>2 DEF e

(* A reset leaves values that could be set.                                *)
LEMMA ResetIsValid ==
    ASSUME NEW o, Valid(o), NEW dscp, NEW data, NEW size
    PROVE  LET e == IdentityObjectPreResetCallback(o, dscp, data, size)
           IN Valid(e.objects) /\ (e.dscp = dscp \/ e.dscp = e.objects.qos)
<1> DEFINE initial == ResetDeviceToInitialConfiguration(o)
           e == IdentityObjectPreResetCallback(o, dscp, data, size)
<1>1. Valid(initial)
  <2>1. /\ DOMAIN initial = DOMAIN o /\ initial.qos = DefaultDscp /\ initial.assembly = o.assembly
        /\ initial.tcpip = [o.tcpip EXCEPT !.encapsulation_inactivity_timeout = 120]
    BY DEF ResetDeviceToInitialConfiguration, Valid
  <2>2. initial.tcpip \in
          [config_control : 0..2, encapsulation_inactivity_timeout : 0..MaxInactivityTimeout]
    BY <2>1, MaxTimeoutIsNat DEF Valid
  <2> HIDE DEF initial
  <2> QED  BY <2>1, <2>2, DefaultDscpValid DEF Valid
<1> HIDE DEF initial
<1>2. \/ e.objects = o /\ (e.dscp = dscp \/ e.dscp = o.qos)
      \/ e.objects = initial /\ e.dscp = initial.qos
  BY DEF IdentityObjectPreResetCallback, Effect, initial
<1> QED
  BY <1>1, <1>2

(* And so does every service.                                              *)
LEMMA RouterIsValid ==
    ASSUME NEW o, Valid(o), NEW dscp, NEW service, NEW r, Behind(r)
    PROVE  LET e == NotifyMessageRouter(o, dscp, service, r)
           IN Valid(e.objects) /\ (e.dscp = dscp \/ e.dscp = e.objects.qos)
<1> DEFINE e == NotifyMessageRouter(o, dscp, service, r)
           p == r.path
           class == GetCipClass(p.class_id)
<1>1. \/ e.objects = o /\ e.dscp = dscp
      \/ /\ r.status = "Success" /\ p.class_id \in Registered
         /\ InstanceExists(class, p.instance_number)
         /\ service \in ServicesOf(class, p.instance_number)
         /\ \/ /\ service = "SetAttributeSingle"
               /\ e = SetAttributeSingle(o, dscp, p, r.data, r.size)
            \/ e = IdentityObjectPreResetCallback(o, dscp, r.data, r.size)
  BY DEF NotifyMessageRouter, Effect
<1> QED
  BY <1>1, SetIsValid, ResetIsValid DEF Behind

-----------------------------------------------------------------------------
(* Every value of the QoS object fits into six bits, also those in a file. *)
Settings == [DscpAttributes -> 0..63]

Kept == {<<>>} \cup {<<v>> : v \in Settings}

(* TypeOK, with the limit of the values in the file, which a start loads.  *)
TypeInv ==
    /\ phase \in {"down", "up", "storing", "booting"}
    /\ Valid(objects)
    /\ s_active_dscp \in Settings
    /\ cfg \in [qos : Kept, tcpip : {"none", "empty"}]
    /\ promise \in Kept

(* The objects of a new process, and no files.                             *)
LEMMA InitTypeInv == Init => TypeInv
BY DefaultObjectsValid, DefaultDscpValid DEF Init, TypeInv, Settings, Kept, NoPromise

(* A step that sets nothing but the Identity object.                       *)
LEMMA IdentityStepTypeInv ==
    ASSUME TypeInv, NEW id, IdentityStep(id)
    PROVE  TypeInv'
<1>1. Valid([objects EXCEPT !.identity = id])
  BY DEF TypeInv, Valid
<1>2. Valid(objects)'
  BY <1>1 DEF IdentityStep, Valid
<1> QED
  BY <1>2 DEF TypeInv, IdentityStep

(* Every step keeps the values in their ranges.                            *)
LEMMA NextTypeInv == TypeInv /\ [Next]_vars => TypeInv'
<1> SUFFICES ASSUME TypeInv, [Next]_vars PROVE TypeInv'
  OBVIOUS
<1>1. ASSUME NEW q \in Requests, HandleRequest(q) PROVE TypeInv'
  <2>1. PICK stale \in StaleOctets :
          LET b == q.path \o q.data \o [k \in 1..8 |-> stale]
              r == CreateMessageRouterRequestStructure(b, Len(q.path \o q.data))
              e == NotifyMessageRouter(objects, s_active_dscp, q.service, r)
          IN /\ phase = "up" /\ objects' = e.objects /\ s_active_dscp' = e.dscp
             /\ \/ phase' = phase /\ cfg' = cfg
                \/ phase' = "storing" /\ cfg' = [cfg EXCEPT !.qos = <<>>]
                \/ phase' = phase /\ cfg' = [cfg EXCEPT !.tcpip = "empty"]
             /\ promise' = promise \/ promise' = NoPromise
    BY <1>1 DEF HandleRequest
  <2> DEFINE sent == q.path \o q.data
             r == CreateMessageRouterRequestStructure(sent \o [k \in 1..8 |-> stale], Len(sent))
             e == NotifyMessageRouter(objects, s_active_dscp, q.service, r)
  <2>2. Behind(r)
    <3>1. sent \in Seq(Octet) /\ stale \in Octet
      BY RequestAssumption
    <3> HIDE DEF sent
    <3> QED  BY <3>1, StructureInBuffer
  <2>3. Valid(objects') /\ (s_active_dscp' = s_active_dscp \/ s_active_dscp' = objects'.qos)
    <3>1. objects' = e.objects /\ s_active_dscp' = e.dscp
      BY <2>1
    <3> HIDE DEF r
    <3>2. Valid(e.objects) /\ (e.dscp = s_active_dscp \/ e.dscp = e.objects.qos)
      BY <2>2, RouterIsValid DEF TypeInv
    <3> HIDE DEF e
    <3> QED  BY <3>1, <3>2
  <2>4. s_active_dscp' \in Settings
    BY <2>3 DEF TypeInv, Valid, Settings
  <2>5. cfg' \in [qos : Kept, tcpip : {"none", "empty"}]
    BY <2>1 DEF TypeInv, Kept
  <2>6. Valid(objects)'
    BY <2>3 DEF Valid
  <2> QED
    BY <2>1, <2>4, <2>5, <2>6 DEF TypeInv, NoPromise, Kept
<1>2. ASSUME SendReply PROVE TypeInv'
  BY <1>2 DEF SendReply, TypeInv, Valid
<1>3. ASSUME NvQosStore PROVE TypeInv'
  <2>1. <<objects.qos>> \in Kept
    BY DEF TypeInv, Valid, Kept, Settings
  <2>2. cfg' \in [qos : Kept, tcpip : {"none", "empty"}] /\ promise' \in Kept
    BY <1>3, <2>1 DEF NvQosStore, TypeInv, Kept, NoPromise
  <2>3. /\ phase' = "up" /\ UNCHANGED objects
        /\ s_active_dscp' = objects.qos \/ s_active_dscp' = s_active_dscp
    BY <1>3 DEF NvQosStore
  <2>4. s_active_dscp' \in Settings
    BY <2>3 DEF TypeInv, Valid, Settings
  <2> QED
    BY <2>2, <2>3, <2>4 DEF TypeInv, Valid
<1>4. ASSUME Start PROVE TypeInv'
  <2> DEFINE o == CipStackInit(objects)
  <2>1. Valid(o)
    <3>1. \A i \in AssemblyInstances : Len(Zeros(AssemblySize[i])) = AssemblySize[i]
      BY AssemblyAssumption, ZerosLength
    <3> QED  BY <3>1 DEF TypeInv, CipStackInit, Valid
  <2> HIDE DEF o
  <2>2. cfg.qos # <<>> => cfg.qos[1] \in Settings
    BY DEF TypeInv, Kept
  <2>3. Valid(NvQosLoad(o))
    BY <2>1, <2>2 DEF NvQosLoad, Valid, Settings
  <2>4. Valid(objects)'
    BY <1>4, <2>3 DEF Start, Valid, o
  <2>5. cfg' \in [qos : Kept, tcpip : {"none", "empty"}]
    BY <1>4 DEF Start, TypeInv, Kept
  <2>6. s_active_dscp' = objects'.qos \/ s_active_dscp' = s_active_dscp
    BY <1>4 DEF Start
  <2>7. s_active_dscp' \in Settings
    BY <2>4, <2>6 DEF TypeInv, Valid, Settings
  <2> QED
    BY <1>4, <2>4, <2>5, <2>7 DEF Start, TypeInv
<1>5. ASSUME Stop PROVE TypeInv'
  BY <1>5 DEF Stop, TypeInv, Valid
<1>6. ASSUME Crash PROVE TypeInv'
  <2>1. Valid(objects)'
    BY <1>6, DefaultObjectsValid DEF Crash, Valid
  <2> QED
    BY <1>6, <2>1, DefaultDscpValid DEF Crash, TypeInv, Settings, NoPromise, Kept
<1>7. ASSUME NEW id, IdentityStep(id) PROVE TypeInv'
  BY <1>7, IdentityStepTypeInv
<1>8. ASSUME UNCHANGED vars PROVE TypeInv'
  BY <1>8 DEF vars, TypeInv, Valid
<1> QED
  BY <1>1, <1>2, <1>3, <1>4, <1>5, <1>6, <1>7, <1>8 DEF Next, DeviceStep,
     CipIdentitySetExtendedDeviceStatus, CipIdentitySetStatusFlags,
     CipIdentityClearStatusFlags, SetDeviceStatus

(* The decode functions and DecodePaddedEPath: no request, however long    *)
(* its path says it is and whatever octets it holds, and no file leaves a  *)
(* value in an object that its decoder would refuse.                       *)
THEOREM TypeCorrect == Spec => []TypeOK
<1>1. ASSUME TypeInv PROVE TypeOK
  <2>1. \A v \in Settings : v \in Dscp /\ \A n \in DscpAttributes : v[n] < 64
    BY DEF Settings, Dscp, Octet
  <2>2. ASSUME NEW k \in Kept PROVE Len(k) <= 1 /\ Range(k) \subseteq Dscp
    <3>1. CASE k = <<>>
      BY <3>1 DEF Range
    <3>2. CASE k # <<>>
      <4>1. PICK v \in Settings : k = <<v>>
        BY <3>2 DEF Kept
      <4> QED  BY <2>1, <4>1 DEF Range
    <3> QED  BY <3>1, <3>2
  <2>3. objects.qos \in Settings /\ cfg.qos \in Kept /\ cfg.tcpip \in {"none", "empty"}
    BY <1>1 DEF TypeInv, Valid, Settings
  <2>4. /\ objects.tcpip.config_control \in 0..2
        /\ objects.tcpip.encapsulation_inactivity_timeout \in 0..MaxInactivityTimeout
        /\ \A i \in AssemblyInstances : Len(objects.assembly[i]) = AssemblySize[i]
    BY <1>1 DEF TypeInv, Valid
  <2> QED
    BY <1>1, <2>1, <2>2, <2>3, <2>4 DEF TypeInv, TypeOK
<1> QED
  BY <1>1, InitTypeInv, NextTypeInv, PTL DEF Spec
-----------------------------------------------------------------------------
(* The buffer of a request, and what CreateMessageRouterRequestStructure   *)
(* finds in it.                                                            *)
Buffer(q, stale) == q.path \o q.data \o [k \in 1..8 |-> stale]

Structure(q, stale) ==
    CreateMessageRouterRequestStructure(Buffer(q, stale), Len(q.path \o q.data))

(* A sequence with another one behind it, octet by octet.                  *)
LEMMA Appended ==
    ASSUME NEW s \in Seq(Octet), NEW t \in Seq(Octet)
    PROVE  /\ s \o t \in Seq(Octet) /\ Len(s \o t) = Len(s) + Len(t)
           /\ \A k \in 1..Len(s) : (s \o t)[k] = s[k]
           /\ \A i \in 1..Len(t) : (s \o t)[Len(s) + i] = t[i]
OBVIOUS

(* The buffer: path, data and eight stale octets.                          *)
LEMMA BufferHolds ==
    ASSUME NEW q \in Requests, NEW stale \in StaleOctets
    PROVE  /\ q.path \in Seq(Octet) /\ q.data \in Seq(Octet) /\ q.segments \in Seq(Segment)
           /\ Len(q.path \o q.data) = Len(q.path) + Len(q.data)
           /\ Buffer(q, stale) \in Seq(Octet)
           /\ Len(Buffer(q, stale)) = Len(q.path) + Len(q.data) + 8
           /\ Begins(Buffer(q, stale), q.path)
           /\ \A i \in 1..Len(q.data) : Buffer(q, stale)[Len(q.path) + i] = q.data[i]
<1> DEFINE path == q.path
           data == q.data
           sent == path \o data
           tail == [k \in 1..8 |-> stale]
           b == sent \o tail
<1>1. path \in Seq(Octet) /\ data \in Seq(Octet) /\ q.segments \in Seq(Segment) /\ stale \in Octet
  BY RequestAssumption
<1>2. tail \in Seq(Octet) /\ Len(tail) = 8
  BY <1>1
<1> HIDE DEF tail, path, data
<1>3. /\ sent \in Seq(Octet) /\ Len(sent) = Len(path) + Len(data)
      /\ \A k \in 1..Len(path) : sent[k] = path[k]
      /\ \A i \in 1..Len(data) : sent[Len(path) + i] = data[i]
  BY <1>1, Appended
<1> HIDE DEF sent
<1>4. b \in Seq(Octet) /\ Len(b) = Len(sent) + 8 /\ \A k \in 1..Len(sent) : b[k] = sent[k]
  <2>1. /\ b \in Seq(Octet) /\ Len(b) = Len(sent) + Len(tail)
        /\ \A k \in 1..Len(sent) : b[k] = sent[k]
    BY <1>2, <1>3, Appended
  <2> HIDE DEF b
  <2> QED  BY <1>2, <2>1
<1> HIDE DEF b
<1>5. /\ \A k \in 1..Len(path) : k \in 1..Len(sent)
      /\ \A i \in 1..Len(data) : Len(path) + i \in 1..Len(sent)
  BY <1>1, <1>3
<1>6. /\ \A k \in 1..Len(path) : b[k] = path[k]
      /\ \A i \in 1..Len(data) : b[Len(path) + i] = data[i]
  BY <1>3, <1>4, <1>5
<1>7. Buffer(q, stale) = b
  BY DEF Buffer, b, sent, tail, path, data
<1>8. Len(b) = Len(path) + Len(data) + 8
  BY <1>3, <1>4
<1>9. Len(q.path \o q.data) = Len(path) + Len(data)
  BY <1>3 DEF sent, path, data
<1> QED
  BY <1>1, <1>4, <1>6, <1>7, <1>8, <1>9 DEF Begins, path, data

(* The fields of the structure from the state of the decoder.              *)
Made(result, state, buffer, length) ==
    /\ result.path = state.path /\ result.size = length - (2 * state.words + 1)
    /\ result.data = SubSeq(buffer, state.pos, Len(buffer))
    /\ result.status = "Success" <=> state.ok /\ ~ (2 * state.words + 1 > length)

(* CreateMessageRouterRequestStructure in terms of the decoder.            *)
LEMMA StructureOf ==
    ASSUME NEW q \in Requests, NEW stale \in StaleOctets
    PROVE  Made(Structure(q, stale), DecodePaddedEPath(Buffer(q, stale)), Buffer(q, stale),
                Len(q.path) + Len(q.data))
<1> DEFINE b == Buffer(q, stale)
           d == DecodePaddedEPath(b)
           r == Structure(q, stale)
           l == Len(q.path) + Len(q.data)
<1>1. Len(q.path \o q.data) = l
  BY BufferHolds
<1>2. r = CreateMessageRouterRequestStructure(b, l)
  BY <1>1 DEF Structure
<1> HIDE DEF b, l
<1>3. r = [status |-> IF ~d.ok THEN "PathSegmentError"
                      ELSE IF 2 * d.words + 1 > l THEN "PathSizeInvalid"
                      ELSE "Success",
           path |-> d.path,
           data |-> SubSeq(b, d.pos, Len(b)),
           size |-> l - (2 * d.words + 1)]
  BY <1>2 DEF CreateMessageRouterRequestStructure, BytesConsumed
<1> HIDE DEF r, d
<1>4. Made(r, d, b, l)
  BY <1>3 DEF Made
<1> QED
  BY <1>4 DEF r, d, b, l

(* Data that follows the path is where the service looks for it.           *)
LEMMA DataFound ==
    ASSUME NEW b \in Seq(Octet), NEW data \in Seq(Octet), NEW k \in Nat,
           Len(b) = k + Len(data) + 8, \A i \in 1..Len(data) : b[k + i] = data[i]
    PROVE  SubSeq(SubSeq(b, k + 1, Len(b)), 1, Len(data)) = data
<1> DEFINE s == SubSeq(b, k + 1, Len(b))
           t == SubSeq(s, 1, Len(data))
<1> Len(data) \in Nat
  OBVIOUS
<1>1. \A i \in (k + 1)..Len(b) : b[i] \in Octet
  OBVIOUS
<1>2. s \in Seq(Octet) /\ Len(s) = Len(data) + 8 /\ \A i \in 1..Len(s) : s[i] = b[k + i]
  BY <1>1
<1> HIDE DEF s
<1>3. t \in Seq(Octet) /\ Len(t) = Len(data) /\ \A i \in 1..Len(data) : t[i] = s[i]
  BY <1>2, \A i \in 1..Len(data) : s[i] \in Octet
<1> HIDE DEF t
<1>4. \A i \in 1..Len(data) : t[i] = data[i]
  <2>1. \A i \in 1..Len(data) : i \in 1..Len(s)
    BY <1>2
  <2>2. \A i \in 1..Len(data) : s[i] = b[k + i]
    BY <1>2, <2>1
  <2> QED  BY <1>3, <2>2
<1>5. t = data
  BY <1>3, <1>4
<1> QED
  BY <1>5 DEF t, s

(* A request with a sound path.                                            *)
LEMMA SoundReaches ==
    ASSUME NEW q \in Requests, NEW stale \in StaleOctets, Sound(q)
    PROVE  LET r == Structure(q, stale)
           IN /\ r.status = "Success" /\ r.size = Len(q.data)
              /\ r.path = Named(q.segments, Len(q.segments))
              /\ EndsWide(q) \/ SubSeq(r.data, 1, r.size) = q.data
<1> DEFINE b == Buffer(q, stale)
           d == DecodePaddedEPath(b)
           r == Structure(q, stale)
<1>1. /\ q.path \in Seq(Octet) /\ q.data \in Seq(Octet) /\ q.segments \in Seq(Segment)
      /\ b \in Seq(Octet) /\ Len(b) = Len(q.path) + Len(q.data) + 8
      /\ Begins(b, q.path) /\ \A i \in 1..Len(q.data) : b[Len(q.path) + i] = q.data[i]
  BY BufferHolds
<1> HIDE DEF b
<1>2. /\ d.ok /\ 2 * d.words + 1 = Len(q.path) /\ d.path = Named(q.segments, Len(q.segments))
      /\ \/ Len(q.segments) > 0 /\ WideMember(q.segments[Len(q.segments)])
         \/ d.pos = Len(q.path) + 1
  <2> HIDE DEF d
  <2>1. /\ WrittenAs(q.path, q.segments) /\ Logicals(q.segments, Len(q.segments) - 1)
        /\ Len(q.segments) > 0 => q.segments[Len(q.segments)].field # "other"
    BY DEF Sound
  <2> QED  BY <1>1, <2>1, SoundDecoded DEF d
<1> HIDE DEF d
<1>3. /\ r.path = d.path /\ r.size = (Len(q.path) + Len(q.data)) - (2 * d.words + 1)
      /\ r.data = SubSeq(b, d.pos, Len(b))
      /\ r.status = "Success" <=> d.ok /\ ~ (2 * d.words + 1 > Len(q.path) + Len(q.data))
  <2>1. Made(r, d, b, Len(q.path) + Len(q.data))
    BY StructureOf DEF d, b
  <2> HIDE DEF r
  <2> QED  BY <2>1 DEF Made
<1> HIDE DEF r
<1>4. Len(q.path) \in Nat /\ Len(q.data) \in Nat
  BY <1>1
<1>5. r.status = "Success" /\ r.size = Len(q.data)
  <2>1. \A x, y \in Nat : (x + y) - x = y /\ ~ (x > x + y)
    OBVIOUS
  <2> QED  BY <1>2, <1>3, <1>4, <2>1
<1>6. EndsWide(q) \/ d.pos = Len(q.path) + 1
  <2>1. Len(q.segments) > 0 => q.segments # <<>>
    BY <1>1
  <2> QED  BY <1>2, <2>1 DEF EndsWide
<1>7. d.pos = Len(q.path) + 1 => SubSeq(r.data, 1, r.size) = q.data
  <2>1. SubSeq(SubSeq(b, Len(q.path) + 1, Len(b)), 1, Len(q.data)) = q.data
    BY <1>1, <1>4, DataFound
  <2> QED  BY <1>3, <1>5, <2>1
<1> QED
  BY <1>2, <1>3, <1>5, <1>6, <1>7 DEF r

(* A path with another segment, or longer than the message.                *)
LEMMA UnsoundRefused ==
    ASSUME NEW q \in Requests, NEW stale \in StaleOctets, Foreign(q) \/ Overlong(q)
    PROVE  Structure(q, stale).status # "Success"
<1> DEFINE b == Buffer(q, stale)
           d == DecodePaddedEPath(b)
           r == Structure(q, stale)
<1>1. /\ q.path \in Seq(Octet) /\ q.data \in Seq(Octet) /\ q.segments \in Seq(Segment)
      /\ b \in Seq(Octet) /\ Len(b) = Len(q.path) + Len(q.data) + 8 /\ Begins(b, q.path)
      /\ Len(q.path \o q.data) = Len(q.path) + Len(q.data)
  BY BufferHolds
<1> HIDE DEF b
<1>2. r.status = "Success" <=> d.ok /\ ~ (2 * d.words + 1 > Len(q.path) + Len(q.data))
  <2>1. Made(r, d, b, Len(q.path) + Len(q.data))
    BY StructureOf DEF b
  <2> HIDE DEF r, d
  <2> QED  BY <2>1 DEF Made
<1> HIDE DEF r
<1>3. CASE Foreign(q)
  <2>1. PICK j \in DOMAIN q.segments :
          q.segments[j].field = "other" /\ Logicals(q.segments, j - 1)
    BY <1>3 DEF Foreign
  <2>2. WrittenAs(q.path, q.segments) /\ j \in 1..Len(q.segments)
    BY <1>1, <1>3 DEF Foreign
  <2>3. ~ d.ok
    BY <1>1, <2>1, <2>2, ForeignRefused
  <2> QED  BY <1>2, <2>3 DEF r
<1>4. CASE Overlong(q)
  <2>1. q.path # <<>> /\ 2 * q.path[1] + 1 > Len(q.path) + Len(q.data)
    BY <1>1, <1>4 DEF Overlong
  <2>2. 1 \in 1..Len(q.path)
    BY <1>1, <2>1
  <2>3. b[1] = q.path[1] /\ b[1] \in Nat
    <3>1. q.path[1] \in Octet
      BY <1>1, <2>2
    <3>2. \A x \in Octet : x \in Nat
      BY DEF Octet
    <3> QED  BY <1>1, <2>2, <3>1, <3>2 DEF Begins
  <2>4. ASSUME d.ok PROVE 2 * d.words + 1 > Len(q.path) + Len(q.data)
    <3>1. d.words >= b[1] /\ d.words \in Nat
      BY <2>3, <2>4, AllWordsRead, DecoderStops DEF DecoderState
    <3>2. Len(q.path) \in Nat /\ Len(q.data) \in Nat
      BY <1>1
    <3>3. \A w, x, l \in Nat : w >= x /\ 2 * x + 1 > l => 2 * w + 1 > l
      OBVIOUS
    <3>4. Len(q.path) + Len(q.data) \in Nat
      BY <3>2, \A x, y \in Nat : x + y \in Nat
    <3> HIDE DEF d
    <3> QED  BY <2>1, <2>3, <3>1, <3>3, <3>4
  <2> QED  BY <1>2, <2>4 DEF r
<1> QED
  BY <1>3, <1>4

(* The request that is answered is one that was sent, as its structure.    *)
Handled ==
    request # NoRequest =>
        \E q \in Requests, stale \in StaleOctets :
            request.sent = q /\ request.structure = Structure(q, stale)

(* There is no other way for a request to get there.                       *)
LEMMA HandledInvariant == Spec => []Handled
<1>1. Init => Handled
  BY DEF Init, Handled
<1>2. Handled /\ [Next]_vars => Handled'
  <2> SUFFICES ASSUME Handled, [Next]_vars PROVE Handled'
    OBVIOUS
  <2>1. ASSUME NEW q \in Requests, HandleRequest(q) PROVE Handled'
    <3>1. PICK stale \in StaleOctets :
            request' = [service |-> q.service, sent |-> q, structure |-> Structure(q, stale)]
      BY <2>1 DEF HandleRequest, Structure, Buffer
    <3>2. request'.sent = q /\ request'.structure = Structure(q, stale)
      BY <3>1
    <3> QED  BY <3>2 DEF Handled
  <2>2. ASSUME request' = request \/ request' = NoRequest PROVE Handled'
    BY <2>2 DEF Handled
  <2>3. DeviceStep \/ UNCHANGED vars => request' = request \/ request' = NoRequest
    BY DEF DeviceStep, SendReply, NvQosStore, Start, Stop, Crash, IdentityStep, Quiet, vars,
         CipIdentitySetExtendedDeviceStatus, CipIdentitySetStatusFlags,
         CipIdentityClearStatusFlags, SetDeviceStatus
  <2> QED  BY <2>1, <2>2, <2>3 DEF Next
<1> QED
  BY <1>1, <1>2, PTL DEF Spec

(* DecodePaddedEPath and CreateMessageRouterRequestStructure: whatever     *)
(* segments a sender writes into a path, and whatever the buffer holds     *)
(* behind it, the request reaches the object that it names, and a path     *)
(* with another segment or longer than its message is refused.             *)
THEOREM ReachesNamed == Spec => []RequestReachesNamed
<1>1. ASSUME Handled PROVE RequestReachesNamed
  <2> SUFFICES ASSUME request # NoRequest PROVE RequestReachesNamed
    BY DEF RequestReachesNamed
  <2>1. PICK q \in Requests, stale \in StaleOctets :
          request.sent = q /\ request.structure = Structure(q, stale)
    BY <1>1 DEF Handled
  <2>2. Sound(q) => LET r == Structure(q, stale)
                    IN /\ r.status = "Success" /\ r.size = Len(q.data)
                       /\ r.path = Named(q.segments, Len(q.segments))
                       /\ EndsWide(q) \/ SubSeq(r.data, 1, r.size) = q.data
    BY SoundReaches
  <2>3. Foreign(q) \/ Overlong(q) => Structure(q, stale).status # "Success"
    BY UnsoundRefused
  <2> QED  BY <2>1, <2>2, <2>3 DEF RequestReachesNamed
<1> QED
  BY <1>1, HandledInvariant, PTL

-----------------------------------------------------------------------------
(* The values that a type can hold; of the others any octets.              *)
Limit8 == 256
Limit16 == 65536
Limit32 == 4294967296

Fits(type, v) ==
    /\ type \in {"Usint", "Bool"} => v \in Nat /\ v < Limit8
    /\ type \in {"Uint", "Word"} => v \in Nat /\ v < Limit16
    /\ type \in {"Udint", "Dword"} => v \in Nat /\ v < Limit32
    /\ type = "ShortString" => v \in Seq(Octet)
    /\ type = "String" => v = <<>>
    /\ type = "Epath" => v = Path(EthernetLink, 1, 0)

(* An integer is read as it was written, least significant octet first.   *)
LEMMA IntegerReadBack ==
    ASSUME NEW v \in Nat
    PROVE  /\ v < Limit8 => GetUsint(LittleEndian(v, 1), 1) = v
           /\ v < Limit16 => GetUint(LittleEndian(v, 2), 1) = v
           /\ v < Limit32 => GetDint(LittleEndian(v, 4), 1) = v
<1>0. \A x \in Nat : x \div 1 = x /\ (x < 256 => x % 256 = x)
  OBVIOUS
<1>1. v < 256 => GetUsint(LittleEndian(v, 1), 1) = v
  BY <1>0 DEF GetUsint, LittleEndian, Weights
<1>2. v < 65536 => (v % 256) + 256 * ((v \div 256) % 256) = v
  OBVIOUS
<1>3. v < 65536 => GetUint(LittleEndian(v, 2), 1) = v
  <2>1. LittleEndian(v, 2)[1] = v % 256 /\ LittleEndian(v, 2)[1 + 1] = (v \div 256) % 256
    BY <1>0 DEF LittleEndian, Weights
  <2> QED  BY <1>2, <2>1 DEF GetUint
<1>4. v < 4294967296 =>
        ((v % 256) + 256 * ((v \div 256) % 256))
           + 65536 * (((v \div 65536) % 256) + 256 * ((v \div 16777216) % 256)) = v
  OBVIOUS
<1>5. v < 4294967296 => GetDint(LittleEndian(v, 4), 1) = v
  <2> DEFINE b == LittleEndian(v, 4)
  <2>1. /\ b[1] = v % 256 /\ b[1 + 1] = (v \div 256) % 256
        /\ b[1 + 2] = (v \div 65536) % 256 /\ b[1 + 2 + 1] = (v \div 16777216) % 256
    BY <1>0 DEF LittleEndian, Weights
  <2> HIDE DEF b
  <2> QED  BY <1>4, <2>1 DEF GetDint, GetUint, b
<1> QED
  BY <1>1, <1>3, <1>5, SMT DEF Limit8, Limit16, Limit32

(* The elements of a sequence of octets.                                   *)
LEMMA SequenceOfOctets == \A s \in Seq(Octet) : \A i \in 1..Len(s) : s[i] \in Octet
OBVIOUS

(* The link path of the TCP/IP object, through the decoder.               *)
LEMMA LinkPathReadBack ==
    LET octets == EncodeCipEPath(Path(EthernetLink, 1, 0), 2)
    IN DecodePaddedEPath(<<octets[1]>> \o SubSeq(octets, 3, Len(octets))).path
         = Path(EthernetLink, 1, 0)
<1> DEFINE path == Path(EthernetLink, 1, 0)
           octets == EncodeCipEPath(path, 2)
           b == <<octets[1]>> \o SubSeq(octets, 3, Len(octets))
           class == <<32, 246>>
           inst == <<36, 1>>
           size == LittleEndian(2, 2)
           end == class \o inst \o <<>>
           rest == SubSeq(octets, 3, Len(octets))
           two == <<octets[1]>>
<1>1. /\ EncodeLogical("class_id", path.class_id) = class
      /\ EncodeLogical("instance_number", path.instance_number) = inst
  BY DEF EncodeLogical, Logical, Path, EthernetLink
<1>2. /\ class \in Seq(Octet) /\ Len(class) = 2 /\ class[1] = 32 /\ class[2] = 246
      /\ inst \in Seq(Octet) /\ Len(inst) = 2 /\ inst[1] = 36 /\ inst[2] = 1
  BY DEF Octet
<1>3. <<>> \in Seq(Octet) /\ Len(<<>>) = 0
  OBVIOUS
<1>4. size \in Seq(Octet) /\ Len(size) = 2 /\ size[1] = 2
  <2>1. \A i \in 1..2 : (2 \div Weights[i]) % 256 \in Octet
    BY DEF Weights, Octet
  <2> QED  BY <2>1 DEF LittleEndian, Weights
<1> HIDE DEF class, inst, size, octets
<1>5. /\ class \o inst \in Seq(Octet) /\ Len(class \o inst) = 4
      /\ (class \o inst)[1] = 32 /\ (class \o inst)[2] = 246
      /\ (class \o inst)[3] = 36 /\ (class \o inst)[4] = 1
  <2> DEFINE z == class \o inst
  <2>1. /\ z \in Seq(Octet) /\ Len(z) = Len(class) + Len(inst)
        /\ \A k \in 1..Len(class) : z[k] = class[k]
        /\ \A i \in 1..Len(inst) : z[Len(class) + i] = inst[i]
    <3>1. class \in Seq(Octet) /\ inst \in Seq(Octet)
      BY <1>2
    <3> QED  BY <3>1, Appended
  <2> HIDE DEF z
  <2>2. z[1] = 32 /\ z[2] = 246 /\ z[2 + 1] = 36 /\ z[2 + 2] = 1 /\ Len(z) = 4
    BY <1>2, <2>1
  <2> QED  BY <2>1, <2>2 DEF z
<1>6. EncodeEPath(path, 2) = end
  <2>1. /\ (IF Len(class) < 2 * 2 THEN inst ELSE <<>>) = inst
        /\ (IF Len(class \o inst) < 2 * 2 THEN EncodeLogical("attribute_number", path.attribute_number) ELSE <<>>) = <<>>
    BY <1>2, <1>5
  <2> QED  BY <1>1, <2>1 DEF EncodeEPath
<1>7. /\ end \in Seq(Octet) /\ Len(end) = 4
      /\ end[1] = 32 /\ end[2] = 246 /\ end[3] = 36 /\ end[4] = 1
  BY <1>3, <1>5, Appended
<1> HIDE DEF end
<1>8. /\ size \o end \in Seq(Octet) /\ Len(size \o end) = 6 /\ (size \o end)[1] = 2
      /\ (size \o end)[3] = 32 /\ (size \o end)[4] = 246
      /\ (size \o end)[5] = 36 /\ (size \o end)[6] = 1
  <2> DEFINE z == size \o end
  <2>1. /\ z \in Seq(Octet) /\ Len(z) = Len(size) + Len(end)
        /\ \A k \in 1..Len(size) : z[k] = size[k]
        /\ \A i \in 1..Len(end) : z[Len(size) + i] = end[i]
    <3>1. size \in Seq(Octet) /\ end \in Seq(Octet)
      BY <1>4, <1>7
    <3> QED  BY <3>1, Appended
  <2> HIDE DEF z
  <2>2. /\ z[1] = 2 /\ z[2 + 1] = 32 /\ z[2 + 2] = 246 /\ z[2 + 3] = 36 /\ z[2 + 4] = 1
        /\ Len(z) = 6
    BY <1>4, <1>7, <2>1
  <2> QED  BY <2>1, <2>2 DEF z
<1>9. octets = size \o end
  BY <1>6 DEF octets, size, EncodeCipEPath
<1>10. /\ octets \in Seq(Octet) /\ Len(octets) = 6 /\ octets[1] = 2
       /\ octets[3] = 32 /\ octets[4] = 246 /\ octets[5] = 36 /\ octets[6] = 1
  BY <1>8, <1>9
<1>11. /\ rest \in Seq(Octet) /\ Len(rest) = 4
       /\ rest[1] = 32 /\ rest[2] = 246 /\ rest[3] = 36 /\ rest[4] = 1
  <2>1. \A i \in 3..6 : i \in 1..6
    OBVIOUS
  <2>2. \A i \in 3..6 : octets[i] \in Octet
    BY <1>10, <2>1, SequenceOfOctets
  <2> QED  BY <1>10, <2>2
<1>12. two \in Seq(Octet) /\ Len(two) = 1 /\ two[1] = 2
  BY <1>10 DEF Octet
<1> HIDE DEF rest, two
<1>13. b[1] = 2 /\ b[2] = 32 /\ b[3] = 246 /\ b[4] = 36 /\ b[5] = 1
  BY <1>11, <1>12, Appended DEF rest, two
<1> HIDE DEF b
<1>14. PICK after : DecodePaddedEPath(b) = after[b[1]] /\ Turns(b, after)
  BY <1>13, DecoderWalks
<1> DEFINE first == [field |-> "class_id", wide |-> FALSE, value |-> 246]
           second == [field |-> "instance_number", wide |-> FALSE, value |-> 1]
<1>15. /\ first \in Segment /\ SegmentAt(b, 2, first) /\ ~ first.wide /\ first.field = "class_id" /\ first.value = 246
       /\ second \in Segment /\ SegmentAt(b, 4, second) /\ ~ second.wide /\ second.field = "instance_number" /\ second.value = 1
  BY <1>13, LogicalTypes DEF Segment, SegmentAt, GetUsint, Logical
<1> HIDE DEF first, second
<1>16. /\ DecoderState(DecodeStart) /\ DecodeStart.ok /\ DecodeStart.words = 0
       /\ DecodeStart.pos = 2 /\ DecodeStart.path = Path(0, 0, 0)
  BY DEF DecodeStart, DecoderState
<1>17. /\ DecoderState(after[1]) /\ after[1].ok /\ after[1].words = 1 /\ after[1].pos = 4
       /\ after[1].path = [Path(0, 0, 0) EXCEPT !["class_id"] = 246]
  <2>1. after[1] = DecodeSegment(b, DecodeStart)
    BY <1>13, <1>14, <1>16 DEF Turns, DecodeTurn
  <2>2. DecoderState(after[1]) /\ Takes(DecodeStart, first, after[1])
    BY <1>15, <1>16, <2>1, SegmentRead, SegmentAdvances
  <2> QED  BY <1>15, <1>16, <2>2 DEF Takes
<1>18. after[2].path = [after[1].path EXCEPT !["instance_number"] = 1]
  <2>1. after[2] = DecodeSegment(b, after[1])
    BY <1>13, <1>14, <1>17 DEF Turns, DecodeTurn
  <2>2. Takes(after[1], second, after[2])
    BY <1>15, <1>17, <2>1, SegmentRead
  <2> QED  BY <1>15, <2>2 DEF Takes
<1>19. after[2].path = path
  <2>1. \A c : [Path(0, 0, 0) EXCEPT !["class_id"] = c] = Path(c, 0, 0)
    BY DEF Path
  <2>2. \A c, i : [Path(c, 0, 0) EXCEPT !["instance_number"] = i] = Path(c, i, 0)
    BY DEF Path
  <2> QED  BY <1>17, <1>18, <2>1, <2>2 DEF EthernetLink
<1> QED
  BY <1>13, <1>14, <1>19 DEF b, rest, two, octets

Types == {"Usint", "Bool", "Uint", "Word", "Udint", "Dword", "ShortString", "String", "Epath",
          "UsintUsint", "ByteArray", "Octets"}

(* What an Encode function writes, a client reads.                         *)
LEMMA ReadBack ==
    ASSUME NEW type \in Types, NEW v, Fits(type, v)
    PROVE  Read(type, Encode(type, v, 0)) = v
<1> DEFINE octets == Encode(type, v, 0)
<1>1. CASE type \in {"Usint", "Bool"}
  <2>1. octets = LittleEndian(v, 1)
    BY <1>1 DEF Encode
  <2>3. v \in Nat /\ v < Limit8
    BY <1>1 DEF Fits
  <2>2. Read(type, octets) = GetUsint(octets, 1)
    BY <1>1 DEF Read
  <2> QED  BY <2>1, <2>2, <2>3, IntegerReadBack
<1>2. CASE type \in {"Uint", "Word"}
  <2>1. octets = LittleEndian(v, 2)
    BY <1>2 DEF Encode
  <2>3. v \in Nat /\ v < Limit16
    BY <1>2 DEF Fits
  <2>2. Read(type, octets) = GetUint(octets, 1)
    BY <1>2 DEF Read
  <2> QED  BY <2>1, <2>2, <2>3, IntegerReadBack
<1>3. CASE type \in {"Udint", "Dword"}
  <2>1. octets = LittleEndian(v, 4)
    BY <1>3 DEF Encode
  <2>3. v \in Nat /\ v < Limit32
    BY <1>3 DEF Fits
  <2>2. Read(type, octets) = GetDint(octets, 1)
    BY <1>3 DEF Read
  <2> QED  BY <2>1, <2>2, <2>3, IntegerReadBack
<1>4. CASE type = "ShortString"
  <2>1. octets = <<Len(v)>> \o v /\ v \in Seq(Octet)
    BY <1>4 DEF Encode, Fits
  <2>2. Read(type, octets) = SubSeq(octets, 2, octets[1] + 1)
    BY <1>4 DEF Read
  <2>3. ASSUME NEW w \in Seq(Octet)
        PROVE  SubSeq(<<Len(w)>> \o w, 2, (<<Len(w)>> \o w)[1] + 1) = w
    <3>1. /\ Len(w) \in Nat /\ (<<Len(w)>> \o w)[1] = Len(w)
          /\ Len(<<Len(w)>> \o w) = Len(w) + 1
          /\ \A i \in 1..Len(w) : (<<Len(w)>> \o w)[i + 1] = w[i]
      OBVIOUS
    <3> DEFINE z == <<Len(w)>> \o w
               y == SubSeq(z, 2, Len(w) + 1)
    <3>2. z \in Seq(Nat)
      <4>1. w \in Seq(Nat)
        <5>1. \A i \in 1..Len(w) : w[i] \in Nat
          BY SequenceOfOctets, \A x \in Octet : x \in Nat DEF Octet
        <5> QED  BY <5>1
      <4> QED  BY <3>1, <4>1
    <3> HIDE DEF z
    <3>3. \A i \in 2..(Len(w) + 1) : z[i] \in Nat
      BY <3>1, <3>2 DEF z
    <3>4. y \in Seq(Nat) /\ Len(y) = Len(w) /\ \A i \in 1..Len(w) : y[i] = z[i + 1]
      BY <3>1, <3>2, <3>3
    <3> HIDE DEF y
    <3>5. y = w
      BY <3>1, <3>4 DEF z
    <3> QED  BY <3>1, <3>5 DEF y, z
  <2> QED  BY <2>1, <2>2, <2>3
<1>5. CASE type = "String"
  <2>6. v = <<>>
    BY <1>5 DEF Fits
  <2>1. octets = LittleEndian(0, 2) \o <<>> \o <<>>
    <3>1. octets = LittleEndian(Len(v), 2) \o v
                     \o (IF v # <<>> /\ (0 + Len(v)) % 2 = 1 THEN <<0>> ELSE <<>>)
      BY <1>5, Zenon DEF Encode
    <3>2. Len(v) = 0
      BY <2>6
    <3> QED  BY <2>6, <3>1, <3>2
  <2>2. Read(type, octets) = SubSeq(octets, 3, GetUint(octets, 1) + 2)
    BY <1>5 DEF Read
  <2>3. LittleEndian(0, 2) \o <<>> \o <<>> = LittleEndian(0, 2)
    BY DEF LittleEndian
  <2>4. GetUint(LittleEndian(0, 2), 1) = 0
    BY IntegerReadBack, SMT DEF Limit16
  <2>5. SubSeq(LittleEndian(0, 2), 3, 0 + 2) = <<>>
    BY DEF LittleEndian
  <2> QED  BY <2>1, <2>2, <2>3, <2>4, <2>5, <2>6
<1>6. CASE type = "Epath"
  <2>1. octets = EncodeCipEPath(v, 2) /\ v = Path(EthernetLink, 1, 0)
    BY <1>6 DEF Encode, Fits
  <2>2. Read(type, octets) = DecodePaddedEPath(<<octets[1]>> \o SubSeq(octets, 3, Len(octets))).path
    BY <1>6 DEF Read
  <2> QED  BY <2>1, <2>2, LinkPathReadBack
<1>7. CASE type \in {"UsintUsint", "ByteArray", "Octets"}
  <2>1. octets = v
    BY <1>7 DEF Encode
  <2>2. Read(type, octets) = octets
    BY <1>7 DEF Read
  <2> QED  BY <2>1, <2>2
<1> QED
  BY <1>1, <1>2, <1>3, <1>4, <1>5, <1>6, <1>7 DEF Types

-----------------------------------------------------------------------------
(* The objects of a device that can be read back.                          *)
Ranged(o) ==
    /\ Valid(o)
    /\ o.identity.shown \in Nat /\ o.identity.shown <= ExtStatusMask

(* A value of sixteen bits.                                                *)
Fits16(v) == v \in Nat /\ v < Limit16

(* What fits into an octet fits into every integer.                        *)
LEMMA SmallFits == \A v \in Nat : v <= 255 => Fits16(v) /\ v < Limit8 /\ v < Limit32
BY SMT DEF Fits16, Limit8, Limit16, Limit32

(* Numbers of instances.                                                   *)
LEMMA OneInstance ==
    /\ Cardinality(AddCipInstances(1)) = 1
    /\ \A class : class.instances = AddCipInstances(1) => GetMaxInstanceNumber(class) = 1
<1>1. AddCipInstances(1) = {1}
  BY DEF AddCipInstances
<1>2. Cardinality({1}) = 1
  BY FS_Singleton
<1>3. ASSUME NEW class, class.instances = {1} PROVE GetMaxInstanceNumber(class) = 1
  BY <1>3 DEF GetMaxInstanceNumber
<1> QED
  BY <1>1, <1>2, <1>3

(* The largest number of an assembly is the number of one.                 *)
LEMMA MaxAssembly ==
    ASSUME NEW class, class.instances = AssemblyInstances
    PROVE  GetMaxInstanceNumber(class) \in AssemblyInstances
<1> DEFINE A == AssemblyInstances
           bounds == {m \in Nat : \A i \in A : i <= m}
           m == Min(bounds)
<1>1. /\ A \subseteq Nat /\ \A i \in A : i < 65536
      /\ InputAssembly \in A
  BY AssemblyAssumption DEF AssemblyInstances
<1>2. bounds # {} /\ bounds \subseteq Nat
  <2>1. \A i \in A : i <= 65536
    BY <1>1
  <2> QED  BY <2>1
<1>3. m \in bounds /\ \A k \in bounds : m <= k
  BY <1>2, MinIsLeast
<1> HIDE DEF m
<1>4. m \in A
  <2> SUFFICES ASSUME m \notin A PROVE FALSE
    OBVIOUS
  <2>1. m \in Nat /\ \A i \in A : i <= m /\ i # m /\ i \in Nat
    BY <1>1, <1>3
  <2>2. m - 1 \in Nat
    BY <1>1, <2>1
  <2>3. \A i \in A : i <= m - 1
    BY <2>1
  <2>4. m - 1 \in bounds /\ ~ (m <= m - 1)
    BY <2>1, <2>2, <2>3
  <2> QED  BY <1>3, <2>4
<1>5. \E k \in A : \A i \in A : i <= k
  BY <1>3, <1>4
<1>6. A # {}
  BY <1>1
<1> HIDE DEF A
<1> QED
  BY <1>5, <1>6 DEF GetMaxInstanceNumber, A

(* The class attributes are integers of 16 bits, and so are their values.  *)
LEMMA ClassValueFits ==
    ASSUME NEW c \in Registered, NEW n, n \in DOMAIN GetCipClass(c).classAttributes
    PROVE  /\ GetCipClass(c).classAttributes[n].type = "Uint"
           /\ Fits16(ClassAttributeValue(c, GetCipClass(c), n))
<1> DEFINE class == GetCipClass(c)
<1>1. class.classAttributes \in {ClassAttributes, InitializeCipIdentity, InitializeCipMessageRouterClass}
  BY ClassTables DEF Registered, CipIdentityInit, CipMessageRouterInit, CreateAssemblyClass,
       CipQoSInit, CipTcpIpInterfaceInit, CipEthernetLinkInit, CreateCipClass
<1>2. n \in 1..7 /\ class.classAttributes[n].type = "Uint"
  <2>1. CASE class.classAttributes = ClassAttributes
    BY <2>1 DEF ClassAttributes, InsertAttribute
  <2>2. CASE class.classAttributes = InitializeCipIdentity
    BY <2>2 DEF InitializeCipIdentity, InsertAttribute
  <2>3. CASE class.classAttributes = InitializeCipMessageRouterClass
    BY <2>3 DEF InitializeCipMessageRouterClass, InsertAttribute
  <2> QED  BY <1>1, <2>1, <2>2, <2>3
<1>3. /\ class.revision \in {1, 2, 4} /\ class.highest \in {0, 4, 7, 8, 11, 13}
      /\ c # Assembly => class.instances = AddCipInstances(1)
      /\ c = Assembly => class.instances = AssemblyInstances
  BY ClassTables DEF Registered, CipIdentityInit, CipMessageRouterInit, CreateAssemblyClass,
       CipQoSInit, CipTcpIpInterfaceInit, CipEthernetLinkInit, CreateCipClass
<1>4. Fits16(Cardinality(class.instances))
  BY <1>3, OneInstance, AssemblyAssumption, SmallFits
<1>5. Fits16(GetMaxInstanceNumber(class))
  <2>1. CASE c # Assembly
    BY <1>3, <2>1, OneInstance, SmallFits
  <2>2. CASE c = Assembly
    <3>1. GetMaxInstanceNumber(class) \in AssemblyInstances
      BY <1>3, <2>2, MaxAssembly
    <3>2. \A i \in AssemblyInstances : Fits16(i)
      BY AssemblyAssumption DEF Fits16, Limit16
    <3> QED  BY <3>1, <3>2
  <2> QED  BY <2>1, <2>2
<1>6. Fits16(class.revision) /\ Fits16(class.highest) /\ Fits16(0) /\ Fits16(7)
  BY <1>3, SmallFits
<1> HIDE DEF class
<1>7. Fits16(ClassAttributeValue(c, class, n))
  BY <1>2, <1>4, <1>5, <1>6 DEF ClassAttributeValue
<1> QED
  BY <1>2, <1>7 DEF class

(* The status word has its extended status in four bits and six flags.     *)
LEMMA StatusWordFits ==
    ASSUME NEW identity, identity.shown \in Nat, identity.shown <= ExtStatusMask
    PROVE  Fits16(StatusWord(identity))
<1> DEFINE Bit(flag) == IF flag \in identity.flags THEN flag ELSE 0
<1>1. \A f \in Nat : Bit(f) \in Nat /\ Bit(f) <= f
  OBVIOUS
<1> HIDE DEF Bit
<1>2. /\ Bit(1) \in Nat /\ Bit(1) <= 1 /\ Bit(4) \in Nat /\ Bit(4) <= 4
      /\ Bit(256) \in Nat /\ Bit(256) <= 256 /\ Bit(512) \in Nat /\ Bit(512) <= 512
      /\ Bit(1024) \in Nat /\ Bit(1024) <= 1024 /\ Bit(2048) \in Nat /\ Bit(2048) <= 2048
  BY <1>1
<1>3. StatusWord(identity) =
        Bit(1) + Bit(4) + Bit(256) + Bit(512) + Bit(1024) + Bit(2048) + identity.shown
  BY DEF StatusWord, Bit, Owned, Configured, MinorRecoverableFault, MinorUncoverableFault,
         MajorRecoverableFault, MajorUnrecoverableFault
<1> QED
  BY <1>2, <1>3, SMT DEF Fits16, Limit16, ExtStatusMask

(* The attributes of the Identity object.                                  *)
LEMMA IdentityValueFits ==
    ASSUME NEW identity, identity.shown \in Nat, identity.shown <= ExtStatusMask,
           NEW n \in DOMAIN CipIdentityInit.attributes
    PROVE  LET type == CipIdentityInit.attributes[n].type
           IN type \in Types /\ Fits(type, IdentityValue(identity, n))
<1> DEFINE type == CipIdentityInit.attributes[n].type
           v == IdentityValue(identity, n)
<1>1. /\ n \in 1..7
      /\ type = <<"Uint", "Uint", "Uint", "UsintUsint", "Word", "Udint", "ShortString">>[n]
  BY DEF CipIdentityInit, CreateCipClass, InsertAttribute
<1>2. v = <<1, 12, 65001, <<1, 0>>, StatusWord(identity), 123456789, ProductName>>[n]
  BY DEF IdentityValue
<1> HIDE DEF type, v
<1>3. /\ n \in 1..3 => type = "Uint" /\ v \in {1, 12, 65001}
      /\ n = 4 => type = "UsintUsint"
      /\ n = 5 => type = "Word" /\ v = StatusWord(identity)
      /\ n = 6 => type = "Udint" /\ v = 123456789
      /\ n = 7 => type = "ShortString" /\ v = ProductName
  BY <1>1, <1>2, SMT
<1>4. /\ \A w \in {1, 12, 65001} : Fits16(w)
      /\ 123456789 \in Nat /\ 123456789 < Limit32
  BY SMT DEF Fits16, Limit16, Limit32
<1>5. Fits16(StatusWord(identity)) /\ ProductName \in Seq(Octet)
  BY StatusWordFits, RequestAssumption
<1>6. n \in 1..3 \/ n = 4 \/ n = 5 \/ n = 6 \/ n = 7
  BY <1>1
<1>7. type \in Types /\ Fits(type, v)
  BY <1>3, <1>4, <1>5, <1>6, SMT DEF Types, Fits, Fits16
<1> QED
  BY <1>7 DEF type, v

(* The attributes of the TCP/IP object that can be read.                   *)
LEMMA TcpIpValueFits ==
    ASSUME NEW o, Ranged(o), NEW n \in DOMAIN CipTcpIpInterfaceInit.attributes,
           InGetSingleMask(CipTcpIpInterfaceInit.attributes[n])
    PROVE  LET type == CipTcpIpInterfaceInit.attributes[n].type
           IN type \in Types /\ Fits(type, TcpIpValue(o.tcpip, n))
<1> DEFINE a == CipTcpIpInterfaceInit.attributes[n]
           type == a.type
           v == TcpIpValue(o.tcpip, n)
           control == o.tcpip.config_control
           timeout == o.tcpip.encapsulation_inactivity_timeout
           link == Path(EthernetLink, 1, 0)
<1>1. /\ n \in 1..13
      /\ type = <<"Dword", "Dword", "Dword", "Epath", "Octets", "String", "Octets",
                   "Usint", "Octets", "Bool", "Octets", "Bool", "Uint">>[n]
      /\ n \in {7, 10, 11, 12} => a.flags = GetableAllDummy
  BY DEF CipTcpIpInterfaceInit, CreateCipClass, InsertAttribute
<1>2. n \notin {7, 10, 11, 12}
  BY <1>1 DEF InGetSingleMask, GetableAllDummy
<1>3. /\ control \in Nat /\ control <= 255 /\ Fits16(timeout)
  <2>1. control \in 0..2 /\ timeout \in 0..MaxInactivityTimeout
    BY DEF Ranged, Valid
  <2> HIDE DEF control, timeout
  <2> QED  BY <2>1, SMT DEF MaxInactivityTimeout, Fits16, Limit16
<1>4. v = <<1, 4, control, link, Zeros(22), <<>>, Zeros(6),
            1, <<0, 0, 1, 0, 0, 0, 0, 0>>, 0, Zeros(35), 0, timeout>>[n]
  BY DEF TcpIpValue
<1> HIDE DEF type, v, control, timeout, link
<1>5. /\ n = 1 => type = "Dword" /\ v = 1
      /\ n = 2 => type = "Dword" /\ v = 4
      /\ n = 3 => type = "Dword" /\ v = control
      /\ n = 4 => type = "Epath" /\ v = link
      /\ n = 5 => type = "Octets"
      /\ n = 6 => type = "String" /\ v = <<>>
      /\ n = 8 => type = "Usint" /\ v = 1
      /\ n = 9 => type = "Octets"
      /\ n = 13 => type = "Uint" /\ v = timeout
  BY <1>1, <1>4, SMT
<1>6. n = 1 \/ n = 2 \/ n = 3 \/ n = 4 \/ n = 5 \/ n = 6 \/ n = 8 \/ n = 9 \/ n = 13
  BY <1>1, <1>2
<1>7. /\ \A w \in Nat : w <= 255 => w < Limit8 /\ w < Limit32
      /\ 1 \in Nat /\ 1 <= 255 /\ 4 \in Nat /\ 4 <= 255
  BY SmallFits
<1>8. type \in Types /\ Fits(type, v)
  BY <1>3, <1>5, <1>6, <1>7, SMT DEF Types, Fits, Fits16, link
<1> QED
  BY <1>8 DEF type, v

(* The attributes of the Ethernet Link object.                             *)
LEMMA EthernetLinkValueFits ==
    ASSUME NEW n \in DOMAIN CipEthernetLinkInit.attributes,
           InGetSingleMask(CipEthernetLinkInit.attributes[n])
    PROVE  LET type == CipEthernetLinkInit.attributes[n].type
           IN type \in Types /\ Fits(type, EthernetLinkValue(n))
<1> DEFINE a == CipEthernetLinkInit.attributes[n]
           type == a.type
           v == EthernetLinkValue(n)
<1>1. /\ n \in 1..11
      /\ type = <<"Udint", "Dword", "Octets", "Octets", "Octets", "Octets",
                   "Usint", "Usint", "Usint", "ShortString", "Octets">>[n]
      /\ n \in {4, 5, 8, 9} => a.flags = GetableAllDummy
      /\ n \in {6, 10} => a.flags = GetableAll
  BY DEF CipEthernetLinkInit, CreateCipClass, InsertAttribute
<1>2. n \notin {4, 5, 6, 8, 9, 10}
  BY <1>1 DEF InGetSingleMask, GetableAllDummy, GetableAll
<1>3. v = <<100, 15, Zeros(6), Zeros(44), Zeros(48), Zeros(4), 2, 0, 0, <<>>,
            <<2, 0, 0, 0, 1, 100, 0, 1>>>>[n]
  BY DEF EthernetLinkValue
<1> HIDE DEF type, v
<1>4. /\ n = 1 => type = "Udint" /\ v = 100
      /\ n = 2 => type = "Dword" /\ v = 15
      /\ n = 3 => type = "Octets"
      /\ n = 7 => type = "Usint" /\ v = 2
      /\ n = 11 => type = "Octets"
  BY <1>1, <1>3, SMT
<1>5. n = 1 \/ n = 2 \/ n = 3 \/ n = 7 \/ n = 11
  BY <1>1, <1>2
<1>6. 100 < Limit32 /\ 15 < Limit32 /\ 2 < Limit8
  BY SmallFits
<1>7. type \in Types /\ Fits(type, v)
  BY <1>4, <1>5, <1>6, SMT DEF Types, Fits
<1> QED
  BY <1>7 DEF type, v

(* The value of an attribute that can be got fits its type, in every       *)
(* class.                                                                  *)
LEMMA ValueFits ==
    ASSUME NEW o, Ranged(o), NEW c \in Registered, NEW i, InstanceExists(GetCipClass(c), i),
           NEW n, n \in DOMAIN AttributesOf(GetCipClass(c), i),
           InGetSingleMask(AttributesOf(GetCipClass(c), i)[n])
    PROVE  /\ AttributesOf(GetCipClass(c), i)[n].type \in Types
           /\ Fits(AttributesOf(GetCipClass(c), i)[n].type, Value(o, c, i, n))
<1> DEFINE class == GetCipClass(c)
           a == AttributesOf(class, i)[n]
           v == Value(o, c, i, n)
<1> USE ClassTables
<1>1. CASE i = 0
  <2>1. a = class.classAttributes[n] /\ n \in DOMAIN class.classAttributes
    BY <1>1 DEF AttributesOf
  <2>2. a.type = "Uint" /\ Fits16(ClassAttributeValue(c, class, n))
    BY <2>1, ClassValueFits
  <2>3. v = ClassAttributeValue(c, class, n)
    BY <1>1 DEF Value
  <2> QED  BY <2>2, <2>3 DEF Fits, Fits16, Types
<1>2. ASSUME i # 0 PROVE i \in class.instances /\ AttributesOf(class, i) = class.attributes
  BY <1>2 DEF InstanceExists, AttributesOf
<1>3. CASE i # 0 /\ c = Identity
  <2>1. a = CipIdentityInit.attributes[n] /\ n \in DOMAIN CipIdentityInit.attributes
    BY <1>2, <1>3
  <2>2. v = IdentityValue(o.identity, n)
    BY <1>3 DEF Value, Identity, QoS, TcpIp, EthernetLink, Assembly
  <2>3. a.type \in Types /\ Fits(a.type, IdentityValue(o.identity, n))
    BY <2>1, IdentityValueFits DEF Ranged
  <2> QED  BY <2>2, <2>3
<1>4. CASE i # 0 /\ c = MessageRouter
  BY <1>2, <1>4 DEF CipMessageRouterInit, CreateCipClass
<1>5. CASE i # 0 /\ c = QoS
  <2>1. AttributesOf(class, i) = CipQoSInit.attributes
    BY <1>2, <1>5
  <2>2. n \in 1..8 /\ a.type = "Usint" /\ (n \in 1..3 => a.flags = NotSetOrGetable)
    BY <2>1 DEF CipQoSInit, CreateCipClass, InsertAttribute
  <2>3. n \in DscpAttributes
    BY <2>2 DEF InGetSingleMask, NotSetOrGetable, DscpAttributes
  <2>4. v = o.qos[n]
    BY <1>5, <2>3 DEF Value, Identity, QoS, TcpIp, EthernetLink, Assembly
  <2>5. o.qos[n] \in 0..63
    BY <2>3 DEF Ranged, Valid
  <2>6. v \in Nat /\ v < Limit8
    BY <2>4, <2>5, SmallFits
  <2> QED  BY <2>2, <2>6 DEF Fits, Types
<1>6. CASE i # 0 /\ c = TcpIp
  <2>1. a = CipTcpIpInterfaceInit.attributes[n] /\ n \in DOMAIN CipTcpIpInterfaceInit.attributes
    BY <1>2, <1>6
  <2>2. v = TcpIpValue(o.tcpip, n)
    BY <1>6 DEF Value, Identity, QoS, TcpIp, EthernetLink, Assembly
  <2>3. a.type \in Types /\ Fits(a.type, TcpIpValue(o.tcpip, n))
    BY <2>1, TcpIpValueFits
  <2> QED  BY <2>2, <2>3
<1>7. CASE i # 0 /\ c = EthernetLink
  <2>1. a = CipEthernetLinkInit.attributes[n] /\ n \in DOMAIN CipEthernetLinkInit.attributes
    BY <1>2, <1>7
  <2>2. v = EthernetLinkValue(n)
    BY <1>7 DEF Value, Identity, QoS, TcpIp, EthernetLink, Assembly
  <2>3. a.type \in Types /\ Fits(a.type, EthernetLinkValue(n))
    BY <2>1, EthernetLinkValueFits
  <2> QED  BY <2>2, <2>3
<1>8. CASE i # 0 /\ c = Assembly
  <2>1. AttributesOf(class, i) = CreateAssemblyObject /\ i \in AssemblyInstances
    BY <1>2, <1>8 DEF CreateAssemblyClass, CreateCipClass
  <2>2. n \in {3, 4} /\ a.type = IF n = 3 THEN "ByteArray" ELSE "Uint"
    BY <2>1 DEF CreateAssemblyObject, InsertAttribute
  <2>3. v = IF n = 3 THEN o.assembly[i] ELSE AssemblySize[i]
    BY <1>8 DEF Value, Identity, QoS, TcpIp, EthernetLink, Assembly
  <2>4. Fits16(AssemblySize[i])
    BY <2>1, AssemblyAssumption, SMT DEF Fits16, Limit16
  <2> QED  BY <2>2, <2>3, <2>4 DEF Fits, Fits16, Types
<1> QED
  BY <1>1, <1>3, <1>4, <1>5, <1>6, <1>7, <1>8 DEF Registered

-----------------------------------------------------------------------------
(* The loop of a list service: it has not ended while it is successful.    *)
ListState(s) ==
    /\ DOMAIN s = {"status", "octets", "ended", "counted", "rest"}
    /\ s.status = "Success" => s.ended = FALSE

(* The state before the first attribute.                                   *)
LEMMA ListStartState ==
    ASSUME NEW data
    PROVE  ListState(ListStart(data)) /\ ListStart(data).octets = <<>>
BY DEF ListState, ListStart

(* The record of an attribute with its value.                              *)
Record(o, p, attributes, n) ==
    Encode(attributes[n].type, Value(o, p.class_id, p.instance_number, n), 0)

WithRecord(octets, n, record) == octets \o LittleEndian(n, 2) \o <<0, 0>> \o record

(* One turn of GetAttributeList: a list that is still successful has one   *)
(* more record, with the value.                                            *)
LEMMA GetListedTurn ==
    ASSUME NEW o, NEW p, NEW attributes, NEW s, ListState(s), NEW n
    PROVE  /\ ListState(GetListed(o, p, attributes, s, n))
           /\ GetListed(o, p, attributes, s, n).status = "Success" =>
                /\ s.status = "Success"
                /\ GetListed(o, p, attributes, s, n).octets =
                     WithRecord(s.octets, n, Record(o, p, attributes, n))
<1> DEFINE t == GetListed(o, p, attributes, s, n)
<1> SUFFICES /\ ListState(t)
             /\ t.status = "Success" =>
                  /\ s.status = "Success"
                  /\ t.octets = WithRecord(s.octets, n, Record(o, p, attributes, n))
  OBVIOUS
<1>1. \/ s.ended /\ t = s
      \/ t = OutOfSpace(s)
      \/ \E w, v : t = ListError(Listed(s, n, w, v))
      \/ ~ s.ended /\ t = Listed(s, n, 0, Record(o, p, attributes, n))
  BY DEF GetListed, Record
<1> HIDE DEF t
<1>2. ListState(OutOfSpace(s)) /\ OutOfSpace(s).status # "Success"
  BY DEF OutOfSpace, ListState
<1>3. \A w, v : ListState(ListError(Listed(s, n, w, v))) /\ ListError(Listed(s, n, w, v)).status # "Success"
  BY DEF ListError, Listed, ListState
<1>4. ASSUME NEW v, NEW u, u = Listed(s, n, 0, v)
      PROVE  /\ ListState(u) /\ u.status = s.status
             /\ u.octets = WithRecord(s.octets, n, v)
  <2>1. /\ DOMAIN u = DOMAIN s /\ u.status = s.status /\ u.ended = s.ended
        /\ u.octets = s.octets \o LittleEndian(n, 2) \o <<0, 0>> \o v
    BY <1>4 DEF Listed, ListState
  <2> QED  BY <2>1 DEF ListState, WithRecord
<1>5. CASE s.ended /\ t = s
  BY <1>5 DEF ListState
<1>6. CASE t = OutOfSpace(s)
  BY <1>2, <1>6
<1>7. CASE \E w, v : t = ListError(Listed(s, n, w, v))
  BY <1>3, <1>7
<1>8. CASE t = Listed(s, n, 0, Record(o, p, attributes, n))
  BY <1>4, <1>8
<1> QED
  BY <1>1, <1>5, <1>6, <1>7, <1>8

(* One turn of SetAttributeList: none of the attributes can be set.        *)
LEMMA SetListedTurn ==
    ASSUME NEW attributes, NEW s, ListState(s)
    PROVE  ListState(SetListed(attributes, s)) /\ SetListed(attributes, s).status # "Success"
<1> DEFINE t == SetListed(attributes, s)
<1>1. \/ s.ended /\ t = s
      \/ t = OutOfSpace(s)
      \/ \E n, v, w : t = [ListError(Listed(s, n, v, <<>>)) EXCEPT !.rest = w]
      \/ \E n, v : t = [Listed(s, n, v, <<>>)
                          EXCEPT !.status = "PartialTransfer", !.ended = TRUE, !.counted = FALSE]
  BY DEF SetListed
<1> SUFFICES ListState(t) /\ t.status # "Success"
  OBVIOUS
<1> HIDE DEF t
<1>2. CASE s.ended /\ t = s
  BY <1>2 DEF ListState
<1>3. CASE t = OutOfSpace(s)
  BY <1>3 DEF ListState, OutOfSpace
<1>4. ASSUME NEW n, NEW v, NEW w, t = [ListError(Listed(s, n, v, <<>>)) EXCEPT !.rest = w]
      PROVE  ListState(t) /\ t.status # "Success"
  <2>1. PICK u : u = Listed(s, n, v, <<>>)
    OBVIOUS
  <2>2. DOMAIN u = DOMAIN s
    BY <2>1 DEF Listed, ListState
  <2>3. t = [[u EXCEPT !.status = "AttributeListError"] EXCEPT !.rest = w]
    BY <1>4, <2>1 DEF ListError
  <2> QED  BY <2>2, <2>3 DEF ListState
<1>5. ASSUME NEW n, NEW v,
             t = [Listed(s, n, v, <<>>)
                    EXCEPT !.status = "PartialTransfer", !.ended = TRUE, !.counted = FALSE]
      PROVE  ListState(t) /\ t.status # "Success"
  <2>1. PICK u : u = Listed(s, n, v, <<>>)
    OBVIOUS
  <2>2. DOMAIN u = DOMAIN s
    BY <2>1 DEF Listed, ListState
  <2>3. t = [u EXCEPT !.status = "PartialTransfer", !.ended = TRUE, !.counted = FALSE]
    BY <1>5, <2>1
  <2> QED  BY <2>2, <2>3 DEF ListState
<1> QED
  BY <1>1, <1>2, <1>3, <1>4, <1>5

(* The turns of the loop of GetAttributeList, of that of SetAttributeList, *)
(* and of the list of records.                                             *)
GetTurns(o, p, attributes, data, count, after) ==
    /\ GetAttributeList(o, p, data) =
         Answer(after[count].status, LittleEndian(count, 2) \o after[count].octets)
    /\ after[0] = ListStart(<<>>)
    /\ \A j \in 1..count :
          after[j] = GetListed(o, p, attributes, after[j - 1], GetUint(data, 2 * j + 1))

SetTurns(p, attributes, data, count, after) ==
    /\ \E octets : SetAttributeList(p, data) = Answer(after[count].status, octets)
    /\ after[0] = ListStart(SubSeq(data, 3, Len(data)))
    /\ \A j \in 1..count : after[j] = SetListed(attributes, after[j - 1])

IdentityRecord(o, n) == Encode(CipIdentityInit.attributes[n].type, Value(o, Identity, 1, n), 0)

RecordTurns(o, data, count, after) ==
    /\ Records(o, data) = after[count]
    /\ after[0] = <<>>
    /\ \A k \in 1..count :
          after[k] = WithRecord(after[k - 1], GetUint(data, 2 * k + 1),
                                IdentityRecord(o, GetUint(data, 2 * k + 1)))

(* The recursive function of GetAttributeList exists.                      *)
LEMMA GetListWalks ==
    ASSUME NEW o, NEW p, NEW data, NEW count \in Nat, count = GetUint(data, 1), count # 0,
           NEW attributes, attributes = AttributesOf(GetCipClass(p.class_id), p.instance_number)
    PROVE  \E after : GetTurns(o, p, attributes, data, count, after)
<1> DEFINE Turn(j, s) == GetListed(o, p, attributes, s, GetUint(data, 2 * j + 1))
           Walks(m, f) == f = [j \in 0..m |-> IF j = 0 THEN ListStart(<<>>) ELSE Turn(j, f[j - 1])]
           S == {m \in Nat : \E f : Walks(m, f)}
<1> HIDE DEF Turn
<1>1. 0 \in S
  <2>1. Walks(0, [j \in 0..0 |-> ListStart(<<>>)])
    OBVIOUS
  <2> QED  BY <2>1
<1>2. ASSUME NEW m \in 1..count, m - 1 \in S PROVE m \in S
  <2>1. PICK f : Walks(m - 1, f)
    BY <1>2
  <2> DEFINE g == [j \in 0..m |-> IF j = m THEN Turn(m, f[m - 1]) ELSE f[j]]
  <2>2. \A j \in 0..m : g[j] = IF j = 0 THEN ListStart(<<>>) ELSE Turn(j, g[j - 1])
    BY <2>1
  <2>3. Walks(m, g)
    BY <2>2
  <2>4. m \in Nat
    OBVIOUS
  <2> HIDE DEF Walks, g
  <2> QED  BY <2>3, <2>4
<1>3. \E f : Walks(count, f)
  <2> HIDE DEF S
  <2>1. count \in 0..count
    OBVIOUS
  <2>2. count \in S
    BY <1>1, <1>2, <2>1, UpTo
  <2> QED  BY <2>2 DEF S
<1> DEFINE after[j \in 0..count] ==
             IF j = 0 THEN ListStart(<<>>)
             ELSE GetListed(o, p, attributes, after[j - 1], GetUint(data, 2 * j + 1))
<1>4. GetAttributeList(o, p, data) =
        Answer(after[count].status, LittleEndian(count, 2) \o after[count].octets)
  BY Zenon DEF GetAttributeList
<1>5. Walks(count, after)
  BY <1>3, Zenon DEF Turn
<1> HIDE DEF after
<1>6. \A j \in 0..count : after[j] = IF j = 0 THEN ListStart(<<>>) ELSE Turn(j, after[j - 1])
  BY <1>5
<1>7. after[0] = ListStart(<<>>) /\ \A j \in 1..count : after[j] = Turn(j, after[j - 1])
  BY <1>6
<1> QED
  BY <1>4, <1>7 DEF Turn, GetTurns

(* The recursive function of SetAttributeList exists.                      *)
LEMMA SetListWalks ==
    ASSUME NEW p, NEW data, NEW count \in Nat, count = GetUint(data, 1), count # 0,
           NEW attributes, attributes = AttributesOf(GetCipClass(p.class_id), p.instance_number)
    PROVE  \E after : SetTurns(p, attributes, data, count, after)
<1> DEFINE Turn(s) == SetListed(attributes, s)
           start == ListStart(SubSeq(data, 3, Len(data)))
           Walks(m, f) == f = [j \in 0..m |-> IF j = 0 THEN start ELSE Turn(f[j - 1])]
           S == {m \in Nat : \E f : Walks(m, f)}
<1> HIDE DEF Turn, start
<1>1. 0 \in S
  <2>1. Walks(0, [j \in 0..0 |-> start])
    OBVIOUS
  <2> QED  BY <2>1
<1>2. ASSUME NEW m \in 1..count, m - 1 \in S PROVE m \in S
  <2>1. PICK f : Walks(m - 1, f)
    BY <1>2
  <2> DEFINE g == [j \in 0..m |-> IF j = m THEN Turn(f[m - 1]) ELSE f[j]]
  <2>2. \A j \in 0..m : g[j] = IF j = 0 THEN start ELSE Turn(g[j - 1])
    BY <2>1
  <2>3. Walks(m, g)
    BY <2>2
  <2>4. m \in Nat
    OBVIOUS
  <2> HIDE DEF Walks, g
  <2> QED  BY <2>3, <2>4
<1>3. \E f : Walks(count, f)
  <2> HIDE DEF S
  <2>1. count \in 0..count
    OBVIOUS
  <2>2. count \in S
    BY <1>1, <1>2, <2>1, UpTo
  <2> QED  BY <2>2 DEF S
<1> DEFINE after[j \in 0..count] ==
             IF j = 0 THEN ListStart(SubSeq(data, 3, Len(data)))
             ELSE SetListed(attributes, after[j - 1])
<1>4. \E octets : SetAttributeList(p, data) = Answer(after[count].status, octets)
  BY Zenon DEF SetAttributeList
<1>5. Walks(count, after)
  BY <1>3, Zenon DEF Turn, start
<1> HIDE DEF after
<1>6. \A j \in 0..count : after[j] = IF j = 0 THEN start ELSE Turn(after[j - 1])
  BY <1>5
<1>7. after[0] = start /\ \A j \in 1..count : after[j] = Turn(after[j - 1])
  BY <1>6
<1> QED
  BY <1>4, <1>7 DEF Turn, SetTurns, start

(* And that of the records.                                                *)
LEMMA RecordsWalk ==
    ASSUME NEW o, NEW data, NEW count \in Nat, count = GetUint(data, 1)
    PROVE  \E after : RecordTurns(o, data, count, after)
<1> DEFINE Turn(k, s) == LET n == GetUint(data, 2 * k + 1)
                         IN s \o LittleEndian(n, 2) \o <<0, 0>>
                              \o Encode(CipIdentityInit.attributes[n].type, Value(o, Identity, 1, n), 0)
           Walks(m, f) == f = [k \in 0..m |-> IF k = 0 THEN <<>> ELSE Turn(k, f[k - 1])]
           S == {m \in Nat : \E f : Walks(m, f)}
<1> HIDE DEF Turn
<1>1. 0 \in S
  <2>1. Walks(0, [k \in 0..0 |-> <<>>])
    OBVIOUS
  <2> QED  BY <2>1
<1>2. ASSUME NEW m \in 1..count, m - 1 \in S PROVE m \in S
  <2>1. PICK f : Walks(m - 1, f)
    BY <1>2
  <2> DEFINE g == [k \in 0..m |-> IF k = m THEN Turn(m, f[m - 1]) ELSE f[k]]
  <2>2. \A k \in 0..m : g[k] = IF k = 0 THEN <<>> ELSE Turn(k, g[k - 1])
    BY <2>1
  <2>3. Walks(m, g)
    BY <2>2
  <2>4. m \in Nat
    OBVIOUS
  <2> HIDE DEF Walks, g
  <2> QED  BY <2>3, <2>4
<1>3. \E f : Walks(count, f)
  <2> HIDE DEF S
  <2>1. count \in 0..count
    OBVIOUS
  <2>2. count \in S
    BY <1>1, <1>2, <2>1, UpTo
  <2> QED  BY <2>2 DEF S
<1> DEFINE after[k \in 0..count] ==
             IF k = 0 THEN <<>>
             ELSE LET n == GetUint(data, 2 * k + 1)
                  IN after[k - 1] \o LittleEndian(n, 2) \o <<0, 0>>
                       \o Encode(CipIdentityInit.attributes[n].type, Value(o, Identity, 1, n), 0)
<1>4. Records(o, data) = after[count]
  BY Zenon DEF Records
<1>5. Walks(count, after)
  BY <1>3, Zenon DEF Turn
<1> HIDE DEF after
<1>6. \A k \in 0..count : after[k] = IF k = 0 THEN <<>> ELSE Turn(k, after[k - 1])
  BY <1>5
<1>7. after[0] = <<>> /\ \A k \in 1..count : after[k] = Turn(k, after[k - 1])
  BY <1>6
<1> QED
  BY <1>4, <1>7 DEF Turn, RecordTurns, WithRecord, IdentityRecord

(* Integers in the data of a request, and in what a service finds.         *)
LEMMA UintIsNat ==
    ASSUME NEW s \in Seq(Octet), NEW i \in Nat, 1 <= i, i + 1 <= Len(s)
    PROVE  GetUint(s, i) \in Nat
<1>1. i \in 1..Len(s) /\ i + 1 \in 1..Len(s)
  OBVIOUS
<1>2. s[i] \in Octet /\ s[i + 1] \in Octet
  BY <1>1, SequenceOfOctets
<1>3. \A x \in Octet : x \in Nat
  BY DEF Octet
<1>4. \A x, y \in Nat : x + 256 * y \in Nat
  OBVIOUS
<1> QED
  BY <1>2, <1>3, <1>4 DEF GetUint

(* Octets at the front of a sequence.                                      *)
LEMMA SameOctets ==
    ASSUME NEW s \in Seq(Octet), NEW t \in Seq(Octet), Len(s) >= Len(t),
           SubSeq(s, 1, Len(t)) = t
    PROVE  \A k \in 1..Len(t) : s[k] = t[k]
<1>1. \A k \in 1..Len(t) : SubSeq(s, 1, Len(t))[k] = s[k]
  OBVIOUS
<1> QED
  BY <1>1, Zenon

(* A list that is answered with success is the list of the values.         *)
LEMMA GetListTrue ==
    ASSUME NEW o, NEW p, p.class_id = Identity, p.instance_number = 1,
           NEW data, NEW sent, NEW count \in Nat, count = GetUint(data, 1), count = GetUint(sent, 1),
           \A j \in 1..count : GetUint(data, 2 * j + 1) = GetUint(sent, 2 * j + 1),
           GetAttributeList(o, p, data).status = "Success"
    PROVE  GetAttributeList(o, p, data).octets = LittleEndian(count, 2) \o Records(o, sent)
<1> DEFINE attributes == CipIdentityInit.attributes
<1>0. attributes = AttributesOf(GetCipClass(p.class_id), p.instance_number)
  BY ClassTables DEF AttributesOf
<1>1. count # 0
  <2> SUFFICES ASSUME count = 0 PROVE FALSE
    OBVIOUS
  <2>1. GetAttributeList(o, p, data) = Answer("AttributeListError", <<>>)
    BY Zenon DEF GetAttributeList
  <2> QED  BY <2>1 DEF Answer
<1> HIDE DEF attributes
<1>2. PICK after : GetTurns(o, p, attributes, data, count, after)
  BY <1>0, <1>1, GetListWalks
<1>3. PICK list : RecordTurns(o, sent, count, list)
  BY RecordsWalk
<1> DEFINE S == {j \in Nat : /\ ListState(after[j])
                             /\ after[j].status = "Success" => after[j].octets = list[j]}
<1>4. 0 \in S
  BY <1>2, <1>3, ListStartState DEF GetTurns, RecordTurns
<1>5. ASSUME NEW j \in 1..count, j - 1 \in S PROVE j \in S
  <2>0. PICK n : n = GetUint(data, 2 * j + 1)
    OBVIOUS
  <2>1. ListState(after[j - 1]) /\ after[j] = GetListed(o, p, attributes, after[j - 1], n)
    BY <1>2, <1>5, <2>0 DEF GetTurns
  <2>2. /\ ListState(after[j])
        /\ after[j].status = "Success" =>
             /\ after[j - 1].status = "Success"
             /\ after[j].octets = WithRecord(after[j - 1].octets, n, Record(o, p, attributes, n))
    <3>1. PICK s : s = after[j - 1]
      OBVIOUS
    <3>2. PICK t : t = GetListed(o, p, attributes, s, n)
      OBVIOUS
    <3>3. ListState(s)
      BY <2>1, <3>1
    <3>4. /\ ListState(t)
          /\ t.status = "Success" =>
               s.status = "Success" /\ t.octets = WithRecord(s.octets, n, Record(o, p, attributes, n))
      BY <3>2, <3>3, GetListedTurn
    <3>5. after[j] = t
      BY <2>1, <3>1, <3>2
    <3> QED  BY <3>1, <3>4, <3>5
  <2>3. Record(o, p, attributes, n) = IdentityRecord(o, n)
    BY DEF Record, IdentityRecord, attributes
  <2>4. list[j] = WithRecord(list[j - 1], n, IdentityRecord(o, n))
    BY <1>3, <2>0 DEF RecordTurns
  <2>5. after[j].status = "Success" => after[j].octets = list[j]
    <3>1. after[j - 1].status = "Success" => after[j - 1].octets = list[j - 1]
      BY <1>5
    <3> QED  BY <2>2, <2>3, <2>4, <3>1
  <2>6. j \in Nat
    OBVIOUS
  <2> QED  BY <2>2, <2>5, <2>6
<1>6. count \in S
  <2> HIDE DEF S
  <2>1. count \in 0..count
    OBVIOUS
  <2> QED  BY <1>4, <1>5, <2>1, UpTo
<1>7. after[count].octets = list[count]
  BY <1>2, <1>6 DEF Answer, GetTurns
<1>8. GetAttributeList(o, p, data).octets = LittleEndian(count, 2) \o after[count].octets
  BY <1>2 DEF Answer, GetTurns
<1>9. LittleEndian(count, 2) \o after[count].octets = LittleEndian(count, 2) \o Records(o, sent)
  BY <1>3, <1>7 DEF RecordTurns
<1> QED
  BY <1>8, <1>9

(* SetAttributeList never succeeds.                                        *)
LEMMA SetListRefused ==
    ASSUME NEW p, NEW data, GetUint(data, 1) \in Nat
    PROVE  SetAttributeList(p, data).status # "Success"
<1> DEFINE count == GetUint(data, 1)
           attributes == AttributesOf(GetCipClass(p.class_id), p.instance_number)
<1>1. CASE count = 0
  <2>1. SetAttributeList(p, data) = Answer("AttributeListError", <<>>)
    BY <1>1, Zenon DEF SetAttributeList
  <2> QED  BY <2>1 DEF Answer
<1>2. CASE count # 0
  <2>0. count \in Nat
    OBVIOUS
  <2>1. PICK after : SetTurns(p, attributes, data, count, after)
    BY <1>2, <2>0, SetListWalks
  <2> HIDE DEF count, attributes
  <2> DEFINE S == {j \in Nat : ListState(after[j]) /\ (j > 0 => after[j].status # "Success")}
  <2>2. 0 \in S
    BY <2>1, ListStartState DEF SetTurns
  <2>3. ASSUME NEW j \in 1..count, j - 1 \in S PROVE j \in S
    BY <2>1, <2>3, SetListedTurn DEF SetTurns
  <2>4. count \in Nat /\ count # 0
    BY <1>2 DEF count
  <2>5. count \in S
    <3> HIDE DEF S
    <3>1. count \in 0..count
      BY <2>4
    <3> QED  BY <2>2, <2>3, <2>4, <3>1, UpTo
  <2>6. after[count].status # "Success"
    BY <2>4, <2>5
  <2> QED  BY <2>1, <2>6 DEF Answer, SetTurns
<1> QED
  BY <1>1, <1>2

-----------------------------------------------------------------------------
(* The attributes that SetAttributeSingle lets pass, with their types.     *)
CanSet(c, i, n, type) ==
    \/ c = QoS /\ i = 1 /\ n \in DscpAttributes /\ type = "Usint"
    \/ c = TcpIp /\ i = 1 /\ n = 3 /\ type = "Dword"
    \/ c = TcpIp /\ i = 1 /\ n = 13 /\ type = "Uint"
    \/ c = Assembly /\ i \in AssemblyInstances /\ i # 0 /\ n = 3 /\ type = "ByteArray"

(* The checks of SetAttributeSingle and the tables of the classes.         *)
LEMMA WhatCanBeSet ==
    ASSUME NEW c \in Registered, NEW i, NEW n, InstanceExists(GetCipClass(c), i),
           "SetAttributeSingle" \in ServicesOf(GetCipClass(c), i),
           n \in DOMAIN AttributesOf(GetCipClass(c), i),
           InSetMask(AttributesOf(GetCipClass(c), i)[n])
    PROVE  CanSet(c, i, n, AttributesOf(GetCipClass(c), i)[n].type)
<1>1. i # 0
  BY DEF GetCipClass, ServicesOf, Registered, ClassServices, CipIdentityInit, CipMessageRouterInit,
         CreateAssemblyClass, CipQoSInit, CipTcpIpInterfaceInit, CipEthernetLinkInit, CreateCipClass,
         Identity, MessageRouter, Assembly, QoS, TcpIp, EthernetLink
<1>2. \/ c = QoS /\ n \in DscpAttributes
      \/ c = TcpIp /\ n \in {3, 13}
      \/ c = Assembly /\ i \in AssemblyInstances /\ n = 3
  BY SettableAttributes
<1>3. CASE c = QoS /\ n \in DscpAttributes
  <2>1. GetCipClass(c) = CipQoSInit
    BY <1>3, ClassTables
  <2>2. i \in AddCipInstances(1)
    BY <1>1, <2>1 DEF InstanceExists, CipQoSInit, CreateCipClass
  <2>3. i = 1
    BY <2>2 DEF AddCipInstances
  <2>4. AttributesOf(GetCipClass(c), i)[n].type = "Usint"
    <3>1. n \in 1..8
      BY <1>3 DEF DscpAttributes
    <3> QED  BY <1>1, <2>1, <3>1 DEF AttributesOf, CipQoSInit, CreateCipClass, InsertAttribute
  <2> QED  BY <1>3, <2>3, <2>4 DEF CanSet
<1>4. CASE c = TcpIp /\ n \in {3, 13}
  <2>1. GetCipClass(c) = CipTcpIpInterfaceInit
    BY <1>4, ClassTables
  <2>2. i \in AddCipInstances(1)
    BY <1>1, <2>1 DEF InstanceExists, CipTcpIpInterfaceInit, CreateCipClass
  <2>3. i = 1
    BY <2>2 DEF AddCipInstances
  <2>4. AttributesOf(GetCipClass(c), i)[n].type = IF n = 3 THEN "Dword" ELSE "Uint"
    BY <1>1, <1>4, <2>1 DEF AttributesOf, CipTcpIpInterfaceInit, CreateCipClass, InsertAttribute
  <2> QED  BY <1>4, <2>3, <2>4 DEF CanSet
<1>5. CASE c = Assembly /\ i \in AssemblyInstances /\ n = 3
  <2>1. GetCipClass(c) = CreateAssemblyClass
    BY <1>5, ClassTables
  <2>2. AttributesOf(GetCipClass(c), i)[n].type = "ByteArray"
    BY <1>1, <1>5, <2>1 DEF AttributesOf, CreateAssemblyClass, CreateAssemblyObject,
         CreateCipClass, InsertAttribute
  <2> QED  BY <1>1, <1>5, <2>2 DEF CanSet
<1> QED
  BY <1>2, <1>3, <1>4, <1>5

(* What is set is what is read, and nothing else has changed.              *)
OthersKept(o, w, c, i, n) ==
    \A a \in Settable \ {<<c, i, n>>} : Value(w, a[1], a[2], a[3]) = Value(o, a[1], a[2], a[3])

(* The values of the attributes that can be set.                           *)
LEMMA SettableValue ==
    ASSUME NEW o
    PROVE  /\ \A n \in DscpAttributes : Value(o, QoS, 1, n) = o.qos[n]
           /\ Value(o, TcpIp, 1, 3) = o.tcpip.config_control
           /\ Value(o, TcpIp, 1, 13) = o.tcpip.encapsulation_inactivity_timeout
           /\ \A i \in AssemblyInstances : i # 0 => Value(o, Assembly, i, 3) = o.assembly[i]
<1>1. ASSUME NEW n \in DscpAttributes PROVE Value(o, QoS, 1, n) = o.qos[n]
  BY DEF Value, Identity, QoS, TcpIp, EthernetLink, Assembly
<1>2. \A n : Value(o, TcpIp, 1, n) = TcpIpValue(o.tcpip, n)
  BY DEF Value, Identity, QoS, TcpIp, EthernetLink, Assembly
<1>3. ASSUME NEW t PROVE TcpIpValue(t, 3) = t.config_control /\ TcpIpValue(t, 13) = t.encapsulation_inactivity_timeout
  BY DEF TcpIpValue
<1>4. ASSUME NEW i \in AssemblyInstances, i # 0 PROVE Value(o, Assembly, i, 3) = o.assembly[i]
  BY <1>4 DEF Value, Identity, QoS, TcpIp, EthernetLink, Assembly
<1> QED
  BY <1>1, <1>2, <1>3, <1>4

(* A set followed by a get, of the same attribute and of another one.      *)
LEMMA SetTrue ==
    ASSUME NEW o, Valid(o), NEW c, NEW i, NEW n, NEW type, CanSet(c, i, n, type), NEW v
    PROVE  /\ Value(WithValue(o, c, i, n, v), c, i, n) = v
           /\ OthersKept(o, WithValue(o, c, i, n, v), c, i, n)
<1>0. PICK w : w = WithValue(o, c, i, n, v)
  OBVIOUS
<1>1. ASSUME NEW a \in Settable
      PROVE  \/ \E k \in DscpAttributes : a = <<QoS, 1, k>>
             \/ a = <<TcpIp, 1, 3>> \/ a = <<TcpIp, 1, 13>>
             \/ \E j \in AssemblyInstances : j # 0 /\ a = <<Assembly, j, 3>>
  BY <1>1, AssemblyAssumption DEF Settable
<1>2. QoS # TcpIp /\ QoS # Assembly /\ TcpIp # Assembly
  BY DEF QoS, TcpIp, Assembly
<1>3. CASE c = QoS /\ i = 1 /\ n \in DscpAttributes
  <2>1. w = [o EXCEPT !.qos[n] = v]
    BY <1>0, <1>2, <1>3 DEF WithValue
  <2>2. /\ w.tcpip = o.tcpip /\ w.assembly = o.assembly /\ w.qos[n] = v
        /\ \A k \in DscpAttributes \ {n} : w.qos[k] = o.qos[k]
    BY <1>3, <2>1 DEF Valid
  <2>3. Value(w, c, i, n) = v
    BY <1>3, <2>2, SettableValue
  <2>4. ASSUME NEW a \in Settable \ {<<c, i, n>>}
        PROVE  Value(w, a[1], a[2], a[3]) = Value(o, a[1], a[2], a[3])
    <3>1. CASE \E k \in DscpAttributes : a = <<QoS, 1, k>>
      <4>1. PICK k \in DscpAttributes : a = <<QoS, 1, k>>
        BY <3>1
      <4>2. k # n /\ a[1] = QoS /\ a[2] = 1 /\ a[3] = k
        BY <1>3, <2>4, <4>1
      <4> QED  BY <2>2, <4>2, SettableValue
    <3>2. CASE a = <<TcpIp, 1, 3>> \/ a = <<TcpIp, 1, 13>>
      <4>1. a[1] = TcpIp /\ a[2] = 1 /\ a[3] \in {3, 13}
        BY <3>2
      <4> QED  BY <2>2, <4>1, SettableValue
    <3>3. CASE \E j \in AssemblyInstances : j # 0 /\ a = <<Assembly, j, 3>>
      <4>1. a[1] = Assembly /\ a[2] \in AssemblyInstances /\ a[2] # 0 /\ a[3] = 3
        BY <3>3
      <4> QED  BY <2>2, <4>1, SettableValue
    <3> QED  BY <1>1, <3>1, <3>2, <3>3
  <2> QED  BY <1>0, <2>3, <2>4 DEF OthersKept
<1>4. CASE c = TcpIp /\ i = 1 /\ n \in {3, 13}
  <2>1. \/ n = 3 /\ w = [o EXCEPT !.tcpip.config_control = v]
        \/ n = 13 /\ w = [o EXCEPT !.tcpip.encapsulation_inactivity_timeout = v]
    BY <1>0, <1>2, <1>4 DEF WithValue
  <2>2. w.qos = o.qos /\ w.assembly = o.assembly
    BY <2>1 DEF Valid
  <2>3. /\ n = 3 => /\ w.tcpip.config_control = v
                    /\ w.tcpip.encapsulation_inactivity_timeout
                         = o.tcpip.encapsulation_inactivity_timeout
        /\ n = 13 => /\ w.tcpip.encapsulation_inactivity_timeout = v
                     /\ w.tcpip.config_control = o.tcpip.config_control
    <3>1. DOMAIN o.tcpip = {"config_control", "encapsulation_inactivity_timeout"}
      BY DEF Valid
    <3>2. \/ n = 3 /\ w.tcpip = [o.tcpip EXCEPT !.config_control = v]
          \/ n = 13 /\ w.tcpip = [o.tcpip EXCEPT !.encapsulation_inactivity_timeout = v]
      BY <2>1 DEF Valid
    <3> QED  BY <3>1, <3>2
  <2>4. Value(w, c, i, n) = v
    BY <1>4, <2>3, SettableValue
  <2>5. ASSUME NEW a \in Settable \ {<<c, i, n>>}
        PROVE  Value(w, a[1], a[2], a[3]) = Value(o, a[1], a[2], a[3])
    <3>1. CASE \E k \in DscpAttributes : a = <<QoS, 1, k>>
      <4>1. a[1] = QoS /\ a[2] = 1 /\ a[3] \in DscpAttributes
        BY <3>1
      <4> QED  BY <2>2, <4>1, SettableValue
    <3>2. CASE a = <<TcpIp, 1, 3>> \/ a = <<TcpIp, 1, 13>>
      <4>1. a[1] = TcpIp /\ a[2] = 1 /\ a[3] \in {3, 13} /\ a[3] # n
        BY <1>4, <2>5, <3>2
      <4> QED  BY <1>4, <2>3, <4>1, SettableValue
    <3>3. CASE \E j \in AssemblyInstances : j # 0 /\ a = <<Assembly, j, 3>>
      <4>1. a[1] = Assembly /\ a[2] \in AssemblyInstances /\ a[2] # 0 /\ a[3] = 3
        BY <3>3
      <4> QED  BY <2>2, <4>1, SettableValue
    <3> QED  BY <1>1, <3>1, <3>2, <3>3
  <2> QED  BY <1>0, <2>4, <2>5 DEF OthersKept
<1>5. CASE c = Assembly /\ i \in AssemblyInstances /\ i # 0 /\ n = 3
  <2>1. w = [o EXCEPT !.assembly[i] = v]
    BY <1>0, <1>2, <1>5 DEF WithValue
  <2>2. /\ w.tcpip = o.tcpip /\ w.qos = o.qos /\ w.assembly[i] = v
        /\ \A k \in AssemblyInstances \ {i} : w.assembly[k] = o.assembly[k]
    BY <1>5, <2>1 DEF Valid
  <2>3. Value(w, c, i, n) = v
    BY <1>5, <2>2, SettableValue
  <2>4. ASSUME NEW a \in Settable \ {<<c, i, n>>}
        PROVE  Value(w, a[1], a[2], a[3]) = Value(o, a[1], a[2], a[3])
    <3>1. CASE \E k \in DscpAttributes : a = <<QoS, 1, k>>
      <4>1. a[1] = QoS /\ a[2] = 1 /\ a[3] \in DscpAttributes
        BY <3>1
      <4> QED  BY <2>2, <4>1, SettableValue
    <3>2. CASE a = <<TcpIp, 1, 3>> \/ a = <<TcpIp, 1, 13>>
      <4>1. a[1] = TcpIp /\ a[2] = 1 /\ a[3] \in {3, 13}
        BY <3>2
      <4> QED  BY <2>2, <4>1, SettableValue
    <3>3. CASE \E j \in AssemblyInstances : j # 0 /\ a = <<Assembly, j, 3>>
      <4>1. PICK j \in AssemblyInstances : j # 0 /\ a = <<Assembly, j, 3>>
        BY <3>3
      <4>2. j # i /\ a[1] = Assembly /\ a[2] = j /\ a[3] = 3
        BY <1>5, <2>4, <4>1
      <4> QED  BY <2>2, <4>1, <4>2, SettableValue
    <3> QED  BY <1>1, <3>1, <3>2, <3>3
  <2> QED  BY <1>0, <2>3, <2>4 DEF OthersKept
<1> QED
  BY <1>3, <1>4, <1>5 DEF CanSet

(* The decode functions read what was sent.                                *)
LEMMA DecodedSent ==
    ASSUME NEW c, NEW i, NEW n, NEW type, CanSet(c, i, n, type),
           NEW data \in Seq(Octet), NEW sent \in Seq(Octet), Len(data) >= Len(sent),
           SubSeq(data, 1, Len(sent)) = sent, Len(sent) >= Width(type),
           Decode(c, i, n, data, Len(sent)).status = "Success"
    PROVE  Decode(c, i, n, data, Len(sent)).value = Read(type, sent)
<1>1. \A k \in 1..Len(sent) : data[k] = sent[k]
  BY SameOctets
<1>2. QoS # TcpIp /\ QoS # Assembly /\ TcpIp # Assembly
  BY DEF QoS, TcpIp, Assembly
<1>3. CASE c = QoS /\ i = 1 /\ n \in DscpAttributes /\ type = "Usint"
  <2>1. Decode(c, i, n, data, Len(sent)).value = data[1]
    BY <1>2, <1>3 DEF Decode, DecodeCipQoSAttribute, Decoded, GetUsint
  <2>2. Read(type, sent) = sent[1]
    BY <1>3 DEF Read, GetUsint
  <2>3. Width(type) = 1
    BY <1>3 DEF Width, GetCipDataTypeLength
  <2>4. 1 \in 1..Len(sent)
    BY <2>3
  <2> QED  BY <1>1, <2>1, <2>2, <2>4
<1>4. CASE c = TcpIp /\ i = 1 /\ n = 3 /\ type = "Dword"
  <2>1. Decode(c, i, n, data, Len(sent)).value = GetDint(data, 1)
    BY <1>2, <1>4 DEF Decode, DecodeConfigurationControl, Decoded
  <2>2. Read(type, sent) = GetDint(sent, 1)
    BY <1>4 DEF Read
  <2>3. Width(type) = 4
    BY <1>4 DEF Width, GetCipDataTypeLength
  <2>4. 1 \in 1..Len(sent) /\ 1 + 1 \in 1..Len(sent) /\ 1 + 2 \in 1..Len(sent) /\ 1 + 2 + 1 \in 1..Len(sent)
    BY <2>3
  <2>5. /\ data[1] = sent[1] /\ data[1 + 1] = sent[1 + 1] /\ data[1 + 2] = sent[1 + 2]
        /\ data[1 + 2 + 1] = sent[1 + 2 + 1]
    BY <1>1, <2>4
  <2>6. GetDint(data, 1) = GetDint(sent, 1)
    <3>1. GetUint(data, 1) = GetUint(sent, 1) /\ GetUint(data, 1 + 2) = GetUint(sent, 1 + 2)
      BY <2>5, SMT DEF GetUint
    <3> QED  BY <3>1, SMT DEF GetDint
  <2> QED  BY <2>1, <2>2, <2>6
<1>5. CASE c = TcpIp /\ i = 1 /\ n = 13 /\ type = "Uint"
  <2>1. Decode(c, i, n, data, Len(sent)).value = GetUint(data, 1)
    BY <1>2, <1>5 DEF Decode, DecodeInactivityTimeout, Decoded
  <2>2. Read(type, sent) = GetUint(sent, 1)
    BY <1>5 DEF Read
  <2>3. Width(type) = 2
    BY <1>5 DEF Width, GetCipDataTypeLength
  <2>4. 1 \in 1..Len(sent) /\ 1 + 1 \in 1..Len(sent)
    BY <2>3
  <2>5. data[1] = sent[1] /\ data[1 + 1] = sent[1 + 1]
    BY <1>1, <2>4
  <2>6. GetUint(data, 1) = GetUint(sent, 1)
    BY <2>5, Zenon DEF GetUint
  <2> QED  BY <2>1, <2>2, <2>6
<1>6. CASE c = Assembly /\ i \in AssemblyInstances /\ i # 0 /\ n = 3 /\ type = "ByteArray"
  <2>1. AssemblySize[i] \in Nat /\ Len(sent) \in Nat
    BY <1>6, AssemblyAssumption
  <2>2. Decode(c, i, n, data, Len(sent)) = DecodeCipAssemblyAttribute3(data, Len(sent), AssemblySize[i])
    BY <1>2, <1>6 DEF Decode
  <2>3. Len(sent) = AssemblySize[i] /\ Decode(c, i, n, data, Len(sent)).value = SubSeq(data, 1, AssemblySize[i])
    BY <2>1, <2>2 DEF DecodeCipAssemblyAttribute3, Decoded
  <2>4. Read(type, sent) = sent
    BY <1>6 DEF Read
  <2> QED  BY <2>3, <2>4
<1> QED
  BY <1>3, <1>4, <1>5, <1>6 DEF CanSet

-----------------------------------------------------------------------------
(* An object that the router finds, and the service it asks of it.         *)
Reached(p, service) ==
    /\ p.class_id \in Registered
    /\ InstanceExists(GetCipClass(p.class_id), p.instance_number)
    /\ service \in ServicesOf(GetCipClass(p.class_id), p.instance_number)

NamedType(p) == AttributesOf(GetCipClass(p.class_id), p.instance_number)[p.attribute_number].type

NamedValue(o, p) == Value(o, p.class_id, p.instance_number, p.attribute_number)

Reading == {"GetAttributeSingle", "GetAttributeAll", "GetAttributeList", "SetAttributeList"}

(* The tables of services: six services, and lists for one object only.    *)
LEMMA ServicesKnown ==
    ASSUME NEW p, NEW service, Reached(p, service)
    PROVE  /\ service \in Reading \cup {"SetAttributeSingle", "Reset"}
           /\ service = "GetAttributeList" => p.class_id = Identity /\ p.instance_number = 1
<1>0. PICK c, i : c = p.class_id /\ i = p.instance_number
  OBVIOUS
<1>1. /\ c \in Registered /\ InstanceExists(GetCipClass(c), i) /\ service \in ServicesOf(GetCipClass(c), i)
  BY <1>0 DEF Reached
<1>2. CASE c = Identity
  <2>1. /\ GetCipClass(c).instances = AddCipInstances(1)
        /\ GetCipClass(c).services = {"GetAttributeSingle", "GetAttributeAll", "Reset",
                                      "GetAttributeList", "SetAttributeList"}
        /\ GetCipClass(c).classServices = {"GetAttributeSingle", "GetAttributeAll"}
    BY <1>2, ClassTables DEF CipIdentityInit, CreateCipClass, ClassServices
  <2>2. i = 0 \/ i = 1
    BY <1>1, <2>1 DEF InstanceExists, AddCipInstances
  <2>3. IF i = 0 THEN service \in {"GetAttributeSingle", "GetAttributeAll"}
        ELSE service \in {"GetAttributeSingle", "GetAttributeAll", "Reset",
                          "GetAttributeList", "SetAttributeList"}
    BY <1>1, <2>1 DEF ServicesOf
  <2> QED  BY <1>0, <1>2, <2>2, <2>3 DEF Reading
<1>3. CASE c # Identity
  <2>1. service \in {"GetAttributeSingle", "GetAttributeAll", "SetAttributeSingle"}
    BY <1>1, <1>3, ClassTables DEF Registered, ServicesOf, ClassServices, CipMessageRouterInit,
         CreateAssemblyClass, CipQoSInit, CipTcpIpInterfaceInit, CipEthernetLinkInit, CreateCipClass
  <2> QED  BY <2>1 DEF Reading
<1> QED
  BY <1>2, <1>3

(* What a service that was refused leaves.                                 *)
Refused(o, dscp, e) == e.status # "Success" /\ e.objects = o /\ e.dscp = dscp

(* What a set that was not refused has done.                               *)
HasSet(o, p, data, size, e) ==
    /\ e.status = "Success"
    /\ CanSet(p.class_id, p.instance_number, p.attribute_number, NamedType(p))
    /\ Decode(p.class_id, p.instance_number, p.attribute_number, data, size).status = "Success"
    /\ e.objects = WithValue(o, p.class_id, p.instance_number, p.attribute_number,
                     Decode(p.class_id, p.instance_number, p.attribute_number, data, size).value)

(* SetAttributeSingle refuses, or it sets what it has decoded.             *)
LEMMA SetAnswers ==
    ASSUME NEW o, NEW dscp, NEW p, Reached(p, "SetAttributeSingle"), NEW data, NEW size
    PROVE  \/ Refused(o, dscp, SetAttributeSingle(o, dscp, p, data, size))
           \/ HasSet(o, p, data, size, SetAttributeSingle(o, dscp, p, data, size))
<1>0. PICK c, i, n : c = p.class_id /\ i = p.instance_number /\ n = p.attribute_number
  OBVIOUS
<1> DEFINE attributes == AttributesOf(GetCipClass(c), i)
           d == Decode(c, i, n, data, size)
           e == SetAttributeSingle(o, dscp, p, data, size)
<1>1. \/ e = Effect(Answer("AttributeNotSupported", <<>>), o, dscp, "none")
      \/ e = Effect(Answer("AttributeNotSetable", <<>>), o, dscp, "none")
      \/ /\ n \in DOMAIN attributes /\ InSetMask(attributes[n])
         /\ e = Effect(Answer(d.status, <<>>),
                       IF d.status = "Success" THEN WithValue(o, c, i, n, d.value) ELSE o,
                       dscp, PostSetCallback(c))
  BY <1>0 DEF SetAttributeSingle
<1> SUFFICES Refused(o, dscp, e) \/ HasSet(o, p, data, size, e)
  OBVIOUS
<1> HIDE DEF e
<1>2. ASSUME NEW x, x # "Success", e = Effect(Answer(x, <<>>), o, dscp, "none")
      PROVE  Refused(o, dscp, e)
  BY <1>2 DEF Effect, Answer, Refused
<1>3. ASSUME n \in DOMAIN attributes, InSetMask(attributes[n]),
             e = Effect(Answer(d.status, <<>>),
                        IF d.status = "Success" THEN WithValue(o, c, i, n, d.value) ELSE o,
                        dscp, PostSetCallback(c))
      PROVE  Refused(o, dscp, e) \/ HasSet(o, p, data, size, e)
  <2>1. CanSet(c, i, n, attributes[n].type)
    BY <1>0, <1>3, WhatCanBeSet DEF Reached
  <2> HIDE DEF d
  <2>2. /\ e.status = d.status /\ e.dscp = dscp
        /\ e.objects = IF d.status = "Success" THEN WithValue(o, c, i, n, d.value) ELSE o
    BY <1>3 DEF Effect, Answer
  <2>3. CASE d.status # "Success"
    BY <2>2, <2>3 DEF Refused
  <2>4. CASE d.status = "Success"
    BY <1>0, <2>1, <2>2, <2>4 DEF HasSet, NamedType, d
  <2> QED  BY <2>3, <2>4
<1> QED
  BY <1>1, <1>2, <1>3

(* Reset refuses, or it brings the values of the QoS object into use.      *)
LEMMA ResetAnswers ==
    ASSUME NEW o, NEW dscp, NEW data, NEW size
    PROVE  \/ Refused(o, dscp, IdentityObjectPreResetCallback(o, dscp, data, size))
           \/ /\ IdentityObjectPreResetCallback(o, dscp, data, size).status = "Success"
              /\ IdentityObjectPreResetCallback(o, dscp, data, size).dscp =
                   IdentityObjectPreResetCallback(o, dscp, data, size).objects.qos
<1> DEFINE e == IdentityObjectPreResetCallback(o, dscp, data, size)
<1>1. \/ e = Effect(Answer("TooMuchData", <<>>), o, dscp, "none")
      \/ \E w : e = Effect(Answer("Success", <<>>), w, w.qos, "none")
      \/ e = Effect(Answer("InvalidParameter", <<>>), o, dscp, "none")
  BY DEF IdentityObjectPreResetCallback
<1> SUFFICES Refused(o, dscp, e) \/ (e.status = "Success" /\ e.dscp = e.objects.qos)
  OBVIOUS
<1> HIDE DEF e
<1> QED
  BY <1>1 DEF Effect, Answer, Refused

(* What the router returns.                                                *)
Returned(o, dscp, service, r, e) ==
    \/ Refused(o, dscp, e)
    \/ /\ e.status = "Success" /\ r.status = "Success" /\ Reached(r.path, service)
       /\ \/ service = "SetAttributeSingle" /\ HasSet(o, r.path, r.data, r.size, e)
          \/ service = "Reset" /\ e.dscp = e.objects.qos
          \/ /\ service \in Reading /\ e.objects = o
             /\ ReadingService(o, r.path, service, r.data).status = "Success"
             /\ e.octets = ReadingService(o, r.path, service, r.data).octets

(* NotifyMessageRouter and NotifyClass.                                    *)
LEMMA RouterReturns ==
    ASSUME NEW o, NEW dscp, NEW service, NEW r
    PROVE  Returned(o, dscp, service, r, NotifyMessageRouter(o, dscp, service, r))
<1> DEFINE p == r.path
           e == NotifyMessageRouter(o, dscp, service, r)
           Only(answer) == Effect(answer, o, dscp, "none")
<1>1. \/ r.status # "Success" /\ e = Only(Answer(r.status, <<>>))
      \/ e = Only(Answer("PathDestinationUnknown", <<>>))
      \/ e = Only(Answer("ServiceNotSupported", <<>>))
      \/ /\ r.status = "Success" /\ Reached(p, service)
         /\ \/ service = "SetAttributeSingle" /\ e = SetAttributeSingle(o, dscp, p, r.data, r.size)
            \/ service = "Reset" /\ e = IdentityObjectPreResetCallback(o, dscp, r.data, r.size)
            \/ /\ service \notin {"SetAttributeSingle", "Reset"}
               /\ e = Only(ReadingService(o, p, service, r.data))
  BY DEF NotifyMessageRouter, Reached
<1> SUFFICES Returned(o, dscp, service, r, e)
  OBVIOUS
<1> HIDE DEF e
<1>2. ASSUME NEW x, x # "Success", e = Only(Answer(x, <<>>))
      PROVE  Returned(o, dscp, service, r, e)
  BY <1>2 DEF Effect, Answer, Refused, Returned
<1>3. ASSUME r.status = "Success", Reached(p, service), service = "SetAttributeSingle",
             e = SetAttributeSingle(o, dscp, p, r.data, r.size)
      PROVE  Returned(o, dscp, service, r, e)
  <2>1. Refused(o, dscp, e) \/ HasSet(o, p, r.data, r.size, e)
    BY <1>3, SetAnswers
  <2> QED  BY <1>3, <2>1 DEF Returned, HasSet
<1>4. ASSUME r.status = "Success", Reached(p, service), service = "Reset",
             e = IdentityObjectPreResetCallback(o, dscp, r.data, r.size)
      PROVE  Returned(o, dscp, service, r, e)
  <2>1. Refused(o, dscp, e) \/ (e.status = "Success" /\ e.dscp = e.objects.qos)
    BY <1>4, ResetAnswers
  <2> QED  BY <1>4, <2>1 DEF Returned
<1>5. ASSUME r.status = "Success", Reached(p, service), service \notin {"SetAttributeSingle", "Reset"},
             e = Only(ReadingService(o, p, service, r.data))
      PROVE  Returned(o, dscp, service, r, e)
  <2>1. service \in Reading
    BY <1>5, ServicesKnown
  <2>2. /\ e.objects = o /\ e.dscp = dscp
        /\ e.status = ReadingService(o, p, service, r.data).status
        /\ e.octets = ReadingService(o, p, service, r.data).octets
    BY <1>5 DEF Effect
  <2> QED  BY <1>5, <2>1, <2>2 DEF Returned, Refused
<1> QED
  BY <1>1, <1>2, <1>3, <1>4, <1>5

(* The extended status is one of the bits that are for it.                 *)
ExtendedInRange == commanded.ext \in 0..ExtStatusMask

(* No run/idle header and no call of the application sets another bit.     *)
LEMMA ExtendedStays == Spec => []ExtendedInRange
<1>1. Init => ExtendedInRange
  BY DEF Init, ExtendedInRange, ExtStatusMask
<1>2. ExtendedInRange /\ [Next]_vars => ExtendedInRange'
  <2> SUFFICES ASSUME ExtendedInRange, [Next]_vars PROVE ExtendedInRange'
    OBVIOUS
  <2>1. ASSUME commanded'.ext = commanded.ext PROVE ExtendedInRange'
    BY <2>1 DEF ExtendedInRange
  <2>2. ASSUME NEW ext \in 0..ExtStatusMask, commanded'.ext = ext PROVE ExtendedInRange'
    BY <2>2 DEF ExtendedInRange
  <2>3. 0 \in 0..ExtStatusMask /\ RunMode \in 0..ExtStatusMask /\ IdleMode \in 0..ExtStatusMask
    BY DEF ExtStatusMask, RunMode, IdleMode
  <2>4. ASSUME NEW q \in Requests, HandleRequest(q) PROVE ExtendedInRange'
    BY <2>1, <2>4 DEF HandleRequest
  <2>5. ASSUME Crash PROVE ExtendedInRange'
    BY <2>2, <2>3, <2>5 DEF Crash
  <2>6. ASSUME NEW ext \in {RunMode, IdleMode}, CipIdentitySetExtendedDeviceStatus(ext)
        PROVE  ExtendedInRange'
    BY <2>2, <2>3, <2>6 DEF CipIdentitySetExtendedDeviceStatus
  <2>7. ASSUME NEW s \in DeviceStatuses, SetDeviceStatus(s.flags, s.ext) PROVE ExtendedInRange'
    BY <2>2, <2>7, DeviceStatusAssumption DEF SetDeviceStatus
  <2>8. ASSUME SendReply \/ NvQosStore \/ Start \/ Stop \/ UNCHANGED vars
        PROVE  ExtendedInRange'
    <3>1. commanded' = commanded
      BY <2>8 DEF SendReply, NvQosStore, Start, Stop, vars
    <3> QED
      BY <2>1, <3>1
  <2>9. ASSUME NEW f \in FaultFlags,
               CipIdentitySetStatusFlags({f}) \/ CipIdentityClearStatusFlags({f})
        PROVE  ExtendedInRange'
    <3>1. commanded' = [ext |-> commanded.ext, merged |-> TRUE]
      BY <2>9 DEF CipIdentitySetStatusFlags, CipIdentityClearStatusFlags
    <3> QED
      BY <2>1, <3>1
  <2>10. ASSUME DeviceStep PROVE ExtendedInRange'
    BY <2>5, <2>6, <2>7, <2>8, <2>9, <2>10 DEF DeviceStep
  <2> QED  BY <2>4, <2>8, <2>10 DEF Next
<1> QED
  BY <1>1, <1>2, PTL DEF Spec

(* Every value can be written in the octets of its type.                   *)
LEMMA ObjectsRanged == IInv /\ TypeInv /\ ExtendedInRange => Ranged(objects)
BY DEF IInv, TypeInv, ExtendedInRange, StatusKept, StatusShowsFault, Ranged, ExtStatusMask, MajorFault

-----------------------------------------------------------------------------
(* What a request finds in the buffer.                                     *)
LEMMA BehindRequest ==
    ASSUME NEW q \in Requests, NEW stale \in StaleOctets
    PROVE  Behind(Structure(q, stale))
<1>1. q.path \o q.data \in Seq(Octet) /\ stale \in Octet
  BY RequestAssumption, BufferHolds, Appended
<1> QED
  BY <1>1, StructureInBuffer DEF Structure, Buffer

(* The data of a request behind a path that ends where it says.            *)
LEMMA SoundData ==
    ASSUME NEW q \in Requests, NEW stale \in StaleOctets, Sound(q)
    PROVE  /\ Structure(q, stale).path = Named(q.segments, Len(q.segments))
           /\ Structure(q, stale).size = Len(q.data)
           /\ Structure(q, stale).data \in Seq(Octet)
           /\ Len(Structure(q, stale).data) >= Len(q.data) + 8
           /\ EndsWide(q) \/ SubSeq(Structure(q, stale).data, 1, Len(q.data)) = q.data
<1>1. Behind(Structure(q, stale))
  BY BehindRequest
<1>2. /\ Structure(q, stale).status = "Success" /\ Structure(q, stale).size = Len(q.data)
      /\ Structure(q, stale).path = Named(q.segments, Len(q.segments))
      /\ EndsWide(q) \/ SubSeq(Structure(q, stale).data, 1, Structure(q, stale).size) = q.data
  BY SoundReaches
<1>3. PICK r : r = Structure(q, stale)
  OBVIOUS
<1>4. r.data \in Seq(Octet) /\ Len(r.data) >= r.size + 8
  BY <1>1, <1>2, <1>3 DEF Behind
<1>5. r.size = Len(q.data)
  BY <1>2, <1>3
<1>6. Len(r.data) >= Len(q.data) + 8
  BY <1>4, <1>5
<1> QED
  BY <1>2, <1>3, <1>4, <1>5, <1>6

(* GetAttributeSingle.                                                     *)
LEMMA GetTrue ==
    ASSUME NEW o, Ranged(o), NEW p, NEW service, Reached(p, service),
           GetAttributeSingle(o, p).status = "Success"
    PROVE  Read(NamedType(p), GetAttributeSingle(o, p).octets) = NamedValue(o, p)
<1>0. PICK c, i, n : c = p.class_id /\ i = p.instance_number /\ n = p.attribute_number
  OBVIOUS
<1> DEFINE attributes == AttributesOf(GetCipClass(c), i)
<1>1. \/ GetAttributeSingle(o, p) = Answer("AttributeNotSupported", <<>>)
      \/ /\ n \in DOMAIN attributes /\ InGetSingleMask(attributes[n])
         /\ GetAttributeSingle(o, p) =
              Answer("Success", Encode(attributes[n].type, Value(o, c, i, n), 0))
  BY <1>0 DEF GetAttributeSingle
<1>2. /\ n \in DOMAIN attributes /\ InGetSingleMask(attributes[n])
      /\ GetAttributeSingle(o, p).octets = Encode(attributes[n].type, Value(o, c, i, n), 0)
  BY <1>1 DEF Answer
<1>3. c \in Registered /\ InstanceExists(GetCipClass(c), i)
  BY <1>0 DEF Reached
<1>4. attributes[n].type \in Types /\ Fits(attributes[n].type, Value(o, c, i, n))
  BY <1>2, <1>3, ValueFits
<1>5. Read(attributes[n].type, Encode(attributes[n].type, Value(o, c, i, n), 0)) = Value(o, c, i, n)
  BY <1>4, ReadBack
<1> QED
  BY <1>0, <1>2, <1>5 DEF NamedType, NamedValue

(* GetAttributeList, for a list that is in the message.                    *)
LEMMA ListTrue ==
    ASSUME NEW o, NEW p, p.class_id = Identity, p.instance_number = 1,
           NEW data \in Seq(Octet), NEW sent \in Seq(Octet), Len(data) >= Len(sent),
           SubSeq(data, 1, Len(sent)) = sent, WholeList(sent),
           GetAttributeList(o, p, data).status = "Success"
    PROVE  GetAttributeList(o, p, data).octets = LittleEndian(GetUint(sent, 1), 2) \o Records(o, sent)
<1>1. \A k \in 1..Len(sent) : data[k] = sent[k]
  BY SameOctets
<1>2. PICK count : count = GetUint(sent, 1)
  OBVIOUS
<1>3. Len(sent) \in Nat /\ Len(sent) >= 2
  BY DEF WholeList
<1>4. count \in Nat /\ Len(sent) >= 2 * count + 2
  BY <1>2, <1>3, UintIsNat DEF WholeList
<1>5. ASSUME NEW i \in Nat, 1 <= i, i + 1 <= Len(sent)
      PROVE  GetUint(data, i) = GetUint(sent, i)
  <2>1. i \in 1..Len(sent) /\ i + 1 \in 1..Len(sent)
    BY <1>3, <1>5
  <2>2. data[i] = sent[i] /\ data[i + 1] = sent[i + 1]
    BY <1>1, <2>1
  <2> QED  BY <2>2, Zenon DEF GetUint
<1>6. count = GetUint(data, 1)
  BY <1>2, <1>3, <1>5
<1>7. ASSUME NEW j \in 1..count PROVE GetUint(data, 2 * j + 1) = GetUint(sent, 2 * j + 1)
  <2>1. 2 * j + 1 \in Nat /\ 1 <= 2 * j + 1 /\ 2 * j + 1 + 1 <= Len(sent)
    BY <1>3, <1>4
  <2> QED  BY <1>5, <2>1
<1>8. GetAttributeList(o, p, data).octets = LittleEndian(count, 2) \o Records(o, sent)
  BY <1>2, <1>4, <1>6, <1>7, GetListTrue
<1> QED
  BY <1>2, <1>8

(* SetAttributeSingle, for a request whose data is where it should be.     *)
LEMMA SetSent ==
    ASSUME NEW o, Valid(o), NEW p, NEW data \in Seq(Octet), NEW sent \in Seq(Octet),
           NEW e, HasSet(o, p, data, Len(sent), e)
    PROVE  /\ (Len(data) >= Len(sent) /\ SubSeq(data, 1, Len(sent)) = sent
                 /\ Len(sent) >= Width(NamedType(p)))
                => NamedValue(e.objects, p) = Read(NamedType(p), sent)
           /\ OthersKept(o, e.objects, p.class_id, p.instance_number, p.attribute_number)
<1>0. PICK c, i, n, type : /\ c = p.class_id /\ i = p.instance_number /\ n = p.attribute_number
                           /\ type = NamedType(p)
  OBVIOUS
<1>1. PICK d : d = Decode(c, i, n, data, Len(sent))
  OBVIOUS
<1>2. /\ CanSet(c, i, n, type) /\ d.status = "Success"
      /\ e.objects = WithValue(o, c, i, n, d.value)
  BY <1>0, <1>1 DEF HasSet
<1>3. Value(e.objects, c, i, n) = d.value /\ OthersKept(o, e.objects, c, i, n)
  BY <1>2, SetTrue
<1>4. ASSUME Len(data) >= Len(sent), SubSeq(data, 1, Len(sent)) = sent, Len(sent) >= Width(type)
      PROVE  d.value = Read(type, sent)
  BY <1>1, <1>2, <1>4, DecodedSent
<1> QED
  BY <1>0, <1>3, <1>4 DEF NamedValue

(* Every request, with what the router returned for it.                    *)
LEMMA AnswerMeant ==
    ASSUME IInv, TypeInv, ExtendedInRange, NEW q \in Requests, HandleRequest(q)
    PROVE  MeansAnswer(q)
<1> DEFINE p == Named(q.segments, Len(q.segments))
<1>1. PICK stale \in StaleOctets :
        LET e == NotifyMessageRouter(objects, s_active_dscp, q.service, Structure(q, stale))
        IN objects' = e.objects /\ s_active_dscp' = e.dscp /\ reply' = Answer(e.status, e.octets)
  BY DEF HandleRequest, Structure, Buffer
<1>2. PICK r : r = Structure(q, stale)
  OBVIOUS
<1>3. PICK e : e = NotifyMessageRouter(objects, s_active_dscp, q.service, r)
  OBVIOUS
<1>4. /\ objects' = e.objects /\ s_active_dscp' = e.dscp
      /\ reply'.status = e.status /\ reply'.octets = e.octets
  BY <1>1, <1>2, <1>3 DEF Answer
<1>5. Returned(objects, s_active_dscp, q.service, r, e)
  BY <1>3, RouterReturns
<1>6. Ranged(objects) /\ Valid(objects) /\ Shaped(objects)
  BY ObjectsRanged DEF TypeInv, IInv
<1>7. q.data \in Seq(Octet) /\ Behind(r)
  BY <1>2, BufferHolds, BehindRequest
<1>8. Sound(q) => /\ r.path = p /\ r.size = Len(q.data) /\ Len(r.data) >= Len(q.data)
                  /\ EndsWide(q) \/ SubSeq(r.data, 1, Len(q.data)) = q.data
  <2>1. Sound(q) => /\ r.path = p /\ r.size = Len(q.data) /\ Len(r.data) >= Len(q.data) + 8
                    /\ r.data \in Seq(Octet)
                    /\ EndsWide(q) \/ SubSeq(r.data, 1, Len(q.data)) = q.data
    BY <1>2, SoundData
  <2>2. Len(r.data) \in Nat /\ Len(q.data) \in Nat
    BY <1>7 DEF Behind
  <2> QED  BY <2>1, <2>2
<1> HIDE DEF p
<1> DEFINE type == NamedType(p)
           now == NamedValue(objects', p)
<1>9. CASE Refused(objects, s_active_dscp, e)
  BY <1>4, <1>9 DEF Refused, MeansAnswer
<1>10. ASSUME e.status = "Success", r.status = "Success", Reached(r.path, q.service),
              q.service = "SetAttributeSingle", HasSet(objects, r.path, r.data, r.size, e)
       PROVE  MeansAnswer(q)
  <2>1. objects'.identity = objects.identity
    BY <1>3, <1>4, <1>6, RouterEffect
  <2>2. ASSUME Sound(q)
        PROVE  /\ (~ EndsWide(q) /\ Len(q.data) >= Width(type)) => now = Read(type, q.data)
               /\ OthersKept(objects, objects', p.class_id, p.instance_number, p.attribute_number)
    <3>1. HasSet(objects, p, r.data, Len(q.data), e) /\ r.data \in Seq(Octet)
      BY <1>7, <1>8, <1>10, <2>2 DEF Behind
    <3>2. /\ (Len(r.data) >= Len(q.data) /\ SubSeq(r.data, 1, Len(q.data)) = q.data
                /\ Len(q.data) >= Width(type))
               => NamedValue(e.objects, p) = Read(type, q.data)
          /\ OthersKept(objects, e.objects, p.class_id, p.instance_number, p.attribute_number)
      BY <1>6, <1>7, <3>1, SetSent
    <3> QED  BY <1>4, <1>8, <2>2, <3>2
  <2> QED
    BY <1>4, <1>10, <2>1, <2>2 DEF MeansAnswer, NamedType, NamedValue, OthersKept, p
<1>11. ASSUME e.status = "Success", q.service = "Reset", e.dscp = e.objects.qos
       PROVE  MeansAnswer(q)
  BY <1>4, <1>11 DEF MeansAnswer
<1>12. ASSUME e.status = "Success", Reached(r.path, q.service), q.service \in Reading,
              e.objects = objects,
              ReadingService(objects, r.path, q.service, r.data).status = "Success",
              e.octets = ReadingService(objects, r.path, q.service, r.data).octets
       PROVE  MeansAnswer(q)
  <2>1. CASE q.service = "GetAttributeSingle"
    <3>1. ReadingService(objects, r.path, q.service, r.data) = GetAttributeSingle(objects, r.path)
      BY <2>1 DEF ReadingService
    <3>2. Sound(q) => Read(type, reply'.octets) = now
      BY <1>4, <1>6, <1>8, <1>12, <3>1, GetTrue
    <3> QED
      BY <1>4, <1>12, <2>1, <3>2 DEF MeansAnswer, NamedType, NamedValue, p
  <2>2. CASE q.service = "GetAttributeAll"
    BY <1>4, <1>12, <2>2 DEF MeansAnswer
  <2>3. CASE q.service = "GetAttributeList"
    <3>1. ReadingService(objects, r.path, q.service, r.data) = GetAttributeList(objects, r.path, r.data)
      BY <2>3 DEF ReadingService
    <3>2. r.path.class_id = Identity /\ r.path.instance_number = 1
      BY <1>12, <2>3, ServicesKnown
    <3>3. ASSUME Sound(q), ~ EndsWide(q), WholeList(q.data)
          PROVE  reply'.octets = LittleEndian(GetUint(q.data, 1), 2) \o Records(objects, q.data)
      <4>1. r.data \in Seq(Octet) /\ Len(r.data) >= Len(q.data) /\ SubSeq(r.data, 1, Len(q.data)) = q.data
        BY <1>7, <1>8, <3>3 DEF Behind
      <4>2. GetAttributeList(objects, r.path, r.data).octets =
              LittleEndian(GetUint(q.data, 1), 2) \o Records(objects, q.data)
        <5>1. PICK path, data, sent : path = r.path /\ data = r.data /\ sent = q.data
          OBVIOUS
        <5>2. GetAttributeList(objects, path, data).status = "Success"
          BY <1>12, <3>1, <5>1
        <5>3. /\ path.class_id = Identity /\ path.instance_number = 1
              /\ data \in Seq(Octet) /\ sent \in Seq(Octet) /\ Len(data) >= Len(sent)
              /\ SubSeq(data, 1, Len(sent)) = sent /\ WholeList(sent)
          BY <1>7, <3>2, <3>3, <4>1, <5>1
        <5>4. GetAttributeList(objects, path, data).octets =
                LittleEndian(GetUint(sent, 1), 2) \o Records(objects, sent)
          BY <5>2, <5>3, ListTrue
        <5> QED  BY <5>1, <5>4
      <4> QED  BY <1>4, <1>12, <3>1, <4>2
    <3> QED
      BY <1>4, <1>12, <2>3, <3>3 DEF MeansAnswer
  <2>4. CASE q.service = "SetAttributeList"
    <3>1. ReadingService(objects, r.path, q.service, r.data) = SetAttributeList(r.path, r.data)
      BY <2>4 DEF ReadingService
    <3>2. GetUint(r.data, 1) \in Nat
      <4>1. r.data \in Seq(Octet) /\ 1 + 1 <= Len(r.data)
        <5>1. r.data \in Seq(Octet) /\ Len(r.data) >= r.size + 8 /\ r.size \in Nat
          BY <1>5, <1>7, <1>12 DEF Behind, Returned, Refused
        <5> QED  BY <5>1
      <4> QED  BY <4>1, UintIsNat
    <3> QED  BY <1>12, <3>1, <3>2, SetListRefused
  <2> QED
    BY <1>12, <2>1, <2>2, <2>3, <2>4 DEF Reading
<1> QED
  BY <1>5, <1>9, <1>10, <1>11, <1>12 DEF Returned

(* GetAttributeSingle, SetAttributeSingle and the list services, for every *)
(* request, every size of the assemblies and every history of the device:  *)
(* what is read is the value of the attribute that the sender named, what  *)
(* is set is the value it sent and nothing else, and what is refused has   *)
(* changed nothing.                                                        *)
THEOREM AnswersTrue == Spec => AnswerTrue
<1>1. IInv /\ TypeInv /\ ExtendedInRange /\ [Next]_vars =>
        [request = NoRequest /\ request' # NoRequest => MeansAnswer(request'.sent)]_vars
  <2> SUFFICES ASSUME IInv, TypeInv, ExtendedInRange, Next, request = NoRequest, request' # NoRequest
               PROVE  MeansAnswer(request'.sent)
    OBVIOUS
  <2>1. DeviceStep => request' = request \/ request' = NoRequest
    BY DEF DeviceStep, SendReply, NvQosStore, Start, Stop, Crash, IdentityStep, Quiet,
         CipIdentitySetExtendedDeviceStatus, CipIdentitySetStatusFlags,
         CipIdentityClearStatusFlags, SetDeviceStatus
  <2>2. PICK q \in Requests : HandleRequest(q)
    BY <2>1 DEF Next
  <2>3. request'.sent = q
    BY <2>2 DEF HandleRequest
  <2>4. MeansAnswer(q)
    BY <2>2, AnswerMeant
  <2> QED  BY <2>3, <2>4
<1>2. Spec => []TypeInv
  BY InitTypeInv, NextTypeInv, PTL DEF Spec
<1> QED
  BY <1>1, <1>2, Invariance, ExtendedStays, PTL DEF Spec, AnswerTrue
=============================================================================
