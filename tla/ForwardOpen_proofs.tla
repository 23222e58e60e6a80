------------------------- MODULE ForwardOpen_proofs -------------------------
(***************************************************************************)
(* Forward Open, Forward Close and the time-outs, for any set of requests, *)
(* any sizes of the pools and any assemblies.                              *)
(*                                                                         *)
(* The argument rests on what the list says about the age of connections:  *)
(* of all connections with one triad the one that is established is the    *)
(* newest (NewestEstablished), because a request with the triad of an      *)
(* established connection is refused and a new one goes to the head.  The  *)
(* entry that a request gets is therefore never on the list when it is     *)
(* put there, and the first connection with a triad is the live one.       *)
(***************************************************************************)
EXTENDS ForwardOpen, ConnectionList_proofs

(* No connection with a triad of an established one is nearer to the head. *)
NewestEstablished ==
    \A s, t \in list.members :
        s # t /\ Established(conn[s]) /\ Triad(conn[s]) = Triad(conn[t]) => <<s, t>> \in list.newer

(* The exclusive owner produces the assembly of its connection point.      *)
OwnerPointKept == \A s \in list.members \cap ExclusiveOwner : conn[s].prod = OwnerPoint.in

(* A connection has what the parser found in its own request, in each      *)
(* direction that the request asked for.                                   *)
OwnPath(c) ==
    LET p == Parsed[c.req] IN
    /\ p.general = "Success" /\ p.class = AssemblyClass
    /\ Message[c.req].otot # "null" => c.cons = p.cons
    /\ Message[c.req].ttoo # "null" => c.prod = p.prod

OwnPaths == \A s \in list.members \cap IoSlots : OwnPath(conn[s])

IInv ==
    /\ TypeOK
    /\ NewestEstablished
    /\ OwnerPointKept
    /\ OwnPaths
    /\ SharedProductionAgrees
    /\ SuccessMeansOpen
    /\ CloseEndsTriad

-----------------------------------------------------------------------------
(* A state of the parser, with the numbers that end up in a connection.    *)
ParserFields == {"at", "left", "general", "extended", "class", "instance", "pit", "cfg",
                 "cons", "prod", "config"}

IsParser(p) ==
    /\ p = [f \in ParserFields |-> p[f]]
    /\ p.instance \in Nat /\ p.cfg \in Nat
    /\ p.cons \in Nat \cup {NotWritten} /\ p.prod \in Nat \cup {NotWritten}

(* Nothing of what a connection is made of differs between p and q.        *)
SamePoints(p, q) ==
    q.class = p.class /\ q.instance = p.instance /\ q.cfg = p.cfg /\ q.cons = p.cons /\ q.prod = p.prod

(* A step that fails writes only the status.                               *)
LEMMA FailsParser ==
    ASSUME NEW p, IsParser(p), NEW general, NEW extended
    PROVE  /\ IsParser(Fails(p, general, extended)) /\ SamePoints(p, Fails(p, general, extended))
           /\ Fails(p, general, extended).general = general
BY DEF IsParser, ParserFields, Fails, SamePoints

(* Going on behind a segment writes only the position.                     *)
LEMMA AdvanceParser ==
    ASSUME NEW p, IsParser(p), NEW n
    PROVE  /\ IsParser(Advance(p, n)) /\ SamePoints(p, Advance(p, n))
           /\ Advance(p, n).general = p.general
BY DEF IsParser, ParserFields, Advance, SamePoints

(* What the parser sees is a segment, also behind the path.                *)
LEMMA SegmentsOfRequests ==
    ASSUME NEW r \in Requests, NEW p
    PROVE  IsSegment(SegmentAt(Message[r], p))
BY MessagesAssumption DEF Message, SegmentAt, IsSegment, BehindPath, SegmentTypes

(* The number in an instance or connection point segment.                  *)
LEMMA PointIsNumber ==
    ASSUME NEW seg, IsSegment(seg), IsLogical(seg, "instance") \/ IsLogical(seg, "point")
    PROVE  seg.value \in Nat
BY DEF IsSegment, IsLogical, IsKey

(* The parser before it reads the path.                                    *)
LEMMA StartParser ==
    ASSUME NEW m
    PROVE  IsParser(ParserStart(m))
BY DEF IsParser, ParserFields, ParserStart

(* The steps of the parser up to the object.                               *)
LEMMA ObjectSteps ==
    ASSUME NEW r \in Requests, NEW m, m = Message[r], NEW p, IsParser(p)
    PROVE  /\ IsParser(ParseSize(m, p)) /\ IsParser(ParseKey(m, p)) /\ IsParser(ParsePit(m, p))
           /\ IsParser(ParseClass(m, p)) /\ IsParser(ParseInstance(m, p))
<1>1. PICK seg : seg = SegmentAt(m, p)
  OBVIOUS
<1>2. IsSegment(seg)
  BY <1>1, SegmentsOfRequests
<1>3. \A general, extended : IsParser(Fails(p, general, extended))
  BY FailsParser
<1>4. \A n : IsParser(Advance(p, n))
  BY AdvanceParser
<1>5. IsParser(ParseSize(m, p))
  BY <1>3 DEF ParseSize
<1>6. IsParser(ParseKey(m, p))
  BY <1>3, <1>4 DEF ParseKey
<1>7. IsParser(ParsePit(m, p))
  <2>1. IsParser([Advance(p, 1) EXCEPT !.pit = seg.value])
    BY <1>4 DEF IsParser, ParserFields
  <2>2. ParsePit(m, p) \in {[Advance(p, 1) EXCEPT !.pit = seg.value], p}
    BY <1>1 DEF ParsePit
  <2> QED
    BY <2>1, <2>2
<1>8. IsParser(ParseClass(m, p))
  <2>1. IsParser([Advance(p, 1) EXCEPT !.class = seg.value])
    BY <1>4 DEF IsParser, ParserFields
  <2> QED
    BY <1>1, <1>3, <2>1 DEF ParseClass
<1>9. IsParser(ParseInstance(m, p))
  <2>1. ASSUME seg.value \in Nat, NEW n
        PROVE  IsParser([Advance(p, n) EXCEPT !.instance = seg.value])
    BY <1>4, <2>1 DEF IsParser, ParserFields
  <2>2. IsLogical(seg, "instance") => seg.value \in Nat
    BY <1>2, PointIsNumber
  <2> QED
    BY <1>1, <1>3, <2>1, <2>2 DEF ParseInstance
<1> QED
  BY <1>5, <1>6, <1>7, <1>8, <1>9

(* The end of the path of a class 3 connection.                            *)
LEMMA RouterStep ==
    ASSUME NEW m, NEW p, IsParser(p)
    PROVE  /\ IsParser(ParseClass3(m, p))
           /\ ParseClass3(m, p).general = "Success" => ParseClass3(m, p).class = MessageRouterClass
<1>1. IsParser([p EXCEPT !.cfg = 1, !.prod = 1]) /\ [p EXCEPT !.cfg = 1, !.prod = 1].class = p.class
  BY DEF IsParser, ParserFields
<1>2. \A general, extended : IsParser(Fails(p, general, extended))
                               /\ Fails(p, general, extended).general = general
  BY FailsParser
<1>3. \/ ParseClass3(m, p) = Fails(p, "ConnectionFailure", "InvalidSegmentType")
      \/ ParseClass3(m, p) = Fails(p, "ConnectionFailure", "InconsistentPathCombo")
      \/ p.class = MessageRouterClass /\ ParseClass3(m, p) = [p EXCEPT !.cfg = 1, !.prod = 1]
  BY DEF ParseClass3
<1>4. IsParser(ParseClass3(m, p))
  BY <1>1, <1>2, <1>3
<1>5. ParseClass3(m, p).general = "Success" => ParseClass3(m, p).class = MessageRouterClass
  <2>1. "ConnectionFailure" # "Success"
    OBVIOUS
  <2> QED
    BY <1>1, <1>2, <1>3, <2>1
<1> QED
  BY <1>4, <1>5

(* Between p and q the parser read the connection point n.                 *)
PointAt(m, p, q, n) ==
    p.at \in DOMAIN m.path /\ m.path[p.at].value = n /\ n \in Nat /\ q.at = p.at + 1

(* What reading a connection point leaves of the parser p: a point that    *)
(* was read with success is the one at p; when the direction is left out   *)
(* nothing is read.                                                        *)
PointResult(m, p, dir, q) ==
    /\ IsParser(q) /\ q.class = p.class /\ q.instance = p.instance /\ q.cfg = p.cfg
    /\ m[IF dir = "cons" THEN "otot" ELSE "ttoo"] = "null" => q = p
    /\ q.general = "Success" /\ m[IF dir = "cons" THEN "otot" ELSE "ttoo"] # "null" =>
          PointAt(m, p, q, q[dir])
    /\ dir = "cons" => q.prod = p.prod
    /\ dir = "prod" => q.cons = p.cons

(* ParsePoint does what PointResult says.                                  *)
LEMMA PointRead ==
    ASSUME NEW r \in Requests, NEW p, IsParser(p), NEW dir \in {"cons", "prod"},
           NEW q, q = ParsePoint(Message[r], p, dir)
    PROVE  PointResult(Message[r], p, dir, q)
<1>1. PICK m : m = Message[r]
  OBVIOUS
<1>2. PICK seg : seg = SegmentAt(m, p)
  OBVIOUS
<1>3. IsLogical(seg, "instance") \/ IsLogical(seg, "point") => seg.value \in Nat
  BY <1>1, <1>2, SegmentsOfRequests, PointIsNumber
<1>4. PICK w : w = [p EXCEPT ![dir] = seg.value]
  OBVIOUS
<1>5. seg.value \in Nat => IsParser(w)
  BY <1>4 DEF IsParser, ParserFields
<1>6. /\ w.class = p.class /\ w.instance = p.instance /\ w.cfg = p.cfg /\ w[dir] = seg.value
      /\ dir = "cons" => w.prod = p.prod
      /\ dir = "prod" => w.cons = p.cons
  BY <1>4 DEF IsParser, ParserFields
<1>7. PICK leftout \in BOOLEAN :
         leftout <=> m[IF dir = "cons" THEN "otot" ELSE "ttoo"] = "null"
  OBVIOUS
<1>8. CASE leftout
  <2>1. q = p
    BY <1>1, <1>7, <1>8 DEF ParsePoint
  <2> QED
    BY <1>1, <1>7, <1>8, <2>1 DEF PointResult
<1>9. CASE /\ ~leftout
           /\ \/ ~(IsLogical(seg, "instance") \/ IsLogical(seg, "point"))
              \/ seg.value > InstanceNumMax
  <2>1. q = Fails(p, "ConnectionFailure", "InvalidSegmentType")
    BY <1>1, <1>2, <1>7, <1>9 DEF ParsePoint
  <2>2. IsParser(q) /\ SamePoints(p, q) /\ q.general = "ConnectionFailure"
    BY <2>1, FailsParser
  <2> QED
    BY <1>1, <1>7, <1>9, <2>2 DEF SamePoints, PointResult
<1>10. CASE /\ ~leftout
            /\ IsLogical(seg, "instance") \/ IsLogical(seg, "point")
            /\ ~(seg.value > InstanceNumMax)
  <2>1. IsParser(w) /\ seg.value \in Nat
    BY <1>3, <1>5, <1>10
  <2>2. p.at \in DOMAIN m.path /\ seg = m.path[p.at]
    BY <1>2, <1>10 DEF SegmentAt, BehindPath, IsLogical
  <2>3. CASE seg.value \notin InstanceNumbers(p.class)
    <3>1. q = Fails(w, "ConnectionFailure", "InconsistentPathCombo")
      BY <1>1, <1>2, <1>4, <1>7, <1>10, <2>3 DEF ParsePoint
    <3>2. IsParser(q) /\ SamePoints(w, q) /\ q.general = "ConnectionFailure"
      BY <2>1, <3>1, FailsParser
    <3> QED
      BY <1>1, <1>6, <1>7, <1>10, <3>2 DEF SamePoints, PointResult
  <2>4. CASE seg.value \in InstanceNumbers(p.class)
    <3>1. q = Advance(w, InstanceWords(seg.value))
      BY <1>1, <1>2, <1>4, <1>7, <1>10, <2>4 DEF ParsePoint
    <3>2. IsParser(q) /\ SamePoints(w, q)
      BY <2>1, <3>1, AdvanceParser
    <3>3. q.cons = w.cons /\ q.prod = w.prod /\ q[dir] = seg.value
      BY <1>6, <3>2 DEF SamePoints
    <3>4. q.at = p.at + 1
      BY <1>4, <3>1 DEF Advance, IsParser, ParserFields
    <3>5. PointAt(m, p, q, q[dir])
      BY <2>1, <2>2, <3>3, <3>4 DEF PointAt
    <3> QED
      BY <1>1, <1>6, <1>7, <1>10, <3>2, <3>3, <3>5 DEF SamePoints, PointResult
  <2> QED
    BY <2>3, <2>4
<1> QED
  BY <1>8, <1>9, <1>10

-----------------------------------------------------------------------------
(* The parser p has read no class yet; it has read the class and nothing   *)
(* behind it.                                                              *)
BeforeClass(m, p) ==
    p.at \in Nat \ {0} /\ \A j \in 1 .. p.at - 1 : ~IsLogical(m.path[j], "class")

BehindClass(m, p) ==
    \E k \in DOMAIN m.path :
        /\ IsLogical(m.path[k], "class")
        /\ \A j \in 1 .. k - 1 : ~IsLogical(m.path[j], "class")
        /\ p.at = k + 1

(* Key and production inhibit time are no class.                           *)
LEMMA ReadsToClass ==
    ASSUME NEW m, NEW p, IsParser(p), BeforeClass(m, p)
    PROVE  /\ BeforeClass(m, ParseSize(m, p)) /\ BeforeClass(m, ParseKey(m, p))
           /\ BeforeClass(m, ParsePit(m, p))
<1>1. PICK seg : seg = SegmentAt(m, p)
  OBVIOUS
<1>2. ASSUME NEW q, q.at = p.at PROVE BeforeClass(m, q)
  BY <1>2 DEF BeforeClass
<1>3. ASSUME NEW q, q.at = p.at + 1, ~IsLogical(seg, "class"), p.at \in DOMAIN m.path
      PROVE  BeforeClass(m, q)
  <2>1. seg = m.path[p.at]
    BY <1>1, <1>3 DEF SegmentAt
  <2> QED
    BY <1>3, <2>1 DEF BeforeClass
<1>4. \A general, extended : Fails(p, general, extended).at = p.at
  BY DEF Fails, IsParser, ParserFields
<1>5. \A n : Advance(p, n).at = p.at + 1
  BY DEF Advance, IsParser, ParserFields
<1>6. BeforeClass(m, ParseSize(m, p))
  BY <1>2, <1>4 DEF ParseSize
<1>7. BeforeClass(m, ParseKey(m, p))
  <2>1. IsKey(seg) => ~IsLogical(seg, "class") /\ p.at \in DOMAIN m.path
    BY <1>1 DEF IsKey, IsLogical, SegmentAt, BehindPath
  <2>2. ParseKey(m, p).at = p.at \/ (IsKey(seg) /\ ParseKey(m, p).at = p.at + 1)
    BY <1>1, <1>4, <1>5 DEF ParseKey
  <2> QED
    BY <1>2, <1>3, <2>1, <2>2
<1>8. BeforeClass(m, ParsePit(m, p))
  <2>1. IsPit(seg) => ~IsLogical(seg, "class") /\ p.at \in DOMAIN m.path
    BY <1>1 DEF IsPit, IsLogical, SegmentAt, BehindPath
  <2>2. [Advance(p, 1) EXCEPT !.pit = seg.value].at = p.at + 1
    BY <1>5, AdvanceParser DEF IsParser, ParserFields
  <2>3. ParsePit(m, p).at = p.at \/ (IsPit(seg) /\ ParsePit(m, p).at = p.at + 1)
    BY <1>1, <2>2 DEF ParsePit
  <2> QED
    BY <1>2, <1>3, <2>1, <2>3
<1> QED
  BY <1>6, <1>7, <1>8

(* The class, and behind it the configuration instance if it is there.     *)
LEMMA ReadsToPoints ==
    ASSUME NEW r \in Requests, NEW m, m = Message[r], NEW p, IsParser(p)
    PROVE  /\ (BeforeClass(m, p) /\ ParseClass(m, p).general = "Success"
                 => BehindClass(m, ParseClass(m, p)))
           /\ (BehindClass(m, p) /\ ParseInstance(m, p).general = "Success"
                 => FirstPoint(m.path, ParseInstance(m, p).at))
<1>1. PICK seg : seg = SegmentAt(m, p)
  OBVIOUS
<1>2. \A extended : Fails(p, "ConnectionFailure", extended).general # "Success"
  BY FailsParser
<1>3. \A n : Advance(p, n).at = p.at + 1 /\ Advance(p, n) = [f \in ParserFields |-> Advance(p, n)[f]]
  BY DEF Advance, IsParser, ParserFields
<1>4. DOMAIN m.path = 1 .. Len(m.path) /\ Len(m.path) \in Nat
  BY MessagesAssumption DEF Message
<1>5. \A sub : IsLogical(seg, sub) => p.at \in DOMAIN m.path /\ seg = m.path[p.at]
  BY <1>1 DEF IsLogical, SegmentAt, BehindPath
<1>6. ASSUME BeforeClass(m, p), ParseClass(m, p).general = "Success"
      PROVE  BehindClass(m, ParseClass(m, p))
  <2>1. IsLogical(seg, "class") /\ ParseClass(m, p) = [Advance(p, 1) EXCEPT !.class = seg.value]
    BY <1>1, <1>2, <1>6 DEF ParseClass
  <2>2. ParseClass(m, p).at = p.at + 1
    BY <1>3, <2>1 DEF ParserFields
  <2> QED
    BY <1>5, <1>6, <2>1, <2>2 DEF BeforeClass, BehindClass
<1>7. ASSUME BehindClass(m, p), ParseInstance(m, p).general = "Success"
      PROVE  FirstPoint(m.path, ParseInstance(m, p).at)
  <2>1. PICK k \in DOMAIN m.path :
           /\ IsLogical(m.path[k], "class")
           /\ \A j \in 1 .. k - 1 : ~IsLogical(m.path[j], "class")
           /\ p.at = k + 1
    BY <1>7 DEF BehindClass
  <2>2. k \in Nat
    BY <1>4, <2>1
  <2>3. CASE IsLogical(seg, "instance")
    <3>1. PICK n : ParseInstance(m, p) = [Advance(p, n) EXCEPT !.instance = seg.value]
      BY <1>1, <1>2, <1>7, <2>3 DEF ParseInstance
    <3>2. ParseInstance(m, p).at = k + 2
      BY <1>3, <2>1, <2>2, <3>1 DEF ParserFields
    <3>3. k + 1 \in DOMAIN m.path /\ IsLogical(m.path[k + 1], "instance")
      BY <1>5, <2>1, <2>3
    <3> QED
      BY <2>1, <3>2, <3>3 DEF FirstPoint
  <2>4. CASE ~IsLogical(seg, "instance")
    <3>1. ParseInstance(m, p).at = k + 1
      BY <1>1, <2>1, <2>4 DEF ParseInstance
    <3>2. ~(k + 1 \in DOMAIN m.path /\ IsLogical(m.path[k + 1], "instance"))
      BY <1>1, <2>1, <2>4 DEF SegmentAt
    <3> QED
      BY <2>1, <3>1, <3>2 DEF FirstPoint
  <2> QED
    BY <2>3, <2>4
<1> QED
  BY <1>6, <1>7

(* The object that a path leads to; behind it are the points.              *)
LEMMA ObjectParsed ==
    ASSUME NEW r \in Requests
    PROVE  /\ IsParser(ParseObject(Message[r]))
           /\ ParseObject(Message[r]).general = "Success"
                => FirstPoint(Message[r].path, ParseObject(Message[r]).at)
<1>1. PICK m : m = Message[r]
  OBVIOUS
<1>2. \A p, q : IsParser(p) /\ IsParser(q) => IsParser(Then(p, q))
  BY DEF Then
<1>3. PICK sized : sized = ParseSize(m, ParserStart(m))
  OBVIOUS
<1>4. PICK keyed : keyed = Then(sized, ParseKey(m, sized))
  OBVIOUS
<1>5. PICK inhibited : inhibited = Then(keyed, ParsePit(m, keyed))
  OBVIOUS
<1>6. PICK classed : classed = Then(inhibited, ParseClass(m, inhibited))
  OBVIOUS
<1>7. IsParser(sized)
  BY <1>1, <1>3, StartParser, ObjectSteps
<1>8. IsParser(keyed)
  BY <1>1, <1>2, <1>4, <1>7, ObjectSteps
<1>9. IsParser(inhibited)
  BY <1>1, <1>2, <1>5, <1>8, ObjectSteps
<1>10. IsParser(classed)
  BY <1>1, <1>2, <1>6, <1>9, ObjectSteps
<1>11. PICK object : object = Then(classed, ParseInstance(m, classed))
  OBVIOUS
<1>12. IsParser(object)
  BY <1>1, <1>2, <1>10, <1>11, ObjectSteps
<1>13. BeforeClass(m, inhibited)
  <2>1. BeforeClass(m, ParserStart(m))
    BY DEF BeforeClass, ParserStart
  <2>2. BeforeClass(m, sized)
    BY <1>3, <2>1, StartParser, ReadsToClass
  <2>3. BeforeClass(m, keyed)
    BY <1>4, <1>7, <2>2, ReadsToClass DEF Then
  <2> QED
    BY <1>5, <1>8, <2>3, ReadsToClass DEF Then
<1>14. ASSUME object.general = "Success" PROVE FirstPoint(m.path, object.at)
  <2>1. classed.general = "Success" /\ object = ParseInstance(m, classed)
    BY <1>11, <1>14 DEF Then
  <2>2. classed = ParseClass(m, inhibited)
    BY <1>6, <2>1 DEF Then
  <2>3. BehindClass(m, classed)
    BY <1>1, <1>9, <1>13, <2>1, <2>2, ReadsToPoints
  <2> QED
    BY <1>1, <1>10, <1>14, <2>1, <2>3, ReadsToPoints
<1>15. object = ParseObject(m)
  BY <1>3, <1>4, <1>5, <1>6, <1>11 DEF ParseObject
<1> QED
  BY <1>1, <1>12, <1>14, <1>15

(* The connection points of a path that was read with success.             *)
ConsFound(m, cons) == m.otot # "null" => cons \in Nat /\ NamesPoint(m.path, 1, cons)

ProdFound(m, prod) ==
    m.ttoo # "null" => prod \in Nat /\ NamesPoint(m.path, IF m.otot = "null" THEN 1 ELSE 2, prod)

PointsFound(m, p) == p.general = "Success" => ConsFound(m, p.cons) /\ ProdFound(m, p.prod)

LEMMA PointsParsed ==
    ASSUME NEW r \in Requests
    PROVE  IsParser(ParsePoints(Message[r])) /\ PointsFound(Message[r], ParsePoints(Message[r]))
<1>1. PICK m : m = Message[r]
  OBVIOUS
<1>2. PICK object : object = ParseObject(m)
  OBVIOUS
<1>3. PICK start : start = [object EXCEPT !.cfg = object.instance]
  OBVIOUS
<1>4. IsParser(object) /\ IsParser(start)
  <2>1. IsParser(object)
    BY <1>1, <1>2, ObjectParsed
  <2> QED
    BY <1>3, <2>1 DEF IsParser, ParserFields
<1>5. PICK out : out = ParsePoint(m, start, "cons")
  OBVIOUS
<1>6. PICK consumed : consumed = Then(object, out)
  OBVIOUS
<1>7. PointResult(m, start, "cons", out)
  BY <1>1, <1>4, <1>5, PointRead
<1>8. IsParser(consumed)
  BY <1>4, <1>6, <1>7 DEF Then, PointResult
<1>9. PICK back : back = ParsePoint(m, consumed, "prod")
  OBVIOUS
<1>10. PointResult(m, consumed, "prod", back)
  <2>1. back = ParsePoint(Message[r], consumed, "prod") /\ "prod" \in {"cons", "prod"}
    BY <1>1, <1>9
  <2> QED
    BY <1>1, <1>8, <2>1, PointRead
<1>11. PICK points : points = Then(consumed, back)
  OBVIOUS
<1>12. IsParser(points)
  BY <1>8, <1>10, <1>11 DEF Then, PointResult
<1>13. ASSUME points.general = "Success" PROVE ConsFound(m, points.cons) /\ ProdFound(m, points.prod)
  <2>1. points = back /\ consumed = out /\ object.general = "Success"
    BY <1>6, <1>11, <1>13 DEF Then
  <2>2. back.general = "Success" /\ out.general = "Success"
    BY <1>6, <1>11, <1>13, <2>1 DEF Then
  <2>3. FirstPoint(m.path, object.at) /\ start.at = object.at
    BY <1>1, <1>2, <1>3, <1>4, <2>1, ObjectParsed DEF IsParser, ParserFields
  <2>4. /\ m.otot = "null" => out = start
        /\ m.otot # "null" => PointAt(m, start, out, out.cons)
        /\ m.ttoo # "null" => PointAt(m, out, back, back.prod)
        /\ back.cons = out.cons
    BY <1>7, <1>10, <2>1, <2>2 DEF PointResult
  <2>5. DOMAIN m.path \in SUBSET Nat
    BY <1>1, MessagesAssumption DEF Message
  <2>6. ConsFound(m, out.cons)
    <3>1. SUFFICES ASSUME m.otot # "null"
                   PROVE  out.cons \in Nat /\ NamesPoint(m.path, 1, out.cons)
      BY DEF ConsFound
    <3>2. /\ object.at \in DOMAIN m.path /\ m.path[object.at].value = out.cons
          /\ out.cons \in Nat
      BY <2>3, <2>4, <3>1 DEF PointAt
    <3>3. object.at + 1 - 1 = object.at
      BY <2>5, <3>2
    <3> QED
      BY <2>3, <3>2, <3>3 DEF NamesPoint
  <2>7. ProdFound(m, back.prod)
    <3>1. SUFFICES ASSUME m.ttoo # "null"
                   PROVE  back.prod \in Nat
                            /\ NamesPoint(m.path, IF m.otot = "null" THEN 1 ELSE 2, back.prod)
      BY DEF ProdFound
    <3>2. /\ out.at \in DOMAIN m.path /\ m.path[out.at].value = back.prod
          /\ back.prod \in Nat
      BY <2>4, <3>1 DEF PointAt
    <3>3. CASE m.otot = "null"
      <4>1. out.at = object.at /\ object.at + 1 - 1 = object.at
        BY <2>3, <2>4, <2>5, <3>2, <3>3
      <4> QED
        BY <2>3, <3>2, <3>3, <4>1 DEF NamesPoint
    <3>4. CASE m.otot # "null"
      <4>1. object.at \in DOMAIN m.path /\ out.at = object.at + 1
        BY <2>3, <2>4, <3>4 DEF PointAt
      <4>2. object.at + 2 - 1 = out.at
        BY <2>5, <4>1
      <4> QED
        BY <2>3, <3>2, <3>4, <4>1, <4>2 DEF NamesPoint
    <3> QED
      BY <3>3, <3>4
  <2> QED
    BY <2>1, <2>4, <2>6, <2>7
<1>14. points = ParsePoints(m)
  BY <1>2, <1>3, <1>5, <1>6, <1>9, <1>11 DEF ParsePoints
<1> QED
  BY <1>1, <1>12, <1>13, <1>14 DEF PointsFound

(* What a request leaves of the parser.  A path that leads to the assembly *)
(* object names the connection point that the parser found in each         *)
(* direction that is asked for.                                            *)
LEMMA ParsedRequest ==
    ASSUME NEW r \in Requests
    PROVE  /\ IsParser(Parsed[r])
           /\ Parsed[r].general = "Success" /\ Parsed[r].class = AssemblyClass =>
                 ConsFound(Message[r], Parsed[r].cons) /\ ProdFound(Message[r], Parsed[r].prod)
<1>1. PICK m : m = Message[r]
  OBVIOUS
<1>2. PICK p : p = ParseConnectionPath(m)
  OBVIOUS
<1>3. Parsed[r] = p
  BY <1>1, <1>2 DEF Parsed
<1>4. CASE m.class = 3
  <2>1. PICK object : object = ParseObject(m)
    OBVIOUS
  <2>2. IsParser(object)
    BY <1>1, <2>1, ObjectParsed
  <2>3. p = Then(object, ParseClass3(m, object))
    BY <1>2, <1>4, <2>1 DEF ParseConnectionPath
  <2>4. IsParser(p) /\ (p.general = "Success" => p.class = MessageRouterClass)
    BY <2>2, <2>3, RouterStep DEF Then
  <2> QED
    BY <1>3, <2>4 DEF MessageRouterClass, AssemblyClass
<1>5. CASE m.class # 3
  <2>1. PICK points : points = ParsePoints(m)
    OBVIOUS
  <2>2. IsParser(points) /\ PointsFound(m, points)
    BY <1>1, <2>1, PointsParsed
  <2>3. PICK rest : rest = ParseRest(m, points)
    OBVIOUS
  <2>4. IsParser(rest) /\ SamePoints(points, rest)
    <3>1. CASE points.left = 0
      <4>1. rest = points
        BY <2>3, <3>1 DEF ParseRest
      <4> QED
        BY <2>2, <4>1 DEF SamePoints
    <3>2. CASE points.left # 0
      <4>1. PICK at, left, general, extended, pit, written :
               rest = [points EXCEPT !.at = at, !.left = left, !.general = general,
                                     !.extended = extended, !.pit = pit, !.config = written]
        BY <2>3, <3>2 DEF ParseRest
      <4> QED
        BY <2>2, <4>1 DEF IsParser, ParserFields, SamePoints
    <3> QED
      BY <3>1, <3>2
  <2>5. p = Then(points, rest)
    BY <1>2, <1>5, <2>1, <2>3 DEF ParseConnectionPath
  <2>6. IsParser(p)
    BY <2>2, <2>4, <2>5 DEF Then
  <2>7. p.general = "Success" /\ p.class = AssemblyClass =>
           /\ points.general = "Success" /\ points.class = AssemblyClass
           /\ p.cons = points.cons /\ p.prod = points.prod
    BY <2>4, <2>5 DEF Then, SamePoints
  <2> QED
    BY <1>1, <1>3, <2>2, <2>6, <2>7 DEF PointsFound
<1> QED
  BY <1>4, <1>5

-----------------------------------------------------------------------------
(* The pools do not overlap, and 0 stands for no entry.                    *)
LEMMA PoolsAreFinite ==
    /\ Slots \in SUBSET Nat /\ 0 \notin Slots /\ IsFiniteSet(Slots)
    /\ ExclusiveOwner = {1} /\ IoSlots \cap Explicit = {}
    /\ ExclusiveOwner \cap InputOnly = {} /\ ExclusiveOwner \cap ListenOnly = {}
    /\ IoSlots \in SUBSET Slots /\ Explicit \in SUBSET Slots
    /\ ExclusiveOwner \in SUBSET IoSlots /\ InputOnly \in SUBSET IoSlots
    /\ ListenOnly \in SUBSET IoSlots
<1> USE PoolsAssumption
<1>1. /\ Slots \in SUBSET Nat /\ 0 \notin Slots
      /\ ExclusiveOwner = {1} /\ IoSlots \cap Explicit = {}
      /\ ExclusiveOwner \cap InputOnly = {} /\ ExclusiveOwner \cap ListenOnly = {}
  BY DEF Slots, IoSlots, ExclusiveOwner, InputOnly, ListenOnly, Explicit
<1>2. /\ IoSlots \in SUBSET Slots /\ Explicit \in SUBSET Slots
      /\ ExclusiveOwner \in SUBSET IoSlots /\ InputOnly \in SUBSET IoSlots
      /\ ListenOnly \in SUBSET IoSlots
  BY DEF Slots, IoSlots
<1>3. Slots \in SUBSET (1 .. 1 + NumInputOnly + NumListenOnly + NumExplicit)
  BY DEF Slots, IoSlots, ExclusiveOwner, InputOnly, ListenOnly, Explicit
<1>4. IsFiniteSet(1 .. 1 + NumInputOnly + NumListenOnly + NumExplicit)
  BY FS_Interval
<1>5. IsFiniteSet(Slots)
  BY <1>3, <1>4, FS_Subset
<1> QED
  BY <1>1, <1>2, <1>5

(* Connections a and b agree when they share a multicast production.       *)
Agree(a, b) ==
    LET m == Message[a.req]
        n == Message[b.req]
    IN m.ttoo = "multicast" /\ n.ttoo = "multicast" /\ a.prod = b.prod =>
          m.rpi = n.rpi /\ m.class = n.class /\ m.trigger = n.trigger /\ a.pit = b.pit

(* What IInv says of the pools c and the list l.                           *)
Stored(c, l) ==
    /\ c \in [Slots -> ConnectionObjects \cup {NoConn}]
    /\ l \in ListOf(Slots)
    /\ \A s \in Slots : s \in l.members <=> c[s] # NoConn

Ordered(c, l) ==
    \A s, t \in l.members :
        s # t /\ Established(c[s]) /\ Triad(c[s]) = Triad(c[t]) => <<s, t>> \in l.newer

Kept(c, l) ==
    /\ \A s \in l.members \cap ExclusiveOwner : c[s].prod = OwnerPoint.in
    /\ \A s \in l.members \cap IoSlots : OwnPath(c[s])
    /\ \A s, t \in l.members \cap IoSlots : Agree(c[s], c[t])

Consistent(c, l) == Stored(c, l) /\ Ordered(c, l) /\ Kept(c, l)

(* What it says of the dummy, the configuration and the last response.     *)
Configured == dummy \in [cons : Nat, prod : Nat] /\ 2 * Len(config) = AssemblyLength[OwnerPoint.cfg]

Answered ==
    answer.kind \in {"none", "open", "close", "search"} /\ SuccessMeansOpen /\ CloseEndsTriad

(* IInv in these parts.                                                    *)
LEMMA PartsOfInvariant == IInv <=> Consistent(conn, list) /\ Configured /\ Answered
BY DEF IInv, TypeOK, NewestEstablished, OwnerPointKept, OwnPaths, SharedProductionAgrees,
       Consistent, Stored, Ordered, Kept, Agree, Configured, Answered

(* Members of a list are slots, in a strict linear order.                  *)
LEMMA OrderOfList ==
    ASSUME NEW l \in ListOf(Slots)
    PROVE  /\ l.members \in SUBSET Slots
           /\ \A s \in l.members : <<s, s>> \notin l.newer
           /\ \A s, t \in l.members : ~(<<s, t>> \in l.newer /\ <<t, s>> \in l.newer)
BY DEF ListOf

(* Closing the connections V keeps what is said of the others.             *)
LEMMA ClosingKeeps ==
    ASSUME Consistent(conn, list), NEW V
    PROVE  Consistent(Emptied(V), RemoveAll(list, V))
<1>1. PICK l : l = RemoveAll(list, V)
  OBVIOUS
<1>2. PICK c : c = Emptied(V)
  OBVIOUS
<1>3. /\ conn \in [Slots -> ConnectionObjects \cup {NoConn}] /\ list \in ListOf(Slots)
      /\ \A s \in Slots : s \in list.members <=> conn[s] # NoConn
  BY DEF Consistent, Stored
<1>4. l \in ListOf(Slots) /\ l.members = list.members \ V
  BY <1>1, <1>3, RemoveAllIsList
<1>5. c \in [Slots -> ConnectionObjects \cup {NoConn}]
  BY <1>2, <1>3 DEF Emptied
<1>6. \A s \in Slots : c[s] = IF s \in V THEN NoConn ELSE conn[s]
  BY <1>2 DEF Emptied
<1>7. list.members \in SUBSET Slots
  BY <1>3, OrderOfList
<1>8. \A s \in l.members : c[s] = conn[s]
  BY <1>4, <1>6, <1>7
<1>9. Stored(c, l)
  BY <1>3, <1>4, <1>5, <1>6 DEF Stored
<1>10. Ordered(c, l)
  <2>1. \A s, t \in l.members : <<s, t>> \in list.newer => <<s, t>> \in l.newer
    BY <1>1, <1>4 DEF RemoveAll
  <2> QED
    BY <1>4, <1>8, <2>1 DEF Consistent, Ordered
<1>11. Kept(c, l)
  BY <1>4, <1>8 DEF Consistent, Kept
<1> QED
  BY <1>1, <1>2, <1>9, <1>10, <1>11 DEF Consistent

(* An element that is put at the head is the first of the list.            *)
LEMMA HeadIsFirst ==
    ASSUME NEW l \in ListOf(Slots), NEW s \in Slots, s \notin l.members
    PROVE  First(InsertAtHead(l, s)) = s
<1>1. PICK h : h = InsertAtHead(l, s)
  OBVIOUS
<1>2. h \in ListOf(Slots) /\ s \in h.members \cap Slots
  BY <1>1, InsertAtHeadIsList DEF InsertAtHead
<1>3. PICK f : f = FirstIn(h, Slots, 0)
  OBVIOUS
<1>4. f \in h.members \cap Slots /\ \A t \in (h.members \cap Slots) \ {f} : <<f, t>> \in h.newer
  BY <1>2, <1>3, FirstInIsFirst, PoolsAreFinite
<1>5. CASE f # s
  <2>1. f \in l.members /\ <<s, f>> \in h.newer /\ <<f, s>> \in h.newer
    BY <1>1, <1>2, <1>4, <1>5 DEF InsertAtHead
  <2> QED
    BY <1>2, <1>4, <2>1, OrderOfList
<1> QED
  BY <1>1, <1>3, <1>5 DEF First

(* A connection c that is put at the head in a free entry, when no other   *)
(* one with its triad is established and it agrees with those it shares    *)
(* its production with.                                                    *)
LEMMA OpeningKeeps ==
    ASSUME NEW rest, NEW l, Consistent(rest, l),
           NEW s \in Slots, s \notin l.members,
           NEW c \in ConnectionObjects,
           \A t \in l.members : ~(Established(rest[t]) /\ Triad(rest[t]) = Triad(c)),
           s \in ExclusiveOwner => c.prod = OwnerPoint.in,
           s \in IoSlots => OwnPath(c),
           s \in IoSlots => \A t \in l.members \cap IoSlots : Agree(c, rest[t])
    PROVE  Consistent([rest EXCEPT ![s] = c], InsertAtHead(l, s))
<1>1. PICK h : h = InsertAtHead(l, s)
  OBVIOUS
<1>2. PICK d : d = [rest EXCEPT ![s] = c]
  OBVIOUS
<1>3. /\ rest \in [Slots -> ConnectionObjects \cup {NoConn}] /\ l \in ListOf(Slots)
      /\ \A t \in Slots : t \in l.members <=> rest[t] # NoConn
  BY DEF Consistent, Stored
<1>4. h \in ListOf(Slots) /\ h.members = l.members \cup {s}
  BY <1>1, <1>3, InsertAtHeadIsList DEF InsertAtHead
<1>5. /\ d \in [Slots -> ConnectionObjects \cup {NoConn}]
      /\ d[s] = c /\ \A t \in Slots \ {s} : d[t] = rest[t]
  BY <1>2, <1>3
<1>6. c # NoConn
  BY NoConnAssumption
<1>7. l.members \in SUBSET Slots /\ \A t \in l.members : d[t] = rest[t]
  BY <1>3, <1>5, OrderOfList
<1>8. Stored(d, h)
  BY <1>3, <1>4, <1>5, <1>6 DEF Stored
<1>9. Ordered(d, h)
  <2> SUFFICES ASSUME NEW t \in h.members, NEW u \in h.members, t # u,
                      Established(d[t]), Triad(d[t]) = Triad(d[u])
               PROVE  <<t, u>> \in h.newer
    BY DEF Ordered
  <2>1. \A a \in l.members : <<s, a>> \in h.newer
    BY <1>1 DEF InsertAtHead
  <2>2. \A a, b \in l.members : <<a, b>> \in l.newer => <<a, b>> \in h.newer
    BY <1>1 DEF InsertAtHead
  <2>3. CASE t = s
    BY <1>4, <2>1, <2>3
  <2>4. CASE t # s /\ u = s
    BY <1>4, <1>5, <1>7, <2>4
  <2>5. CASE t # s /\ u # s
    BY <1>4, <1>7, <2>2, <2>5 DEF Consistent, Ordered
  <2> QED
    BY <2>3, <2>4, <2>5
<1>10. Kept(d, h)
  <2>1. \A t \in h.members \cap ExclusiveOwner : d[t].prod = OwnerPoint.in
    BY <1>4, <1>5, <1>7 DEF Consistent, Kept
  <2>2. \A t \in h.members \cap IoSlots : OwnPath(d[t])
    BY <1>4, <1>5, <1>7 DEF Consistent, Kept
  <2>3. ASSUME NEW t \in h.members \cap IoSlots, NEW u \in h.members \cap IoSlots
        PROVE  Agree(d[t], d[u])
    <3>1. Agree(c, c)
      BY DEF Agree
    <3>2. \A a, b : Agree(a, b) => Agree(b, a)
      BY DEF Agree
    <3>3. CASE t = s \/ u = s
      BY <1>4, <1>5, <1>7, <3>1, <3>2, <3>3
    <3>4. CASE t # s /\ u # s
      BY <1>4, <1>7, <3>4 DEF Consistent, Kept
    <3> QED
      BY <3>3, <3>4
  <2> QED
    BY <2>1, <2>2, <2>3 DEF Kept
<1> QED
  BY <1>1, <1>2, <1>8, <1>9, <1>10 DEF Consistent

(* A connection that times out keeps its place and its parameters.         *)
LEMMA TimingOutKeeps ==
    ASSUME NEW rest, NEW l, Consistent(rest, l), NEW s \in l.members
    PROVE  Consistent([rest EXCEPT ![s].state = "TimedOut"], l)
<1>1. PICK d : d = [rest EXCEPT ![s].state = "TimedOut"]
  OBVIOUS
<1>2. /\ rest \in [Slots -> ConnectionObjects \cup {NoConn}] /\ l \in ListOf(Slots)
      /\ \A t \in Slots : t \in l.members <=> rest[t] # NoConn
  BY DEF Consistent, Stored
<1>3. l.members \in SUBSET Slots
  BY <1>2, OrderOfList
<1>4. rest[s] \in ConnectionObjects
  BY <1>2, <1>3
<1>5. PICK c : c = [rest[s] EXCEPT !.state = "TimedOut"]
  OBVIOUS
<1>6. /\ c \in ConnectionObjects /\ ~Established(c)
      /\ c.req = rest[s].req /\ c.cons = rest[s].cons /\ c.prod = rest[s].prod /\ c.pit = rest[s].pit
  BY <1>4, <1>5 DEF ConnectionObjects, Established
<1>7. d = [rest EXCEPT ![s] = c]
  BY <1>1, <1>2, <1>3, <1>5
<1>8. /\ d \in [Slots -> ConnectionObjects \cup {NoConn}]
      /\ d[s] = c /\ \A t \in Slots \ {s} : d[t] = rest[t]
  BY <1>2, <1>3, <1>6, <1>7
<1>9. c # NoConn
  BY <1>6, NoConnAssumption
<1>10. Stored(d, l)
  BY <1>2, <1>3, <1>8, <1>9 DEF Stored
<1>11. \A t \in l.members :
          /\ d[t].req = rest[t].req /\ d[t].cons = rest[t].cons /\ d[t].prod = rest[t].prod
          /\ d[t].pit = rest[t].pit
          /\ Established(d[t]) => Established(rest[t])
  BY <1>3, <1>6, <1>8
<1>12. Ordered(d, l)
  BY <1>11 DEF Consistent, Ordered, Triad
<1>13. Kept(d, l)
  <2>1. \A t \in l.members \cap ExclusiveOwner : d[t].prod = OwnerPoint.in
    BY <1>11 DEF Consistent, Kept
  <2>2. \A t \in l.members \cap IoSlots : OwnPath(d[t])
    BY <1>11 DEF Consistent, Kept, OwnPath
  <2>3. \A t, u \in l.members \cap IoSlots : Agree(d[t], d[u])
    BY <1>11 DEF Consistent, Kept, Agree
  <2> QED
    BY <2>1, <2>2, <2>3 DEF Kept
<1> QED
  BY <1>1, <1>10, <1>12, <1>13 DEF Consistent

(* The entry that the exclusive owner's or a shared connection type gives  *)
(* to a request: free, or that of a timed-out connection.                  *)
Usable(p, s) ==
    /\ s \in IoSlots /\ p.cfg = OwnerPoint.cfg /\ p.cons \in DOMAIN AssemblyLength
    /\ conn[s] = NoConn \/ ~Established(conn[s])
    /\ s \in ExclusiveOwner => p.prod = OwnerPoint.in

(* GetExclusiveOwnerConnection: the entry is in use only by a connection   *)
(* that produces the owner's assembly, which the search on the list finds. *)
LEMMA OwnerFound ==
    ASSUME Consistent(conn, list), NEW m, NEW p, NEW found,
           found = GetExclusiveOwnerConnection(m, p), found.slot # 0
    PROVE  Usable(p, found.slot)
<1> DEFINE T == {s \in list.members \cap ExclusiveOwner : conn[s].prod = p.prod}
<1>1. PICK owner : owner = FirstIn(list, T, 0)
  OBVIOUS
<1>2. found \in {Found(1), NotFound("Success"), NotFound("OwnershipConflict")}
  BY DEF GetExclusiveOwnerConnection
<1>3. found = Found(1) /\ found.slot = 1
  BY <1>2 DEF Found, NotFound
<1>4. /\ [out |-> p.cons, in |-> p.prod, cfg |-> p.cfg] = OwnerPoint
      /\ owner = 0 \/ owner \in TimedOutOf(ExclusiveOwner, m)
  BY <1>1, <1>3 DEF GetExclusiveOwnerConnection, Found, NotFound
<1>5. p.prod = OwnerPoint.in /\ p.cfg = OwnerPoint.cfg /\ p.cons \in DOMAIN AssemblyLength
  BY <1>4, PointsAssumption
<1>6. 1 \in ExclusiveOwner /\ 1 \in IoSlots /\ 1 \in Slots
  BY PoolsAreFinite
<1>7. ASSUME conn[1] # NoConn PROVE ~Established(conn[1])
  <2>1. 1 \in list.members /\ conn[1].prod = OwnerPoint.in
    BY <1>6, <1>7 DEF Consistent, Stored, Kept
  <2>2. 1 \in list.members \cap T
    BY <1>5, <1>6, <2>1
  <2>3. owner \in list.members \cap T
    BY <1>1, <2>2, FirstInIsFirst, PoolsAreFinite DEF Consistent, Stored
  <2>4. owner = 1
    BY <2>3, PoolsAreFinite
  <2> QED
    BY <1>4, <2>4 DEF TimedOutOf
<1> QED
  BY <1>3, <1>5, <1>6, <1>7 DEF Usable

(* GetInputOnlyConnection and GetListenOnlyConnection.                     *)
LEMMA SharedFound ==
    ASSUME NEW m, NEW p, NEW slots \in {InputOnly, ListenOnly},
           NEW point \in {InputPoint, ListenPoint}, NEW found,
           found = GetSharedConnection(m, p, slots, point), found.slot # 0
    PROVE  Usable(p, found.slot)
<1>1. slots \in SUBSET IoSlots /\ slots \cap ExclusiveOwner = {} /\ slots \in SUBSET Nat
  BY PoolsAreFinite
<1>2. /\ point.cfg = p.cfg /\ point.out = p.cons
      /\ \/ TimedOutOf(slots, m) # {} /\ found = Found(Min(TimedOutOf(slots, m)))
         \/ Free(slots) # {} /\ found = Found(Min(Free(slots)))
  BY DEF GetSharedConnection, NotFound
<1>3. p.cfg = OwnerPoint.cfg /\ p.cons \in DOMAIN AssemblyLength
  BY <1>2, PointsAssumption
<1>4. CASE TimedOutOf(slots, m) # {} /\ found = Found(Min(TimedOutOf(slots, m)))
  <2>1. TimedOutOf(slots, m) \in SUBSET Nat
    BY <1>1 DEF TimedOutOf
  <2>2. found.slot \in TimedOutOf(slots, m)
    BY <1>4, <2>1, MinInSet DEF Found
  <2> QED
    BY <1>1, <1>3, <2>2 DEF Usable, TimedOutOf
<1>5. CASE Free(slots) # {} /\ found = Found(Min(Free(slots)))
  <2>1. Free(slots) \in SUBSET Nat
    BY <1>1 DEF Free
  <2>2. found.slot \in Free(slots)
    BY <1>5, <2>1, MinInSet DEF Found
  <2> QED
    BY <1>1, <1>3, <2>2 DEF Usable, Free
<1> QED
  BY <1>2, <1>4, <1>5

(* The entry that GetIoConnectionForConnectionData gives to a request.     *)
LEMMA EntryFound ==
    ASSUME Consistent(conn, list), NEW m, NEW p, NEW found,
           found = GetIoConnectionForConnectionData(m, p), found.slot # 0
    PROVE  Usable(p, found.slot)
<1>1. PICK owner : owner = GetExclusiveOwnerConnection(m, p)
  OBVIOUS
<1>2. PICK input : input = GetSharedConnection(m, p, InputOnly, InputPoint)
  OBVIOUS
<1>3. PICK listen : listen = GetSharedConnection(m, p, ListenOnly, ListenPoint)
  OBVIOUS
<1>4. found \in {owner, input, listen}
  <2>1. found \in {owner, input, listen, NotFound("InconsistentPathCombo")}
    BY <1>1, <1>2, <1>3 DEF GetIoConnectionForConnectionData
  <2> QED
    BY <2>1 DEF NotFound
<1>5. owner.slot # 0 => Usable(p, owner.slot)
  BY <1>1, OwnerFound
<1>6. input.slot # 0 => Usable(p, input.slot)
  BY <1>2, SharedFound
<1>7. listen.slot # 0 => Usable(p, listen.slot)
  BY <1>3, SharedFound
<1> QED
  BY <1>4, <1>5, <1>6, <1>7

(* What is closed for reuse includes the connection of the entry.          *)
LEMMA EntryIsFree ==
    ASSUME Consistent(conn, list), NEW s \in Slots, NEW V \in ClosedForReuse(s)
    PROVE  s \notin RemoveAll(list, V).members
<1>1. RemoveAll(list, V).members = list.members \ V
  BY RemoveAllIsList DEF Consistent, Stored
<1>2. conn[s] # NoConn => s \in V
  BY DEF ClosedForReuse, ClosedWith
<1> QED
  BY <1>1, <1>2 DEF Consistent, Stored

(* A request that passes the comparison of shared parameters agrees with   *)
(* every connection on the list l that has its produced path.              *)
LEMMA SharingChecked ==
    ASSUME NEW m, NEW p, NEW l \in ListOf(Slots), NEW pit,
           SharedMismatch(m, p, l, pit) = "Success", m.ttoo = "multicast",
           NEW s \in l.members, conn[s].prod = p.prod
    PROVE  LET n == Message[conn[s].req] IN
           m.rpi = n.rpi /\ m.class = n.class /\ m.trigger = n.trigger /\ pit = conn[s].pit
<1> DEFINE bad == {t \in l.members : conn[t].prod = p.prod
                                       /\ SharedParameters(m, conn[t], pit) # "Success"}
<1>1. ASSUME bad # {} PROVE FALSE
  <2>1. PICK f : f = FirstIn(l, bad, 0)
    OBVIOUS
  <2>2. f \in bad
    BY <1>1, <2>1, FirstInIsFirst, PoolsAreFinite
  <2>3. SharedMismatch(m, p, l, pit) = SharedParameters(m, conn[f], pit)
    BY <1>1, <2>1 DEF SharedMismatch
  <2> QED
    BY <2>2, <2>3
<1>2. SharedParameters(m, conn[s], pit) = "Success"
  BY <1>1
<1> QED
  BY <1>2 DEF SharedParameters

(* HandleConfigData writes data of the right length, and only when no      *)
(* connection on the list l has the configuration point.                   *)
Unused(p, l, data) ==
    /\ 2 * Len(data) = AssemblyLength[p.cfg]
    /\ \A s \in l.members : conn[s].cfg # p.cfg

LEMMA ConfigHandled ==
    ASSUME NEW p, NEW l
    PROVE  LET data == HandleConfigData(p, l).config IN data = config \/ Unused(p, l, data)
<1>1. PICK data : data = HandleConfigData(p, l)
  OBVIOUS
<1>2. \/ \E error : data = [error |-> error, config |-> config]
      \/ /\ data = [error |-> "Success", config |-> p.config]
         /\ ~(\E s \in l.members : conn[s].cfg = p.cfg)
         /\ 2 * Len(p.config) = AssemblyLength[p.cfg]
  BY <1>1 DEF HandleConfigData
<1>3. CASE \E error : data = [error |-> error, config |-> config]
  BY <1>1, <1>3
<1>4. CASE /\ data = [error |-> "Success", config |-> p.config]
           /\ ~(\E s \in l.members : conn[s].cfg = p.cfg)
           /\ 2 * Len(p.config) = AssemblyLength[p.cfg]
  BY <1>1, <1>4 DEF Unused
<1> QED
  BY <1>2, <1>3, <1>4

(* The checks of EstablishIoConnection: success includes the comparison of *)
(* the shared parameters.                                                  *)
LEMMA ChecksDone ==
    ASSUME NEW m, NEW p, NEW l, NEW checks, checks = IoChecks(m, p, l)
    PROVE  /\ checks.config = config \/ Unused(p, l, checks.config)
           /\ checks.error = "Success" =>
                 SharedMismatch(m, p, l, ProductionInhibitTime(m, p)) = "Success"
<1>1. PICK pit : pit = ProductionInhibitTime(m, p)
  OBVIOUS
<1>2. PICK shared : shared = SharedMismatch(m, p, l, pit)
  OBVIOUS
<1>3. PICK data : data = HandleConfigData(p, l)
  OBVIOUS
<1> DEFINE Refusal(error, hint) == [error |-> error, hint |-> hint, config |-> config]
<1>4. PICK osize, tsize :
         \/ checks = Refusal("ProductionInhibitTimerGreaterThanRpi", 0)
         \/ checks = Refusal("InvalidOToTConnectionSize", osize)
         \/ shared # "Success" /\ checks = Refusal(shared, 0)
         \/ checks = Refusal("InvalidTToOConnectionSize", tsize)
         \/ shared = "Success" /\ checks = [error |-> data.error, hint |-> 0, config |-> data.config]
  BY <1>1, <1>2, <1>3 DEF IoChecks
<1>5. CASE ~(shared = "Success"
               /\ checks = [error |-> data.error, hint |-> 0, config |-> data.config])
  <2>1. checks.config = config
    BY <1>4, <1>5
  <2>2. checks.error # "Success"
    BY <1>4, <1>5
  <2> QED
    BY <2>1, <2>2
<1>6. CASE shared = "Success" /\ checks = [error |-> data.error, hint |-> 0, config |-> data.config]
  <2>1. data.config = config \/ Unused(p, l, data.config)
    BY <1>3, ConfigHandled
  <2>2. checks.config = data.config
    BY <1>6
  <2> QED
    BY <1>1, <1>2, <1>6, <2>1, <2>2
<1> QED
  BY <1>4, <1>5, <1>6

-----------------------------------------------------------------------------
(* The connection that request r makes out of the parser p, which has the  *)
(* paths of the dummy.                                                     *)
OwnConnection(r, p) ==
    /\ p.general = Parsed[r].general /\ p.class = Parsed[r].class
    /\ NewConnection(r, p, p.pit) \in ConnectionObjects
    /\ NewConnection(r, p, ProductionInhibitTime(Message[r], p)) \in ConnectionObjects
    /\ p.general = "Success" /\ p.class = AssemblyClass =>
          \A pit : OwnPath(NewConnection(r, p, pit))

(* A path of the dummy that another request left there gets into a         *)
(* connection only in a direction that its request left out.               *)
LEMMA DummyCopied ==
    ASSUME Configured, NEW r \in Requests, NEW paths, paths = PathsOf(Parsed[r]),
           NEW p, p = [Parsed[r] EXCEPT !.cons = paths.cons, !.prod = paths.prod]
    PROVE  paths \in [cons : Nat, prod : Nat] /\ OwnConnection(r, p)
<1>1. PICK q : q = Parsed[r]
  OBVIOUS
<1>2. /\ IsParser(q)
      /\ q.general = "Success" /\ q.class = AssemblyClass =>
            /\ Message[r].otot # "null" => q.cons # NotWritten
            /\ Message[r].ttoo # "null" => q.prod # NotWritten
  BY <1>1, ParsedRequest DEF ConsFound, ProdFound, NotWritten
<1>3. /\ paths \in [cons : Nat, prod : Nat]
      /\ q.cons # NotWritten => paths.cons = q.cons
      /\ q.prod # NotWritten => paths.prod = q.prod
  <2>1. dummy.cons \in Nat /\ dummy.prod \in Nat
    BY DEF Configured
  <2> QED
    BY <1>1, <1>2, <2>1 DEF PathsOf, IsParser
<1>4. /\ p.general = q.general /\ p.class = q.class /\ p.cfg = q.cfg /\ p.pit = q.pit
      /\ p.cons = paths.cons /\ p.prod = paths.prod
  BY <1>1, <1>2 DEF IsParser, ParserFields
<1>5. ProductionInhibitTime(Message[r], p) = ProductionInhibitTime(Message[r], q)
  BY <1>4 DEF ProductionInhibitTime
<1>6. ASSUME NEW pit \in {Parsed[x].pit : x \in Requests}
                           \cup {ProductionInhibitTime(Message[x], Parsed[x]) : x \in Requests}
      PROVE  NewConnection(r, p, pit) \in ConnectionObjects
  <2>1. p.cons \in Nat /\ p.prod \in Nat /\ p.cfg \in Nat
    BY <1>2, <1>3, <1>4 DEF IsParser
  <2> QED
    BY <2>1 DEF NewConnection, ConnectionObjects
<1>7. /\ NewConnection(r, p, p.pit) \in ConnectionObjects
      /\ NewConnection(r, p, ProductionInhibitTime(Message[r], p)) \in ConnectionObjects
  BY <1>1, <1>4, <1>5, <1>6
<1>8. ASSUME p.general = "Success", p.class = AssemblyClass, NEW pit
      PROVE  OwnPath(NewConnection(r, p, pit))
  <2>1. /\ NewConnection(r, p, pit).req = r /\ NewConnection(r, p, pit).cons = paths.cons
        /\ NewConnection(r, p, pit).prod = paths.prod
    BY <1>4 DEF NewConnection
  <2> QED
    BY <1>1, <1>2, <1>3, <1>4, <1>8, <2>1 DEF OwnPath
<1> QED
  BY <1>1, <1>3, <1>4, <1>7, <1>8 DEF OwnConnection

(* A response that reports an error is about the triad of the request.     *)
LEMMA FailureAnswered ==
    ASSUME NEW r, NEW general, general # "Success", NEW extended, NEW hint,
           answer' = ForwardOpenResponse(r, Message[r].triad, general, extended, hint)
    PROVE  Answered'
<1>1. /\ answer'.kind = "open" /\ answer'.req = r /\ answer'.triad = Message[r].triad
      /\ answer'.general = general
  BY DEF ForwardOpenResponse
<1> QED
  BY <1>1 DEF Answered, SuccessMeansOpen, CloseEndsTriad

(* A connection that is opened in entry s.                                 *)
LEMMA OpenedKeeps ==
    ASSUME NEW r \in Requests, NEW s \in Slots, NEW c \in ConnectionObjects, NEW l, NEW rest,
           Opened(r, s, c, l, rest), Consistent(rest, l), s \notin l.members,
           c.req = r, Established(c),
           \A t \in l.members : ~(Established(rest[t]) /\ Triad(rest[t]) = Message[r].triad),
           s \in ExclusiveOwner => c.prod = OwnerPoint.in,
           s \in IoSlots => OwnPath(c),
           s \in IoSlots => \A t \in l.members \cap IoSlots : Agree(c, rest[t])
    PROVE  /\ Consistent(conn', list') /\ Answered'
           /\ list'.members = l.members \cup {s} /\ conn'[s] = c
<1>1. list' = InsertAtHead(l, s) /\ conn' = [rest EXCEPT ![s] = c]
  BY DEF Opened, AddNewActiveConnection
<1>2. Triad(c) = Message[r].triad
  BY DEF Triad
<1>3. Consistent([rest EXCEPT ![s] = c], InsertAtHead(l, s))
  BY <1>2, OpeningKeeps
<1>4. First(list') = s
  BY <1>1, HeadIsFirst DEF Consistent, Stored
<1>5. conn'[s] = c
  BY <1>1 DEF Consistent, Stored
<1>6. list'.members = l.members \cup {s}
  BY <1>1 DEF InsertAtHead
<1>7. answer' = ForwardOpenResponse(r, Message[r].triad, "Success", "Success", 0)
  BY <1>2, <1>4, <1>5 DEF Opened
<1>8. /\ answer'.kind = "open" /\ answer'.req = r /\ answer'.triad = Message[r].triad
  BY <1>7 DEF ForwardOpenResponse
<1>9. Answered'
  BY <1>4, <1>5, <1>6, <1>8 DEF Answered, SuccessMeansOpen, CloseEndsTriad
<1> QED
  BY <1>1, <1>3, <1>5, <1>6, <1>9

(* EstablishClass3Connection: a free entry is not on the list.             *)
LEMMA Class3Keeps ==
    ASSUME Consistent(conn, list), NEW r \in Requests, ~Matching(Message[r]),
           NEW p, OwnConnection(r, p), EstablishClass3Connection(r, p)
    PROVE  Consistent(conn', list') /\ Answered' /\ config' = config
<1>1. PICK s : s = GetFreeExplicitConnection
  OBVIOUS
<1>2. CASE s # 0
  <2>1. Opened(r, s, NewConnection(r, p, p.pit), list, conn)
    BY <1>1, <1>2 DEF EstablishClass3Connection
  <2>2. s \in Free(Explicit)
    <3>1. Free(Explicit) \in SUBSET Nat
      BY PoolsAreFinite DEF Free
    <3> QED
      BY <1>1, <1>2, <3>1, MinInSet DEF GetFreeExplicitConnection, FirstOf
  <2>3. s \in Slots /\ s \notin IoSlots /\ s \notin ExclusiveOwner /\ conn[s] = NoConn
    BY <2>2, PoolsAreFinite DEF Free
  <2>4. s \notin list.members
    BY <2>3 DEF Consistent, Stored
  <2>5. PICK c : c = NewConnection(r, p, p.pit)
    OBVIOUS
  <2>6. c \in ConnectionObjects /\ c.req = r /\ Established(c)
    BY <2>5 DEF OwnConnection, NewConnection, Established
  <2>7. \A t \in list.members : ~(Established(conn[t]) /\ Triad(conn[t]) = Message[r].triad)
    BY DEF Matching
  <2>8. Consistent(conn', list') /\ Answered'
    BY <2>1, <2>3, <2>4, <2>5, <2>6, <2>7, OpenedKeeps
  <2> QED
    BY <2>8 DEF EstablishClass3Connection
<1>3. CASE s = 0
  <2>1. /\ answer' = Failure(r, "ConnectionFailure", "NoMoreConnectionsAvailable")
        /\ UNCHANGED <<conn, list, config>>
    BY <1>1, <1>3 DEF EstablishClass3Connection
  <2>2. "ConnectionFailure" # "Success"
    OBVIOUS
  <2>3. Answered'
    BY <2>1, <2>2, FailureAnswered DEF Failure
  <2> QED
    BY <2>1, <2>3
<1> QED
  BY <1>2, <1>3

(* The step of ConfigKeptForConnections.                                   *)
ConfigStep ==
    config' # config =>
        \A s \in list.members \cap list'.members : conn'[s] = conn[s] => conn[s].cfg # OwnerPoint.cfg

(* What the step that handles a request to the assembly object leaves.     *)
IoStep ==
    /\ Consistent(conn', list') /\ Answered' /\ ConfigStep
    /\ config' = config \/ 2 * Len(config') = AssemblyLength[OwnerPoint.cfg]

(* EstablishIoConnection when a channel cannot be opened or a check fails: *)
(* the connections V that were closed for the entry stay closed.           *)
LEMMA IoRefusedKeeps ==
    ASSUME Consistent(conn, list), NEW r, NEW p, p.cfg = OwnerPoint.cfg,
           NEW V, NEW l, l = RemoveAll(list, V),
           config' = config \/ Unused(p, l, config'),
           list' = l, conn' = Emptied(V),
           NEW general, general # "Success", NEW extended, NEW hint,
           answer' = ForwardOpenResponse(r, Message[r].triad, general, extended, hint)
    PROVE  IoStep
<1>1. Consistent(conn', list')
  BY ClosingKeeps
<1>2. Answered'
  BY FailureAnswered
<1>3. ConfigStep
  BY DEF ConfigStep, Unused
<1>4. config' = config \/ 2 * Len(config') = AssemblyLength[OwnerPoint.cfg]
  BY DEF Unused
<1> QED
  BY <1>1, <1>2, <1>3, <1>4 DEF IoStep

(* EstablishIoConnection when the connection is opened.  The connection    *)
(* that had the entry was not established: it is not kept.                 *)
LEMMA IoOpenedKeeps ==
    ASSUME Consistent(conn, list), NEW r \in Requests, ~Matching(Message[r]),
           NEW p, OwnConnection(r, p), p.general = "Success", p.class = AssemblyClass,
           NEW s, Usable(p, s), NEW V \in ClosedForReuse(s), NEW l, l = RemoveAll(list, V),
           config' = config \/ Unused(p, l, config'),
           NEW pit, pit = ProductionInhibitTime(Message[r], p),
           SharedMismatch(Message[r], p, l, pit) = "Success",
           Opened(r, s, NewConnection(r, p, pit), l, Emptied(V))
    PROVE  IoStep
<1>1. PICK rest : rest = Emptied(V)
  OBVIOUS
<1>2. Consistent(rest, l)
  BY <1>1, ClosingKeeps
<1>3. PICK c : c = NewConnection(r, p, pit)
  OBVIOUS
<1>4. /\ c \in ConnectionObjects /\ c.req = r /\ Established(c) /\ c.prod = p.prod /\ c.pit = pit
      /\ OwnPath(c)
  BY <1>3 DEF OwnConnection, NewConnection, Established
<1>5. s \in IoSlots /\ s \in Slots /\ (s \in ExclusiveOwner => c.prod = OwnerPoint.in)
  BY <1>4, PoolsAreFinite DEF Usable
<1>6. s \notin l.members
  BY <1>5, EntryIsFree
<1>7. l \in ListOf(Slots) /\ l.members = list.members \ V /\ l.members \in SUBSET Slots
  BY RemoveAllIsList, OrderOfList DEF Consistent, Stored
<1>8. \A t \in l.members : rest[t] = conn[t]
  BY <1>1, <1>7 DEF Emptied
<1>9. \A t \in l.members : ~(Established(rest[t]) /\ Triad(rest[t]) = Message[r].triad)
  BY <1>7, <1>8 DEF Matching
<1>10. ASSUME NEW t \in l.members \cap IoSlots PROVE Agree(c, rest[t])
  <2>1. CASE Message[r].ttoo = "multicast" /\ c.prod = rest[t].prod
    <3>1. conn[t].prod = p.prod
      BY <1>4, <1>8, <2>1
    <3>2. LET n == Message[conn[t].req] IN
          /\ Message[r].rpi = n.rpi /\ Message[r].class = n.class
          /\ Message[r].trigger = n.trigger /\ pit = conn[t].pit
      BY <1>7, <2>1, <3>1, SharingChecked
    <3> QED
      BY <1>4, <1>8, <3>2 DEF Agree
  <2>2. CASE ~(Message[r].ttoo = "multicast" /\ c.prod = rest[t].prod)
    BY <1>4, <2>2 DEF Agree
  <2> QED
    BY <2>1, <2>2
<1>11. /\ Consistent(conn', list') /\ Answered'
       /\ list'.members = l.members \cup {s} /\ conn'[s] = c
  BY <1>1, <1>2, <1>3, <1>4, <1>5, <1>6, <1>9, <1>10, OpenedKeeps
<1>12. ConfigStep
  <2> SUFFICES ASSUME config' # config, NEW t \in list.members \cap list'.members,
                      conn'[t] = conn[t]
               PROVE  conn[t].cfg # OwnerPoint.cfg
    BY DEF ConfigStep
  <2>1. t # s
    <3>1. t \in Slots /\ conn[t] # NoConn
      BY DEF Consistent, Stored, ListOf
    <3> QED
      BY <1>4, <1>11, <3>1 DEF Usable
  <2> QED
    BY <1>11, <2>1 DEF Unused, Usable
<1>13. config' = config \/ 2 * Len(config') = AssemblyLength[OwnerPoint.cfg]
  BY DEF Unused, Usable
<1> QED
  BY <1>11, <1>12, <1>13 DEF IoStep

(* EstablishIoConnection.                                                  *)
LEMMA IoKeeps ==
    ASSUME Consistent(conn, list), NEW r \in Requests, ~Matching(Message[r]),
           NEW p, OwnConnection(r, p), EstablishIoConnection(r, p)
    PROVE  IoStep
<1>1. PICK m : m = Message[r]
  OBVIOUS
<1>2. PICK found : found = GetIoConnectionForConnectionData(m, p)
  OBVIOUS
<1>3. "ConnectionFailure" # "Success"
  OBVIOUS
<1>4. p.general = "Success" /\ p.class = AssemblyClass
  BY DEF EstablishIoConnection
<1>5. CASE found.slot = 0
  <2>1. /\ answer' = Failure(r, "ConnectionFailure", found.error)
        /\ UNCHANGED <<conn, list, config>>
    BY <1>1, <1>2, <1>5 DEF EstablishIoConnection
  <2>2. Answered'
    BY <1>3, <2>1, FailureAnswered DEF Failure
  <2> QED
    BY <2>1, <2>2 DEF IoStep, ConfigStep
<1>6. CASE found.slot # 0
  <2>1. Usable(p, found.slot)
    BY <1>2, <1>6, EntryFound
  <2>2. PICK V \in ClosedForReuse(found.slot) :
        \E l \in {RemoveAll(list, V)} : \E checks \in {IoChecks(m, p, l)} :
           /\ config' = checks.config
           /\ \/ /\ checks.error # "Success"
                 /\ list' = l /\ conn' = Emptied(V)
                 /\ answer' = ForwardOpenResponse(r, m.triad, "ConnectionFailure",
                                                  checks.error, checks.hint)
              \/ /\ checks.error = "Success"
                 /\ Opened(r, found.slot, NewConnection(r, p, ProductionInhibitTime(m, p)),
                           l, Emptied(V))
              \/ /\ checks.error = "Success"
                 /\ list' = l /\ conn' = Emptied(V)
                 /\ answer' = Failure(r, "ConnectionFailure", "Success")
    BY <1>1, <1>2, <1>6 DEF EstablishIoConnection
  <2>3. PICK l : l = RemoveAll(list, V)
    OBVIOUS
  <2>4. PICK checks : checks = IoChecks(m, p, l)
    OBVIOUS
  <2>5. PICK pit : pit = ProductionInhibitTime(m, p)
    OBVIOUS
  <2>6. /\ config' = config \/ Unused(p, l, config')
        /\ checks.error = "Success" => SharedMismatch(m, p, l, pit) = "Success"
    BY <2>2, <2>3, <2>4, <2>5, ChecksDone
  <2>7. CASE /\ list' = l /\ conn' = Emptied(V)
             /\ answer' = ForwardOpenResponse(r, m.triad, "ConnectionFailure",
                                              checks.error, checks.hint)
    BY <1>1, <1>3, <2>1, <2>3, <2>6, <2>7, IoRefusedKeeps DEF Usable
  <2>8. CASE /\ checks.error = "Success"
             /\ Opened(r, found.slot, NewConnection(r, p, pit), l, Emptied(V))
    BY <1>1, <1>4, <2>1, <2>3, <2>5, <2>6, <2>8, IoOpenedKeeps
  <2>9. CASE /\ list' = l /\ conn' = Emptied(V)
             /\ answer' = Failure(r, "ConnectionFailure", "Success")
    BY <1>1, <1>3, <2>1, <2>3, <2>6, <2>9, IoRefusedKeeps DEF Usable, Failure
  <2> QED
    BY <2>2, <2>3, <2>4, <2>5, <2>7, <2>8, <2>9
<1> QED
  BY <1>5, <1>6

(* ForwardOpen.                                                            *)
LEMMA ForwardOpenKeeps ==
    ASSUME IInv, NEW r \in Requests, ForwardOpen(r)
    PROVE  IInv' /\ ConfigStep
<1>1. Consistent(conn, list) /\ Configured /\ Answered
  BY PartsOfInvariant
<1>2. "ConnectionFailure" # "Success" /\ "Error" # "Success"
  OBVIOUS
<1>3. SUFFICES Consistent(conn', list') /\ Configured' /\ Answered' /\ ConfigStep
  <2>1. ASSUME Consistent(conn', list'), Configured', Answered' PROVE IInv'
    BY <2>1 DEF IInv, TypeOK, NewestEstablished, OwnerPointKept, OwnPaths, SharedProductionAgrees,
                Consistent, Stored, Ordered, Kept, Agree, Configured, Answered
  <2> QED
    BY <2>1
<1>4. CASE RefuseForwardOpen(r)
  <2>1. UNCHANGED <<dummy, conn, list, config>>
    BY <1>4 DEF RefuseForwardOpen
  <2>2. Answered'
    BY <1>2, <1>4, FailureAnswered DEF RefuseForwardOpen, Failure
  <2> QED
    BY <1>1, <2>1, <2>2 DEF Configured, ConfigStep
<1>5. ASSUME RefusedAtOnce(Message[r]) = "Success", dummy' = PathsOf(Parsed[r]),
             NEW p \in {[Parsed[r] EXCEPT !.cons = dummy'.cons, !.prod = dummy'.prod]},
             RefusePath(r, p) \/ EstablishClass3Connection(r, p) \/ EstablishIoConnection(r, p)
      PROVE  Consistent(conn', list') /\ Configured' /\ Answered' /\ ConfigStep
  <2>1. PICK paths : paths = PathsOf(Parsed[r])
    OBVIOUS
  <2>2. paths \in [cons : Nat, prod : Nat] /\ OwnConnection(r, p)
    BY <1>1, <1>5, <2>1, DummyCopied
  <2>3. ~Matching(Message[r])
    BY <1>5 DEF RefusedAtOnce
  <2>4. SUFFICES IoStep
    BY <1>1, <1>5, <2>1, <2>2, <2>4 DEF IoStep, Configured
  <2>5. CASE RefusePath(r, p)
    <3>1. UNCHANGED <<conn, list, config>>
      BY <2>5 DEF RefusePath
    <3>2. Answered'
      BY <1>2, <2>5, FailureAnswered DEF RefusePath, Failure
    <3> QED
      BY <1>1, <3>1, <3>2 DEF IoStep, ConfigStep
  <2>6. CASE EstablishClass3Connection(r, p)
    BY <1>1, <2>2, <2>3, <2>6, Class3Keeps DEF IoStep, ConfigStep
  <2>7. CASE EstablishIoConnection(r, p)
    BY <1>1, <2>2, <2>3, <2>7, IoKeeps
  <2> QED
    BY <1>5, <2>5, <2>6, <2>7
<1> QED
  BY <1>4, <1>5 DEF ForwardOpen

(* ForwardClose: the first connection with the triad is the newest, so     *)
(* when it goes no established one with the triad is left.                 *)
LEMMA CloseKeeps ==
    ASSUME Consistent(conn, list), NEW t, NEW owner, ForwardClose(t, owner)
    PROVE  Consistent(conn', list') /\ Answered'
<1> DEFINE T == {s \in list.members : Triad(conn[s]) = t}
<1>1. PICK s : s = FirstWithTriad(t)
  OBVIOUS
<1>2. CASE UNCHANGED <<conn, list>> /\ answer'.kind = "close" /\ answer'.status # "Success"
  BY <1>2 DEF Answered, SuccessMeansOpen, CloseEndsTriad
<1>3. ASSUME s # 0, NEW V \in ClosedWith(s), list' = RemoveAll(list, V), conn' = Emptied(V),
             answer' = [kind |-> "close", triad |-> t, status |-> "Success"]
      PROVE  Consistent(conn', list') /\ Answered'
  <2>1. Consistent(conn', list')
    BY <1>3, ClosingKeeps
  <2>2. list \in ListOf(Slots) /\ list.members \in SUBSET Slots
    BY OrderOfList DEF Consistent, Stored
  <2>3. list.members \cap T # {}
    BY <1>1, <1>3 DEF FirstWithTriad, FirstIn
  <2>4. s \in T /\ \A u \in (list.members \cap T) \ {s} : <<s, u>> \in list.newer
    BY <1>1, <2>2, <2>3, FirstInIsFirst, PoolsAreFinite DEF FirstWithTriad
  <2>5. s \in V
    BY <1>3 DEF ClosedWith
  <2>6. list'.members = list.members \ V
    BY <1>3, <2>2, RemoveAllIsList
  <2>7. ASSUME NEW u \in list'.members, Established(conn'[u]), Triad(conn'[u]) = t
        PROVE  FALSE
    <3>1. u \in list.members /\ u # s /\ conn'[u] = conn[u]
      BY <1>3, <2>2, <2>5, <2>6 DEF Emptied
    <3>2. <<s, u>> \in list.newer
      BY <2>4, <2>7, <3>1
    <3>3. <<u, s>> \in list.newer
      BY <2>4, <2>7, <3>1 DEF Consistent, Ordered
    <3> QED
      BY <2>2, <2>4, <3>1, <3>2, <3>3, OrderOfList
  <2>8. answer'.kind = "close" /\ answer'.triad = t
    BY <1>3
  <2>9. Answered'
    BY <2>7, <2>8 DEF Answered, SuccessMeansOpen, CloseEndsTriad
  <2> QED
    BY <2>1, <2>9
<1> QED
  BY <1>1, <1>2, <1>3 DEF ForwardClose

(* TimeOut of a connection.                                                *)
LEMMA TimeOutKeeps ==
    ASSUME Consistent(conn, list), NEW s \in list.members, TimeOut(s)
    PROVE  Consistent(conn', list') /\ Answered'
<1>1. Answered'
  BY DEF TimeOut, NoAnswer, Answered, SuccessMeansOpen, CloseEndsTriad
<1>2. CASE s \in Explicit
  BY <1>1, <1>2, ClosingKeeps DEF TimeOut
<1>3. CASE s \notin Explicit
  <2>1. PICK gone : s \notin gone /\ list' = RemoveAll(list, gone)
                      /\ conn' = [Emptied(gone) EXCEPT ![s].state = "TimedOut"]
    BY <1>3 DEF TimeOut
  <2>2. s \in list'.members
    BY <2>1 DEF RemoveAll
  <2> QED
    BY <1>1, <2>1, <2>2, ClosingKeeps, TimingOutKeeps
<1> QED
  BY <1>2, <1>3

(* The pools are empty, nothing was answered.                              *)
LEMMA InitHolds == Init => IInv
<1> SUFFICES ASSUME Init PROVE Consistent(conn, list) /\ Configured /\ Answered
  BY PartsOfInvariant
<1>1. conn = [s \in Slots |-> NoConn] /\ list.members = {} /\ list = EmptyList
  BY DEF Init, EmptyList
<1>2. Stored(conn, list)
  BY <1>1 DEF Stored, ListOf, EmptyList
<1>3. Ordered(conn, list) /\ Kept(conn, list)
  BY <1>1 DEF Ordered, Kept
<1>4. Configured
  <2>1. PICK half : half = AssemblyLength[OwnerPoint.cfg] \div 2
    OBVIOUS
  <2>2. half \in Nat /\ 2 * half = AssemblyLength[OwnerPoint.cfg]
    BY <2>1, PointsAssumption
  <2>3. config = [i \in 1 .. half |-> 0]
    BY <2>1 DEF Init
  <2>4. Len(config) = half
    BY <2>2, <2>3
  <2> QED
    BY <2>2, <2>4 DEF Configured, Init
<1>5. Answered
  BY DEF Init, NoAnswer, Answered, SuccessMeansOpen, CloseEndsTriad
<1> QED
  BY <1>2, <1>3, <1>4, <1>5 DEF Consistent

(* Every step keeps IInv and the configuration of the connections.         *)
LEMMA StepKeeps == IInv /\ [Next]_vars => IInv' /\ (ConfigStep \/ UNCHANGED vars)
<1> SUFFICES ASSUME IInv, [Next]_vars PROVE IInv' /\ (ConfigStep \/ UNCHANGED vars)
  OBVIOUS
<1>1. Consistent(conn, list) /\ Configured
  BY PartsOfInvariant
<1>2. ASSUME Consistent(conn', list'), Answered', UNCHANGED <<dummy, config>>
      PROVE  IInv' /\ ConfigStep
  <2>1. Configured'
    BY <1>1, <1>2 DEF Configured
  <2>2. IInv'
    BY <1>2, <2>1 DEF IInv, TypeOK, NewestEstablished, OwnerPointKept, OwnPaths,
       SharedProductionAgrees, Consistent, Stored, Ordered, Kept, Agree, Configured, Answered
  <2> QED
    BY <1>2, <2>2 DEF ConfigStep
<1>3. ASSUME NEW r \in Requests, ForwardOpen(r) PROVE IInv' /\ ConfigStep
  BY <1>3, ForwardOpenKeeps
<1>4. ASSUME NEW t \in Triads, SearchConnectionData(t) PROVE IInv' /\ ConfigStep
  <2>1. UNCHANGED <<dummy, conn, list, config>> /\ answer'.kind = "search"
    BY <1>4 DEF SearchConnectionData
  <2>2. Answered'
    BY <2>1 DEF Answered, SuccessMeansOpen, CloseEndsTriad
  <2> QED
    BY <1>1, <1>2, <2>1, <2>2
<1>5. ASSUME NEW t \in Triads, NEW owner \in BOOLEAN, ForwardClose(t, owner)
      PROVE  IInv' /\ ConfigStep
  <2>1. Consistent(conn', list') /\ Answered'
    BY <1>1, <1>5, CloseKeeps
  <2> QED
    BY <1>2, <1>5, <2>1 DEF ForwardClose
<1>6. ASSUME NEW s \in list.members, TimeOut(s) PROVE IInv' /\ ConfigStep
  <2>1. Consistent(conn', list') /\ Answered'
    BY <1>1, <1>6, TimeOutKeeps
  <2> QED
    BY <1>2, <1>6, <2>1 DEF TimeOut
<1>7. CASE UNCHANGED vars
  BY <1>7 DEF vars, IInv, TypeOK, NewestEstablished, OwnerPointKept, OwnPaths,
     SharedProductionAgrees, SuccessMeansOpen, CloseEndsTriad
<1> QED
  BY <1>3, <1>4, <1>5, <1>6, <1>7 DEF Next

-----------------------------------------------------------------------------
(* The inductive invariant holds in every reachable state.                 *)
THEOREM Invariance == Spec => []IInv
<1>1. Init => IInv
  BY InitHolds
<1>2. IInv /\ [Next]_vars => IInv'
  BY StepKeeps
<1> QED
  BY <1>1, <1>2, PTL DEF Spec

(* connection_list holds every connection of the pools once, whatever      *)
(* requests, closes and time-outs come in which order.                     *)
THEOREM TypeCorrect == Spec => []TypeOK
<1>1. IInv => TypeOK
  BY DEF IInv
<1> QED
  BY <1>1, Invariance, PTL

(* HandleNonNullNonMatchingForwardOpenRequest answers success only with    *)
(* the request's own connection at the head of the list.                   *)
THEOREM SuccessOpen == Spec => []SuccessMeansOpen
<1>1. IInv => SuccessMeansOpen
  BY DEF IInv
<1> QED
  BY <1>1, Invariance, PTL

(* The comparison with the connections of the list that have the produced  *)
(* path keeps all connections of one multicast production in agreement.    *)
THEOREM ProductionShared == Spec => []SharedProductionAgrees
<1>1. IInv => SharedProductionAgrees
  BY DEF IInv
<1> QED
  BY <1>1, Invariance, PTL

(* ForwardClose, which closes the first connection with the triad, leaves  *)
(* no established connection with it.                                      *)
THEOREM CloseEnds == Spec => []CloseEndsTriad
<1>1. IInv => CloseEndsTriad
  BY DEF IInv
<1> QED
  BY <1>1, Invariance, PTL

(* HandleConfigData never changes the configuration under a connection     *)
(* that stays open.                                                        *)
THEOREM ConfigKept == Spec => ConfigKeptForConnections
<1>1. IInv /\ [Next]_vars =>
         [config' # config =>
            \A s \in list.members \cap list'.members :
                conn'[s] = conn[s] => conn[s].cfg # OwnerPoint.cfg]_vars
  BY StepKeeps DEF ConfigStep
<1> QED
  BY <1>1, Invariance, PTL DEF Spec, ConfigKeptForConnections

(* ParseConnectionPath and the one dummy: every IO connection has the      *)
(* connection points that the path of its own request names, whatever the  *)
(* paths of other requests left in the dummy.                              *)
THEOREM OwnPoints == Spec => []OwnConnectionPoints
<1>1. IInv => OwnConnectionPoints
  <2> SUFFICES ASSUME IInv, NEW s \in list.members \cap IoSlots
               PROVE  LET m == Message[conn[s].req]
                      IN /\ m.otot # "null" => NamesPoint(m.path, 1, conn[s].cons)
                         /\ m.ttoo # "null" =>
                               NamesPoint(m.path, IF m.otot = "null" THEN 1 ELSE 2, conn[s].prod)
    BY DEF OwnConnectionPoints
  <2>1. PICK r : r = conn[s].req
    OBVIOUS
  <2>2. r \in Requests
    <3>1. s \in Slots /\ conn[s] \in ConnectionObjects
      BY DEF IInv, TypeOK, ListOf
    <3> QED
      BY <2>1, <3>1 DEF ConnectionObjects
  <2>3. OwnPath(conn[s])
    BY DEF IInv, OwnPaths
  <2> QED
    BY <2>1, <2>2, <2>3, ParsedRequest DEF OwnPath, ConsFound, ProdFound
<1> QED
  BY <1>1, Invariance, PTL

-----------------------------------------------------------------------------
(* The retries after a refused size.  The parser never reports a size.     *)
NotSize(extended) == extended # "InvalidOToTConnectionSize"

(* The extended status after a step of the parser.                         *)
LEMMA StepsReportNoSize ==
    ASSUME NEW m, NEW p, IsParser(p), NotSize(p.extended)
    PROVE  /\ NotSize(ParseSize(m, p).extended) /\ NotSize(ParseKey(m, p).extended)
           /\ NotSize(ParsePit(m, p).extended) /\ NotSize(ParseClass(m, p).extended)
           /\ NotSize(ParseInstance(m, p).extended) /\ NotSize(ParseClass3(m, p).extended)
           /\ \A dir \in {"cons", "prod"} : NotSize(ParsePoint(m, p, dir).extended)
<1>1. ASSUME NEW q, IsParser(q), NEW general, NEW extended
      PROVE  Fails(q, general, extended).extended = extended
  BY <1>1 DEF Fails, IsParser, ParserFields
<1>2. ASSUME NEW q, IsParser(q), NEW n
      PROVE  Advance(q, n).extended = q.extended
  BY <1>2 DEF Advance, IsParser, ParserFields
<1>3. /\ NotSize("Success") /\ NotSize("none") /\ NotSize("InvalidSegmentType")
      /\ NotSize("InconsistentPathCombo") /\ NotSize("VendorIdOrProductcodeError")
      /\ NotSize("DeviceTypeError") /\ NotSize("RevisionMismatch")
  BY DEF NotSize
<1>4. PICK seg : seg = SegmentAt(m, p)
  OBVIOUS
<1>5. NotSize(ParseSize(m, p).extended)
  <2>1. ParseSize(m, p) \in {Fails(p, "Error", "Success"), Fails(p, "TooMuchData", "none"),
                             Fails(p, "NotEnoughData", "none"), p}
    BY DEF ParseSize
  <2> QED
    BY <1>1, <1>3, <2>1
<1>6. NotSize(ParseKey(m, p).extended)
  <2>1. PICK verdict : verdict = CheckElectronicKeyData(seg.value)
    OBVIOUS
  <2>2. NotSize(verdict)
    BY <1>3, <2>1 DEF CheckElectronicKeyData
  <2>3. ParseKey(m, p) \in {Fails(p, "NotEnoughData", "none"),
                            Fails(p, "ConnectionFailure", verdict), Advance(p, 5), p}
    BY <1>4, <2>1 DEF ParseKey
  <2> QED
    BY <1>1, <1>2, <1>3, <2>2, <2>3
<1>7. NotSize(ParsePit(m, p).extended)
  <2>1. [Advance(p, 1) EXCEPT !.pit = seg.value].extended = p.extended
    BY <1>2, AdvanceParser DEF IsParser, ParserFields
  <2>2. ParsePit(m, p) \in {[Advance(p, 1) EXCEPT !.pit = seg.value], p}
    BY <1>4 DEF ParsePit
  <2> QED
    BY <2>1, <2>2
<1>8. NotSize(ParseClass(m, p).extended)
  <2>1. [Advance(p, 1) EXCEPT !.class = seg.value].extended = p.extended
    BY <1>2, AdvanceParser DEF IsParser, ParserFields
  <2>2. ParseClass(m, p) \in {Fails(p, "ConnectionFailure", "InvalidSegmentType"),
                              Fails(p, "ConnectionFailure", "InconsistentPathCombo"),
                              [Advance(p, 1) EXCEPT !.class = seg.value]}
    BY <1>4 DEF ParseClass
  <2>3. /\ Fails(p, "ConnectionFailure", "InvalidSegmentType").extended = "InvalidSegmentType"
        /\ Fails(p, "ConnectionFailure", "InconsistentPathCombo").extended = "InconsistentPathCombo"
    BY <1>1
  <2> QED
    BY <1>3, <2>1, <2>2, <2>3
<1>9. NotSize(ParseInstance(m, p).extended)
  <2>1. PICK n : n = InstanceWords(seg.value)
    OBVIOUS
  <2>2. [Advance(p, n) EXCEPT !.instance = seg.value].extended = p.extended
    BY <1>2, AdvanceParser DEF IsParser, ParserFields
  <2>3. ParseInstance(m, p) \in {Fails(p, "ConnectionFailure", "InvalidSegmentType"),
                                 [Advance(p, n) EXCEPT !.instance = seg.value], p}
    BY <1>4, <2>1 DEF ParseInstance
  <2>4. Fails(p, "ConnectionFailure", "InvalidSegmentType").extended = "InvalidSegmentType"
    BY <1>1
  <2> QED
    BY <1>3, <2>2, <2>3, <2>4
<1>10. NotSize(ParseClass3(m, p).extended)
  <2>1. [p EXCEPT !.cfg = 1, !.prod = 1].extended = p.extended
    BY DEF IsParser, ParserFields
  <2>2. ParseClass3(m, p) \in {Fails(p, "ConnectionFailure", "InvalidSegmentType"),
                               Fails(p, "ConnectionFailure", "InconsistentPathCombo"),
                               [p EXCEPT !.cfg = 1, !.prod = 1]}
    BY DEF ParseClass3
  <2>3. /\ Fails(p, "ConnectionFailure", "InvalidSegmentType").extended = "InvalidSegmentType"
        /\ Fails(p, "ConnectionFailure", "InconsistentPathCombo").extended = "InconsistentPathCombo"
    BY <1>1
  <2> QED
    BY <1>3, <2>1, <2>2, <2>3
<1>11. ASSUME NEW dir \in {"cons", "prod"} PROVE NotSize(ParsePoint(m, p, dir).extended)
  <2>1. PICK w : w = [p EXCEPT ![dir] = seg.value]
    OBVIOUS
  <2>2. w.extended = p.extended /\ w = [f \in ParserFields |-> w[f]]
    BY <2>1 DEF IsParser, ParserFields
  <2>3. PICK n : n = InstanceWords(seg.value)
    OBVIOUS
  <2>4. /\ Fails(w, "ConnectionFailure", "InconsistentPathCombo").extended = "InconsistentPathCombo"
        /\ Advance(w, n).extended = p.extended
    BY <2>2 DEF Fails, Advance, ParserFields
  <2>5. ParsePoint(m, p, dir) \in {Fails(p, "ConnectionFailure", "InvalidSegmentType"),
                                   Fails(w, "ConnectionFailure", "InconsistentPathCombo"),
                                   Advance(w, n), p}
    BY <1>4, <2>1, <2>3 DEF ParsePoint
  <2> QED
    BY <1>1, <1>3, <2>4, <2>5
<1> QED
  BY <1>5, <1>6, <1>7, <1>8, <1>9, <1>10, <1>11

(* The extended status of a request after the parser.                      *)
LEMMA ParserReportsNoSize ==
    ASSUME NEW r \in Requests
    PROVE  NotSize(Parsed[r].extended)
<1>1. PICK m : m = Message[r]
  OBVIOUS
<1> DEFINE Fine(p) == IsParser(p) /\ NotSize(p.extended)
<1>2. PICK start : start = ParserStart(m)
  OBVIOUS
<1>3. Fine(start)
  BY <1>2, StartParser DEF ParserStart, NotSize
<1>4. ASSUME NEW p, Fine(p)
      PROVE  /\ Fine(ParseSize(m, p)) /\ Fine(ParseKey(m, p)) /\ Fine(ParsePit(m, p))
             /\ Fine(ParseClass(m, p)) /\ Fine(ParseInstance(m, p)) /\ Fine(ParseClass3(m, p))
             /\ Fine(ParsePoint(m, p, "cons")) /\ Fine(ParsePoint(m, p, "prod"))
  <2>1. IsParser(ParsePoint(m, p, "cons")) /\ IsParser(ParsePoint(m, p, "prod"))
    BY <1>1, <1>4, PointRead DEF PointResult
  <2>2. IsParser(ParseClass3(m, p))
    BY <1>4, RouterStep
  <2> QED
    BY <1>1, <1>4, <2>1, <2>2, ObjectSteps, StepsReportNoSize
<1> HIDE DEF Fine
<1>5. ASSUME NEW p, Fine(p), NEW q, Fine(q) PROVE Fine(Then(p, q))
  BY <1>5 DEF Then
<1>6. PICK object : object = ParseObject(m)
  OBVIOUS
<1>7. Fine(object)
  <2>1. PICK sized : sized = ParseSize(m, start)
    OBVIOUS
  <2>2. PICK keyed : keyed = Then(sized, ParseKey(m, sized))
    OBVIOUS
  <2>3. PICK inhibited : inhibited = Then(keyed, ParsePit(m, keyed))
    OBVIOUS
  <2>4. PICK classed : classed = Then(inhibited, ParseClass(m, inhibited))
    OBVIOUS
  <2>5. Fine(sized)
    BY <1>3, <1>4, <2>1
  <2>6. Fine(keyed)
    BY <1>4, <1>5, <2>2, <2>5
  <2>7. Fine(inhibited)
    BY <1>4, <1>5, <2>3, <2>6
  <2>8. Fine(classed)
    BY <1>4, <1>5, <2>4, <2>7
  <2>9. object = Then(classed, ParseInstance(m, classed))
    BY <1>2, <1>6, <2>1, <2>2, <2>3, <2>4 DEF ParseObject
  <2> QED
    BY <1>4, <1>5, <2>8, <2>9
<1>8. CASE m.class = 3
  <2>1. Parsed[r] = Then(object, ParseClass3(m, object))
    BY <1>1, <1>6, <1>8 DEF Parsed, ParseConnectionPath
  <2> QED
    BY <1>4, <1>5, <1>7, <2>1 DEF Fine
<1>9. CASE m.class # 3
  <2>1. PICK named : named = [object EXCEPT !.cfg = object.instance]
    OBVIOUS
  <2>2. Fine(named)
    BY <1>7, <2>1 DEF Fine, IsParser, ParserFields
  <2>3. PICK consumed : consumed = Then(object, ParsePoint(m, named, "cons"))
    OBVIOUS
  <2>4. Fine(consumed)
    BY <1>4, <1>5, <1>7, <2>2, <2>3
  <2>5. PICK points : points = Then(consumed, ParsePoint(m, consumed, "prod"))
    OBVIOUS
  <2>6. Fine(points) /\ points = ParsePoints(m)
    BY <1>4, <1>5, <1>6, <2>1, <2>3, <2>4, <2>5 DEF ParsePoints
  <2>7. PICK rest : rest = ParseRest(m, points)
    OBVIOUS
  <2>8. rest = points \/ rest.extended \in {"offset", "Success"}
    <3>1. CASE points.left = 0
      BY <2>7, <3>1 DEF ParseRest
    <3>2. CASE points.left # 0
      <4>1. PICK q :
               rest = [points EXCEPT !.at = q.at, !.left = q.left, !.general = q.general,
                                     !.extended = IF q.extended = "offset" THEN "offset" ELSE "Success",
                                     !.pit = q.pit, !.config = q.config]
        BY <2>7, <3>2, Zenon DEF ParseRest
      <4>2. rest.extended = IF q.extended = "offset" THEN "offset" ELSE "Success"
        BY <2>6, <4>1 DEF Fine, IsParser, ParserFields
      <4> QED
        BY <4>2
    <3> QED
      BY <3>1, <3>2
  <2>9. Parsed[r] \in {points, rest}
    BY <1>1, <1>9, <2>6, <2>7 DEF Parsed, ParseConnectionPath, Then
  <2> QED
    BY <2>6, <2>8, <2>9 DEF Fine, NotSize
<1> QED
  BY <1>8, <1>9

(* The size that a response names is the one of the assembly that the      *)
(* request consumes into, with the header that its own size has room for.  *)
HintNamed ==
    answer.kind = "open" /\ answer.extended = "InvalidOToTConnectionSize" =>
        LET r == answer.req
            m == Message[r]
            length == AssemblyLength[Parsed[r].cons]
        IN /\ r \in Requests /\ m.otot # "null"
           /\ Parsed[r].general = "Success" /\ Parsed[r].class = AssemblyClass
           /\ Parsed[r].cons \in DOMAIN AssemblyLength
           /\ answer.hint = length + HeaderSize(m.osize, m.class, length, ConsumeRunIdle)

(* Only the check of the consumed size reports it.                         *)
LEMMA CheckNamesSize ==
    ASSUME NEW m, NEW p, NEW l, NEW checks, checks = IoChecks(m, p, l), ~NotSize(checks.error)
    PROVE  LET length == AssemblyLength[p.cons] IN
           /\ m.otot # "null"
           /\ checks.hint = length + HeaderSize(m.osize, m.class, length, ConsumeRunIdle)
<1>1. PICK shared : shared = SharedMismatch(m, p, l, ProductionInhibitTime(m, p))
  OBVIOUS
<1>2. NotSize(shared)
  <2>1. \A c, pit : NotSize(SharedParameters(m, c, pit))
    BY DEF SharedParameters, NotSize
  <2>2. NotSize("Success")
    BY DEF NotSize
  <2> QED
    BY <1>1, <2>1, <2>2 DEF SharedMismatch
<1>3. PICK data : data = HandleConfigData(p, l)
  OBVIOUS
<1>4. NotSize(data.error)
  BY <1>3 DEF HandleConfigData, NotSize
<1> DEFINE Refusal(error, hint) == [error |-> error, hint |-> hint, config |-> config]
           length == AssemblyLength[p.cons]
           size == length + HeaderSize(m.osize, m.class, length, ConsumeRunIdle)
<1>5. PICK tsize :
         \/ checks = Refusal("ProductionInhibitTimerGreaterThanRpi", 0)
         \/ m.otot # "null" /\ checks = Refusal("InvalidOToTConnectionSize", size)
         \/ checks = Refusal(shared, 0)
         \/ checks = Refusal("InvalidTToOConnectionSize", tsize)
         \/ checks = [error |-> data.error, hint |-> 0, config |-> data.config]
  BY <1>1, <1>3 DEF IoChecks
<1> HIDE DEF length, size
<1>6. m.otot # "null" /\ checks = Refusal("InvalidOToTConnectionSize", size)
  BY <1>2, <1>4, <1>5 DEF NotSize
<1>7. checks.hint = size
  BY <1>6
<1> QED
  BY <1>6, <1>7 DEF length, size

(* A response to Forward Open with another extended status.                *)
LEMMA OtherAnswered ==
    ASSUME NEW r, NEW triad, NEW general, NEW extended, NEW hint, NotSize(extended),
           answer' = ForwardOpenResponse(r, triad, general, extended, hint)
    PROVE  HintNamed'
<1>1. answer'.extended \in {"none", extended}
  BY DEF ForwardOpenResponse
<1>2. answer'.extended # "InvalidOToTConnectionSize"
  BY <1>1 DEF NotSize
<1> QED
  BY <1>2 DEF HintNamed

(* The entry of a request is refused for other reasons.                    *)
LEMMA EntryNamesNoSize ==
    ASSUME NEW m, NEW p
    PROVE  NotSize(GetIoConnectionForConnectionData(m, p).error)
<1>1. NotSize(GetExclusiveOwnerConnection(m, p).error)
  BY DEF GetExclusiveOwnerConnection, Found, NotFound, NotSize
<1>2. \A slots, point : NotSize(GetSharedConnection(m, p, slots, point).error)
  BY DEF GetSharedConnection, Found, NotFound, NotSize
<1>3. NotSize(NotFound("InconsistentPathCombo").error)
  BY DEF NotFound, NotSize
<1>4. GetIoConnectionForConnectionData(m, p) \in
         {GetExclusiveOwnerConnection(m, p), GetSharedConnection(m, p, InputOnly, InputPoint),
          GetSharedConnection(m, p, ListenOnly, ListenPoint), NotFound("InconsistentPathCombo")}
  BY DEF GetIoConnectionForConnectionData
<1> QED
  BY <1>1, <1>2, <1>3, <1>4

(* EstablishIoConnection: the path of the dummy is the one of the request  *)
(* when the request has a consuming direction.                             *)
LEMMA IoNamesSize ==
    ASSUME Configured, Consistent(conn, list), NEW r \in Requests,
           NEW paths, paths = PathsOf(Parsed[r]),
           NEW p, p = [Parsed[r] EXCEPT !.cons = paths.cons, !.prod = paths.prod],
           EstablishIoConnection(r, p)
    PROVE  HintNamed'
<1>1. PICK m : m = Message[r]
  OBVIOUS
<1>2. OwnConnection(r, p)
  BY DummyCopied
<1>3. /\ p.general = "Success" /\ p.class = AssemblyClass
      /\ Parsed[r].general = "Success" /\ Parsed[r].class = AssemblyClass
  BY <1>2 DEF EstablishIoConnection, OwnConnection
<1>4. m.otot # "null" => p.cons = Parsed[r].cons
  <2>1. PICK pit : pit = p.pit
    OBVIOUS
  <2>2. OwnPath(NewConnection(r, p, pit))
    BY <1>2, <1>3 DEF OwnConnection
  <2> QED
    BY <1>1, <2>2 DEF OwnPath, NewConnection
<1>5. NotSize("Success")
  BY DEF NotSize
<1>6. PICK found : found = GetIoConnectionForConnectionData(m, p)
  OBVIOUS
<1>7. CASE answer' = Failure(r, "ConnectionFailure", found.error)
  BY <1>1, <1>6, <1>7, EntryNamesNoSize, OtherAnswered DEF Failure
<1>8. CASE answer' = Failure(r, "ConnectionFailure", "Success")
  BY <1>5, <1>8, OtherAnswered DEF Failure
<1>9. ASSUME NEW s, NEW c, NEW l, NEW rest, Opened(r, s, c, l, rest)
      PROVE  HintNamed'
  BY <1>5, <1>9, OtherAnswered DEF Opened
<1>10. ASSUME found.slot # 0, NEW l, NEW checks, checks = IoChecks(m, p, l),
              answer' = ForwardOpenResponse(r, m.triad, "ConnectionFailure",
                                            checks.error, checks.hint)
       PROVE  HintNamed'
  <2>1. CASE NotSize(checks.error)
    BY <1>10, <2>1, OtherAnswered
  <2>2. CASE ~NotSize(checks.error)
    <3>1. PICK length : length = AssemblyLength[Parsed[r].cons]
      OBVIOUS
    <3>2. /\ m.otot # "null"
          /\ checks.hint = length + HeaderSize(m.osize, m.class, length, ConsumeRunIdle)
      BY <1>4, <1>10, <2>2, <3>1, CheckNamesSize
    <3>3. answer'.req = r /\ answer'.hint = checks.hint
      BY <1>10 DEF ForwardOpenResponse
    <3>4. Parsed[r].cons \in DOMAIN AssemblyLength
      <4>1. Usable(p, found.slot)
        BY <1>6, <1>10, EntryFound
      <4>2. p.cons \in DOMAIN AssemblyLength
        BY <4>1 DEF Usable
      <4> QED
        BY <1>4, <3>2, <4>2
    <3> QED
      BY <1>1, <1>3, <3>1, <3>2, <3>3, <3>4 DEF HintNamed
  <2> QED
    BY <2>1, <2>2
<1> QED
  BY <1>1, <1>6, <1>7, <1>8, <1>9, <1>10 DEF EstablishIoConnection

(* The arithmetic of the retries: a size that is too small for the header  *)
(* is answered once without the header, then with it.                      *)
LEMMA SecondRetryFits ==
    ASSUME NEW size \in Nat, NEW class, NEW length \in Nat, NEW runIdle,
           NEW hint, hint = length + HeaderSize(size, class, length, runIdle)
    PROVE  HintFits(hint, class, length, runIdle)
<1> SUFFICES ~WrongSize(length + HeaderSize(hint, class, length, runIdle), class, length, runIdle)
  BY DEF HintFits
<1>1. PICK count : count = IF class = 1 THEN 2 ELSE 0
  OBVIOUS
<1>2. count \in Nat
  BY <1>1
<1>3. \A n : HeaderSize(n, class, length, runIdle)
               = count + (IF runIdle /\ n - count > 0 /\ length > 0 THEN 4 ELSE 0)
  BY <1>1 DEF HeaderSize
<1>4. CASE runIdle /\ length > 0
  <2>1. \A n : HeaderSize(n, class, length, runIdle) = count + (IF n - count > 0 THEN 4 ELSE 0)
    BY <1>3, <1>4
  <2>2. length > 0
    BY <1>4
  <2>3. hint \in Nat /\ hint - count > 0
    BY <1>2, <2>1, <2>2
  <2>4. HeaderSize(hint, class, length, runIdle) = count + 4
    BY <2>1, <2>3
  <2>5. PICK n : n = length + (count + 4)
    OBVIOUS
  <2>6. n - count > 0
    BY <1>2, <2>2, <2>5
  <2>7. HeaderSize(n, class, length, runIdle) = count + 4
    BY <2>1, <2>6
  <2> QED
    BY <1>2, <2>4, <2>5, <2>7 DEF WrongSize
<1>5. CASE ~(runIdle /\ length > 0)
  <2>1. \A n : HeaderSize(n, class, length, runIdle) = count
    BY <1>2, <1>3, <1>5
  <2> QED
    BY <1>2, <2>1 DEF WrongSize
<1> QED
  BY <1>4, <1>5

(* Every response names the size that way.                                 *)
LEMMA HintStep ==
    ASSUME IInv, Next
    PROVE  HintNamed'
<1>1. Configured /\ Consistent(conn, list)
  BY PartsOfInvariant
<1>2. ASSUME NEW r \in Requests, ForwardOpen(r) PROVE HintNamed'
  <2>1. CASE RefuseForwardOpen(r)
    <3>1. NotSize(RefusedAtOnce(Message[r]))
      BY DEF RefusedAtOnce, NotSize
    <3> QED
      BY <2>1, <3>1, OtherAnswered DEF RefuseForwardOpen, Failure
  <2>2. ASSUME dummy' = PathsOf(Parsed[r]),
               NEW p \in {[Parsed[r] EXCEPT !.cons = dummy'.cons, !.prod = dummy'.prod]},
               RefusePath(r, p) \/ EstablishClass3Connection(r, p) \/ EstablishIoConnection(r, p)
        PROVE  HintNamed'
    <3>1. PICK paths : paths = PathsOf(Parsed[r])
      OBVIOUS
    <3>2. p = [Parsed[r] EXCEPT !.cons = paths.cons, !.prod = paths.prod]
      BY <2>2, <3>1
    <3>3. NotSize(p.extended)
      <4>1. p.extended = Parsed[r].extended
        BY <3>2, ParsedRequest DEF IsParser, ParserFields
      <4> QED
        BY <4>1, ParserReportsNoSize
    <3>4. /\ NotSize("InconsistentPathCombo") /\ NotSize("NoMoreConnectionsAvailable")
          /\ NotSize("Success")
      BY DEF NotSize
    <3>5. CASE RefusePath(r, p)
      BY <3>3, <3>4, <3>5, OtherAnswered DEF RefusePath, Failure
    <3>6. CASE EstablishClass3Connection(r, p)
      BY <3>4, <3>6, OtherAnswered DEF EstablishClass3Connection, Opened, Failure
    <3>7. CASE EstablishIoConnection(r, p)
      BY <1>1, <3>1, <3>2, <3>7, IoNamesSize
    <3> QED
      BY <2>2, <3>5, <3>6, <3>7
  <2> QED
    BY <1>2, <2>1, <2>2 DEF ForwardOpen
<1>3. ASSUME NEW t, SearchConnectionData(t) PROVE HintNamed'
  BY <1>3 DEF SearchConnectionData, HintNamed
<1>4. ASSUME NEW t, NEW owner, ForwardClose(t, owner) PROVE HintNamed'
  BY <1>4 DEF ForwardClose, HintNamed
<1>5. ASSUME NEW s, TimeOut(s) PROVE HintNamed'
  BY <1>5 DEF TimeOut, NoAnswer, HintNamed
<1> QED
  BY <1>2, <1>3, <1>4, <1>5 DEF Next

(* An originator that follows the sizes that EstablishIoConnection names   *)
(* has the right size with the second retry, for every length of an        *)
(* assembly and every size that it started with.                           *)
THEOREM SizeHint == Spec => []SizeHintConverges
<1>1. Init => HintNamed
  BY DEF Init, NoAnswer, HintNamed
<1>2. IInv /\ HintNamed /\ [Next]_vars => HintNamed'
  <2>1. ASSUME HintNamed, UNCHANGED vars PROVE HintNamed'
    BY <2>1 DEF HintNamed, vars
  <2> QED
    BY <2>1, HintStep
<1>3. HintNamed => SizeHintConverges
  <2> SUFFICES ASSUME HintNamed, answer.kind = "open",
                      answer.extended = "InvalidOToTConnectionSize"
               PROVE  SizeHintConverges
    BY DEF SizeHintConverges
  <2>1. PICK r : r = answer.req
    OBVIOUS
  <2>2. PICK length : length = AssemblyLength[Parsed[r].cons]
    OBVIOUS
  <2>3. PICK class : class = Message[r].class
    OBVIOUS
  <2>4. /\ r \in Requests /\ Message[r].otot # "null"
        /\ Parsed[r].general = "Success" /\ Parsed[r].class = AssemblyClass
        /\ Parsed[r].cons \in DOMAIN AssemblyLength
        /\ answer.hint = length + HeaderSize(Message[r].osize, class, length, ConsumeRunIdle)
    BY <2>1, <2>2, <2>3 DEF HintNamed
  <2>5. length \in Nat
    BY <2>2, <2>4, PointsAssumption
  <2>6. Message[r].osize \in Nat
    BY <2>4, MessagesAssumption DEF Message
  <2>7. HintFits(answer.hint, class, length, ConsumeRunIdle)
    BY <2>4, <2>5, <2>6, SecondRetryFits
  <2>8. NamesPoint(Message[r].path, 1, Parsed[r].cons)
    BY <2>4, ParsedRequest DEF ConsFound
  <2> QED
    BY <2>1, <2>2, <2>3, <2>4, <2>7, <2>8 DEF SizeHintConverges
<1> QED
  BY <1>1, <1>2, <1>3, Invariance, PTL DEF Spec
=============================================================================
