------------------------- MODULE FcgiReceivedProofs -------------------------
(***************************************************************************)
(* What the web server receives from FcgiOutput, second part: the closing  *)
(* records, write(), flush and finish, and the theorems that every byte is *)
(* received in the order it was put, in well-formed records, and that the  *)
(* request ends after all of them.                                         *)
(***************************************************************************)
EXTENDS FcgiRecordProofs

-----------------------------------------------------------------------------
(* The wire z is x and closing records: the content of the streams is the  *)
(* same.                                                                   *)
Closes(x, z, p) ==
  /\ z \in Seq(Byte) /\ Complete(z) /\ Safe(z, p)
  /\ \A t \in Streams : Reached(z, t, Len(z)) = Reached(x, t, Len(x))

(* The wire y is x and the end of stream s. *)
EofSent(x, y, s, p) ==
  /\ Closes(x, y, p) /\ Unended(y) /\ Eofs(y, s) # {}
  /\ \A t \in Streams : t # s => Eofs(y, t) = Eofs(x, t)

(* The empty record WriteCloseRecords writes ends stream s. *)
LEMMA EofAppended ==
  ASSUME NEW x \in Seq(Byte), NEW s \in Streams, NEW p, Complete(x), Safe(x, p), Unended(x),
         Eofs(x, s) = {}, Reached(x, s, Len(x)) = p[s],
         NEW h, h = Header(s, 0, 0), NEW y, y = x \o h
  PROVE  EofSent(x, y, s, p)
<1>1. h \in Seq(Byte) /\ IsRecord(h) /\ h[1].v = [type |-> s, clen |-> 0, plen |-> 0]
  BY CloseRecords, Zenon
<1>2. PICK v : v = h[1].v
  OBVIOUS
<1>3. v.type = s /\ v.clen = 0 /\ v.type # "end"
  BY <1>1, <1>2 DEF Streams
<1>4. Complete(x \o h) /\ Safe(x \o h, p)
  <2>1. v.type \in Streams => Eofs(x, v.type) = {}
    BY <1>3
  <2>2. v.type \in Streams /\ v.clen = 0 => Reached(x, v.type, Len(x)) = p[v.type]
    BY <1>3
  <2>3. v.type = "end" => Eofs(x, "out") # {}
    BY <1>3
  <2>4. v.type \in Streams =>
          \A i \in 1..v.clen : h[Unit + i].v = Reached(x, v.type, Len(x)) + i
    BY <1>3
  <2>5. h \in Seq(Byte) /\ IsRecord(h)
    BY <1>1
  <2> QED BY <1>2, <2>1, <2>2, <2>3, <2>4, <2>5, SafeAppended, Zenon
<1>5. y \in Seq(Byte)
  BY <1>1, Joined, Zenon
<1>6. /\ v.type \in Streams => Unended(y)
      /\ \A t \in Streams :
           /\ v.type # t \/ v.clen = 0 => Reached(y, t, Len(y)) = Reached(x, t, Len(x))
           /\ v.type # t \/ v.clen # 0 => Eofs(y, t) = Eofs(x, t)
           /\ v.type = t /\ v.clen = 0 => Eofs(y, t) # {}
  BY <1>1, <1>2, Appended, ZenonT(30)
<1>7. Unended(y) /\ Eofs(y, s) # {} /\ \A t \in Streams : t # s => Eofs(y, t) = Eofs(x, t)
  BY <1>3, <1>6, Zenon
<1>8. \A t \in Streams : Reached(y, t, Len(y)) = Reached(x, t, Len(x))
  BY <1>3, <1>6, Zenon
<1> QED BY <1>4, <1>5, <1>7, <1>8, Zenon DEF Closes, EofSent

(* The end of the request. *)
LEMMA EndAppended ==
  ASSUME NEW x \in Seq(Byte), NEW p, Complete(x), Safe(x, p), Unended(x),
         Eofs(x, "out") # {}, NEW z, z = x \o EndRequest
  PROVE  /\ Closes(x, z, p) /\ Ended(z)
         /\ \A t \in Streams : Eofs(z, t) = Eofs(x, t)
<1>1. PICK e : e = EndRequest
  OBVIOUS
<1>2. e \in Seq(Byte) /\ IsRecord(e) /\ e[1].v = [type |-> "end", clen |-> Unit, plen |-> 0]
  BY <1>1, CloseRecords, Zenon
<1>3. PICK v : v = e[1].v
  OBVIOUS
<1>4. v.type = "end" /\ v.type \notin Streams
  BY <1>2, <1>3 DEF Streams
<1>5. Complete(x \o e) /\ Safe(x \o e, p)
  <2>1. v.type \in Streams => Eofs(x, v.type) = {}
    BY <1>4
  <2>2. v.type \in Streams /\ v.clen = 0 => Reached(x, v.type, Len(x)) = p[v.type]
    BY <1>4
  <2>3. v.type = "end" => Eofs(x, "out") # {}
    OBVIOUS
  <2>4. v.type \in Streams =>
          \A i \in 1..v.clen : e[Unit + i].v = Reached(x, v.type, Len(x)) + i
    BY <1>4
  <2>5. e \in Seq(Byte) /\ IsRecord(e)
    BY <1>2
  <2> QED BY <1>3, <2>1, <2>2, <2>3, <2>4, <2>5, SafeAppended, Zenon
<1>6. z \in Seq(Byte)
  BY <1>1, <1>2, Joined, Zenon
<1>7. /\ v.type = "end" => Ended(z)
      /\ \A t \in Streams :
           /\ v.type # t \/ v.clen = 0 => Reached(z, t, Len(z)) = Reached(x, t, Len(x))
           /\ v.type # t \/ v.clen # 0 => Eofs(z, t) = Eofs(x, t)
  BY <1>1, <1>2, <1>3, Appended, Zenon
<1>8. /\ Ended(z)
      /\ \A t \in Streams : Reached(z, t, Len(z)) = Reached(x, t, Len(x)) /\ Eofs(z, t) = Eofs(x, t)
  BY <1>4, <1>7, Zenon
<1> QED BY <1>1, <1>5, <1>6, <1>8, Zenon DEF Closes

-----------------------------------------------------------------------------
(* The calls q2 are q with a call of FCGX_PutStr with the bytes e on stream s above. *)
PutsOver(q2, s, e, q) ==
  /\ q2 \in Seq(Frame) /\ q2 # <<>> /\ Head(q2).s = s
  /\ Bytes(q2) = e /\ Raw(q2) = e \o Bytes(q)
  /\ Recorded(q2, TRUE)

(* What a call of FCGX_PutStr above the calls q still has to put. *)
LEMMA PutOver ==
  ASSUME NEW s \in Streams, NEW e \in Seq(Byte), NEW q \in Seq(Frame),
         NEW q2, q2 = Over(Call("put", s, e), q)
  PROVE  PutsOver(q2, s, e, q)
<1>1. PICK p : p = Call("put", s, e)
  OBVIOUS
<1>2. p \in Frame
  BY <1>1, CallType, Zenon
<1>3. p.op = "put" /\ p.s = s /\ p.arg = e
  BY <1>1 DEF Call
<1>4. q2 \in Seq(Frame) /\ q2 # <<>> /\ Head(q2) = p /\ Tail(q2) = q
  BY <1>1, <1>2, OverCalls, Zenon
<1>5. Bytes(q2) = e /\ \A raw : raw => Recorded(q2, raw)
  BY <1>3, <1>4, FirstCall, Zenon
<1>7. Recorded(q2, TRUE)
  BY <1>5, Zenon
<1>6. Raw(q2) = e \o Bytes(q)
  BY <1>3, <1>4, RawPut, Zenon
<1> QED BY <1>3, <1>4, <1>5, <1>6, <1>7, Zenon DEF PutsOver

(* The state before WriteCloseRecords, and the closing of stream s. *)
LEMMA CloseStart ==
  ASSUME Good, WriteCloseRecords, NEW s, s = Head(stack).s, NEW x, x = Wire,
         NEW l, l = Over(Write(s), Rest(s))
  PROVE  /\ s \in Streams /\ Closing(s) /\ ~st[s].rawWrite /\ ~st["out"].rawWrite
         /\ Tail(stack) = l /\ offset = 0 /\ st[s].buf \in Seq(Byte)
         /\ x = sock \o st[s].buf /\ x \in Seq(Byte)
         /\ Complete(x) /\ Safe(x, put) /\ Unended(x) /\ Eofs(x, s) = {}
         /\ Reached(x, s, Len(x)) = put[s]
         /\ ToPut(stack, s, st[s]) = <<>> /\ Away(stack, s, st[s])
<1>1. stack # <<>> /\ Head(stack).op = "closeRecords"
  BY DEF WriteCloseRecords, Top
<1>2. s \in Streams /\ Closing(s) /\ ~st[s].rawWrite /\ Tail(stack) = l
  BY <1>1, AtCloseRecords, Zenon DEF Good, Top
<1>3. ~st["out"].rawWrite
  BY <1>2 DEF Closing, Streams
<1>4. /\ st[s].buf \in Seq(Byte) /\ offset = 0 /\ put[s] \in Nat /\ st[s] \in Writer
      /\ Wire = WireOf(sock, stack, st[s], offset)
      /\ Held(Wire, s, put[s], stack, st[s])
  BY <1>1, GoodStream
<1>5. Bytes(stack) = <<>> /\ Waiting(stack) = stack /\ Recorded(stack, st[s].rawWrite)
  BY <1>1, FirstCall, Zenon
<1>6. ToPut(stack, s, st[s]) = <<>> /\ Away(stack, s, st[s])
  <2>1. ToPut(stack, s, st[s]) = Bytes(Waiting(stack)) /\ Away(stack, s, st[s])
    BY <1>1, <1>2, <1>5, AtHead, Zenon
  <2> QED BY <1>5, <2>1, Zenon
<1>7. x = sock \o st[s].buf /\ x \in Seq(Byte)
  <2>1. sock \in Seq(Byte) /\ 0 \in Nat
    BY DEF Good
  <2>2. WireOf(sock, stack, st[s], 0) = sock \o SubSeq(st[s].buf, 0 + 1, Len(st[s].buf))
    <3>1. PICK w \in Writer : w = st[s] /\ ~w.rawWrite /\ Recorded(stack, w.rawWrite)
      BY <1>2, <1>4, <1>5, Zenon
    <3>2. stack # <<>>
      BY <1>1, Zenon
    <3>3. WireOf(sock, stack, w, 0) = sock \o SubSeq(w.buf, 0 + 1, Len(w.buf))
      BY <2>1, <3>1, <3>2, WireRecorded, Zenon
    <3> QED BY <3>1, <3>3, Zenon
  <2>3. SubSeq(st[s].buf, 0 + 1, Len(st[s].buf)) = st[s].buf
    BY <1>4, Whole, Zenon
  <2>4. x = sock \o st[s].buf
    BY <1>4, <2>2, <2>3, Zenon
  <2>5. PICK f : f = st[s].buf
    OBVIOUS
  <2>6. f \in Seq(Byte)
    BY <1>4, <2>5
  <2>7. sock \o f \in Seq(Byte)
    BY <2>1, <2>6, Joined, Zenon
  <2> QED BY <2>4, <2>5, <2>7, Zenon
<1>8. Complete(x) /\ Safe(x, put) /\ Unended(x)
  BY <1>3, Zenon DEF Good, Content
<1>9. Eofs(x, s) = {} /\ Reached(x, s, Len(x)) = put[s] - Len(<<>>)
  BY <1>2, <1>4, <1>6, Zenon DEF Held
<1>10. put[s] - Len(<<>>) = put[s]
  BY <1>4
<1> QED BY <1>2, <1>3, <1>4, <1>6, <1>7, <1>8, <1>9, <1>10, Zenon

(* The content after WriteCloseRecords, when the wire is z. *)
LEMMA CloseDone ==
  ASSUME Good, NEW s \in Streams, s = Head(stack).s, stack # <<>>, NEW x, x = Wire,
         ToPut(stack, s, st[s]) = <<>>, Away(stack, s, st[s]),
         st' = [st EXCEPT ![s].rawWrite = TRUE], put' = put,
         stack' # <<>>, Head(stack').s = s, NEW z, Wire' = z, Closes(x, z, put),
         \A t \in Streams : t # s => Eofs(z, t) = Eofs(x, t),
         s = "out" => Ended(z), s # "out" => Unended(z) /\ ~st["out"].rawWrite
  PROVE  Content'
<1>1. st \in [Streams -> Writer] /\ "out" \in Streams
  BY DEF Good, Inv, Types, Streams
<1>2. /\ st'[s] = [st[s] EXCEPT !.rawWrite = TRUE]
      /\ \A t \in Streams : t # s => st'[t] = st[t]
  BY <1>1, Zenon
<1>3. /\ st'[s].rawWrite /\ st'[s].isClosed = st[s].isClosed
      /\ st'[s].wasFCloseCalled = st[s].wasFCloseCalled
  <2>1. st[s] \in Writer
    BY <1>1
  <2> QED BY <1>2, <2>1 DEF Writer
<1>4. \A t \in Streams : Held(x, t, put[t], stack, st[t])
  BY Zenon DEF Good, Content
<1>5. Held(z, s, put[s], stack', st'[s])
  <2>1. ToPut(stack', s, st'[s]) = <<>> /\ Away(stack', s, st'[s])
    BY <1>3, AtHead, Zenon
  <2>2. st[s].isClosed => st[s].wasFCloseCalled
    BY <1>4, Zenon DEF Held
  <2>3. Reached(z, s, Len(z)) = Reached(x, s, Len(x))
    BY Zenon DEF Closes
  <2> QED BY <1>3, <1>4, <2>1, <2>2, <2>3, HeldKept, ZenonT(30)
<1>6. ASSUME NEW t \in Streams, t # s PROVE Held(z, t, put[t], stack', st'[t])
  <2>1. Reached(z, t, Len(z)) = Reached(x, t, Len(x)) /\ Eofs(z, t) = Eofs(x, t)
    BY <1>6, Zenon DEF Closes
  <2>2. Head(stack).s # t /\ Head(stack').s # t
    BY <1>6
  <2>3. Held(x, t, put[t], stack, st[t]) /\ st'[t] = st[t]
    BY <1>2, <1>4, <1>6, Zenon
  <2> QED BY <2>1, <2>2, <2>3, HeldAside, Zenon
<1>7. \A t \in Streams : Held(z, t, put[t], stack', st'[t])
  BY <1>5, <1>6, Zenon
<1>8. IF st'["out"].rawWrite THEN Ended(z) ELSE Unended(z)
  <2>1. CASE s = "out"
    BY <1>3, <2>1
  <2>2. CASE s # "out"
    BY <1>1, <1>2, <2>2, SMTT(30)
  <2> QED BY <2>1, <2>2
<1>9. Complete(z) /\ Safe(z, put)
  BY DEF Closes
<1> QED BY <1>7, <1>8, <1>9, Zenon DEF Content

(* WriteCloseRecords. *)
LEMMA CloseData == Good /\ WriteCloseRecords => Content'
<1> SUFFICES ASSUME Good, WriteCloseRecords PROVE Content'
  OBVIOUS
<1>0. PICK s, x : s = Head(stack).s /\ x = Wire
  OBVIOUS
<1>1. PICK l : l = Over(Write(s), Rest(s))
  OBVIOUS
<1>2. /\ s \in Streams /\ Closing(s) /\ ~st[s].rawWrite /\ ~st["out"].rawWrite
      /\ Tail(stack) = l /\ offset = 0 /\ st[s].buf \in Seq(Byte)
      /\ x = sock \o st[s].buf /\ x \in Seq(Byte)
      /\ Complete(x) /\ Safe(x, put) /\ Unended(x) /\ Eofs(x, s) = {}
      /\ Reached(x, s, Len(x)) = put[s]
      /\ ToPut(stack, s, st[s]) = <<>> /\ Away(stack, s, st[s])
  BY <1>0, <1>1, CloseStart, Zenon
<1>3. PICK h, p : h = Header(s, 0, 0) /\ p = put
  OBVIOUS
<1>4. PICK unused, calls :
        /\ unused = (s = "err" /\ st[s].buf = <<>> /\ ~st[s].isAnythingWritten)
        /\ calls = IF nWriters = 1 THEN Over(Call("put", s, EndRequest), l) ELSE l
  OBVIOUS
<1>5. /\ st' = [st EXCEPT ![s].rawWrite = TRUE]
      /\ stack' = IF unused THEN calls ELSE Over(Call("put", s, h), calls)
      /\ UNCHANGED <<offset, sock, broken, put, phase, flushes>>
  BY <1>0, <1>2, <1>3, <1>4, Zenon DEF WriteCloseRecords
<1>6. /\ l \in Seq(Frame) /\ l # <<>> /\ Head(l).s = s
      /\ Bytes(l) = <<>> /\ Raw(l) = <<>> /\ Recorded(l, TRUE)
  BY <1>1, <1>2, LastWrite, Zenon
<1>7. h \in Seq(Byte) /\ EndRequest \in Seq(Byte)
  BY <1>2, <1>3, CloseRecords, Zenon
<1>8. sock \in Seq(Byte) /\ sock' = sock /\ offset' = 0 /\ stack # <<>>
  BY <1>2, <1>5 DEF Good, WriteCloseRecords, Top
<1>9. st'[s].buf = st[s].buf /\ st'[s].rawWrite = TRUE
  BY <1>2, <1>5 DEF Good, Inv, Types, Writer
<1>10. ASSUME NEW e \in Seq(Byte), stack' # <<>>, Head(stack').s = s, Recorded(stack', TRUE),
              Raw(stack') = e
       PROVE  Wire' = x \o e
  <2>1. Wire' = WireOf(sock, stack', st'[s], 0)
    BY <1>8, <1>10 DEF Wire
  <2>2. Recorded(stack', st'[s].rawWrite) /\ st'[s].rawWrite
    BY <1>9, <1>10, Zenon
  <2>3. WireOf(sock, stack', st'[s], 0) = x \o e
    <3>1. PICK k, f, w, q : k = sock /\ f = st[s].buf /\ w = st'[s] /\ q = stack'
      OBVIOUS
    <3>2. /\ k \in Seq(Byte) /\ f \in Seq(Byte) /\ x = k \o f /\ q # <<>> /\ w.rawWrite
          /\ w.buf = f /\ Recorded(q, w.rawWrite) /\ Raw(q) = e
          /\ e \in Seq(Byte)
      BY <1>2, <1>8, <1>9, <1>10, <2>2, <3>1, Zenon
    <3>3. WireOf(k, q, w, 0) = k \o (SubSeq(w.buf, 0 + 1, Len(w.buf)) \o Raw(q))
      BY <3>2, Zenon DEF WireOf, Unsent
    <3>4. SubSeq(f, 0 + 1, Len(f)) = f
      BY <3>2, Whole, Zenon
    <3>5. (k \o f) \o e = k \o (f \o e)
      BY <3>2, ConcatAssoc, Zenon
    <3>6. WireOf(k, q, w, 0) = x \o e
      BY <3>2, <3>3, <3>4, <3>5, Zenon
    <3> QED BY <3>1, <3>6, Zenon
  <2> QED BY <2>1, <2>3, Zenon
<1>11. Closes(x, x, put)
  BY <1>2, Zenon DEF Closes
<1>12. CASE s = "err"
  <2>1. calls = l /\ s # "out"
    BY <1>2, <1>4, <1>12 DEF Closing
  <2>2. CASE unused
    <3>1. stack' = l
      BY <1>5, <2>1, <2>2, Zenon
    <3>2. <<>> \in Seq(Byte) /\ x \o <<>> = x
      <4>1. x \o <<>> = x
        BY <1>2, ConcatEmpty, Zenon
      <4> QED BY <4>1
    <3>3. Wire' = x
      BY <1>6, <1>10, <3>1, <3>2, Zenon
    <3> QED BY <1>0, <1>2, <1>5, <1>6, <1>8, <1>11, <2>1, <3>1, <3>3, CloseDone, Zenon
  <2>3. CASE ~unused
    <3>1. stack' = Over(Call("put", s, h), l)
      BY <1>5, <2>1, <2>3, Zenon
    <3>2. /\ stack' # <<>> /\ Head(stack').s = s /\ Recorded(stack', TRUE)
          /\ Raw(stack') = h \o Bytes(l)
      <4>1. s \in Streams /\ h \in Seq(Byte) /\ l \in Seq(Frame)
        BY <1>2, <1>6, <1>7
      <4>2. PutsOver(stack', s, h, l)
        BY <3>1, <4>1, PutOver, Zenon
      <4> QED BY <4>2, Zenon DEF PutsOver
    <3>3. Raw(stack') = h
      <4>1. h \o <<>> = h
        BY <1>7, ConcatEmpty, Zenon
      <4> QED BY <1>6, <3>2, <4>1, Zenon
    <3>4. PICK z : z = x \o h
      BY Zenon
    <3>5. Wire' = z
      BY <1>7, <1>10, <3>2, <3>3, <3>4, Zenon
    <3>6. /\ Closes(x, z, put) /\ Unended(z)
          /\ \A t \in Streams : t # s => Eofs(z, t) = Eofs(x, t)
      <4>1. Safe(x, p) /\ Reached(x, s, Len(x)) = p[s]
        BY <1>2, <1>3
      <4>2. /\ Closes(x, z, p) /\ Unended(z)
            /\ \A t \in Streams : t # s => Eofs(z, t) = Eofs(x, t)
        <5>1. /\ x \in Seq(Byte) /\ s \in Streams /\ Complete(x) /\ Unended(x)
              /\ Eofs(x, s) = {} /\ h = Header(s, 0, 0)
          BY <1>2, <1>3
        <5>2. EofSent(x, z, s, p)
          BY <3>4, <4>1, <5>1, EofAppended, Zenon
        <5> QED BY <5>2, Zenon DEF EofSent
      <4> QED BY <1>3, <4>2
    <3> QED BY <1>0, <1>2, <1>5, <1>8, <2>1, <3>2, <3>5, <3>6, CloseDone, Zenon
  <2> QED BY <2>2, <2>3
<1>13. CASE s = "out"
  <2>1. PICK c : c = Over(Call("put", s, EndRequest), l)
    OBVIOUS
  <2>2. stack' = Over(Call("put", s, h), c)
    <3>1. ~unused /\ nWriters = 1
      <4>1. s # "err"
        BY <1>13
      <4>2. nWriters = 1
        BY <1>2, <1>13 DEF Closing
      <4> QED BY <1>4, <4>1, <4>2, Zenon
    <3> QED BY <1>4, <1>5, <2>1, <3>1, Zenon
  <2>3. c \in Seq(Frame) /\ Bytes(c) = EndRequest
    <3>1. s \in Streams /\ EndRequest \in Seq(Byte) /\ l \in Seq(Frame)
      BY <1>2, <1>6, <1>7, SMTT(30)
    <3>2. PICK r : r = EndRequest
      OBVIOUS
    <3>3. PutsOver(c, s, r, l)
      BY <2>1, <3>1, <3>2, PutOver, Zenon
    <3> QED BY <3>2, <3>3, Zenon DEF PutsOver
  <2>4. /\ stack' # <<>> /\ Head(stack').s = s /\ Recorded(stack', TRUE)
        /\ Raw(stack') = h \o Bytes(c)
    <3>1. s \in Streams /\ h \in Seq(Byte) /\ c \in Seq(Frame)
      BY <1>2, <1>7, <2>3, SMTT(30)
    <3>2. PutsOver(stack', s, h, c)
      BY <2>2, <3>1, PutOver, Zenon
    <3> QED BY <3>2, Zenon DEF PutsOver
  <2>5. PICK y, e, z : y = x \o h /\ e = h \o EndRequest /\ z = y \o EndRequest
    BY Zenon
  <2>6. e \in Seq(Byte) /\ y \in Seq(Byte)
    BY <1>2, <1>7, <2>5, Joined, Zenon
  <2>7. Wire' = x \o e
    BY <1>10, <2>3, <2>4, <2>5, <2>6, Zenon
  <2>8. Wire' = z
    <3>1. (x \o h) \o EndRequest = x \o (h \o EndRequest)
      BY <1>2, <1>7, ConcatAssoc, Zenon
    <3> QED BY <2>5, <2>7, <3>1, Zenon
  <2>9. /\ Closes(x, y, p) /\ Unended(y) /\ Eofs(y, s) # {}
        /\ \A t \in Streams : t # s => Eofs(y, t) = Eofs(x, t)
    <3>1. Safe(x, p) /\ Reached(x, s, Len(x)) = p[s]
      BY <1>2, <1>3
    <3>2. /\ x \in Seq(Byte) /\ s \in Streams /\ Complete(x) /\ Unended(x)
          /\ Eofs(x, s) = {} /\ h = Header(s, 0, 0) /\ y = x \o h
      BY <1>2, <1>3, <2>5
    <3>3. EofSent(x, y, s, p)
      BY <3>1, <3>2, EofAppended, Zenon
    <3> QED BY <3>3, Zenon DEF EofSent
  <2>10. /\ Closes(y, z, p) /\ Ended(z) /\ \A t \in Streams : Eofs(z, t) = Eofs(y, t)
    <3>1. Complete(y) /\ Safe(y, p) /\ Unended(y) /\ Eofs(y, "out") # {}
      BY <1>13, <2>9, Zenon DEF Closes
    <3> QED BY <2>5, <2>6, <3>1, EndAppended, Zenon
  <2>11. Closes(x, z, p) /\ \A t \in Streams : t # s => Eofs(z, t) = Eofs(x, t)
    BY <2>9, <2>10, Zenon DEF Closes
  <2>12. /\ s \in Streams /\ ToPut(stack, s, st[s]) = <<>> /\ Away(stack, s, st[s])
         /\ put' = put /\ Closes(x, z, put) /\ Ended(z)
         /\ stack' # <<>> /\ Head(stack').s = s
    BY <1>2, <1>3, <1>5, <2>4, <2>10, <2>11, Zenon
  <2> QED BY <1>0, <1>5, <1>8, <1>13, <2>8, <2>11, <2>12, CloseDone, ZenonT(30)
<1> QED BY <1>2, <1>12, <1>13 DEF Streams

-----------------------------------------------------------------------------
(* The bytes that calls have to put. *)
LEMMA BytesType ==
  ASSUME NEW q \in Seq(Frame)
  PROVE  Bytes(q) \in Seq(Byte) /\ Under(q) \in Seq(Frame) /\ Waiting(q) \in Seq(Frame)
<1>1. <<>> \in Seq(Byte) /\ <<>> \in Seq(Frame)
  OBVIOUS
<1>2. q # <<>> => Head(q) \in Frame /\ Tail(q) \in Seq(Frame)
  OBVIOUS
<1>3. q # <<>> /\ Head(q).op = "put" => Head(q).arg \in Seq(Byte)
  BY <1>2 DEF Frame
<1> QED BY <1>1, <1>2, <1>3, Zenon DEF Bytes, Under, Waiting

(* The closing records that calls have to put. *)
LEMMA RawType ==
  ASSUME NEW q \in Seq(Frame)
  PROVE  Raw(q) \in Seq(Byte)
<1>1. PICK a, b : a = Waiting(q) /\ b = Under(a)
  OBVIOUS
<1>2. a \in Seq(Frame) /\ Bytes(a) \in Seq(Byte) /\ b \in Seq(Frame)
  BY <1>1, BytesType, Zenon
<1>3. Bytes(b) \in Seq(Byte)
  BY <1>2, BytesType, Zenon
<1>4. PICK c, d : c = Bytes(a) /\ d = Bytes(b)
  OBVIOUS
<1>5. c \in Seq(Byte) /\ d \in Seq(Byte)
  BY <1>2, <1>3, <1>4, Zenon
<1>6. c \o d \in Seq(Byte)
  BY <1>5, Joined, Zenon
<1> QED BY <1>1, <1>4, <1>6, Zenon DEF Raw

(* What is not sent yet is a sequence of bytes. *)
LEMMA UnsentType ==
  ASSUME NEW q \in Seq(Frame), NEW w \in Writer, NEW o \in Nat, o <= Len(w.buf)
  PROVE  Unsent(q, w, o) \in Seq(Byte)
<1>1. PICK f : f = w.buf
  OBVIOUS
<1>2. f \in Seq(Byte) /\ o <= Len(f)
  BY <1>1 DEF Writer
<1>3. PICK a : a = IF Recorded(q, w.rawWrite) THEN SubSeq(f, o + 1, Len(f)) ELSE <<>>
  BY Zenon
<1>4. PICK b : b = IF w.rawWrite THEN Raw(q) ELSE <<>>
  OBVIOUS
<1>5. SubSeq(f, o + 1, Len(f)) \in Seq(Byte)
  BY <1>2, Parts, Zenon
<1>6. <<>> \in Seq(Byte)
  OBVIOUS
<1>7. a \in Seq(Byte)
  BY <1>3, <1>5, <1>6, Zenon
<1>8. b \in Seq(Byte)
  BY <1>4, <1>6, RawType, Zenon
<1>9. a \o b \in Seq(Byte)
  BY <1>7, <1>8, Joined, Zenon
<1> QED BY <1>1, <1>3, <1>4, <1>9, Zenon DEF Unsent

(* What the web server has received is the beginning of what it is sent. *)
LEMMA SockSafe ==
  ASSUME Inv, sock \in Seq(Byte), Content
  PROVE  Safe(sock, put) /\ \A s \in Streams : Eofs(sock, s) \subseteq Eofs(Wire, s)
<1>1. Safe(Wire, put)
  BY DEF Content
<1>2. CASE stack = <<>>
  <2>1. Wire = sock
    BY <1>2, Zenon DEF Wire, WireOf
  <2> QED BY <1>1, <2>1, Zenon
<1>3. CASE stack # <<>>
  <2>1. PICK s : s = Head(stack).s
    OBVIOUS
  <2>2. stack \in Seq(Frame) /\ st \in [Streams -> Writer] /\ offset \in Nat
    BY DEF Inv, Types
  <2>3. s \in Streams
    BY <1>3, <2>1, <2>2, Returned, Zenon
  <2>4. PICK w, f : w = st[s] /\ f = w.buf
    OBVIOUS
  <2>5. w \in Writer
    BY <2>2, <2>3, <2>4
  <2>6. Len(f) \in Nat
    BY <2>4, <2>5 DEF Writer
  <2>7. offset > 0 => offset <= Len(f)
    BY <2>1, <2>4 DEF Inv, WritesInside
  <2>8. offset <= Len(f)
    BY <2>2, <2>6, <2>7
  <2>9. PICK u : u = Unsent(stack, w, offset)
    OBVIOUS
  <2>10. u \in Seq(Byte)
    BY <2>2, <2>4, <2>5, <2>8, <2>9, UnsentType, Zenon
  <2>11. Wire = sock \o u
    BY <1>3, <2>1, <2>4, <2>9, Zenon DEF Wire, WireOf
  <2>12. PICK p : p = put
    OBVIOUS
  <2>13. Safe(sock \o u, p)
    BY <1>1, <2>11, <2>12
  <2>14. Safe(sock, p) /\ \A t \in Streams : Eofs(sock, t) \subseteq Eofs(sock \o u, t)
    BY <2>10, <2>13, SafePrefix, Zenon
  <2> QED BY <2>11, <2>12, <2>14
<1> QED BY <1>2, <1>3

(* While the application may put, no stream has been ended. *)
LEMMA OpenEofs ==
  ASSUME Content, Opened
  PROVE  \A s \in Streams : Eofs(Wire, s) = {}
BY Zenon DEF Content, Opened, Held

-----------------------------------------------------------------------------
(* The bytes c are those of a and those of b. *)
Split(a, b, c) == a \in Seq(Byte) /\ b \in Seq(Byte) /\ a \o b = c

(* Two pieces that hold the bytes of a whole in their places make it up.   *)
LEMMA Spliced ==
  ASSUME NEW a \in Seq(Byte), NEW b \in Seq(Byte), NEW c \in Seq(Byte),
         Len(c) = Len(a) + Len(b), \A i \in 1..Len(a) : a[i] = c[i],
         \A i \in 1..Len(b) : b[i] = c[Len(a) + i]
  PROVE  Split(a, b, c)
<1> HIDE DEF Byte
<1>1. PICK e : e = a \o b
  BY Zenon
<1>2. /\ e \in Seq(Byte) /\ Len(a) \in Nat /\ Len(b) \in Nat /\ Len(e) = Len(a) + Len(b)
      /\ \A i \in 1..Len(a) : e[i] = a[i]
      /\ \A i \in 1..Len(b) : e[Len(a) + i] = b[i]
  BY <1>1, Joined, Zenon
<1>3. ASSUME NEW i \in 1..Len(c) PROVE e[i] = c[i]
  <2>1. CASE i \in 1..Len(a)
    BY <1>2, <2>1, Zenon
  <2>2. CASE i \notin 1..Len(a)
    <3>1. PICK j \in 1..Len(b) : i = Len(a) + j
      <4>1. i - Len(a) \in 1..Len(b) /\ i = Len(a) + (i - Len(a))
        BY <1>2, <2>2
      <4> QED BY <4>1, Zenon
    <3> QED BY <1>2, <3>1, Zenon
  <2> QED BY <2>1, <2>2, Zenon
<1>4. e = c
  BY <1>2, <1>3
<1> QED BY <1>1, <1>4, Zenon DEF Split

(* One write(2) of n bytes of the buffer f from offset o: what is sent and *)
(* what is left of it then.                                                *)
LEMMA OneWrite ==
  ASSUME NEW f \in Seq(Byte), NEW o \in Nat, NEW n \in Nat, o + n <= Len(f),
         NEW a, a = SubSeq(f, o + 1, o + n), NEW b, b = SubSeq(f, (o + n) + 1, Len(f)),
         NEW c, c = SubSeq(f, o + 1, Len(f))
  PROVE  Split(a, b, c)
<1> HIDE DEF Byte
<1>1. a \in Seq(Byte) /\ b \in Seq(Byte) /\ c \in Seq(Byte)
  OBVIOUS
<1>2. Len(f) \in Nat /\ o + n \in o..Len(f)
  OBVIOUS
<1>3. /\ Len(a) = n /\ \A i \in 1..n : a[i] = f[o + i]
  BY <1>2
<1>4. /\ Len(b) = Len(f) - (o + n) /\ \A i \in 1..(Len(f) - (o + n)) : b[i] = f[(o + n) + i]
  BY <1>2
<1>5. /\ Len(c) = Len(f) - o /\ \A i \in 1..(Len(f) - o) : c[i] = f[o + i]
  BY <1>2
<1>6. Len(c) = Len(a) + Len(b)
  <2>1. PICK l \in Nat : l = Len(f)
    BY <1>2
  <2>2. Len(a) = n /\ Len(b) = l - (o + n) /\ Len(c) = l - o
    BY <1>3, <1>4, <1>5, <2>1, Zenon
  <2>3. n + (l - (o + n)) = l - o
    BY <2>1
  <2> QED BY <2>2, <2>3, Zenon
<1>7. ASSUME NEW i \in 1..Len(a) PROVE a[i] = c[i]
  <2>1. i \in 1..n /\ i \in 1..(Len(f) - o)
    BY <1>2, <1>3
  <2> QED BY <1>3, <1>5, <2>1, Zenon
<1>8. ASSUME NEW i \in 1..Len(b) PROVE b[i] = c[Len(a) + i]
  <2>1. Len(a) + i \in 1..(Len(f) - o) /\ (o + n) + i = o + (Len(a) + i)
    BY <1>2, <1>3, <1>4, SMTT(30)
  <2>2. c[Len(a) + i] = f[o + (Len(a) + i)]
    BY <1>5, <2>1, Zenon
  <2>3. b[i] = f[(o + n) + i]
    BY <1>4, Zenon
  <2> QED BY <2>1, <2>2, <2>3, Zenon
<1> QED BY <1>1, <1>6, <1>7, <1>8, Spliced, Zenon

(* A write goes on. *)
LEMMA OsWriteData ==
  ASSUME Good, OsWrite, ~broken
  PROVE  Content' /\ sock' \in Seq(Byte)
<1>0. PICK s, k, f, o, r : /\ s = Head(stack).s /\ k = sock /\ f = st[s].buf /\ o = offset
                           /\ r = IF st[s].rawWrite THEN Raw(stack) ELSE <<>>
  OBVIOUS
<1>1. stack # <<>> /\ Head(stack).op = "write"
  BY DEF OsWrite, Top
<1>2. /\ s \in Streams /\ f \in Seq(Byte) /\ o \in Nat
      /\ st[s] \in Writer /\ Wire = WireOf(sock, stack, st[s], offset)
      /\ Held(Wire, s, put[s], stack, st[s])
  BY <1>0, <1>1, GoodStream, Zenon
<1>3. /\ st' = [st EXCEPT ![s].isAnythingWritten = TRUE]
      /\ stack' = stack /\ put' = put
      /\ \E n \in 1..(Len(f) - o) : sock' = k \o SubSeq(f, o + 1, o + n) /\ offset' = o + n
  BY <1>0, Zenon DEF OsWrite
<1>4. PICK n \in 1..(Len(f) - o) : sock' = k \o SubSeq(f, o + 1, o + n) /\ offset' = o + n
  BY <1>3, Zenon
<1>5. k \in Seq(Byte) /\ n \in Nat /\ o + n <= Len(f)
  <2>1. Len(f) \in Nat
    BY <1>2
  <2> QED BY <1>0, <1>2, <2>1 DEF Good
<1>6. r \in Seq(Byte)
  <2>1. stack \in Seq(Frame) /\ <<>> \in Seq(Byte)
    BY DEF Good, Inv, Types
  <2> QED BY <1>0, <2>1, RawType, Zenon
<1>7. PICK a, b, c : /\ a = SubSeq(f, o + 1, o + n) /\ b = SubSeq(f, (o + n) + 1, Len(f))
                     /\ c = SubSeq(f, o + 1, Len(f))
  BY Zenon
<1>8. (k \o a) \o (b \o r) = k \o (c \o r) /\ a \in Seq(Byte)
  <2>1. f \in Seq(Byte) /\ o \in Nat /\ n \in Nat /\ o + n <= Len(f)
    BY <1>2, <1>5
  <2>2. Split(a, b, c)
    BY <1>7, <2>1, OneWrite, Zenon
  <2>3. k \in Seq(Byte) /\ a \in Seq(Byte) /\ b \in Seq(Byte) /\ r \in Seq(Byte)
    BY <1>5, <1>6, <2>2, Zenon DEF Split
  <2>4. PICK d : d = b \o r
    BY Zenon
  <2>5. d \in Seq(Byte)
    BY <2>3, <2>4, Joined, Zenon
  <2>6. (k \o a) \o d = k \o (a \o d)
    BY <2>3, <2>5, ConcatAssoc, ZenonT(30)
  <2>7. (a \o b) \o r = a \o (b \o r)
    BY <2>3, ConcatAssoc, Zenon
  <2> QED BY <2>2, <2>3, <2>4, <2>6, <2>7, Zenon DEF Split
<1>9. /\ st'[s].buf = f /\ st'[s].rawWrite = st[s].rawWrite
      /\ st'[s].isClosed = st[s].isClosed /\ st'[s].wasFCloseCalled = st[s].wasFCloseCalled
      /\ \A t \in Streams : t # s => st'[t] = st[t]
  BY <1>0, <1>2, <1>3 DEF Good, Inv, Types, Writer
<1>10. Recorded(stack, st[s].rawWrite)
  BY <1>1, FirstCall, Zenon
<1>11. Wire = k \o (c \o r)
  BY <1>0, <1>1, <1>2, <1>7, <1>10, Zenon DEF WireOf, Unsent
<1>12. Wire' = (k \o a) \o (b \o r)
  <2>1. Wire' = WireOf(sock', stack, st'[s], offset')
    BY <1>0, <1>3, Zenon DEF Wire
  <2>2. sock' = k \o a /\ offset' = o + n
    BY <1>4, <1>7
  <2> QED BY <1>0, <1>1, <1>7, <1>9, <1>10, <2>1, <2>2, Zenon DEF WireOf, Unsent
<1>13. Wire' = Wire
  BY <1>8, <1>11, <1>12
<1>14. Held(Wire, s, put[s], stack', st'[s])
  <2>1. /\ ToPut(stack', s, st'[s]) = ToPut(stack, s, st[s])
        /\ Away(stack', s, st'[s]) <=> Away(stack, s, st[s])
    BY <1>3, <1>9, Zenon DEF ToPut, Away
  <2> QED BY <1>0, <1>2, <1>9, <2>1, Zenon DEF Held
<1>15. \A t \in Streams : Held(Wire, t, put[t], stack', st'[t])
  BY <1>3, <1>9, <1>14, Zenon DEF Good, Content
<1>16. st'["out"].rawWrite = st["out"].rawWrite
  BY <1>2, <1>9 DEF Streams
<1>17. Content'
  BY <1>3, <1>13, <1>15, <1>16, SameContent, Zenon DEF Good
<1>18. k \o a \in Seq(Byte)
  BY <1>5, <1>8, Joined, Zenon
<1> QED BY <1>4, <1>7, <1>17, <1>18

-----------------------------------------------------------------------------
(* An empty buffer of content, all that was put before being on the wire. *)
LEMMA BufferEmptied ==
  ASSUME NEW x, NEW s, NEW m, Reached(x, s, Len(x)) = m, m \in Nat
  PROVE  Buffered(x, s, m, Reserved)
BY ReservedType, FcgiOutputAssumption DEF Buffered

(* The end of EmptyBuffProc for a buffer of content. *)
LEMMA WrittenPlain ==
  ASSUME Good, Written, NEW s, s = Head(stack).s, Opened,
         NEW q, q = Tail(stack), q = <<>> \/ Putting(q, s, <<>>)
  PROVE  Content'
<1>1. stack # <<>> /\ Head(stack).op = "write"
  BY DEF Written, Top
<1>2. /\ s \in Streams /\ st[s] \in Writer /\ offset \in Nat
      /\ st[s].buf \in Seq(Byte)
      /\ Wire = WireOf(sock, stack, st[s], offset)
      /\ Held(Wire, s, put[s], stack, st[s])
  BY <1>1, GoodStream, Zenon
<1>3. ~st[s].rawWrite
  BY <1>2 DEF Opened
<1>4. /\ offset = Len(st[s].buf) /\ st' = [st EXCEPT ![s].buf = Reserved]
      /\ stack' = q /\ offset' = 0 /\ sock' = sock /\ put' = put
  BY <1>3, Zenon DEF Written, Return
<1>5. /\ st'[s].buf = Reserved /\ st'[s].rawWrite = st[s].rawWrite
      /\ st'[s].isClosed = st[s].isClosed
      /\ st'[s].wasFCloseCalled = st[s].wasFCloseCalled
      /\ \A t \in Streams : t # s => st'[t] = st[t]
      /\ st'["out"].rawWrite = st["out"].rawWrite
  BY <1>2, <1>4, ReservedType, OtherBuffer, Zenon DEF Good
<1>6. Recorded(stack, st[s].rawWrite) /\ Waiting(stack) = q
  BY <1>1, FirstCall, Zenon
<1>7. Wire = sock
  <2>1. Wire = sock \o SubSeq(st[s].buf, offset + 1, Len(st[s].buf))
    BY <1>1, <1>2, <1>3, <1>6, WireRecorded, Zenon DEF Good
  <2>2. PICK f : f = st[s].buf
    OBVIOUS
  <2>3. f \in Seq(Byte) /\ Len(f) \in Nat /\ offset = Len(f)
    BY <1>2, <1>4, <2>2
  <2>4. SubSeq(f, Len(f) + 1, Len(f)) = <<>>
    BY <2>3
  <2>5. sock \o <<>> = sock
    BY ConcatEmpty, Zenon DEF Good
  <2> QED BY <2>1, <2>2, <2>3, <2>4, <2>5, Zenon
<1>8. /\ q = <<>> \/ (Head(q).s = s /\ ~Recorded(q, st[s].rawWrite))
      /\ Waiting(q) = q
  <2>1. CASE q = <<>>
    BY <2>1, Zenon DEF Waiting
  <2>2. CASE Putting(q, s, <<>>)
    <3>1. q # <<>> /\ Head(q).op = "put" /\ Head(q).s = s
      BY <2>2, Zenon DEF Putting
    <3> QED BY <1>3, <3>1, FirstCall, Zenon
  <2> QED BY <2>1, <2>2
<1>9. Wire' = sock
  <2>1. Wire' = WireOf(sock, q, st'[Head(q).s], 0)
    BY <1>4 DEF Wire
  <2>2. PICK w : w = st'[Head(q).s]
    OBVIOUS
  <2>3. q = <<>> \/ (~w.rawWrite /\ ~Recorded(q, w.rawWrite))
    BY <1>3, <1>5, <1>8, <2>2, Zenon
  <2>4. sock \in Seq(Byte)
    BY DEF Good
  <2>5. WireOf(sock, q, w, 0) = sock
    BY <2>3, <2>4, WirePlain, Zenon
  <2> QED BY <2>1, <2>2, <2>5, Zenon
<1>10. ToPut(stack, s, st[s]) = Bytes(q) /\ Away(stack, s, st[s])
  BY <1>1, <1>3, <1>6, AtHead, Zenon
<1>11. ToPut(stack', s, st'[s]) = Bytes(q) /\ ~Away(stack', s, st'[s])
  <2>1. ~st'[s].rawWrite /\ stack' = q
    BY <1>3, <1>4, <1>5
  <2>2. CASE q = <<>>
    <3>1. Bytes(q) = <<>>
      BY <2>2, Zenon DEF Bytes
    <3> QED BY <2>1, <2>2, <3>1, Elsewhere, Zenon
  <2>3. CASE q # <<>>
    <3>1. Head(q).s = s /\ ~Recorded(q, st'[s].rawWrite)
      BY <1>5, <1>8, <2>3, Zenon
    <3>2. ToPut(q, s, st'[s]) = Bytes(Waiting(q)) /\ ~Away(q, s, st'[s])
      BY <2>1, <2>3, <3>1, AtHead, Zenon
    <3> QED BY <1>8, <2>1, <3>2, Zenon
  <2> QED BY <2>2, <2>3
<1>12. Held(Wire, s, put[s], stack', st'[s])
  <2>1. /\ Carried(Wire, s, put[s], Bytes(q))
        /\ Reached(Wire, s, Len(Wire)) = put[s] - Len(Bytes(q))
        /\ st[s].isClosed => st[s].wasFCloseCalled
        /\ ~st[s].rawWrite => Eofs(Wire, s) = {}
    BY <1>2, <1>10, Zenon DEF Held
  <2>2. put[s] - Len(Bytes(q)) \in Nat
    BY <2>1, Zenon DEF Carried
  <2>3. Buffered(Wire, s, put[s] - Len(Bytes(q)), Reserved)
    BY <2>1, <2>2, BufferEmptied, Zenon
  <2> QED BY <1>5, <1>11, <2>1, <2>3, Zenon DEF Held
<1>13. ASSUME NEW t \in Streams, t # s PROVE Held(Wire, t, put[t], stack', st'[t])
  <2>1. Held(Wire, t, put[t], stack, st[t]) /\ st'[t] = st[t]
    BY <1>5, <1>13, Zenon DEF Good, Content
  <2>2. (stack = <<>> \/ Head(stack).s # t) /\ (stack' = <<>> \/ Head(stack').s # t)
    BY <1>4, <1>8, <1>13
  <2> QED BY <2>1, <2>2, HeldElsewhere, Zenon
<1>14. \A t \in Streams : Held(Wire, t, put[t], stack', st'[t])
  BY <1>12, <1>13, Zenon
<1> QED BY <1>4, <1>5, <1>7, <1>9, <1>14, SameContent, Zenon DEF Good

(* The end of EmptyBuffProc for a buffer of closing records. *)
LEMMA WrittenRaw ==
  ASSUME Good, Written, NEW s, s = Head(stack).s, st[s].rawWrite,
         NEW q, q = Tail(stack), Waiting(q) = q, q # <<>>, Head(q).s = s
  PROVE  Content'
<1>1. stack # <<>> /\ Head(stack).op = "write"
  BY DEF Written, Top
<1>2. /\ s \in Streams /\ st[s] \in Writer /\ offset \in Nat /\ st[s].buf \in Seq(Byte)
      /\ Wire = WireOf(sock, stack, st[s], offset)
      /\ Held(Wire, s, put[s], stack, st[s])
  BY <1>1, GoodStream, Zenon
<1>3. PICK e : e = <<>>
  OBVIOUS
<1>4. /\ offset = Len(st[s].buf) /\ st' = [st EXCEPT ![s].buf = e]
      /\ stack' = q /\ offset' = 0 /\ sock' = sock /\ put' = put
  BY <1>3, Zenon DEF Written, Return
<1>5. /\ st'[s].buf = e /\ st'[s].rawWrite = st[s].rawWrite
      /\ st'[s].isClosed = st[s].isClosed
      /\ st'[s].wasFCloseCalled = st[s].wasFCloseCalled
      /\ \A t \in Streams : t # s => st'[t] = st[t]
      /\ st'["out"].rawWrite = st["out"].rawWrite
  <2>1. e \in Seq(Byte)
    BY <1>3
  <2> QED BY <1>2, <1>4, <2>1, OtherBuffer, Zenon DEF Good
<1>6. Recorded(stack, st[s].rawWrite) /\ Waiting(stack) = q
  BY <1>1, FirstCall, Zenon
<1>7. Raw(stack) = Raw(q)
  BY <1>6, Zenon DEF Raw
<1>8. Wire = sock \o (<<>> \o Raw(q))
  <2>1. PICK f : f = st[s].buf
    OBVIOUS
  <2>2. Wire = sock \o (SubSeq(f, offset + 1, Len(f)) \o Raw(stack))
    BY <1>1, <1>2, <1>6, <2>1, Zenon DEF WireOf, Unsent
  <2>3. f \in Seq(Byte) /\ Len(f) \in Nat /\ offset = Len(f)
    BY <1>2, <1>4, <2>1
  <2>4. SubSeq(f, Len(f) + 1, Len(f)) = <<>>
    BY <2>3
  <2> QED BY <1>7, <2>2, <2>3, <2>4, Zenon
<1>9. Wire' = sock \o (<<>> \o Raw(q))
  <2>1. Wire' = WireOf(sock, q, st'[s], 0)
    BY <1>4, Zenon DEF Wire
  <2>2. SubSeq(e, 0 + 1, Len(e)) = <<>>
    BY <1>3
  <2> QED BY <1>5, <2>1, <2>2, Zenon DEF WireOf, Unsent
<1>10. Wire' = Wire
  BY <1>8, <1>9, Zenon
<1>11. ASSUME NEW t \in Streams PROVE Held(Wire, t, put[t], stack', st'[t])
  <2>1. Held(Wire, t, put[t], stack, st[t])
    BY Zenon DEF Good, Content
  <2>2. CASE t = s
    <3>1. Held(Wire, s, put[s], stack', st'[s])
      <4>1. st[s].isClosed => st[s].wasFCloseCalled
        BY <1>2, Zenon DEF Held
      <4> QED BY <1>2, <1>5, <4>1, HeldRaw, Zenon
    <3> QED BY <2>2, <3>1, Zenon
  <2>3. CASE t # s
    <3>1. st'[t] = st[t] /\ Head(stack).s # t /\ Head(stack').s # t
      BY <1>4, <1>5, <2>3, Zenon
    <3> QED BY <2>1, <3>1, HeldElsewhere, Zenon
  <2> QED BY <2>2, <2>3
<1> QED BY <1>4, <1>5, <1>10, <1>11, SameContent, Zenon DEF Good

(* The end of EmptyBuffProc, wherever it was called. *)
LEMMA WrittenData == Good /\ Written => Content'
<1> SUFFICES ASSUME Good, Written PROVE Content'
  OBVIOUS
<1>1. PICK s, q : s = Head(stack).s /\ q = Tail(stack)
  BY Zenon
<1>2. /\ s \in Streams
      /\ \/ Opened /\ (q = <<>> \/ Putting(q, s, <<>>))
         \/ /\ Closing(s) /\ st[s].rawWrite
            /\ q = Rest(s) \/ \E l \in Last(s) : Putting(q, s, l)
  BY <1>1, AtWrite, Zenon DEF Good, Written
<1>3. CASE Opened /\ (q = <<>> \/ Putting(q, s, <<>>))
  BY <1>1, <1>3, WrittenPlain, Zenon
<1>4. CASE st[s].rawWrite /\ q = Rest(s)
  <2>1. q # <<>> /\ Head(q) = Call("closed", s, 0)
    BY <1>2, <1>4, RestCalls, Zenon
  <2>2. Head(q).op = "closed" /\ Head(q).s = s
    BY <2>1 DEF Call
  <2>3. Waiting(q) = q
    BY <2>1, <2>2, FirstCall, Zenon
  <2> QED BY <1>1, <1>4, <2>1, <2>2, <2>3, WrittenRaw, Zenon
<1>5. CASE st[s].rawWrite /\ \E l \in Last(s) : Putting(q, s, l)
  <2>1. q # <<>> /\ Head(q).op = "put" /\ Head(q).s = s
    BY <1>5, Zenon DEF Putting
  <2>2. Waiting(q) = q
    BY <2>1, FirstCall, Zenon
  <2> QED BY <1>1, <1>5, <2>1, <2>2, WrittenRaw, Zenon
<1> QED BY <1>2, <1>3, <1>4, <1>5, Zenon

-----------------------------------------------------------------------------
(* EmptyBuffProc is called on stream s, with the other stream at rest. *)
LEMMA EmptyStarts ==
  ASSUME NEW q, q # <<>>, Head(q).op = "empty", NEW s, Head(q).s = s, Bytes(Tail(q)) = <<>>,
         NEW w, ~w.rawWrite
  PROVE  ToPut(q, s, w) = <<>> /\ ~Away(q, s, w) /\ ~Recorded(q, w.rawWrite)
<1>1. Waiting(q) = Tail(q) /\ ~Recorded(q, w.rawWrite)
  BY FirstCall, Zenon
<1>2. ToPut(q, s, w) = Bytes(Waiting(q)) /\ ~Away(q, s, w)
  BY <1>1, AtHead, Zenon
<1> QED BY <1>1, <1>2, Zenon

(* FCGX_FFlush and FCGX_Finish_r call EmptyBuffProc. *)
LEMMA AppEmpties ==
  ASSUME Good, Opened, stack = <<>>, st' = st, put' = put, sock' = sock, offset' = offset,
         stack' # <<>>, Head(stack').op = "empty", NEW s \in Streams, Head(stack').s = s,
         Bytes(Tail(stack')) = <<>>
  PROVE  Content'
<1>1. ~st[s].rawWrite
  BY DEF Opened
<1>2. PICK q, w : q = stack' /\ w = st[s]
  OBVIOUS
<1>3. ToPut(q, s, w) = <<>> /\ ~Away(q, s, w) /\ ~Recorded(q, w.rawWrite)
  BY <1>1, <1>2, EmptyStarts, Zenon
<1>4. Wire = sock
  BY Zenon DEF Wire, WireOf
<1>5. Wire' = sock
  <2>1. Wire' = WireOf(sock, q, w, offset)
    BY <1>2, Zenon DEF Wire
  <2>2. sock \in Seq(Byte) /\ ~w.rawWrite
    BY <1>1, <1>2 DEF Good
  <2>3. WireOf(sock, q, w, offset) = sock
    BY <1>3, <2>2, WirePlain, Zenon
  <2> QED BY <2>1, <2>3
<1>6. Held(Wire, s, put[s], stack', st'[s])
  <2>1. Held(Wire, s, put[s], stack, w)
    BY <1>2, Zenon DEF Good, Content
  <2>2. ToPut(stack, s, w) = <<>> /\ ~Away(stack, s, w)
    BY <1>1, <1>2, Elsewhere, Zenon
  <2>3. Held(Wire, s, put[s], q, w)
    BY <1>3, <2>1, <2>2, Zenon DEF Held
  <2> QED BY <1>2, <2>3
<1>7. ASSUME NEW t \in Streams, t # s PROVE Held(Wire, t, put[t], stack', st'[t])
  <2>1. Held(Wire, t, put[t], stack, st[t]) /\ Head(stack').s # t
    BY <1>7, Zenon DEF Good, Content
  <2>2. Held(Wire, t, put[t], q, st[t])
    BY <1>2, <2>1, HeldElsewhere, Zenon
  <2> QED BY <1>2, <2>2
<1>8. \A t \in Streams : Held(Wire, t, put[t], stack', st'[t])
  BY <1>6, <1>7, Zenon
<1> QED BY <1>4, <1>5, <1>8, SameContent, Zenon DEF Good

(* FCGX_FFlush is called. *)
LEMMA FlushData == Good /\ AppFlush => Content'
<1> SUFFICES ASSUME Good, AppFlush PROVE Content'
  OBVIOUS
<1>1. /\ phase = "open" /\ stack = <<>> /\ st' = st /\ put' = put /\ sock' = sock
      /\ offset' = offset
  BY DEF AppFlush
<1>2. Opened
  BY <1>1, AtReturn DEF Good, Finished
<1>3. PICK s \in Streams : stack' = <<Call("empty", s, FALSE)>>
  BY Zenon DEF AppFlush
<1>4. /\ stack' # <<>> /\ Head(stack') = Call("empty", s, FALSE) /\ Tail(stack') = <<>>
  BY <1>3
<1>5. Head(stack').op = "empty" /\ Head(stack').s = s
  BY <1>4 DEF Call
<1>6. Bytes(Tail(stack')) = <<>>
  BY <1>4, Zenon DEF Bytes
<1> QED BY <1>1, <1>2, <1>4, <1>5, <1>6, AppEmpties, Zenon

(* FCGX_Finish_r is called. *)
LEMMA FinishData == Good /\ AppFinish => Content'
<1> SUFFICES ASSUME Good, AppFinish PROVE Content'
  OBVIOUS
<1>1. /\ phase = "open" /\ stack = <<>> /\ st' = st /\ put' = put /\ sock' = sock
      /\ offset' = offset
  BY DEF AppFinish
<1>2. Opened
  BY <1>1, AtReturn DEF Good, Finished
<1>3. PICK e, r : e = Call("empty", "err", TRUE) /\ r = Rest("err")
  BY Zenon
<1>4. stack' = Over(e, r)
  BY <1>3 DEF AppFinish, FClose, Rest
<1>5. "err" \in Streams
  BY DEF Streams
<1>6. r \in Seq(Frame) /\ Bytes(r) = <<>>
  BY <1>3, <1>5, RestCalls, RestBytes, Zenon
<1>7. stack' # <<>> /\ Head(stack') = e /\ Tail(stack') = r
  BY <1>4, <1>6, OverCalls, Zenon
<1>8. e.op = "empty" /\ e.s = "err"
  BY <1>3 DEF Call
<1>9. Head(stack').op = "empty" /\ Head(stack').s = "err" /\ Bytes(Tail(stack')) = <<>>
  BY <1>6, <1>7, <1>8, Zenon
<1> QED BY <1>1, <1>2, <1>5, <1>7, <1>9, AppEmpties, Zenon

-----------------------------------------------------------------------------
(* Nothing has been ended, so more may be put. *)
LEMMA MorePut ==
  ASSUME NEW x, NEW p, NEW p2, Safe(x, p), \A s \in Streams : Eofs(x, s) = {}
  PROVE  Safe(x, p2)
<1>1. Ends(x, p2)
  <2>1. \A s \in Streams : \A i : i \notin Eofs(x, s)
    OBVIOUS
  <2> QED BY <2>1, Zenon DEF Safe, Ends
<1> QED BY <1>1, Zenon DEF Safe

(* FCGX_PutStr is called with the next n bytes of stream s. *)
LEMMA PutBytes ==
  ASSUME NEW x, NEW s \in Streams, NEW m \in Nat, NEW n \in Nat, NEW buf,
         NEW c, c = <<>>, Carried(x, s, m, c), Buffered(x, s, m - Len(c), buf),
         NEW b, b = [i \in 1..n |-> B(s, m + i)]
  PROVE  Carried(x, s, m + n, b) /\ Buffered(x, s, (m + n) - Len(b), buf)
<1>1. Len(c) = 0 /\ m - 0 = m
  OBVIOUS
<1>2. Len(b) = n /\ \A i \in 1..n : b[i] = B(s, m + i)
  <2>1. DOMAIN b = 1..n
    OBVIOUS
  <2> QED BY <2>1
<1>3. (m + n) - Len(b) = m
  BY <1>2
<1>4. Reached(x, s, Len(x)) \in 0..m
  BY <1>1 DEF Carried
<1>5. Buffered(x, s, m, buf)
  BY <1>1
<1> HIDE DEF B
<1>6. Carried(x, s, m + n, b)
  BY <1>2, <1>3, <1>4, SMTT(30) DEF Carried
<1> QED BY <1>3, <1>5, <1>6

(* The application puts bytes. *)
LEMMA PutData == Good /\ AppPut => Content'
<1> SUFFICES ASSUME Good, AppPut PROVE Content'
  OBVIOUS
<1>1. /\ phase = "open" /\ stack = <<>> /\ st' = st /\ sock' = sock /\ offset' = offset
  BY DEF AppPut
<1>2. Opened
  BY <1>1, AtReturn DEF Good, Finished
<1>3. PICK s \in Streams, n \in 1..MaxPut :
         /\ stack' = <<Call("put", s, [i \in 1..n |-> B(s, put[s] + i)])>>
         /\ put' = [put EXCEPT ![s] = @ + n]
  BY Zenon DEF AppPut
<1>4. PICK b, m, w, q : /\ b = [i \in 1..n |-> B(s, put[s] + i)] /\ m = put[s] /\ w = st[s]
                        /\ q = stack'
  BY Zenon
<1>5. m \in Nat /\ n \in Nat /\ put'[s] = m + n
      /\ \A t \in Streams : t # s => put'[t] = put[t]
  BY <1>3, <1>4, FcgiOutputAssumption DEF Good, Inv, Types
<1>6. q # <<>> /\ Head(q) = Call("put", s, b)
  BY <1>3, <1>4
<1>7. Head(q).op = "put" /\ Head(q).s = s /\ Head(q).arg = b
  BY <1>6 DEF Call
<1>8. ~w.rawWrite
  BY <1>2, <1>4 DEF Opened
<1>9. Bytes(q) = b /\ Waiting(q) = q /\ ~Recorded(q, w.rawWrite)
  BY <1>6, <1>7, <1>8, FirstCall, Zenon
<1>10. ToPut(q, s, w) = b /\ ~Away(q, s, w)
  <2>1. s = Head(q).s
    BY <1>7
  <2>2. ToPut(q, s, w) = Bytes(Waiting(q)) /\ ~Away(q, s, w)
    BY <1>6, <1>8, <1>9, <2>1, AtHead, Zenon
  <2> QED BY <1>9, <2>2, Zenon
<1>11. Wire = sock
  BY <1>1, Zenon DEF Wire, WireOf
<1>12. Wire' = sock
  <2>1. Wire' = WireOf(sock, q, w, offset)
    BY <1>1, <1>4, <1>7, Zenon DEF Wire
  <2>2. sock \in Seq(Byte)
    BY DEF Good
  <2>3. WireOf(sock, q, w, offset) = sock
    BY <1>8, <1>9, <2>2, WirePlain, Zenon
  <2> QED BY <2>1, <2>3
<1>13. Held(Wire, s, m + n, q, w)
  <2>1. Held(Wire, s, m, stack, w)
    BY <1>4, Zenon DEF Good, Content
  <2>2. PICK c : c = <<>>
    OBVIOUS
  <2>3. ToPut(stack, s, w) = c /\ ~Away(stack, s, w)
    BY <1>1, <1>8, <2>2, Elsewhere, Zenon
  <2>4. /\ Carried(Wire, s, m, c) /\ Buffered(Wire, s, m - Len(c), w.buf)
        /\ w.isClosed => w.wasFCloseCalled
        /\ ~w.rawWrite => Eofs(Wire, s) = {}
    BY <2>1, <2>3, Zenon DEF Held
  <2>5. b = [i \in 1..n |-> B(s, m + i)]
    BY <1>4
  <2>6. Carried(Wire, s, m + n, b) /\ Buffered(Wire, s, (m + n) - Len(b), w.buf)
    BY <1>5, <2>2, <2>4, <2>5, PutBytes, Zenon
  <2> QED BY <1>10, <2>4, <2>6, Zenon DEF Held
<1>14. ASSUME NEW t \in Streams, t # s PROVE Held(Wire, t, put'[t], stack', st'[t])
  <2>1. Held(Wire, t, put[t], stack, st[t]) /\ Head(q).s # t
    BY <1>7, <1>14, Zenon DEF Good, Content
  <2>2. Held(Wire, t, put[t], q, st[t])
    BY <1>1, <2>1, HeldElsewhere, Zenon
  <2> QED BY <1>1, <1>4, <1>5, <1>14, <2>2, Zenon
<1>15. \A t \in Streams : Held(Wire, t, put'[t], stack', st'[t])
  BY <1>1, <1>4, <1>5, <1>13, <1>14, Zenon
<1>16. Safe(Wire, put')
  <2>1. \A t \in Streams : Eofs(Wire, t) = {}
    BY <1>2, OpenEofs, Zenon DEF Good
  <2>2. PICK x, p, p2 : x = Wire /\ p = put /\ p2 = put'
    OBVIOUS
  <2>3. Safe(x, p) /\ \A t \in Streams : Eofs(x, t) = {}
    BY <2>1, <2>2 DEF Good, Content
  <2>4. Safe(x, p2)
    BY <2>3, MorePut, Zenon
  <2> QED BY <2>2, <2>4
<1>17. Wire' = Wire
  BY <1>11, <1>12
<1> QED BY <1>1, <1>15, <1>16, <1>17, ZenonT(30) DEF Good, Content

(* FCGX_FClose of err returns to that of out, which returns to the server. *)
LEMMA ClosedData == Good /\ Closed => Content'
<1> SUFFICES ASSUME Good, Closed PROVE Content'
  OBVIOUS
<1>1. PICK s : s = Head(stack).s
  OBVIOUS
<1>2. stack # <<>> /\ Head(stack).op = "closed"
  BY DEF Closed, Top
<1>3. s \in Streams /\ Closing(s) /\ st[s].rawWrite /\ stack = Rest(s)
  BY <1>1, <1>2, AtClosed, Zenon DEF Good, Top
<1>4. /\ Wire = WireOf(sock, stack, st[s], offset) /\ offset = 0 /\ sock \in Seq(Byte)
      /\ Held(Wire, s, put[s], stack, st[s])
  <2>1. Head(stack).op # "write"
    BY <1>2
  <2> QED BY <1>1, <1>2, <2>1, GoodStream, Zenon DEF Good
<1>5. /\ st' = [st EXCEPT ![s].wasFCloseCalled = TRUE, ![s].isClosed = TRUE]
      /\ stack' = Tail(stack) /\ offset' = offset /\ sock' = sock /\ put' = put
  BY <1>1, Zenon DEF Closed, Return
<1>6. /\ st'[s].rawWrite = st[s].rawWrite /\ st'[s].wasFCloseCalled
      /\ \A t \in Streams : t # s => st'[t] = st[t]
  BY <1>3, <1>5, Zenon DEF Good, Inv, Types, Writer
<1>7. Wire = sock
  <2>1. Raw(stack) = <<>> /\ ~Recorded(stack, TRUE)
    BY <1>3, RestBytes, Zenon
  <2>2. ~Recorded(stack, st[s].rawWrite)
    BY <2>1, Zenon DEF Recorded
  <2>3. Wire = sock \o (<<>> \o <<>>)
    BY <1>2, <1>3, <1>4, <2>1, <2>2, Zenon DEF WireOf, Unsent
  <2>4. <<>> \o <<>> = <<>>
    OBVIOUS
  <2>5. sock \o <<>> = sock
    BY <1>4, ConcatEmpty, Zenon
  <2> QED BY <2>3, <2>4, <2>5, Zenon
<1>8. Held(Wire, s, put[s], stack', st'[s])
  <2>1. st'[s].isClosed => st'[s].wasFCloseCalled
    BY <1>6, Zenon
  <2> QED BY <1>3, <1>4, <1>6, <2>1, HeldRaw, Zenon
<1>9. st'["out"].rawWrite = st["out"].rawWrite
  BY <1>3, <1>6, Zenon DEF Streams
<1>10. CASE s = "err"
  <2>1. PICK e, r, w, q : /\ e = Call("empty", "out", TRUE) /\ r = Rest("out")
                          /\ w = st["out"] /\ q = stack'
    BY Zenon
  <2>2. "out" \in Streams /\ "out" # s
    BY <1>10 DEF Streams
  <2>3. q = Over(e, r)
    BY <1>3, <1>5, <1>10, <2>1, RestCalls, Zenon
  <2>4. r \in Seq(Frame) /\ Bytes(r) = <<>>
    BY <2>1, <2>2, RestCalls, RestBytes, Zenon
  <2>5. q # <<>> /\ Head(q) = e /\ Tail(q) = r
    BY <2>3, <2>4, OverCalls, Zenon
  <2>6. e.op = "empty" /\ e.s = "out"
    BY <2>1 DEF Call
  <2>7. ~w.rawWrite /\ st'["out"] = w
    BY <1>3, <1>6, <1>10, <2>1, <2>2, SMTT(30) DEF Closing
  <2>8. Head(q).op = "empty" /\ Head(q).s = "out" /\ Bytes(Tail(q)) = <<>>
    BY <2>4, <2>5, <2>6, Zenon
  <2>9. ToPut(q, "out", w) = <<>> /\ ~Away(q, "out", w) /\ ~Recorded(q, w.rawWrite)
    BY <2>5, <2>7, <2>8, EmptyStarts, Zenon
  <2>10. Wire' = sock
    <3>1. Wire' = WireOf(sock, q, w, offset)
      BY <1>5, <2>1, <2>7, <2>8, Zenon DEF Wire
    <3>2. WireOf(sock, q, w, offset) = sock
      BY <1>4, <2>7, <2>9, WirePlain, Zenon
    <3> QED BY <3>1, <3>2
  <2>11. Held(Wire, "out", put["out"], q, w)
    <3>1. Held(Wire, "out", put["out"], stack, w)
      BY <2>1, <2>2, Zenon DEF Good, Content
    <3>2. ToPut(stack, "out", w) = <<>> /\ ~Away(stack, "out", w)
      BY <1>1, <2>2, <2>7, Elsewhere, Zenon
    <3> QED BY <2>9, <3>1, <3>2, Zenon DEF Held
  <2>12. \A t \in Streams : t = s \/ t = "out"
    BY <1>10 DEF Streams
  <2>13. \A t \in Streams : Held(Wire, t, put[t], stack', st'[t])
    BY <1>8, <2>1, <2>7, <2>11, <2>12, Zenon
  <2> QED BY <1>5, <1>7, <1>9, <2>10, <2>13, SameContent, Zenon DEF Good
<1>11. CASE s = "out"
  <2>1. stack' = <<>>
    BY <1>3, <1>5, <1>11, RestCalls, Zenon
  <2>2. Wire' = sock
    BY <1>5, <2>1, Zenon DEF Wire, WireOf
  <2>3. ASSUME NEW t \in Streams, t # s PROVE Held(Wire, t, put[t], stack', st'[t])
    <3>1. Held(Wire, t, put[t], stack, st[t]) /\ st'[t] = st[t] /\ Head(stack).s # t
      BY <1>1, <1>6, <2>3, ZenonT(30) DEF Good, Content
    <3> QED BY <2>1, <3>1, HeldElsewhere, Zenon
  <2>4. \A t \in Streams : Held(Wire, t, put[t], stack', st'[t])
    BY <1>8, <2>3, Zenon
  <2> QED BY <1>5, <1>7, <1>9, <2>2, <2>4, SameContent, Zenon DEF Good
<1> QED BY <1>3, <1>10, <1>11 DEF Streams

-----------------------------------------------------------------------------
(* Before anything is put. *)
LEMMA InitData == Init => Data
<1> SUFFICES ASSUME Init PROVE Data
  OBVIOUS
<1>1. PICK x : x = <<>>
  OBVIOUS
<1>2. /\ sock = x /\ stack = <<>> /\ ~broken /\ st = [s \in Streams |-> NewWriter]
      /\ put = [s \in Streams |-> 0]
  BY <1>1 DEF Init
<1>3. x \in Seq(Byte) /\ Len(x) = 0
  BY <1>1
<1>4. Starts(x) = {} /\ \A s : Eofs(x, s) = {}
  <2>1. Starts(x) = {}
    BY <1>3 DEF Starts
  <2> QED BY <2>1 DEF Eofs
<1>5. \A s : Reached(x, s, Len(x)) = 0 /\ Greatest(x, s, Len(x), Reached(x, s, Len(x)))
  <2> TAKE s
  <2>1. {j \in 1..Len(x) : x[j].k = s} = {}
    BY <1>3
  <2>2. Numbers(x, s, Len(x)) = {0}
    BY <2>1 DEF Numbers
  <2>3. Greatest(x, s, Len(x), 0)
    BY <2>2 DEF Greatest
  <2> QED BY <2>3, ReachedGreatest, Zenon
<1>6. Records(x) /\ Complete(x) /\ Unended(x)
  <2>1. Records(x)
    BY <1>1, <1>4 DEF Records, Framed
  <2>2. Unended(x)
    BY <1>4, Zenon DEF Unended
  <2> QED BY <1>5, <2>1, <2>2, Zenon DEF Complete
<1>7. Safe(x, put)
  <2>1. Ordered(x)
    BY <1>3 DEF Ordered
  <2>2. Ends(x, put)
    BY <1>4 DEF Ends
  <2> QED BY <1>6, <2>1, <2>2 DEF Records, Safe
<1>8. Wire = x
  BY <1>2, Zenon DEF Wire, WireOf
<1>9. ASSUME NEW s \in Streams PROVE Held(x, s, put[s], stack, st[s])
  <2>1. PICK w, b : w = st[s] /\ b = <<>>
    OBVIOUS
  <2>2. w.buf = Reserved /\ ~w.rawWrite /\ ~w.isClosed /\ put[s] = 0
    BY <1>2, <2>1 DEF NewWriter
  <2>3. ToPut(stack, s, w) = b /\ ~Away(stack, s, w)
    BY <1>2, <2>1, <2>2, Elsewhere, Zenon
  <2>4. Len(b) = 0 /\ 0 - Len(b) = 0
    <3>1. b = <<>>
      BY <2>1
    <3>2. Len(b) = 0
      BY <3>1
    <3> QED BY <3>2
  <2>5. Carried(x, s, 0, b)
    BY <1>5, <2>4 DEF Carried
  <2>6. Buffered(x, s, 0, Reserved)
    <3>1. Reached(x, s, Len(x)) = 0 /\ 0 \in Nat
      BY <1>5
    <3> QED BY <3>1, BufferEmptied, Zenon
  <2>7. Eofs(x, s) = {}
    BY <1>4
  <2> QED BY <2>1, <2>2, <2>3, <2>4, <2>5, <2>6, <2>7, Zenon DEF Held
<1>10. ~st["out"].rawWrite
  BY <1>2 DEF Streams, NewWriter
<1>11. Content
  BY <1>6, <1>7, <1>8, <1>9, <1>10, Zenon DEF Content
<1> QED BY <1>2, <1>3, <1>11, Zenon DEF Data

(* As long as the web server is there, every step keeps what it receives   *)
(* whole.                                                                  *)
LEMMA StepContent ==
  ASSUME ~Transient, Good, ~broken, ~broken', [Next]_vars
  PROVE  Content' /\ sock' \in Seq(Byte)
<1>1. CASE OsWrite
  BY <1>1, OsWriteData, Zenon
<1>2. CASE OsWriteFails
  BY <1>2 DEF OsWriteFails
<1>3. CASE PeerGone
  BY <1>3 DEF PeerGone
<1>4. CASE UNCHANGED <<st, stack, offset, sock, put>>
  <2>1. Wire' = Wire
    BY <1>4 DEF Wire
  <2>2. Content'
    BY <1>4, <2>1 DEF Good, Content
  <2> QED BY <1>4, <2>2 DEF Good
<1>5. CASE AppPut \/ AppFlush \/ AppFinish \/ PutStr \/ EmptyBuffProc \/ WriteCloseRecords
             \/ Written \/ Closed
  <2>1. Content'
    BY <1>5, PutData, FlushData, FinishData, PutStrData, EmptyData, CloseData, WrittenData,
       ClosedData, Zenon
  <2>2. sock' = sock
    BY <1>5, Zenon DEF AppPut, AppFlush, AppFinish, PutStr, EmptyBuffProc, WriteCloseRecords,
                       Written, Closed
  <2> QED BY <2>1, <2>2 DEF Good
<1> QED BY <1>1, <1>2, <1>3, <1>4, <1>5, Zenon DEF Next, Library, Done, vars

(* What the web server had received when it went is all it receives. *)
LEMMA StepBroken ==
  ASSUME broken, [Next]_vars
  PROVE  broken' /\ sock' = sock /\ (phase' = "open" => phase = "open")
         /\ (put' = put \/ phase = "open")
BY Zenon DEF Next, Library, vars, AppPut, AppFlush, AppFinish, PutStr, EmptyBuffProc,
   WriteCloseRecords, OsWrite, OsWriteFails, Written, Closed, Done, PeerGone

(* Every step keeps what the web server has received in order. *)
LEMMA StepData == ~Transient /\ Inv /\ Control /\ Data /\ [Next]_vars => Data'
<1> SUFFICES ASSUME ~Transient, Inv, Control, Data, [Next]_vars PROVE Data'
  OBVIOUS
<1>1. CASE broken
  <2>1. broken' /\ sock' = sock /\ (phase' = "open" => phase = "open")
        /\ (put' = put \/ phase = "open")
    BY <1>1, StepBroken, Zenon
  <2>2. PICK x, p, p2 : x = sock /\ p = put /\ p2 = put'
    OBVIOUS
  <2>3. Safe(x, p) /\ (phase = "open" => \A s \in Streams : Eofs(x, s) = {})
    BY <1>1, <2>2, Zenon DEF Data
  <2>4. Safe(x, p2)
    <3>1. CASE put' = put
      BY <2>2, <2>3, <3>1
    <3>2. CASE phase = "open"
      <4>1. \A s \in Streams : Eofs(x, s) = {}
        BY <2>3, <3>2
      <4> QED BY <2>3, <4>1, MorePut, Zenon
    <3> QED BY <2>1, <3>1, <3>2
  <2> QED BY <1>1, <2>1, <2>2, <2>3, <2>4, Zenon DEF Data
<1>2. CASE ~broken
  <2>1. Good
    BY <1>2, Zenon DEF Data, Good
  <2>2. CASE ~broken'
    <3>1. Content' /\ sock' \in Seq(Byte)
      BY <1>2, <2>1, <2>2, StepContent, Zenon
    <3> QED BY <2>2, <3>1, Zenon DEF Data
  <2>3. CASE broken'
    <3>1. UNCHANGED <<sock, put, phase>>
      BY <1>2, <2>3, Zenon DEF Next, Library, vars, AppPut, AppFlush, AppFinish, PutStr,
         EmptyBuffProc, WriteCloseRecords, OsWrite, OsWriteFails, Written, Closed, Done, PeerGone
    <3>2. Safe(sock, put) /\ \A s \in Streams : Eofs(sock, s) \subseteq Eofs(Wire, s)
      BY <2>1, SockSafe, Zenon DEF Good
    <3>3. phase = "open" => \A s \in Streams : Eofs(sock, s) = {}
      <4>1. SUFFICES ASSUME phase = "open" PROVE \A s \in Streams : Eofs(sock, s) = {}
        OBVIOUS
      <4>2. Opened
        BY <4>1 DEF Control, Closing, Finished
      <4>3. \A s \in Streams : Eofs(Wire, s) = {}
        BY <2>1, <4>2, OpenEofs, Zenon DEF Good
      <4> QED BY <3>2, <4>3
    <3>4. sock \in Seq(Byte)
      BY DEF Data
    <3> QED BY <2>3, <3>1, <3>2, <3>3, <3>4, Zenon DEF Data
  <2> QED BY <2>2, <2>3
<1> QED BY <1>1, <1>2

(* Whether it is there or gone, what the web server has received is in     *)
(* order.                                                                  *)
LEMMA ReceivedSafe ==
  ASSUME Inv, Data
  PROVE  sock \in Seq(Byte) /\ Safe(sock, put)
<1>1. CASE broken
  BY <1>1, Zenon DEF Data
<1>2. CASE ~broken
  <2>1. sock \in Seq(Byte) /\ Content
    BY <1>2, Zenon DEF Data
  <2> QED BY <2>1, SockSafe, Zenon
<1> QED BY <1>1, <1>2

(* After the end of a stream none of its bytes comes. *)
LEMMA SafeEnds ==
  ASSUME NEW x \in Seq(Byte), NEW p, Safe(x, p)
  PROVE  /\ \A s \in Streams : \A i \in Eofs(x, s) :
              Eofs(x, s) = {i} /\ \A n \in i..Len(x) : Reached(x, s, n) = p[s]
         /\ \A i \in Starts(x) : x[i].v.type = "end" =>
              Eofs(x, "out") # {} /\ Len(x) < RecordEnd(x, i)
<1>1. Framed(x) /\ Ends(x, p)
  BY Zenon DEF Safe
<1>2. ASSUME NEW s \in Streams, NEW i \in Eofs(x, s)
      PROVE  Eofs(x, s) = {i} /\ \A n \in i..Len(x) : Reached(x, s, n) = p[s]
  <2>1. Reached(x, s, i) = p[s] /\ (\A j \in i..Len(x) : x[j].k # s) /\ \A j \in Eofs(x, s) : j = i
    BY <1>1, <1>2, Zenon DEF Ends
  <2>2. i \in Nat
    BY <1>2 DEF Eofs, Starts
  <2>3. ASSUME NEW n \in i..Len(x) PROVE Reached(x, s, n) = Reached(x, s, i)
    <3>1. Len(x) \in Nat
      OBVIOUS
    <3>2. n \in Nat /\ i <= n
      BY <2>2, <2>3, <3>1
    <3>3. \A j \in (i + 1)..n : j \in i..Len(x)
      BY <2>2, <2>3, <3>1
    <3>4. \A j \in (i + 1)..n : x[j].k # s
      BY <2>1, <3>3, Zenon
    <3> QED BY <2>2, <3>2, <3>4, ReachedOthers, Zenon
  <2>4. Eofs(x, s) = {i}
    BY <1>2, <2>1
  <2> QED BY <2>1, <2>3, <2>4, Zenon
<1>3. ASSUME NEW i \in Starts(x), x[i].v.type = "end"
      PROVE  Eofs(x, "out") # {} /\ Len(x) < RecordEnd(x, i)
  <2>1. Eofs(x, "out") # {} /\ \A j \in Starts(x) : j <= i
    BY <1>1, <1>3, Zenon DEF Ends
  <2>2. PICK e : e = RecordEnd(x, i)
    OBVIOUS
  <2>3. e \in Nat /\ e > i /\ i \in Nat /\ Len(x) \in Nat
    BY <2>2, HeaderValue
  <2>4. e <= Len(x) => x[e].k = "header"
    BY <1>1, <2>2, Zenon DEF Framed
  <2>5. e <= Len(x) => e \in Starts(x)
    BY <2>3, <2>4 DEF Starts
  <2>6. ~(e <= i)
    BY <2>3
  <2>7. ~(e <= Len(x))
    BY <2>1, <2>5, <2>6, Zenon
  <2>8. Len(x) < e
    BY <2>3, <2>7
  <2> QED BY <2>1, <2>2, <2>8
<1> QED BY <1>2, <1>3, Zenon

-----------------------------------------------------------------------------
(* Where the thread is in the calls of the library, and what it has made   *)
(* of the bytes put: the invariant that the properties of what the web     *)
(* server receives rest on.                                                *)
THEOREM ReceivedInvariant == ~Transient /\ Spec => [](Inv /\ Control /\ Data)
<1> SUFFICES ASSUME ~Transient PROVE Spec => [](Inv /\ Control /\ Data)
  OBVIOUS
<1>1. Init => Inv /\ Control /\ Data
  <2>1. Init => Control
    BY DEF Init, Control, Opened, NewWriter
  <2> QED BY <2>1, InitInv, InitData, Zenon
<1>2. Inv /\ Control /\ Data /\ [Next]_vars => (Inv /\ Control /\ Data)'
  BY StepInv, StepControl, StepData, Zenon
<1> QED BY <1>1, <1>2, PTL DEF Spec

(* EmptyBuffProc and WriteCloseRecords send whole records, one behind the  *)
(* other, through any partial writes (WellFramed), as long as a write that *)
(* fails is not followed by one that succeeds.                             *)
THEOREM FramingCorrect == ~Transient /\ Spec => []WellFramed
<1>1. Inv /\ Control /\ Data => WellFramed
  BY ReceivedSafe, Zenon DEF WellFramed, Safe
<1> QED BY <1>1, ReceivedInvariant, PTL

(* The bytes of each stream arrive in the order FCGX_PutStr took them,     *)
(* none lost or repeated before the last that arrived (ContentInOrder).    *)
THEOREM ContentCorrect == ~Transient /\ Spec => []ContentInOrder
<1>1. Inv /\ Control /\ Data => ContentInOrder
  BY ReceivedSafe, Zenon DEF ContentInOrder, Safe
<1> QED BY <1>1, ReceivedInvariant, PTL

(* FCGX_FClose ends a stream once and behind all its bytes, and the        *)
(* request is ended once, behind the end of out (RequestEnded).            *)
THEOREM EndCorrect == ~Transient /\ Spec => []RequestEnded
<1>1. Inv /\ Data => EndsAfterContent
  <2> SUFFICES ASSUME Inv, Data PROVE EndsAfterContent
    OBVIOUS
  <2>1. PICK x, p : x = sock /\ p = put
    OBVIOUS
  <2>2. x \in Seq(Byte) /\ Safe(x, p)
    BY <2>1, ReceivedSafe, Zenon
  <2>3. /\ \A s \in Streams : \A i \in Eofs(x, s) :
              Eofs(x, s) = {i} /\ \A n \in i..Len(x) : Reached(x, s, n) = p[s]
        /\ \A i \in Starts(x) : x[i].v.type = "end" =>
              Eofs(x, "out") # {} /\ Len(x) < RecordEnd(x, i)
    BY <2>2, SafeEnds, Zenon
  <2> QED BY <2>1, <2>3, Zenon DEF EndsAfterContent
<1>2. Control /\ Data => EndedOnce
  <2> SUFFICES ASSUME Control, Data, phase = "done", ~broken
               PROVE  \E i \in Starts(sock) : /\ sock[i].v.type = "end"
                                              /\ RecordEnd(sock, i) = Len(sock) + 1
    BY DEF EndedOnce
  <2>1. Finished
    BY DEF Control, Opened, Closing
  <2>2. stack = <<>> /\ st["out"].rawWrite
    BY <2>1 DEF Finished
  <2>3. Wire = sock
    BY <2>2, Zenon DEF Wire, WireOf
  <2>4. Content
    BY Zenon DEF Data
  <2>5. Ended(Wire)
    BY <2>2, <2>4, Zenon DEF Content
  <2> QED BY <2>3, <2>5, Zenon DEF Ended
<1>3. Inv /\ Control /\ Data => RequestEnded
  BY <1>1, <1>2 DEF RequestEnded
<1> QED BY <1>3, ReceivedInvariant, PTL
=============================================================================
