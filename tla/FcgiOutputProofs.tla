-------------------------- MODULE FcgiOutputProofs --------------------------
(***************************************************************************)
(* Proofs about the output streams of the FastCGI library (FcgiOutput),    *)
(* for any unit of padding, any buffer that is a multiple of it, and any   *)
(* number and size of puts and flushes.                                    *)
(***************************************************************************)
EXTENDS FcgiOutput, TLAPS

Kind == Streams \cup {"more", "reserved", "pad", "body"}
Type == Streams \cup {"end"}
Fields == [type : Type, clen : Nat, plen : Nat]
Byte == [k : Kind, v : Nat] \cup [k : {"header"}, v : Fields]

Writer == [buf : Seq(Byte), rawWrite : BOOLEAN, isAnythingWritten : BOOLEAN,
           isClosed : BOOLEAN, errno : BOOLEAN, wasFCloseCalled : BOOLEAN]

Op == {"put", "empty", "closeRecords", "write", "closed"}

(* A call has bytes to put, or a flag, or nothing. *)
Frame ==
  {c \in [op : Op, s : Streams, arg : Seq(Byte) \cup BOOLEAN \cup {0}] :
     c.op = "put" => c.arg \in Seq(Byte)}

Types ==
  /\ st \in [Streams -> Writer] /\ stack \in Seq(Frame)
  /\ put \in [Streams -> Nat] /\ offset \in Nat

(* write_it_all is inside the buffer of the stream it writes, and every    *)
(* other step finds it at its beginning.                                   *)
WritesInside ==
  offset > 0 => Top("write") /\ offset <= Len(st[Head(stack).s].buf)

Inv == Types /\ BufferHolds /\ WritesInside

-----------------------------------------------------------------------------
(* The concatenation of two sequences. *)
LEMMA Concat ==
  ASSUME NEW S, NEW x \in Seq(S), NEW y \in Seq(S)
  PROVE  /\ x \o y \in Seq(S) /\ Len(x \o y) = Len(x) + Len(y)
         /\ \A i \in 1..(Len(x) + Len(y)) :
              (x \o y)[i] = IF i <= Len(x) THEN x[i] ELSE y[i - Len(x)]
  OBVIOUS

(* Division with remainder. *)
LEMMA Division ==
  ASSUME NEW n \in Nat, NEW d \in Nat, d > 0
  PROVE  /\ n \div d \in Nat
         /\ (n \div d) * d <= n
         /\ n < (n \div d) * d + d
         /\ n = (n \div d) * d + (n % d)
  OBVIOUS

(* A product of natural numbers is smaller only if a factor is. *)
LEMMA Factor ==
  ASSUME NEW a \in Nat, NEW b \in Nat, NEW d \in Nat, a * d < b * d
  PROVE  a + 1 <= b
  OBVIOUS

(* AlignInt8: the padded content fits where the content did, behind the    *)
(* header, because the buffer is a multiple of the unit (fcgiapp.c:1392).  *)
LEMMA PaddingFits ==
  ASSUME NEW s \in Streams, NEW n \in Nat, n <= BuffLen[s] - Unit
  PROVE  /\ AlignInt8(n) \in Nat /\ AlignInt8(n) >= n
         /\ AlignInt8(n) + Unit <= BuffLen[s]
<1> DEFINE q == (n + Unit - 1) \div Unit
           k == BuffLen[s] \div Unit
<1>1. /\ Unit \in Nat /\ Unit >= 2 /\ BuffLen[s] \in Nat
      /\ BuffLen[s] % Unit = 0
  BY FcgiOutputAssumption
<1>2. k \in Nat /\ BuffLen[s] = k * Unit
  BY <1>1, Division
<1>3. n + Unit - 1 \in Nat
  BY <1>1
<1>4. q \in Nat /\ q * Unit <= n + Unit - 1 /\ n + Unit - 1 < q * Unit + Unit
  BY <1>1, <1>3, Division
<1>5. q * Unit \in Nat /\ AlignInt8(n) = q * Unit
  BY <1>1, <1>4 DEF AlignInt8
<1> HIDE DEF q, k
<1>6. q * Unit < k * Unit
  BY <1>1, <1>2, <1>4, <1>5
<1>7. q + 1 <= k
  BY <1>1, <1>2, <1>4, <1>6, Factor
<1>8. (q + 1) * Unit <= k * Unit
  BY <1>1, <1>2, <1>4, <1>7
<1>9. (q + 1) * Unit = q * Unit + Unit
  BY <1>1, <1>4
<1> QED BY <1>1, <1>2, <1>4, <1>5, <1>8, <1>9

-----------------------------------------------------------------------------
(* Bytes, and the first byte of a header. *)
LEMMA ByteType ==
  /\ \A k \in Kind, n \in Nat : B(k, n) \in Byte
  /\ \A t \in Type, c, n \in Nat :
       B("header", [type |-> t, clen |-> c, plen |-> n]) \in Byte
<1>1. \A t \in Type, c, n \in Nat : [type |-> t, clen |-> c, plen |-> n] \in Fields
  BY DEF Fields
<1>2. \A h \in Fields : B("header", h) \in Byte
  BY DEF B, Byte
<1>3. \A k \in Kind, n \in Nat : B(k, n) \in Byte
  BY DEF B, Byte
<1> QED BY <1>1, <1>2, <1>3

(* Sequences of n equal bytes. *)
LEMMA RepeatType ==
  ASSUME NEW n \in Nat, NEW b \in Byte
  PROVE  Repeat(n, b) \in Seq(Byte) /\ Len(Repeat(n, b)) = n
  BY DEF Repeat

(* A header has the length of a unit. *)
LEMMA HeaderType ==
  ASSUME NEW type \in Type, NEW clen \in Nat, NEW plen \in Nat
  PROVE  Header(type, clen, plen) \in Seq(Byte) /\ Len(Header(type, clen, plen)) = Unit
<1> DEFINE h == <<B("header", [type |-> type, clen |-> clen, plen |-> plen])>>
           m == Repeat(Unit - 1, B("more", 0))
<1>1. h \in Seq(Byte) /\ Len(h) = 1
  <2>1. B("header", [type |-> type, clen |-> clen, plen |-> plen]) \in Byte
    BY ByteType, Zenon DEF Kind
  <2> HIDE DEF Byte
  <2> QED BY <2>1
<1>2. Unit - 1 \in Nat /\ B("more", 0) \in Byte
  BY FcgiOutputAssumption, ByteType DEF Kind
<1>3. m \in Seq(Byte) /\ Len(m) = Unit - 1
  BY <1>2, RepeatType
<1>4. Header(type, clen, plen) = h \o m
  BY DEF Header
<1> HIDE DEF h, m
<1>5. h \o m \in Seq(Byte) /\ Len(h \o m) = Len(h) + Len(m)
  BY <1>1, <1>3, Concat, Zenon
<1> QED BY <1>1, <1>3, <1>4, <1>5, FcgiOutputAssumption

(* The room that is reserved for a header is a header's. *)
LEMMA ReservedType == Reserved \in Seq(Byte) /\ Len(Reserved) = Unit
<1>1. Unit \in Nat /\ B("reserved", 0) \in Byte
  BY FcgiOutputAssumption, ByteType DEF Kind
<1> QED BY <1>1, RepeatType DEF Reserved

(* WriteCloseRecords puts bytes. *)
LEMMA EndRequestType == EndRequest \in Seq(Byte)
<1>1. Unit \in Nat /\ B("body", 0) \in Byte
  BY FcgiOutputAssumption, ByteType DEF Kind
<1>2. Header("end", Unit, 0) \in Seq(Byte) /\ Repeat(Unit, B("body", 0)) \in Seq(Byte)
  BY <1>1, HeaderType, RepeatType, Zenon DEF Type
<1> QED BY <1>2, Concat, Zenon DEF EndRequest

(* EmptyBuffProc makes a record that fits the buffer the content was in. *)
LEMMA EncapsulatedFits ==
  ASSUME NEW s \in Streams, NEW buf \in Seq(Byte), Len(buf) <= BuffLen[s]
  PROVE  Encapsulated(s, buf) \in Seq(Byte) /\ Len(Encapsulated(s, buf)) <= BuffLen[s]
<1> DEFINE content == SubSeq(buf, Unit + 1, Len(buf))
           n == Len(content)
           e == AlignInt8(n)
           head == Header(s, n, e - n)
           pad == Repeat(e - n, B("pad", 0))
<1>1. /\ Unit \in Nat /\ Unit >= 2 /\ BuffLen[s] \in Nat /\ BuffLen[s] > Unit
      /\ Len(buf) \in Nat
  BY FcgiOutputAssumption
<1>2. content \in Seq(Byte) /\ n \in Nat
      /\ n = IF Unit + 1 <= Len(buf) THEN Len(buf) - Unit ELSE 0
  BY <1>1
<1>3. CASE ~ (n > 0)
  <2>1. Encapsulated(s, buf) = <<>>
    BY <1>3, Zenon DEF Encapsulated
  <2>2. <<>> \in Seq(Byte) /\ Len(<<>>) = 0
    OBVIOUS
  <2> QED BY <1>1, <2>1, <2>2
<1>4. CASE n > 0
  <2> HIDE DEF content, n
  <2>1. n <= BuffLen[s] - Unit
    BY <1>1, <1>2, <1>4
  <2>2. e \in Nat /\ e >= n /\ e + Unit <= BuffLen[s]
    BY <1>2, <2>1, PaddingFits
  <2> HIDE DEF e
  <2>3. head \in Seq(Byte) /\ Len(head) = Unit
    BY <1>2, <2>2, HeaderType DEF Type
  <2>4. pad \in Seq(Byte) /\ Len(pad) = e - n
    <3>1. e - n \in Nat
      BY <1>2, <2>2
    <3>2. B("pad", 0) \in Byte
      BY ByteType, Zenon DEF Kind
    <3> QED BY <3>1, <3>2, RepeatType
  <2> HIDE DEF head, pad
  <2>5. head \o content \in Seq(Byte) /\ Len(head \o content) = Len(head) + Len(content)
    BY <1>2, <2>3, Concat, Zenon
  <2>6. /\ head \o content \o pad \in Seq(Byte)
        /\ Len(head \o content \o pad) = Len(head \o content) + Len(pad)
    BY <2>4, <2>5, Concat, Zenon
  <2>7. Encapsulated(s, buf) = head \o content \o pad
    BY <1>4, Zenon DEF Encapsulated, head, pad, e, n, content
  <2>8. Len(head \o content \o pad) = Unit + n + (e - n)
    BY <2>3, <2>4, <2>5, <2>6 DEF n
  <2>9. Unit + n + (e - n) <= BuffLen[s]
    BY <1>1, <1>2, <2>2
  <2> QED BY <2>6, <2>7, <2>8, <2>9
<1> QED BY <1>2, <1>3, <1>4

-----------------------------------------------------------------------------
(* The calls that the steps put on the stack. *)
LEMMA CallType ==
  /\ \A s \in Streams, bytes \in Seq(Byte) : Call("put", s, bytes) \in Frame
  /\ \A s \in Streams, close \in BOOLEAN : Call("empty", s, close) \in Frame
  /\ \A s \in Streams, op \in {"closeRecords", "write", "closed"} : Call(op, s, 0) \in Frame
<1> DEFINE Arg == Seq(Byte) \cup BOOLEAN \cup {0}
<1>1. \A op \in Op, s \in Streams, arg \in Arg :
        (op = "put" => arg \in Seq(Byte)) => Call(op, s, arg) \in Frame
  <2> HIDE DEF Byte
  <2> QED BY DEF Call, Frame
<1>2. /\ \A bytes \in Seq(Byte) : bytes \in Arg
      /\ \A close \in BOOLEAN : close \in Arg
      /\ 0 \in Arg
  OBVIOUS
<1> HIDE DEF Arg
<1> QED BY <1>1, <1>2 DEF Op

(* A call on top of others. *)
LEMMA OverCalls ==
  ASSUME NEW S, NEW a, NEW q \in Seq(S)
  PROVE  /\ a \in S => Over(a, q) \in Seq(S)
         /\ Over(a, q) # <<>>
         /\ Head(Over(a, q)) = a /\ Tail(Over(a, q)) = q
<1>1. ASSUME NEW T, a \in T, q \in Seq(T)
      PROVE  /\ <<a>> \o q \in Seq(T) /\ <<a>> \o q # <<>>
             /\ Head(<<a>> \o q) = a /\ Tail(<<a>> \o q) = q
  BY <1>1
<1>2. a \in S \cup {a} /\ q \in Seq(S \cup {a})
  OBVIOUS
<1> QED BY <1>1, <1>2, Zenon DEF Over

(* The innermost call, and the calls it returns to. *)
LEMMA Returned ==
  ASSUME stack \in Seq(Frame), stack # <<>>
  PROVE  /\ Head(stack) \in Frame /\ Head(stack).s \in Streams
         /\ Tail(stack) \in Seq(Frame)
<1>1. Head(stack) \in Frame /\ Tail(stack) \in Seq(Frame)
  OBVIOUS
<1> QED BY <1>1 DEF Frame

(* A stream whose buffer is replaced by one that fits. *)
LEMMA NewBuffer ==
  ASSUME Inv, NEW s \in Streams, NEW buf \in Seq(Byte), Len(buf) <= BuffLen[s],
         st' = [st EXCEPT ![s].buf = buf]
  PROVE  st' \in [Streams -> Writer] /\ BufferHolds'
<1>1. st' = [st EXCEPT ![s] = [st[s] EXCEPT !.buf = buf]]
  OBVIOUS
<1>2. [st[s] EXCEPT !.buf = buf] \in Writer /\ [st[s] EXCEPT !.buf = buf].buf = buf
  BY Zenon DEF Inv, Types, Writer
<1> QED BY <1>1, <1>2 DEF Inv, Types, BufferHolds

(* A stream whose buffer stays, whatever flags change. *)
LEMMA SameBuffer ==
  ASSUME Inv, NEW s \in Streams, NEW w \in Writer, w.buf = st[s].buf,
         st' = [st EXCEPT ![s] = w]
  PROVE  /\ st' \in [Streams -> Writer] /\ BufferHolds'
         /\ \A t \in Streams : st'[t].buf = st[t].buf
<1>1. \A t \in Streams : st'[t].buf = st[t].buf
  BY DEF Inv, Types
<1> QED BY <1>1 DEF Inv, Types, BufferHolds

(* A buffer starts with the room for a header. *)
LEMMA InitInv == Init => Inv
<1> SUFFICES ASSUME Init PROVE Inv
  OBVIOUS
<1>1. NewWriter \in Writer /\ NewWriter.buf = Reserved
  BY ReservedType DEF NewWriter, Writer
<1>2. st \in [Streams -> Writer] /\ \A s \in Streams : st[s].buf = Reserved
  BY <1>1 DEF Init
<1>3. BufferHolds
  BY <1>2, ReservedType, FcgiOutputAssumption DEF BufferHolds
<1>4. stack \in Seq(Frame) /\ put \in [Streams -> Nat] /\ offset = 0
  BY DEF Init
<1> QED BY <1>2, <1>3, <1>4 DEF Inv, Types, WritesInside

-----------------------------------------------------------------------------
(* FCGX_PutStr fills no more than the room there is. *)
LEMMA PutStrInv == Inv /\ PutStr => Inv'
<1> SUFFICES ASSUME Inv, PutStr PROVE Inv'
  OBVIOUS
<1> DEFINE s == Head(stack).s
           bytes == Head(stack).arg
           room == BuffLen[s] - Len(st[s].buf)
           m == IF Len(bytes) < room THEN Len(bytes) ELSE room
           part == SubSeq(bytes, 1, m)
           buf == st[s].buf \o part
           rest == SubSeq(bytes, m + 1, Len(bytes))
<1>1. /\ stack # <<>> /\ stack \in Seq(Frame) /\ Head(stack).op = "put"
      /\ ~ Top("write") /\ offset = 0
  <2>1. stack # <<>> /\ Head(stack).op = "put"
    BY Zenon DEF PutStr, Top
  <2>2. ~ Top("write")
    BY <2>1 DEF Top
  <2> QED BY <2>1, <2>2 DEF Inv, Types, WritesInside
<1>2. Head(stack) \in Frame /\ s \in Streams /\ Tail(stack) \in Seq(Frame)
  BY <1>1, Returned
<1>3. bytes \in Seq(Byte) /\ st[s].buf \in Seq(Byte) /\ Len(st[s].buf) <= BuffLen[s]
  BY <1>1, <1>2 DEF Frame, Inv, Types, Writer, BufferHolds
<1>4. st' = [st EXCEPT ![s].buf = buf]
  BY Zenon DEF PutStr
<1>5. \/ stack' = Tail(stack)
      \/ stack' = Over(Call("empty", s, FALSE), Over(Call("put", s, rest), Tail(stack)))
  BY Zenon DEF PutStr, Return
<1>6. offset' = 0 /\ put' \in [Streams -> Nat]
  BY <1>1, Zenon DEF PutStr, Inv, Types
<1> HIDE DEF s, bytes
<1>7. /\ BuffLen[s] \in Nat /\ Len(st[s].buf) \in Nat /\ Len(bytes) \in Nat
      /\ room \in Nat
  BY <1>2, <1>3, FcgiOutputAssumption
<1>8. m \in 0..Len(bytes) /\ m <= room
  BY <1>7
<1> HIDE DEF m
<1>9. rest \in Seq(Byte) /\ part \in Seq(Byte) /\ Len(part) = m
  BY <1>3, <1>7, <1>8
<1>10. buf \in Seq(Byte) /\ Len(buf) = Len(st[s].buf) + Len(part)
  BY <1>3, <1>9, Concat, Zenon
<1> HIDE DEF buf, part, rest
<1>11. Len(buf) <= BuffLen[s]
  BY <1>7, <1>8, <1>9, <1>10, SMTT(40)
<1>12. st' \in [Streams -> Writer] /\ BufferHolds'
  BY <1>2, <1>4, <1>10, <1>11, NewBuffer, Zenon
<1>13. stack' \in Seq(Frame)
  <2>1. Call("empty", s, FALSE) \in Frame /\ Call("put", s, rest) \in Frame
    BY <1>2, <1>9, CallType, Zenon
  <2>2. Over(Call("put", s, rest), Tail(stack)) \in Seq(Frame)
    BY <1>2, <2>1, OverCalls, Zenon
  <2>3. Over(Call("empty", s, FALSE), Over(Call("put", s, rest), Tail(stack))) \in Seq(Frame)
    BY <2>1, <2>2, OverCalls, Zenon
  <2> QED BY <1>2, <1>5, <2>3, Zenon
<1> QED BY <1>6, <1>12, <1>13 DEF Inv, Types, WritesInside

(* EmptyBuffProc replaces the content by its record, which fits. *)
LEMMA EmptyBuffInv == Inv /\ EmptyBuffProc => Inv'
<1> SUFFICES ASSUME Inv, EmptyBuffProc PROVE Inv'
  OBVIOUS
<1> DEFINE s == Head(stack).s
           calls == Over(Call("write", s, 0), Tail(stack))
           record == Encapsulated(s, st[s].buf)
<1>1. stack # <<>> /\ Head(stack).op = "empty" /\ stack \in Seq(Frame) /\ s \in Streams
  <2>1. stack # <<>> /\ Head(stack).op = "empty" /\ stack \in Seq(Frame)
    BY DEF EmptyBuffProc, Top, Inv, Types
  <2> QED BY <2>1, Returned
<1>2. offset' = 0 /\ put' \in [Streams -> Nat]
  <2>1. ~ Top("write")
    BY <1>1 DEF Top
  <2> QED BY <2>1 DEF EmptyBuffProc, Inv, Types, WritesInside
<1>3. st' = IF st[s].rawWrite THEN st ELSE [st EXCEPT ![s].buf = record]
  BY DEF EmptyBuffProc
<1>4. stack' = calls \/ stack' = Over(Call("closeRecords", s, 0), calls)
  BY Zenon DEF EmptyBuffProc
<1> HIDE DEF s
<1>5. st[s].buf \in Seq(Byte) /\ Len(st[s].buf) <= BuffLen[s]
  BY <1>1 DEF Inv, Types, Writer, BufferHolds
<1>6. record \in Seq(Byte) /\ Len(record) <= BuffLen[s]
  BY <1>1, <1>5, EncapsulatedFits
<1> HIDE DEF record
<1>7. st' \in [Streams -> Writer] /\ BufferHolds'
  <2>1. CASE st[s].rawWrite
    BY <1>3, <2>1 DEF Inv, Types, BufferHolds
  <2>2. CASE ~ st[s].rawWrite
    BY <1>1, <1>3, <1>6, <2>2, NewBuffer, Zenon
  <2> QED BY <2>1, <2>2
<1>8. stack' \in Seq(Frame)
  <2>1. Call("closeRecords", s, 0) \in Frame /\ Call("write", s, 0) \in Frame
    BY <1>1, CallType
  <2>2. Tail(stack) \in Seq(Frame)
    BY <1>1, Returned
  <2>3. calls \in Seq(Frame)
    BY <2>1, <2>2, OverCalls, Zenon
  <2> HIDE DEF calls
  <2>4. Over(Call("closeRecords", s, 0), calls) \in Seq(Frame)
    BY <2>1, <2>3, OverCalls, Zenon
  <2> QED BY <1>4, <2>3, <2>4
<1> QED BY <1>2, <1>7, <1>8 DEF Inv, Types, WritesInside

(* WriteCloseRecords only puts bytes, which FCGX_PutStr fits in. *)
LEMMA CloseRecordsInv == Inv /\ WriteCloseRecords => Inv'
<1> SUFFICES ASSUME Inv, WriteCloseRecords PROVE Inv'
  OBVIOUS
<1> DEFINE s == Head(stack).s
           unused == s = "err" /\ st[s].buf = <<>> /\ ~st[s].isAnythingWritten
           calls == IF nWriters = 1 THEN Over(Call("put", s, EndRequest), Tail(stack))
                    ELSE Tail(stack)
<1>1. stack # <<>> /\ Head(stack).op = "closeRecords" /\ stack \in Seq(Frame) /\ s \in Streams
  <2>1. stack # <<>> /\ Head(stack).op = "closeRecords" /\ stack \in Seq(Frame)
    BY DEF WriteCloseRecords, Top, Inv, Types
  <2> QED BY <2>1, Returned
<1>2. offset' = 0 /\ put' \in [Streams -> Nat]
  <2>1. ~ Top("write")
    BY <1>1 DEF Top
  <2> QED BY <2>1 DEF WriteCloseRecords, Inv, Types, WritesInside
<1>3. st' = [st EXCEPT ![s] = [st[s] EXCEPT !.rawWrite = TRUE]]
  BY DEF WriteCloseRecords
<1>4. stack' = calls \/ stack' = Over(Call("put", s, Header(s, 0, 0)), calls)
  BY Zenon DEF WriteCloseRecords
<1> HIDE DEF s
<1>5. st' \in [Streams -> Writer] /\ BufferHolds'
  <2>1. [st[s] EXCEPT !.rawWrite = TRUE] \in Writer
        /\ [st[s] EXCEPT !.rawWrite = TRUE].buf = st[s].buf
    BY <1>1, Zenon DEF Inv, Types, Writer
  <2> QED BY <1>1, <1>3, <2>1, SameBuffer, Zenon
<1>6. stack' \in Seq(Frame)
  <2>1. Header(s, 0, 0) \in Seq(Byte) /\ EndRequest \in Seq(Byte)
    BY <1>1, HeaderType, EndRequestType DEF Type
  <2>2. Call("put", s, Header(s, 0, 0)) \in Frame /\ Call("put", s, EndRequest) \in Frame
    BY <1>1, <2>1, CallType
  <2>3. Tail(stack) \in Seq(Frame)
    BY <1>1, Returned
  <2>4. Over(Call("put", s, EndRequest), Tail(stack)) \in Seq(Frame)
    BY <2>2, <2>3, OverCalls, Zenon
  <2>5. calls \in Seq(Frame)
    BY <2>3, <2>4
  <2> HIDE DEF calls
  <2>6. Over(Call("put", s, Header(s, 0, 0)), calls) \in Seq(Frame)
    BY <2>2, <2>5, OverCalls, Zenon
  <2> QED BY <1>4, <2>5, <2>6
<1> QED BY <1>2, <1>5, <1>6 DEF Inv, Types, WritesInside

(* A write takes bytes of the buffer, and what is left is still in it. *)
LEMMA OsWriteInv == Inv /\ OsWrite => Inv'
<1> SUFFICES ASSUME Inv, OsWrite PROVE Inv'
  OBVIOUS
<1> DEFINE s == Head(stack).s
           w == [st[s] EXCEPT !.isAnythingWritten = TRUE]
<1>1. stack # <<>> /\ stack \in Seq(Frame) /\ s \in Streams
  <2>1. stack # <<>> /\ stack \in Seq(Frame)
    BY DEF OsWrite, Top, Inv, Types
  <2> QED BY <2>1, Returned
<1>2. PICK n \in 1..(Len(st[s].buf) - offset) : offset' = offset + n
  BY DEF OsWrite
<1>3. st' = [st EXCEPT ![s] = w] /\ stack' = stack /\ put' = put /\ Top("write")
  BY DEF OsWrite
<1> HIDE DEF s
<1>4. w \in Writer /\ w.buf = st[s].buf /\ st[s].buf \in Seq(Byte)
  BY <1>1, Zenon DEF Inv, Types, Writer
<1> HIDE DEF w
<1>5. /\ st' \in [Streams -> Writer] /\ BufferHolds'
      /\ st'[s].buf = st[s].buf
  BY <1>1, <1>3, <1>4, SameBuffer, Zenon
<1>6. offset' \in Nat /\ offset' <= Len(st[s].buf)
  BY <1>2, <1>4 DEF Inv, Types
<1>7. WritesInside'
  BY <1>3, <1>5, <1>6 DEF WritesInside, Top, s
<1> QED BY <1>3, <1>5, <1>6, <1>7 DEF Inv, Types

(* write_it_all ends, with an error or with an empty buffer. *)
LEMMA WrittenInv == Inv /\ (OsWriteFails \/ Written) => Inv'
<1> SUFFICES ASSUME Inv, OsWriteFails \/ Written PROVE Inv'
  OBVIOUS
<1> DEFINE s == Head(stack).s
<1>1. stack # <<>> /\ stack \in Seq(Frame)
  BY DEF OsWriteFails, Written, Top, Inv, Types
<1>2. s \in Streams /\ stack' \in Seq(Frame)
  BY <1>1, Returned, Zenon DEF OsWriteFails, Written, Return
<1>3. offset' = 0 /\ put' \in [Streams -> Nat]
  BY DEF OsWriteFails, Written, Inv, Types
<1>4. st' \in [Streams -> Writer] /\ BufferHolds'
  <2>1. CASE OsWriteFails
    <3> DEFINE w == [st[s] EXCEPT !.isAnythingWritten = TRUE, !.errno = TRUE,
                                  !.isClosed = TRUE]
    <3>1. st' = [st EXCEPT ![s] = w]
      BY <1>2, <2>1, Zenon DEF OsWriteFails, Inv, Types
    <3>2. w \in Writer /\ w.buf = st[s].buf
      BY <1>2, ZenonT(60) DEF Inv, Types, Writer
    <3> HIDE DEF w
    <3> QED BY <1>2, <3>1, <3>2, SameBuffer, Zenon
  <2>2. CASE Written
    <3> DEFINE buf == IF st[s].rawWrite THEN <<>> ELSE Reserved
    <3>1. st' = [st EXCEPT ![s].buf = buf]
      BY <2>2 DEF Written
    <3>2. BuffLen[s] \in Nat /\ BuffLen[s] > Unit /\ Unit \in Nat
      BY <1>2, FcgiOutputAssumption
    <3>3. <<>> \in Seq(Byte) /\ Len(<<>>) = 0
      OBVIOUS
    <3>4. buf \in Seq(Byte) /\ Len(buf) <= BuffLen[s]
      BY <3>2, <3>3, ReservedType
    <3> HIDE DEF buf
    <3> QED BY <1>2, <3>1, <3>4, NewBuffer, Zenon
  <2> QED BY <2>1, <2>2
<1> QED BY <1>2, <1>3, <1>4 DEF Inv, Types, WritesInside

(* The end of FCGX_FClose. *)
LEMMA ClosedInv == Inv /\ Closed => Inv'
<1> SUFFICES ASSUME Inv, Closed PROVE Inv'
  OBVIOUS
<1> DEFINE s == Head(stack).s
           w == [st[s] EXCEPT !.wasFCloseCalled = TRUE, !.isClosed = TRUE]
<1>1. stack # <<>> /\ Head(stack).op = "closed" /\ stack \in Seq(Frame)
  BY DEF Closed, Top, Inv, Types
<1>2. s \in Streams /\ stack' \in Seq(Frame)
  BY <1>1, Returned DEF Closed, Return
<1>3. offset' = 0 /\ put' \in [Streams -> Nat]
  <2>1. ~ Top("write")
    BY <1>1 DEF Top
  <2> QED BY <2>1 DEF Closed, Inv, Types, WritesInside
<1>4. st' = [st EXCEPT ![s] = w]
  BY <1>2, Zenon DEF Closed, Inv, Types
<1>5. w \in Writer /\ w.buf = st[s].buf
  BY <1>2, ZenonT(60) DEF Inv, Types, Writer
<1> HIDE DEF w
<1>6. st' \in [Streams -> Writer] /\ BufferHolds'
  BY <1>2, <1>4, <1>5, SameBuffer, Zenon
<1> QED BY <1>2, <1>3, <1>6 DEF Inv, Types, WritesInside

(* What the server calls starts with an empty stack. *)
LEMMA AppInv == Inv /\ (AppPut \/ AppFlush \/ AppFinish) => Inv'
<1> SUFFICES ASSUME Inv, AppPut \/ AppFlush \/ AppFinish PROVE Inv'
  OBVIOUS
<1>1. stack = <<>> /\ st' = st /\ offset' = offset
  BY Zenon DEF AppPut, AppFlush, AppFinish
<1>2. offset' = 0
  <2>1. ~ Top("write")
    BY <1>1 DEF Top
  <2> QED BY <1>1, <2>1 DEF Inv, Types, WritesInside
<1>3. st' \in [Streams -> Writer] /\ BufferHolds'
  BY <1>1 DEF Inv, Types, BufferHolds
<1>4. put' \in [Streams -> Nat] /\ stack' \in Seq(Frame)
  <2>1. CASE AppPut
    <3>1. PICK s \in Streams, n \in 1..MaxPut :
            /\ stack' = <<Call("put", s, [i \in 1..n |-> B(s, put[s] + i)])>>
            /\ put' = [put EXCEPT ![s] = @ + n]
      BY <2>1, Zenon DEF AppPut
    <3>2. n \in Nat /\ put[s] \in Nat
      BY <3>1, FcgiOutputAssumption DEF Inv, Types
    <3>3. \A i \in 1..n : B(s, put[s] + i) \in Byte
      BY <3>2, ByteType DEF Kind
    <3>4. [i \in 1..n |-> B(s, put[s] + i)] \in Seq(Byte)
      BY <3>2, <3>3
    <3>5. stack' \in Seq(Frame)
      <4>1. Call("put", s, [i \in 1..n |-> B(s, put[s] + i)]) \in Frame
        BY <3>4, CallType, Zenon
      <4> QED BY <3>1, <4>1
    <3>6. put' \in [Streams -> Nat]
      BY <3>1, <3>2 DEF Inv, Types
    <3> QED BY <3>5, <3>6
  <2>2. CASE AppFlush
    <3>1. PICK s \in Streams : stack' = <<Call("empty", s, FALSE)>>
      BY <2>2, Zenon DEF AppFlush
    <3>2. Call("empty", s, FALSE) \in Frame
      BY CallType, Zenon
    <3>3. stack' \in Seq(Frame)
      <4> DEFINE c == Call("empty", s, FALSE)
      <4>1. c \in Frame
        BY <3>2, Zenon
      <4> HIDE DEF c
      <4>2. <<c>> \in Seq(Frame)
        BY <4>1
      <4> QED BY <3>1, <4>2, Zenon DEF c
    <3> QED BY <2>2, <3>3, Zenon DEF AppFlush, Inv, Types
  <2>3. CASE AppFinish
    <3>1. ASSUME NEW s \in Streams, NEW q \in Seq(Frame)
          PROVE  FClose(s, q) \in Seq(Frame)
      <4>1. Call("empty", s, TRUE) \in Frame /\ Call("closed", s, 0) \in Frame
        BY CallType, Zenon
      <4>2. Over(Call("closed", s, 0), q) \in Seq(Frame)
        BY <4>1, OverCalls, Zenon
      <4> QED BY <4>1, <4>2, OverCalls, Zenon DEF FClose
    <3>2. <<>> \in Seq(Frame)
      OBVIOUS
    <3>3. FClose("err", FClose("out", <<>>)) \in Seq(Frame)
      BY <3>1, <3>2, Zenon DEF Streams
    <3> QED BY <2>3, <3>3 DEF AppFinish, Inv, Types
  <2> QED BY <2>1, <2>2, <2>3
<1> QED BY <1>2, <1>3, <1>4 DEF Inv, Types, WritesInside

(* Every step keeps the invariant. *)
LEMMA StepInv == Inv /\ [Next]_vars => Inv'
<1> SUFFICES ASSUME Inv, [Next]_vars PROVE Inv'
  OBVIOUS
<1>1. CASE Done \/ PeerGone \/ UNCHANGED vars
  <2>1. UNCHANGED <<st, stack, offset, put>>
    BY <1>1 DEF Done, PeerGone, vars
  <2> QED BY <2>1 DEF Inv, Types, BufferHolds, WritesInside, Top
<1> QED BY <1>1, PutStrInv, EmptyBuffInv, CloseRecordsInv, OsWriteInv, WrittenInv,
           ClosedInv, AppInv DEF Next, Library

(* The invariant holds in every state of the output streams. *)
THEOREM FcgiOutputInvariant == Spec => []Inv
  BY InitInv, StepInv, PTL DEF Spec

(* Whatever is put, flushed and closed, in whatever sizes, and whichever    *)
(* writes fail, neither content nor padding nor the closing records leave   *)
(* the buffer, for any buffer that is a multiple of the unit of padding     *)
(* (fcgiapp.c:1392).                                                        *)
THEOREM BufferCorrect == Spec => []BufferHolds
<1>1. Inv => BufferHolds
  BY DEF Inv
<1> QED BY <1>1, FcgiOutputInvariant, PTL

(* write_it_all reads nothing behind the end of the buffer it writes, and   *)
(* no other function finds a write half done.                               *)
THEOREM WriteCorrect == Spec => []WritesInside
<1>1. Inv => WritesInside
  BY DEF Inv
<1> QED BY <1>1, FcgiOutputInvariant, PTL

-----------------------------------------------------------------------------
(* The calls on the stack. *)
Write(s) == Call("write", s, 0)

(* What is left of FCGX_Finish_r when stream s has been emptied.           *)
Rest(s) == Over(Call("closed", s, 0), IF s = "err" THEN FClose("out", <<>>) ELSE <<>>)

(* FCGX_PutStr on s above the calls q. *)
Putting(calls, s, q) ==
  calls # <<>> /\ Head(calls).op = "put" /\ Head(calls).s = s /\ Tail(calls) = q

(* FCGX_PutStr on s, or the EmptyBuffProc it called.                       *)
Emptying(calls, s) == calls # <<>> /\ Head(calls) \in {Call("empty", s, FALSE), Write(s)}
Busy(calls, s, q) == \/ Putting(calls, s, q)
                     \/ Emptying(calls, s) /\ Putting(Tail(calls), s, q)

Opened ==
  /\ phase = "open" /\ nWriters = 2
  /\ \A s \in Streams : ~st[s].rawWrite /\ ~st[s].wasFCloseCalled
  /\ \/ stack = <<>>
     \/ \E s \in Streams : Busy(stack, s, <<>>) \/ (Emptying(stack, s) /\ Tail(stack) = <<>>)

(* What WriteCloseRecords leaves on the stack for s, when its own bytes    *)
(* have been put.                                                          *)
Last(s) == {Over(Write(s), Rest(s))}
             \cup (IF s = "out" THEN {Over(Call("put", s, EndRequest), Over(Write(s), Rest(s)))}
                   ELSE {})

Closing(s) ==
  /\ phase = "finishing" /\ ~st[s].wasFCloseCalled
  /\ IF s = "err" THEN ~st["out"].rawWrite /\ ~st["out"].wasFCloseCalled
                  ELSE st["err"].rawWrite
  /\ nWriters = (IF s = "err" THEN 2 ELSE 1) - (IF st[s].rawWrite THEN 1 ELSE 0)
  /\ IF st[s].rawWrite
     THEN stack = Rest(s) \/ \E q \in Last(s) : stack = q \/ Busy(stack, s, q)
     ELSE \/ stack = Over(Call("empty", s, TRUE), Rest(s))
          \/ stack = Over(Call("closeRecords", s, 0), Over(Write(s), Rest(s)))

Finished ==
  /\ phase \in {"finishing", "done"} /\ stack = <<>>
  /\ st["err"].rawWrite /\ st["out"].rawWrite

(* Where the thread is in the calls of the library.                        *)
Control == Opened \/ Closing("err") \/ Closing("out") \/ Finished

-----------------------------------------------------------------------------
(* What FCGX_Finish_r still has to do when a stream has been emptied. *)
LEMMA RestCalls ==
  ASSUME NEW s \in Streams
  PROVE  /\ Rest(s) \in Seq(Frame) /\ Rest(s) # <<>>
         /\ Head(Rest(s)) = Call("closed", s, 0)
         /\ Tail(Rest(s)) = IF s = "err" THEN Over(Call("empty", "out", TRUE), Rest("out"))
                            ELSE <<>>
<1>1. /\ Call("empty", "out", TRUE) \in Frame
      /\ \A t \in Streams : Call("closed", t, 0) \in Frame
  BY CallType, Zenon DEF Streams
<1>2. <<>> \in Seq(Frame)
  OBVIOUS
<1>3. Rest("out") \in Seq(Frame) /\ Rest("out") = Over(Call("closed", "out", 0), <<>>)
  <2>1. Over(Call("closed", "out", 0), <<>>) \in Seq(Frame)
    BY <1>1, <1>2, OverCalls, Zenon DEF Streams
  <2>2. "out" # "err"
    OBVIOUS
  <2> QED BY <2>1, <2>2, Zenon DEF Rest
<1> DEFINE q == IF s = "err" THEN FClose("out", <<>>) ELSE <<>>
<1>4. q = IF s = "err" THEN Over(Call("empty", "out", TRUE), Rest("out")) ELSE <<>>
  BY <1>3, Zenon DEF FClose
<1>5. Over(Call("empty", "out", TRUE), Rest("out")) \in Seq(Frame)
  BY <1>1, <1>3, OverCalls, Zenon
<1>6. q \in Seq(Frame)
  BY <1>2, <1>4, <1>5, Zenon
<1>7. Rest(s) = Over(Call("closed", s, 0), q)
  BY DEF Rest
<1> HIDE DEF q
<1>8. /\ Over(Call("closed", s, 0), q) \in Seq(Frame)
      /\ Over(Call("closed", s, 0), q) # <<>>
      /\ Head(Over(Call("closed", s, 0), q)) = Call("closed", s, 0)
      /\ Tail(Over(Call("closed", s, 0), q)) = q
  BY <1>1, <1>6, OverCalls, Zenon
<1> QED BY <1>4, <1>7, <1>8, Zenon

(* What WriteCloseRecords leaves on the stack. *)
LEMMA LastCalls ==
  ASSUME NEW s \in Streams
  PROVE  /\ Over(Write(s), Rest(s)) \in Last(s)
         /\ s = "out" => Over(Call("put", s, EndRequest), Over(Write(s), Rest(s))) \in Last(s)
         /\ \A q \in Last(s) :
              /\ q \in Seq(Frame) /\ q # <<>>
              /\ \/ Head(q) = Write(s) /\ Tail(q) = Rest(s)
                 \/ /\ s = "out" /\ Head(q) = Call("put", s, EndRequest)
                    /\ Tail(q) = Over(Write(s), Rest(s))
<1> DEFINE w == Write(s)
           p == Call("put", s, EndRequest)
<1>1. w \in Frame /\ p \in Frame /\ Rest(s) \in Seq(Frame)
  BY CallType, EndRequestType, RestCalls, Zenon DEF Write
<1>2. \A q \in Last(s) : q = Over(w, Rest(s)) \/ (s = "out" /\ q = Over(p, Over(w, Rest(s))))
  BY DEF Last
<1>3. /\ Over(w, Rest(s)) \in Last(s)
      /\ s = "out" => Over(p, Over(w, Rest(s))) \in Last(s)
  BY DEF Last
<1> HIDE DEF w, p
<1>5. /\ Over(w, Rest(s)) \in Seq(Frame) /\ Over(w, Rest(s)) # <<>>
      /\ Head(Over(w, Rest(s))) = w /\ Tail(Over(w, Rest(s))) = Rest(s)
  BY <1>1, OverCalls
<1>6. /\ Over(p, Over(w, Rest(s))) \in Seq(Frame) /\ Over(p, Over(w, Rest(s))) # <<>>
      /\ Head(Over(p, Over(w, Rest(s)))) = p
      /\ Tail(Over(p, Over(w, Rest(s)))) = Over(w, Rest(s))
  BY <1>1, <1>5, OverCalls
<1> QED BY <1>2, <1>3, <1>5, <1>6, Zenon DEF w, p

(* The stack of a stream that is being closed. *)
LEMMA ClosingStack ==
  ASSUME NEW s \in Streams, Closing(s)
  PROVE  /\ stack # <<>> /\ Head(stack).s = s
         /\ st[s].rawWrite =>
              \/ stack = Rest(s) /\ Head(stack).op = "closed"
              \/ Head(stack).op = "put" /\ Tail(stack) \in Last(s)
              \/ Head(stack) = Write(s) /\ Tail(stack) = Rest(s)
              \/ Emptying(stack, s) /\ \E q \in Last(s) : Putting(Tail(stack), s, q)
         /\ ~st[s].rawWrite =>
              \/ Head(stack) = Call("empty", s, TRUE) /\ Tail(stack) = Rest(s)
              \/ /\ Head(stack) = Call("closeRecords", s, 0)
                 /\ Tail(stack) = Over(Write(s), Rest(s))
<1>1. CASE st[s].rawWrite
  <2>1. stack = Rest(s) \/ \E q \in Last(s) : stack = q \/ Busy(stack, s, q)
    BY <1>1 DEF Closing
  <2>2. CASE stack = Rest(s)
    BY <1>1, <2>2, RestCalls DEF Call
  <2>3. ASSUME NEW q \in Last(s), stack = q
        PROVE  /\ stack # <<>> /\ Head(stack).s = s
               /\ \/ Head(stack).op = "put" /\ Tail(stack) \in Last(s)
                  \/ Head(stack) = Write(s) /\ Tail(stack) = Rest(s)
    <3>1. CASE Head(q) = Write(s) /\ Tail(q) = Rest(s)
      <4>1. Head(q).s = s
        BY <3>1 DEF Call, Write
      <4> QED BY <2>3, <3>1, <4>1, LastCalls, Zenon
    <3>2. CASE Head(q) = Call("put", s, EndRequest) /\ Tail(q) = Over(Write(s), Rest(s))
      <4>1. Head(q).op = "put" /\ Head(q).s = s
        BY <3>2 DEF Call
      <4> QED BY <2>3, <3>2, <4>1, LastCalls, Zenon
    <3> QED BY <3>1, <3>2, LastCalls, Zenon
  <2>4. ASSUME NEW q \in Last(s), Busy(stack, s, q)
        PROVE  /\ stack # <<>> /\ Head(stack).s = s
               /\ \/ Head(stack).op = "put" /\ Tail(stack) \in Last(s)
                  \/ Emptying(stack, s) /\ Putting(Tail(stack), s, q)
    <3>1. CASE Putting(stack, s, q)
      BY <3>1, Zenon DEF Putting
    <3>2. CASE Emptying(stack, s) /\ Putting(Tail(stack), s, q)
      <4>1. stack # <<>> /\ Head(stack).s = s
        <5>1. Head(stack) = Call("empty", s, FALSE) \/ Head(stack) = Write(s)
          BY <3>2, Zenon DEF Emptying
        <5>2. Call("empty", s, FALSE).s = s /\ Write(s).s = s
          BY DEF Call, Write
        <5> QED BY <3>2, <5>1, <5>2, Zenon DEF Emptying
      <4> QED BY <3>2, <4>1, Zenon
    <3> QED BY <2>4, <3>1, <3>2, Zenon DEF Busy
  <2> QED BY <1>1, <2>1, <2>2, <2>3, <2>4
<1>2. CASE ~st[s].rawWrite
  <2> DEFINE e == Call("empty", s, TRUE)
             c == Call("closeRecords", s, 0)
  <2>1. stack = Over(e, Rest(s)) \/ stack = Over(c, Over(Write(s), Rest(s)))
    BY <1>2, Zenon DEF Closing
  <2>2. e \in Frame /\ c \in Frame /\ Write(s) \in Frame /\ Rest(s) \in Seq(Frame)
    BY CallType, RestCalls, Zenon DEF Write
  <2>3. e.s = s /\ c.s = s
    BY DEF Call
  <2> HIDE DEF e, c
  <2>4. Over(Write(s), Rest(s)) \in Seq(Frame)
    BY <2>2, OverCalls
  <2>5. \/ stack # <<>> /\ Head(stack) = e /\ Tail(stack) = Rest(s)
        \/ stack # <<>> /\ Head(stack) = c /\ Tail(stack) = Over(Write(s), Rest(s))
    <3>1. /\ Over(e, Rest(s)) # <<>> /\ Head(Over(e, Rest(s))) = e
          /\ Tail(Over(e, Rest(s))) = Rest(s)
      BY <2>2, OverCalls
    <3>2. /\ Over(c, Over(Write(s), Rest(s))) # <<>>
          /\ Head(Over(c, Over(Write(s), Rest(s)))) = c
          /\ Tail(Over(c, Over(Write(s), Rest(s)))) = Over(Write(s), Rest(s))
      BY <2>2, <2>4, OverCalls
    <3> QED BY <2>1, <3>1, <3>2, Zenon
  <2> QED BY <1>2, <2>3, <2>5, Zenon DEF e, c
<1> QED BY <1>1, <1>2, Zenon

(* What an EmptyBuffProc looks like on the stack. *)
LEMMA EmptyingFields ==
  ASSUME NEW s, Emptying(stack, s)
  PROVE  /\ Head(stack).s = s /\ Head(stack).op \in {"empty", "write"}
         /\ Head(stack).op = "empty" => Head(stack) = Call("empty", s, FALSE)
         /\ Head(stack).op = "write" => Head(stack) = Write(s)
<1>1. Head(stack) = Call("empty", s, FALSE) \/ Head(stack) = Write(s)
  BY Zenon DEF Emptying
<1>2. Call("empty", s, FALSE).s = s /\ Call("empty", s, FALSE).op = "empty"
      /\ Write(s).s = s /\ Write(s).op = "write"
  BY DEF Call, Write
<1> QED BY <1>1, <1>2, Zenon

(* Where the thread is, by the innermost call. *)
LEMMA Position ==
  ASSUME Control, stack # <<>>, NEW s, s = Head(stack).s
  PROVE  /\ s \in Streams
         /\ \/ /\ Opened
               /\ \/ Head(stack).op = "put" /\ Tail(stack) = <<>>
                  \/ /\ Emptying(stack, s)
                     /\ Tail(stack) = <<>> \/ Putting(Tail(stack), s, <<>>)
            \/ Closing(s)
<1>1. CASE Opened
  <2>1. PICK t \in Streams : Busy(stack, t, <<>>) \/ (Emptying(stack, t) /\ Tail(stack) = <<>>)
    BY <1>1 DEF Opened
  <2>2. CASE Putting(stack, t, <<>>)
    BY <1>1, <2>2, Zenon DEF Putting
  <2>3. CASE Emptying(stack, t) /\ (Tail(stack) = <<>> \/ Putting(Tail(stack), t, <<>>))
    <3>1. t = s
      BY <2>3, EmptyingFields, Zenon
    <3> QED BY <1>1, <2>3, <3>1, Zenon
  <2> QED BY <2>1, <2>2, <2>3, Zenon DEF Busy
<1>2. ASSUME NEW t \in Streams, Closing(t) PROVE t = s
  BY <1>2, ClosingStack, Zenon
<1>3. CASE Finished
  BY <1>3 DEF Finished
<1> QED BY <1>1, <1>2, <1>3 DEF Control, Streams

(* FCGX_PutStr is called by the application, or by WriteCloseRecords. *)
LEMMA AtPut ==
  ASSUME Control, Top("put"), NEW s, s = Head(stack).s
  PROVE  /\ s \in Streams
         /\ \/ Opened /\ Tail(stack) = <<>>
            \/ Closing(s) /\ st[s].rawWrite /\ Tail(stack) \in Last(s)
<1>1. stack # <<>> /\ Head(stack).op = "put"
  BY DEF Top
<1>2. ~ Emptying(stack, s)
  BY <1>1, EmptyingFields, Zenon
<1>3. CASE Closing(s) /\ s \in Streams
  <2>1. Head(stack) # Write(s) /\ Head(stack) # Call("empty", s, TRUE)
        /\ Head(stack) # Call("closeRecords", s, 0) /\ Head(stack).op # "closed"
    BY <1>1, SMT DEF Call, Write
  <2> QED BY <1>2, <1>3, <2>1, ClosingStack, Zenon
<1> QED BY <1>1, <1>2, <1>3, Position, Zenon

(* EmptyBuffProc is called by FCGX_FFlush, by FCGX_PutStr for a full       *)
(* buffer, or by FCGX_FClose.                                              *)
LEMMA AtEmpty ==
  ASSUME Control, Top("empty"), NEW s, s = Head(stack).s
  PROVE  /\ s \in Streams
         /\ \/ /\ Opened /\ Head(stack) = Call("empty", s, FALSE)
               /\ Tail(stack) = <<>> \/ Putting(Tail(stack), s, <<>>)
            \/ /\ Closing(s) /\ ~st[s].rawWrite /\ Head(stack) = Call("empty", s, TRUE)
               /\ Tail(stack) = Rest(s)
            \/ /\ Closing(s) /\ st[s].rawWrite /\ Head(stack) = Call("empty", s, FALSE)
               /\ \E q \in Last(s) : Putting(Tail(stack), s, q)
<1>1. stack # <<>> /\ Head(stack).op = "empty"
  BY DEF Top
<1>2. Emptying(stack, s) => Head(stack) = Call("empty", s, FALSE)
  BY <1>1, EmptyingFields, Zenon
<1>3. CASE Closing(s) /\ s \in Streams
  <2>1. Head(stack) # Write(s) /\ Head(stack) # Call("closeRecords", s, 0)
        /\ Head(stack).op # "closed" /\ Head(stack).op # "put"
    BY <1>1, SMT DEF Call, Write
  <2> QED BY <1>2, <1>3, <2>1, ClosingStack, Zenon
<1>4. Head(stack).op # "put"
  BY <1>1
<1> QED BY <1>1, <1>2, <1>3, <1>4, Position, Zenon

(* A write is made for one of these, or at the end of FCGX_FClose. *)
LEMMA AtWrite ==
  ASSUME Control, Top("write"), NEW s, s = Head(stack).s
  PROVE  /\ s \in Streams
         /\ \/ Opened /\ (Tail(stack) = <<>> \/ Putting(Tail(stack), s, <<>>))
            \/ /\ Closing(s) /\ st[s].rawWrite
               /\ \/ Tail(stack) = Rest(s)
                  \/ \E q \in Last(s) : Putting(Tail(stack), s, q)
<1>1. stack # <<>> /\ Head(stack).op = "write"
  BY DEF Top
<1>2. CASE Closing(s) /\ s \in Streams
  <2>1. Head(stack) # Call("empty", s, TRUE) /\ Head(stack) # Call("closeRecords", s, 0)
        /\ Head(stack).op # "closed" /\ Head(stack).op # "put"
    BY <1>1, SMT DEF Call, Write
  <2> QED BY <1>2, <2>1, ClosingStack, Zenon
<1>3. Head(stack).op # "put"
  BY <1>1
<1> QED BY <1>1, <1>2, <1>3, Position, Zenon

(* WriteCloseRecords is called once for a stream. *)
LEMMA AtCloseRecords ==
  ASSUME Control, Top("closeRecords"), NEW s, s = Head(stack).s
  PROVE  /\ s \in Streams /\ Closing(s) /\ ~st[s].rawWrite
         /\ Tail(stack) = Over(Write(s), Rest(s))
<1>1. stack # <<>> /\ Head(stack).op = "closeRecords"
  BY DEF Top
<1>2. ~ Emptying(stack, s)
  BY <1>1, EmptyingFields, Zenon
<1>3. Head(stack).op # "put" /\ Head(stack).op # "closed" /\ Head(stack) # Write(s)
      /\ Head(stack) # Call("empty", s, TRUE)
  BY <1>1, SMT DEF Call, Write
<1>4. s \in Streams /\ Closing(s)
  BY <1>1, <1>2, <1>3, Position, Zenon
<1> QED BY <1>2, <1>3, <1>4, ClosingStack, Zenon

(* The end of FCGX_FClose. *)
LEMMA AtClosed ==
  ASSUME Control, Top("closed"), NEW s, s = Head(stack).s
  PROVE  s \in Streams /\ Closing(s) /\ st[s].rawWrite /\ stack = Rest(s)
<1>1. stack # <<>> /\ Head(stack).op = "closed"
  BY DEF Top
<1>2. ~ Emptying(stack, s)
  BY <1>1, EmptyingFields, Zenon
<1>3. Head(stack).op # "put" /\ Head(stack) # Write(s)
      /\ Head(stack) # Call("empty", s, TRUE) /\ Head(stack) # Call("closeRecords", s, 0)
  BY <1>1 DEF Call, Write
<1>4. s \in Streams /\ Closing(s)
  BY <1>1, <1>2, <1>3, Position, Zenon
<1> QED BY <1>2, <1>3, <1>4, ClosingStack, Zenon

(* The thread returns to the application. *)
LEMMA AtReturn ==
  ASSUME Control, stack = <<>>
  PROVE  Opened \/ Finished
  BY ClosingStack, Zenon DEF Control, Streams

-----------------------------------------------------------------------------
(* A step that leaves the flags of the streams alone. *)
SameFlags ==
  /\ \A s \in Streams : /\ st'[s].rawWrite = st[s].rawWrite
                        /\ st'[s].wasFCloseCalled = st[s].wasFCloseCalled
  /\ phase' = phase /\ nWriters' = nWriters

(* A step of a call that the application waits for. *)
LEMMA KeepOpened ==
  ASSUME Opened, SameFlags, NEW s \in Streams,
         \/ stack' = <<>>
         \/ Busy(stack', s, <<>>) \/ (Emptying(stack', s) /\ Tail(stack') = <<>>)
  PROVE  Control'
<1>1. /\ phase' = "open" /\ nWriters' = 2
      /\ \A t \in Streams : ~st'[t].rawWrite /\ ~st'[t].wasFCloseCalled
  BY DEF Opened, SameFlags
<1>2. Opened'
  BY <1>1, Zenon DEF Opened
<1> QED BY <1>2 DEF Control

(* A step of a call that WriteCloseRecords waits for, or that follows it. *)
LEMMA KeepRaw ==
  ASSUME NEW s \in Streams, Closing(s), st[s].rawWrite, SameFlags,
         stack' = Rest(s) \/ \E q \in Last(s) : stack' = q \/ Busy(stack', s, q)
  PROVE  Control'
<1>1. /\ phase' = "finishing" /\ ~st'[s].wasFCloseCalled
      /\ nWriters' = (IF s = "err" THEN 2 ELSE 1) - (IF st'[s].rawWrite THEN 1 ELSE 0)
  BY DEF Closing, SameFlags
<1>2. IF s = "err" THEN ~st'["out"].rawWrite /\ ~st'["out"].wasFCloseCalled
                   ELSE st'["err"].rawWrite
  BY DEF Closing, SameFlags, Streams
<1>3. st'[s].rawWrite
  BY DEF SameFlags
<1>4. Closing(s)'
  BY <1>1, <1>2, <1>3, Zenon DEF Closing
<1> QED BY <1>4, Zenon DEF Control, Streams

(* A step that changes one buffer. *)
LEMMA BufferOnly ==
  ASSUME Types, NEW s \in Streams, NEW buf, st' = [st EXCEPT ![s].buf = buf],
         phase' = phase, nWriters' = nWriters
  PROVE  SameFlags
  BY DEF Types, SameFlags, Writer

(* FCGX_PutStr returns, or has EmptyBuffProc make room. *)
LEMMA PutStrControl == Inv /\ Control /\ PutStr => Control'
<1> SUFFICES ASSUME Inv, Control, PutStr PROVE Control'
  OBVIOUS
<1> DEFINE q == Tail(stack)
<1>0. PICK s : s = Head(stack).s
  OBVIOUS
<1>1. /\ s \in Streams
      /\ \/ Opened /\ q = <<>>
         \/ Closing(s) /\ st[s].rawWrite /\ q \in Last(s)
  BY <1>0, AtPut, Zenon DEF PutStr
<1>2. PICK buf : st' = [st EXCEPT ![s].buf = buf]
  BY <1>0, Zenon DEF PutStr
<1>3. SameFlags
  BY <1>1, <1>2, BufferOnly, Zenon DEF Inv, PutStr
<1>4. PICK x : stack' = q \/ stack' = Over(Call("empty", s, FALSE), Over(Call("put", s, x), q))
  BY <1>0, Zenon DEF PutStr, Return
<1>5. stack' = q \/ Busy(stack', s, q)
  <2> DEFINE a == Call("empty", s, FALSE)
             b == Call("put", s, x)
  <2>1. q \in Seq(Frame)
    BY Returned, Zenon DEF Inv, Types, PutStr, Top
  <2>2. a \in {a, Write(s)} /\ b.op = "put" /\ b.s = s
    BY DEF Call
  <2>3. CASE stack' = Over(a, Over(b, q))
    <3> HIDE DEF a, b, q
    <3>2. Over(b, q) # <<>> /\ Head(Over(b, q)) = b /\ Tail(Over(b, q)) = q
          /\ Over(b, q) \in Seq(Frame \cup {b})
      <4>1. q \in Seq(Frame \cup {b}) /\ b \in Frame \cup {b}
        BY <2>1
      <4> QED BY <4>1, OverCalls, Zenon
    <3>3. stack' # <<>> /\ Head(stack') = a /\ Tail(stack') = Over(b, q)
      <4>1. /\ Over(a, Over(b, q)) # <<>> /\ Head(Over(a, Over(b, q))) = a
            /\ Tail(Over(a, Over(b, q))) = Over(b, q)
        <5>1. PICK S, r : r = Over(b, q) /\ r \in Seq(S)
          BY <3>2, Zenon
        <5>2. Over(a, r) # <<>> /\ Head(Over(a, r)) = a /\ Tail(Over(a, r)) = r
          BY <5>1, OverCalls
        <5> QED BY <5>1, <5>2, Zenon
      <4> QED BY <2>3, <4>1, Zenon
    <3> QED BY <2>2, <3>2, <3>3, Zenon DEF Busy, Emptying, Putting, a
  <2> QED BY <1>4, <2>3, Zenon
<1>6. CASE Opened /\ q = <<>>
  BY <1>1, <1>3, <1>5, <1>6, KeepOpened, Zenon
<1>7. CASE Closing(s) /\ st[s].rawWrite /\ q \in Last(s)
  BY <1>1, <1>3, <1>5, <1>7, KeepRaw, Zenon
<1> QED BY <1>1, <1>6, <1>7

(* EmptyBuffProc goes on to write, after WriteCloseRecords at the end. *)
LEMMA EmptyControl == Inv /\ Control /\ EmptyBuffProc => Control'
<1> SUFFICES ASSUME Inv, Control, EmptyBuffProc PROVE Control'
  OBVIOUS
<1> DEFINE q == Tail(stack)
<1>0. PICK s : s = Head(stack).s
  OBVIOUS
<1> DEFINE c == Call("closeRecords", s, 0)
<1>1. Top("empty") /\ stack # <<>> /\ q \in Seq(Frame)
  BY Returned DEF Inv, Types, EmptyBuffProc, Top
<1>2. SameFlags
  <2>1. s \in Streams
    BY <1>0, <1>1, AtEmpty, Zenon
  <2>2. phase' = phase /\ nWriters' = nWriters
    BY DEF EmptyBuffProc
  <2>3. CASE st' = st
    BY <2>2, <2>3 DEF SameFlags
  <2>4. CASE \E buf : st' = [st EXCEPT ![s].buf = buf]
    BY <2>1, <2>2, <2>4, BufferOnly, Zenon DEF Inv
  <2> QED BY <1>0, <2>3, <2>4, Zenon DEF EmptyBuffProc
<1>3. stack' = IF Head(stack).arg THEN Over(c, Over(Write(s), q)) ELSE Over(Write(s), q)
  BY <1>0, Zenon DEF EmptyBuffProc, Write
<1>4. Head(stack) = Call("empty", s, FALSE) => stack' = Over(Write(s), q)
  <2>1. Call("empty", s, FALSE).arg = FALSE
    BY DEF Call
  <2> QED BY <1>3, <2>1, Zenon
<1>5. Head(stack) = Call("empty", s, TRUE) => stack' = Over(c, Over(Write(s), q))
  <2>1. Call("empty", s, TRUE).arg = TRUE
    BY DEF Call
  <2> QED BY <1>3, <2>1, Zenon
<1>6. /\ Over(Write(s), q) # <<>> /\ Tail(Over(Write(s), q)) = q
      /\ Emptying(Over(Write(s), q), s)
  <2>1. Over(Write(s), q) # <<>> /\ Tail(Over(Write(s), q)) = q
        /\ Head(Over(Write(s), q)) = Write(s)
    BY <1>1, OverCalls, Zenon
  <2> QED BY <2>1, Zenon DEF Emptying
<1> HIDE DEF q, c
<1>7. CASE /\ s \in Streams /\ Opened /\ Head(stack) = Call("empty", s, FALSE)
           /\ q = <<>> \/ Putting(q, s, <<>>)
  BY <1>2, <1>4, <1>6, <1>7, KeepOpened, Zenon DEF Busy
<1>8. CASE /\ s \in Streams /\ Closing(s) /\ st[s].rawWrite
           /\ Head(stack) = Call("empty", s, FALSE)
           /\ \E l \in Last(s) : Putting(q, s, l)
  BY <1>2, <1>4, <1>6, <1>8, KeepRaw, Zenon DEF Busy
<1>9. CASE /\ s \in Streams /\ Closing(s) /\ ~st[s].rawWrite
           /\ Head(stack) = Call("empty", s, TRUE) /\ q = Rest(s)
  <2>1. stack' = Over(c, Over(Write(s), Rest(s)))
    BY <1>5, <1>9, Zenon
  <2>2. Closing(s)'
    <3>1. /\ phase' = "finishing" /\ ~st'[s].wasFCloseCalled /\ ~st'[s].rawWrite
          /\ nWriters' = (IF s = "err" THEN 2 ELSE 1) - (IF st'[s].rawWrite THEN 1 ELSE 0)
      BY <1>2, <1>9 DEF Closing, SameFlags
    <3>2. IF s = "err" THEN ~st'["out"].rawWrite /\ ~st'["out"].wasFCloseCalled
                       ELSE st'["err"].rawWrite
      BY <1>2, <1>9 DEF Closing, SameFlags, Streams
    <3> QED BY <2>1, <3>1, <3>2, Zenon DEF Closing, c
  <2> QED BY <1>9, <2>2, Zenon DEF Control, Streams
<1> QED BY <1>0, <1>1, <1>7, <1>8, <1>9, AtEmpty, Zenon DEF q

-----------------------------------------------------------------------------
(* WriteCloseRecords puts its records and returns to the write. *)
LEMMA CloseControl == Inv /\ Control /\ WriteCloseRecords => Control'
<1> SUFFICES ASSUME Inv, Control, WriteCloseRecords PROVE Control'
  OBVIOUS
<1> DEFINE q == Tail(stack)
<1>0. PICK s : s = Head(stack).s
  OBVIOUS
<1> DEFINE calls == IF nWriters = 1 THEN Over(Call("put", s, EndRequest), q) ELSE q
<1>1. s \in Streams /\ Closing(s) /\ ~st[s].rawWrite /\ q = Over(Write(s), Rest(s))
  BY <1>0, AtCloseRecords, Zenon DEF WriteCloseRecords
<1>2. stack' = calls \/ stack' = Over(Call("put", s, Header(s, 0, 0)), calls)
  BY <1>0, Zenon DEF WriteCloseRecords
<1>3. st' = [st EXCEPT ![s].rawWrite = TRUE] /\ nWriters' = nWriters - 1 /\ phase' = phase
  BY <1>0, Zenon DEF WriteCloseRecords
<1>4. nWriters = IF s = "err" THEN 2 ELSE 1
  BY <1>1 DEF Closing
<1>5. calls \in Last(s)
  <2>1. CASE s = "out"
    <3>1. nWriters = 1
      BY <1>4, <2>1
    <3> QED BY <1>1, <2>1, <3>1, LastCalls, Zenon
  <2>2. CASE s = "err"
    <3>1. nWriters # 1
      BY <1>4, <2>2
    <3> QED BY <1>1, <3>1, LastCalls, Zenon
  <2> QED BY <1>1, <2>1, <2>2 DEF Streams
<1> HIDE DEF calls
<1>6. \E l \in Last(s) : stack' = l \/ Busy(stack', s, l)
  <2> DEFINE p == Call("put", s, Header(s, 0, 0))
  <2>1. p.op = "put" /\ p.s = s
    BY DEF Call
  <2> HIDE DEF p
  <2>2. calls \in Seq(Frame)
    BY <1>1, <1>5, LastCalls, Zenon
  <2>3. Over(p, calls) # <<>> /\ Head(Over(p, calls)) = p /\ Tail(Over(p, calls)) = calls
    BY <2>2, OverCalls, Zenon
  <2>4. stack' = Over(p, calls) => Putting(stack', s, calls)
    BY <2>1, <2>3, Zenon DEF Putting
  <2> QED BY <1>2, <1>5, <2>4, Zenon DEF Busy, p
<1>7. /\ \A t \in Streams : st'[t].wasFCloseCalled = st[t].wasFCloseCalled
      /\ \A t \in Streams : t # s => st'[t].rawWrite = st[t].rawWrite
      /\ st'[s].rawWrite
  BY <1>1, <1>3 DEF Inv, Types, Writer
<1>8. Closing(s)'
  <2>1. phase' = "finishing" /\ ~st'[s].wasFCloseCalled
    BY <1>1, <1>3, <1>7 DEF Closing
  <2>2. IF s = "err" THEN ~st'["out"].rawWrite /\ ~st'["out"].wasFCloseCalled
                     ELSE st'["err"].rawWrite
    BY <1>1, <1>7 DEF Closing, Streams
  <2>3. nWriters' = (IF s = "err" THEN 2 ELSE 1) - (IF st'[s].rawWrite THEN 1 ELSE 0)
    BY <1>3, <1>4, <1>7
  <2> QED BY <1>6, <1>7, <2>1, <2>2, <2>3, Zenon DEF Closing
<1> QED BY <1>1, <1>8, Zenon DEF Control, Streams

(* A write goes on, or returns to the call that had to write. *)
LEMMA WriteControl == Inv /\ Control /\ (OsWrite \/ OsWriteFails \/ Written) => Control'
<1> SUFFICES ASSUME Inv, Control, OsWrite \/ OsWriteFails \/ Written PROVE Control'
  OBVIOUS
<1> DEFINE q == Tail(stack)
<1>0. PICK s : s = Head(stack).s
  OBVIOUS
<1>1. /\ s \in Streams /\ stack # <<>>
      /\ \/ Opened /\ (q = <<>> \/ Putting(q, s, <<>>))
         \/ /\ Closing(s) /\ st[s].rawWrite
            /\ q = Rest(s) \/ \E l \in Last(s) : Putting(q, s, l)
  BY <1>0, AtWrite, Zenon DEF OsWrite, OsWriteFails, Written, Top
<1>2. SameFlags
  <2>1. phase' = phase /\ nWriters' = nWriters
    BY Zenon DEF OsWrite, OsWriteFails, Written
  <2>2. CASE OsWrite
    <3>1. st' = [st EXCEPT ![s].isAnythingWritten = TRUE]
      BY <1>0, <2>2, Zenon DEF OsWrite
    <3> QED BY <1>1, <2>1, <3>1 DEF Inv, Types, Writer, SameFlags
  <2>3. CASE OsWriteFails
    <3>1. st' = [st EXCEPT ![s] = [st[s] EXCEPT !.isAnythingWritten = TRUE, !.errno = TRUE,
                                                !.isClosed = TRUE]]
      BY <1>0, <1>1, <2>3, Zenon DEF OsWriteFails, Inv, Types
    <3> QED BY <1>1, <2>1, <3>1 DEF Inv, Types, Writer, SameFlags
  <2>4. CASE Written
    <3>1. PICK buf : st' = [st EXCEPT ![s].buf = buf]
      BY <1>0, <2>4, Zenon DEF Written
    <3> QED BY <1>1, <2>1, <3>1, BufferOnly, Zenon DEF Inv
  <2> QED BY <2>2, <2>3, <2>4
<1>3. CASE OsWrite
  <2>1. stack' = stack
    BY <1>3 DEF OsWrite
  <2>2. Emptying(stack, s)
    <3>1. stack \in Seq(Frame) /\ Head(stack).op = "write"
      BY <1>3 DEF OsWrite, Top, Inv, Types
    <3>2. ASSUME Opened PROVE Emptying(stack, s)
      <4>1. \E t \in Streams : Emptying(stack, t)
        BY <1>1, <3>1, <3>2 DEF Opened, Busy, Putting
      <4> QED BY <1>0, <4>1, EmptyingFields, Zenon
    <3>3. ASSUME Closing(s) PROVE Emptying(stack, s)
      <4>1. Head(stack) = Write(s) => Emptying(stack, s)
        BY <1>1, Zenon DEF Emptying
      <4>2. /\ Head(stack).op # "put" /\ Head(stack).op # "closed"
            /\ Head(stack) # Call("empty", s, TRUE) /\ Head(stack) # Call("closeRecords", s, 0)
        BY <3>1 DEF Call
      <4> QED BY <1>1, <3>3, <4>1, <4>2, ClosingStack, Zenon
    <3> QED BY <1>1, <3>2, <3>3, SMTT(30)
  <2>3. CASE Opened /\ (q = <<>> \/ Putting(q, s, <<>>))
    BY <1>1, <1>2, <2>1, <2>2, <2>3, KeepOpened, Zenon DEF Busy
  <2>4. CASE Closing(s) /\ st[s].rawWrite
    BY <1>1, <1>2, <2>1, <2>4, KeepRaw, Zenon DEF Closing
  <2> QED BY <1>1, <2>3, <2>4, SMTT(30)
<1>4. CASE OsWriteFails \/ Written
  <2>1. stack' = q
    BY <1>4, Zenon DEF OsWriteFails, Written, Return
  <2>2. CASE Opened /\ (q = <<>> \/ Putting(q, s, <<>>))
    BY <1>1, <1>2, <2>1, <2>2, KeepOpened, Zenon DEF Busy
  <2>3. CASE /\ Closing(s) /\ st[s].rawWrite
             /\ q = Rest(s) \/ \E l \in Last(s) : Putting(q, s, l)
    BY <1>1, <1>2, <2>1, <2>3, KeepRaw, Zenon DEF Busy
  <2> QED BY <1>1, <2>2, <2>3
<1> QED BY <1>3, <1>4

(* FCGX_FClose of err returns to that of out, which returns to the server. *)
LEMMA ClosedControl == Inv /\ Control /\ Closed => Control'
<1> SUFFICES ASSUME Inv, Control, Closed PROVE Control'
  OBVIOUS
<1>0. PICK s : s = Head(stack).s
  OBVIOUS
<1>1. s \in Streams /\ Closing(s) /\ st[s].rawWrite /\ stack = Rest(s)
  BY <1>0, AtClosed, Zenon DEF Closed
<1>2. /\ st' = [st EXCEPT ![s] = [st[s] EXCEPT !.wasFCloseCalled = TRUE, !.isClosed = TRUE]]
      /\ stack' = Tail(stack) /\ phase' = phase /\ nWriters' = nWriters
  BY <1>0, <1>1, Zenon DEF Closed, Return, Inv, Types
<1>3. /\ \A t \in Streams : st'[t].rawWrite = st[t].rawWrite
      /\ \A t \in Streams : t # s => st'[t].wasFCloseCalled = st[t].wasFCloseCalled
  BY <1>1, <1>2 DEF Inv, Types, Writer
<1>4. CASE s = "err"
  <2>1. stack' = Over(Call("empty", "out", TRUE), Rest("out"))
    BY <1>1, <1>2, <1>4, RestCalls, Zenon
  <2>2. /\ phase' = "finishing" /\ ~st'["out"].wasFCloseCalled /\ ~st'["out"].rawWrite
        /\ st'["err"].rawWrite /\ nWriters' = 1
    BY <1>1, <1>2, <1>3, <1>4 DEF Closing, Streams
  <2>3. Closing("out")'
    <3>1. "out" # "err" /\ 1 = 1 - 0
      OBVIOUS
    <3> QED BY <2>1, <2>2, <3>1, Zenon DEF Closing
  <2> QED BY <2>3 DEF Control
<1>5. CASE s = "out"
  <2>1. s # "err"
    BY <1>5
  <2>2. stack' = <<>>
    BY <1>1, <1>2, <2>1, RestCalls, Zenon
  <2>3. phase' = "finishing" /\ st'["err"].rawWrite /\ st'["out"].rawWrite
    BY <1>1, <1>2, <1>3, <1>5 DEF Closing, Streams
  <2>4. Finished'
    BY <2>2, <2>3 DEF Finished
  <2> QED BY <2>4 DEF Control
<1> QED BY <1>1, <1>4, <1>5 DEF Streams

(* The calls of the application. *)
LEMMA AppControl == Control /\ (AppPut \/ AppFlush \/ AppFinish \/ Done) => Control'
<1> SUFFICES ASSUME Control, AppPut \/ AppFlush \/ AppFinish \/ Done PROVE Control'
  OBVIOUS
<1>1. stack = <<>> /\ st' = st /\ nWriters' = nWriters
  BY Zenon DEF AppPut, AppFlush, AppFinish, Done
<1>2. Opened \/ Finished
  BY <1>1, AtReturn
<1>3. CASE AppPut
  <2>1. Opened /\ SameFlags
    BY <1>1, <1>2, <1>3 DEF AppPut, Finished, SameFlags
  <2>2. PICK s \in Streams : \E x : stack' = <<Call("put", s, x)>>
    BY <1>3, Zenon DEF AppPut
  <2>4. PICK x : stack' = <<Call("put", s, x)>>
    BY <2>2
  <2>3. Busy(stack', s, <<>>)
    <3> DEFINE p == Call("put", s, x)
    <3>1. p.op = "put" /\ p.s = s
      BY DEF Call
    <3> HIDE DEF p
    <3>2. stack' # <<>> /\ Head(stack') = p /\ Tail(stack') = <<>>
      BY <2>4 DEF p
    <3> QED BY <3>1, <3>2, Zenon DEF Busy, Putting
  <2> QED BY <2>1, <2>3, KeepOpened, Zenon
<1>4. CASE AppFlush
  <2>1. Opened /\ SameFlags
    BY <1>1, <1>2, <1>4 DEF AppFlush, Finished, SameFlags
  <2>2. PICK s \in Streams : stack' = <<Call("empty", s, FALSE)>>
    BY <1>4, Zenon DEF AppFlush
  <2>3. Emptying(stack', s) /\ Tail(stack') = <<>>
    <3> DEFINE p == Call("empty", s, FALSE)
    <3>1. p \in {Call("empty", s, FALSE), Write(s)} /\ stack' = <<p>>
      BY <2>2
    <3> HIDE DEF p
    <3>2. stack' # <<>> /\ Head(stack') = p /\ Tail(stack') = <<>>
      BY <3>1
    <3> QED BY <3>1, <3>2, Zenon DEF Emptying
  <2> QED BY <2>1, <2>3, KeepOpened, Zenon
<1>5. CASE AppFinish
  <2>1. phase' = "finishing" /\ stack' = FClose("err", FClose("out", <<>>))
    BY <1>5 DEF AppFinish
  <2>2. stack' = Over(Call("empty", "err", TRUE), Rest("err"))
    BY <2>1 DEF FClose, Rest
  <2>3. /\ ~st'["err"].wasFCloseCalled /\ ~st'["err"].rawWrite
        /\ ~st'["out"].wasFCloseCalled /\ ~st'["out"].rawWrite /\ nWriters' = 2
    BY <1>1, <1>2, <1>5 DEF Opened, Finished, AppFinish, Streams
  <2>4. Closing("err")'
    <3>1. 2 = 2 - 0
      OBVIOUS
    <3> QED BY <2>1, <2>2, <2>3, <3>1, Zenon DEF Closing
  <2> QED BY <2>4 DEF Control
<1>6. CASE Done
  BY <1>1, <1>2, <1>6 DEF Done, Opened, Finished, Control
<1> QED BY <1>3, <1>4, <1>5, <1>6

(* Every step keeps the stack in order. *)
LEMMA StepControl == Inv /\ Control /\ [Next]_vars => Control'
<1> SUFFICES ASSUME Inv, Control, [Next]_vars PROVE Control'
  OBVIOUS
<1>1. CASE PeerGone \/ UNCHANGED vars
  <2>1. UNCHANGED <<st, stack, phase, nWriters>>
    BY <1>1 DEF PeerGone, vars
  <2> QED BY <2>1, Zenon DEF Control, Opened, Closing, Finished
<1> QED BY <1>1, PutStrControl, EmptyControl, CloseControl, WriteControl, ClosedControl,
           AppControl, Zenon DEF Next, Library
=============================================================================
