-------------------------- MODULE FcgiRecordProofs --------------------------
(***************************************************************************)
(* What the web server receives from FcgiOutput, first part: what a record *)
(* appended to the bytes on their way does to their framing, their order   *)
(* and the ends of the streams, and how FCGX_PutStr and EmptyBuffProc move *)
(* bytes from the caller to a buffer and from a buffer into a record.      *)
(***************************************************************************)
EXTENDS FcgiOutputProofs

(* A record, or several, complete to the last byte. *)
Records(x) == Framed(x) /\ \A i \in Starts(x) : RecordEnd(x, i) <= Len(x) + 1

(* Stream s has got to m in the first n bytes of x.                        *)
Greatest(x, s, n, m) == m \in Numbers(x, s, n) /\ Numbers(x, s, n) \subseteq 0..m
Complete(x) ==
  Records(x) /\ \A s \in Streams : Greatest(x, s, Len(x), Reached(x, s, Len(x)))

(* What the end of a stream and of the request say of x, when p[s] bytes   *)
(* were put on stream s: the end of a stream comes once and after all of   *)
(* them, the end of the request after the end of out and with nothing      *)
(* behind it.                                                              *)
Ends(x, p) ==
  /\ \A s \in Streams : \A i \in Eofs(x, s) :
       /\ Reached(x, s, i) = p[s]
       /\ \A j \in i..Len(x) : x[j].k # s
       /\ \A j \in Eofs(x, s) : j = i
  /\ \A i \in Starts(x) : x[i].v.type = "end" =>
       /\ \E j \in Eofs(x, "out") : j < i
       /\ \A j \in Starts(x) : j <= i

Safe(x, p) == Framed(x) /\ Ordered(x) /\ Ends(x, p)

-----------------------------------------------------------------------------
(* The bytes a call on top of the calls q has to put. *)
Bytes(q) == IF q # <<>> /\ Head(q).op = "put" THEN Head(q).arg ELSE <<>>
Under(q) == IF q = <<>> THEN <<>> ELSE Tail(q)

(* The calls below an EmptyBuffProc. *)
Waiting(q) == IF q # <<>> /\ Head(q).op \in {"empty", "write"} THEN Tail(q) ELSE q

Current(q, s) == q # <<>> /\ Head(q).s = s

(* The buffer of the stream of the first call holds records to be written. *)
Recorded(q, raw) ==
  /\ q # <<>>
  /\ \/ Head(q).op \in {"write", "closeRecords"}
     \/ raw /\ Head(q).op \in {"put", "empty"}

(* The closing records that are still to be put. *)
Raw(q) == Bytes(Waiting(q)) \o Bytes(Under(Waiting(q)))

(* What the web server has received when the records that exist have been  *)
(* written, k being what it has received, q the calls to be made, w the    *)
(* stream of the first and o the bytes written of its buffer.              *)
Unsent(q, w, o) ==
  (IF Recorded(q, w.rawWrite) THEN SubSeq(w.buf, o + 1, Len(w.buf)) ELSE <<>>)
    \o (IF w.rawWrite THEN Raw(q) ELSE <<>>)
WireOf(k, q, w, o) == IF q = <<>> THEN k ELSE k \o Unsent(q, w, o)
Wire == WireOf(sock, stack, st[Head(stack).s], offset)

(* The bytes of stream s that a call has to put, and whether all others    *)
(* have been made records.                                                 *)
ToPut(q, s, w) == IF Current(q, s) /\ ~w.rawWrite THEN Bytes(Waiting(q)) ELSE <<>>
Away(q, s, w) == w.rawWrite \/ (Current(q, s) /\ Recorded(q, w.rawWrite))

(* The n bytes put on s are on the wire x, in the buffer or in the bytes b *)
(* still to be put.                                                        *)
Carried(x, s, n, b) ==
  LET m == n - Len(b)
  IN /\ m \in Nat /\ Reached(x, s, Len(x)) \in 0..m
     /\ \A i \in 1..Len(b) : b[i] = B(s, m + i)
Buffered(x, s, m, buf) ==
  LET a == Reached(x, s, Len(x))
  IN /\ Len(buf) = Unit + (m - a)
     /\ \A i \in 1..(m - a) : buf[Unit + i] = B(s, a + i)

Held(x, s, n, q, w) ==
  /\ Carried(x, s, n, ToPut(q, s, w))
  /\ IF Away(q, s, w) THEN Reached(x, s, Len(x)) = n - Len(ToPut(q, s, w))
     ELSE Buffered(x, s, n - Len(ToPut(q, s, w)), w.buf)
  /\ w.isClosed => w.wasFCloseCalled
  /\ ~w.rawWrite => Eofs(x, s) = {}

Ended(x) == \E i \in Starts(x) : x[i].v.type = "end" /\ RecordEnd(x, i) = Len(x) + 1
Unended(x) == \A i \in Starts(x) : x[i].v.type # "end"

Content ==
  /\ Complete(Wire) /\ Safe(Wire, put)
  /\ \A s \in Streams : Held(Wire, s, put[s], stack, st[s])
  /\ IF st["out"].rawWrite THEN Ended(Wire) ELSE Unended(Wire)

(* What the web server has received, as long as it is there and when it    *)
(* has gone.                                                               *)
Data ==
  /\ sock \in Seq(Byte)
  /\ broken => /\ Safe(sock, put)
               /\ phase = "open" => \A s \in Streams : Eofs(sock, s) = {}
  /\ ~broken => Content

-----------------------------------------------------------------------------
(* The empty sequence is neutral. *)
LEMMA ConcatEmpty ==
  ASSUME NEW S, NEW x \in Seq(S)
  PROVE  x \o <<>> = x /\ <<>> \o x = x
  OBVIOUS

(* Concatenation is associative. *)
LEMMA ConcatAssoc ==
  \A x, y, z \in Seq(Byte) : (x \o y) \o z = x \o (y \o z)
<1> HIDE DEF Byte
<1> SUFFICES ASSUME NEW x \in Seq(Byte), NEW y \in Seq(Byte), NEW z \in Seq(Byte)
             PROVE  (x \o y) \o z = x \o (y \o z)
  OBVIOUS
<1> QED OBVIOUS

(* The bytes of two sequences, one after the other. *)
LEMMA Joined ==
  ASSUME NEW x \in Seq(Byte), NEW y \in Seq(Byte)
  PROVE  /\ x \o y \in Seq(Byte)
         /\ Len(x) \in Nat /\ Len(y) \in Nat
         /\ Len(x \o y) = Len(x) + Len(y)
         /\ \A i \in 1..Len(x) : (x \o y)[i] = x[i]
         /\ \A i \in (Len(x) + 1)..(Len(x) + Len(y)) : (x \o y)[i] = y[i - Len(x)]
         /\ \A i \in 1..Len(y) : (x \o y)[Len(x) + i] = y[i]
<1> HIDE DEF Byte
<1> DEFINE z == x \o y
<1>1. /\ z \in Seq(Byte) /\ Len(z) = Len(x) + Len(y)
      /\ \A i \in 1..(Len(x) + Len(y)) : z[i] = IF i <= Len(x) THEN x[i] ELSE y[i - Len(x)]
  BY Concat, Zenon
<1>2. Len(x) \in Nat /\ Len(y) \in Nat
  OBVIOUS
<1> HIDE DEF z
<1>3. \A i \in 1..Len(x) : z[i] = x[i]
  BY <1>1, <1>2
<1>4. \A i \in (Len(x) + 1)..(Len(x) + Len(y)) : z[i] = y[i - Len(x)]
  BY <1>1, <1>2
<1>5. ASSUME NEW i \in 1..Len(y) PROVE z[Len(x) + i] = y[i]
  <2>1. Len(x) + i \in (Len(x) + 1)..(Len(x) + Len(y)) /\ (Len(x) + i) - Len(x) = i
    BY <1>2
  <2> QED BY <1>4, <2>1
<1> QED BY <1>1, <1>2, <1>3, <1>4, <1>5, Zenon DEF z

(* What the first byte of a header says. *)
LEMMA HeaderValue ==
  ASSUME NEW x \in Seq(Byte), NEW i \in Starts(x)
  PROVE  /\ i \in 1..Len(x) /\ i \in Nat /\ x[i].k = "header"
         /\ x[i].v \in Fields /\ x[i].v.type \in Type
         /\ x[i].v.clen \in Nat /\ x[i].v.plen \in Nat
         /\ RecordEnd(x, i) \in Nat /\ RecordEnd(x, i) > i
<1>1. i \in 1..Len(x) /\ x[i].k = "header" /\ i \in Nat
  BY DEF Starts
<1>2. x[i] \in Byte
  BY <1>1
<1>3. x[i].v \in Fields
  BY <1>1, <1>2 DEF Byte, Kind, Streams
<1>4. x[i].v.type \in Type /\ x[i].v.clen \in Nat /\ x[i].v.plen \in Nat
  BY <1>3 DEF Fields
<1>5. RecordEnd(x, i) \in Nat /\ RecordEnd(x, i) > i
  BY <1>1, <1>4, FcgiOutputAssumption, SMTT(30) DEF RecordEnd
<1> QED BY <1>1, <1>3, <1>4, <1>5

(* What the bytes of a record are. *)
LEMMA KindFacts ==
  ASSUME NEW h \in Fields, NEW d \in Nat
  PROVE  /\ KindAt(h, d) = "header" <=> d = 0
         /\ KindAt(h, d) \in Streams =>
              KindAt(h, d) = h.type /\ Unit <= d /\ d < Unit + h.clen
         /\ Unit <= d /\ d < Unit + h.clen /\ h.type \in Streams => KindAt(h, d) = h.type
<1>1. h.type \in Type /\ h.clen \in Nat /\ Unit \in Nat /\ Unit >= 2
  BY FcgiOutputAssumption DEF Fields
<1> QED BY <1>1 DEF KindAt, Type, Streams

(* A record: a header, the content and the padding it announces. *)
IsRecord(r) ==
  /\ r # <<>> /\ r[1].k = "header" /\ Len(r) + 1 = RecordEnd(r, 1)
  /\ \A j \in 1..Len(r) : r[j].k = KindAt(r[1].v, j - 1)

(* The length of a record, and what its header says. *)
LEMMA RecordFacts ==
  ASSUME NEW r \in Seq(Byte), IsRecord(r)
  PROVE  /\ Starts(r) = {1} /\ Len(r) \in Nat /\ Len(r) >= Unit
         /\ Len(r) = Unit + r[1].v.clen + r[1].v.plen
         /\ r[1].v \in Fields /\ r[1].v.type \in Type
         /\ r[1].v.clen \in Nat /\ r[1].v.plen \in Nat
<1>1. Len(r) \in Nat /\ 1 \in 1..Len(r) /\ Unit \in Nat /\ Unit >= 2
  BY FcgiOutputAssumption DEF IsRecord
<1>2. 1 \in Starts(r)
  BY <1>1 DEF Starts, IsRecord
<1>3. /\ r[1].v \in Fields /\ r[1].v.type \in Type
      /\ r[1].v.clen \in Nat /\ r[1].v.plen \in Nat
  BY <1>2, HeaderValue, Zenon
<1>4. Len(r) = Unit + r[1].v.clen + r[1].v.plen
  <2>1. Len(r) + 1 = 1 + Unit + r[1].v.clen + r[1].v.plen
    BY Zenon DEF IsRecord, RecordEnd
  <2>2. PICK c, p : c = r[1].v.clen /\ p = r[1].v.plen
    BY Zenon
  <2>3. Len(r) + 1 = 1 + Unit + c + p /\ c \in Nat /\ p \in Nat
    BY <1>3, <2>1, <2>2, Zenon
  <2>4. Len(r) = Unit + c + p
    BY <1>1, <2>3
  <2> QED BY <2>2, <2>4, Zenon
<1>5. ASSUME NEW j \in Starts(r) PROVE j = 1
  <2>1. j \in 1..Len(r) /\ r[j].k = "header" /\ j - 1 \in Nat
    BY DEF Starts
  <2>2. KindAt(r[1].v, j - 1) = "header"
    BY <2>1 DEF IsRecord
  <2>3. j - 1 = 0
    BY <1>3, <2>1, <2>2, KindFacts
  <2> QED BY <2>1, <2>3
<1>6. Starts(r) = {1}
  BY <1>2, <1>5
<1> QED BY <1>1, <1>3, <1>4, <1>6, SMTT(30)

(* The records of what is sent first stay where they are. *)
LEMMA StartsJoined ==
  ASSUME NEW x \in Seq(Byte), NEW y \in Seq(Byte)
  PROVE  /\ Starts(x) \subseteq Starts(x \o y)
         /\ \A i \in Starts(x \o y) : i <= Len(x) => i \in Starts(x)
         /\ \A i \in Starts(x \o y) : i > Len(x) => i - Len(x) \in Starts(y)
         /\ \A i \in Starts(y) : Len(x) + i \in Starts(x \o y)
         /\ \A i \in Starts(x) : /\ (x \o y)[i] = x[i]
                                 /\ RecordEnd(x \o y, i) = RecordEnd(x, i)
<1> DEFINE z == x \o y
<1>1. /\ Len(x) \in Nat /\ Len(y) \in Nat /\ Len(z) = Len(x) + Len(y)
      /\ \A i \in 1..Len(x) : z[i] = x[i]
      /\ \A i \in (Len(x) + 1)..(Len(x) + Len(y)) : z[i] = y[i - Len(x)]
      /\ \A i \in 1..Len(y) : z[Len(x) + i] = y[i]
  BY Joined, Zenon
<1> HIDE DEF z
<1>2. Starts(x) \subseteq Starts(z)
  BY <1>1 DEF Starts
<1>3. \A i \in Starts(z) : i <= Len(x) => i \in Starts(x)
  BY <1>1 DEF Starts
<1>4. \A i \in Starts(z) : i > Len(x) => i - Len(x) \in Starts(y)
  BY <1>1 DEF Starts
<1>5. \A i \in Starts(y) : Len(x) + i \in Starts(z)
  BY <1>1 DEF Starts
<1>6. \A i \in Starts(x) : z[i] = x[i]
  BY <1>1 DEF Starts
<1>7. \A i \in Starts(x) : RecordEnd(z, i) = RecordEnd(x, i)
  BY <1>6 DEF RecordEnd
<1> QED BY <1>2, <1>3, <1>4, <1>5, <1>6, <1>7, Zenon DEF z

(* Another record begins where the last one ends. *)
LEMMA RecordAppended ==
  ASSUME NEW x \in Seq(Byte), NEW r \in Seq(Byte), Complete(x), IsRecord(r)
  PROVE  /\ Records(x \o r)
         /\ Starts(x \o r) = Starts(x) \cup {Len(x) + 1}
         /\ (x \o r)[Len(x) + 1] = r[1]
         /\ RecordEnd(x \o r, Len(x) + 1) = Len(x \o r) + 1
         /\ \A i \in Starts(x) : (x \o r)[i] = x[i]
<1> DEFINE z == x \o r
           n == Len(x)
<1>1. /\ z \in Seq(Byte) /\ n \in Nat /\ Len(r) \in Nat /\ Len(z) = n + Len(r)
      /\ \A i \in 1..n : z[i] = x[i]
      /\ \A i \in (n + 1)..(n + Len(r)) : z[i] = r[i - n]
      /\ \A i \in 1..Len(r) : z[n + i] = r[i]
  BY Joined, Zenon
<1>0. n \in Nat /\ Len(r) \in Nat /\ Len(z) = n + Len(r)
  BY <1>1
<1>2. /\ Starts(r) = {1} /\ Len(r) = Unit + r[1].v.clen + r[1].v.plen /\ Len(r) >= Unit
      /\ r[1].v \in Fields /\ r[1].v.clen \in Nat /\ r[1].v.plen \in Nat
      /\ Unit \in Nat /\ Unit >= 2
  BY RecordFacts, FcgiOutputAssumption, Zenon
<1>3. /\ Starts(x) \subseteq Starts(z)
      /\ \A i \in Starts(z) : i <= n => i \in Starts(x)
      /\ \A i \in Starts(z) : i > n => i - n \in Starts(r)
      /\ \A i \in Starts(r) : n + i \in Starts(z)
      /\ \A i \in Starts(x) : z[i] = x[i] /\ RecordEnd(z, i) = RecordEnd(x, i)
  BY StartsJoined, Zenon
<1>4. \A i \in Starts(z) : i \in Nat
  BY <1>1, HeaderValue, Zenon
<1>5. x # <<>> => n > 0
  OBVIOUS
<1> HIDE DEF z, n
<1>6. z[n + 1] = r[1]
  BY <1>1, <1>2
<1>7. Starts(z) = Starts(x) \cup {n + 1}
  <2>1. n + 1 \in Starts(z)
    BY <1>2, <1>3
  <2>2. ASSUME NEW i \in Starts(z), i > n PROVE i = n + 1
    <3>1. i - n = 1
      BY <1>2, <1>3, <2>2
    <3> QED BY <1>1, <1>4, <3>1
  <2>3. ASSUME NEW i \in Starts(z) PROVE i \in Starts(x) \/ i = n + 1
    BY <1>1, <1>3, <1>4, <2>2
  <2> QED BY <1>3, <2>1, <2>3
<1>8. RecordEnd(z, n + 1) = Len(z) + 1
  <2>1. RecordEnd(z, n + 1) = (n + 1) + Unit + r[1].v.clen + r[1].v.plen
    BY <1>6, Zenon DEF RecordEnd
  <2>2. /\ Len(r) = Unit + r[1].v.clen + r[1].v.plen
        /\ Unit \in Nat /\ r[1].v.clen \in Nat /\ r[1].v.plen \in Nat
    BY <1>2
  <2>3. PICK a \in Nat, b \in Nat, l \in Nat :
          a = r[1].v.clen /\ b = r[1].v.plen /\ l = Len(r)
    BY <1>0, <2>2, Zenon
  <2>4. l = Unit + a + b /\ RecordEnd(z, n + 1) = (n + 1) + Unit + a + b /\ Len(z) = n + l
    BY <1>0, <2>1, <2>2, <2>3, Zenon
  <2>5. (n + 1) + Unit + a + b = (n + (Unit + a + b)) + 1
    BY <1>0, <2>2
  <2> QED BY <2>4, <2>5, Zenon
<1>9. ASSUME NEW i \in Starts(x)
      PROVE  /\ \A j \in i..Len(z) : j < RecordEnd(z, i) => z[j].k = KindAt(z[i].v, j - i)
             /\ RecordEnd(z, i) <= Len(z) => z[RecordEnd(z, i)].k = "header"
             /\ RecordEnd(z, i) <= Len(z) + 1
  <2>1. /\ RecordEnd(x, i) <= n + 1 /\ i \in 1..n /\ RecordEnd(x, i) \in Nat
        /\ RecordEnd(x, i) > i
        /\ \A j \in i..n : j < RecordEnd(x, i) => x[j].k = KindAt(x[i].v, j - i)
        /\ RecordEnd(x, i) <= n => x[RecordEnd(x, i)].k = "header"
    BY HeaderValue DEF Complete, Records, Framed, n
  <2>2. RecordEnd(z, i) = RecordEnd(x, i) /\ z[i] = x[i]
    BY <1>3
  <2>3. ASSUME NEW j \in i..Len(z), j < RecordEnd(z, i) PROVE z[j].k = KindAt(z[i].v, j - i)
    <3>1. j \in 1..n /\ j \in i..n
      BY <1>1, <2>1, <2>2, <2>3
    <3> QED BY <1>1, <2>1, <2>2, <2>3, <3>1, Zenon
  <2>4. RecordEnd(z, i) <= Len(z) => z[RecordEnd(z, i)].k = "header"
    <3>1. CASE RecordEnd(x, i) = n + 1
      BY <1>6, <2>2, <3>1 DEF IsRecord
    <3>2. CASE RecordEnd(x, i) <= n
      BY <1>1, <2>1, <2>2, <3>2
    <3>3. RecordEnd(x, i) = n + 1 \/ RecordEnd(x, i) <= n
      <4>1. RecordEnd(x, i) <= n + 1 /\ RecordEnd(x, i) \in Nat
        BY <2>1
      <4> QED BY <1>0, <4>1
    <3> QED BY <3>1, <3>2, <3>3
  <2> QED BY <1>1, <2>1, <2>2, <2>3, <2>4
<1>10. ASSUME NEW j \in (n + 1)..Len(z) PROVE z[j].k = KindAt(z[n + 1].v, j - (n + 1))
  <2>1. j - n \in 1..Len(r) /\ j \in (n + 1)..(n + Len(r)) /\ (j - n) - 1 = j - (n + 1)
    BY <1>1
  <2>2. z[j] = r[j - n] /\ r[j - n].k = KindAt(r[1].v, (j - n) - 1)
    BY <1>1, <2>1 DEF IsRecord
  <2> QED BY <1>6, <2>1, <2>2
<1>11. z # <<>> => z[1].k = "header"
  <2>1. CASE x = <<>>
    <3>1. n = 0
      BY <2>1 DEF n
    <3> QED BY <1>6, <3>1 DEF IsRecord
  <2>2. CASE x # <<>>
    BY <1>1, <1>5, <2>2 DEF Complete, Records, Framed
  <2> QED BY <2>1, <2>2
<1>12. Records(z)
  <2>1. ~ (RecordEnd(z, n + 1) <= Len(z)) /\ RecordEnd(z, n + 1) <= Len(z) + 1
    BY <1>1, <1>8
  <2> QED BY <1>7, <1>9, <1>10, <1>11, <2>1, Zenon DEF Records, Framed
<1> QED BY <1>3, <1>6, <1>7, <1>8, <1>12, Zenon DEF z, n

-----------------------------------------------------------------------------
(* Only the first n bytes matter. *)
LEMMA ReachedPrefix ==
  ASSUME NEW x \in Seq(Byte), NEW y \in Seq(Byte), NEW s, NEW n \in 0..Len(x)
  PROVE  /\ Reached(x \o y, s, n) = Reached(x, s, n)
         /\ \A m : Greatest(x \o y, s, n, m) <=> Greatest(x, s, n, m)
<1>1. Len(x) \in Nat /\ \A i \in 1..Len(x) : (x \o y)[i] = x[i]
  BY Joined, Zenon
<1>2. \A j \in 1..n : (x \o y)[j] = x[j]
  BY <1>1
<1>3. Numbers(x \o y, s, n) = Numbers(x, s, n)
  <2>1. {i \in 1..n : (x \o y)[i].k = s} = {i \in 1..n : x[i].k = s}
    BY <1>2, Zenon
  <2>2. {(x \o y)[j].v : j \in {i \in 1..n : x[i].k = s}}
          = {x[j].v : j \in {i \in 1..n : x[i].k = s}}
    BY <1>2
  <2> QED BY <2>1, <2>2, Zenon DEF Numbers
<1> QED BY <1>3, Zenon DEF Reached, Greatest

(* Other bytes do not count. *)
LEMMA ReachedOthers ==
  ASSUME NEW x, NEW s, NEW m \in Nat, NEW n \in Nat, m <= n,
         \A j \in (m + 1)..n : x[j].k # s
  PROVE  /\ Reached(x, s, n) = Reached(x, s, m)
         /\ \A a : Greatest(x, s, m, a) => Greatest(x, s, n, a)
<1>1. {j \in 1..n : x[j].k = s} = {j \in 1..m : x[j].k = s}
  <2>1. \A j \in 1..n : j \in 1..m \/ j \in (m + 1)..n
    OBVIOUS
  <2>2. \A j \in 1..m : j \in 1..n
    OBVIOUS
  <2> QED BY <2>1, <2>2, Zenon
<1>2. Numbers(x, s, n) = Numbers(x, s, m)
  BY <1>1, Zenon DEF Numbers
<1> QED BY <1>2, Zenon DEF Reached, Greatest

(* There is one greatest number. *)
LEMMA ReachedGreatest ==
  ASSUME NEW x, NEW s, NEW n, NEW a, Greatest(x, s, n, a)
  PROVE  a \in Nat /\ Reached(x, s, n) = a
<1>1. PICK S : S = Numbers(x, s, n)
  OBVIOUS
<1>2. a \in S /\ S \subseteq 0..a
  BY <1>1, Zenon DEF Greatest
<1>3. a \in Nat /\ \A l \in S : l <= a
  BY <1>2
<1>4. \A c \in S : (\A l \in S : l <= c) => c = a
  BY <1>2
<1>5. (CHOOSE m \in S : \A l \in S : l <= m) = a
  BY <1>2, <1>3, <1>4, Zenon
<1> QED BY <1>1, <1>3, <1>5, Zenon DEF Reached

(* A run of the next bytes of the stream. *)
LEMMA ReachedRun ==
  ASSUME NEW x, NEW s, NEW m \in Nat, NEW n \in Nat, m <= n, NEW a, Greatest(x, s, m, a),
         \A j \in (m + 1)..n : x[j].k = s /\ x[j].v = a + (j - m)
  PROVE  Greatest(x, s, n, a + (n - m))
<1>1. PICK S, T : /\ S = {i \in 1..m : x[i].k = s} /\ T = (m + 1)..n
  BY Zenon
<1>2. {i \in 1..n : x[i].k = s} = S \cup T
  <2>1. \A j \in 1..n : j \in 1..m \/ j \in (m + 1)..n
    OBVIOUS
  <2>2. \A j \in 1..m : j \in 1..n
    OBVIOUS
  <2>3. \A j \in (m + 1)..n : j \in 1..n
    OBVIOUS
  <2> QED BY <1>1, <2>1, <2>2, <2>3, Zenon
<1>3. a \in Nat /\ a \in Numbers(x, s, m) /\ Numbers(x, s, m) \subseteq 0..a
  <2>1. a \in Nat
    BY ReachedGreatest
  <2> QED BY <2>1, Zenon DEF Greatest
<1>4. Numbers(x, s, m) = {0} \cup {x[j].v : j \in S}
  BY <1>1, Zenon DEF Numbers
<1>5. Numbers(x, s, n) = {0} \cup {x[j].v : j \in S \cup T}
  BY <1>2, Zenon DEF Numbers
<1>6. Numbers(x, s, n) \subseteq 0..(a + (n - m))
  <2> SUFFICES ASSUME NEW l \in Numbers(x, s, n) PROVE l \in 0..(a + (n - m))
    OBVIOUS
  <2>1. CASE l \in Numbers(x, s, m)
    BY <1>3, <2>1
  <2>2. CASE l \notin Numbers(x, s, m)
    <3>1. PICK j \in T : l = x[j].v
      BY <1>4, <1>5, <2>2, Zenon
    <3>2. l = a + (j - m) /\ j \in (m + 1)..n
      BY <1>1, <3>1, Zenon
    <3> QED BY <1>3, <3>2
  <2> QED BY <2>1, <2>2
<1>7. a + (n - m) \in Numbers(x, s, n)
  <2>1. CASE m = n
    BY <1>1, <1>3, <1>4, <1>5, <2>1, SMTT(30)
  <2>2. CASE m # n
    <3>1. n \in (m + 1)..n
      BY <2>2
    <3>2. n \in T /\ x[n].v = a + (n - m)
      BY <1>1, <3>1, Zenon
    <3> QED BY <1>5, <3>2
  <2> QED BY <2>1, <2>2
<1> QED BY <1>6, <1>7, Zenon DEF Greatest

-----------------------------------------------------------------------------
(* What is true of what is sent is true of what has arrived of it. *)
LEMMA SafePrefix ==
  ASSUME NEW x \in Seq(Byte), NEW y \in Seq(Byte), NEW p, Safe(x \o y, p)
  PROVE  Safe(x, p) /\ \A s \in Streams : Eofs(x, s) \subseteq Eofs(x \o y, s)
<1> DEFINE z == x \o y
<1>1. /\ Len(x) \in Nat /\ Len(y) \in Nat /\ Len(z) = Len(x) + Len(y)
      /\ \A i \in 1..Len(x) : z[i] = x[i]
  BY Joined, Zenon
<1>2. /\ Starts(x) \subseteq Starts(z)
      /\ \A i \in Starts(z) : i <= Len(x) => i \in Starts(x)
      /\ \A i \in Starts(x) : z[i] = x[i] /\ RecordEnd(z, i) = RecordEnd(x, i)
  BY StartsJoined, Zenon
<1>3. \A s, n : n \in 0..Len(x) => Reached(z, s, n) = Reached(x, s, n)
  BY ReachedPrefix, Zenon
<1>4. Framed(z) /\ Ordered(z) /\ Ends(z, p)
  BY DEF Safe
<1>5. x # <<>> => Len(x) >= 1 /\ z # <<>>
  BY <1>1
<1>6. \A i \in Starts(x) : i \in 1..Len(x) /\ RecordEnd(x, i) \in Nat /\ RecordEnd(x, i) > i
  BY HeaderValue, Zenon
<1>7. /\ \A i \in Starts(x) : i \in Nat
      /\ \A i \in Starts(z) : i \in Nat
  <2>1. z \in Seq(Byte)
    BY Joined, Zenon
  <2> HIDE DEF z
  <2> QED BY <2>1, HeaderValue, Zenon
<1> HIDE DEF z
<1>8. Framed(x)
  <2>1. x # <<>> => x[1].k = "header"
    BY <1>1, <1>4, <1>5 DEF Framed
  <2>2. ASSUME NEW i \in Starts(x), NEW j \in i..Len(x), j < RecordEnd(x, i)
        PROVE  x[j].k = KindAt(x[i].v, j - i)
    <3>1. j \in i..Len(z) /\ j \in 1..Len(x)
      BY <1>1, <1>6
    <3>2. i \in Starts(z) /\ z[i] = x[i] /\ j < RecordEnd(z, i)
      BY <1>2, <2>2
    <3>3. z[j].k = KindAt(z[i].v, j - i)
      BY <1>4, <3>1, <3>2, Zenon DEF Framed
    <3> QED BY <1>1, <3>1, <3>2, <3>3
  <2>3. ASSUME NEW i \in Starts(x), RecordEnd(x, i) <= Len(x)
        PROVE  x[RecordEnd(x, i)].k = "header"
    <3>1. RecordEnd(x, i) \in 1..Len(x) /\ RecordEnd(z, i) = RecordEnd(x, i) /\ i \in Starts(z)
      BY <1>1, <1>2, <1>6, <2>3
    <3>2. RecordEnd(z, i) <= Len(z)
      BY <1>1, <3>1
    <3> QED BY <1>1, <1>4, <3>1, <3>2 DEF Framed
  <2> QED BY <2>1, <2>2, <2>3, Zenon DEF Framed
<1>9. Ordered(x)
  <2> SUFFICES ASSUME NEW s \in Streams, NEW i \in 1..Len(x), x[i].k = s
               PROVE  x[i].v = Reached(x, s, i - 1) + 1
    BY Zenon DEF Ordered
  <2>1. i \in 1..Len(z) /\ i - 1 \in 0..Len(x) /\ z[i] = x[i]
    BY <1>1
  <2> QED BY <1>3, <1>4, <2>1, Zenon DEF Ordered
<1>10. ASSUME NEW s PROVE Eofs(x, s) \subseteq Eofs(z, s)
  BY <1>2, Zenon DEF Eofs
<1>11. Ends(x, p)
  <2>1. ASSUME NEW s \in Streams, NEW i \in Eofs(x, s)
        PROVE  /\ Reached(x, s, i) = p[s]
               /\ \A j \in i..Len(x) : x[j].k # s
               /\ \A j \in Eofs(x, s) : j = i
    <3>1. i \in Eofs(z, s) /\ i \in 0..Len(x) /\ i \in 1..Len(x)
      BY <1>6, <1>10, SMTT(30) DEF Eofs
    <3>2. /\ Reached(z, s, i) = p[s]
          /\ \A j \in i..Len(z) : z[j].k # s
          /\ \A j \in Eofs(z, s) : j = i
      BY <1>4, <3>1, Zenon DEF Ends
    <3>3. ASSUME NEW j \in i..Len(x) PROVE x[j].k # s
      <4>1. j \in i..Len(z) /\ j \in 1..Len(x)
        BY <1>1, <3>1
      <4> QED BY <1>1, <3>2, <4>1
    <3> QED BY <1>3, <1>10, <3>1, <3>2, <3>3, Zenon
  <2>2. ASSUME NEW i \in Starts(x), x[i].v.type = "end"
        PROVE  /\ \E j \in Eofs(x, "out") : j < i
               /\ \A j \in Starts(x) : j <= i
    <3>1. i \in Starts(z) /\ z[i] = x[i] /\ i \in 1..Len(x)
      BY <1>2, <1>6, Zenon
    <3>2. PICK j \in Eofs(z, "out") : j < i
      BY <1>4, <2>2, <3>1, Zenon DEF Ends
    <3>3. j \in Starts(z) /\ j <= Len(x)
      BY <1>1, <1>7, <3>1, <3>2 DEF Eofs
    <3>4. j \in Eofs(x, "out")
      BY <1>2, <3>2, <3>3 DEF Eofs
    <3>5. \A l \in Starts(x) : l <= i
      BY <1>2, <1>4, <2>2, <3>1, Zenon DEF Ends
    <3> QED BY <3>2, <3>4, <3>5
  <2> QED BY <2>1, <2>2, Zenon DEF Ends
<1> QED BY <1>8, <1>9, <1>10, <1>11, Zenon DEF Safe, z

-----------------------------------------------------------------------------
(* What a record adds to the records before it: bytes of its own stream,   *)
(* behind the header, and the end of the stream when it has no content.    *)
LEMMA RecordAdds ==
  ASSUME NEW x \in Seq(Byte), NEW r \in Seq(Byte), Complete(x), IsRecord(r),
         NEW t \in Streams
  PROVE  /\ \A j \in (Len(x) + 1)..Len(x \o r) :
              (x \o r)[j].k = t <=>
                /\ t = r[1].v.type
                /\ Len(x) + Unit < j /\ j <= Len(x) + Unit + r[1].v.clen
         /\ Eofs(x \o r, t) = Eofs(x, t) \cup
              (IF r[1].v.type = t /\ r[1].v.clen = 0 THEN {Len(x) + 1} ELSE {})
<1> DEFINE z == x \o r
           n == Len(x)
           h == r[1].v
<1>1. /\ z \in Seq(Byte) /\ n \in Nat /\ Len(r) \in Nat /\ Len(z) = n + Len(r)
      /\ \A i \in (n + 1)..(n + Len(r)) : z[i] = r[i - n]
  BY Joined, Zenon
<1>2. /\ h \in Fields /\ h.clen \in Nat /\ Unit \in Nat
  BY RecordFacts, FcgiOutputAssumption, Zenon
<1>3. /\ Starts(z) = Starts(x) \cup {n + 1} /\ z[n + 1] = r[1]
      /\ \A i \in Starts(x) : z[i] = x[i]
  BY RecordAppended, Zenon
<1>4. \A j \in 1..Len(r) : r[j].k = KindAt(h, j - 1)
  BY Zenon DEF IsRecord
<1> HIDE DEF z, n, h
<1>5. ASSUME NEW j \in (n + 1)..Len(z)
      PROVE  z[j].k = t <=> t = h.type /\ n + Unit < j /\ j <= n + Unit + h.clen
  <2>1. /\ j - n \in 1..Len(r) /\ j \in (n + 1)..(n + Len(r)) /\ (j - n) - 1 \in Nat
    BY <1>1
  <2>2. z[j].k = KindAt(h, (j - n) - 1)
    BY <1>1, <1>4, <2>1, Zenon
  <2>3. KindAt(h, (j - n) - 1) = t <=>
          t = h.type /\ Unit <= (j - n) - 1 /\ (j - n) - 1 < Unit + h.clen
    BY <1>2, <2>1, KindFacts, Zenon
  <2>4. (Unit <= (j - n) - 1 /\ (j - n) - 1 < Unit + h.clen)
          <=> (n + Unit < j /\ j <= n + Unit + h.clen)
    <3>1. j \in Int /\ n \in Nat
      BY <1>1
    <3> QED BY <1>2, <3>1, SMTT(30)
  <2> QED BY <2>2, <2>3, <2>4, Zenon
<1>6. Eofs(z, t) = Eofs(x, t) \cup (IF h.type = t /\ h.clen = 0 THEN {n + 1} ELSE {})
  <2>1. z[n + 1].v = h
    BY <1>3, Zenon DEF h
  <2> QED BY <1>3, <2>1 DEF Eofs
<1> QED BY <1>5, <1>6, Zenon DEF z, n, h

(* The bytes of another stream, and of a record without content, are the   *)
(* same as before.                                                         *)
LEMMA ReachedKept ==
  ASSUME NEW x \in Seq(Byte), NEW r \in Seq(Byte), Complete(x), IsRecord(r),
         NEW t \in Streams, r[1].v.type # t \/ r[1].v.clen = 0
  PROVE  /\ \A j \in (Len(x) + 1)..Len(x \o r) : (x \o r)[j].k # t
         /\ \A n \in Len(x)..Len(x \o r) :
              /\ Reached(x \o r, t, n) = Reached(x, t, Len(x))
              /\ Greatest(x \o r, t, n, Reached(x, t, Len(x)))
<1>1. /\ Len(x) \in Nat /\ Len(x \o r) \in Nat /\ r[1].v.clen \in Nat /\ Unit \in Nat
      /\ Len(x) <= Len(x \o r)
  <2>1. /\ Len(x) \in Nat /\ Len(r) \in Nat /\ r[1].v.clen \in Nat /\ Unit \in Nat
        /\ Len(x \o r) = Len(x) + Len(r)
    BY Joined, RecordFacts, FcgiOutputAssumption, Zenon
  <2> QED BY <2>1
<1>2. ASSUME NEW j \in (Len(x) + 1)..Len(x \o r) PROVE (x \o r)[j].k # t
  <2>0. \A i \in (Len(x) + 1)..Len(x \o r) :
          (x \o r)[i].k = t <=>
            /\ t = r[1].v.type
            /\ Len(x) + Unit < i /\ i <= Len(x) + Unit + r[1].v.clen
    BY RecordAdds
  <2>1. (x \o r)[j].k = t <=>
          t = r[1].v.type /\ Len(x) + Unit < j /\ j <= Len(x) + Unit + r[1].v.clen
    BY <2>0, Zenon
  <2>2. ~ (r[1].v.clen = 0 /\ Len(x) + Unit < j /\ j <= Len(x) + Unit + r[1].v.clen)
    BY <1>1
  <2> QED BY <2>1, <2>2, Zenon
<1>3. ASSUME NEW n \in Len(x)..Len(x \o r)
      PROVE  /\ Reached(x \o r, t, n) = Reached(x, t, Len(x))
             /\ Greatest(x \o r, t, n, Reached(x, t, Len(x)))
  <2>1. n \in Nat /\ Len(x) <= n /\ \A j \in (Len(x) + 1)..n : j \in (Len(x) + 1)..Len(x \o r)
    BY <1>1
  <2>2. /\ Reached(x \o r, t, n) = Reached(x \o r, t, Len(x))
        /\ \A a : Greatest(x \o r, t, Len(x), a) => Greatest(x \o r, t, n, a)
    BY <1>1, <1>2, <2>1, ReachedOthers, Zenon
  <2>3. Len(x) \in 0..Len(x)
    BY <1>1
  <2>4. /\ Reached(x \o r, t, Len(x)) = Reached(x, t, Len(x))
        /\ \A m : Greatest(x \o r, t, Len(x), m) <=> Greatest(x, t, Len(x), m)
    BY <2>3, ReachedPrefix, Zenon
  <2>5. Greatest(x, t, Len(x), Reached(x, t, Len(x)))
    BY Zenon DEF Complete
  <2> QED BY <2>2, <2>4, <2>5, Zenon
<1> QED BY <1>2, <1>3

(* The content of the record r is that of its stream after byte a, and the *)
(* stream has got that much further when r is appended to x.               *)
NextContent(r, a) == \A i \in 1..r[1].v.clen : r[Unit + i].v = a + i
Continues(x, r, s, a) ==
  /\ \A i \in 0..r[1].v.clen : Reached(x \o r, s, Len(x) + Unit + i) = a + i
  /\ Reached(x \o r, s, Len(x \o r)) = a + r[1].v.clen
  /\ Greatest(x \o r, s, Len(x \o r), a + r[1].v.clen)

(* The content of a record continues its stream. *)
LEMMA ReachedContent ==
  ASSUME NEW x \in Seq(Byte), NEW r \in Seq(Byte), Complete(x), IsRecord(r),
         NEW s \in Streams, r[1].v.type = s, NEW a, a = Reached(x, s, Len(x)),
         NextContent(r, a)
  PROVE  Continues(x, r, s, a)
<1> DEFINE z == x \o r
           n == Len(x)
           c == r[1].v.clen
<1>1. /\ n \in Nat /\ Len(r) \in Nat /\ Len(z) = n + Len(r)
      /\ c \in Nat /\ r[1].v.plen \in Nat /\ Unit \in Nat /\ Unit >= 2
      /\ Len(r) = Unit + c + r[1].v.plen
      /\ \A i \in (n + 1)..(n + Len(r)) : z[i] = r[i - n]
  BY Joined, RecordFacts, FcgiOutputAssumption, Zenon
<1>2. n + Unit + c <= Len(z) /\ Len(z) \in Nat
  <2> HIDE DEF n, z, c
  <2>1. PICK p \in Nat, l \in Nat : p = r[1].v.plen /\ l = Len(r)
    BY <1>1
  <2>2. l = Unit + c + p /\ Len(z) = n + l
    BY <1>1, <2>1, Zenon
  <2> QED BY <1>1, <2>2
<1>3. \A j \in (n + 1)..Len(z) : z[j].k = s <=> n + Unit < j /\ j <= n + Unit + c
  <2>1. \A j \in (n + 1)..Len(z) :
          z[j].k = s <=> /\ s = r[1].v.type
                         /\ n + Unit < j /\ j <= n + Unit + c
    BY RecordAdds
  <2> QED BY <2>1, Zenon
<1>4. Greatest(z, s, n, a)
  <2>1. n \in 0..Len(x)
    BY <1>1
  <2>2. Greatest(x, s, n, a)
    BY Zenon DEF Complete
  <2> QED BY <2>1, <2>2, ReachedPrefix, Zenon
<1>5. \A i \in 1..c : r[Unit + i].v = a + i
  BY DEF NextContent
<1> HIDE DEF z, n, c
<1>6. Greatest(z, s, n + Unit, a)
  <2>1. n + Unit \in Nat /\ n <= n + Unit
    BY <1>1
  <2>2. \A j \in (n + 1)..(n + Unit) : j \in (n + 1)..Len(z) /\ ~ (n + Unit < j)
    BY <1>1, <1>2
  <2> QED BY <1>1, <1>3, <1>4, <2>1, <2>2, ReachedOthers, Zenon
<1>7. ASSUME NEW i \in 0..c PROVE Greatest(z, s, n + Unit + i, a + i)
  <2>1. /\ n + Unit \in Nat /\ n + Unit + i \in Nat /\ n + Unit <= n + Unit + i
        /\ (n + Unit + i) - (n + Unit) = i
    BY <1>1
  <2>2. ASSUME NEW j \in (n + Unit + 1)..(n + Unit + i)
        PROVE  z[j].k = s /\ z[j].v = a + (j - (n + Unit))
    <3>1. PICK d : d = j - (n + Unit)
      OBVIOUS
    <3>2. /\ j \in (n + 1)..Len(z) /\ n + Unit < j /\ j <= n + Unit + c
          /\ d \in 1..c /\ j - n = Unit + d
      BY <1>1, <1>2, <3>1
    <3>3. z[j] = r[Unit + d]
      BY <1>1, <3>2, Zenon
    <3> QED BY <1>3, <1>5, <3>1, <3>2, <3>3, Zenon
  <2>3. Greatest(z, s, n + Unit + i, a + ((n + Unit + i) - (n + Unit)))
    BY <1>6, <2>1, <2>2, ReachedRun, Zenon
  <2> QED BY <2>1, <2>3, Zenon
<1>8. Greatest(z, s, Len(z), a + c)
  <2>1. c \in 0..c /\ n + Unit + c \in Nat
    BY <1>1
  <2>2. \A j \in (n + Unit + c + 1)..Len(z) :
          j \in (n + 1)..Len(z) /\ ~ (j <= n + Unit + c)
    BY <1>1, <1>2
  <2>3. Greatest(z, s, n + Unit + c, a + c)
    BY <1>7, <2>1
  <2> QED BY <1>2, <1>3, <2>1, <2>2, <2>3, ReachedOthers, Zenon
<1>9. Reached(z, s, Len(z)) = a + c
  BY <1>8, ReachedGreatest, Zenon
<1>10. \A i \in 0..c : Reached(z, s, n + Unit + i) = a + i
  BY <1>7, ReachedGreatest, Zenon
<1> QED BY <1>8, <1>9, <1>10, Zenon DEF Continues, z, n, c

-----------------------------------------------------------------------------
(* A record may follow when its stream has not been ended, its content is  *)
(* the next of the stream, and nothing is left to come at an end.          *)
LEMMA SafeAppended ==
  ASSUME NEW x \in Seq(Byte), NEW r \in Seq(Byte), Complete(x), IsRecord(r),
         Unended(x), NEW p, Safe(x, p),
         NEW h, h = r[1].v,
         h.type \in Streams => Eofs(x, h.type) = {},
         h.type \in Streams /\ h.clen = 0 => Reached(x, h.type, Len(x)) = p[h.type],
         h.type = "end" => Eofs(x, "out") # {},
         h.type \in Streams =>
           \A i \in 1..h.clen : r[Unit + i].v = Reached(x, h.type, Len(x)) + i
  PROVE  Complete(x \o r) /\ Safe(x \o r, p)
<1> DEFINE z == x \o r
           n == Len(x)
<1>1. /\ n \in Nat /\ Len(r) \in Nat /\ Len(z) = n + Len(r)
      /\ \A i \in 1..n : z[i] = x[i]
      /\ \A i \in (n + 1)..(n + Len(r)) : z[i] = r[i - n]
      /\ \A i \in 1..Len(r) : z[n + i] = r[i]
  BY Joined, Zenon
<1>2. /\ Records(z) /\ Starts(z) = Starts(x) \cup {n + 1} /\ z[n + 1] = r[1]
      /\ \A i \in Starts(x) : z[i] = x[i]
  BY RecordAppended, Zenon
<1>3. h.clen \in Nat /\ h.plen \in Nat /\ Unit \in Nat /\ Unit >= 2
      /\ Len(r) = Unit + h.clen + h.plen
  BY RecordFacts, FcgiOutputAssumption, Zenon
<1>4. Framed(z)
  BY <1>2 DEF Records
<1>5. \A i \in Starts(x) : i \in 1..n
  BY HeaderValue, Zenon
<1>6. \A t, m : m \in 0..n => Reached(z, t, m) = Reached(x, t, m)
  BY ReachedPrefix, Zenon
<1>7. Framed(x) /\ Ordered(x) /\ Ends(x, p)
  BY DEF Safe
<1>8. Ordered(z)
  <2> SUFFICES ASSUME NEW t \in Streams, NEW i \in 1..Len(z), z[i].k = t
               PROVE  z[i].v = Reached(z, t, i - 1) + 1
    BY Zenon DEF Ordered
  <2>1. CASE i <= n
    <3>1. i \in 1..n /\ i - 1 \in 0..n /\ z[i] = x[i]
      BY <1>1, <2>1
    <3>2. \A u \in Streams : \A j \in 1..n : x[j].k = u => x[j].v = Reached(x, u, j - 1) + 1
      BY <1>7 DEF Ordered
    <3>3. x[i].k = t
      BY <3>1
    <3>4. x[i].v = Reached(x, t, i - 1) + 1
      BY <3>1, <3>2, <3>3
    <3>5. Reached(z, t, i - 1) = Reached(x, t, i - 1)
      BY <1>6, <3>1, Zenon
    <3> QED BY <3>1, <3>4, <3>5, Zenon
  <2>2. CASE i > n
    <3>1. i \in (n + 1)..Len(z)
      BY <1>1, <2>2
    <3>2. \A j \in (n + 1)..Len(z) :
            z[j].k = t <=> /\ t = r[1].v.type
                           /\ n + Unit < j /\ j <= n + Unit + r[1].v.clen
      BY RecordAdds
    <3>3. t = h.type /\ n + Unit < i /\ i <= n + Unit + h.clen
      BY <3>1, <3>2, Zenon
    <3> DEFINE d == i - (n + Unit)
    <3>4. /\ d \in 1..h.clen /\ i = n + Unit + d /\ i = n + (Unit + d)
      BY <1>1, <1>3, <3>3, SMTT(30)
    <3>5. Unit + d \in 1..Len(r)
      BY <1>1, <1>3, <3>4
    <3> HIDE DEF d
    <3>6. z[i].v = Reached(x, t, n) + d
      BY <1>1, <3>3, <3>4, <3>5, Zenon
    <3>7. d - 1 \in 0..h.clen /\ i - 1 = n + Unit + (d - 1)
      BY <1>1, <1>3, <3>4
    <3>8. Greatest(x, t, n, Reached(x, t, n))
      BY Zenon DEF Complete
    <3>9. Reached(x, t, n) \in Nat
      BY <3>8, ReachedGreatest, Zenon
    <3>10. \A j \in 0..h.clen : Reached(z, t, n + Unit + j) = Reached(x, t, n) + j
      <4>1. r[1].v.type = t /\ r[1].v.clen = h.clen
        BY <3>3
      <4>2. PICK a : a = Reached(x, t, Len(x))
        OBVIOUS
      <4>3. NextContent(r, a)
        BY <3>3, <4>1, <4>2, Zenon DEF NextContent
      <4>4. Continues(x, r, t, a)
        BY <4>1, <4>2, <4>3, ReachedContent
      <4> QED BY <4>1, <4>2, <4>4, Zenon DEF Continues
    <3>11. Reached(z, t, i - 1) = Reached(x, t, n) + (d - 1)
      BY <3>7, <3>10, Zenon
    <3>12. (Reached(x, t, n) + (d - 1)) + 1 = Reached(x, t, n) + d
      BY <3>4, <3>9
    <3> QED BY <3>6, <3>11, <3>12, Zenon
  <2> QED BY <1>1, <2>1, <2>2
<1>9. ASSUME NEW t \in Streams, NEW i \in Eofs(z, t)
      PROVE  /\ Reached(z, t, i) = p[t]
             /\ \A j \in i..Len(z) : z[j].k # t
             /\ \A j \in Eofs(z, t) : j = i
  <2>1. Eofs(z, t) = Eofs(x, t) \cup (IF r[1].v.type = t /\ r[1].v.clen = 0 THEN {n + 1} ELSE {})
    BY RecordAdds
  <2>2. CASE i \in Eofs(x, t)
    <3>1. h.type # t
      BY <2>2
    <3>2. Eofs(z, t) = Eofs(x, t)
      BY <2>1, <3>1
    <3>3. i \in 1..n /\ i \in 0..n
      BY <1>1, <1>5, <2>2 DEF Eofs
    <3>4. /\ Reached(x, t, i) = p[t]
          /\ \A j \in i..n : x[j].k # t
          /\ \A j \in Eofs(x, t) : j = i
      BY <1>7, <2>2, Zenon DEF Ends
    <3>5. \A j \in (n + 1)..Len(z) : z[j].k # t
      BY <3>1, ReachedKept, Zenon
    <3>6. ASSUME NEW j \in i..Len(z) PROVE z[j].k # t
      <4>1. (j \in i..n /\ j \in 1..n) \/ j \in (n + 1)..Len(z)
        BY <1>1, <3>3
      <4> QED BY <1>1, <3>4, <3>5, <4>1, Zenon
    <3> QED BY <1>6, <3>2, <3>3, <3>4, <3>6, Zenon
  <2>3. CASE i \notin Eofs(x, t)
    <3>1. h.type = t /\ h.clen = 0 /\ i = n + 1
      BY <2>1, <2>3
    <3>2. Eofs(x, t) = {} /\ Reached(x, t, n) = p[t]
      BY <3>1
    <3>3. /\ \A j \in (n + 1)..Len(z) : z[j].k # t
          /\ \A m \in n..Len(z) : Reached(z, t, m) = Reached(x, t, n)
      BY <3>1, ReachedKept, ZenonT(30)
    <3>4. n + 1 \in n..Len(z)
      BY <1>1, <1>3, SMTT(30)
    <3>5. \A j \in Eofs(z, t) : j = i
      BY <2>1, <3>1, <3>2
    <3> QED BY <3>1, <3>2, <3>3, <3>4, <3>5, Zenon
  <2> QED BY <2>2, <2>3, Zenon
<1>10. ASSUME NEW i \in Starts(z), z[i].v.type = "end"
       PROVE  /\ \E j \in Eofs(z, "out") : j < i
              /\ \A j \in Starts(z) : j <= i
  <2>1. i = n + 1 /\ h.type = "end"
    <3>1. i \notin Starts(x)
      BY <1>2, <1>10, Zenon DEF Unended
    <3>2. i = n + 1
      BY <1>2, <3>1
    <3> QED BY <1>2, <1>10, <3>2, Zenon
  <2>2. PICK j \in Eofs(x, "out") : TRUE
    BY <2>1
  <2>3. j \in Eofs(z, "out")
    BY <1>2, <2>2, Zenon DEF Eofs
  <2>4. j < i
    BY <1>1, <1>5, <2>1, <2>2 DEF Eofs
  <2>5. \A l \in Starts(z) : l <= i
    BY <1>1, <1>2, <1>5, <2>1
  <2> QED BY <2>3, <2>4, <2>5
<1>11. Ends(z, p)
  BY <1>9, <1>10, Zenon DEF Ends
<1>12. ASSUME NEW t \in Streams PROVE Greatest(z, t, Len(z), Reached(z, t, Len(z)))
  <2>1. CASE h.type # t \/ h.clen = 0
    <3>1. Len(z) \in n..Len(z)
      BY <1>1, <1>3, SMTT(30)
    <3> QED BY <2>1, <3>1, ReachedKept, ZenonT(30)
  <2>2. CASE h.type = t
    <3>1. r[1].v.type = t
      BY <2>2
    <3>2. PICK a : a = Reached(x, t, Len(x))
      OBVIOUS
    <3>3. NextContent(r, a)
      BY <2>2, <3>2, Zenon DEF NextContent
    <3>4. Continues(x, r, t, a)
      BY <3>1, <3>2, <3>3, ReachedContent
    <3> QED BY <3>4, Zenon DEF Continues
  <2> QED BY <2>1, <2>2, Zenon
<1> QED BY <1>2, <1>4, <1>8, <1>11, <1>12, Zenon DEF Safe, Complete, z

-----------------------------------------------------------------------------
(* The bytes of a header. *)
LEMMA HeaderBytes ==
  ASSUME NEW type \in Type, NEW clen \in Nat, NEW plen \in Nat
  PROVE  LET r == Header(type, clen, plen)
         IN /\ r \in Seq(Byte) /\ Len(r) = Unit
            /\ r[1] = B("header", [type |-> type, clen |-> clen, plen |-> plen])
            /\ \A i \in 2..Unit : r[i].k = "more"
<1> DEFINE b == B("header", [type |-> type, clen |-> clen, plen |-> plen])
           h == <<b>>
           m == Repeat(Unit - 1, B("more", 0))
           r == Header(type, clen, plen)
<1>1. r \in Seq(Byte) /\ Len(r) = Unit
  BY HeaderType
<1>2. b \in Byte
  BY ByteType, Zenon
<1>3. Unit - 1 \in Nat /\ B("more", 0) \in Byte /\ Unit \in Nat /\ Unit >= 2
  BY FcgiOutputAssumption, ByteType DEF Kind
<1>4. m \in Seq(Byte) /\ Len(m) = Unit - 1 /\ \A i \in 1..(Unit - 1) : m[i].k = "more"
  <2>1. m \in Seq(Byte) /\ Len(m) = Unit - 1
    BY <1>3, RepeatType, Zenon
  <2>2. \A i \in 1..(Unit - 1) : m[i] = B("more", 0)
    BY DEF Repeat
  <2>3. B("more", 0).k = "more"
    BY DEF B
  <2> QED BY <2>1, <2>2, <2>3, Zenon
<1>5. r = h \o m
  BY DEF Header
<1> HIDE DEF b, m, Byte
<1>6. h \in Seq(Byte) /\ Len(h) = 1 /\ h[1] = b
  BY <1>2
<1> HIDE DEF h
<1>7. /\ \A i \in 1..Len(h) : (h \o m)[i] = h[i]
      /\ \A i \in (Len(h) + 1)..(Len(h) + Len(m)) : (h \o m)[i] = m[i - Len(h)]
  BY <1>4, <1>6, Joined, Zenon
<1>8. (h \o m)[1] = b
  BY <1>6, <1>7
<1>9. ASSUME NEW i \in 2..Unit PROVE (h \o m)[i].k = "more"
  <2>1. i \in (Len(h) + 1)..(Len(h) + Len(m)) /\ i - Len(h) \in 1..(Unit - 1)
    BY <1>3, <1>4, <1>6
  <2> QED BY <1>4, <1>7, <2>1, Zenon
<1> QED BY <1>1, <1>5, <1>8, <1>9, Zenon DEF b

(* y is what a header announces: content and padding. *)
Fills(y, type, clen, plen) ==
  /\ y \in Seq(Byte) /\ Len(y) = clen + plen
  /\ \A i \in 1..clen : y[i].k = IF type = "end" THEN "body" ELSE type
  /\ \A i \in (clen + 1)..(clen + plen) : y[i].k = "pad"

(* r is a record with the content at the beginning of y. *)
Made(r, y, type, clen, plen) ==
  /\ r \in Seq(Byte) /\ IsRecord(r)
  /\ r[1].v = [type |-> type, clen |-> clen, plen |-> plen]
  /\ \A i \in 1..clen : r[Unit + i] = y[i]

(* A header and the bytes it announces are a record. *)
LEMMA RecordMade ==
  ASSUME NEW type \in Type, NEW clen \in Nat, NEW plen \in Nat,
         NEW y \in Seq(Byte), Fills(y, type, clen, plen)
  PROVE  Made(Header(type, clen, plen) \o y, y, type, clen, plen)
<1> DEFINE h == Header(type, clen, plen)
           v == [type |-> type, clen |-> clen, plen |-> plen]
           r == h \o y
<1>y. /\ y \in Seq(Byte) /\ Len(y) = clen + plen
      /\ \A i \in 1..clen : y[i].k = IF type = "end" THEN "body" ELSE type
      /\ \A i \in (clen + 1)..(clen + plen) : y[i].k = "pad"
  BY DEF Fills
<1>1. /\ h \in Seq(Byte) /\ Len(h) = Unit /\ h[1] = B("header", v)
      /\ \A i \in 2..Unit : h[i].k = "more"
  BY HeaderBytes
<1>2. Unit \in Nat /\ Unit >= 2 /\ v.type = type /\ v.clen = clen /\ v.plen = plen
  BY FcgiOutputAssumption
<1> HIDE DEF h, v
<1>3. /\ r \in Seq(Byte) /\ Len(r) = Unit + (clen + plen)
      /\ \A i \in 1..Unit : r[i] = h[i]
      /\ \A i \in (Unit + 1)..(Unit + (clen + plen)) : r[i] = y[i - Unit]
  <2>1. /\ r \in Seq(Byte) /\ Len(r) = Len(h) + Len(y)
        /\ \A i \in 1..Len(h) : r[i] = h[i]
        /\ \A i \in (Len(h) + 1)..(Len(h) + Len(y)) : r[i] = y[i - Len(h)]
    BY <1>y, <1>1, Joined, Zenon
  <2> QED BY <1>y, <1>1, <2>1, Zenon
<1> HIDE DEF r
<1>4. r[1].k = "header" /\ r[1].v = v
  <2>1. r[1] = B("header", v)
    BY <1>1, <1>2, <1>3
  <2> QED BY <2>1 DEF B
<1>5. RecordEnd(r, 1) = Len(r) + 1 /\ r # <<>>
  <2>1. RecordEnd(r, 1) = 1 + Unit + clen + plen
    BY <1>2, <1>4 DEF RecordEnd
  <2>2. Len(r) \in Nat /\ Len(r) > 0 /\ 1 + Unit + clen + plen = Len(r) + 1
    BY <1>2, <1>3
  <2> QED BY <2>1, <2>2
<1>6. ASSUME NEW j \in 1..Len(r) PROVE r[j].k = KindAt(v, j - 1)
  <2>1. CASE j = 1
    BY <1>4, <2>1 DEF KindAt
  <2>2. CASE j \in 2..Unit
    <3>1. r[j].k = "more" /\ j - 1 # 0 /\ j - 1 < Unit
      BY <1>1, <1>2, <1>3, <2>2
    <3> QED BY <3>1 DEF KindAt
  <2>3. CASE j > Unit
    <3>1. j \in (Unit + 1)..(Unit + (clen + plen)) /\ j - Unit \in 1..(clen + plen)
          /\ j - 1 # 0 /\ ~ (j - 1 < Unit)
      BY <1>2, <1>3, <2>3
    <3>2. r[j] = y[j - Unit]
      BY <1>3, <3>1
    <3>3. CASE j - 1 < Unit + clen
      <4>1. j - Unit \in 1..clen
        BY <1>2, <3>1, <3>3
      <4>2. r[j].k = IF type = "end" THEN "body" ELSE type
        BY <1>y, <3>2, <4>1
      <4> QED BY <1>2, <3>1, <3>3, <4>2 DEF KindAt
    <3>4. CASE ~ (j - 1 < Unit + clen)
      <4>1. j - Unit \in (clen + 1)..(clen + plen)
        BY <1>2, <3>1, <3>4
      <4>2. r[j].k = "pad"
        BY <1>y, <3>2, <4>1
      <4> QED BY <1>2, <3>1, <3>4, <4>2 DEF KindAt
    <3> QED BY <3>3, <3>4
  <2> QED BY <1>2, <1>3, <2>1, <2>2, <2>3
<1>7. IsRecord(r)
  BY <1>4, <1>5, <1>6, Zenon DEF IsRecord
<1>8. ASSUME NEW i \in 1..clen PROVE r[Unit + i] = y[i]
  <2>1. Unit + i \in (Unit + 1)..(Unit + (clen + plen)) /\ (Unit + i) - Unit = i
    BY <1>2
  <2> QED BY <1>3, <2>1
<1> QED BY <1>3, <1>4, <1>7, <1>8, Zenon DEF Made, r, h, v

(* The records that WriteCloseRecords puts. *)
LEMMA CloseRecords ==
  /\ \A s \in Streams : /\ Header(s, 0, 0) \in Seq(Byte) /\ IsRecord(Header(s, 0, 0))
                        /\ Header(s, 0, 0)[1].v = [type |-> s, clen |-> 0, plen |-> 0]
  /\ EndRequest \in Seq(Byte) /\ IsRecord(EndRequest)
  /\ EndRequest[1].v = [type |-> "end", clen |-> Unit, plen |-> 0]
<1>1. ASSUME NEW s \in Streams
      PROVE  /\ Header(s, 0, 0) \in Seq(Byte) /\ IsRecord(Header(s, 0, 0))
             /\ Header(s, 0, 0)[1].v = [type |-> s, clen |-> 0, plen |-> 0]
  <2> DEFINE h == Header(s, 0, 0)
             e == <<>>
  <2>1. s \in Type /\ 0 \in Nat
    BY DEF Type
  <2>2. h \in Seq(Byte)
    BY <2>1, HeaderType, Zenon
  <2>3. e \in Seq(Byte) /\ Len(e) = 0 + 0
    OBVIOUS
  <2>4. /\ \A i \in 1..0 : e[i].k = IF s = "end" THEN "body" ELSE s
        /\ \A i \in (0 + 1)..(0 + 0) : e[i].k = "pad"
    OBVIOUS
  <2>5. h \o e = h
    BY <2>2, ConcatEmpty, Zenon
  <2> HIDE DEF e
  <2>7. Fills(e, s, 0, 0)
    BY <2>3, <2>4, Zenon DEF Fills
  <2>8. Made(h \o e, e, s, 0, 0)
    BY <2>1, <2>3, <2>7, RecordMade, Zenon
  <2> HIDE DEF h
  <2>9. IsRecord(h \o e) /\ (h \o e)[1].v = [type |-> s, clen |-> 0, plen |-> 0]
    BY <2>8, Zenon DEF Made
  <2> QED BY <2>2, <2>5, <2>9, Zenon DEF h
<1>2. /\ EndRequest \in Seq(Byte) /\ IsRecord(EndRequest)
      /\ EndRequest[1].v = [type |-> "end", clen |-> Unit, plen |-> 0]
  <2> DEFINE y == Repeat(Unit, B("body", 0))
             t == "end"
  <2>1. Unit \in Nat /\ B("body", 0) \in Byte /\ B("body", 0).k = "body"
    BY FcgiOutputAssumption, ByteType DEF Kind, B
  <2>2. y \in Seq(Byte) /\ Len(y) = Unit + 0
    BY <2>1, RepeatType
  <2>3. \A i \in 1..Unit : y[i].k = "body"
    BY <2>1 DEF Repeat
  <2>4. \A i \in (Unit + 1)..(Unit + 0) : y[i].k = "pad"
    BY <2>1
  <2>5. t \in Type /\ 0 \in Nat
    BY DEF Type
  <2>6. EndRequest = Header(t, Unit, 0) \o y
    BY DEF EndRequest
  <2>7. \A i \in 1..Unit : y[i].k = IF t = "end" THEN "body" ELSE t
    BY <2>3
  <2> HIDE DEF y, t
  <2>9. Fills(y, t, Unit, 0)
    BY <2>2, <2>4, <2>7, Zenon DEF Fills
  <2>8. /\ Header(t, Unit, 0) \o y \in Seq(Byte) /\ IsRecord(Header(t, Unit, 0) \o y)
        /\ (Header(t, Unit, 0) \o y)[1].v = [type |-> t, clen |-> Unit, plen |-> 0]
    <3>1. Unit \in Nat /\ y \in Seq(Byte)
      BY <2>1, <2>2
    <3>2. Made(Header(t, Unit, 0) \o y, y, t, Unit, 0)
      BY <2>5, <2>9, <3>1, RecordMade, Zenon
    <3> QED BY <3>2, Zenon DEF Made
  <2> QED BY <2>6, <2>8, Zenon DEF t
<1> QED BY <1>1, <1>2

(* EmptyBuffProc makes a record of the content, or nothing of none. *)
LEMMA EncapsulatedRecord ==
  ASSUME NEW s \in Streams, NEW buf \in Seq(Byte), Len(buf) <= BuffLen[s], Len(buf) >= Unit,
         \A i \in (Unit + 1)..Len(buf) : buf[i].k = s
  PROVE  LET r == Encapsulated(s, buf)
         IN /\ Len(buf) = Unit => r = <<>>
            /\ Len(buf) > Unit =>
                 /\ r \in Seq(Byte) /\ IsRecord(r)
                 /\ r[1].v.type = s /\ r[1].v.clen = Len(buf) - Unit
                 /\ \A i \in 1..(Len(buf) - Unit) : r[Unit + i] = buf[Unit + i]
<1> DEFINE content == SubSeq(buf, Unit + 1, Len(buf))
           n == Len(content)
           e == AlignInt8(n)
           pad == Repeat(e - n, B("pad", 0))
           r == Encapsulated(s, buf)
<1>1. /\ Unit \in Nat /\ Unit >= 2 /\ BuffLen[s] \in Nat /\ BuffLen[s] > Unit
      /\ Len(buf) \in Nat
  BY FcgiOutputAssumption
<1>2. /\ content \in Seq(Byte) /\ n \in Nat /\ n = Len(buf) - Unit
      /\ \A i \in 1..n : content[i] = buf[Unit + i]
  <2>1. content \in Seq(Byte) /\ n \in Nat /\ n = Len(buf) - Unit
    BY <1>1
  <2>2. \A i \in 1..n : content[i] = buf[Unit + i]
    BY <1>1, <2>1
  <2> QED BY <2>1, <2>2
<1>3. r = IF n > 0 THEN Header(s, n, e - n) \o content \o pad ELSE <<>>
  BY Zenon DEF Encapsulated
<1> HIDE DEF content, n, e, pad, r
<1>4. CASE Len(buf) = Unit
  <2>1. ~ (n > 0) /\ ~ (Len(buf) > Unit)
    BY <1>1, <1>2, <1>4
  <2>2. r = <<>>
    BY <1>3, <2>1, Zenon
  <2> QED BY <1>4, <2>1, <2>2, Zenon DEF r
<1>5. CASE Len(buf) > Unit
  <2>1. n > 0 /\ n <= BuffLen[s] - Unit /\ ~ (Len(buf) = Unit)
    BY <1>1, <1>2, <1>5
  <2>2. e \in Nat /\ e >= n /\ e - n \in Nat
    <3>1. e \in Nat /\ e >= n
      BY <1>2, <2>1, PaddingFits, Zenon DEF e
    <3> QED BY <1>2, <3>1
  <2> DEFINE p == e - n
  <2>3. /\ pad \in Seq(Byte) /\ Len(pad) = p /\ \A i \in 1..p : pad[i].k = "pad"
    <3>1. B("pad", 0) \in Byte /\ B("pad", 0).k = "pad"
      BY ByteType, Zenon DEF Kind, B
    <3>2. pad \in Seq(Byte) /\ Len(pad) = p
      BY <2>2, <3>1, RepeatType, Zenon DEF pad
    <3>3. \A i \in 1..p : pad[i] = B("pad", 0)
      BY <2>2 DEF pad, Repeat
    <3> QED BY <3>1, <3>2, <3>3, Zenon
  <2>4. p \in Nat
    BY <2>2
  <2>5. s \in Type /\ (IF s = "end" THEN "body" ELSE s) = s
    BY DEF Type, Streams
  <2>6. Header(s, n, p) \in Seq(Byte)
    BY <1>2, <2>4, <2>5, HeaderType, Zenon
  <2> DEFINE h == Header(s, n, p)
             y == content \o pad
             z == Header(s, n, p) \o y
  <2>7. (Header(s, n, p) \o content) \o pad = Header(s, n, p) \o y
    <3>1. h \in Seq(Byte)
      BY <2>6
    <3> HIDE DEF h
    <3>2. (h \o content) \o pad = h \o (content \o pad)
      <4>1. content \in Seq(Byte) /\ pad \in Seq(Byte)
        BY <1>2, <2>3
      <4> HIDE DEF content, pad
      <4> QED BY <3>1, <4>1, ConcatAssoc, Zenon
    <3> QED BY <3>2 DEF h
  <2>8. r = z
    BY <1>3, <2>1, <2>7, Zenon
  <2> HIDE DEF p
  <2>9. /\ y \in Seq(Byte) /\ Len(y) = n + p
        /\ \A i \in 1..n : y[i] = content[i]
        /\ \A i \in (n + 1)..(n + p) : y[i] = pad[i - n]
    BY <1>2, <2>3, Joined, Zenon DEF n
  <2> HIDE DEF y
  <2>10. \A i \in 1..n : y[i] = buf[Unit + i] /\ y[i].k = s
    <3> SUFFICES ASSUME NEW i \in 1..n PROVE y[i] = buf[Unit + i] /\ y[i].k = s
      OBVIOUS
    <3>1. Unit + i \in (Unit + 1)..Len(buf)
      BY <1>1, <1>2
    <3>2. y[i] = content[i]
      BY <2>9
    <3>3. content[i] = buf[Unit + i]
      BY <1>2
    <3>4. buf[Unit + i].k = s
      BY <3>1, Zenon
    <3> QED BY <3>2, <3>3, <3>4
  <2>11. \A i \in (n + 1)..(n + p) : y[i].k = "pad"
    <3> SUFFICES ASSUME NEW i \in (n + 1)..(n + p) PROVE y[i].k = "pad"
      OBVIOUS
    <3>1. i - n \in 1..p
      BY <1>2, <2>4
    <3> QED BY <2>3, <2>9, <3>1, Zenon
  <2>12. /\ z \in Seq(Byte) /\ IsRecord(z)
         /\ z[1].v = [type |-> s, clen |-> n, plen |-> p]
         /\ \A i \in 1..n : z[Unit + i] = y[i]
    <3>1. \A i \in 1..n : y[i].k = IF s = "end" THEN "body" ELSE s
      BY <2>5, <2>10, Zenon
    <3>2. Fills(y, s, n, p)
      BY <2>9, <2>11, <3>1, Zenon DEF Fills
    <3>3. s \in Type /\ n \in Nat /\ p \in Nat /\ y \in Seq(Byte)
      BY <1>2, <2>4, <2>5, <2>9
    <3>4. Made(z, y, s, n, p)
      BY <3>2, <3>3, RecordMade, Zenon
    <3> HIDE DEF z
    <3> QED BY <3>4, Zenon DEF Made
  <2> HIDE DEF z
  <2>13. z[1].v.type = s /\ z[1].v.clen = n
    BY <2>12
  <2> QED BY <1>2, <1>5, <2>1, <2>8, <2>10, <2>12, <2>13, Zenon DEF r
<1> QED BY <1>1, <1>4, <1>5

-----------------------------------------------------------------------------
(* What the calls q say of the bytes on their way, by the first call.      *)

(* The first call, by its name. *)
LEMMA FirstCall ==
  ASSUME NEW q, q # <<>>
  PROVE  /\ Head(q).op = "put" =>
              /\ Bytes(q) = Head(q).arg /\ Waiting(q) = q
              /\ \A raw : (raw => Recorded(q, raw)) /\ (~raw => ~Recorded(q, raw))
         /\ Head(q).op = "empty" =>
              /\ Bytes(q) = <<>> /\ Waiting(q) = Tail(q)
              /\ \A raw : (raw => Recorded(q, raw)) /\ (~raw => ~Recorded(q, raw))
         /\ Head(q).op = "write" =>
              /\ Bytes(q) = <<>> /\ Waiting(q) = Tail(q)
              /\ \A raw : Recorded(q, raw)
         /\ Head(q).op = "closeRecords" =>
              /\ Bytes(q) = <<>> /\ Waiting(q) = q
              /\ \A raw : Recorded(q, raw)
         /\ Head(q).op = "closed" =>
              /\ Bytes(q) = <<>> /\ Waiting(q) = q
              /\ \A raw : ~Recorded(q, raw)
         /\ Under(q) = Tail(q)
<1>1. Under(q) = Tail(q)
  BY Zenon DEF Under
<1>2. Head(q).op \in {"empty", "write", "closeRecords", "closed"} => Bytes(q) = <<>>
  BY DEF Bytes
<1>3. Head(q).op = "put" => Bytes(q) = Head(q).arg
  BY DEF Bytes
<1>4. Head(q).op \in {"empty", "write"} => Waiting(q) = Tail(q)
  BY DEF Waiting
<1>5. Head(q).op \in {"put", "closeRecords", "closed"} => Waiting(q) = q
  BY DEF Waiting
<1>6. ASSUME NEW raw
      PROVE  /\ Head(q).op \in {"put", "empty"} => (raw => Recorded(q, raw)) /\ (~raw => ~Recorded(q, raw))
             /\ Head(q).op \in {"write", "closeRecords"} => Recorded(q, raw)
             /\ Head(q).op = "closed" => ~Recorded(q, raw)
  <2>1. "put" # "write" /\ "put" # "closeRecords" /\ "empty" # "write"
        /\ "empty" # "closeRecords" /\ "closed" # "write" /\ "closed" # "closeRecords"
        /\ "closed" # "put" /\ "closed" # "empty"
    OBVIOUS
  <2> QED BY <2>1, Zenon DEF Recorded
<1>7. ASSUME Head(q).op = "put"
      PROVE  /\ Bytes(q) = Head(q).arg /\ Waiting(q) = q
             /\ \A raw : (raw => Recorded(q, raw)) /\ (~raw => ~Recorded(q, raw))
  BY <1>3, <1>5, <1>6, <1>7, Zenon
<1>8. ASSUME Head(q).op = "empty"
      PROVE  /\ Bytes(q) = <<>> /\ Waiting(q) = Tail(q)
             /\ \A raw : (raw => Recorded(q, raw)) /\ (~raw => ~Recorded(q, raw))
  BY <1>2, <1>4, <1>6, <1>8, Zenon
<1>9. ASSUME Head(q).op = "write"
      PROVE  /\ Bytes(q) = <<>> /\ Waiting(q) = Tail(q)
             /\ \A raw : Recorded(q, raw)
  BY <1>2, <1>4, <1>6, <1>9, Zenon
<1>10. ASSUME Head(q).op = "closeRecords"
       PROVE  /\ Bytes(q) = <<>> /\ Waiting(q) = q
              /\ \A raw : Recorded(q, raw)
  BY <1>2, <1>5, <1>6, <1>10, Zenon
<1>11. ASSUME Head(q).op = "closed"
       PROVE  /\ Bytes(q) = <<>> /\ Waiting(q) = q
              /\ \A raw : ~Recorded(q, raw)
  BY <1>2, <1>5, <1>6, <1>11, Zenon
<1> QED BY <1>1, <1>7, <1>8, <1>9, <1>10, <1>11

(* Before the closing records, and with nothing made a record, the web     *)
(* server has received all there is.                                       *)
LEMMA WirePlain ==
  ASSUME NEW k \in Seq(Byte), NEW q, NEW w, NEW o,
         q = <<>> \/ (~w.rawWrite /\ ~Recorded(q, w.rawWrite))
  PROVE  WireOf(k, q, w, o) = k
<1>1. CASE q = <<>>
  BY <1>1, Zenon DEF WireOf
<1>2. CASE q # <<>>
  <2>1. ~w.rawWrite /\ ~Recorded(q, w.rawWrite)
    BY <1>2
  <2>2. Unsent(q, w, o) = <<>> \o <<>>
    BY <2>1, Zenon DEF Unsent
  <2>3. <<>> \o <<>> = <<>>
    OBVIOUS
  <2>4. k \o <<>> = k
    BY ConcatEmpty, Zenon
  <2> QED BY <1>2, <2>2, <2>3, <2>4, Zenon DEF WireOf
<1> QED BY <1>1, <1>2

(* With a record in the buffer. *)
LEMMA WireRecorded ==
  ASSUME NEW k \in Seq(Byte), NEW q, NEW w \in Writer, NEW o \in Nat,
         q # <<>>, ~w.rawWrite, Recorded(q, w.rawWrite)
  PROVE  WireOf(k, q, w, o) = k \o SubSeq(w.buf, o + 1, Len(w.buf))
<1> DEFINE u == SubSeq(w.buf, o + 1, Len(w.buf))
<1>1. u \in Seq(Byte)
  <2>1. w.buf \in Seq(Byte) /\ o + 1 \in 1..(o + 1)
    BY DEF Writer
  <2> HIDE DEF Byte
  <2> QED BY <2>1
<1>2. Unsent(q, w, o) = u \o <<>>
  BY Zenon DEF Unsent
<1> HIDE DEF u
<1>3. u \o <<>> = u
  BY <1>1, ConcatEmpty, Zenon
<1> QED BY <1>2, <1>3, Zenon DEF WireOf, u

(* A stream of no call. *)
LEMMA Elsewhere ==
  ASSUME NEW q, NEW t, NEW w, q = <<>> \/ Head(q).s # t
  PROVE  ToPut(q, t, w) = <<>> /\ (Away(q, t, w) <=> w.rawWrite)
  BY Zenon DEF ToPut, Away, Current

(* The stream of the first call. *)
LEMMA AtHead ==
  ASSUME NEW q, NEW w, NEW s, q # <<>>, s = Head(q).s
  PROVE  /\ ~w.rawWrite => ToPut(q, s, w) = Bytes(Waiting(q))
         /\ w.rawWrite => ToPut(q, s, w) = <<>>
         /\ Away(q, s, w) <=> w.rawWrite \/ Recorded(q, w.rawWrite)
  BY Zenon DEF ToPut, Away, Current

(* A stream keeps what it holds when neither its bytes nor what is on the  *)
(* wire of it change.                                                      *)
LEMMA HeldKept ==
  ASSUME NEW x, NEW x2, NEW s, NEW n, NEW q, NEW q2, NEW w, NEW w2,
         Held(x, s, n, q, w),
         ToPut(q2, s, w2) = ToPut(q, s, w), Away(q2, s, w2) <=> Away(q, s, w),
         w2.buf = w.buf \/ Away(q, s, w),
         w2.isClosed => w2.wasFCloseCalled,
         Reached(x2, s, Len(x2)) = Reached(x, s, Len(x)),
         ~w2.rawWrite => Eofs(x2, s) = {}
  PROVE  Held(x2, s, n, q2, w2)
  BY Zenon DEF Held, Carried, Buffered

(* A stream that is not written to, on the same wire. *)
LEMMA HeldElsewhere ==
  ASSUME NEW x, NEW s, NEW n, NEW q, NEW q2, NEW w,
         Held(x, s, n, q, w), q = <<>> \/ Head(q).s # s, q2 = <<>> \/ Head(q2).s # s
  PROVE  Held(x, s, n, q2, w)
<1>1. /\ ToPut(q, s, w) = <<>> /\ (Away(q, s, w) <=> w.rawWrite)
      /\ ToPut(q2, s, w) = <<>> /\ (Away(q2, s, w) <=> w.rawWrite)
  BY Elsewhere, Zenon
<1>2. Away(q2, s, w) <=> Away(q, s, w)
  BY <1>1
<1>3. (w.isClosed => w.wasFCloseCalled) /\ (~w.rawWrite => Eofs(x, s) = {})
  BY DEF Held
<1> QED BY <1>1, <1>2, <1>3, HeldKept, Zenon

(* A stream whose content has been made records, on the same wire. *)
LEMMA HeldRaw ==
  ASSUME NEW x, NEW s, NEW n, NEW q, NEW q2, NEW w, NEW w2,
         Held(x, s, n, q, w), w.rawWrite, w2.rawWrite,
         w2.isClosed => w2.wasFCloseCalled
  PROVE  Held(x, s, n, q2, w2)
<1>1. /\ ToPut(q, s, w) = <<>> /\ Away(q, s, w)
      /\ ToPut(q2, s, w2) = <<>> /\ Away(q2, s, w2)
  BY Zenon DEF ToPut, Away
<1> QED BY <1>1, HeldKept, Zenon

(* The content stays when the wire does and each stream keeps its bytes. *)
LEMMA SameContent ==
  ASSUME Content, Wire' = Wire, put' = put,
         st'["out"].rawWrite = st["out"].rawWrite,
         \A t \in Streams : Held(Wire, t, put[t], stack', st'[t])
  PROVE  Content'
  BY Zenon DEF Content

-----------------------------------------------------------------------------
(* FCGX_PutStr moves the first m bytes to be put into the buffer. *)
LEMMA BufferGrows ==
  ASSUME NEW x \in Seq(Byte), NEW s \in Streams, NEW n \in Nat, NEW b \in Seq(Byte),
         NEW buf \in Seq(Byte), NEW m \in Nat, m <= Len(b),
         Carried(x, s, n, b), Buffered(x, s, n - Len(b), buf)
  PROVE  LET d == SubSeq(b, m + 1, Len(b))
         IN Carried(x, s, n, d) /\ Buffered(x, s, n - Len(d), buf \o SubSeq(b, 1, m))
<1> DEFINE c == SubSeq(b, 1, m)
           d == SubSeq(b, m + 1, Len(b))
           buf2 == buf \o c
<1> HIDE DEF Byte
<1>1. PICK a \in Nat : a = Reached(x, s, Len(x))
  <2>1. n - Len(b) \in Nat /\ Reached(x, s, Len(x)) \in 0..(n - Len(b))
    BY DEF Carried
  <2>2. Reached(x, s, Len(x)) \in Nat
    BY <2>1
  <2> QED BY <2>2, Zenon
<1>2. PICK l \in Nat : l = Len(b)
  OBVIOUS
<1>3. PICK k : k = n - Len(b)
  OBVIOUS
<1>4. /\ k \in Nat /\ a \in 0..k
      /\ \A i \in 1..l : b[i] = B(s, k + i)
      /\ Len(buf) = Unit + (k - a)
      /\ \A i \in 1..(k - a) : buf[Unit + i] = B(s, a + i)
  BY <1>1, <1>2, <1>3, Zenon DEF Carried, Buffered
<1>5. Unit \in Nat /\ m <= l /\ k = n - l
  BY <1>2, <1>3, FcgiOutputAssumption
<1>6. /\ c \in Seq(Byte) /\ Len(c) = m /\ \A i \in 1..m : c[i] = b[i]
      /\ d \in Seq(Byte) /\ Len(d) = l - m /\ \A i \in 1..(l - m) : d[i] = b[m + i]
  BY <1>2, <1>5
<1> HIDE DEF c, d
<1>7. /\ buf2 \in Seq(Byte) /\ Len(buf2) = Len(buf) + Len(c)
      /\ \A i \in 1..Len(buf) : buf2[i] = buf[i]
      /\ \A i \in (Len(buf) + 1)..(Len(buf) + Len(c)) : buf2[i] = c[i - Len(buf)]
  BY <1>6, Joined, Zenon
<1> HIDE DEF buf2
<1> DEFINE k2 == k + m
<1>8. /\ n - Len(d) = k2 /\ k2 \in Nat /\ a \in 0..k2
  BY <1>4, <1>5, <1>6
<1>9. \A i \in 1..Len(d) : d[i] = B(s, k2 + i)
  <2> SUFFICES ASSUME NEW i \in 1..Len(d) PROVE d[i] = B(s, k2 + i)
    OBVIOUS
  <2>1. i \in 1..(l - m) /\ m + i \in 1..l /\ k + (m + i) = k2 + i
    <3>1. k \in Nat /\ Len(d) = l - m
      BY <1>4, <1>6
    <3> QED BY <1>5, <3>1
  <2> QED BY <1>4, <1>6, <2>1
<1>10. Len(buf2) = Unit + (k2 - a)
  <2>1. Len(buf2) = Unit + (k - a) + m
    BY <1>4, <1>6, <1>7
  <2> QED BY <1>4, <1>5, <2>1
<1>11. \A i \in 1..(k2 - a) : buf2[Unit + i] = B(s, a + i)
  <2> SUFFICES ASSUME NEW i \in 1..(k2 - a) PROVE buf2[Unit + i] = B(s, a + i)
    OBVIOUS
  <2>1. CASE i <= k - a
    <3>1. i \in 1..(k - a) /\ Unit + i \in 1..Len(buf)
      BY <1>4, <1>5, <2>1
    <3> QED BY <1>4, <1>7, <3>1, Zenon
  <2>2. CASE i > k - a
    <3>1. PICK j : j = i - (k - a)
      OBVIOUS
    <3>2. j \in 1..m /\ j \in 1..l /\ k + j = a + i
      BY <1>4, <1>5, <2>2, <3>1
    <3>3. Unit + i \in (Len(buf) + 1)..(Len(buf) + m) /\ (Unit + i) - Len(buf) = j
      BY <1>4, <1>5, <2>2, <3>1
    <3>4. buf2[Unit + i] = c[j]
      BY <1>6, <1>7, <3>3, SMTT(30)
    <3>5. c[j] = b[j]
      BY <1>6, <3>2
    <3>6. b[j] = B(s, k + j)
      BY <1>4, <3>2
    <3> QED BY <3>2, <3>4, <3>5, <3>6
  <2> QED BY <1>1, <1>4, <2>1, <2>2
<1> HIDE DEF k2
<1> QED BY <1>1, <1>8, <1>9, <1>10, <1>11, Zenon DEF Carried, Buffered, c, d, buf2

(* The calls that WriteCloseRecords left, and the bytes they put. *)
LEMMA RestBytes ==
  ASSUME NEW s \in Streams
  PROVE  /\ Bytes(Rest(s)) = <<>> /\ Bytes(Under(Rest(s))) = <<>>
         /\ Raw(Rest(s)) = <<>> /\ ~Recorded(Rest(s), TRUE)
         /\ Head(Rest(s)).s = s
<1>1. PICK q : q = Rest(s)
  OBVIOUS
<1>2. /\ q # <<>> /\ Head(q).op = "closed" /\ Head(q).s = s
  <2>1. q # <<>> /\ Head(q) = Call("closed", s, 0)
    BY <1>1, RestCalls, Zenon
  <2> QED BY <2>1 DEF Call
<1>3. Bytes(q) = <<>> /\ Waiting(q) = q /\ ~Recorded(q, TRUE) /\ Under(q) = Tail(q)
  BY <1>2, FirstCall, Zenon
<1>4. Bytes(Tail(q)) = <<>>
  <2>1. CASE s = "err"
    <3>1. PICK e, r : e = Call("empty", "out", TRUE) /\ r = Rest("out")
      BY Zenon
    <3>2. "out" \in Streams
      BY DEF Streams
    <3>3. r \in Seq(Frame) /\ Tail(q) = Over(e, r)
      BY <1>1, <2>1, <3>1, <3>2, RestCalls, Zenon
    <3>4. Over(e, r) # <<>> /\ Head(Over(e, r)) = e
      BY <3>3, OverCalls, Zenon
    <3>5. e.op = "empty"
      BY <3>1 DEF Call
    <3> QED BY <3>3, <3>4, <3>5, FirstCall, Zenon
  <2>2. CASE s # "err"
    <3>1. Tail(q) = <<>>
      BY <1>1, <2>2, RestCalls, Zenon
    <3> QED BY <3>1 DEF Bytes
  <2> QED BY <2>1, <2>2
<1>5. Raw(q) = <<>> \o <<>>
  BY <1>3, <1>4, Zenon DEF Raw
<1>6. <<>> \o <<>> = <<>>
  OBVIOUS
<1> QED BY <1>1, <1>2, <1>3, <1>4, <1>5, <1>6, Zenon

(* The end of EmptyBuffProc, above the rest of FCGX_Finish_r. *)
LEMMA LastWrite ==
  ASSUME NEW s \in Streams, NEW q, q = Over(Write(s), Rest(s))
  PROVE  /\ q \in Seq(Frame) /\ q # <<>> /\ Head(q) = Write(s) /\ Tail(q) = Rest(s)
         /\ Head(q).op = "write" /\ Head(q).s = s
         /\ Bytes(q) = <<>> /\ Raw(q) = <<>> /\ Recorded(q, TRUE)
<1>1. q \in Seq(Frame) /\ q # <<>> /\ Head(q) = Write(s) /\ Tail(q) = Rest(s)
  <2>1. Rest(s) \in Seq(Frame)
    BY RestCalls, Zenon
  <2>2. Write(s) \in Frame
    BY CallType, Zenon DEF Write
  <2> QED BY <2>1, <2>2, OverCalls, Zenon
<1>2. Head(q).op = "write" /\ Head(q).s = s
  BY <1>1 DEF Write, Call
<1>3. Bytes(q) = <<>> /\ Waiting(q) = Rest(s) /\ Recorded(q, TRUE)
  BY <1>1, <1>2, FirstCall, Zenon
<1>4. Raw(q) = Raw(Rest(s))
  <2>1. Waiting(Rest(s)) = Rest(s)
    <3>1. Rest(s) # <<>> /\ Head(Rest(s)).op = "closed"
      <4>1. Rest(s) # <<>> /\ Head(Rest(s)) = Call("closed", s, 0)
        BY RestCalls, Zenon
      <4> QED BY <4>1 DEF Call
    <3> QED BY <3>1, FirstCall, Zenon
  <2> QED BY <1>3, <2>1, Zenon DEF Raw
<1> QED BY <1>1, <1>2, <1>3, <1>4, RestBytes, Zenon

(* FCGX_PutStr of a closing record, above what is left to be done then. *)
LEMMA RawPut ==
  ASSUME NEW s \in Streams, NEW q, q # <<>>, Head(q).op = "put"
  PROVE  Raw(q) = Head(q).arg \o Bytes(Tail(q))
<1>1. Bytes(q) = Head(q).arg /\ Waiting(q) = q /\ Under(q) = Tail(q)
  BY FirstCall, Zenon
<1> QED BY <1>1, Zenon DEF Raw

-----------------------------------------------------------------------------
Good == Inv /\ Control /\ sock \in Seq(Byte) /\ Content

(* The stream of the first call, before a step. *)
LEMMA GoodStream ==
  ASSUME Good, stack # <<>>, NEW s, s = Head(stack).s
  PROVE  /\ s \in Streams /\ Head(stack) \in Frame /\ Tail(stack) \in Seq(Frame)
         /\ st[s] \in Writer /\ st[s].buf \in Seq(Byte) /\ Len(st[s].buf) <= BuffLen[s]
         /\ offset \in Nat /\ (Head(stack).op # "write" => offset = 0)
         /\ Wire = WireOf(sock, stack, st[s], offset)
         /\ Held(Wire, s, put[s], stack, st[s]) /\ put[s] \in Nat
<1>1. stack \in Seq(Frame) /\ st \in [Streams -> Writer] /\ offset \in Nat
      /\ put \in [Streams -> Nat]
  BY DEF Good, Inv, Types
<1>2. s \in Streams /\ Head(stack) \in Frame /\ Tail(stack) \in Seq(Frame)
  BY <1>1, Returned
<1>3. st[s] \in Writer /\ put[s] \in Nat
  BY <1>1, <1>2
<1>4. st[s].buf \in Seq(Byte)
  BY <1>3 DEF Writer
<1>5. Len(st[s].buf) <= BuffLen[s]
  BY <1>2, Zenon DEF Good, Inv, BufferHolds
<1>6. Head(stack).op # "write" => offset = 0
  <2>1. offset > 0 => Head(stack).op = "write"
    BY Zenon DEF Good, Inv, WritesInside, Top
  <2> QED BY <1>1, <2>1
<1>7. Wire = WireOf(sock, stack, st[s], offset)
  BY DEF Wire
<1>8. Held(Wire, s, put[s], stack, st[s])
  BY <1>2, Zenon DEF Good, Content
<1> QED BY <1>1, <1>2, <1>3, <1>4, <1>5, <1>6, <1>7, <1>8

(* FCGX_PutStr finds the stream open: nothing failed. *)
LEMMA GoodOpen ==
  ASSUME Good, NEW s \in Streams, Opened \/ Closing(s)
  PROVE  ~st[s].isClosed
<1>1. st[s].isClosed => st[s].wasFCloseCalled
  BY Zenon DEF Good, Content, Held
<1>2. ~st[s].wasFCloseCalled
  BY Zenon DEF Opened, Closing
<1> QED BY <1>1, <1>2

(* FCGX_PutStr of bytes b puts m of them into the buffer of stream s. *)
Puts(s, b, m) ==
  /\ st' = [st EXCEPT ![s].buf = st[s].buf \o SubSeq(b, 1, m)]
  /\ m = Len(b) => stack' = Tail(stack)
  /\ m # Len(b) =>
       stack' = Over(Call("empty", s, FALSE),
                     Over(Call("put", s, SubSeq(b, m + 1, Len(b))), Tail(stack)))

(* What FCGX_PutStr does to an open stream. *)
LEMMA PutStrStep ==
  ASSUME Good, PutStr, NEW s, s = Head(stack).s, NEW b, b = Head(stack).arg, ~st[s].isClosed
  PROVE  /\ stack # <<>> /\ Head(stack).op = "put" /\ b \in Seq(Byte)
         /\ UNCHANGED <<nWriters, offset, sock, broken, put, phase, flushes>>
         /\ \E m \in Nat : m <= Len(b) /\ Puts(s, b, m)
<1>1. stack # <<>> /\ Head(stack).op = "put"
  BY DEF PutStr, Top
<1>2. b \in Seq(Byte)
  BY <1>1, GoodStream, Zenon DEF Frame
<1>3. /\ s \in Streams /\ st \in [Streams -> Writer]
      /\ st[s].buf \in Seq(Byte) /\ Len(st[s].buf) <= BuffLen[s]
  BY <1>1, GoodStream, Zenon DEF Good, Inv, Types
<1>4. PICK room : room = BuffLen[s] - Len(st[s].buf)
  OBVIOUS
<1>5. room \in Nat /\ Len(b) \in Nat
  <2>1. BuffLen[s] \in Nat
    BY <1>3, FcgiOutputAssumption
  <2>2. Len(st[s].buf) \in Nat /\ Len(b) \in Nat
    BY <1>2, <1>3
  <2> QED BY <1>3, <1>4, <2>1, <2>2
<1>6. PICK m : m = IF Len(b) < room THEN Len(b) ELSE room
  OBVIOUS
<1>7. m \in Nat /\ m <= Len(b)
  BY <1>5, <1>6
<1>8. /\ st' = [st EXCEPT ![s].buf = @ \o SubSeq(b, 1, m)]
      /\ IF m = Len(b) \/ st[s].isClosed THEN stack' = Tail(stack)
         ELSE stack' = Over(Call("empty", s, FALSE),
                            Over(Call("put", s, SubSeq(b, m + 1, Len(b))), Tail(stack)))
      /\ UNCHANGED <<nWriters, offset, sock, broken, put, phase, flushes>>
  BY <1>4, <1>6, Zenon DEF PutStr, Return
<1>9. st' = [st EXCEPT ![s].buf = st[s].buf \o SubSeq(b, 1, m)]
  BY <1>8
<1>10. Puts(s, b, m)
  BY <1>8, <1>9, Zenon DEF Puts
<1> QED BY <1>1, <1>2, <1>7, <1>8, <1>10, ZenonT(30)

(* A step that gives stream s another buffer. *)
LEMMA OtherBuffer ==
  ASSUME Inv, NEW s \in Streams, NEW buf \in Seq(Byte), st' = [st EXCEPT ![s].buf = buf]
  PROVE  /\ st'[s] \in Writer /\ st'[s].buf = buf
         /\ st'[s].rawWrite = st[s].rawWrite /\ st'[s].isClosed = st[s].isClosed
         /\ st'[s].wasFCloseCalled = st[s].wasFCloseCalled
         /\ \A t \in Streams : t # s => st'[t] = st[t]
         /\ st'["out"].rawWrite = st["out"].rawWrite
<1>1. st \in [Streams -> Writer] /\ "out" \in Streams
  BY DEF Inv, Types, Streams
<1>2. /\ st'[s] = [st[s] EXCEPT !.buf = buf]
      /\ \A t \in Streams : t # s => st'[t] = st[t]
  BY <1>1
<1>3. /\ st'[s] \in Writer /\ st'[s].buf = buf
      /\ st'[s].rawWrite = st[s].rawWrite /\ st'[s].isClosed = st[s].isClosed
      /\ st'[s].wasFCloseCalled = st[s].wasFCloseCalled
  <2>1. st[s] \in Writer
    BY <1>1
  <2> QED BY <1>2, <2>1 DEF Writer
<1> QED BY <1>1, <1>2, <1>3, Zenon

(* FCGX_PutStr into a buffer of content. *)
LEMMA PutStrPlain == Good /\ Opened /\ PutStr => Content'
<1> SUFFICES ASSUME Good, Opened, PutStr PROVE Content'
  OBVIOUS
<1>0. PICK s, b : s = Head(stack).s /\ b = Head(stack).arg
  BY SMTT(30)
<1>1. stack # <<>> /\ Head(stack).op = "put" /\ Control
  BY Zenon DEF PutStr, Top, Good
<1>2. s \in Streams /\ Tail(stack) \in Seq(Frame)
      /\ st[s].buf \in Seq(Byte) /\ put[s] \in Nat
      /\ Wire = WireOf(sock, stack, st[s], offset)
      /\ Held(Wire, s, put[s], stack, st[s])
  BY <1>0, <1>1, GoodStream, Zenon
<1>3. ~st[s].isClosed /\ ~st[s].rawWrite
  BY <1>2, GoodOpen, Zenon DEF Opened
<1>4. Tail(stack) = <<>>
  <2>1. ~ Closing(s)
    BY DEF Opened, Closing
  <2> QED BY <1>0, <1>1, <2>1, AtPut, Zenon DEF Top
<1>5. b \in Seq(Byte) /\ UNCHANGED <<nWriters, offset, sock, broken, put, phase, flushes>>
  BY <1>0, <1>3, PutStrStep, Zenon
<1>16. PICK m \in Nat : m <= Len(b) /\ Puts(s, b, m)
  BY <1>0, <1>3, PutStrStep, Zenon
<1>6. /\ m <= Len(b)
      /\ st' = [st EXCEPT ![s].buf = st[s].buf \o SubSeq(b, 1, m)]
      /\ m = Len(b) => stack' = Tail(stack)
      /\ m # Len(b) =>
           stack' = Over(Call("empty", s, FALSE),
                         Over(Call("put", s, SubSeq(b, m + 1, Len(b))), Tail(stack)))
  BY <1>16, Zenon DEF Puts
<1> DEFINE c == SubSeq(b, 1, m)
           d == SubSeq(b, m + 1, Len(b))
<1> HIDE DEF Byte
<1>7. c \in Seq(Byte) /\ d \in Seq(Byte) /\ (m = Len(b) => d = <<>>)
  BY <1>5, <1>6
<1>8. st[s].buf \o c \in Seq(Byte)
  BY <1>2, <1>7, Joined, Zenon
<1> HIDE DEF d
<1>9. /\ st'[s].buf = st[s].buf \o c
      /\ st'[s].rawWrite = st[s].rawWrite /\ st'[s].isClosed = st[s].isClosed
      /\ \A t \in Streams : t # s => st'[t] = st[t]
      /\ st'["out"].rawWrite = st["out"].rawWrite
  BY <1>2, <1>6, <1>8, OtherBuffer, Zenon DEF Good
<1>10. /\ ToPut(stack, s, st[s]) = b /\ ~Away(stack, s, st[s])
       /\ ~Recorded(stack, st[s].rawWrite)
  <2>1. Bytes(stack) = b /\ Waiting(stack) = stack /\ ~Recorded(stack, st[s].rawWrite)
    BY <1>0, <1>1, <1>3, FirstCall, Zenon
  <2> QED BY <1>0, <1>1, <1>3, <2>1, AtHead, Zenon
<1>11. /\ ToPut(stack', s, st'[s]) = d /\ ~Away(stack', s, st'[s])
       /\ stack' = <<>> \/ (Head(stack').s = s /\ ~Recorded(stack', st'[s].rawWrite))
  <2>1. CASE m = Len(b)
    <3>1. stack' = <<>> /\ d = <<>>
      BY <1>4, <1>6, <1>7, <2>1, Zenon
    <3>2. ToPut(stack', s, st'[s]) = <<>> /\ ~Away(stack', s, st'[s])
      BY <1>3, <1>9, <3>1, Elsewhere, Zenon
    <3> QED BY <3>1, <3>2
  <2>2. CASE m # Len(b)
    <3>1. PICK e, p, q : /\ e = Call("empty", s, FALSE) /\ p = Call("put", s, d)
                         /\ q = Over(p, Tail(stack))
      BY Zenon
    <3>2. stack' = Over(e, q)
      BY <1>6, <2>2, <3>1, Zenon DEF d
    <3>3. p \in Frame /\ e.op = "empty" /\ e.s = s /\ p.op = "put" /\ p.arg = d
      <4>1. p \in Frame
        BY <1>2, <1>7, <3>1, CallType, Zenon
      <4> QED BY <3>1, <4>1 DEF Call
    <3>4. q \in Seq(Frame) /\ q # <<>> /\ Head(q) = p
      BY <1>2, <3>1, <3>3, OverCalls, Zenon
    <3>5. stack' # <<>> /\ Head(stack') = e /\ Tail(stack') = q
      BY <3>2, <3>4, OverCalls, Zenon
    <3>6. Bytes(q) = d
      BY <3>3, <3>4, FirstCall, Zenon
    <3>7. Waiting(stack') = q /\ ~Recorded(stack', st'[s].rawWrite)
      BY <1>3, <1>9, <3>3, <3>5, FirstCall, Zenon
    <3>8. ToPut(stack', s, st'[s]) = d /\ ~Away(stack', s, st'[s])
      <4>1. s = Head(stack').s /\ ~st'[s].rawWrite
        BY <1>3, <1>9, <3>3, <3>5, Zenon
      <4>2. /\ ToPut(stack', s, st'[s]) = Bytes(Waiting(stack'))
            /\ ~Away(stack', s, st'[s])
        BY <3>5, <3>7, <4>1, AtHead, Zenon
      <4> QED BY <3>6, <3>7, <4>2, Zenon
    <3> QED BY <3>3, <3>5, <3>7, <3>8
  <2> QED BY <2>1, <2>2
<1>12. Wire = sock
  BY <1>2, <1>3, <1>10, WirePlain, Zenon DEF Good
<1>13. Wire' = sock
  <2>1. Wire' = WireOf(sock, stack', st'[Head(stack').s], offset)
    BY <1>5 DEF Wire
  <2>2. CASE stack' = <<>>
    BY <2>1, <2>2, WirePlain, Zenon DEF Good
  <2>3. CASE Head(stack').s = s /\ ~Recorded(stack', st'[s].rawWrite)
    BY <1>3, <1>9, <2>1, <2>3, WirePlain, Zenon DEF Good
  <2> QED BY <1>11, <2>2, <2>3, SMTT(30)
<1>14. Held(Wire, s, put[s], stack', st'[s])
  <2>1. /\ Carried(Wire, s, put[s], b) /\ Buffered(Wire, s, put[s] - Len(b), st[s].buf)
        /\ st[s].isClosed => st[s].wasFCloseCalled
        /\ ~st[s].rawWrite => Eofs(Wire, s) = {}
    BY <1>2, <1>10, Zenon DEF Held
  <2>2. Wire \in Seq(Byte)
    BY <1>12 DEF Good
  <2>3. Carried(Wire, s, put[s], d) /\ Buffered(Wire, s, put[s] - Len(d), st[s].buf \o c)
    BY <1>2, <1>5, <1>6, <2>1, <2>2, BufferGrows, Zenon DEF d
  <2> QED BY <1>3, <1>9, <1>11, <2>1, <2>3, Zenon DEF Held
<1>15. ASSUME NEW t \in Streams, t # s PROVE Held(Wire, t, put[t], stack', st'[t])
  <2>1. Held(Wire, t, put[t], stack, st[t]) /\ st'[t] = st[t]
    BY <1>9, <1>15, Zenon DEF Good, Content
  <2>2. (stack = <<>> \/ Head(stack).s # t) /\ (stack' = <<>> \/ Head(stack').s # t)
    BY <1>0, <1>11, <1>15
  <2> QED BY <2>1, <2>2, HeldElsewhere, Zenon
<1>17. \A t \in Streams : Held(Wire, t, put[t], stack', st'[t])
  BY <1>14, <1>15, Zenon
<1> QED BY <1>5, <1>9, <1>12, <1>13, <1>17, SameContent, Zenon DEF Good

-----------------------------------------------------------------------------
(* Two parts of a sequence make the sequence. *)
LEMMA Adjacent ==
  ASSUME NEW S, NEW b \in Seq(S), NEW m \in 0..Len(b)
  PROVE  SubSeq(b, 1, m) \o SubSeq(b, m + 1, Len(b)) = b
<1>1. PICK c, d : c = SubSeq(b, 1, m) /\ d = SubSeq(b, m + 1, Len(b))
  BY Zenon
<1>2. /\ c \in Seq(S) /\ Len(c) = m /\ \A i \in 1..m : c[i] = b[i]
      /\ d \in Seq(S) /\ Len(d) = Len(b) - m /\ \A i \in 1..(Len(b) - m) : d[i] = b[m + i]
  BY <1>1, SMTT(30)
<1>3. PICK e : e = c \o d
  BY Zenon
<1>4. /\ e \in Seq(S) /\ Len(e) = Len(c) + Len(d)
      /\ \A i \in 1..(Len(c) + Len(d)) : e[i] = IF i <= Len(c) THEN c[i] ELSE d[i - Len(c)]
  BY <1>2, <1>3, Concat, Zenon
<1>5. Len(e) = Len(b) /\ \A i \in 1..Len(b) : e[i] = b[i]
  BY <1>2, <1>4
<1>6. e = b
  BY <1>4, <1>5
<1> QED BY <1>1, <1>3, <1>6, Zenon

(* A sequence is what comes up to a position and what comes after it. *)
LEMMA Parts ==
  ASSUME NEW b \in Seq(Byte), NEW m \in Nat, m <= Len(b)
  PROVE  /\ SubSeq(b, 1, m) \in Seq(Byte) /\ SubSeq(b, m + 1, Len(b)) \in Seq(Byte)
         /\ SubSeq(b, 1, m) \o SubSeq(b, m + 1, Len(b)) = b
         /\ m = Len(b) => SubSeq(b, 1, m) = b /\ SubSeq(b, m + 1, Len(b)) = <<>>
<1> HIDE DEF Byte
<1>1. Len(b) \in Nat
  OBVIOUS
<1>2. SubSeq(b, 1, Len(b)) = b
  OBVIOUS
<1>3. SubSeq(b, 1, m) \o SubSeq(b, m + 1, Len(b)) = b
  <2>1. m \in 0..Len(b)
    BY <1>1
  <2> QED BY <2>1, Adjacent, Zenon
<1>4. SubSeq(b, 1, m) \in Seq(Byte) /\ SubSeq(b, m + 1, Len(b)) \in Seq(Byte)
  BY <1>1
<1>5. m = Len(b) => SubSeq(b, 1, m) = b /\ SubSeq(b, m + 1, Len(b)) = <<>>
  BY <1>1, <1>2
<1> QED BY <1>2, <1>3, <1>4, <1>5, Zenon

(* The whole of a sequence. *)
LEMMA Whole ==
  ASSUME NEW b \in Seq(Byte)
  PROVE  SubSeq(b, 0 + 1, Len(b)) = b
  OBVIOUS

(* The calls that are left under a closing record. *)
LEMMA LastRaw ==
  ASSUME NEW s \in Streams, NEW q \in Last(s)
  PROVE  /\ q \in Seq(Frame) /\ q # <<>> /\ Head(q).s = s /\ Recorded(q, TRUE)
         /\ Bytes(q) \in Seq(Byte) /\ Raw(q) = Bytes(q)
<1>1. PICK l : l = Over(Write(s), Rest(s))
  OBVIOUS
<1>2. Bytes(l) = <<>> /\ Raw(l) = <<>> /\ Recorded(l, TRUE) /\ Head(l).s = s
      /\ l \in Seq(Frame) /\ l # <<>> /\ Head(l) = Write(s) /\ Tail(l) = Rest(s)
  BY <1>1, LastWrite, Zenon
<1>3. CASE q = l
  <2>1. <<>> \in Seq(Byte)
    OBVIOUS
  <2> QED BY <1>2, <1>3, <2>1, Zenon
<1>4. CASE s = "out" /\ q = Over(Call("put", s, EndRequest), l)
  <2>1. PICK p : p = Call("put", s, EndRequest)
    OBVIOUS
  <2>2. p.op = "put" /\ p.s = s /\ p.arg = EndRequest
    BY <2>1 DEF Call
  <2>3. q # <<>> /\ Head(q) = p /\ Tail(q) = l
    BY <1>2, <1>4, <2>1, OverCalls, ZenonT(30)
  <2>4. EndRequest \in Seq(Byte)
    BY EndRequestType
  <2>5. p \in Frame
    BY <2>1, <2>4, CallType, Zenon
  <2>6. q \in Seq(Frame)
    BY <1>2, <1>4, <2>1, <2>5, OverCalls, Zenon
  <2>7. Bytes(q) = EndRequest /\ Recorded(q, TRUE)
    BY <2>2, <2>3, FirstCall, Zenon
  <2>8. Raw(q) = EndRequest \o <<>>
    BY <1>2, <2>2, <2>3, RawPut, Zenon
  <2>9. EndRequest \o <<>> = EndRequest
    BY <2>4, ConcatEmpty, Zenon
  <2> QED BY <2>2, <2>3, <2>4, <2>6, <2>7, <2>8, <2>9, Zenon
<1> QED BY <1>1, <1>3, <1>4, Zenon DEF Last

(* FCGX_PutStr of a closing record. *)
LEMMA PutStrRaw ==
  ASSUME Good, PutStr, NEW s, s = Head(stack).s, Closing(s), st[s].rawWrite,
         Tail(stack) \in Last(s)
  PROVE  Content'
<1>0. PICK b, q : b = Head(stack).arg /\ q = Tail(stack)
  BY ZenonT(30)
<1>1. stack # <<>> /\ Head(stack).op = "put"
  BY ZenonT(30) DEF PutStr, Top
<1>2. s \in Streams /\ q \in Seq(Frame) /\ st[s].buf \in Seq(Byte) /\ offset = 0
      /\ Wire = WireOf(sock, stack, st[s], offset)
      /\ Held(Wire, s, put[s], stack, st[s])
  BY <1>0, <1>1, GoodStream
<1>3. ~st[s].isClosed
  BY <1>2, GoodOpen, Zenon
<1>4. b \in Seq(Byte) /\ UNCHANGED <<nWriters, offset, sock, broken, put, phase, flushes>>
  BY <1>0, <1>3, PutStrStep, Zenon
<1>18. PICK m \in Nat : m <= Len(b) /\ Puts(s, b, m)
  BY <1>0, <1>3, PutStrStep, Zenon
<1>5. /\ m <= Len(b)
      /\ st' = [st EXCEPT ![s].buf = st[s].buf \o SubSeq(b, 1, m)]
      /\ m = Len(b) => stack' = q
      /\ m # Len(b) =>
           stack' = Over(Call("empty", s, FALSE),
                         Over(Call("put", s, SubSeq(b, m + 1, Len(b))), q))
  BY <1>0, <1>18, Zenon DEF Puts
<1>6. PICK c, d : c = SubSeq(b, 1, m) /\ d = SubSeq(b, m + 1, Len(b))
  BY Zenon
<1>7. /\ c \in Seq(Byte) /\ d \in Seq(Byte) /\ c \o d = b
      /\ m = Len(b) => c = b /\ d = <<>>
  BY <1>4, <1>5, <1>6, Parts, Zenon
<1>8. PICK f, r : f = st[s].buf /\ r = Bytes(q)
  OBVIOUS
<1>9. f \in Seq(Byte) /\ f \o c \in Seq(Byte)
  BY <1>2, <1>7, <1>8, Joined, Zenon
<1>10. /\ st'[s].buf = f \o c /\ st'[s].rawWrite
       /\ ~st'[s].isClosed
       /\ \A t \in Streams : t # s => st'[t] = st[t]
       /\ st'["out"].rawWrite = st["out"].rawWrite
  BY <1>2, <1>3, <1>5, <1>6, <1>8, <1>9, OtherBuffer, Zenon DEF Good
<1>11. /\ q # <<>> /\ Head(q).s = s /\ Recorded(q, TRUE)
       /\ r \in Seq(Byte) /\ Raw(q) = r
  BY <1>0, <1>2, <1>8, LastRaw, Zenon
<1>12. Wire = sock \o (f \o (b \o r))
  <2>1. Recorded(stack, st[s].rawWrite)
    BY <1>1, FirstCall, Zenon
  <2>2. Raw(stack) = b \o r
    BY <1>0, <1>1, <1>2, <1>8, RawPut, Zenon
  <2>4. WireOf(sock, stack, st[s], offset)
          = sock \o (SubSeq(st[s].buf, offset + 1, Len(st[s].buf)) \o Raw(stack))
    BY <1>1, <2>1, Zenon DEF WireOf, Unsent
  <2>3. Wire = sock \o (SubSeq(f, 0 + 1, Len(f)) \o (b \o r))
    BY <1>2, <1>8, <2>2, <2>4, Zenon
  <2> QED BY <1>9, <2>3, Whole, Zenon
<1>13. /\ stack' # <<>> /\ Head(stack').s = s
       /\ Wire' = sock \o ((f \o c) \o (d \o r))
  <2>1. ASSUME stack' # <<>>, Head(stack').s = s, Recorded(stack', TRUE), Raw(stack') = d \o r
        PROVE  Wire' = sock \o ((f \o c) \o (d \o r))
    <3>1. st'[s].rawWrite = TRUE
      <4>1. st[s].rawWrite \in BOOLEAN
        BY <1>2, SMTT(30) DEF Good, Inv, Types, Writer
      <4> QED BY <1>2, <1>5, <4>1, SMTT(30) DEF Good, Inv, Types, Writer
    <3>2. Wire' = WireOf(sock, stack', st'[s], 0)
      BY <1>2, <1>4, <2>1 DEF Wire
    <3>4. Recorded(stack', st'[s].rawWrite)
      BY <2>1, <3>1, Zenon
    <3>5. WireOf(sock, stack', st'[s], 0)
            = sock \o (SubSeq(st'[s].buf, 0 + 1, Len(st'[s].buf)) \o Raw(stack'))
      BY <1>10, <2>1, <3>4, Zenon DEF WireOf, Unsent
    <3>3. Wire' = sock \o (SubSeq(f \o c, 0 + 1, Len(f \o c)) \o (d \o r))
      BY <1>10, <2>1, <3>2, <3>5, Zenon
    <3> QED BY <1>9, <3>3, Whole, Zenon
  <2>2. CASE m = Len(b)
    <3>1. stack' = q /\ d = <<>>
      BY <1>5, <1>7, <2>2
    <3>2. <<>> \o r = r
      BY <1>11, ConcatEmpty, Zenon
    <3> QED BY <1>11, <2>1, <3>1, <3>2, Zenon
  <2>3. CASE m # Len(b)
    <3>1. PICK e, p, q1 : /\ e = Call("empty", s, FALSE) /\ p = Call("put", s, d)
                          /\ q1 = Over(p, q)
      BY Zenon
    <3>2. stack' = Over(e, q1)
      BY <1>5, <1>6, <2>3, <3>1, Zenon
    <3>3. p \in Frame /\ e.op = "empty" /\ e.s = s /\ p.op = "put" /\ p.arg = d
      <4>1. p \in Frame
        BY <1>2, <1>7, <3>1, CallType, Zenon
      <4> QED BY <3>1, <4>1 DEF Call
    <3>4. q1 \in Seq(Frame) /\ q1 # <<>> /\ Head(q1) = p /\ Tail(q1) = q
      <4>1. q \in Seq(Frame) /\ p \in Frame
        BY <1>2, <3>3
      <4>2. Over(p, q) \in Seq(Frame) /\ Over(p, q) # <<>>
            /\ Head(Over(p, q)) = p /\ Tail(Over(p, q)) = q
        BY <4>1, OverCalls, Zenon
      <4> QED BY <3>1, <4>2, Zenon
    <3>5. stack' # <<>> /\ Head(stack') = e /\ Tail(stack') = q1
      BY <3>2, <3>4, OverCalls, Zenon
    <3>6. Waiting(stack') = q1 /\ Recorded(stack', TRUE)
      BY <3>3, <3>5, FirstCall, Zenon
    <3>7. Bytes(q1) = d /\ Under(q1) = q
      BY <3>3, <3>4, FirstCall, Zenon
    <3>8. Raw(stack') = d \o r
      BY <1>8, <3>6, <3>7, Zenon DEF Raw
    <3> QED BY <2>1, <3>3, <3>5, <3>6, <3>8, Zenon
  <2> QED BY <2>2, <2>3, SMTT(30)
<1>14. Wire' = Wire
  <2>1. c \in Seq(Byte) /\ d \in Seq(Byte) /\ f \in Seq(Byte) /\ r \in Seq(Byte)
    BY <1>7, <1>9, <1>11
  <2>2. PICK e : e = d \o r
    BY Zenon
  <2>3. (c \o d) \o r = c \o (d \o r)
    BY <2>1, ConcatAssoc, Zenon
  <2>4. e \in Seq(Byte)
    BY <2>1, <2>2, Joined, Zenon
  <2>5. (f \o c) \o e = f \o (c \o e)
    BY <2>1, <2>4, ConcatAssoc, ZenonT(30)
  <2> QED BY <1>7, <1>12, <1>13, <2>2, <2>3, <2>5, Zenon
<1>15. Held(Wire, s, put[s], stack', st'[s])
  BY <1>2, <1>10, HeldRaw, Zenon
<1>16. ASSUME NEW t \in Streams, t # s PROVE Held(Wire, t, put[t], stack', st'[t])
  <2>1. Held(Wire, t, put[t], stack, st[t]) /\ st'[t] = st[t]
    BY <1>10, <1>16, Zenon DEF Good, Content
  <2>2. (stack = <<>> \/ Head(stack).s # t) /\ (stack' = <<>> \/ Head(stack').s # t)
    BY <1>13, <1>16
  <2> QED BY <2>1, <2>2, HeldElsewhere, Zenon
<1>17. \A t \in Streams : Held(Wire, t, put[t], stack', st'[t])
  BY <1>15, <1>16, Zenon
<1> QED BY <1>4, <1>10, <1>14, <1>17, SameContent, Zenon DEF Good

-----------------------------------------------------------------------------
(* What a record adds to the wire. *)
LEMMA Appended ==
  ASSUME NEW x \in Seq(Byte), NEW r \in Seq(Byte), Complete(x), IsRecord(r), Unended(x)
  PROVE  /\ r[1].v.type \in Streams => Unended(x \o r)
         /\ r[1].v.type = "end" => Ended(x \o r)
         /\ \A t \in Streams :
              /\ r[1].v.type # t \/ r[1].v.clen = 0 =>
                   Reached(x \o r, t, Len(x \o r)) = Reached(x, t, Len(x))
              /\ r[1].v.type # t \/ r[1].v.clen # 0 => Eofs(x \o r, t) = Eofs(x, t)
              /\ r[1].v.type = t /\ r[1].v.clen = 0 => Eofs(x \o r, t) # {}
<1>1. PICK z, l, h : z = x \o r /\ l = Len(x) + 1 /\ h = r[1].v
  BY Zenon
<1>2. /\ Starts(z) = Starts(x) \cup {l} /\ z[l] = r[1] /\ RecordEnd(z, l) = Len(z) + 1
      /\ \A i \in Starts(x) : z[i] = x[i]
  BY <1>1, RecordAppended, Zenon
<1>3. ASSUME h.type \in Streams PROVE Unended(z)
  <2>1. h.type # "end"
    BY <1>3 DEF Streams
  <2> QED BY <1>1, <1>2, <2>1, Zenon DEF Unended
<1>4. ASSUME h.type = "end" PROVE Ended(z)
  BY <1>1, <1>2, <1>4, Zenon DEF Ended
<1>5. ASSUME NEW t \in Streams, h.type # t \/ h.clen = 0
      PROVE  Reached(z, t, Len(z)) = Reached(x, t, Len(x))
  <2>1. \A n \in Len(x)..Len(z) : Reached(z, t, n) = Reached(x, t, Len(x))
    BY <1>1, <1>5, ReachedKept, Zenon
  <2>2. Len(z) \in Len(x)..Len(z)
    <3>1. Len(z) = Len(x) + Len(r) /\ Len(x) \in Nat /\ Len(r) \in Nat
      BY <1>1, Joined, Zenon
    <3> QED BY <3>1
  <2> QED BY <2>1, <2>2, Zenon
<1>6. ASSUME NEW t \in Streams
      PROVE  /\ h.type # t \/ h.clen # 0 => Eofs(z, t) = Eofs(x, t)
             /\ h.type = t /\ h.clen = 0 => Eofs(z, t) # {}
  <2>1. Eofs(z, t) = Eofs(x, t) \cup
          (IF r[1].v.type = t /\ r[1].v.clen = 0 THEN {Len(x) + 1} ELSE {})
    BY <1>1, RecordAdds, ZenonT(30)
  <2>2. ASSUME h.type # t \/ h.clen # 0 PROVE Eofs(z, t) = Eofs(x, t) \cup {}
    BY <1>1, <2>1, <2>2, Zenon
  <2>3. ASSUME h.type = t, h.clen = 0 PROVE Len(x) + 1 \in Eofs(z, t)
    BY <1>1, <2>1, <2>3, Zenon
  <2> QED BY <2>2, <2>3
<1> QED BY <1>1, <1>3, <1>4, <1>5, <1>6, Zenon

(* A stream that is not the one of the record. *)
LEMMA HeldAside ==
  ASSUME NEW x, NEW z, NEW t, NEW n, NEW q, NEW q2, NEW w, Held(x, t, n, q, w),
         q = <<>> \/ Head(q).s # t, q2 = <<>> \/ Head(q2).s # t,
         Reached(z, t, Len(z)) = Reached(x, t, Len(x)), Eofs(z, t) = Eofs(x, t)
  PROVE  Held(z, t, n, q2, w)
<1>1. /\ ToPut(q, t, w) = <<>> /\ (Away(q, t, w) <=> w.rawWrite)
      /\ ToPut(q2, t, w) = <<>> /\ (Away(q2, t, w) <=> w.rawWrite)
  BY Elsewhere, Zenon
<1>2. ToPut(q2, t, w) = ToPut(q, t, w) /\ (Away(q2, t, w) <=> Away(q, t, w))
  BY <1>1, Zenon
<1>3. (w.isClosed => w.wasFCloseCalled) /\ (~w.rawWrite => Eofs(z, t) = {})
  BY Zenon DEF Held
<1> QED BY <1>2, <1>3, HeldKept, Zenon

(* The wire z is x and the content of the buffer of stream s. *)
Grown(x, z, s, n, b, p) ==
  /\ Complete(z) /\ Safe(z, p) /\ Unended(z) /\ Eofs(z, s) = {}
  /\ Carried(z, s, n, b) /\ Reached(z, s, Len(z)) = n - Len(b)
  /\ \A t \in Streams : t # s =>
       Reached(z, t, Len(z)) = Reached(x, t, Len(x)) /\ Eofs(z, t) = Eofs(x, t)

(* EmptyBuffProc makes the content of the buffer a record. *)
LEMMA BufferRecord ==
  ASSUME NEW x \in Seq(Byte), NEW s \in Streams, NEW n \in Nat, NEW b,
         NEW p, n = p[s],
         NEW buf \in Seq(Byte), Len(buf) <= BuffLen[s],
         Complete(x), Safe(x, p), Unended(x), Eofs(x, s) = {},
         Carried(x, s, n, b), Buffered(x, s, n - Len(b), buf),
         NEW r, r = Encapsulated(s, buf), NEW z, z = x \o r
  PROVE  r \in Seq(Byte) /\ Grown(x, z, s, n, b, p)
<1> HIDE DEF Byte
<1>1. PICK a \in Nat : a = Reached(x, s, Len(x))
  <2>1. n - Len(b) \in Nat /\ Reached(x, s, Len(x)) \in 0..(n - Len(b))
    BY DEF Carried
  <2>2. Reached(x, s, Len(x)) \in Nat
    BY <2>1
  <2> QED BY <2>2, Zenon
<1>2. PICK m : m = n - Len(b)
  OBVIOUS
<1>3. /\ m \in Nat /\ a \in 0..m /\ Len(buf) = Unit + (m - a)
      /\ \A i \in 1..(m - a) : buf[Unit + i] = B(s, a + i)
      /\ \A i \in 1..Len(b) : b[i] = B(s, m + i)
  BY <1>1, <1>2, Zenon DEF Carried, Buffered
<1>4. Unit \in Nat /\ m \in Nat /\ a <= m /\ Len(buf) = Unit + (m - a) /\ Len(buf) >= Unit
  BY <1>3, FcgiOutputAssumption, SMTT(30)
<1>5. \A i \in (Unit + 1)..Len(buf) : buf[i].k = s
  <2> SUFFICES ASSUME NEW i \in (Unit + 1)..Len(buf) PROVE buf[i].k = s
    OBVIOUS
  <2>1. PICK j : j = i - Unit
    OBVIOUS
  <2>2. j \in 1..(m - a) /\ Unit + j = i
    BY <1>4, <2>1
  <2>3. buf[i] = B(s, a + j)
    BY <1>3, <2>2, Zenon
  <2> QED BY <2>3 DEF B
<1>6. /\ Len(buf) = Unit => r = <<>>
      /\ Len(buf) > Unit =>
           /\ r \in Seq(Byte) /\ IsRecord(r)
           /\ r[1].v.type = s /\ r[1].v.clen = Len(buf) - Unit
           /\ \A i \in 1..(Len(buf) - Unit) : r[Unit + i] = buf[Unit + i]
  <2>1. LET r1 == Encapsulated(s, buf)
        IN /\ Len(buf) = Unit => r1 = <<>>
           /\ Len(buf) > Unit =>
                /\ r1 \in Seq(Byte) /\ IsRecord(r1)
                /\ r1[1].v.type = s /\ r1[1].v.clen = Len(buf) - Unit
                /\ \A i \in 1..(Len(buf) - Unit) : r1[Unit + i] = buf[Unit + i]
    BY <1>4, <1>5, EncapsulatedRecord, Zenon
  <2> QED BY <2>1, Zenon
<1>7. CASE Len(buf) = Unit
  <2>1. m = a /\ r = <<>> /\ r \in Seq(Byte)
    <3>1. m = a
      BY <1>4, <1>7
    <3>2. r = <<>>
      BY <1>6, <1>7, Zenon
    <3> QED BY <3>1, <3>2
  <2>2. z = x
    BY <2>1, ConcatEmpty, Zenon
  <2> QED BY <1>1, <1>2, <2>1, <2>2, Zenon DEF Grown
<1>8. CASE Len(buf) > Unit
  <2>1. PICK c : c = m - a
    OBVIOUS
  <2>2. c \in Nat /\ c # 0 /\ Len(buf) - Unit = c /\ a + c = m
    BY <1>4, <1>8, <2>1
  <2>3. /\ r \in Seq(Byte) /\ IsRecord(r) /\ r[1].v.type = s /\ r[1].v.clen = c
        /\ \A i \in 1..c : r[Unit + i] = buf[Unit + i]
    BY <1>6, <1>8, <2>2, Zenon
  <2>4. \A i \in 1..c : r[Unit + i].v = a + i
    <3> SUFFICES ASSUME NEW i \in 1..c PROVE r[Unit + i].v = a + i
      BY SMTT(30)
    <3>1. r[Unit + i] = B(s, a + i)
      BY <1>3, <2>1, <2>3
    <3> QED BY <3>1, SMTT(30) DEF B
  <2>5. PICK h : h = r[1].v
    BY SMTT(30)
  <2>6. h.type = s /\ h.clen = c /\ h.type # "end"
    BY <2>3, <2>5 DEF Streams
  <2>7. Complete(z) /\ Safe(z, p)
    <3>1. h.type \in Streams => Eofs(x, h.type) = {}
      BY <2>6
    <3>2. h.type \in Streams /\ h.clen = 0 => Reached(x, h.type, Len(x)) = p[h.type]
      BY <2>2, <2>6
    <3>3. h.type = "end" => Eofs(x, "out") # {}
      BY <2>6
    <3>4. h.type \in Streams =>
            \A i \in 1..h.clen : r[Unit + i].v = Reached(x, h.type, Len(x)) + i
      BY <1>1, <2>4, <2>6, Zenon
    <3> QED BY <2>3, <2>5, <3>1, <3>2, <3>3, <3>4, SafeAppended, ZenonT(30)
  <2>8. /\ Unended(z) /\ (c # 0 => Eofs(z, s) = Eofs(x, s))
        /\ \A t \in Streams : t # s =>
             /\ Reached(z, t, Len(z)) = Reached(x, t, Len(x))
             /\ Eofs(z, t) = Eofs(x, t)
    BY <2>3, Appended, ZenonT(30)
  <2>9. Reached(z, s, Len(z)) = m
    <3>1. NextContent(r, a)
      BY <2>3, <2>4, Zenon DEF NextContent
    <3>2. Continues(x, r, s, a)
      BY <1>1, <2>3, <3>1, ReachedContent, Zenon
    <3>3. Reached(z, s, Len(z)) = a + r[1].v.clen
      BY <3>2, ZenonT(30) DEF Continues
    <3> QED BY <2>2, <2>3, <3>3
  <2>10. Eofs(z, s) = {}
    BY <2>2, <2>8
  <2>11. Carried(z, s, n, b)
    <3>1. m \in 0..m
      BY <1>4
    <3> QED BY <1>2, <1>3, <2>9, <3>1, Zenon DEF Carried
  <2> QED BY <1>2, <2>3, <2>7, <2>8, <2>9, <2>10, <2>11, Zenon DEF Grown
<1> QED BY <1>4, <1>7, <1>8

-----------------------------------------------------------------------------
(* EmptyBuffProc of a buffer of content: the next calls write it. *)
WriteNext(s, q) ==
  {Over(Write(s), q)} \cup
    (IF Bytes(q) = <<>> THEN {Over(Call("closeRecords", s, 0), Over(Write(s), q))} ELSE {})

(* The buffer is written next, and the bytes that wait are the same. *)
LEMMA EmptyCalls ==
  ASSUME NEW s \in Streams, NEW q \in Seq(Frame), NEW q2 \in WriteNext(s, q)
  PROVE  /\ q2 # <<>> /\ Head(q2).s = s /\ (\A raw : Recorded(q2, raw))
         /\ Bytes(Waiting(q2)) = Bytes(q)
<1>0. PICK calls : calls = Over(Write(s), q)
  OBVIOUS
<1>1. calls \in Seq(Frame) /\ calls # <<>> /\ Head(calls) = Write(s) /\ Tail(calls) = q
  <2>1. Write(s) \in Frame
    BY CallType, Zenon DEF Write
  <2> QED BY <1>0, <2>1, OverCalls, Zenon
<1>2. CASE q2 = calls
  <2>1. Head(calls).op = "write" /\ Head(calls).s = s
    BY <1>1 DEF Write, Call
  <2>2. Waiting(calls) = q /\ \A raw : Recorded(calls, raw)
    BY <1>1, <2>1, FirstCall, Zenon
  <2> QED BY <1>1, <1>2, <2>1, <2>2, Zenon
<1>3. CASE q2 = Over(Call("closeRecords", s, 0), calls) /\ Bytes(q) = <<>>
  <2>1. PICK c : c = Call("closeRecords", s, 0)
    OBVIOUS
  <2>2. q2 # <<>> /\ Head(q2) = c
    BY <1>1, <1>3, <2>1, OverCalls, Zenon
  <2>3. Head(q2).op = "closeRecords" /\ Head(q2).s = s
    BY <2>1, <2>2 DEF Call
  <2>4. Bytes(q2) = <<>> /\ Waiting(q2) = q2 /\ \A raw : Recorded(q2, raw)
    BY <2>2, <2>3, FirstCall, Zenon
  <2> QED BY <1>3, <2>2, <2>3, <2>4, Zenon
<1> QED BY <1>0, <1>2, <1>3, Zenon DEF WriteNext

(* EmptyBuffProc before the closing records. *)
LEMMA EmptyPlain ==
  ASSUME Good, EmptyBuffProc, NEW s, s = Head(stack).s, NEW q, q = Tail(stack),
         ~st[s].rawWrite, ~st["out"].rawWrite,
         Head(stack).arg = FALSE \/ (Head(stack).arg = TRUE /\ Bytes(q) = <<>>)
  PROVE  Content'
<1>1. stack # <<>> /\ Head(stack).op = "empty"
  BY DEF EmptyBuffProc, Top
<1>2. /\ s \in Streams /\ q \in Seq(Frame) /\ st[s].buf \in Seq(Byte)
      /\ Len(st[s].buf) <= BuffLen[s] /\ offset = 0 /\ put[s] \in Nat
      /\ Wire = WireOf(sock, stack, st[s], offset)
      /\ Held(Wire, s, put[s], stack, st[s])
  BY <1>1, GoodStream
<1>3. PICK calls, r, b : /\ calls = Over(Write(s), q) /\ r = Encapsulated(s, st[s].buf)
                         /\ b = Bytes(q)
  OBVIOUS
<1>4. /\ st' = [st EXCEPT ![s].buf = r]
      /\ stack' = IF Head(stack).arg THEN Over(Call("closeRecords", s, 0), calls) ELSE calls
      /\ UNCHANGED <<nWriters, offset, sock, broken, put, phase, flushes>>
  <2>1. st' = [st EXCEPT ![s].buf = Encapsulated(s, @)]
    BY Zenon DEF EmptyBuffProc
  <2>2. st' = [st EXCEPT ![s].buf = r]
    BY <1>3, <2>1
  <2>3. UNCHANGED <<nWriters, offset, sock, broken, put, phase, flushes>>
    BY DEF EmptyBuffProc
  <2>4. stack' = IF Head(stack).arg THEN Over(Call("closeRecords", s, 0), calls) ELSE calls
    BY <1>3, Zenon DEF EmptyBuffProc, Write
  <2> QED BY <2>2, <2>3, <2>4
<1>5. stack' \in WriteNext(s, q)
  <2>1. stack' = calls \/ (stack' = Over(Call("closeRecords", s, 0), calls) /\ Bytes(q) = <<>>)
    BY <1>4
  <2> QED BY <1>3, <2>1, Zenon DEF WriteNext
<1>6. /\ stack' # <<>> /\ Head(stack').s = s /\ Recorded(stack', st'[s].rawWrite)
      /\ Bytes(Waiting(stack')) = b
  <2>1. s \in Streams /\ q \in Seq(Frame)
    BY <1>2
  <2>2. /\ stack' # <<>> /\ Head(stack').s = s /\ \A raw : Recorded(stack', raw)
        /\ Bytes(Waiting(stack')) = Bytes(q)
    BY <1>5, <2>1, EmptyCalls, ZenonT(30)
  <2> QED BY <1>3, <2>2, Zenon
<1>7. Bytes(Waiting(stack)) = b /\ ~Recorded(stack, st[s].rawWrite)
  <2>1. Waiting(stack) = q /\ ~Recorded(stack, st[s].rawWrite)
    BY <1>1, FirstCall, Zenon
  <2> QED BY <1>3, <2>1, Zenon
<1>8. ToPut(stack, s, st[s]) = b /\ ~Away(stack, s, st[s])
  BY <1>1, <1>7, AtHead, Zenon
<1>9. Wire = sock /\ sock \in Seq(Byte)
  BY <1>2, <1>7, WirePlain, ZenonT(30) DEF Good
<1>10. /\ Carried(sock, s, put[s], b) /\ Buffered(sock, s, put[s] - Len(b), st[s].buf)
       /\ Eofs(sock, s) = {} /\ (st[s].isClosed => st[s].wasFCloseCalled)
  BY <1>2, <1>8, <1>9, Zenon DEF Held
<1>11. Complete(sock) /\ Safe(sock, put) /\ Unended(sock)
  BY <1>9, Zenon DEF Good, Content
<1>12. PICK z : z = sock \o r
  BY Zenon
<1>13. /\ r \in Seq(Byte) /\ Complete(z) /\ Safe(z, put) /\ Unended(z)
       /\ Eofs(z, s) = {} /\ Carried(z, s, put[s], b)
       /\ Reached(z, s, Len(z)) = put[s] - Len(b)
       /\ \A t \in Streams : t # s =>
            /\ Reached(z, t, Len(z)) = Reached(sock, t, Len(sock))
            /\ Eofs(z, t) = Eofs(sock, t)
  <2>1. PICK n, f, p, x : n = put[s] /\ f = st[s].buf /\ p = put /\ x = sock
    OBVIOUS
  <2>2. /\ x \in Seq(Byte) /\ s \in Streams /\ Complete(x) /\ Unended(x) /\ Eofs(x, s) = {}
        /\ n \in Nat /\ n = p[s] /\ f \in Seq(Byte) /\ Len(f) <= BuffLen[s]
        /\ r = Encapsulated(s, f)
        /\ Carried(x, s, n, b) /\ Buffered(x, s, n - Len(b), f) /\ Safe(x, p)
    BY <1>2, <1>3, <1>9, <1>10, <1>11, <2>1, Zenon
  <2>4. z = x \o r
    BY <1>12, <2>1
  <2>3. r \in Seq(Byte) /\ Grown(x, z, s, n, b, p)
    BY <2>2, <2>4, BufferRecord, Zenon
  <2> QED BY <1>12, <2>1, <2>3, Zenon DEF Grown
<1>14. /\ st'[s] \in Writer /\ st'[s].buf = r
       /\ st'[s].rawWrite = st[s].rawWrite /\ st'[s].isClosed = st[s].isClosed
       /\ st'[s].wasFCloseCalled = st[s].wasFCloseCalled
       /\ \A t \in Streams : t # s => st'[t] = st[t]
       /\ st'["out"].rawWrite = st["out"].rawWrite
  BY <1>2, <1>4, <1>13, OtherBuffer, Zenon DEF Good
<1>15. Wire' = z
  <2>1. Wire' = WireOf(sock, stack', st'[s], 0)
    BY <1>2, <1>4, <1>6 DEF Wire
  <2>2. ~st'[s].rawWrite /\ 0 \in Nat
    BY <1>14
  <2>3. Wire' = sock \o SubSeq(st'[s].buf, 0 + 1, Len(st'[s].buf))
    BY <1>6, <1>9, <1>14, <2>1, <2>2, WireRecorded, Zenon
  <2> QED BY <1>12, <1>13, <1>14, <2>3, Whole, Zenon
<1>16. Held(z, s, put[s], stack', st'[s])
  <2>1. ToPut(stack', s, st'[s]) = b /\ Away(stack', s, st'[s])
    BY <1>6, <1>14, AtHead, Zenon
  <2> QED BY <1>10, <1>13, <1>14, <2>1, Zenon DEF Held
<1>17. ASSUME NEW t \in Streams, t # s PROVE Held(z, t, put[t], stack', st'[t])
  <2>1. Held(sock, t, put[t], stack, st[t]) /\ st'[t] = st[t]
    BY <1>9, <1>14, <1>17, Zenon DEF Good, Content
  <2>2. Head(stack).s # t /\ Head(stack').s # t
    BY <1>6, <1>17
  <2>3. Reached(z, t, Len(z)) = Reached(sock, t, Len(sock)) /\ Eofs(z, t) = Eofs(sock, t)
    BY <1>13, <1>17, Zenon
  <2> QED BY <2>1, <2>2, <2>3, HeldAside, Zenon
<1>18. \A t \in Streams : Held(z, t, put[t], stack', st'[t])
  BY <1>16, <1>17, Zenon
<1> QED BY <1>4, <1>13, <1>14, <1>15, <1>18, Zenon DEF Content

(* EmptyBuffProc of a buffer of closing records. *)
LEMMA EmptyRaw ==
  ASSUME Good, EmptyBuffProc, NEW s, s = Head(stack).s, st[s].rawWrite,
         Head(stack).arg = FALSE
  PROVE  Content'
<1>1. stack # <<>> /\ Head(stack).op = "empty"
  BY DEF EmptyBuffProc, Top
<1>2. PICK q : q = Tail(stack)
  BY Zenon
<1>3. /\ s \in Streams /\ q \in Seq(Frame) /\ Wire = WireOf(sock, stack, st[s], offset)
      /\ Held(Wire, s, put[s], stack, st[s])
  BY <1>1, <1>2, GoodStream, Zenon
<1>4. /\ st' = st /\ stack' = Over(Write(s), q)
      /\ UNCHANGED <<nWriters, offset, sock, broken, put, phase, flushes>>
  BY <1>2, Zenon DEF EmptyBuffProc, Write
<1>5. /\ stack' # <<>> /\ Head(stack') = Write(s) /\ Tail(stack') = q
  BY <1>3, <1>4, OverCalls, Zenon
<1>6. Head(stack').op = "write" /\ Head(stack').s = s
  BY <1>5 DEF Write, Call
<1>7. /\ Waiting(stack) = q /\ Recorded(stack, st[s].rawWrite)
      /\ Waiting(stack') = q /\ Recorded(stack', st[s].rawWrite)
  BY <1>1, <1>2, <1>5, <1>6, FirstCall, Zenon
<1>8. Raw(stack) = Raw(stack')
  BY <1>7, Zenon DEF Raw
<1>9. Wire' = WireOf(sock, stack', st[s], offset)
  BY <1>4, <1>6 DEF Wire
<1>10. Wire' = Wire
  BY <1>1, <1>3, <1>5, <1>7, <1>8, <1>9, Zenon DEF WireOf, Unsent
<1>11. \A t \in Streams : st[t].isClosed => st[t].wasFCloseCalled
  BY Zenon DEF Good, Content, Held
<1>12. ASSUME NEW t \in Streams PROVE Held(Wire, t, put[t], stack', st'[t])
  <2>1. Held(Wire, t, put[t], stack, st[t])
    BY Zenon DEF Good, Content
  <2>2. CASE t = s
    BY <1>3, <1>4, <1>11, <2>2, HeldRaw, Zenon
  <2>3. CASE t # s
    BY <1>4, <1>6, <2>1, <2>3, HeldElsewhere, Zenon
  <2> QED BY <2>2, <2>3
<1> QED BY <1>4, <1>10, <1>12, SameContent, Zenon DEF Good

(* EmptyBuffProc, wherever it is called. *)
LEMMA EmptyData == Good /\ EmptyBuffProc => Content'
<1> SUFFICES ASSUME Good, EmptyBuffProc PROVE Content'
  OBVIOUS
<1>1. PICK s, q : s = Head(stack).s /\ q = Tail(stack)
  BY Zenon
<1>2. /\ s \in Streams
      /\ \/ /\ Opened /\ Head(stack) = Call("empty", s, FALSE)
         \/ /\ Closing(s) /\ ~st[s].rawWrite /\ Head(stack) = Call("empty", s, TRUE)
            /\ q = Rest(s)
         \/ /\ Closing(s) /\ st[s].rawWrite /\ Head(stack) = Call("empty", s, FALSE)
  BY <1>1, AtEmpty, Zenon DEF Good, EmptyBuffProc
<1>3. CASE Opened /\ Head(stack) = Call("empty", s, FALSE)
  <2>1. Head(stack).arg = FALSE
    BY <1>3 DEF Call
  <2>2. ~st[s].rawWrite /\ ~st["out"].rawWrite
    BY <1>2, <1>3 DEF Opened, Streams
  <2> QED BY <1>1, <2>1, <2>2, EmptyPlain, Zenon
<1>4. CASE Closing(s) /\ ~st[s].rawWrite /\ Head(stack) = Call("empty", s, TRUE) /\ q = Rest(s)
  <2>1. Head(stack).arg = TRUE
    BY <1>4, SMTT(30) DEF Call
  <2>2. ~st["out"].rawWrite
    BY <1>2, <1>4 DEF Closing, Streams
  <2>3. Bytes(q) = <<>>
    BY <1>2, <1>4, RestBytes, Zenon
  <2> QED BY <1>1, <1>4, <2>1, <2>2, <2>3, EmptyPlain, Zenon
<1>5. CASE Closing(s) /\ st[s].rawWrite /\ Head(stack) = Call("empty", s, FALSE)
  <2>1. Head(stack).arg = FALSE
    BY <1>5 DEF Call
  <2> QED BY <1>1, <1>5, <2>1, EmptyRaw, Zenon
<1> QED BY <1>2, <1>3, <1>4, <1>5, Zenon

(* FCGX_PutStr, wherever it is called. *)
LEMMA PutStrData == Good /\ PutStr => Content'
<1> SUFFICES ASSUME Good, PutStr PROVE Content'
  OBVIOUS
<1>1. PICK s : s = Head(stack).s
  OBVIOUS
<1>2. Opened \/ (Closing(s) /\ st[s].rawWrite /\ Tail(stack) \in Last(s))
  BY <1>1, AtPut, Zenon DEF Good, PutStr
<1> QED BY <1>1, <1>2, PutStrPlain, PutStrRaw, Zenon
=============================================================================
