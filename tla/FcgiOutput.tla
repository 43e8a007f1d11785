---------------------------- MODULE FcgiOutput -----------------------------
(***************************************************************************)
(* The output side of the FastCGI library that iipsrv links                *)
(* (fcgi/libfcgi/fcgiapp.c): the buffered streams out and err of one       *)
(* request, which FCGX_PutStr fills, EmptyBuffProc turns into records and  *)
(* writes, and FCGX_Finish_r closes.                                       *)
(*                                                                         *)
(* Calls nest (FCGX_FClose, EmptyBuffProc, WriteCloseRecords, FCGX_PutStr, *)
(* EmptyBuffProc again), so what the thread still has to do is a stack of  *)
(* calls, stack.  Every write(2) is a step of its own and may be partial.  *)
(*                                                                         *)
(* Sizes are scaled: the header of a record, the unit records are padded   *)
(* to and the body of END_REQUEST are Unit bytes each instead of 8.        *)
(***************************************************************************)
EXTENDS Integers, Sequences

CONSTANTS Unit,       \* 8 in the code
          BuffLen,    \* BuffLen[s]: the buffer of stream s
          MaxPut,     \* bound: bytes of one FCGX_PutStr
          MaxTotal,   \* MaxTotal[s]: bound on the bytes put on stream s
          MaxFlush,   \* bound: calls of FCGX_FFlush
          Transient   \* a write may fail and a later one succeed

Streams == {"out", "err"}

ASSUME FcgiOutputAssumption ==
  /\ Unit \in Nat /\ Unit >= 2 /\ MaxPut \in Nat /\ MaxFlush \in Nat
  /\ Transient \in BOOLEAN
  /\ \A s \in Streams : /\ MaxTotal[s] \in Nat
                        /\ BuffLen[s] \in Nat /\ BuffLen[s] > Unit
                        /\ BuffLen[s] % Unit = 0

VARIABLES st,        \* the streams
          nWriters,  \* writers of the request that are still open
          stack,     \* calls the thread has to make, innermost first
          offset,    \* bytes of the buffer write_it_all has written
          sock,      \* bytes the web server received
          broken,    \* the web server is gone
          put,       \* put[s]: bytes the application put on s
          phase,     \* "open", "finishing", "done"
          flushes

vars == <<st, nWriters, stack, offset, sock, broken, put, phase, flushes>>

-----------------------------------------------------------------------------

B(k, v) == [k |-> k, v |-> v]

Repeat(n, b) == [i \in 1..n |-> b]

(* MakeHeader: the first byte carries what the whole header says.          *)
Header(type, clen, plen) ==
  <<B("header", [type |-> type, clen |-> clen, plen |-> plen])>>
    \o Repeat(Unit - 1, B("more", 0))

EndRequest == Header("end", Unit, 0) \o Repeat(Unit, B("body", 0))

Reserved == Repeat(Unit, B("reserved", 0))

(* Fault: aligned lengths are padded too.                                  *)
AlignInt8Fault(n) == ((n + Unit) \div Unit) * Unit

(* AlignInt8: the least multiple of Unit that is not below n.              *)
AlignInt8(n) == ((n + Unit - 1) \div Unit) * Unit

(* NewStream for a writer: the room for a header is reserved.              *)
NewWriter == [buf |-> Reserved, rawWrite |-> FALSE, isAnythingWritten |-> FALSE,
              isClosed |-> FALSE, errno |-> FALSE, wasFCloseCalled |-> FALSE]

(* FCGX_Accept_r returns with two writers.                                 *)
Init ==
  /\ st = [s \in Streams |-> NewWriter]
  /\ nWriters = 2 /\ stack = <<>> /\ offset = 0 /\ sock = <<>>
  /\ broken = FALSE /\ put = [s \in Streams |-> 0] /\ phase = "open"
  /\ flushes = 0

Call(op, s, arg) == [op |-> op, s |-> s, arg |-> arg]

Top(op) == stack # <<>> /\ Head(stack).op = op
Return == stack' = Tail(stack)
Over(call, calls) == <<call>> \o calls

-----------------------------------------------------------------------------
(* What the application calls.                                             *)

(* Writer.h putStr, putS, printf: all end in FCGX_PutStr.                  *)
AppPut ==
  /\ phase = "open" /\ stack = <<>>
  /\ \E s \in Streams, n \in 1..MaxPut :
       /\ put[s] + n <= MaxTotal[s]
       /\ stack' = <<Call("put", s, [i \in 1..n |-> B(s, put[s] + i)])>>
       /\ put' = [put EXCEPT ![s] = @ + n]
  /\ UNCHANGED <<st, nWriters, offset, sock, broken, phase, flushes>>

(* FCGX_FFlush.                                                            *)
AppFlush ==
  /\ phase = "open" /\ stack = <<>> /\ flushes < MaxFlush
  /\ \E s \in Streams :
       /\ ~st[s].isClosed
       /\ stack' = <<Call("empty", s, FALSE)>>
  /\ flushes' = flushes + 1
  /\ UNCHANGED <<st, nWriters, offset, sock, broken, put, phase>>

(* FCGX_Finish_r: FCGX_FClose of err, then of out.                         *)
FClose(s, calls) == Over(Call("empty", s, TRUE), Over(Call("closed", s, 0), calls))

AppFinish ==
  /\ phase = "open" /\ stack = <<>>
  /\ stack' = FClose("err", FClose("out", <<>>))
  /\ phase' = "finishing"
  /\ UNCHANGED <<st, nWriters, offset, sock, broken, put, flushes>>

Done ==
  /\ phase = "finishing" /\ stack = <<>>
  /\ phase' = "done"
  /\ UNCHANGED <<st, nWriters, stack, offset, sock, broken, put, flushes>>

-----------------------------------------------------------------------------
(* The library.                                                            *)

(* Fault: a full buffer of a closed stream is emptied again and again.     *)
PutStrFault ==
  /\ Top("put")
  /\ LET s == Head(stack).s
         bytes == Head(stack).arg
         room == BuffLen[s] - Len(st[s].buf)
         m == IF Len(bytes) < room THEN Len(bytes) ELSE room
     IN /\ st' = [st EXCEPT ![s].buf = @ \o SubSeq(bytes, 1, m)]
        /\ IF m = Len(bytes) THEN Return
           ELSE stack' = Over(Call("empty", s, FALSE),
                              Over(Call("put", s, SubSeq(bytes, m + 1, Len(bytes))),
                                   Tail(stack)))
  /\ UNCHANGED <<nWriters, offset, sock, broken, put, phase, flushes>>


(* FCGX_PutStr: fill the buffer; when it is full and bytes are left, give  *)
(* up on a closed stream, empty the buffer of an open one and go on.       *)
PutStr ==
  /\ Top("put")
  /\ LET s == Head(stack).s
         bytes == Head(stack).arg
         room == BuffLen[s] - Len(st[s].buf)
         m == IF Len(bytes) < room THEN Len(bytes) ELSE room
     IN /\ st' = [st EXCEPT ![s].buf = @ \o SubSeq(bytes, 1, m)]
        /\ IF m = Len(bytes) \/ st[s].isClosed THEN Return
           ELSE stack' = Over(Call("empty", s, FALSE),
                              Over(Call("put", s, SubSeq(bytes, m + 1, Len(bytes))),
                                   Tail(stack)))
  /\ UNCHANGED <<nWriters, offset, sock, broken, put, phase, flushes>>

(* Fault: the reserved room of an empty buffer is sent.                    *)
EncapsulatedUnfilled(s, buf) ==
  LET content == SubSeq(buf, Unit + 1, Len(buf))
      cLen == Len(content)
      eLen == AlignInt8(cLen)
  IN IF cLen > 0 THEN Header(s, cLen, eLen - cLen) \o content
                        \o Repeat(eLen - cLen, B("pad", 0))
                 ELSE buf


(* EmptyBuffProc before its write: make a padded record of the content, or *)
(* give the reserved room back when there is none.                         *)
Encapsulated(s, buf) ==
  LET content == SubSeq(buf, Unit + 1, Len(buf))
      cLen == Len(content)
      eLen == AlignInt8(cLen)
  IN IF cLen > 0 THEN Header(s, cLen, eLen - cLen) \o content
                        \o Repeat(eLen - cLen, B("pad", 0))
                 ELSE <<>>

EmptyBuffProc ==
  /\ Top("empty")
  /\ LET s == Head(stack).s
         calls == Over(Call("write", s, 0), Tail(stack))
     IN /\ st' = IF st[s].rawWrite THEN st
                 ELSE [st EXCEPT ![s].buf = Encapsulated(s, @)]
        /\ stack' = IF Head(stack).arg THEN Over(Call("closeRecords", s, 0), calls) ELSE calls
  /\ UNCHANGED <<nWriters, offset, sock, broken, put, phase, flushes>>

(* Fault: the last writer is not recognised.                               *)
WriteCloseRecordsNoEnd ==
  /\ Top("closeRecords")
  /\ LET s == Head(stack).s
         unused == s = "err" /\ st[s].buf = <<>> /\ ~st[s].isAnythingWritten
         calls == IF nWriters = 0 THEN Over(Call("put", s, EndRequest), Tail(stack))
                  ELSE Tail(stack)
     IN /\ st' = [st EXCEPT ![s].rawWrite = TRUE]
        /\ stack' = IF unused THEN calls ELSE Over(Call("put", s, Header(s, 0, 0)), calls)
  /\ nWriters' = nWriters - 1
  /\ UNCHANGED <<offset, sock, broken, put, phase, flushes>>


(* WriteCloseRecords: the end of the stream, unless err was never used,    *)
(* and the end of the request with the last writer.                        *)
WriteCloseRecords ==
  /\ Top("closeRecords")
  /\ LET s == Head(stack).s
         unused == s = "err" /\ st[s].buf = <<>> /\ ~st[s].isAnythingWritten
         calls == IF nWriters = 1 THEN Over(Call("put", s, EndRequest), Tail(stack))
                  ELSE Tail(stack)
     IN /\ st' = [st EXCEPT ![s].rawWrite = TRUE]
        /\ stack' = IF unused THEN calls ELSE Over(Call("put", s, Header(s, 0, 0)), calls)
  /\ nWriters' = nWriters - 1
  /\ UNCHANGED <<offset, sock, broken, put, phase, flushes>>

(* Fault: write_it_all goes on from the beginning of the buffer.           *)
OsWriteFault ==
  /\ Top("write")
  /\ LET s == Head(stack).s
         buf == st[s].buf
     IN /\ buf # <<>>
        /\ \E n \in 1..(Len(buf) - offset) :
             /\ sock' = IF broken THEN sock ELSE sock \o SubSeq(buf, 1, n)
             /\ offset' = offset + n
        /\ st' = [st EXCEPT ![s].isAnythingWritten = TRUE]
        /\ offset < Len(buf)
  /\ UNCHANGED <<nWriters, stack, broken, put, phase, flushes>>


(* One write(2) of write_it_all; what is written to a peer that has gone   *)
(* is lost.                                                                *)
OsWrite ==
  /\ Top("write")
  /\ LET s == Head(stack).s
         buf == st[s].buf
     IN /\ buf # <<>>
        /\ \E n \in 1..(Len(buf) - offset) :
             /\ sock' = IF broken THEN sock ELSE sock \o SubSeq(buf, offset + 1, offset + n)
             /\ offset' = offset + n
        /\ st' = [st EXCEPT ![s].isAnythingWritten = TRUE]
        /\ offset < Len(buf)
  /\ UNCHANGED <<nWriters, stack, broken, put, phase, flushes>>

(* write(2) fails: SetError keeps the buffer as it is.                     *)
OsWriteFails ==
  /\ Top("write") /\ (broken \/ Transient)
  /\ LET s == Head(stack).s
     IN /\ offset < Len(st[s].buf)
        /\ st' = [st EXCEPT ![s].isAnythingWritten = TRUE, ![s].errno = TRUE,
                            ![s].isClosed = TRUE]
  /\ offset' = 0
  /\ Return
  /\ UNCHANGED <<nWriters, sock, broken, put, phase, flushes>>

(* The end of EmptyBuffProc: the buffer is empty again.                    *)
Written ==
  /\ Top("write")
  /\ LET s == Head(stack).s
     IN /\ offset = Len(st[s].buf)
        /\ st' = [st EXCEPT ![s].buf = IF st[s].rawWrite THEN <<>> ELSE Reserved]
  /\ offset' = 0
  /\ Return
  /\ UNCHANGED <<nWriters, sock, broken, put, phase, flushes>>

(* The end of FCGX_FClose.                                                 *)
Closed ==
  /\ Top("closed")
  /\ st' = [st EXCEPT ![Head(stack).s].wasFCloseCalled = TRUE,
                      ![Head(stack).s].isClosed = TRUE]
  /\ Return
  /\ UNCHANGED <<nWriters, offset, sock, broken, put, phase, flushes>>

PeerGone ==
  /\ ~broken
  /\ broken' = TRUE
  /\ UNCHANGED <<st, nWriters, stack, offset, sock, put, phase, flushes>>

Library == \/ PutStr \/ EmptyBuffProc \/ WriteCloseRecords \/ OsWrite
           \/ OsWriteFails \/ Written \/ Closed \/ Done

Next == AppPut \/ AppFlush \/ AppFinish \/ Library \/ PeerGone

Spec == Init /\ [][Next]_vars

(* The thread runs, and the server finishes every request it accepted.     *)
FairSpec == Spec /\ WF_vars(Library) /\ WF_vars(AppFinish)
-----------------------------------------------------------------------------
(* Properties.                                                             *)

(* Neither content nor padding nor the closing records overflow the buffer *)
(* (fcgiapp.c:1392 "Padding can't overflow the buffer because the buffer   *)
(* is a multiple of 8 bytes in length").                                   *)
BufferHolds == \A s \in Streams : Len(st[s].buf) <= BuffLen[s]

(* The bytes that begin a record of x, and the position behind a record.   *)
Starts(x) == {i \in 1..Len(x) : x[i].k = "header"}
RecordEnd(x, i) == i + Unit + x[i].v.clen + x[i].v.plen

KindAt(h, d) ==
  IF d = 0 THEN "header"
  ELSE IF d < Unit THEN "more"
  ELSE IF d < Unit + h.clen THEN (IF h.type = "end" THEN "body" ELSE h.type)
  ELSE "pad"

(* x is a sequence of records, the last of which may be cut off.           *)
Framed(x) ==
  /\ x # <<>> => x[1].k = "header"
  /\ \A i \in Starts(x) :
       /\ \A j \in i..Len(x) : j < RecordEnd(x, i) => x[j].k = KindAt(x[i].v, j - i)
       /\ RecordEnd(x, i) <= Len(x) => x[RecordEnd(x, i)].k = "header"

(* The web server receives whole FastCGI records one after the other, cut  *)
(* off at most at the end: a reserved header is never sent unfilled, raw   *)
(* closing records never end up inside the content of another record.      *)
WellFramed == Framed(sock)

(* The bytes of a stream are numbered as they are put.  How far stream s   *)
(* has got in the first n bytes of x: the greatest number among them.      *)
Numbers(x, s, n) == {0} \cup {x[j].v : j \in {i \in 1..n : x[i].k = s}}
Reached(x, s, n) ==
  CHOOSE m \in Numbers(x, s, n) : \A l \in Numbers(x, s, n) : l <= m

(* Every byte of a stream is the next one of that stream.                  *)
Ordered(x) ==
  \A s \in Streams : \A i \in 1..Len(x) :
    x[i].k = s => x[i].v = Reached(x, s, i - 1) + 1

(* The content of each stream arrives in the order it was put, without     *)
(* loss or repetition, whatever the sizes of the puts, the flushes and the *)
(* partial writes are.                                                     *)
ContentInOrder == Ordered(sock)

(* An empty record ends a stream, so none is sent before every byte put on *)
(* the stream: FCGX_FFlush of an empty buffer must not send one, and the   *)
(* end of the request comes last, after the end of out.                    *)
Eofs(x, s) == {i \in Starts(x) : x[i].v.type = s /\ x[i].v.clen = 0}
EndsAfterContent ==
  /\ \A s \in Streams : \A i \in Eofs(sock, s) :
       Eofs(sock, s) = {i} /\ \A n \in i..Len(sock) : Reached(sock, s, n) = put[s]
  /\ \A i \in Starts(sock) : sock[i].v.type = "end" =>
       Eofs(sock, "out") # {} /\ Len(sock) < RecordEnd(sock, i)

(* A finished request of a connection without errors has been ended by     *)
(* exactly one END_REQUEST.                                                *)
EndedOnce ==
  phase = "done" /\ ~broken /\ ~Transient =>
    \E i \in Starts(sock) : /\ sock[i].v.type = "end"
                            /\ RecordEnd(sock, i) = Len(sock) + 1

(* The web server learns the end of each stream and of the request, each   *)
(* once, and only after everything that belongs before it (FCGX_FClose,    *)
(* writeCloseRecords).                                                     *)
RequestEnded == EndsAfterContent /\ EndedOnce

(* FCGX_Finish_r returns, also when the peer has gone in the middle.       *)
FinishReturns == (phase = "finishing") ~> (phase = "done")

(* fcgiapp.c:936 "save the error code in the stream for diagnostic         *)
(* purposes and set the stream state so that reads return EOF and writes   *)
(* have no effect".                                                        *)
NoWriteAfterError ==
  [][\A s \in Streams : Top("write") /\ Head(stack).s = s /\ st[s].errno
                          => sock' = sock]_vars
=============================================================================
