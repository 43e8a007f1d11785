----------------------------- MODULE FcgiInput -----------------------------
(***************************************************************************)
(* The input side of the FastCGI library that iipsrv links                 *)
(* (fcgi/libfcgi/fcgiapp.c): FCGX_Accept_r, which the server's main loop   *)
(* calls once per request, the record reader FillBuffProc under it, and    *)
(* the two readers built on the stream: ReadParams for the environment and *)
(* FCGX_GetStr for the body of a POST.                                     *)
(*                                                                         *)
(* The web server at the other end is external.  It speaks the FastCGI     *)
(* protocol: BEGIN_REQUEST, PARAMS records, an empty PARAMS record, STDIN  *)
(* records, an empty STDIN record; between two records it may ask for      *)
(* management values or try to multiplex a second request; it may close    *)
(* the connection at any time.                                             *)
(*                                                                         *)
(* Sizes are scaled: a record header is HeaderLen bytes instead of 8, the  *)
(* BEGIN_REQUEST body BodyLen instead of 8, the buffer BuffLen instead of  *)
(* 8192.  A byte is a record [k, v]: what it is, and the header, length or *)
(* character it carries.                                                   *)
(***************************************************************************)
EXTENDS Integers, Sequences

CONSTANTS Env,        \* Env[q]: the environment of request q, a sequence of
                      \* [nl, vl, nlong, vlong]: lengths and their encoding
          Stdin,      \* Stdin[q]: bytes of standard input of request q
          Role,       \* Role[q]: the role request q asks for
          KeepConn,   \* the requests sent with FCGI_KEEP_CONN
          Id,         \* Id[q]: the FastCGI request id of request q
          BuffLen,    \* bytes one read may return
          NewParams,  \* initial capacity of a parameter vector
          Pads,       \* padding lengths of non-empty stream records
          Forged,     \* what leftover bytes may say when taken for a header
          Extras,     \* records the web server may put between the others
          MaxExtras,  \* bound: how many of them
          MaxConns,   \* bound: connections the web server opens
          MaxWire     \* bound: bytes in flight before a record is sent

ASSUME FcgiInputAssumption ==
  /\ BuffLen \in Nat \ {0}
  /\ NewParams \in Nat \ {0}
  /\ MaxConns \in Nat /\ MaxExtras \in Nat /\ MaxWire \in Nat
  /\ Pads \subseteq Nat
  /\ \A h \in Forged : h.clen \in Nat /\ h.plen \in Nat
  /\ Extras \subseteq {"values", "multiplex", "unknown", "abort", "empty",
                     "badbegin"}
  /\ Env \in Seq(Seq([nl : Nat, vl : Nat, nlong : BOOLEAN, vlong : BOOLEAN]))
  /\ KeepConn \subseteq DOMAIN Env
  /\ Stdin \in [DOMAIN Env -> Nat]
  /\ DOMAIN Id = DOMAIN Env /\ DOMAIN Role = DOMAIN Env

VARIABLES link,    \* the connection: "down", "pending", "up", "lost" by the peer
          wire,    \* bytes the web server sent and the library has not read
          ws,      \* the web server: request, phase, content left, extras sent;
                   \* foreign: it sent an empty record of another request
          clean,   \* history: earlier requests of the connection were read whole
          request, \* FCGX_Request: requestId, role, keepConnection, ...
          in,      \* the input stream
          at,      \* where the thread is: see At
          filling, \* FillBuffProc is on the stack
          inner,   \* what ProcessHeader is reading: "none", "body", "values"
          parse,   \* the reader of the thread, and the one of ProcessHeader
          vec,     \* paramsPtr: the items and the capacity of the vector
          got,     \* bytes of standard input handed to the application
          reply    \* the last record the library wrote outside of the output streams

vars == <<link, wire, ws, clean, request, in, at, filling, inner, parse, vec, got,
          reply>>

HeaderLen == 2
BodyLen == 2
OtherId == 9
NoReader == "none"

At == {"accept", "begin", "params", "serve", "stdin"}
Level == {"outer", "inner"}
Phases == {"nlen", "nmore", "vlen", "vmore", "name", "value", "bytes"}
Errors == {"none", "PROTOCOL_ERROR", "UNSUPPORTED_VERSION", "PARAMS_ERROR",
           "OS_ERROR"}
Statuses == {"STREAM_RECORD", "SKIP", "BEGIN_RECORD", "MGMT_RECORD"}

Least(a, b) == IF a < b THEN a ELSE b
Drop(s, n) == SubSeq(s, n + 1, Len(s))
Take(s, n) == SubSeq(s, 1, n)

-----------------------------------------------------------------------------
(* The bytes the web server sends.                                         *)

B(k, v) == [k |-> k, v |-> v]

Header(type, id, clen, plen) ==
  LET h == [type |-> type, id |-> id, clen |-> clen, plen |-> plen]
  IN <<B("header1", h), B("header2", h)>>

Padding(n) == [i \in 1..n |-> B("pad", 0)]

StreamRecord(type, id, content, plen) ==
  Header(type, id, Len(content), plen) \o content \o Padding(plen)

BeginRecord(id, role, keep) ==
  StreamRecord("BEGIN", id, <<B("role", role), B("flags", keep)>>, 0)

Length(n, long) ==
  IF long THEN <<B("long", 0), B("more", 0), B("more", 0), B("more", n)>>
          ELSE <<B("len", n)>>

Chars(q, n) == [i \in 1..n |-> B("chr", q)]

NameValue(q, p) ==
  Length(p.nl, p.nlong) \o Length(p.vl, p.vlong)
    \o Chars(q, p.nl) \o Chars(q, p.vl)

(* The pairs one after the other. *)
Params(q) ==
  LET upTo[i \in 0..Len(Env[q])] ==
        IF i = 0 THEN <<>> ELSE upTo[i - 1] \o NameValue(q, Env[q][i])
  IN upTo[Len(Env[q])]

RoleParam(role) == [name |-> <<0>>, value |-> <<role>>]

(* The environment the application must see for request q.                 *)
Environment(q) ==
  <<RoleParam(Role[q])>> \o
    [i \in DOMAIN Env[q] |-> [name  |-> [j \in 1..Env[q][i].nl |-> q],
                              value |-> [j \in 1..Env[q][i].vl |-> q]]]

Extra(kind, q) ==
  CASE kind = "values"    -> StreamRecord("GET_VALUES", 0,
                               <<B("len", 1), B("len", 0), B("chr", 0)>>, 0)
    [] kind = "unknown"   -> StreamRecord("UNKNOWN", 0, <<>>, 0)
    [] kind = "multiplex" -> BeginRecord(OtherId, "RESPONDER", TRUE)
                               \o StreamRecord("PARAMS", OtherId, <<B("chr", 0)>>, 1)
    [] kind = "abort"     -> StreamRecord("ABORT", Id[q], <<>>, 0)
    [] kind = "badbegin"  -> BeginRecord(0, "RESPONDER", FALSE)
    [] kind = "empty"     -> StreamRecord("PARAMS", OtherId, <<>>, 0)

-----------------------------------------------------------------------------
(* Streams.                                                                *)

\* NewStream for a reader
NewReader(type) ==
  [buf |-> <<>>, avail |-> 0, clen |-> 0, plen |-> 0, hdr |-> <<>>,
   skip |-> FALSE, eorStop |-> FALSE, isClosed |-> FALSE, errno |-> "none",
   type |-> type]

NoStream == [NewReader(NoReader) EXCEPT !.isClosed = TRUE]

(* Fault: the stream of an error is not closed.                            *)
SetErrorFault(s, e) == [s EXCEPT !.errno = IF @ = "none" THEN e ELSE @]

SetError(s, e) ==
  [s EXCEPT !.errno = IF @ = "none" THEN e ELSE @, !.isClosed = TRUE]

SetReaderType(s, type) ==
  [s EXCEPT !.type = type, !.eorStop = FALSE, !.skip = FALSE, !.clen = 0,
            !.plen = 0, !.avail = 0, !.isClosed = FALSE]

NewParse(ph, need) == [ph |-> ph, need |-> need, acc |-> <<>>, nl |-> 0,
                       vl |-> 0, name |-> <<>>]

NewVec(role) == [items |-> role, length |-> NewParams]

(* Fault: the vector grows one pair too late.                              *)
PutParamFault(v, item) ==
  LET size == Len(v.items) + 1
  IN [items  |-> Append(v.items, item),
      length |-> IF size > v.length THEN 2 * v.length ELSE v.length]

(* PutParam: store the pair, then double the vector when it is full.       *)
PutParam(v, item) ==
  LET size == Len(v.items) + 1
  IN [items  |-> Append(v.items, item),
      length |-> IF size >= v.length THEN 2 * v.length ELSE v.length]

NoRequest == [id |-> 0, role |-> "none", keep |-> FALSE, begun |-> FALSE]

Init ==
  /\ link = "down" /\ wire = <<>>
  /\ ws = [q |-> 0, phase |-> "idle", left |-> <<>>, extras |-> 0, conns |-> 0,
           ended |-> FALSE, foreign |-> FALSE]
  /\ clean = TRUE /\ request = NoRequest
  /\ in = NoStream
  /\ at = "accept" /\ filling = FALSE /\ inner = "none"
  /\ parse = [l \in Level |-> NewParse("nlen", 1)]
  /\ vec = [l \in Level |-> NewVec(<<>>)]
  /\ got = <<>> /\ reply = [type |-> "none", id |-> 0]
-----------------------------------------------------------------------------
(* The web server.                                                         *)

CanSend == link \in {"pending", "up"} /\ Len(wire) <= MaxWire

Send(bytes) ==
  /\ wire' = wire \o bytes
  /\ UNCHANGED <<link, clean, request, in, at, filling, inner, parse, vec, got, reply>>

WebConnect ==
  /\ link = "down" /\ ws.conns < MaxConns /\ ws.q < Len(Env)
  /\ link' = "pending"
  /\ ws' = [ws EXCEPT !.q = @ + 1, !.phase = "begin", !.conns = @ + 1,
                       !.ended = FALSE, !.foreign = FALSE]
  /\ UNCHANGED <<wire, clean, request, in, at, filling, inner, parse, vec, got, reply>>

WebBegin ==
  /\ CanSend /\ ws.phase = "begin"
  /\ ws' = [ws EXCEPT !.phase = "params", !.left = Params(ws.q)]
  /\ Send(BeginRecord(Id[ws.q], Role[ws.q], ws.q \in KeepConn))

(* A stream is sent as records of any length, closed by an empty record.   *)
WebStream(phase, type, next, then) ==
  /\ CanSend /\ ws.phase = phase
  /\ \/ \E n \in 1..Len(ws.left), p \in Pads :
          /\ ws' = [ws EXCEPT !.left = Drop(@, n)]
          /\ Send(StreamRecord(type, Id[ws.q], Take(ws.left, n), p))
     \/ /\ ws.left = <<>>
        /\ ws' = [ws EXCEPT !.phase = next, !.left = then]
        /\ Send(StreamRecord(type, Id[ws.q], <<>>, 0))

WebParams == WebStream("params", "PARAMS", "stdin", Chars(ws.q, Stdin[ws.q]))
WebStdin == WebStream("stdin", "STDIN", "wait", <<>>)

WebExtra ==
  /\ CanSend /\ ws.phase \in {"begin", "params", "stdin"}
  /\ ws.extras < MaxExtras
  /\ \E kind \in Extras :
       /\ kind \in {"abort", "empty", "multiplex"} => ws.phase \in {"params", "stdin"}
       /\ ws' = [ws EXCEPT !.extras = @ + 1, !.foreign = @ \/ kind = "empty"]
       /\ Send(Extra(kind, ws.q))

(* A new request goes out on the same connection once the last one ended.  *)
WebNext ==
  /\ link = "up" /\ ws.phase = "wait" /\ ws.ended /\ ws.q < Len(Env)
  /\ ws' = [ws EXCEPT !.q = @ + 1, !.phase = "begin", !.ended = FALSE]
  /\ UNCHANGED <<link, wire, clean, request, in, at, filling, inner, parse, vec, got,
                 reply>>

WebClose ==
  /\ link = "up"
  /\ link' = "lost"
  /\ UNCHANGED <<wire, ws, clean, request, in, at, filling, inner, parse, vec, got,
                 reply>>

-----------------------------------------------------------------------------
(* FillBuffProc.                                                           *)

(* The reads of FillBuffProc: OS_Read blocks until there is a byte or the  *)
(* peer has gone.                                                          *)
OsRead ==
  /\ filling /\ in.buf = <<>> /\ wire # <<>>
  /\ \E n \in 1..Least(BuffLen, Len(wire)) :
       /\ in' = [in EXCEPT !.buf = Take(wire, n)]
       /\ wire' = Drop(wire, n)
  /\ UNCHANGED <<link, ws, clean, request, at, filling, inner, parse, vec, got, reply>>

OsReadFails ==
  /\ filling /\ in.buf = <<>> /\ link = "lost"
  /\ \E e \in {"PROTOCOL_ERROR", "OS_ERROR"} :
       /\ e = "PROTOCOL_ERROR" => wire = <<>>
       /\ in' = SetError(in, e)
  /\ filling' = FALSE
  /\ UNCHANGED <<link, wire, ws, clean, request, at, inner, parse, vec, got, reply>>

(* Fault: the rest of a record is taken for delivered with its beginning.  *)
DeliverFault ==
  /\ filling /\ in.buf # <<>> /\ in.clen > 0 /\ ~in.skip
  /\ in' = [in EXCEPT !.clen = 0, !.avail = in.clen]
  /\ filling' = FALSE
  /\ UNCHANGED <<link, wire, ws, clean, request, at, inner, parse, vec, got, reply>>

(* Content of the current record: hand over what the buffer holds.         *)
Deliver ==
  /\ filling /\ in.buf # <<>> /\ in.clen > 0 /\ ~in.skip
  /\ LET n == Least(in.clen, Len(in.buf))
     IN in' = [in EXCEPT !.clen = @ - n, !.avail = n]
  /\ filling' = FALSE
  /\ UNCHANGED <<link, wire, ws, clean, request, at, inner, parse, vec, got, reply>>

SkipContent(s) ==
  LET n == Least(s.clen, Len(s.buf))
  IN IF s.clen = 0 THEN s
     ELSE [s EXCEPT !.clen = @ - n, !.buf = Drop(@, n), !.skip = s.clen > n]

(* Fault: padding that continues in the next read is forgotten.            *)
SkipPaddingFault(s) ==
  [s EXCEPT !.plen = 0, !.buf = Drop(@, Least(s.plen, Len(s.buf)))]

SkipPadding(s) ==
  LET n == Least(s.plen, Len(s.buf))
  IN [s EXCEPT !.plen = @ - n, !.buf = Drop(@, n)]

TakeHeader(s) ==
  LET n == Least(HeaderLen - Len(s.hdr), Len(s.buf))
  IN [s EXCEPT !.hdr = @ \o Take(s.buf, n), !.buf = Drop(@, n)]

(* What FillBuffProc does with the status ProcessHeader returned.          *)
Interpreted(s, status) ==
  LET t == [s EXCEPT !.eorStop = FALSE, !.isClosed = FALSE]
  IN CASE status = "STREAM_RECORD" ->
            IF t.clen = 0 THEN [t EXCEPT !.avail = 0, !.isClosed = TRUE] ELSE t
       [] status = "SKIP" -> [t EXCEPT !.skip = TRUE]
       [] status \in {"BEGIN_RECORD", "MGMT_RECORD"} -> t
       [] OTHER -> SetError(t, status)

LoopsOn(s, status) ==
  \/ status \in {"SKIP", "MGMT_RECORD"}
  \/ status = "STREAM_RECORD" /\ s.clen > 0

HeaderReturns(s, status) ==
  /\ in' = Interpreted(s, status)
  /\ filling' = LoopsOn(s, status)
  /\ inner' = "none"

(* write_it_all of a reply: it fails only when the peer has gone.          *)
Reply(s, record, status) ==
  \/ /\ HeaderReturns(s, status)
     /\ reply' = record
  \/ /\ link = "lost"
     /\ HeaderReturns(SetError(s, "OS_ERROR"), "OS_ERROR")
     /\ UNCHANGED reply

ReadInside(s, what, ph, need) ==
  /\ in' = s
  /\ filling' = FALSE
  /\ inner' = what
  /\ parse' = [parse EXCEPT !["inner"] = NewParse(ph, need)]

(* ProcessBeginRecord up to its read of the record's body.                 *)
ProcessBeginRecord(s, h) ==
  /\ UNCHANGED vec
  /\ \/ /\ h.id = 0 \/ h.clen # BodyLen
        /\ HeaderReturns(s, "PROTOCOL_ERROR")
        /\ UNCHANGED <<request, parse, reply>>
     \/ /\ h.id # 0 /\ h.clen = BodyLen /\ request.begun
        /\ Reply(s, [type |-> "CANT_MPX_CONN", id |-> h.id], "SKIP")
        /\ UNCHANGED <<request, parse>>
     \/ /\ h.id # 0 /\ h.clen = BodyLen /\ ~request.begun
        /\ request' = [request EXCEPT !.id = h.id]
        /\ ReadInside(s, "body", "bytes", BodyLen)
        /\ UNCHANGED reply

(* ProcessManagementRecord up to its ReadParams.                           *)
ProcessManagementRecord(s, h) ==
  /\ UNCHANGED request
  /\ \/ /\ h.type = "GET_VALUES"
        /\ vec' = [vec EXCEPT !["inner"] = NewVec(<<>>)]
        /\ ReadInside(s, "values", "nlen", 1)
        /\ UNCHANGED reply
     \/ /\ h.type # "GET_VALUES"
        /\ Reply(s, [type |-> "UNKNOWN_TYPE", id |-> 0], "MGMT_RECORD")
        /\ UNCHANGED <<parse, vec>>

(* The code tests the version alone.  The bytes of a header say what it     *)
(* says; other bytes, which the reader of a kept connection meets when the  *)
(* last request was not read to its end, may say anything.                  *)
Says(bytes) == IF bytes[1].k = "header1" THEN {bytes[1].v} ELSE Forged

(* The stream once the header is taken apart.                              *)
Announced(t, h) ==
  [t EXCEPT !.hdr = <<>>, !.eorStop = TRUE, !.avail = 0, !.clen = h.clen, !.plen = h.plen]

WrongVersion(t) ==
  /\ t.hdr[1].k # "header1"
  /\ HeaderReturns([t EXCEPT !.hdr = <<>>, !.avail = 0], "UNSUPPORTED_VERSION")
  /\ UNCHANGED <<request, parse, vec, reply>>

(* Fault: the records of another request are taken for ours.               *)
ProcessHeaderFault(t) ==
  \/ WrongVersion(t)
  \/ \E h \in Says(t.hdr) :
       LET s == Announced(t, h)
       IN \/ h.type = "BEGIN" /\ ProcessBeginRecord(s, h)
          \/ h.type # "BEGIN" /\ h.id = 0 /\ ProcessManagementRecord(s, h)
          \/ /\ h.type # "BEGIN" /\ h.id # 0
             /\ HeaderReturns(s, IF h.type # in.type THEN "PROTOCOL_ERROR"
                                 ELSE "STREAM_RECORD")
             /\ UNCHANGED <<request, parse, vec, reply>>

ProcessHeader(t) ==
  \/ WrongVersion(t)
  \/ \E h \in Says(t.hdr) :
       LET s == Announced(t, h)
       IN \/ h.type = "BEGIN" /\ ProcessBeginRecord(s, h)
          \/ h.type # "BEGIN" /\ h.id = 0 /\ ProcessManagementRecord(s, h)
          \/ /\ h.type # "BEGIN" /\ h.id # 0
             /\ HeaderReturns(s, IF h.id # request.id THEN "SKIP"
                                 ELSE IF h.type # in.type THEN "PROTOCOL_ERROR"
                                 ELSE "STREAM_RECORD")
             /\ UNCHANGED <<request, parse, vec, reply>>

Continue(s) == in' = s /\ UNCHANGED <<request, filling, inner, parse, vec, reply>>

(* One turn of FillBuffProc's loop that does not deliver content.          *)
FillBuffProc ==
  /\ filling /\ in.buf # <<>> /\ ~(in.clen > 0 /\ ~in.skip)
  /\ LET s == SkipContent(in)
         t == SkipPadding(s)
         u == TakeHeader(t)
     IN \/ s.clen > 0 /\ Continue(s)
        \/ s.clen = 0 /\ t.plen > 0 /\ Continue(t)
        \/ /\ s.clen = 0 /\ t.plen = 0 /\ in.eorStop
           /\ in' = [t EXCEPT !.avail = 0, !.isClosed = TRUE]
           /\ filling' = FALSE
           /\ UNCHANGED <<request, inner, parse, vec, reply>>
        \/ /\ s.clen = 0 /\ t.plen = 0 /\ ~in.eorStop /\ Len(u.hdr) < HeaderLen
           /\ Continue(u)
        \/ /\ s.clen = 0 /\ t.plen = 0 /\ ~in.eorStop /\ Len(u.hdr) = HeaderLen
           /\ ProcessHeader(u)
  /\ UNCHANGED <<link, wire, ws, clean, at, got>>
-----------------------------------------------------------------------------
(* The readers on top of FillBuffProc.                                     *)

Reading == ~filling /\ (inner # "none" \/ at \in {"params", "stdin"})
Current == IF inner # "none" THEN "inner" ELSE "outer"
Wanted  == parse[Current].need - Len(parse[Current].acc)
Short   == Reading /\ Wanted > 0 /\ in.avail = 0 /\ in.isClosed

(* FCGX_GetChar and FCGX_GetStr: move what is available, fill when none is.*)
GetStr ==
  /\ Reading /\ Wanted > 0
  /\ \/ LET n == Least(Wanted, in.avail)
        IN /\ in.avail > 0
           /\ parse' = [parse EXCEPT ![Current].acc = @ \o Take(in.buf, n)]
           /\ in' = [in EXCEPT !.avail = @ - n, !.buf = Drop(@, n)]
           /\ UNCHANGED filling
     \/ /\ in.avail = 0 /\ ~in.isClosed
        /\ filling' = TRUE
        /\ UNCHANGED <<in, parse>>
  /\ UNCHANGED <<link, wire, ws, clean, request, at, inner, vec, got, reply>>

\* A byte that is no length may be read as one: of a name, a value or padding.
DecodedLength(b) == IF b.k \in {"len", "more", "chr", "pad"} THEN b.v ELSE 1
Text(bytes) == [i \in DOMAIN bytes |-> IF bytes[i].k = "chr" THEN bytes[i].v ELSE 0]

AfterNameLength(p, n) == [p EXCEPT !.ph = "vlen", !.need = 1, !.acc = <<>>, !.nl = n]
AfterValueLength(p, n) ==
  [p EXCEPT !.ph = "name", !.need = p.nl, !.acc = <<>>, !.vl = n]

(* ReadParams: what follows the read of one field of a name-value pair.    *)
NextField(p) ==
  LET b == p.acc[Len(p.acc)]
      long == p.ph \in {"nlen", "vlen"} /\ b.k = "long"
  IN CASE long ->
            [p EXCEPT !.ph = IF @ = "nlen" THEN "nmore" ELSE "vmore",
                      !.need = 3, !.acc = <<>>]
       [] ~long /\ p.ph \in {"nlen", "nmore"} -> AfterNameLength(p, DecodedLength(b))
       [] ~long /\ p.ph \in {"vlen", "vmore"} -> AfterValueLength(p, DecodedLength(b))
       [] p.ph = "name" ->
            [p EXCEPT !.ph = "value", !.need = p.vl, !.acc = <<>>, !.name = p.acc]
       [] p.ph = "value" -> NewParse("nlen", 1)

ReadParams ==
  /\ Reading /\ Wanted = 0 /\ parse[Current].ph # "bytes"
  /\ parse' = [parse EXCEPT ![Current] = NextField(@)]
  /\ vec' = IF parse[Current].ph # "value" THEN vec
            ELSE [vec EXCEPT ![Current] =
                    PutParam(@, [name  |-> Text(parse[Current].name),
                                 value |-> Text(parse[Current].acc)])]
  /\ UNCHANGED <<link, wire, ws, clean, request, in, at, filling, inner, got, reply>>

(* The body of a BEGIN record; that of a forged one may say anything.      *)
Roles(b) == IF b.k = "role" THEN {b.v} ELSE {"RESPONDER", "unknown"}
Flags(b) == IF b.k = "flags" THEN {b.v} ELSE BOOLEAN

(* The rest of ProcessBeginRecord, after its read of the body.             *)
BodyRead ==
  /\ inner = "body" /\ Reading
  /\ \/ /\ Short
        /\ HeaderReturns(in, "PROTOCOL_ERROR")
        /\ UNCHANGED request
     \/ /\ Wanted = 0
        /\ \E role \in Roles(parse["inner"].acc[1]), keep \in Flags(parse["inner"].acc[2]) :
             request' = [request EXCEPT !.role = role, !.keep = keep, !.begun = TRUE]
        /\ HeaderReturns(in, "BEGIN_RECORD")
  /\ UNCHANGED <<link, wire, ws, clean, at, parse, vec, got, reply>>

(* The end of ReadParams: end of input is an error except between pairs.   *)
ParamsEnd(l) ==
  IF parse[l].ph = "nlen" THEN in ELSE SetError(in, "PARAMS_ERROR")

(* The rest of ProcessManagementRecord, after its ReadParams.              *)
ValuesRead ==
  /\ inner = "values" /\ Short
  /\ LET s == ParamsEnd("inner")
     IN IF s.errno # "none" \/ s.clen # 0
        THEN HeaderReturns(s, "PROTOCOL_ERROR") /\ UNCHANGED reply
        ELSE Reply(s, [type |-> "GET_VALUES_RESULT", id |-> 0], "MGMT_RECORD")
  /\ vec' = [vec EXCEPT !["inner"] = NewVec(<<>>)]
  /\ UNCHANGED <<link, wire, ws, clean, request, at, parse, got>>

-----------------------------------------------------------------------------
(* FCGX_Accept_r.                                                          *)

StartReading ==
  /\ at' = "begin"
  /\ filling' = TRUE
  /\ in' = NewReader(NoReader)

(* FCGX_Free(request, 1): the peer sees the connection closed.             *)
FreeAndClose ==
  /\ link' = "down" /\ wire' = <<>>
  /\ ws' = [ws EXCEPT !.phase = "idle", !.left = <<>>, !.ended = FALSE]
  /\ in' = NoStream
  /\ vec' = [vec EXCEPT !["outer"] = NewVec(<<>>)]
  /\ at' = "accept"
  /\ filling' = FALSE

Accept ==
  /\ at = "accept" /\ link = "pending"
  /\ link' = "up"
  /\ clean' = TRUE
  /\ request' = [request EXCEPT !.begun = FALSE]
  /\ StartReading
  /\ UNCHANGED <<wire, ws, inner, parse, vec, got, reply>>

(* The first FillBuffProc of FCGX_Accept_r has returned.                   *)
BeginRead ==
  /\ at = "begin" /\ ~filling /\ inner = "none"
  /\ IF request.begun /\ request.role \in {"RESPONDER", "AUTHORIZER", "FILTER"}
     THEN /\ vec' = [vec EXCEPT !["outer"] =
                       PutParam(NewVec(<<>>), RoleParam(request.role))]
          /\ in' = SetReaderType(in, "PARAMS")
          /\ parse' = [parse EXCEPT !["outer"] = NewParse("nlen", 1)]
          /\ at' = "params"
          /\ UNCHANGED <<link, wire, ws, filling>>
     ELSE FreeAndClose /\ UNCHANGED parse
  /\ UNCHANGED <<clean, request, inner, got, reply>>

(* ReadParams of FCGX_Accept_r has returned.                               *)
ParamsRead ==
  /\ at = "params" /\ inner = "none" /\ Short
  /\ IF parse["outer"].ph = "nlen"
     THEN /\ in' = SetReaderType(ParamsEnd("outer"), "STDIN")
          /\ at' = "serve"
          /\ got' = <<>>
          /\ UNCHANGED <<link, wire, ws, vec, filling>>
     ELSE FreeAndClose /\ UNCHANGED got
  /\ UNCHANGED <<clean, request, inner, parse, reply>>

(* Main.cc: the body of a POST is read with one FCGX_GetStr.               *)
ReadStdin ==
  /\ at = "serve" /\ ~in.isClosed
  /\ \E n \in 1..(Stdin[ws.q] + 1) :
       parse' = [parse EXCEPT !["outer"] = NewParse("bytes", n)]
  /\ at' = "stdin"
  /\ UNCHANGED <<link, wire, ws, clean, request, in, filling, inner, vec, got, reply>>

StdinRead ==
  /\ at = "stdin" /\ inner = "none" /\ Reading /\ (Wanted = 0 \/ Short)
  /\ got' = got \o Text(parse["outer"].acc)
  /\ at' = "serve"
  /\ UNCHANGED <<link, wire, ws, clean, request, in, filling, inner, parse, vec, reply>>

(* The next call of FCGX_Accept_r: FCGX_Finish_r closes the output streams,*)
(* which writes END_REQUEST, and keeps or closes the connection.           *)
FinishRequest ==
  /\ at = "serve"
  /\ \E failed \in BOOLEAN :
       /\ failed => link = "lost"
       /\ reply' = IF failed THEN reply
                   ELSE [type |-> "END_REQUEST", id |-> request.id]
       /\ clean' = (clean /\ in.isClosed /\ in.errno = "none")
       /\ IF ~request.keep \/ failed \/ in.errno # "none"
          THEN FreeAndClose /\ UNCHANGED request
          ELSE /\ StartReading
               /\ request' = [request EXCEPT !.begun = FALSE]
               /\ ws' = [ws EXCEPT !.ended = TRUE]
               /\ vec' = [vec EXCEPT !["outer"] = NewVec(<<>>)]
               /\ UNCHANGED <<link, wire>>
  /\ UNCHANGED <<inner, parse, got>>

Web == WebConnect \/ WebBegin \/ WebParams \/ WebStdin \/ WebExtra \/ WebNext
         \/ WebClose

Library ==
  \/ OsRead \/ OsReadFails \/ Deliver \/ FillBuffProc \/ GetStr \/ ReadParams
  \/ BodyRead \/ ValuesRead \/ Accept \/ BeginRead \/ ParamsRead \/ StdinRead

Next == Web \/ Library \/ ReadStdin \/ FinishRequest

Spec == Init /\ [][Next]_vars

(* The thread never stops for long on its own, and the web server sends    *)
(* what it began to send unless it closes the connection.                  *)
FairSpec ==
  /\ Spec
  /\ WF_vars(Library) /\ WF_vars(FinishRequest)
  /\ WF_vars(WebBegin \/ WebParams \/ WebStdin)
-----------------------------------------------------------------------------
(* Properties.                                                             *)

(* The fields of the request, of the stream and of the reader stay in      *)
(* their ranges: counts of bytes never go negative, at most one record     *)
(* header is half read.                                                    *)
TypeOK ==
  /\ link \in {"down", "pending", "up", "lost"}
  /\ at \in At /\ filling \in BOOLEAN /\ inner \in {"none", "body", "values"}
  /\ in.avail \in 0..Len(in.buf) /\ in.clen \in Nat /\ in.plen \in Nat
  /\ Len(in.buf) <= BuffLen /\ Len(in.hdr) < HeaderLen
  /\ in.errno \in Errors
  /\ \A l \in Level : parse[l].ph \in Phases /\ Wanted >= 0

(* A request FCGX_Accept_r hands to the server without an error on its     *)
(* stream is one request of the web server: its id, its role, its flag and *)
(* every name-value pair.                                                  *)
AcceptedIntact ==
  at \in {"serve", "stdin"} /\ in.errno = "none" =>
    /\ vec["outer"].items = Environment(ws.q)
    /\ request.id = Id[ws.q]
    /\ request.keep = (ws.q \in KeepConn)

(* What FCGX_GetStr hands out is the standard input of the request being   *)
(* served, and the end of the stream is reported, without an error, only   *)
(* after its last byte.                                                    *)
StdinIntact ==
  at \in {"serve", "stdin"} =>
    /\ got = [i \in 1..Len(got) |-> ws.q] /\ Len(got) <= Stdin[ws.q]
    /\ at = "serve" /\ in.isClosed /\ in.errno = "none" => Len(got) = Stdin[ws.q]

(* The server is given one request of the web server and nothing else, the *)
(* environment at FCGX_Accept_r and the standard input at FCGX_GetStr,     *)
(* whatever the record boundaries, the padding, the sizes of the reads and *)
(* the records of others in between were.  There are two exceptions, which *)
(* RequestAlways and KeptIntact add: an empty record of another request,   *)
(* and a kept connection whose last request was not read to the end.       *)
RequestIntact == clean /\ ~ws.foreign => AcceptedIntact /\ StdinIntact

(* The reader keeps its place in the stream of records: the unread bytes   *)
(* begin with exactly the content and the padding it still expects, and    *)
(* then with a header (or with the second half of the one it holds half).  *)
(* Only a kept connection whose last request was not read to the end of    *)
(* its standard input can lose its place.                                  *)
Framed ==
  LET rest == in.buf \o wire
      c == in.avail + in.clen
      Is(i, kinds) == i <= Len(rest) => rest[i].k \in kinds
  IN clean /\ at # "accept" /\ in.errno = "none" =>
       /\ \A i \in 1..c : Is(i, {"role", "flags", "len", "long", "more", "chr"})
       /\ \A i \in (c + 1)..(c + in.plen) : Is(i, {"pad"})
       /\ Is(c + in.plen + 1, {IF in.hdr = <<>> THEN "header1" ELSE "header2"})

(* PutParam leaves room for the NULL that ends envp and for the next pair. *)
VectorHasRoom == \A l \in Level : Len(vec[l].items) < vec[l].length

(* A request the web server is sending reaches the server or its           *)
(* connection is closed: the accept loop is stuck neither by records that  *)
(* are not for it, nor by a peer that goes away.  On a kept connection     *)
(* this is about requests before which the last one was read to its end.   *)
AcceptReturns ==
  (link = "up" /\ clean /\ ~ws.ended /\ at \in {"begin", "params"})
    ~> (at \in {"serve", "accept"})

(* The two statements on a kept connection whose last request was not read *)
(* to its end, and the first one after an empty record of another request. *)
(* The code fulfils neither: the leftover bytes of a record may be taken    *)
(* for a header (fcgiapp.c:1592), and skip stays set when the record to be  *)
(* skipped has no content (fcgiapp.c:1723), so that the next record is lost.*)
RequestAlways == clean => AcceptedIntact /\ StdinIntact
KeptIntact == ~ws.foreign => AcceptedIntact /\ StdinIntact
KeptReturns ==
  (link = "up" /\ ~ws.ended /\ at \in {"begin", "params"}) ~> (at \in {"serve", "accept"})

(* fcgiapp.c:2232 "Finished reading the environment.  No errors occurred,  *)
(* so leave the connection-retry loop."                                    *)
AcceptedWithoutErrors ==
  [][at = "params" /\ at' = "serve" => in'.errno = "none"]_vars
=============================================================================
