------------------------------ MODULE Encoder ------------------------------
(***************************************************************************)
(* The JPEG and PNG compressors (JPEGCompressor.cc, PNGCompressor.cc): how *)
(* the bytes that libjpeg and libpng produce reach the output buffers that *)
(* the compressors allocate, grow and hand back.                           *)
(*                                                                         *)
(* The libraries are external: encoding a tile gives the file header, the  *)
(* embedded profile and metadata, a number of bytes for each row, and the  *)
(* trailer.  A byte is <<section, number>>: section 0 is everything before *)
(* the rows, section y + 1 is row y, Trailer is the end.  A destination is *)
(* a record [buf, size, free, next, written] of the fields of              *)
(* iip_destination_mgr; Unset marks memory that was never written, or that *)
(* is not the buffer's.                                                    *)
(***************************************************************************)
EXTENDS Integers, Sequences, SequencesExt

CONSTANTS Margin,           \* MX, the room beyond the size of the raw pixels
          HeaderBytes,      \* size of a file header without profile and metadata
          MarkerBytes,      \* MAX_DATA_BYTES_IN_MARKER
          Overhead          \* ICC_OVERHEAD_LEN, XMP_PREFIX_SIZE

ASSUME EncoderAssumption ==
    /\ Margin \in Nat /\ Overhead \in Nat
    /\ HeaderBytes \in Nat \ {0} /\ MarkerBytes \in Nat \ {0}

Unset == <<-1, 0>>
Overwritten == <<-2, 0>>    \* a byte of a file that was taken for a sample
Trailer == 99

\* The buffer with the bytes laid down behind position at; what reaches beyond
\* its end is in memory of others.
Laid(buf, at, bytes) ==
    IF at >= Len(buf) THEN buf
    ELSE SubSeq(SubSeq(buf, 1, at) \o bytes \o SubSeq(buf, at + Len(bytes) + 1, Len(buf)),
                1, Len(buf))

Blank(n) == [i \in 1 .. n |-> Unset]

\* n bytes read from the start of the buffer.
Taken(buf, n) == IF n <= Len(buf) THEN SubSeq(buf, 1, n) ELSE buf \o Blank(n - Len(buf))

\* The libraries hand over their output in pieces, here one for each section.
Section(s, n) == <<[i \in 1 .. n |-> <<s, i>>]>>

\* The room allowed for a profile and metadata of the given sizes.
Metadata(icc, xmp) ==
    (IF icc > 0 THEN icc + Overhead ELSE 0) + (IF xmp > 0 THEN xmp + Overhead ELSE 0)

\* JPEG splits a profile over as many markers as it takes, each with its own
\* overhead; a PNG has a single chunk.
ProfileBytes(enc, icc) ==
    IF icc = 0 THEN 0
    ELSE IF enc = "JPEG"
    THEN icc + ((icc + (MarkerBytes - 1)) \div MarkerBytes) * Overhead
    ELSE icc + Overhead

XMPBytes(xmp) == IF xmp = 0 THEN 0 ELSE xmp + Overhead

FileHeader(enc, icc, xmp) ==
    Section(0, HeaderBytes + ProfileBytes(enc, icc) + XMPBytes(xmp))

Rows(from, to, perRow) ==
    FlattenSeq([i \in 1 .. (to - from) |-> Section(from + i, perRow)])

\* All pieces of an image of h rows.
Stream(enc, icc, xmp, h, perRow) ==
    FileHeader(enc, icc, xmp) \o Rows(0, h, perRow) \o Section(Trailer, 1)

(***************************************************************************)
(* The destination manager of the JPEG compressor                          *)
(***************************************************************************)
init_destination(size) ==
    [buf |-> Blank(size), size |-> size, free |-> size, next |-> 0, written |-> 0]

empty_output_bufferFault(d) ==
    [d EXCEPT !.written = @ + d.size, !.next = 0, !.free = d.size]

empty_output_buffer(d) ==
    LET new == 2 * d.size
        written == d.written + d.size
    IN  [buf |-> d.buf \o Blank(d.size), size |-> new, written |-> written,
         free |-> new - written, next |-> d.size]

Put(d, bytes) ==
    [d EXCEPT !.buf = Laid(@, d.next, bytes),
              !.next = @ + Len(bytes), !.free = @ - Len(bytes)]

\* libjpeg stores bytes and calls back as soon as no free byte is left; a count
\* that the callback leaves at zero or below wraps round and never gets there.
\* (The singletons have TLC evaluate the arguments once.)
RECURSIVE Store(_, _)
Store(dest, data) ==
    CHOOSE stored \in
        {IF Len(bytes) < d.free \/ d.free <= 0 THEN Put(d, bytes)
         ELSE Store(empty_output_buffer(Put(d, SubSeq(bytes, 1, d.free))),
                    SubSeq(bytes, d.free + 1, Len(bytes))) :
             d \in {dest}, bytes \in {data}} : TRUE

term_destination(d) == [d EXCEPT !.written = d.size - d.free]

(***************************************************************************)
(* The write function of the PNG compressor: a whole piece at a time.  The *)
(* buffer is doubled once for it, whether or not that is enough.           *)
(***************************************************************************)
png_write_data(d, piece) ==
    LET need == d.written + Len(piece)
        grown == IF need > d.size
                 THEN [d EXCEPT !.buf = @ \o Blank(d.size), !.size = 2 * @]
                 ELSE d
    IN  [grown EXCEPT !.written = need, !.buf = Laid(@, d.written, piece)]

\* What is in the buffer after the given pieces.
Written(enc, dest, pieces) ==
    IF enc = "JPEG" THEN Store(dest, FlattenSeq(pieces))
    ELSE FoldLeft(LAMBDA e, piece : CHOOSE w \in {png_write_data(d, piece) : d \in {e}} : TRUE,
                  dest, pieces)

\* What an encoder does not throw on; that of PNG does not test the depth.
Accepts(enc, t) == IF enc = "JPEG" THEN t.ch \in {1, 3} /\ t.bpc = 8 ELSE t.ch \in 1 .. 4

OutputSize(enc, t, icc, xmp) ==
    (3 * t.w * t.h * t.ch * (IF enc = "PNG" THEN t.bpc \div 8 ELSE 1)) \div 2
        + Metadata(icc, xmp) + (IF enc = "PNG" THEN Margin ELSE 0)

\* Compress(): the bytes that become the data of the tile.
Compress(enc, t, icc, xmp, perRow) ==
    LET d == Written(enc, init_destination(OutputSize(enc, t, icc, xmp)),
                     Stream(enc, icc, xmp, t.h, perRow))
        end == IF enc = "JPEG" THEN term_destination(d) ELSE d
    IN  Taken(end.buf, end.written)

\* How often the buffer of Compress() grows for n bytes: each time gives the
\* encoder as many bytes as the buffer had at first.
Growths(size, n) == n \div size

(***************************************************************************)
(* Strip by strip: the header has a buffer of its own, the strips and the  *)
(* end go to the buffer of the caller.                                     *)
(***************************************************************************)
InitCompression(enc, icc, xmp) ==
    Written(enc, init_destination(Metadata(icc, xmp) + Margin), FileHeader(enc, icc, xmp))

\* The destination d pointed at a buffer of the given size.  JPEG leaves the
\* count of the bytes written as it was.
Pointed(enc, d, size) ==
    [init_destination(size) EXCEPT !.written = IF enc = "JPEG" THEN d.written ELSE 0]

CompressStrip(enc, d, t, from, to, perRow) ==
    Written(enc, Pointed(enc, d, (to - from) * t.w * t.ch * (t.bpc \div 8) + Margin),
            Rows(from, to, perRow))

\* The size that the last strip left in the destination is used again.
Finish(enc, d) == Written(enc, Pointed(enc, d, d.size), Section(Trailer, 1))

\* What the caller sends: as many bytes as the compressor reports, from the
\* buffer it knows, which a destination that has grown has released.
Reported(enc, d) == IF enc = "JPEG" THEN d.size - d.free ELSE d.written
InPlace(d, size) == d.size = size
Handed(enc, d, released) ==
    IF released THEN Blank(Reported(enc, d)) ELSE Taken(d.buf, Reported(enc, d))

\* An encoded tile after a transform has changed its first n bytes.
Spoilt(file, n) == [i \in DOMAIN file |-> IF i <= n THEN Overwritten ELSE file[i]]
=============================================================================
