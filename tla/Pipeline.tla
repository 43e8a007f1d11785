------------------------------ MODULE Pipeline ------------------------------
(***************************************************************************)
(* From the commands of a request to the bytes of an image: the commands   *)
(* that set processing options of the View, and the two handlers that      *)
(* process and encode a single image, JTL (a tile) and CVT (a region).     *)
(* JTL_Ext::getTile, the variant of JTL for several images, is here too;   *)
(* DeepZoomExt runs it.                                                    *)
(*                                                                         *)
(* A request is [paths, commands]: the images it names and its commands in *)
(* order.  stage is the position in the handler that runs, in the order of *)
(* its code; every stage is one step, which calls a transform or skips it. *)
(***************************************************************************)
EXTENDS Transforms, Encoder

CONSTANTS Workload,     \* the requests: records [paths, commands]
          StripRows,    \* height of a strip, 128
          ProfileLimit, \* size from which CVT embeds no profile, 65536
          EmbedICC      \* the switch EMBED_ICC

VARIABLES request, todo,    \* the request, and its commands still to run
          image,            \* session->image, or NoImage
          hist,             \* image->histogram; <<>> while it is not calculated
          view,             \* session->view
          compressors,      \* session->jpeg and session->png: profile and metadata
          job,              \* locals of the handler
          stage,
          tile,             \* rawtile, complete_image
          coded,            \* the samples given to the encoder
          sent              \* the bytes of the reply

pipeVars == <<request, todo, image, hist, view, compressors, job, stage, tile,
              coded, sent>>

NoImage == [name |-> "none"]
NoTile == [w |-> 0, h |-> 0, ch |-> 1, bpc |-> 8, enc |-> "RAW", ok |-> TRUE,
           done |-> <<>>, buf |-> <<>>]
NewCompressor == [icc |-> 0, xmp |-> 0, from |-> "none"]

NewView ==
    [contrast |-> 1, gamma |-> 1, shaded |-> FALSE, cmapped |-> FALSE,
     inverted |-> FALSE, ctw |-> <<>>, colourspace |-> "NONE", flip |-> 0,
     rotation |-> 0, output_format |-> "JPEG", equalization |-> FALSE]

NewJob == [handler |-> "none", float |-> FALSE, rw |-> 0, rh |-> 0, ct |-> "RAW",
           method |-> "none", strip |-> 0, dest |-> init_destination(1),
           moved |-> FALSE, released |-> FALSE, suffixed |-> FALSE]

\* FIF has opened the image of a request that names a single one.
PipeInit ==
    /\ request \in Workload
    /\ todo = request.commands
    /\ image = IF Len(request.paths) = 1 THEN request.paths[1] ELSE NoImage
    /\ hist = <<>>
    /\ view = NewView
    /\ compressors = [JPEG |-> NewCompressor, PNG |-> NewCompressor]
    /\ job = NewJob
    /\ stage = "commands"
    /\ tile = NoTile
    /\ coded = NoTile
    /\ sent = <<>>

(***************************************************************************)
(* The commands that set options.  A command is [op, v].                   *)
(***************************************************************************)
CNT(v) == IF v = "eq" THEN [view EXCEPT !.equalization = TRUE]
          ELSE [view EXCEPT !.contrast = IF v = "st" THEN -1 ELSE 2]

GAM(v) == [view EXCEPT !.gamma = IF v = "log" THEN -1 ELSE 2]

\* v is the number of angles given.
SHD(v) == [view EXCEPT !.shaded = @ \/ v = 2]

\* An unknown map also switches off one that was set before.
CMP(v) == [view EXCEPT !.cmapped = (v # "unknown")]

INV == [view EXCEPT !.inverted = TRUE]

\* v is the sequence of the lengths of its rows; a second matrix adds to them.
CTW(v) == [view EXCEPT !.ctw = @ \o v]

COL(v) == [view EXCEPT !.colourspace = IF v = "unknown" THEN @ ELSE v]

\* '!180' is a vertical flip; a flip set before stays set.
ROT(v) ==
    LET mirrored == v.mirror \/ view.flip = 1 IN
    IF mirrored /\ v.angle = 180 THEN [view EXCEPT !.flip = 2]
    ELSE [view EXCEPT !.flip = IF v.mirror THEN 1 ELSE @, !.rotation = v.angle]

\* The rotation, quality and format parameters of an IIIF request.
IiifParameters(v) ==
    LET mirrored == IF v.mirror THEN 1 ELSE view.flip
        vertical == v.angle = 180 /\ mirrored = 1
    IN  [view EXCEPT !.flip = IF vertical THEN 2 ELSE mirrored,
                     !.rotation = IF vertical THEN @ ELSE v.angle,
                     !.output_format = v.format,
                     !.colourspace = CASE v.quality = "grey" -> "GREYSCALE"
                                       [] v.quality = "bitonal" -> "BINARY"
                                       [] OTHER -> @]

Outputs == {"JTL", "PTL", "CVT", "IIIF", "DeepZoomExt"}

RunOption ==
    /\ stage = "commands" /\ todo # <<>> /\ Head(todo).op \notin Outputs
    /\ LET op == Head(todo).op
           v == Head(todo).v
       IN  view' = CASE op = "CNT" -> CNT(v) [] op = "GAM" -> GAM(v) [] op = "SHD" -> SHD(v)
                     [] op = "CMP" -> CMP(v) [] op = "INV" -> INV [] op = "CTW" -> CTW(v)
                     [] op = "COL" -> COL(v) [] op = "ROT" -> ROT(v)
    /\ todo' = Tail(todo)
    /\ UNCHANGED <<request, image, hist, compressors, job, stage, tile, coded, sent>>

floatProcessingFault ==
    \/ view.contrast # 1 \/ view.gamma # 1 \/ view.cmapped
    \/ view.shaded \/ view.ctw # <<>>

floatProcessing ==
    \/ view.contrast # 1 \/ view.gamma # 1 \/ view.cmapped
    \/ view.shaded \/ view.inverted \/ view.ctw # <<>>

requireHistogramFault == view.equalization \/ view.contrast = -1

requireHistogram ==
    view.equalization \/ view.colourspace = "BINARY" \/ view.contrast = -1

embedICC ==
    /\ ~(view.cmapped \/ view.shaded \/ view.ctw # <<>> \/ view.colourspace = "GREYSCALE")
    /\ EmbedICC

(***************************************************************************)
(* The handlers' stages                                                    *)
(***************************************************************************)
FloatStages == <<"normalize", "shade", "twist", "tone", "cmap", "contrast">>
ByteStages == <<"flatten", "grey", "binary", "equalize", "flip", "rotate">>

Stages == [JTL |-> <<"histogram", "fetch", "lab">> \o FloatStages \o ByteStages
                   \o <<"compress", "commands">>,
           CVT |-> <<"histogram", "fetch", "lab">> \o FloatStages \o <<"resize">>
                   \o ByteStages \o <<"profile", "header", "strips", "finish", "commands">>,
           Ext |-> <<"fetch", "lab", "flatten", "grey", "compress", "push">>]

Following(s) == LET order == Stages[job.handler] IN
                order[1 + CHOOSE i \in 1 .. Len(order) : order[i] = s]

Format == IF view.output_format = "PNG" THEN "PNG" ELSE "JPEG"

\* JTL, PTL and CVT begin; IIIF sends a tile or a region.  The size that CVT
\* gives the output is decided by the View; here it comes with the command.
StartOutput ==
    /\ stage = "commands" /\ todo # <<>> /\ Head(todo).op \in {"JTL", "PTL", "CVT", "IIIF"}
    /\ image # NoImage
    /\ LET c == Head(todo)
           region == c.op = "CVT" \/ (c.op = "IIIF" /\ ~c.v.tile)
       IN  /\ view' = CASE c.op = "PTL" -> [view EXCEPT !.output_format = "PNG"]
                        [] c.op = "CVT" -> [view EXCEPT !.output_format = c.v.format]
                        [] c.op = "IIIF" -> IiifParameters(c.v)
                        [] OTHER -> view
           /\ job' = IF region
                     THEN [NewJob EXCEPT !.handler = "CVT", !.rw = c.v.w, !.rh = c.v.h,
                                         !.method = c.v.method]
                     ELSE [NewJob EXCEPT !.handler = "JTL"]
    /\ todo' = Tail(todo)
    /\ stage' = "histogram"
    /\ sent' = <<>> /\ coded' = NoTile
    /\ UNCHANGED <<request, image, hist, compressors, tile>>

\* Once per image; CVT leaves bilevel images out.
Histogram ==
    /\ stage = "histogram"
    /\ hist' = IF /\ requireHistogram /\ hist = <<>>
                  /\ job.handler = "CVT" => image.cs # "BINARY"
               THEN histogram(image.thumb) ELSE hist
    /\ stage' = Following(stage)
    /\ UNCHANGED <<request, todo, image, view, compressors, job, tile, coded, sent>>

\* Whether JTL needs the pixels themselves.
NeedsRaw ==
    \/ image.bpc > 8 \/ image.cs = "CIELAB" \/ image.ch = 2 \/ image.ch > 3
    \/ view.colourspace \in {"GREYSCALE", "BINARY"} /\ image.ch = 3 /\ image.bpc = 8
    \/ floatProcessing \/ view.equalization \/ view.rotation # 0 \/ view.flip # 0

Encoded(t, enc) == [t EXCEPT !.enc = enc]

\* TileManager::getTile for a tile that is not cached, or getRegion.  The
\* profile goes to the compressor first: the tile may come encoded.
Fetch ==
    /\ stage = "fetch"
    /\ LET raw == RawTile(image.w, image.h, image.ch, image.bpc)
           ct == IF job.handler = "CVT" \/ NeedsRaw THEN "RAW" ELSE Format
           embeds == job.handler # "CVT" /\ embedICC /\ image.icc > 0
           cx == IF embeds THEN [compressors[Format] EXCEPT !.icc = image.icc,
                                                            !.from = image.name]
                 ELSE compressors[Format]
           encodes == ct = "PNG" \/ (ct = "JPEG" /\ Accepts("JPEG", raw))
       IN  /\ compressors' = [compressors EXCEPT ![Format] = cx]
           /\ tile' = IF encodes THEN Encoded(raw, ct) ELSE raw
           /\ job' = [job EXCEPT !.ct = ct]
           /\ coded' = IF encodes THEN raw ELSE coded
           /\ sent' = IF encodes THEN Compress(ct, raw, cx.icc, cx.xmp, image.noise)
                      ELSE sent
    /\ stage' = Following(stage)
    /\ UNCHANGED <<request, todo, image, hist, view>>

\* A stage that calls a transform when it is asked for; name is that of an
\* adjustment the result has been through, or "".  On an encoded tile the bytes
\* of the file are taken for the samples.
Calls(name, asked, result) ==
    LET file == tile.enc # "RAW" IN
    /\ stage' = Following(stage)
    /\ tile' = IF ~asked THEN tile
               ELSE IF file THEN [tile EXCEPT !.ok = FALSE]
               ELSE IF name = "" THEN result
               ELSE [result EXCEPT !.done = Append(@, name)]
    /\ sent' = IF asked /\ file THEN Spoilt(sent, Pixels(tile)) ELSE sent
    /\ UNCHANGED <<request, todo, image, hist, compressors, coded>>

Lab == stage = "lab" /\ Calls("", image.cs = "CIELAB", LAB2sRGB(tile)) /\ UNCHANGED <<view, job>>

\* The histogram gives the range of a contrast stretch, once; min and max then
\* have an entry for each bit of a sample, else one for each channel.
Normalize ==
    /\ stage = "normalize"
    /\ LET float == tile.bpc > 8 \/ floatProcessing
           stretch == float /\ view.contrast = -1
       IN  /\ Calls(IF stretch THEN "stretch" ELSE "", float,
                    normalize(tile, IF stretch THEN tile.bpc ELSE tile.ch))
           /\ view' = [view EXCEPT !.contrast = IF stretch THEN 1 ELSE @]
           /\ job' = [job EXCEPT !.float = float]

Shade ==
    /\ stage = "shade"
    /\ \E shaded \in shades(tile) : Calls("shade", job.float /\ view.shaded, shaded)
    /\ UNCHANGED <<view, job>>

Twist ==
    /\ stage = "twist"
    /\ Calls("twist", job.float /\ view.ctw # <<>>, twist(tile, view.ctw))
    /\ UNCHANGED <<view, job>>

\* Gamma or logarithm, then inversion: each sample on its own.
Tone ==
    /\ stage = "tone"
    /\ stage' = Following(stage)
    /\ tile' = [tile EXCEPT !.done =
           @ \o (IF ~job.float \/ view.gamma = 1 THEN <<>>
                 ELSE IF view.gamma = -1 THEN <<"log">> ELSE <<"gamma">>)
             \o (IF job.float /\ view.inverted THEN <<"inv">> ELSE <<>>)]
    /\ UNCHANGED <<request, todo, image, hist, view, compressors, job, coded, sent>>

Cmap ==
    /\ stage = "cmap"
    /\ Calls("cmap", job.float /\ view.cmapped, cmap(tile))
    /\ UNCHANGED <<view, job>>

Contrast ==
    /\ stage = "contrast"
    /\ Calls(IF view.contrast = 2 THEN "contrast" ELSE "", job.float, contrast(tile))
    /\ UNCHANGED <<view, job>>

Resize ==
    /\ stage = "resize"
    /\ Calls("", tile.w # job.rw \/ tile.h # job.rh,
             IF job.method = "nearest"
             THEN interpolate_nearestneighbour(tile, job.rw, job.rh)
             ELSE interpolate_bilinear(tile, job.rw, job.rh))
    /\ UNCHANGED <<view, job>>

\* JPEG takes one or three channels, PNG four at most.
Extra == \/ Format = "JPEG" /\ (tile.ch = 2 \/ tile.ch > 3)
         \/ Format = "PNG" /\ tile.ch > 4

Flatten ==
    /\ stage = "flatten"
    /\ Calls("", Extra, flatten(tile, IF tile.ch = 2 THEN 1 ELSE 3))
    /\ UNCHANGED <<view, job>>

Grey ==
    /\ stage = "grey"
    /\ Calls("", image.cs = "sRGB" /\ view.colourspace = "GREYSCALE", greyscale(tile))
    /\ UNCHANGED <<view, job>>

Binary ==
    /\ stage = "binary"
    /\ Calls("", image.cs # "BINARY" /\ view.colourspace = "BINARY", binary(tile))
    /\ UNCHANGED <<view, job>>

Equalize ==
    /\ stage = "equalize"
    /\ Calls("equalize", view.equalization, tile)
    /\ UNCHANGED <<view, job>>

Flip ==
    /\ stage = "flip"
    /\ Calls("flip", view.flip # 0, flip(tile, view.flip))
    /\ UNCHANGED <<view, job>>

\* CVT takes its output size from the rotated image.
Rotate ==
    /\ stage = "rotate"
    /\ Calls("rotate", view.rotation # 0, rotate(tile, view.rotation))
    /\ job' = IF view.rotation = 0 THEN job
              ELSE [job EXCEPT !.rw = tile'.w, !.rh = tile'.h]
    /\ UNCHANGED view

\* JTL and JTL_Ext encode what is still raw; the encoder throws on a tile it
\* cannot take, which ends the request.
CompressTile ==
    /\ stage = "compress"
    /\ LET cx == compressors[Format]
           refused == tile.enc = "RAW" /\ ~Accepts(Format, tile)
       IN  /\ stage' = IF refused THEN "error" ELSE Following(stage)
           /\ tile' = IF refused THEN tile ELSE Encoded(tile, Format)
           /\ coded' = IF tile.enc = "RAW" /\ ~refused THEN tile ELSE coded
           /\ sent' = IF tile.enc = "RAW" /\ ~refused
                      THEN Compress(Format, tile, cx.icc, cx.xmp, image.noise) ELSE sent
    /\ UNCHANGED <<request, todo, image, hist, view, compressors, job>>

(***************************************************************************)
(* CVT: the output goes out strip by strip                                 *)
(***************************************************************************)
Profile ==
    /\ stage = "profile"
    /\ LET embeds == embedICC /\ image.icc > 0 /\ image.icc < ProfileLimit IN
       compressors' = [compressors EXCEPT ![Format] =
           [icc |-> IF embeds THEN image.icc ELSE @.icc,
            xmp |-> IF image.xmp > 0 THEN image.xmp ELSE @.xmp,
            from |-> IF embeds THEN image.name ELSE @.from]]
    /\ stage' = Following(stage)
    /\ UNCHANGED <<request, todo, image, hist, view, job, tile, coded, sent>>

\* InitCompression, and the header to the client.
SendHeader ==
    /\ stage = "header"
    /\ LET cx == compressors[Format]
           room == Metadata(cx.icc, cx.xmp) + Margin
           d == InitCompression(Format, cx.icc, cx.xmp)
       IN  IF ~Accepts(Format, tile)
           THEN stage' = "error" /\ UNCHANGED <<job, coded, sent>>
           ELSE /\ stage' = Following(stage)
                /\ job' = [job EXCEPT !.dest = d, !.moved = ~InPlace(d, room)]
                /\ coded' = [tile EXCEPT !.buf = <<>>]
                /\ sent' = Handed(Format, d, job'.moved)
    /\ UNCHANGED <<request, todo, image, hist, view, compressors, tile>>

\* Strip n: its input starts at an offset counted with the output width, its
\* rows are those of the tile.
SendStrip ==
    /\ stage = "strips"
    /\ LET n == job.strip
           strips == job.rh \div StripRows + (IF job.rh % StripRows = 0 THEN 0 ELSE 1)
           last == n = strips - 1
           rows == IF last /\ job.rh % StripRows # 0 THEN job.rh % StripRows ELSE StripRows
           input == n * StripRows * job.rw * tile.ch
           room == rows * tile.w * tile.ch + Margin
           d == CompressStrip(Format, job.dest, tile, n * StripRows, n * StripRows + rows,
                              image.noise)
       IN  /\ coded' = [coded EXCEPT !.buf = @ \o
                            Fill(rows * tile.w * tile.ch, LAMBDA i : Read(tile.buf, input + i))]
           /\ job' = [job EXCEPT !.strip = n + 1, !.dest = d,
                                 !.released = @ \/ ~InPlace(d, room)]
           /\ sent' = sent \o Handed(Format, d, job'.released)
           /\ stage' = IF last THEN Following(stage) ELSE stage
    /\ UNCHANGED <<request, todo, image, hist, view, compressors, tile>>

SendEnd ==
    /\ stage = "finish"
    /\ LET d == Finish(Format, job.dest) IN
       /\ job' = [job EXCEPT !.dest = d, !.released = @ \/ ~InPlace(d, job.dest.size)]
       /\ sent' = sent \o Handed(Format, d, job'.released)
    /\ stage' = Following(stage)
    /\ UNCHANGED <<request, todo, image, hist, view, compressors, tile, coded>>

PipeNext ==
    \/ RunOption \/ StartOutput \/ Histogram \/ Fetch \/ Lab \/ Normalize \/ Shade
    \/ Twist \/ Tone \/ Cmap \/ Contrast \/ Resize \/ Flatten \/ Grey \/ Binary
    \/ Equalize \/ Flip \/ Rotate \/ CompressTile
    \/ Profile \/ SendHeader \/ SendStrip \/ SendEnd

(***************************************************************************)
(* Properties                                                              *)
(***************************************************************************)
Ran == Len(request.commands) - Len(todo)
Complete == stage = "commands" /\ Ran > 0 /\ request.commands[Ran].op \in Outputs
Processing == stage \in ToSet(Stages.CVT \o Stages.JTL) \ {"commands", "histogram", "fetch"}

\* Every transform leaves a buffer of the size that the next one, the strip
\* loop and the encoder compute from width, height and channels: exactly that
\* size for 8 bit samples, at least that size in the float pipeline
\* (Transforms.cc: dataLength, and np = width * height * channels).
Shape ==
    Processing /\ tile.enc = "RAW" =>
        IF tile.bpc = 8 THEN Len(tile.buf) = Samples(tile) ELSE Len(tile.buf) >= Samples(tile)

\* JTL and CVT never give the encoder a tile it refuses or misreads: whatever
\* the image and the options, 8 bit samples and a number of channels the format
\* has reach it (the PNG compressor would take another depth at its word), so
\* that no request fails after its header has been sent.
EncoderAccepts ==
    job.handler \in {"JTL", "CVT"} =>
        /\ stage # "error"
        /\ stage \in {"compress", "header"} /\ tile.enc = "RAW" => tile.bpc = 8

\* The chain of transforms hands every stage, and the encoder at its end,
\* a tile it can work on: a buffer of the right size, of a kind it takes.
EncoderInput == Shape /\ EncoderAccepts

\* The histogram is there whenever a stage reads it.  TLC refutes it: CVT
\* calculates none for a bilevel image, where equalization and stretching then
\* read an empty vector (CVT.cc: "getColourSpace() != BINARY").
HistogramAlways ==
    \/ stage = "equalize" /\ view.equalization
    \/ stage = "binary" /\ view.colourspace = "BINARY" /\ image.cs # "BINARY"
    \/ stage = "normalize" /\ view.contrast = -1
    => hist # <<>>

\* ... for every image but those, and for those too in JTL.
HistogramReady == (job.handler = "CVT" => image.cs # "BINARY") => HistogramAlways

\* The threshold divides the levels with the greatest variance between the
\* two classes of any division (threshold, Otsu's method).
OtsuBest ==
    stage = "binary" /\ hist # <<>> =>
        \A n \in Level : ~Greater(Variance(hist, n), Variance(hist, threshold(hist)))

\* The classes that binary() makes are those the threshold was chosen for.
\* TLC refutes it: threshold() counts its level with the dark class, binary()
\* ("< threshold") with the light one, so that a two-level image comes out white.
BinarySegments ==
    stage = "binary" /\ hist # <<>> =>
        \A n \in Level : ~Greater(Variance(hist, n), Variance(hist, threshold(hist) - 1))

\* Equalization keeps the order of the levels and stays within them, from the
\* darkest level of the thumbnail up (equalize: cdf, scale, cdfmin).
EqualizeOrdered ==
    stage = "equalize" /\ view.equalization /\ hist # <<>> =>
        LET table == equalization(hist, Pixels(tile)) IN
        \A v \in Lowest(hist) .. (Levels - 1) :
            /\ table[v] \in Level
            /\ v < Levels - 1 => table[v] <= table[v + 1]

\* What stretching, thresholding and equalization read is a histogram of the
\* image, and what they compute from it is a threshold and a table of grey
\* levels that do what their names say (requireHistogram, Transforms.cc).
HistogramUsed == HistogramReady /\ OtsuBest /\ EqualizeOrdered

\* What a request asks for, from its commands; COL and SHD are without effect
\* when their argument is not understood.
Understood(c) == ~(c.op = "COL" /\ c.v = "unknown") /\ ~(c.op = "SHD" /\ c.v < 2)
Asks(op) == {i \in 1 .. Ran : request.commands[i].op = op /\ Understood(request.commands[i])}
AsksFor(op, vs) ==
    Asks(op) # {} /\ request.commands[CHOOSE i \in Asks(op) :
                                          \A j \in Asks(op) : j <= i].v \in vs
Turns == Asks("ROT") \cup Asks("IIIF")
Turn == IF Turns = {} THEN [mirror |-> FALSE, angle |-> 0]
        ELSE request.commands[CHOOSE i \in Turns : TRUE].v
Quality(q) == \E i \in Asks("IIIF") : request.commands[i].v.quality = q

Done(name) == name \in ToSet(coded.done)
WantsGrey == AsksFor("COL", {"GREYSCALE"}) \/ Quality("grey")
WantsBinary == AsksFor("COL", {"BINARY"}) \/ Quality("bitonal")
AllBilevel ==
    \A n \in DOMAIN coded.buf : coded.buf[n] = Junk \/ coded.buf[n][2] = Bilevel

\* The contrast that is set when a reply is made: the last argument of CNT that
\* is not eq, and whether an earlier reply was made with it.
Contrasts == {i \in Asks("CNT") : request.commands[i].v # "eq"}
SetContrast(v) ==
    \E i \in Contrasts : request.commands[i].v = v /\ \A j \in Contrasts : j <= i
ContrastUsed ==
    \E i \in Contrasts, r \in 1 .. (Ran - 1) :
        /\ \A j \in Contrasts : j <= i
        /\ i < r /\ request.commands[r].op \in Outputs

\* The samples of every image a request sends have been through each of the
\* adjustments that its commands before it ask for, once, and through no
\* other: no combination of options makes a handler leave the path on which
\* the transforms of the others are (floatProcessing, the conditions of JTL
\* and CVT), nor does a transform return without an effect.  HonouredAlways
\* lists what is left out.
Honoured ==
    Complete /\ job.handler \in {"JTL", "CVT"} =>
        /\ Len(coded.done) = Cardinality(ToSet(coded.done))
        /\ Done("shade") <=> Asks("SHD") # {}
        /\ Done("twist") <=> Asks("CTW") # {}
        /\ Done("inv") <=> Asks("INV") # {}
        /\ Done("cmap") <=> AsksFor("CMP", {"jet"})
        /\ Done("log") <=> AsksFor("GAM", {"log"})
        /\ Done("gamma") <=> AsksFor("GAM", {"2"})
        /\ Done("contrast") <=> SetContrast("2")
        /\ Done("stretch") <=> SetContrast("st") /\ ~ContrastUsed
        /\ Done("equalize") <=> \E i \in Asks("CNT") : request.commands[i].v = "eq"
        /\ WantsGrey /\ image.cs = "sRGB" => coded.ch = 1 \/ (Format = "PNG" /\ coded.ch = 4)
        /\ WantsBinary /\ image.cs # "BINARY" => AllBilevel \/ coded.ch \in {2, 4} \/ ~tile.ok

\* ... with no exception.  TLC refutes it, for each of: a stretch is done in the
\* first reply that follows it only (JTL, CVT: "view->contrast = 1.0");
\* greyscale() returns at once on the four channels that PNG keeps, and
\* binary() reaches as many of their bytes as there are pixels; binary() is
\* called on an encoded tile (TransformsOnRaw).
HonouredAlways ==
    Complete /\ job.handler \in {"JTL", "CVT"} =>
        /\ SetContrast("st") => Done("stretch")
        /\ WantsGrey /\ image.cs = "sRGB" => coded.ch = 1
        /\ WantsBinary /\ image.cs # "BINARY" => AllBilevel

\* No transform is called on the bytes of an encoded tile.  TLC refutes it:
\* JTL asks for an encoded tile of a single-channel image of which a binary
\* view is wanted ("Request uncompressed tile if raw pixel data is required
\* for processing", JTL.cc), and binary() then thresholds the JPEG file.
TransformsOnRaw == tile.ok

\* The pixels of the image that pixel (i, j) of the resized image comes from.
Edge(i, size, rsize) == (i * size) % rsize # 0 /\ (i * size) \div rsize = size - 1
Source(i, j, rw, rh) ==
    LET ii == (i * image.w) \div rw
        jj == (j * image.h) \div rh
        two == job.method = "bilinear"
        right == IF two /\ (i * image.w) % rw # 0 THEN {0, 1} ELSE {0}
        below == IF two /\ (j * image.h) % rh # 0 THEN {0, 1} ELSE {0}
    IN  {(ii + x) + (jj + y) * image.w : x \in right, y \in below}

\* Pixel (x, y) of the output before it was turned: mirrored first, then
\* rotated clockwise.  w and h are the sizes before the turn.
Unturned(x, y, w, h) ==
    LET angle == Turn.angle % 360
        i == CASE angle = 90 -> y [] angle = 180 -> (w - 1) - x
               [] angle = 270 -> (w - 1) - y [] OTHER -> x
        j == CASE angle = 90 -> (h - 1) - x [] angle = 180 -> (h - 1) - y
               [] angle = 270 -> x [] OTHER -> y
    IN  <<IF Turn.mirror THEN (w - 1) - i ELSE i, j>>

\* The image that reaches the encoder has the size that was asked for, turned
\* with it, and every pixel where the request wants it: computed from the source pixels at its place and no others, after any
\* combination of resizing, mirroring, rotation and changes of the number of
\* channels, all rows once and in order.  Left out are: shading, which reads
\* three samples per pixel whatever there is and shares variables between
\* threads; channels beyond a colour twist's rows; 16 bit CIELAB; nearest
\* neighbour resizing in place of a wider or higher image; the right and the
\* bottom edge of a bilinear enlargement.
Aligned ==
    LET turned == Turn.angle % 180 = 90
        rw == IF job.handler # "CVT" THEN image.w ELSE request.commands[Ran].v.w
        rh == IF job.handler # "CVT" THEN image.h ELSE request.commands[Ran].v.h
    IN  /\ Complete /\ job.handler \in {"JTL", "CVT"}
        /\ Cardinality(Turns) <= 1
        /\ ~view.shaded /\ (view.ctw = <<>> \/ Len(view.ctw) >= image.ch)
        /\ ~(image.cs = "CIELAB" /\ image.bpc > 8)
        /\ job.method = "nearest" /\ (rw > image.w \/ rh > image.h)
              => rw * rh > image.w * image.h
        => /\ Len(coded.buf) = Samples(coded)
           /\ <<coded.w, coded.h>> = IF turned THEN <<rh, rw>> ELSE <<rw, rh>>
           /\ \A n \in 0 .. (Samples(coded) - 1) :
                 LET p == n \div coded.ch
                     at == Unturned(p % coded.w, p \div coded.w, rw, rh)
                 IN  \/ job.method = "bilinear"
                        /\ (Edge(at[1], image.w, rw) \/ Edge(at[2], image.h, rh))
                     \/ Read(coded.buf, n)[1] = Source(at[1], at[2], rw, rh)

\* An image is sent with a profile only if it is its own and no colour of it
\* was replaced, and by CVT only if it is small (View::embedICC, "Disable if
\* colour-mapping, twist, hill-shading or greyscale conversion applied"; CVT).
\* TLC refutes it: nothing takes a profile out of a compressor, so that a
\* colour-mapped or exported image carries the one that an earlier reply to the
\* same request has left there.
ProfileFits ==
    Complete /\ job.handler # "Ext" /\ compressors[Format].icc > 0 =>
        /\ compressors[Format].from = image.name
        /\ ~\E name \in {"cmap", "shade", "twist", "grey"} : Done(name)
        /\ job.handler = "CVT" => compressors[Format].icc < ProfileLimit

Whole == LET cx == compressors[Format] IN
         FlattenSeq(Stream(Format, cx.icc, cx.xmp, coded.h, image.noise))

\* The bytes of an encoded tile are those the encoder produced, in order, as
\* long as its buffer has to grow once at most and no transform was called on
\* the encoded tile (TransformsOnRaw).
EncodedOnceGrown ==
    Complete /\ job.handler = "JTL" /\ tile.ok =>
        LET cx == compressors[Format] IN
        Format = "PNG" \/ Growths(OutputSize(Format, coded, cx.icc, cx.xmp), Len(Whole)) < 2
            => sent = Whole

\* ... however often it grows.  TLC refutes it: the second time it does, the
\* count of free bytes and the next free byte no longer agree, and the file
\* gets bytes that nobody wrote.
EncodedIntact == Complete /\ job.handler = "JTL" /\ tile.ok => sent = Whole

\* CVT sends the header, every strip and the end of the file complete and in
\* order, as long as none of them is larger than the buffer for it.
StripsIntact ==
    Complete /\ job.handler = "CVT" /\ ~job.moved /\ ~job.released => sent = Whole

\* ... and always.  TLC refutes it: a strip that encodes to more than its pixels
\* and the margin makes the compressor release the buffer of CVT, which goes on
\* to send from it (CVT.cc: "output", JPEGCompressor.cc: "Swap buffers").
StripsAlways == Complete /\ job.handler = "CVT" => sent = Whole

\* The header of CVT fits the buffer that InitCompression allocates for it,
\* whatever metadata the image has and whatever profile of the size that CVT
\* embeds; an earlier reply may have left a larger one (ProfileFits).
HeaderFits ==
    stage = "strips" /\ job.strip = 0 /\ compressors[Format].icc < ProfileLimit => ~job.moved

\* What JTL and CVT send is the file that the encoder produced, whole and in
\* order, wherever the size of its buffer is not the limit and it is left
\* alone; and the header of an export does not reach that limit.
SentIntact == EncodedOnceGrown /\ StripsIntact /\ HeaderFits
=============================================================================
