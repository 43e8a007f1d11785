----------------------------- MODULE Transforms -----------------------------
(***************************************************************************)
(* The image transforms (Transforms.cc) as functions of a RawTile.  A tile *)
(* is a record [w, h, ch, bpc, enc, ok, done, buf]: buf holds the samples  *)
(* that dataLength counts, pixel by pixel; done is history, the            *)
(* adjustments its samples have been through.  A sample is <<pixels,       *)
(* kind>>: the set of source pixels it was computed from, and the channel  *)
(* it was read from or what has been made of it.  The values themselves    *)
(* matter only for the histogram and what is derived from it, below.       *)
(***************************************************************************)
EXTENDS Integers, Sequences, SequencesExt, FiniteSets, FiniteSetsExt

CONSTANT Levels         \* the number of levels of an 8 bit sample, 256

ASSUME LevelsAssumption == Levels \in Nat \ {0, 1}

Mixed == 9              \* computed from several samples
Bilevel == 8            \* compared with the threshold
Junk == <<{}, -1>>      \* memory that was never written, or beyond the buffer

Pixels(t) == t.w * t.h
Samples(t) == t.w * t.h * t.ch
Read(buf, n) == IF n < Len(buf) THEN buf[n + 1] ELSE Junk
Fill(n, Value(_)) == [i \in 1 .. n |-> Value(i - 1)]

\* The result of arithmetic on several samples.
Blend(samples) ==
    IF Junk \in samples THEN Junk
    ELSE <<UNION {s[1] : s \in samples}, Mixed>>

\* A tile as the decoders hand it over: 1 bit images are unpacked to 8 bits.
RawTile(w, h, ch, bpc) ==
    [w |-> w, h |-> h, ch |-> ch, bpc |-> IF bpc <= 8 THEN 8 ELSE bpc,
     enc |-> "RAW", ok |-> TRUE, done |-> <<>>,
     buf |-> Fill(w * h * ch, LAMBDA n : <<{n \div ch}, n % ch>>)]

(***************************************************************************)
(* The floating point pipeline                                             *)
(***************************************************************************)
\* ranges is the length of the min and max vectors.
normalize(t, ranges) ==
    [t EXCEPT !.bpc = 32,
              !.buf = Fill(Len(t.buf), LAMBDA n :
                          IF n % t.ch < ranges THEN Read(t.buf, n) ELSE Junk)]

\* The samples are read in threes whatever the number of channels.  The light
\* vector o_x, o_y, o_z is shared by the threads of the parallel loop, so the
\* result is that of the pixel or that of whatever the others left there.
shades(t) ==
    LET of(b) == [t EXCEPT !.ch = 1, !.buf = b] IN
    {of(Fill(Pixels(t), LAMBDA k : Blend({Read(t.buf, 3 * k + j) : j \in 0 .. 2}))),
     of(Fill(Pixels(t), LAMBDA k : Junk))}

\* matrix is the sequence of its rows' lengths; the channels beyond its rows
\* take whatever the new pixel array holds.
twist(t, matrix) ==
    [t EXCEPT !.buf = [i \in 1 .. Len(t.buf) |->
        LET n == i - 1
            k == n % t.ch
        IN  IF n >= Samples(t) THEN t.buf[i]
            ELSE IF k >= Len(matrix) THEN Junk
            ELSE Blend({Read(t.buf, (n - k) + j) :
                           j \in 0 .. (Min({matrix[k + 1], t.ch}) - 1)})]]

\* One input sample per pixel gives three; the buffer has room for three per
\* input sample, and dataLength says so.
cmap(t) ==
    LET ndata == Len(t.buf) IN
    [t EXCEPT !.ch = 3,
              !.buf = Fill(3 * ndata, LAMBDA n :
                  LET p == n \div 3 IN
                  IF p * t.ch < ndata THEN Blend({Read(t.buf, p * t.ch)}) ELSE Junk)]

contrastFault(t) == [t EXCEPT !.bpc = 8]

contrast(t) ==
    [t EXCEPT !.bpc = 8, !.buf = Fill(Samples(t), LAMBDA n : Read(t.buf, n))]

(***************************************************************************)
(* Resizing                                                                *)
(***************************************************************************)
\* Row by row, in place unless the output has more pixels than the input: a
\* source that the output has already reached holds an output pixel by then.
interpolate_nearestneighbour(t, rw, rh) ==
    LET source(p) == ((p % rw) * t.w) \div rw + (((p \div rw) * t.h) \div rh) * t.w
        inPlace == rw * rh <= Pixels(t)
        origin[p \in 0 .. (rw * rh - 1)] ==
            IF inPlace /\ source(p) < p THEN origin[source(p)] ELSE source(p)
    IN  [t EXCEPT !.w = rw, !.h = rh,
                  !.buf = Fill(rw * rh * t.ch, LAMBDA n :
                              Read(t.buf, origin[n \div t.ch] * t.ch + (n % t.ch)))]

\* The four samples around a point, those of weight zero left out; an index
\* beyond the last pixel is replaced by the last pixel.
interpolate_bilinear(t, rw, rh) ==
    LET value(n) ==
            LET k == n % t.ch
                i == (n \div t.ch) % rw
                j == (n \div t.ch) \div rw
                ii == (i * t.w) \div rw
                jj == (j * t.h) \div rh
                right == IF (i * t.w) % rw = 0 THEN {0} ELSE {0, 1}
                below == IF (j * t.h) % rh = 0 THEN {0} ELSE {0, 1}
                at(x, y) == Min({(ii + x) + (jj + y) * t.w, Pixels(t) - 1})
            IN  Blend({Read(t.buf, at(x, y) * t.ch + k) : x \in right, y \in below})
    IN  [t EXCEPT !.w = rw, !.h = rh, !.buf = Fill(rw * rh * t.ch, value)]

(***************************************************************************)
(* The 8 bit pipeline                                                      *)
(***************************************************************************)
\* In place and byte by byte, so of use to 8 bit samples only.
flatten(t, bands) ==
    IF bands >= t.ch THEN t
    ELSE [t EXCEPT !.ch = bands,
                   !.buf = Fill(Pixels(t) * bands, LAMBDA n :
                       IF t.bpc = 8
                       THEN Read(t.buf, (n \div bands) * t.ch + (n % bands))
                       ELSE Junk)]

\* Byte by byte too; a fourth channel is left alone.
LAB2sRGB(t) ==
    [t EXCEPT !.buf = Fill(Len(t.buf), LAMBDA n :
        IF n % t.ch > 2 THEN Read(t.buf, n)
        ELSE IF t.bpc # 8 THEN Junk
        ELSE Blend({Read(t.buf, (n - (n % t.ch)) + j) : j \in 0 .. 2}))]

greyscale(t) ==
    IF t.bpc # 8 \/ t.ch # 3 THEN t
    ELSE [t EXCEPT !.ch = 1, !.done = Append(@, "grey"),
                   !.buf = Fill(Pixels(t), LAMBDA p :
                               Blend({Read(t.buf, 3 * p + j) : j \in 0 .. 2}))]

\* As many bytes as there are pixels.
binary(t) ==
    LET g == greyscale(t) IN
    IF t.bpc # 8 THEN t
    ELSE [g EXCEPT !.buf = [i \in 1 .. Len(g.buf) |->
             IF i <= Pixels(g) /\ g.buf[i] # Junk THEN <<g.buf[i][1], Bilevel>>
             ELSE g.buf[i]]]

\* The tile of size w x h whose pixel (x, y) is that of t at from[x, y].
Moved(t, w, h, from) ==
    [t EXCEPT !.w = w, !.h = h,
              !.buf = Fill(Samples(t), LAMBDA n :
                  LET p == n \div t.ch IN
                  Read(t.buf, from[p % w, p \div w] * t.ch + (n % t.ch)))]

flip(t, orientation) ==
    Moved(t, t.w, t.h, [x \in 0 .. (t.w - 1), y \in 0 .. (t.h - 1) |->
        IF orientation = 2 THEN x + t.w * ((t.h - 1) - y)
        ELSE ((t.w - 1) - x) + t.w * y])

rotateFault(t, angle) ==
    IF angle % 360 = 90
    THEN Moved(t, t.h, t.w, [x \in 0 .. (t.h - 1), y \in 0 .. (t.w - 1) |->
                                t.w * x + ((t.w - 1) - y)])
    ELSE t

rotate(t, angle) ==
    LET Turned(from) == Moved(t, t.h, t.w, from)
        X == 0 .. (t.h - 1)
        Y == 0 .. (t.w - 1)
    IN  IF angle % 90 # 0 \/ angle % 360 = 0 THEN t
        ELSE IF angle % 360 = 90
        THEN Turned([x \in X, y \in Y |-> t.w * ((t.h - 1) - x) + y])
        ELSE IF angle % 360 = 270
        THEN Turned([x \in X, y \in Y |-> t.w * x + ((t.w - 1) - y)])
        ELSE Moved(t, t.w, t.h, [x \in Y, y \in X |-> (Pixels(t) - 1) - (x + t.w * y)])

(***************************************************************************)
(* The histogram and what is derived from it.  A histogram is a function   *)
(* of the levels; fractions are pairs <<numerator, denominator>>.          *)
(***************************************************************************)
Level == 0 .. (Levels - 1)
Total(f, S) == FoldSet(LAMBDA v, sum : f[v] + sum, 0, S)

\* thumb is a sequence of pixels, each the sequence of its channels' values,
\* already scaled to 8 bits; a pixel counts with the average of its channels.
histogram(thumb) ==
    LET average(px) == (2 * FoldLeft(+, 0, px) + Len(px)) \div (2 * Len(px))
    IN  [v \in Level |-> Cardinality({i \in 1 .. Len(thumb) : average(thumb[i]) = v})]

\* The variance between the levels up to n and the levels above n.
Variance(hist, n) ==
    LET weighted == [v \in Level |-> v * hist[v]]
        wb == Total(hist, 0 .. n)
        wf == Total(hist, (n + 1) .. (Levels - 1))
        d == Total(weighted, 0 .. n) * wf - Total(weighted, (n + 1) .. (Levels - 1)) * wb
    IN  IF wb = 0 \/ wf = 0 THEN <<0, 1>> ELSE <<d * d, wb * wf>>

Greater(a, b) == a[1] * b[2] > b[1] * a[2]

\* The loop's running sums: wb and sumb of the levels so far.
threshold(hist) ==
    LET np == Total(hist, Level)
        sum == Total([v \in Level |-> v * hist[v]], Level)
        step(s, n) ==
            LET wb == s.wb + hist[n]
                wf == np - wb
                sumb == s.sumb + n * hist[n]
                d == sumb * wf - (sum - sumb) * wb
                diff == <<d * d, wb * wf>>
            IN  IF s.stop \/ wb = 0 THEN [s EXCEPT !.wb = wb]
                ELSE IF wf = 0 THEN [s EXCEPT !.stop = TRUE]
                ELSE [s EXCEPT !.wb = wb, !.sumb = sumb,
                               !.max = IF Greater(diff, s.max) THEN diff ELSE s.max,
                               !.otsu = IF Greater(diff, s.max) THEN n ELSE s.otsu]
    IN  FoldLeft(step, [wb |-> 0, sumb |-> 0, max |-> <<0, 1>>, otsu |-> 0, stop |-> FALSE],
                 [i \in 1 .. Levels |-> i - 1]).otsu

Lowest(hist) == Min({v \in Level : hist[v] > 0})
Highest(hist) == CHOOSE v \in Level :
                     hist[v] > 0 /\ \A u \in Level : hist[u] > 0 => u <= v

\* round(a / b) for a positive b: half away from zero.
RoundDiv(a, b) ==
    IF a >= 0 THEN (2 * a + b) \div (2 * b) ELSE -((2 * (-a) + b) \div (2 * b))

\* The table equalize() maps a tile of np pixels through.  cdfmin is divided
\* by the size of this tile, the counts are those of the thumbnail.
equalization(hist, np) ==
    LET total == Total(hist, Level)
        cdf(v) == Total(hist, 0 .. v)
    IN  [v \in Level |-> RoundDiv((Levels - 1) * (cdf(v) * np - cdf(Lowest(hist))),
                                  total * np)]
=============================================================================
