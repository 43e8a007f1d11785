-------------------------------- MODULE View --------------------------------
(***************************************************************************)
(* The geometry of a request: class View (View.h, View.cc).  A View holds  *)
(* the wanted region as fractions of the image, the wanted output size, the *)
(* limit on the output size and the resolution level that serves them.     *)
(*                                                                         *)
(* A float fraction is an exact rational <<n, d>> with d > 0; the rounding *)
(* that the code performs with round(), floor() and casts is kept, the     *)
(* rounding of float arithmetic itself is not.  unsigned int values are    *)
(* numbers below WordSize.                                                 *)
(***************************************************************************)
EXTENDS Integers, FiniteSetsExt

CONSTANT WordSize   \* the number of values of an unsigned int

ASSUME WordSizeAssumption == WordSize \in Nat \ {0}

\* An int stored into an unsigned int.
Word(n) == n % WordSize

\* round() of a rational that is not negative.
Round(n, d) == (2 * n + d) \div (2 * d)

\* 2 to the power of k.
Pow2[k \in Nat] == IF k = 0 THEN 1 ELSE 2 * Pow2[k - 1]

\* k successive halvings rounded down: the size of a level k below the full one.
Half(n, k) == n \div Pow2[k]

\* How often a loop halves n while it is above m.
Halvings(n, m) ==
    CHOOSE k \in 0..n : Half(n, k) <= m /\ \A j \in 0..(k - 1) : Half(n, j) > m

\* View::View() and the settings that Main.cc applies to it before a request.
NewView(max, up) ==
    [left |-> <<0, 1>>, top |-> <<0, 1>>, width |-> <<1, 1>>, height |-> <<1, 1>>,
     imw |-> 0, imh |-> 0, max_resolutions |-> 0, resolution |-> 0,
     reqw |-> 0, reqh |-> 0, max_size |-> max, aspect |-> TRUE, upscale |-> up]

-----------------------------------------------------------------------------
(* Setters.                                                                *)

Above(x, y) == x[1] * y[2] > y[1] * x[2]

ClampFault(x) == IF x[1] < 0 THEN <<0, 1>> ELSE x

Clamp(x) == IF x[1] > x[2] THEN <<1, 1>> ELSE IF x[1] < 0 THEN <<0, 1>> ELSE x

setViewLeft(v, x) == [v EXCEPT !.left = Clamp(x)]

setViewTop(v, y) == [v EXCEPT !.top = Clamp(y)]

\* The width is cropped by the left edge.
setViewWidth(v, w) ==
    LET rest == <<v.left[2] - v.left[1], v.left[2]>>
    IN  [v EXCEPT !.width = Clamp(IF Above(w, rest) THEN rest ELSE w)]

\* The height is not cropped by the top edge here, only in getViewHeight.
setViewHeight(v, h) == [v EXCEPT !.height = Clamp(h)]

setImageSize(v, w, h) == [v EXCEPT !.imw = w, !.imh = h]

setMaxResolutions(v, r) == [v EXCEPT !.max_resolutions = r, !.resolution = r - 1]

viewPortSet(v) ==
    \/ v.width[1] < v.width[2]
    \/ v.height[1] < v.height[2]
    \/ v.left[1] > 0
    \/ v.top[1] > 0

-----------------------------------------------------------------------------
(* The resolution level that serves the request.                           *)

calculateResolutionFault(v, dimension, requested) ==
    LET rs == Max({requested, 1})
        drops == Halvings(dimension \div 2, rs)
    IN  [v EXCEPT !.resolution = Max({v.max_resolutions - 1 - drops - 1, 0})]

\* Every call starts from resolution 0, so of two calls the second decides.
calculateResolution(v, dimension, requested) ==
    LET rs == Max({requested, 1})
        drops == Halvings(dimension \div 2, rs - 1)
    IN  [v EXCEPT !.resolution = Max({v.max_resolutions - 1 - drops, 0})]

\* floor(requested / fraction) cast to unsigned int; the quotient by zero is
\* infinite and its cast gives 0 (x86-64).
Spread(requested, fraction) ==
    IF fraction[1] = 0 THEN 0 ELSE Word((requested * fraction[2]) \div fraction[1])

\* View::getScale for a level of size resw x resh.
getScale(v, resw, resh) ==
    LET rw == IF v.reqw = 0 /\ v.reqh > 0 THEN (resw * v.reqh) \div resh ELSE v.reqw
        rh == IF v.reqh = 0 /\ v.reqw > 0 THEN (resh * v.reqw) \div resw ELSE v.reqh
        byWidth == <<rw, v.imw>>
        byHeight == <<rh, resh>>
        scale == IF Above(byWidth, byHeight) THEN byHeight ELSE byWidth
    IN  IF scale[1] = 0 \/ scale[1] > scale[2] THEN <<1, 1>> ELSE scale

\* One dimension of the level, times the fraction of the view, times the scale.
Scaled(size, fraction, scale) ==
    <<size * fraction[1] * scale[1], fraction[2] * scale[2]>>

\* View::getResolution: the view with its resolution member updated.
getResolution(v) ==
    LET byWidth == IF v.reqw = 0 THEN v
                   ELSE calculateResolution(v, v.imw, Spread(v.reqw, v.width))
        byBoth  == IF v.reqh = 0 THEN byWidth
                   ELSE calculateResolution(byWidth, v.imh, Spread(v.reqh, v.height))
        resw  == Half(v.imw, v.max_resolutions - byBoth.resolution - 1)
        resh  == Half(v.imh, v.max_resolutions - byBoth.resolution - 1)
        scale == getScale(v, resw, resh)
        limit == <<v.max_size, 1>>
        wide  == Scaled(resw, v.width, scale)
        tall  == Scaled(resh, v.height, scale)
        larger == IF Above(Scaled(resw, v.width, <<1, 1>>), Scaled(resh, v.height, <<1, 1>>))
                  THEN wide ELSE tall
        dimension == larger[1] \div larger[2]
        steps == Halvings(dimension, v.max_size)
    IN  IF v.max_size > 0 /\ (Above(wide, limit) \/ Above(tall, limit))
        THEN [byBoth EXCEPT !.resolution = Max({@ - steps, 0})]
        ELSE byBoth

-----------------------------------------------------------------------------
(* The region in pixels of the chosen level.                               *)

Level(v) == v.max_resolutions - v.resolution - 1

\* Offsets scale the full image, extents scale the rounded size of the level.
Offset(size, start, k) == Round(size * start[1], start[2] * Pow2[k])

Extent(size, start, extent, k) ==
    LET level == Round(size, Pow2[k])
        e == Round(extent[1] * level, extent[2])
        s == Round(start[1] * level, start[2])
    IN  Max({IF e + s > level THEN level - s ELSE e, 1})

getViewLeft(v) == Offset(v.imw, v.left, Level(v))

getViewTop(v) == Offset(v.imh, v.top, Level(v))

getViewWidth(v) == Extent(v.imw, v.left, v.width, Level(v))

getViewHeight(v) == Extent(v.imh, v.top, v.height, Level(v))

\* A requested dimension, completed from the other one by an unsigned product,
\* and limited.
Limited(v, n) == IF v.max_size > 0 /\ n > v.max_size THEN v.max_size ELSE n

getRequestWidth(v) ==
    Limited(v, IF v.reqw # 0 THEN v.reqw
               ELSE IF v.reqh # 0 THEN Round(Word(getViewWidth(v) * v.reqh), getViewHeight(v))
               ELSE v.imw)

getRequestHeight(v) ==
    Limited(v, IF v.reqh # 0 THEN v.reqh
               ELSE IF v.reqw # 0 THEN Round(Word(getViewHeight(v) * v.reqw), getViewWidth(v))
               ELSE v.imh)
=============================================================================
