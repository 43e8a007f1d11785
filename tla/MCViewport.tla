----------------------------- MODULE MCViewport -----------------------------
(***************************************************************************)
(* Small images: square and oblong tiles, sizes that are and are not        *)
(* multiples of the tile, odd sizes whose levels round, one level and three.*)
(***************************************************************************)
EXTENDS Viewport

Img(w, h, tw, th, n) == [w |-> w, h |-> h, tw |-> tw, th |-> th, levels |-> n]

MCImages == {Img(9, 7, 2, 2, 3), Img(8, 8, 4, 4, 3), Img(7, 11, 4, 3, 2), Img(5, 3, 4, 4, 1)}

MCMaxSizes == {-1, 5, 100}

MCRgnArgs ==
    {<< <<0, 1>>, <<0, 1>>, <<1, 2>>, <<1, 2>> >>,
     << <<1, 4>>, <<1, 3>>, <<1, 2>>, <<1, 1>> >>,
     << <<3, 4>>, <<2, 3>>, <<3, 4>>, <<1, 6>> >>,
     << <<5, 4>>, <<-1, 4>>, <<1, 4>>, <<5, 4>> >>,
     << <<9, 10>>, <<1, 1>>, <<1, 10>>, <<1, 10>> >>,
     << <<0, 1>>, <<0, 1>>, <<0, 1>>, <<1, 1>> >>}

MCIiifRegions ==
    [kind : {"full", "square"}, v : {<<0, 0, 0, 0>>}]
    \cup [kind : {"pixels"}, v : {<<0, 0, 4, 4>>, <<4, 4, 4, 4>>, <<2, 0, 3, 9>>,
                                  <<4, 2, 2, 2>>, <<1, 1, 0, 3>>, <<6, 5, 8, 8>>}]
    \cup [kind : {"percent"}, v : {<<50, 0, 50, 50>>, <<10, 90, 30, 20>>}]

MCIiifSizes ==
    [kind : {"max"}, w : {0}, h : {0}, caret : BOOLEAN]
    \cup [kind : {"pct"}, w : {0, 50, 150}, h : {0}, caret : BOOLEAN]
    \cup [kind : {"within", "exact"}, w : {2, 4, 9}, h : {2, 4}, caret : BOOLEAN]
    \cup [kind : {"w", "h"}, w : {1, 4, 10}, h : {1, 4, 10}, caret : {FALSE}]
=============================================================================
