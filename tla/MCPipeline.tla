----------------------------- MODULE MCPipeline -----------------------------
(* Small images of every kind the handlers tell apart, and the requests on *)
(* them: every option alone and in pairs for JTL, PTL and CVT, resized and *)
(* turned exports, every small histogram, and DeepZoomExt requests for up  *)
(* to three paths.                                                         *)
EXTENDS DeepZoomExt

Img(name, w, h, ch, bpc, cs, icc, noise) ==
    [name |-> name, kind |-> "image", w |-> w, h |-> h, ch |-> ch, bpc |-> bpc, cs |-> cs,
     icc |-> icc, xmp |-> IF icc = 0 THEN 0 ELSE 2, noise |-> noise,
     thumb |-> <<[k \in 1 .. ch |-> 0], [k \in 1 .. ch |-> k % 4], [k \in 1 .. ch |-> 3]>>]

Absent == [Img("absent", 1, 1, 1, 8, "GREYSCALE", 0, 1) EXCEPT !.kind = "missing"]
Broken == [Img("broken", 1, 1, 1, 8, "GREYSCALE", 0, 1) EXCEPT !.kind = "unreadable"]

grey8 == Img("grey8", 3, 3, 1, 8, "GREYSCALE", 0, 2)
rgb8 == Img("rgb8", 3, 2, 3, 8, "sRGB", 5, 2)
rgba8 == Img("rgba8", 2, 3, 4, 8, "sRGB", 13, 2)
lab8 == Img("lab8", 2, 2, 3, 8, "CIELAB", 0, 1)
alpha16 == Img("alpha16", 2, 2, 2, 16, "GREYSCALE", 0, 1)
bands16 == Img("bands16", 2, 1, 5, 16, "sRGB", 3, 1)
float32 == Img("float32", 2, 2, 1, 32, "GREYSCALE", 0, 1)
bilevel == Img("bilevel", 3, 2, 1, 1, "BINARY", 0, 1)
noisy == Img("noisy", 3, 3, 1, 8, "GREYSCALE", 0, 6)
loud == Img("loud", 3, 3, 1, 8, "GREYSCALE", 0, 9)
tiny == Img("tiny", 1, 1, 1, 8, "GREYSCALE", 0, 1)

Opened == {grey8, rgb8, rgba8, lab8, alpha16, bands16, float32, bilevel, noisy, tiny}

Cmd(op, v) == [op |-> op, v |-> v]
Rot(m, a) == Cmd("ROT", [mirror |-> m, angle |-> a])
Cvt(f, w, h, m) == Cmd("CVT", [format |-> f, w |-> w, h |-> h, method |-> m])
Dzx(f, g) == Cmd("DeepZoomExt", [format |-> f, grey |-> g])

Options1 == <<Cmd("CNT", "eq"), Cmd("CNT", "st"), Cmd("CNT", "2"), Cmd("GAM", "log"),
              Cmd("GAM", "2"), Cmd("SHD", 2), Cmd("SHD", 1), Cmd("CMP", "jet"),
              Cmd("CMP", "unknown"), Cmd("INV", ""), Cmd("CTW", <<3, 3, 3>>), Cmd("CTW", <<2>>),
              Cmd("COL", "GREYSCALE"), Cmd("COL", "BINARY"), Cmd("COL", "unknown"),
              Rot(FALSE, 90), Rot(TRUE, 180)>>
Turnings == {Rot(m, a) : m \in BOOLEAN, a \in {0, 90, 180, 270, 360}}

OptionLists ==
    {<<>>} \cup {<<Options1[i]>> : i \in DOMAIN Options1}
    \cup {<<Options1[p[1]], Options1[p[2]]>> :
              p \in {q \in (DOMAIN Options1) \X (DOMAIN Options1) : q[1] < q[2]}}

SameSize(im, f) == Cvt(f, im.w, im.h, "bilinear")

Plain == {[paths |-> <<im>>, commands |-> Append(o, out)] :
             im \in Opened, o \in OptionLists, out \in {Cmd("JTL", ""), Cmd("PTL", "")}}
Exports == {[paths |-> <<im>>, commands |-> Append(o, SameSize(im, "JPEG"))] :
             im \in Opened, o \in OptionLists}
Resized == {[paths |-> <<im>>, commands |-> <<t, Cvt(f, w, h, m)>>] :
             im \in {grey8, rgb8}, t \in Turnings \cup {Cmd("INV", "")}, f \in {"JPEG", "PNG"},
             w \in {1, 2, 3, 5}, h \in {1, 2, 4}, m \in {"nearest", "bilinear"}}
Twice == {[paths |-> <<im>>, commands |-> <<o, Cmd("JTL", ""), Cmd("CMP", "jet"), Cmd("JTL", "")>>] :
             im \in {rgb8, float32}, o \in ToSet(Options1)}
Both == {[paths |-> <<im>>, commands |-> <<o, Cmd("JTL", ""), SameSize(im, "JPEG")>>] :
             im \in {grey8, rgb8, rgba8}, o \in ToSet(Options1)}
Loud == {[paths |-> <<loud>>, commands |-> <<out>>] :
             out \in {Cmd("JTL", ""), Cmd("PTL", ""), SameSize(loud, "JPEG"),
                      SameSize(loud, "PNG")}}

Iiif == {[paths |-> <<im>>, commands |-> <<Cmd("IIIF",
             [mirror |-> m, angle |-> a, quality |-> q, format |-> f, tile |-> t,
              w |-> 4, h |-> 2, method |-> "bilinear"])>>] :
             im \in {grey8, rgb8}, m \in BOOLEAN, a \in {0, 90, 180, 270, 360},
             q \in {"default", "grey", "bitonal"}, f \in {"JPEG", "PNG"}, t \in BOOLEAN}

Sorted == {t \in UNION {[1 .. n -> 0 .. 3] : n \in 1 .. 4} :
              \A i \in 1 .. (Len(t) - 1) : t[i] <= t[i + 1]}
Thumbs == {[paths |-> <<[grey8 EXCEPT !.thumb = [i \in DOMAIN t |-> <<t[i]>>]]>>,
            commands |-> <<o, SameSize(grey8, "PNG")>>] :
             t \in Sorted, o \in {Cmd("CNT", "eq"), Cmd("COL", "BINARY"), Cmd("CNT", "st")}}

PathLists == UNION {[1 .. n -> {grey8, rgb8, Absent}] : n \in 1 .. 3}
             \cup [1 .. 2 -> {rgb8, alpha16, bands16, Broken, Absent}]
Several == {[paths |-> p, commands |-> <<Dzx(f, g)>>] :
             p \in PathLists, f \in {"dzi", "jpg", "png", "zip"}, g \in BOOLEAN}
           \cup {[paths |-> p, commands |-> <<Dzx("other", g)>>] :
             p \in [1 .. 2 -> {rgb8, Absent}], g \in BOOLEAN}

MCWorkload == Plain \cup Exports \cup Resized \cup Twice \cup Both \cup Loud \cup Iiif \cup Thumbs \cup Several
=============================================================================
