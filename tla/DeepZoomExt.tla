---------------------------- MODULE DeepZoomExt ----------------------------
(***************************************************************************)
(* The DeepZoom extension for several images (DeepZoomExt.cc, JTLExt.cc)   *)
(* on top of the pipeline of one image.  A request names several paths; a  *)
(* missing file has its place in the reply all the same: an entry of size  *)
(* zero in the description, a black tile in a joined image, an empty entry *)
(* in a zip archive.                                                       *)
(***************************************************************************)
EXTENDS Pipeline

VARIABLES index,        \* i, the number of the path in hand, from 1
          missing,      \* invalidPathIndices
          tiles,        \* compressedTiles: records [of, w, h]
          zip,          \* locals of sendZip: [i, compressedI, err, entries]
          reply         \* the answer: [kind, parts]

dzVars == <<index, missing, tiles, zip, reply>>
vars == <<pipeVars, dzVars>>

NoReply == [kind |-> "none", parts |-> <<>>]
NewZip == [i |-> 1, compressedI |-> 1, err |-> FALSE, entries |-> <<>>]
Empty == "empty"        \* what stands for a missing file

Init ==
    /\ PipeInit
    /\ index = 0 /\ missing = <<>> /\ tiles = <<>> /\ zip = NewZip
    /\ reply = NoReply

Paths == request.paths
isLast == index = Len(Paths)
Missing == missing # <<>> /\ missing[Len(missing)] = index

\* The suffix chooses the compressor, an unknown one none; an archive holds PNG
\* tiles.  The suffix of a description is cut off by the length of the argument
\* before /greyscale was removed from it, so that it stays on the last path.
RunDeepZoomExt ==
    /\ stage = "commands" /\ todo # <<>> /\ Head(todo).op = "DeepZoomExt"
    /\ LET c == Head(todo).v IN
       /\ view' = [view EXCEPT
                      !.colourspace = IF c.grey THEN "GREYSCALE" ELSE @,
                      !.output_format = CASE c.format = "jpg" -> "JPEG"
                                          [] c.format \in {"png", "zip"} -> "PNG"
                                          [] OTHER -> @]
       /\ job' = [NewJob EXCEPT !.handler = "Ext", !.method = c.format,
                                !.suffixed = c.grey /\ c.format = "dzi"]
    /\ stage' = "paths"
    /\ index' = 1
    /\ reply' = NoReply
    /\ UNCHANGED <<request, todo, image, hist, compressors, tile, coded, sent,
                   missing, tiles, zip>>

\* pathExists, then FIF, which may refuse the file.
NextPath ==
    /\ stage = "paths"
    /\ LET im == Paths[index]
           gone == im.kind = "missing" \/ (job.suffixed /\ isLast)
           refused == ~gone /\ im.kind = "unreadable"
       IN  /\ missing' = IF gone THEN Append(missing, index) ELSE missing
           /\ image' = IF gone \/ refused THEN image ELSE im
           /\ hist' = IF gone THEN hist ELSE <<>>
           /\ stage' = IF refused \/ Len(missing') = Len(Paths) THEN "error"
                       ELSE IF job.method = "dzi" THEN "describe"
                       ELSE IF ~gone THEN "fetch"
                       ELSE "answer"
    /\ UNCHANGED <<request, todo, view, compressors, job, tile, coded, sent,
                   index, tiles, zip, reply>>

\* One Image element for each path; the document goes out with the last.
Describe ==
    /\ stage = "describe"
    /\ reply' = [kind |-> IF isLast THEN "dzi" ELSE "none",
                 parts |-> Append(reply.parts, IF Missing THEN Empty ELSE image.name)]
    /\ stage' = IF isLast THEN "commands" ELSE "paths"
    /\ index' = IF isLast THEN index ELSE index + 1
    /\ todo' = IF isLast THEN Tail(todo) ELSE todo
    /\ UNCHANGED <<request, image, hist, view, compressors, job, tile, coded, sent,
                   missing, tiles, zip>>

PushTile ==
    /\ stage = "push"
    /\ tiles' = Append(tiles, [of |-> image.name, w |-> tile.w, h |-> tile.h])
    /\ stage' = "answer"
    /\ UNCHANGED <<request, todo, image, hist, view, compressors, job, tile, coded,
                   sent, index, missing, zip, reply>>

NextTile ==
    /\ stage = "answer" /\ ~isLast
    /\ index' = index + 1
    /\ stage' = "paths"
    /\ UNCHANGED <<request, todo, image, hist, view, compressors, job, tile, coded,
                   sent, missing, tiles, zip, reply>>

\* contains(), and the count of tiles used up by the paths before i.
Invalid(i) == \E n \in 1 .. Len(missing) : missing[n] = i
Used(i) == Cardinality({j \in 1 .. (i - 1) : ~Invalid(j)})

Joined(i) ==
    IF Invalid(i) THEN [of |-> Empty, w |-> tiles[1].w, h |-> tiles[1].h]
    ELSE tiles[Used(i) + 1]

\* JTL_Ext::send: one tile as it is, several joined from top to bottom.
Send ==
    /\ stage = "answer" /\ isLast /\ job.method \in {"jpg", "png"}
    /\ reply' = [kind |-> "image",
                 parts |-> [i \in 1 .. (Len(tiles) + Len(missing)) |->
                               IF Len(tiles) = 1 /\ missing = <<>> THEN tiles[1].of
                               ELSE Joined(i).of]]
    /\ stage' = "commands"
    /\ todo' = Tail(todo)
    /\ UNCHANGED <<request, image, hist, view, compressors, job, tile, coded, sent,
                   index, missing, tiles, zip>>

\* Without a compressor send() follows a null pointer, and the server is gone.
SendUnknown ==
    /\ stage = "answer" /\ isLast /\ job.method = "other"
    /\ stage' = "crash"
    /\ UNCHANGED <<request, todo, image, hist, view, compressors, job, tile, coded, sent,
                   dzVars>>

\* The writer opens, or does not and every entry stays empty.
StartZip ==
    /\ stage = "answer" /\ isLast /\ job.method = "zip"
    /\ stage' = "zip"
    /\ \E err \in BOOLEAN : zip' = [NewZip EXCEPT !.err = err]
    /\ UNCHANGED <<request, todo, image, hist, view, compressors, job, tile, coded,
                   sent, index, missing, tiles, reply>>

AddEntryStuck(outcome) == IF zip.err THEN zip ELSE
    [zip EXCEPT !.i = @ + 1, !.err = outcome # "done",
                !.compressedI = IF Invalid(zip.i) THEN @ ELSE @ + 1]

AddEntryFault(outcome) ==
    LET z == [zip EXCEPT !.i = @ + 1]
        err == outcome = "open"
    IN  IF err THEN z
        ELSE [z EXCEPT !.entries = Append(@, [name |-> zip.i, of |->
                           IF Invalid(zip.i) THEN Empty ELSE tiles[zip.compressedI].of]),
                       !.compressedI = IF Invalid(zip.i) THEN @ ELSE @ + 1]

\* One turn of the loop of sendZip.  The result of opening the entry is
\* compared with err and not kept, so that what counts is whether the entry
\* before it was closed.  Outcomes: every call succeeds, the entry cannot be
\* opened (nor then be closed), or it cannot be closed.
AddEntry(outcome) ==
    LET z == [zip EXCEPT !.i = @ + 1]
        content == IF Invalid(zip.i) THEN Empty ELSE tiles[zip.compressedI].of
        entry(of) == IF outcome = "open" THEN zip.entries
                     ELSE Append(zip.entries, [name |-> zip.i, of |-> of])
    IN  IF zip.err THEN [z EXCEPT !.entries = entry(Empty)]
        ELSE [z EXCEPT !.entries = entry(content),
                       !.compressedI = IF Invalid(zip.i) THEN @ ELSE @ + 1,
                       !.err = outcome # "done"]

ZipEntry ==
    /\ stage = "zip" /\ zip.i <= Len(tiles) + Len(missing)
    /\ \E outcome \in {"done", "open", "close"} : zip' = AddEntry(outcome)
    /\ UNCHANGED <<pipeVars, index, missing, tiles, reply>>

SendZip ==
    /\ stage = "zip" /\ zip.i > Len(tiles) + Len(missing)
    /\ reply' = [kind |-> "zip", parts |-> zip.entries]
    /\ stage' = "commands"
    /\ todo' = Tail(todo)
    /\ UNCHANGED <<request, image, hist, view, compressors, job, tile, coded, sent,
                   index, missing, tiles, zip>>

Finished == stage \in {"error", "crash"} \/ (stage = "commands" /\ todo = <<>>)

\* The server waits for the next request, which has a Session of its own.
Idle == Finished /\ UNCHANGED vars

Next ==
    \/ PipeNext /\ UNCHANGED dzVars
    \/ RunDeepZoomExt \/ NextPath \/ Describe \/ PushTile \/ NextTile
    \/ Send \/ SendUnknown \/ StartZip \/ ZipEntry \/ SendZip
    \/ Idle

Spec == Init /\ [][Next]_vars
FairSpec == Spec /\ WF_vars(Next)

(***************************************************************************)
(* Properties                                                              *)
(***************************************************************************)
\* What path i is to stand for in the reply.
Place(i) == IF Paths[i].kind = "missing" THEN Empty ELSE Paths[i].name

\* A joined image and a description have one part for each path of the
\* request, in the order of the paths, with a blank where the file is missing
\* (JTL_Ext::send, sendExistingFileResponse, sendMissingFileResponse).  Left out
\* is the last path of a /greyscale description (DescribedAlways).
InPathOrder ==
    reply.kind \in {"dzi", "image"} =>
        /\ Len(reply.parts) = Len(Paths)
        /\ \A i \in 1 .. Len(Paths) :
               reply.parts[i] = Place(i) \/ (job.suffixed /\ i = Len(Paths))

\* Every file that is there is described by its size.  TLC refutes it: the last
\* path of a /greyscale description still ends in .dzi when it is looked up
\* (DeepZoomExt.cc: "argument.length() - 4").
DescribedAlways ==
    reply.kind = "dzi" => \A i \in 1 .. Len(Paths) : reply.parts[i] = Place(i)

\* A tile is never sent without a compressor.  TLC refutes it: of a suffix that
\* is none of jpg, png and zip nothing is said until send() asks the compressor
\* for its type (DeepZoomExt.cc: "Set correct compressor").
CompressorChosen == stage # "crash"

\* Whatever entries of the archive fail to be opened or closed, an entry that
\* has content has the tile of the path its name numbers (sendZip: the count
\* of tiles used and the loop counter do not drift apart).
EntriesMatchPaths ==
    reply.kind = "zip" =>
        \A n \in 1 .. Len(reply.parts) :
            reply.parts[n].of \in {Empty, Place(reply.parts[n].name)}

\* Whatever the form of the answer and whichever files are missing, no path
\* gets the tile or the size of another one (the two counters of JTLExt.cc).
PartsMatchPaths == InPathOrder /\ EntriesMatchPaths

\* A tile is encoded without the profile of another image.  TLC refutes it:
\* setICCProfile is only called for an image that has a profile, so the tile
\* of a later path without one carries the profile of an earlier path
\* (JTLExt.cc: "Embed ICC profile").
ProfileOfImage ==
    stage = "push" =>
        LET cx == compressors[Format] IN cx.icc > 0 => cx.from = image.name

\* Every request is answered or fails; a handler always comes to its end, be it
\* the null pointer of CompressorChosen.
RequestServed == []<>Finished
============================================================================
