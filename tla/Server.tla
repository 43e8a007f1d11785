------------------------------- MODULE Server --------------------------------
(****************************************************************************)
(* The request loop of src/Main.cc: a request is answered from memcached or *)
(* by running its commands, each of which may write to the client, add to   *)
(* the IIPResponse or throw; exceptions become replies; what was written is *)
(* stored in memcached; the image and the task are deleted at the end.      *)
(*                                                                          *)
(* What a request asks for is left open: its commands are any sequence, of  *)
(* the kinds below, and a reply is the sequence of the parts it is made of. *)
(* A request whose commands need an image has an FIF command before them,   *)
(* except where the command checks for it.                                  *)
(****************************************************************************)
EXTENDS Integers, Sequences

CONSTANTS Query,        \* request strings
          MaxCommands,  \* bound on the commands of a request
          MaxImages,    \* bound on the images that are not deleted
          NULL

ASSUME BoundAssumption == MaxCommands \in Nat /\ MaxImages \in Nat

(* What Task::factory makes: FIF; the commands that only set the View or    *)
(* the compressors; OBJ; the commands that send an image or a profile (JTL, *)
(* CVT, TIL, PFL, SPECTRA); and those of other protocols, which open their  *)
(* images themselves (Zoomify, DeepZoom, DeepZoomExt, IIIF).                *)
TaskKind == {"FIF", "view", "OBJ", "image", "protocol"}

Exception == {"304", "100", "string", "file_error", "invalid_argument",
              "bad_alloc", "other"}

(* The reply of a catch clause: a status line, or the banner. *)
Status == {"304", "404", "400", "500", "banner"}
Part == {"header", "content", "info", "iip", "error"} \cup Status

(* class IIPResponse *)
Response == [error : BOOLEAN, body : BOOLEAN, sent : BOOLEAN, cachable : BOOLEAN]

ASSUME NullAssumption == NULL \notin Query \cup TaskKind \cup Exception

VARIABLES pc,
          query,        \* the request string
          since,        \* the If-Modified-Since header: none, empty or a date
          count,        \* the commands run so far
          task,
          exception,    \* the exception being thrown
          image,        \* whether *session.image is set
          live,         \* the images allocated and not deleted
          response,
          out,          \* writer.buffer, which is also what the client gets
          memcached

vars == <<pc, query, since, count, task, exception, image, live,
          response, out, memcached>>

isSet == response.error \/ response.body

-----------------------------------------------------------------------------
Init ==
  /\ pc = "wait"
  /\ query = NULL /\ since = "none" /\ count = 0
  /\ task = NULL /\ exception = NULL /\ image = FALSE /\ live = 0
  /\ response = [error |-> FALSE, body |-> FALSE, sent |-> FALSE, cachable |-> TRUE]
  /\ out = <<>>
  /\ memcached = [q \in {} |-> <<>>]

(* FCGX_Accept_r, and the headers of the request. *)
Accept(q) ==
  /\ pc = "wait"
  /\ query' = q /\ since' \in {"none", "empty", "date"}
  /\ pc' = "lookup"
  /\ UNCHANGED <<count, task, exception, image, live, response, out, memcached>>

Throw(e) == exception' = e /\ pc' = "catch"

(* There is neither a query nor a POST body. *)
AcceptEmpty ==
  /\ pc = "wait"
  /\ Throw("string")
  /\ UNCHANGED <<query, since, count, task, image, live, response, out,
                 memcached>>

(* A memcached hit, tried for requests without a date of modification. *)
MemcachedHit ==
  /\ pc = "lookup" /\ since # "date" /\ query \in DOMAIN memcached
  /\ out' = memcached[query]
  /\ Throw("100")
  /\ UNCHANGED <<query, since, count, task, image, live, response, memcached>>

MemcachedMiss ==
  /\ pc = "lookup" /\ (since = "date" \/ query \notin DOMAIN memcached)
  /\ pc' = "commands"
  /\ UNCHANGED <<query, since, count, task, exception, image, live,
                 response, out, memcached>>

-----------------------------------------------------------------------------
(* Fault: the loop does not go on to the next command. *)
CreateTaskAgain(k) ==
  /\ pc = "commands" /\ count < MaxCommands
  /\ task' = k
  /\ pc' = "run"
  /\ UNCHANGED <<query, since, count, exception, image, live, response,
                 out, memcached>>

(* Task::factory *)
CreateTask(k) ==
  /\ pc = "commands" /\ count < MaxCommands
  /\ count' = count + 1
  /\ task' = k
  /\ pc' = "run"
  /\ UNCHANGED <<query, since, exception, image, live, response, out, memcached>>

(* A command that the factory does not know. *)
Unsupported ==
  /\ pc = "commands" /\ count < MaxCommands
  /\ count' = count + 1
  /\ response' = [response EXCEPT !.error = TRUE]
  /\ UNCHANGED <<pc, query, since, task, exception, image, live, out, memcached>>

(* task->run returns, and the task is deleted. *)
Return == task' = NULL /\ pc' = "commands"

RunView ==
  /\ pc = "run" /\ task = "view"
  /\ Return
  /\ UNCHANGED <<query, since, count, exception, image, live, response,
                 out, memcached>>

(* A task that calls FIF::run, "more" if it has done so before. *)
Opens == pc \in {"run", "more"} /\ task \in {"FIF", "protocol"} /\ live < MaxImages

(* FIF::run: *session->image is overwritten with a new image.  A protocol   *)
(* task goes on: to another image, to the content, or to an info.json.      *)
OpenImage ==
  /\ Opens
  /\ image' = TRUE /\ live' = live + 1
  /\ \/ task = "FIF" /\ Return
     \/ task = "protocol" /\ task' = "image" /\ pc' = "run"
     \/ task = "protocol" /\ task' = task /\ pc' \in {"more", "info"}
  /\ UNCHANGED <<query, since, count, exception, response, out, memcached>>

(* FIF::run throws: the file is of an unsupported type, which is found      *)
(* before the image is made; it cannot be opened, which may be found before *)
(* or after; or it is not modified, which is any answer if the header is    *)
(* not a date (mod_t is not initialized).                                   *)
OpenFails ==
  /\ Opens
  /\ \/ Throw("string") /\ UNCHANGED <<image, live, response>>
     \/ /\ Throw("file_error")
        /\ response' = [response EXCEPT !.error = TRUE]
        /\ \/ UNCHANGED <<image, live>>
           \/ image' = TRUE /\ live' = live + 1
     \/ /\ since # "none" /\ Throw("304")
        /\ image' = TRUE /\ live' = live + 1
        /\ UNCHANGED response
  /\ UNCHANGED <<query, since, count, task, out, memcached>>

(* checkImage() *)
ImageNotSet ==
  /\ pc = "run" /\ task \in {"OBJ", "image"} /\ ~ image
  /\ response' = [response EXCEPT !.error = TRUE]
  /\ Throw("string")
  /\ UNCHANGED <<query, since, count, task, image, live, out, memcached>>

(* OBJ::run: an object, or an object that is not supported. *)
RunOBJ ==
  /\ pc = "run" /\ task = "OBJ"
  /\ \/ response' = [response EXCEPT !.body = TRUE]
     \/ response' = [response EXCEPT !.error = TRUE]
  /\ Return
  /\ UNCHANGED <<query, since, count, exception, image, live, out, memcached>>

(* A command sends the header of its reply, *)
SendHeader ==
  /\ pc = "run" /\ task = "image" /\ image
  /\ out' = Append(out, "header")
  /\ pc' = "content"
  /\ UNCHANGED <<query, since, count, task, exception, image, live,
                 response, memcached>>

(* then the content, and reports that it has. *)
SendContent ==
  /\ pc = "content"
  /\ out' = Append(out, "content")
  /\ response' = [response EXCEPT !.sent = TRUE]
  /\ Return
  /\ UNCHANGED <<query, since, count, exception, image, live, memcached>>

(* IIIF redirects a request without parameters, and opens no image. *)
SendRedirect ==
  /\ pc = "run" /\ task = "protocol"
  /\ out' = out \o <<"header", "content">>
  /\ response' = [response EXCEPT !.sent = TRUE]
  /\ Return
  /\ UNCHANGED <<query, since, count, exception, image, live, memcached>>

(* IIIF sends an info.json, which is not to be cached. *)
SendInfo ==
  /\ pc = "info"
  /\ out' = out \o <<"header", "info">>
  /\ response' = [response EXCEPT !.sent = TRUE, !.cachable = FALSE]
  /\ Return
  /\ UNCHANGED <<query, since, count, exception, image, live, memcached>>

(* Another exception out of task->run: a tile that cannot be decoded or     *)
(* encoded, a parameter that is not valid, no memory.                       *)
TaskFails ==
  /\ pc \in {"run", "more", "content", "info"}
  /\ \E e \in Exception \ {"304", "100"} : Throw(e)
  /\ UNCHANGED <<query, since, count, task, image, live, response, out,
                 memcached>>

-----------------------------------------------------------------------------
(* Fault: a request without commands that answer gets no error. *)
SendSetResponse ==
  /\ pc = "commands"
  /\ out' = CASE response.error -> Append(out, "error")
              [] ~ response.error /\ response.body -> Append(out, "iip")
              [] OTHER -> out
  /\ pc' = "store"
  /\ UNCHANGED <<query, since, count, task, exception, image, live,
                 response, memcached>>

(* The commands are done: the IIPResponse is sent if there is one, and an   *)
(* error if nothing else has been sent.                                     *)
SendResponse ==
  /\ pc = "commands"
  /\ LET r == [response EXCEPT !.error = @ \/ ~ (response.sent \/ isSet)]
     IN  /\ response' = r
         /\ out' = CASE r.error -> Append(out, "error")
                     [] ~ r.error /\ r.body -> Append(out, "iip")
                     [] OTHER -> out
  /\ pc' = "store"
  /\ UNCHANGED <<query, since, count, task, exception, image, live, memcached>>

(* memcached.store: memcached takes it or not, and does not reply. *)
StoreReply ==
  /\ pc = "store"
  /\ \/ /\ response.cachable
        /\ memcached' = [q \in DOMAIN memcached \cup {query} |->
                           IF q = query THEN out ELSE memcached[q]]
     \/ UNCHANGED memcached
  /\ pc' = "clean"
  /\ UNCHANGED <<query, since, count, task, exception, image, live,
                 response, out>>

(* The reply of the catch clause of each exception. *)
CaughtReply ==
  CASE exception = "304" -> <<"304">>
    [] exception = "100" -> <<>>
    [] exception = "string" -> <<IF response.error THEN "error" ELSE "banner">>
    [] exception = "file_error" -> <<"404">>
    [] exception = "invalid_argument" -> <<"400">>
    [] exception = "bad_alloc" -> <<"500">>
    [] OTHER -> <<"banner">>

(* Fault: what was sent is stored after an exception too. *)
CatchThenStore ==
  /\ pc = "catch"
  /\ out' = out \o CaughtReply
  /\ exception' = NULL
  /\ pc' = IF query # NULL THEN "store" ELSE "clean"
  /\ UNCHANGED <<query, since, count, task, image, live, response, memcached>>

(* The catch clauses.  100 is a memcached hit: the reply is already sent. *)
Catch ==
  /\ pc = "catch"
  /\ out' = out \o CaughtReply
  /\ exception' = NULL
  /\ pc' = "clean"
  /\ UNCHANGED <<query, since, count, task, image, live, response, memcached>>

(* The image and the task are deleted; the response, the view and the       *)
(* writer go out of scope.                                                  *)
CleanUp ==
  /\ pc = "clean"
  /\ task' = NULL /\ image' = FALSE
  /\ live' = IF image THEN live - 1 ELSE live
  /\ query' = NULL /\ since' = "none" /\ count' = 0
  /\ response' = [error |-> FALSE, body |-> FALSE, sent |-> FALSE, cachable |-> TRUE]
  /\ out' = <<>>
  /\ pc' = "wait"
  /\ UNCHANGED <<exception, memcached>>

(* A memcached entry times out, or is dropped. *)
Expire(q) ==
  /\ memcached' = [p \in DOMAIN memcached \ {q} |-> memcached[p]]
  /\ UNCHANGED <<pc, query, since, count, task, exception, image, live,
                 response, out>>

RunCommand ==
  \/ \E k \in TaskKind : CreateTask(k)
  \/ Unsupported
  \/ RunView
  \/ OpenImage
  \/ OpenFails
  \/ ImageNotSet
  \/ RunOBJ
  \/ SendHeader
  \/ SendContent
  \/ SendRedirect
  \/ SendInfo
  \/ TaskFails

ServeRequest ==
  \/ MemcachedHit
  \/ MemcachedMiss
  \/ RunCommand
  \/ SendResponse
  \/ StoreReply
  \/ Catch
  \/ CleanUp

Next ==
  \/ \E q \in Query : Accept(q)
  \/ AcceptEmpty
  \/ ServeRequest
  \/ \E q \in DOMAIN memcached : Expire(q)

Spec == Init /\ [][Next]_vars

(* The process runs while it has a request; a client need not come. *)
FairSpec == Spec /\ WF_vars(ServeRequest)
-----------------------------------------------------------------------------
(* Every variable has its type, and an exception is in flight only on the   *)
(* way to its catch clause.                                                 *)
TypeOK ==
  /\ pc \in {"wait", "lookup", "commands", "run", "more", "content", "info",
             "store", "catch", "clean"}
  /\ query \in Query \cup {NULL} /\ since \in {"none", "empty", "date"}
  /\ count \in 0..MaxCommands
  /\ task \in TaskKind \cup {NULL}
  /\ exception \in Exception \cup {NULL} /\ (exception # NULL <=> pc = "catch")
  /\ image \in BOOLEAN /\ live \in Nat /\ (image => live > 0)
  /\ response \in Response
  /\ out \in Seq(Part)
  /\ memcached \in [DOMAIN memcached -> Seq(Part)] /\ DOMAIN memcached \subseteq Query

(* Every request is answered with something, whichever way its commands     *)
(* went and whatever they threw.                                            *)
AlwaysAnswered == pc = "clean" => out # <<>>

(* A reply with every header followed by its content. *)
Complete(r) ==
  \A i \in 1..Len(r) : r[i] = "header" => i < Len(r) /\ r[i+1] \in {"content", "info"}

(* What memcached has, and may be sent to any later client, is a whole      *)
(* reply that no exception ended: not one that was cut short, none with a   *)
(* 304 or another status of a catch clause, and no info.json, whose content *)
(* depends on more than the request string.                                 *)
MemcachedIsWhole ==
  \A q \in DOMAIN memcached :
    LET r == memcached[q]
    IN  r # <<>> /\ Complete(r) /\ \A i \in 1..Len(r) : r[i] \notin Status \cup {"info"}

(* The server comes back for the next request. *)
RequestEnds == pc # "wait" ~> pc = "wait"

-----------------------------------------------------------------------------
(* What comments in Main.cc say of the loop, and the code does not do in    *)
(* every case.                                                              *)

(* "Insert the result into Memcached - Note that we never store errors". *)
NeverStoresErrors ==
  \A q \in DOMAIN memcached : \A i \in 1..Len(memcached[q]) : memcached[q][i] # "error"

(* "Declare our image pointer here outside of the try scope so that we can  *)
(* close the image on exceptions", and "image closed and deleted" in the    *)
(* log at the end: no image is left between requests.                       *)
ImagesDeleted == pc = "wait" => live = 0
=============================================================================
