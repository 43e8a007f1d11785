---------------------------- MODULE ServerProofs -----------------------------
(****************************************************************************)
(* Proofs about the request loop (Server), for any number of queries,       *)
(* commands and images: what is stored in memcached, and that every request *)
(* is answered.                                                             *)
(****************************************************************************)
EXTENDS Server, TLAPS

(* The steps at which a reply is still being made, by commands that have    *)
(* not thrown.                                                              *)
Serving == pc \notin {"wait", "catch", "clean"}

Clean(r) == \A i \in 1..Len(r) : r[i] \notin Status
NoInfo(r) == \A i \in 1..Len(r) : r[i] # "info"

(* A reply that is whole but for the header at its end. *)
Cut(r) ==
  /\ r # <<>> /\ r[Len(r)] = "header"
  /\ \A i \in 1..(Len(r) - 1) : r[i] = "header" => r[i+1] \in {"content", "info"}

(* What is in the writer while a request is served: replies that are whole, *)
(* but for a header between SendHeader and SendContent, no status of a      *)
(* catch clause, and an info.json only after the response has been marked   *)
(* as not cachable.  A command that reports that it has sent an image has   *)
(* written something.                                                       *)
Reply ==
  /\ pc = "wait" => out = <<>> /\ ~ response.sent /\ response.cachable
  /\ Serving =>
       /\ query \in Query
       /\ Clean(out)
       /\ response.cachable => NoInfo(out)
       /\ response.sent => out # <<>>
       /\ pc # "content" => Complete(out)
  /\ pc = "content" => Cut(out)
  /\ pc = "store" => out # <<>>
  /\ exception = "100" => out # <<>>

Inv == TypeOK /\ Reply /\ AlwaysAnswered /\ MemcachedIsWhole

-----------------------------------------------------------------------------
(* What Append does to a reply, part by part. *)
LEMMA AppendParts ==
  ASSUME NEW r \in Seq(Part), NEW x \in Part
  PROVE  /\ Append(r, x) \in Seq(Part) /\ Append(r, x) # <<>>
         /\ Len(r) \in Nat /\ Len(Append(r, x)) = Len(r) + 1
         /\ \A i \in 1..Len(r) : Append(r, x)[i] = r[i]
         /\ Append(r, x)[Len(r) + 1] = x
  OBVIOUS

(* The response of the IIPResponse keeps a reply whole: it is neither a     *)
(* header nor a status of a catch clause nor an info.json.                  *)
LEMMA AppendResponse ==
  ASSUME NEW r \in Seq(Part), NEW x \in {"iip", "error"}, Complete(r), Clean(r)
  PROVE  /\ Append(r, x) \in Seq(Part) /\ Append(r, x) # <<>>
         /\ Complete(Append(r, x)) /\ Clean(Append(r, x))
         /\ NoInfo(r) => NoInfo(Append(r, x))
<1> DEFINE s == Append(r, x)
<1>1. x \in Part /\ x \notin Status /\ x # "header" /\ x # "info"
  BY DEF Part, Status
<1>2. /\ s \in Seq(Part) /\ s # <<>> /\ Len(s) = Len(r) + 1 /\ Len(r) \in Nat
      /\ \A i \in 1..Len(r) : s[i] = r[i]
      /\ s[Len(r) + 1] = x
  BY <1>1, AppendParts
<1> HIDE DEF s
<1>3. Complete(s)
  BY <1>1, <1>2 DEF Complete
<1>4. Clean(s) /\ (NoInfo(r) => NoInfo(s))
  BY <1>1, <1>2 DEF Clean, NoInfo
<1> QED BY <1>2, <1>3, <1>4 DEF s

(* SendHeader cuts a reply, *)
LEMMA AppendHeader ==
  ASSUME NEW r \in Seq(Part), Complete(r), Clean(r)
  PROVE  /\ Append(r, "header") \in Seq(Part)
         /\ Cut(Append(r, "header")) /\ Clean(Append(r, "header"))
         /\ NoInfo(r) => NoInfo(Append(r, "header"))
<1> DEFINE s == Append(r, "header")
<1>1. "header" \in Part /\ "header" \notin Status
  BY DEF Part, Status
<1>2. /\ s \in Seq(Part) /\ s # <<>> /\ Len(s) = Len(r) + 1 /\ Len(r) \in Nat
      /\ \A i \in 1..Len(r) : s[i] = r[i]
      /\ s[Len(r) + 1] = "header"
  BY <1>1, AppendParts
<1> HIDE DEF s
<1>3. Cut(s)
  BY <1>2 DEF Cut, Complete
<1>4. Clean(s) /\ (NoInfo(r) => NoInfo(s))
  BY <1>1, <1>2 DEF Clean, NoInfo
<1> QED BY <1>2, <1>3, <1>4 DEF s

(* and the content or the info.json makes it whole again. *)
LEMMA AppendContent ==
  ASSUME NEW r \in Seq(Part), NEW x \in {"content", "info"}, Cut(r), Clean(r)
  PROVE  /\ Append(r, x) \in Seq(Part) /\ Append(r, x) # <<>>
         /\ Complete(Append(r, x)) /\ Clean(Append(r, x))
         /\ NoInfo(r) /\ x = "content" => NoInfo(Append(r, x))
<1> DEFINE s == Append(r, x)
<1>1. x \in Part /\ x \notin Status /\ x # "header"
  BY DEF Part, Status
<1>2. /\ s \in Seq(Part) /\ s # <<>> /\ Len(s) = Len(r) + 1 /\ Len(r) \in Nat
      /\ \A i \in 1..Len(r) : s[i] = r[i]
      /\ s[Len(r) + 1] = x
  BY <1>1, AppendParts
<1> HIDE DEF s
<1>3. Complete(s)
  <2> SUFFICES ASSUME NEW i \in 1..Len(s), s[i] = "header"
               PROVE  i < Len(s) /\ s[i+1] \in {"content", "info"}
    BY DEF Complete
  <2>1. i \in 1..Len(r) /\ r[i] = "header"
    BY <1>1, <1>2
  <2>2. CASE i = Len(r)
    BY <1>2, <2>1, <2>2
  <2>3. CASE i # Len(r)
    BY <1>2, <2>1, <2>3 DEF Cut
  <2> QED BY <2>2, <2>3
<1>4. Clean(s) /\ (NoInfo(r) /\ x = "content" => NoInfo(s))
  BY <1>1, <1>2 DEF Clean, NoInfo
<1> QED BY <1>2, <1>3, <1>4 DEF s

(* A header and its content at once: what SendRedirect and SendInfo send. *)
LEMMA AppendBoth ==
  ASSUME NEW r \in Seq(Part), NEW x \in {"content", "info"}, Complete(r), Clean(r)
  PROVE  /\ r \o <<"header", x>> \in Seq(Part) /\ r \o <<"header", x>> # <<>>
         /\ Complete(r \o <<"header", x>>) /\ Clean(r \o <<"header", x>>)
         /\ NoInfo(r) /\ x = "content" => NoInfo(r \o <<"header", x>>)
<1>1. x \in Part /\ "header" \in Part
  BY DEF Part
<1>2. r \o <<"header", x>> = Append(Append(r, "header"), x)
  BY <1>1
<1> QED BY <1>2, AppendHeader, AppendContent, Zenon
-----------------------------------------------------------------------------
(* The loop starts with nothing written and nothing stored. *)
LEMMA InitInv == Init => Inv
<1> SUFFICES ASSUME Init PROVE Inv
  OBVIOUS
<1>1. TypeOK
  <2>1. response \in Response
    BY DEF Init, Response
  <2>2. memcached \in [DOMAIN memcached -> Seq(Part)] /\ DOMAIN memcached \subseteq Query
    BY DEF Init
  <2>3. image \in BOOLEAN /\ live \in Nat /\ (image => live > 0)
    BY Zenon DEF Init
  <2>4. /\ out \in Seq(Part) /\ count \in 0..MaxCommands
        /\ exception = NULL /\ pc = "wait"
    BY BoundAssumption DEF Init
  <2> QED BY <2>1, <2>2, <2>3, <2>4 DEF Init, TypeOK
<1>2. Reply
  BY NullAssumption DEF Init, Reply, Serving, Exception
<1>3. AlwaysAnswered /\ MemcachedIsWhole
  BY DEF Init, AlwaysAnswered, MemcachedIsWhole
<1> QED BY <1>1, <1>2, <1>3 DEF Inv

(* Steps that write nothing, on the way from one command to the next. *)
Quiet(p) == pc' = p /\ Serving /\ pc # "content" /\ out' = out /\ memcached' = memcached

(* A step that writes nothing and neither sends nor marks the response keeps *)
(* the writer as it has to be.                                              *)
LEMMA QuietStep ==
  ASSUME Inv, TypeOK', NEW p \in {"commands", "run", "more", "info"}, Quiet(p),
         query' = query, response'.sent = response.sent,
         response'.cachable = response.cachable
  PROVE  Inv'
<1>1. Reply'
  BY NullAssumption DEF Inv, Reply, Quiet, Serving, TypeOK, Exception
<1>2. AlwaysAnswered' /\ MemcachedIsWhole'
  BY DEF Inv, Quiet, AlwaysAnswered, MemcachedIsWhole
<1> QED BY <1>1, <1>2 DEF Inv

(* A step that throws writes nothing and stores nothing; only a memcached   *)
(* hit throws 100.                                                          *)
LEMMA ThrowStep ==
  ASSUME Inv, TypeOK', pc' = "catch", memcached' = memcached,
         exception' = "100" => out' # <<>>
  PROVE  Inv'
<1>1. Reply'
  BY DEF Reply, Serving
<1>2. AlwaysAnswered' /\ MemcachedIsWhole'
  BY DEF Inv, AlwaysAnswered, MemcachedIsWhole
<1> QED BY <1>1, <1>2 DEF Inv

(* A step at the end of a command that has sent a whole reply. *)
LEMMA SentStep ==
  ASSUME Inv, TypeOK', pc' = "commands", query \in Query, query' = query,
         memcached' = memcached, out' # <<>>, Complete(out'), Clean(out'),
         response'.cachable => NoInfo(out')
  PROVE  Inv'
<1>1. Reply'
  BY NullAssumption DEF Reply, Serving, TypeOK, Exception
<1>2. AlwaysAnswered' /\ MemcachedIsWhole'
  BY DEF Inv, AlwaysAnswered, MemcachedIsWhole
<1> QED BY <1>1, <1>2 DEF Inv

-----------------------------------------------------------------------------
(* The parts that the replies of the catch clauses are made of. *)
LEMMA CaughtType ==
  ASSUME TypeOK, pc = "catch"
  PROVE  /\ CaughtReply \in Seq(Part)
         /\ exception # "100" => CaughtReply # <<>>
<1>1. CASE exception = "100"
  BY <1>1 DEF CaughtReply
<1>2. CASE exception # "100"
  <2>1. \E x \in Part : CaughtReply = <<x>>
    BY <1>2 DEF CaughtReply, Part, Status
  <2> QED BY <2>1
<1> QED BY <1>1, <1>2

(* Every step keeps every variable in its type, and an exception is in      *)
(* flight exactly on the way to its catch clause.                           *)
LEMMA TypeStep == Inv /\ [Next]_vars => TypeOK'
<1> SUFFICES ASSUME TypeOK, Reply, [Next]_vars PROVE TypeOK'
  BY DEF Inv
<1> USE BoundAssumption, NullAssumption
<1>1. ASSUME NEW q \in Query, Accept(q) PROVE TypeOK'
  BY <1>1 DEF TypeOK, Accept
<1>2. CASE AcceptEmpty
  BY <1>2 DEF TypeOK, AcceptEmpty, Throw, Exception
<1>3. CASE MemcachedHit
  BY <1>3 DEF TypeOK, MemcachedHit, Throw, Exception
<1>4. CASE MemcachedMiss
  BY <1>4 DEF TypeOK, MemcachedMiss
<1>5. ASSUME NEW k \in TaskKind, CreateTask(k) PROVE TypeOK'
  BY <1>5 DEF TypeOK, CreateTask
<1>6. CASE Unsupported
  <2>1. response' \in Response
    BY <1>6, Zenon DEF TypeOK, Unsupported, Response
  <2> QED BY <1>6, <2>1 DEF TypeOK, Unsupported
<1>7. CASE RunView
  BY <1>7 DEF TypeOK, RunView, Return
<1>8. CASE OpenImage
  BY <1>8 DEF TypeOK, OpenImage, Opens, Return, TaskKind
<1>9. CASE OpenFails
  <2>1. response' \in Response
    BY <1>9, Zenon DEF TypeOK, OpenFails, Response
  <2>2. exception' \in Exception /\ pc' = "catch"
    BY <1>9 DEF OpenFails, Throw, Exception
  <2>3. \/ image' = image /\ live' = live
        \/ image' = TRUE /\ live' = live + 1
    BY <1>9 DEF OpenFails
  <2>4. image' \in BOOLEAN /\ live' \in Nat /\ (image' => live' > 0)
    <3>1. CASE image' = image /\ live' = live
      BY <3>1 DEF TypeOK
    <3>2. CASE image' = TRUE /\ live' = live + 1
      <4>1. live' \in Nat /\ live' > 0
        BY <3>2 DEF TypeOK
      <4> QED BY <3>2, <4>1
    <3> QED BY <2>3, <3>1, <3>2, Zenon
  <2> QED BY <1>9, <2>1, <2>2, <2>4 DEF TypeOK, OpenFails
<1>10. CASE ImageNotSet
  <2>1. response' \in Response
    BY <1>10, Zenon DEF TypeOK, ImageNotSet, Response
  <2> QED BY <1>10, <2>1 DEF TypeOK, ImageNotSet, Throw, Exception
<1>11. CASE RunOBJ
  <2>1. response' \in Response
    BY <1>11, Zenon DEF TypeOK, RunOBJ, Response
  <2> QED BY <1>11, <2>1 DEF TypeOK, RunOBJ, Return
<1>12. CASE SendHeader
  BY <1>12 DEF TypeOK, SendHeader, Part
<1>13. CASE SendContent
  <2>1. response' \in Response
    BY <1>13, Zenon DEF TypeOK, SendContent, Response
  <2> QED BY <1>13, <2>1 DEF TypeOK, SendContent, Return, Part
<1>14. CASE SendRedirect
  <2>1. response' \in Response
    BY <1>14, Zenon DEF TypeOK, SendRedirect, Response
  <2>2. out' \in Seq(Part)
    BY <1>14 DEF TypeOK, SendRedirect, Part
  <2> QED BY <1>14, <2>1, <2>2 DEF TypeOK, SendRedirect, Return
<1>15. CASE SendInfo
  <2>1. response' \in Response
    BY <1>15, Zenon DEF TypeOK, SendInfo, Response
  <2>2. out' \in Seq(Part)
    BY <1>15 DEF TypeOK, SendInfo, Part
  <2> QED BY <1>15, <2>1, <2>2 DEF TypeOK, SendInfo, Return
<1>16. CASE TaskFails
  BY <1>16 DEF TypeOK, TaskFails, Throw
<1>17. CASE SendResponse
  <2>1. response' \in Response
    BY <1>17, Zenon DEF TypeOK, SendResponse, Response, isSet
  <2>2. out' \in Seq(Part)
    BY <1>17, <2>1 DEF TypeOK, SendResponse, Part
  <2> QED BY <1>17, <2>1, <2>2 DEF TypeOK, SendResponse
<1>18. CASE StoreReply
  <2>1. pc' = "clean" /\ pc = "store" /\ UNCHANGED <<query, since, count, task,
                                                   exception, image, live, response, out>>
    BY <1>18 DEF StoreReply
  <2>2. query \in Query
    BY <1>18 DEF StoreReply, Reply, Serving
  <2>3. memcached' \in [DOMAIN memcached' -> Seq(Part)] /\ DOMAIN memcached' \subseteq Query
    BY <1>18, <2>2 DEF TypeOK, StoreReply
  <2> QED BY <1>18, <2>1, <2>3 DEF TypeOK, StoreReply
<1>19. CASE Catch
  BY <1>19, CaughtType DEF TypeOK, Catch
<1>20. CASE CleanUp
  <2>1. response' \in Response
    BY <1>20 DEF CleanUp, Response
  <2>2. live' \in Nat
    BY <1>20 DEF TypeOK, CleanUp
  <2>3. image' = FALSE /\ count' \in 0..MaxCommands /\ out' \in Seq(Part)
    BY <1>20 DEF CleanUp
  <2>4. exception' = NULL /\ pc' = "wait"
    BY <1>20 DEF TypeOK, CleanUp
  <2> QED BY <1>20, <2>1, <2>2, <2>3, <2>4, Zenon DEF TypeOK, CleanUp
<1>21. ASSUME NEW q \in DOMAIN memcached, Expire(q) PROVE TypeOK'
  BY <1>21 DEF TypeOK, Expire
<1>22. CASE UNCHANGED vars
  BY <1>22 DEF TypeOK, vars
<1> QED BY <1>1, <1>2, <1>3, <1>4, <1>5, <1>6, <1>7, <1>8, <1>9, <1>10, <1>11, <1>12,
           <1>13, <1>14, <1>15, <1>16, <1>17, <1>18, <1>19, <1>20, <1>21, <1>22
        DEF Next, ServeRequest, RunCommand

(* Every step keeps the invariant: quiet steps, steps that throw, steps at  *)
(* the end of a command that has sent a reply, and the end of the request.  *)
LEMMA StepInv == Inv /\ [Next]_vars => Inv'
<1> SUFFICES ASSUME Inv, [Next]_vars PROVE Inv'
  OBVIOUS
<1>0. TypeOK /\ TypeOK' /\ Reply
  BY TypeStep DEF Inv
<1>1. ASSUME NEW q \in Query, Accept(q) PROVE Inv'
  <2>1. Reply'
    BY <1>0, <1>1, NullAssumption
       DEF Accept, Reply, Serving, Clean, NoInfo, Complete, TypeOK, Exception
  <2> QED BY <1>0, <1>1, <2>1 DEF Accept, Inv, AlwaysAnswered, MemcachedIsWhole
<1>2. CASE AcceptEmpty
  BY <1>0, <1>2, ThrowStep DEF AcceptEmpty, Throw
<1>3. CASE MemcachedHit
  <2>1. out' # <<>>
    BY <1>3 DEF MemcachedHit, Inv, MemcachedIsWhole
  <2> QED BY <1>0, <1>3, <2>1, ThrowStep DEF MemcachedHit, Throw
<1>4. CASE MemcachedMiss
  BY <1>0, <1>4, QuietStep DEF MemcachedMiss, Quiet, Serving
<1>5. ASSUME NEW k \in TaskKind, CreateTask(k) PROVE Inv'
  BY <1>0, <1>5, QuietStep DEF CreateTask, Quiet, Serving
<1>6. CASE Unsupported
  BY <1>0, <1>6, QuietStep DEF Unsupported, Quiet, Serving, TypeOK, Response
<1>7. CASE RunView
  BY <1>0, <1>7, QuietStep DEF RunView, Return, Quiet, Serving
<1>8. CASE OpenImage
  <2>1. PICK p \in {"commands", "run", "more", "info"} : pc' = p
    BY <1>8 DEF OpenImage, Return
  <2> QED BY <1>0, <1>8, <2>1, QuietStep DEF OpenImage, Opens, Quiet, Serving
<1>9. CASE OpenFails
  <2>1. pc' = "catch" /\ exception' # "100"
    BY <1>9 DEF OpenFails, Throw
  <2> QED BY <1>0, <1>9, <2>1, ThrowStep DEF OpenFails
<1>10. CASE ImageNotSet
  BY <1>0, <1>10, ThrowStep DEF ImageNotSet, Throw
<1>11. CASE RunOBJ
  <2>1. response'.sent = response.sent /\ response'.cachable = response.cachable
    BY <1>0, <1>11 DEF RunOBJ, TypeOK, Response
  <2> QED BY <1>0, <1>11, <2>1, QuietStep DEF RunOBJ, Return, Quiet, Serving
<1>12. CASE SendHeader
  <2>1. /\ Complete(out) /\ Clean(out) /\ query \in Query
        /\ response.cachable => NoInfo(out)
    BY <1>0, <1>12 DEF SendHeader, Reply, Serving
  <2>2. /\ Cut(out') /\ Clean(out')
        /\ response.cachable => NoInfo(out')
    BY <1>0, <1>12, <2>1, AppendHeader DEF SendHeader, TypeOK
  <2>3. Reply'
    BY <1>0, <1>12, <2>1, <2>2, NullAssumption
       DEF SendHeader, Reply, Serving, Cut, TypeOK, Exception
  <2> QED BY <1>0, <1>12, <2>3 DEF SendHeader, Inv, AlwaysAnswered, MemcachedIsWhole
<1>13. CASE SendContent
  <2>1. /\ Cut(out) /\ Clean(out) /\ query \in Query
        /\ response.cachable => NoInfo(out)
    BY <1>0, <1>13 DEF SendContent, Reply, Serving
  <2>2. response'.cachable = response.cachable
    BY <1>0, <1>13 DEF SendContent, TypeOK, Response
  <2>3. /\ out' # <<>> /\ Complete(out') /\ Clean(out')
        /\ response.cachable => NoInfo(out')
    BY <1>0, <1>13, <2>1, AppendContent DEF SendContent, TypeOK
  <2> QED BY <1>0, <1>13, <2>1, <2>2, <2>3, SentStep DEF SendContent, Return
<1>14. CASE SendRedirect
  <2>1. /\ Complete(out) /\ Clean(out) /\ query \in Query
        /\ response.cachable => NoInfo(out)
    BY <1>0, <1>14 DEF SendRedirect, Reply, Serving
  <2>2. response'.cachable = response.cachable
    BY <1>0, <1>14 DEF SendRedirect, TypeOK, Response
  <2>3. /\ out' # <<>> /\ Complete(out') /\ Clean(out')
        /\ response.cachable => NoInfo(out')
    BY <1>0, <1>14, <2>1, AppendBoth DEF SendRedirect, TypeOK
  <2> QED BY <1>0, <1>14, <2>1, <2>2, <2>3, SentStep DEF SendRedirect, Return
<1>15. CASE SendInfo
  <2>1. Complete(out) /\ Clean(out) /\ query \in Query
    BY <1>0, <1>15 DEF SendInfo, Reply, Serving
  <2>2. response'.cachable = FALSE
    BY <1>0, <1>15 DEF SendInfo, TypeOK, Response
  <2>3. out' # <<>> /\ Complete(out') /\ Clean(out')
    BY <1>0, <1>15, <2>1, AppendBoth DEF SendInfo, TypeOK
  <2> QED BY <1>0, <1>15, <2>1, <2>2, <2>3, SentStep DEF SendInfo, Return
<1>16. CASE TaskFails
  BY <1>0, <1>16, ThrowStep DEF TaskFails, Throw
<1>17. CASE SendResponse
  <2>1. /\ Complete(out) /\ Clean(out) /\ query \in Query
        /\ response.cachable => NoInfo(out)
        /\ response.sent => out # <<>>
    BY <1>0, <1>17 DEF SendResponse, Reply, Serving
  <2>2. /\ response'.sent = response.sent /\ response'.cachable = response.cachable
        /\ response' \in Response
        /\ response'.error \/ response'.body \/ response'.sent
    BY <1>0, <1>17 DEF SendResponse, isSet, TypeOK, Response
  <2>3. \/ out' = out /\ response'.sent
        \/ \E x \in {"iip", "error"} : out' = Append(out, x)
    BY <1>17, <2>2 DEF SendResponse, Response
  <2>4. /\ out' # <<>> /\ Complete(out') /\ Clean(out')
        /\ response.cachable => NoInfo(out')
    BY <1>0, <2>1, <2>2, <2>3, AppendResponse, Zenon DEF TypeOK
  <2>5. Reply'
    BY <1>0, <1>17, <2>1, <2>2, <2>4, NullAssumption
       DEF SendResponse, Reply, Serving, TypeOK, Exception
  <2> QED BY <1>0, <1>17, <2>5 DEF SendResponse, Inv, AlwaysAnswered, MemcachedIsWhole
<1>18. CASE StoreReply
  <2>1. /\ out # <<>> /\ Complete(out) /\ Clean(out)
        /\ response.cachable => NoInfo(out)
    BY <1>0, <1>18 DEF StoreReply, Reply, Serving
  <2>2. MemcachedIsWhole'
    <3>1. \A q \in DOMAIN memcached' :
            \/ q \in DOMAIN memcached /\ memcached'[q] = memcached[q]
            \/ memcached'[q] = out /\ response.cachable
      BY <1>18 DEF StoreReply
    <3>2. response.cachable => \A i \in 1..Len(out) : out[i] \notin Status \cup {"info"}
      BY <2>1 DEF Clean, NoInfo
    <3> QED BY <2>1, <3>1, <3>2 DEF Inv, MemcachedIsWhole
  <2>3. Reply' /\ AlwaysAnswered'
    BY <1>0, <1>18, <2>1 DEF StoreReply, Reply, Serving, AlwaysAnswered
  <2> QED BY <1>0, <2>2, <2>3 DEF Inv
<1>19. CASE Catch
  <2>1. out' # <<>>
    BY <1>0, <1>19, CaughtType DEF Catch, Reply, TypeOK
  <2>2. Reply' /\ AlwaysAnswered'
    BY <1>0, <1>19, <2>1 DEF Catch, Reply, Serving, AlwaysAnswered
  <2> QED BY <1>0, <1>19, <2>2 DEF Catch, Inv, MemcachedIsWhole
<1>20. CASE CleanUp
  <2>1. Reply' /\ AlwaysAnswered'
    BY <1>0, <1>20, NullAssumption
       DEF CleanUp, Reply, Serving, AlwaysAnswered, TypeOK, Exception
  <2> QED BY <1>0, <1>20, <2>1 DEF CleanUp, Inv, MemcachedIsWhole
<1>21. ASSUME NEW q \in DOMAIN memcached, Expire(q) PROVE Inv'
  <2>1. Reply' /\ AlwaysAnswered'
    BY <1>21 DEF Expire, Inv, Reply, Serving, AlwaysAnswered
  <2>2. MemcachedIsWhole'
    BY <1>21 DEF Expire, Inv, MemcachedIsWhole
  <2> QED BY <1>0, <2>1, <2>2 DEF Inv
<1>22. CASE UNCHANGED vars
  BY <1>0, <1>22 DEF vars, Inv, Reply, Serving, AlwaysAnswered, MemcachedIsWhole
<1> QED BY <1>1, <1>2, <1>3, <1>4, <1>5, <1>6, <1>7, <1>8, <1>9, <1>10, <1>11, <1>12,
           <1>13, <1>14, <1>15, <1>16, <1>17, <1>18, <1>19, <1>20, <1>21, <1>22
        DEF Next, ServeRequest, RunCommand

(* The invariant holds in every state of the request loop. *)
THEOREM ServerInvariant == Spec => []Inv
  BY InitInv, StepInv, PTL DEF Spec

(* Every variable of Main.cc's loop keeps its type, and an exception is in  *)
(* flight only on the way to its catch clause.                              *)
THEOREM ServerTypeCorrect == Spec => []TypeOK
<1>1. Inv => TypeOK
  BY DEF Inv
<1> QED BY <1>1, ServerInvariant, PTL

(* However many commands a request has and whatever they throw, something   *)
(* has been sent when the loop cleans up.                                   *)
THEOREM AnswerCorrect == Spec => []AlwaysAnswered
<1>1. Inv => AlwaysAnswered
  BY DEF Inv
<1> QED BY <1>1, ServerInvariant, PTL

(* However many commands, images and requests there are, what memcached has *)
(* is whole, has no status of a catch clause and no info.json.              *)
THEOREM MemcachedCorrect == Spec => []MemcachedIsWhole
<1>1. Inv => MemcachedIsWhole
  BY DEF Inv
<1> QED BY <1>1, ServerInvariant, PTL
=============================================================================
