---------------------------- MODULE MCFcgiOutput ---------------------------
(***************************************************************************)
(* The instance of FcgiOutput that TLC checks.                             *)
(***************************************************************************)
EXTENDS FcgiOutput

MCBuffLen == [s \in Streams |-> IF s = "out" THEN 6 ELSE 4]
MCMaxTotal == [s \in Streams |-> IF s = "out" THEN 5 ELSE 1]
=============================================================================
