---------------------------- MODULE MCFcgiInput ----------------------------
(***************************************************************************)
(* The instance of FcgiInput that TLC checks: three requests, the          *)
(* last with a role the library does not know.                             *)
(***************************************************************************)
EXTENDS FcgiInput

MCEnv == << <<[nl |-> 1, vl |-> 0, nlong |-> TRUE, vlong |-> FALSE]>>,
            <<[nl |-> 0, vl |-> 1, nlong |-> FALSE, vlong |-> FALSE]>>,
            <<>> >>
MCStdin == <<1, 0, 0>>
MCRole == <<"RESPONDER", "RESPONDER", "unknown">>
MCId == <<1, 1, 2>>

\* Among the records that leftover bytes may be taken for: parameters of the
\* request begun last, one of another request that is longer than all that is
\* still to come, and a BEGIN of the wrong length.
MCForged ==
  LET H(type, id, clen, plen) == [type |-> type, id |-> id, clen |-> clen, plen |-> plen]
  IN {H("PARAMS", 1, 1, 1), H("STDIN", OtherId, 20, 0), H("BEGIN", 1, 1, 0)}

\* And the begin of a request.
MCForgedBegin == MCForged \cup {[type |-> "BEGIN", id |-> 1, clen |-> BodyLen, plen |-> 0]}
=============================================================================
