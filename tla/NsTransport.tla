----------------------------- MODULE NsTransport -----------------------------
(***************************************************************************)
(* What the sync engine is promised of a request on the server: it is      *)
(* carried out as a whole, any number of times, while the caller waits for *)
(* it, and not after; "ok" means that what was asked for is so.  A GET     *)
(* that is "ok" has brought the resource, as long as no mishap came in     *)
(* between; after one it may have brought anything, "ok" as it is.  NsSync *)
(* is built on this: its requests without a Fault meet with no mishap, and *)
(* its Get under the fault "net" is the GET that does.                     *)
(*                                                                         *)
(* An abstract specification.  NsHttp, with its connections, its blocks    *)
(* and its second attempt, implements it.                                  *)
(***************************************************************************)
CONSTANTS Methods, Contents, NoRes, Coll

VARIABLES
  res,     \* the resource: a file, NoRes or Coll
  asked,   \* is a caller waiting?
  req,     \* for what
  result,  \* what the last one was told
  got,     \* what a GET that was "ok" has brought
  clean    \* has there been no mishap since the caller asked?

tvars == <<res, asked, req, result, got, clean>>

Init ==
  /\ res \in Contents \cup {NoRes, Coll}
  /\ asked = FALSE /\ req = [m |-> "GET", file |-> <<>>] /\ result = "none"
  /\ got = <<>> /\ clean = TRUE

\* What the request makes of the resource, and when it has its way.
Wanted ==
  IF req.m = "PUT" /\ res # Coll THEN req.file
  ELSE IF req.m = "DELETE" THEN NoRes
  ELSE IF req.m = "MKCOL" /\ res = NoRes THEN Coll
  ELSE res

Met ==
  /\ req.m = "PUT" => res = req.file
  /\ req.m = "DELETE" => res = NoRes
  /\ req.m = "MKCOL" => res # NoRes

Ask(m, f) ==
  /\ ~asked /\ asked' = TRUE /\ result' = "none" /\ got' = <<>> /\ clean' = TRUE
  /\ req' = [m |-> m, file |-> IF m = "PUT" THEN f ELSE <<>>] /\ UNCHANGED res

Act == asked /\ res' = Wanted /\ UNCHANGED <<asked, req, result, got, clean>>

\* A connection is lost, a server refuses, a disk is full.
Mishap == asked /\ clean' = FALSE /\ UNCHANGED <<res, asked, req, result, got>>

\* The caller is told.  One that is told of a failure knows nothing.
Brought == IF req.m = "GET" THEN clean => got' = res ELSE got' = <<>>
Succeed ==
  /\ asked /\ asked' = FALSE /\ Met /\ result' = "ok" /\ Brought
  /\ UNCHANGED <<res, req, clean>>
GiveUp ==
  /\ asked /\ asked' = FALSE /\ result' \in {"refused", "failed"} /\ got' = <<>>
  /\ res' \in {res, Wanted} /\ clean' \in {clean, FALSE} /\ UNCHANGED req

Next == (\E m \in Methods, f \in Contents : Ask(m, f)) \/ Act \/ Mishap \/ Succeed \/ GiveUp

Spec == Init /\ [][Next]_tvars
=============================================================================
