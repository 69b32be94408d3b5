------------------------------- MODULE NsHttp -------------------------------
(***************************************************************************)
(* One request after another over a kept connection: do_request() of       *)
(* src/nshttp.c, with what its callers in src/nsdav.c make of the answer,  *)
(* beside the server and the network.                                      *)
(*                                                                         *)
(* A file is a sequence of blocks of RXBUF bytes.  All requests are about  *)
(* one resource.  Requests, faults and closed connections may follow each  *)
(* other without end; nothing is counted, so no bound is needed.           *)
(***************************************************************************)
EXTENDS Naturals, Sequences

CONSTANTS
  Block,      \* blocks of RXBUF bytes
  Contents,   \* the files, as sequences of blocks
  Page,       \* a block of any other body of an answer
  NoRes,      \* res when there is no resource ...
  Coll,       \* ... and when it is a folder
  Framings,   \* how the server delimits bodies, a subset of AllFramings
  Events      \* what may go wrong, a subset of AllEvents

(***************************************************************************)
(*   "idle"     the server closes a connection nothing is going on over    *)
(*   "drop"     a connection is lost in the middle of a request            *)
(*   "connect"  conn_open() fails: no address, no socket, no TLS session   *)
(*   "refuse"   the server answers with an error and closes, possibly      *)
(*              without having read the request to its end                 *)
(*   "read"     Read() of the file to be sent fails                        *)
(*   "write"    Write() of a downloaded block fails                        *)
(*   "memory"   body_reserve() finds no memory                             *)
(*   "stop"     the progress callback answers FALSE                        *)
(***************************************************************************)
AllEvents == {"idle", "drop", "connect", "refuse", "read", "write", "memory", "stop"}
AllFramings == {"length", "chunked", "close"}
Methods == {"GET", "PUT", "DELETE", "MKCOL", "PROPFIND"}

ASSUME HttpAssumption ==
  /\ Contents \subseteq Seq(Block)
  /\ NoRes \notin Contents /\ Coll \notin Contents /\ NoRes # Coll
  /\ Framings \subseteq AllFramings /\ Events \subseteq AllEvents

VARIABLES
  res,        \* the resource on the server: a file, NoRes or Coll
  connected,  \* h->connected
  up,         \* is the server's end of the connection still there?
  inbox,      \* what the server has of a request it has not answered
  wire,       \* what the client has not read of the server's answers
  pc,         \* where do_request is
  req,        \* method, and the file to send
  attempt, fresh,
  pos,        \* how far req_fh has been read
  left,       \* blocks still to send, or to receive by Content-Length
  resp,       \* what read_head() made of the answer
  out,        \* the contents of the .nspart, which body_fh writes
  written,    \* sink.written
  result,     \* what the caller in nsdav.c reports
  clean       \* ghost: nothing has gone wrong since the request began

link == <<connected, up, inbox, wire>>
body == <<left, resp, out, written>>
vars == <<res, link, pc, req, attempt, fresh, pos, body, result, clean>>

Empty == [some |-> FALSE, m |-> "GET", len |-> 0, sent |-> <<>>]
NoResp == [status |-> 0, framing |-> "length", len |-> 0, closing |-> FALSE,
           full |-> <<>>, mine |-> FALSE]

Init ==
  /\ res \in Contents \cup {NoRes, Coll}
  /\ connected = FALSE /\ up = FALSE /\ inbox = Empty /\ wire = <<>>
  /\ pc = "idle" /\ req = [m |-> "GET", file |-> <<>>]
  /\ attempt = 0 /\ fresh = FALSE /\ pos = 0
  /\ left = 0 /\ resp = NoResp /\ out = <<>> /\ written = 0
  /\ result = "none" /\ clean = TRUE

(***************************************************************************)
(* The server                                                              *)
(***************************************************************************)
Complete == inbox.some /\ Len(inbox.sent) = inbox.len

IsFile(r) == r \notin {NoRes, Coll}
Effect ==
  CASE inbox.m = "PUT" /\ res # Coll    -> inbox.sent
    [] inbox.m = "DELETE"               -> NoRes
    [] inbox.m = "MKCOL" /\ res = NoRes -> Coll
    [] OTHER                            -> res

Status ==
  CASE inbox.m = "GET"      -> IF IsFile(res) THEN 200 ELSE 404
    [] inbox.m = "PUT"      -> IF res = Coll THEN 409 ELSE IF res = NoRes THEN 201 ELSE 204
    [] inbox.m = "DELETE"   -> IF res = NoRes THEN 404 ELSE 204
    [] inbox.m = "MKCOL"    -> IF res = NoRes THEN 201 ELSE 405
    [] inbox.m = "PROPFIND" -> IF res = NoRes THEN 404 ELSE 207

BodyOf(status) == IF status = 200 THEN res
                  ELSE IF status \in {201, 204} THEN <<>>
                  ELSE IF status = 207 THEN <<Page, Page>> ELSE <<Page>>

\* An answer as it goes over the wire.  A 204 has no body and need not say
\* so; the ghosts full and mine are the whole body and whose answer it is.
Answer(status, framing, closing) ==
  LET b == BodyOf(status)
      h == [status |-> status, framing |-> IF status = 204 THEN "close" ELSE framing,
            len |-> Len(b), closing |-> closing, full |-> b, mine |-> TRUE]
  IN <<[tag |-> "head", val |-> h]>>
       \o [i \in 1..Len(b) |-> [tag |-> "block", val |-> b[i]]]
       \o (IF framing = "chunked" /\ status # 204
           THEN <<[tag |-> "end", val |-> 0]>> ELSE <<>>)

\* The server carries out a request and answers it.  It closes when it has
\* said so, and when nothing else ends the body.
Serve ==
  /\ up /\ Complete /\ res' = Effect
  /\ \E f \in Framings, closing \in BOOLEAN :
       /\ wire' = wire \o Answer(Status, f, closing)
       /\ up' = ~(closing \/ (f = "close" /\ Status # 204))
  /\ inbox' = Empty
  /\ UNCHANGED <<connected, pc, req, attempt, fresh, pos, body, result, clean>>

\* 401, 423, 503, 507: nothing is done and the connection is closed.
Refuse ==
  /\ "refuse" \in Events /\ up /\ inbox.some
  /\ \E f \in Framings : wire' = wire \o Answer(503, f, TRUE)
  /\ up' = FALSE /\ inbox' = Empty /\ clean' = FALSE
  /\ UNCHANGED <<res, connected, pc, req, attempt, fresh, pos, body, result>>

IdleClose ==
  /\ "idle" \in Events /\ up /\ pc = "idle" /\ up' = FALSE
  /\ UNCHANGED <<res, connected, inbox, wire, pc, req, attempt, fresh, pos,
                 body, result, clean>>

\* The connection breaks; what was on its way to the client is cut short,
\* also when the server had sent it all and closed.
Drop ==
  /\ "drop" \in Events /\ (up \/ wire # <<>>)
  /\ pc # "idle" /\ up' = FALSE /\ inbox' = Empty
  /\ \E n \in 0..Len(wire) : wire' = SubSeq(wire, 1, n)
  /\ clean' = FALSE
  /\ UNCHANGED <<res, connected, pc, req, attempt, fresh, pos, body, result>>

(***************************************************************************)
(* The client                                                              *)
(***************************************************************************)
\* conn_close().  A request the server has in full it may still carry out.
Close ==
  /\ connected' = FALSE /\ up' = FALSE /\ inbox' = Empty /\ wire' = <<>>
  /\ res' \in {res} \cup {r \in {Effect} : up /\ Complete}

Return(r) == pc' = "idle" /\ result' = r
Fail == Close /\ Return("failed")

\* stale: a kept connection is opened anew, once.
Stale ==
  /\ Close
  /\ IF fresh \/ attempt > 0
     THEN Return("failed") /\ UNCHANGED attempt
     ELSE pc' = "connect" /\ attempt' = attempt + 1 /\ UNCHANGED result

Hitch(e) == e \in Events /\ clean' = FALSE

\* A caller: nsdav_download() opens the .nspart anew, nsdav_upload() the file.
Request(m, f) ==
  /\ pc = "idle" /\ pc' = "connect"
  /\ req' = [m |-> m, file |-> IF m = "PUT" THEN f ELSE <<>>]
  /\ attempt' = 0 /\ pos' = 0 /\ out' = <<>> /\ written' = 0 /\ left' = 0
  /\ resp' = NoResp /\ result' = "none" /\ clean' = TRUE
  /\ UNCHANGED <<res, link, fresh>>

\* What was read ahead of the last answer is forgotten; of the rest a new
\* request knows nothing.
Forgotten(n) == [i \in 1..(Len(wire) - n) |->
  IF wire[n + i].tag = "head" THEN [wire[n + i] EXCEPT !.val.mine = FALSE]
                              ELSE wire[n + i]]

Connect ==
  /\ pc = "connect" /\ ~connected
  /\ \/ /\ connected' = TRUE /\ up' = TRUE /\ inbox' = Empty /\ wire' = <<>>
        /\ fresh' = TRUE /\ pc' = "head" /\ UNCHANGED <<result, clean>>
     \/ /\ Hitch("connect") /\ Return("failed") /\ UNCHANGED <<link, fresh>>
  /\ UNCHANGED <<res, req, attempt, pos, body>>

Keep ==
  /\ pc = "connect" /\ connected /\ pc' = "head" /\ fresh' = FALSE
  /\ \E n \in 0..Len(wire) : wire' = Forgotten(n)
  /\ UNCHANGED <<res, connected, up, inbox, req, attempt, pos, body, result, clean>>

\* A send over a connection the server has closed fails, or seems to work.
Sent(new) == IF up THEN inbox' = new ELSE UNCHANGED inbox

SendHeadFromHere ==  \* Mutant: Content-Length is what is left of the file
  /\ pc = "head"
  /\ left' = Len(req.file) - pos
  /\ Sent([some |-> TRUE, m |-> req.m, len |-> left', sent |-> <<>>])
  /\ pc' = IF req.m = "PUT" THEN "put" ELSE "wait"
  /\ UNCHANGED <<res, connected, up, wire, req, attempt, fresh, pos, resp, out,
                 written, result, clean>>

SendHead ==
  /\ pc = "head"
  /\ left' = Len(req.file)
  /\ Sent([some |-> TRUE, m |-> req.m, len |-> left', sent |-> <<>>])
  /\ pc' = IF req.m = "PUT" THEN "put" ELSE "wait"
  /\ UNCHANGED <<res, connected, up, wire, req, attempt, fresh, pos, resp, out,
                 written, result, clean>>

\* send_request_head() or a send_all() of the body fails.
SendFails ==
  /\ pc = "head" \/ (pc = "put" /\ left > 0 /\ pos < Len(req.file))
  /\ ~up /\ Stale
  /\ pos' = IF pc = "put" THEN pos + 1 ELSE pos
  /\ UNCHANGED <<req, fresh, body, clean>>

PutBlock ==
  /\ pc = "put" /\ left > 0 /\ pos < Len(req.file)
  /\ Sent([inbox EXCEPT !.sent = Append(@, req.file[pos + 1])])
  /\ pos' = pos + 1 /\ left' = left - 1
  /\ UNCHANGED <<res, connected, up, wire, pc, req, attempt, fresh, resp, out,
                 written, result, clean>>

\* The progress callback, asked after every block, wants no more.
PutStoppedStaysOpen ==  \* Mutant: and the connection is kept
  /\ pc = "put" /\ left < Len(req.file) /\ Hitch("stop") /\ Return("failed")
  /\ UNCHANGED <<res, link, req, attempt, fresh, pos, body>>

PutStopped ==
  /\ pc = "put" /\ left < Len(req.file) /\ Hitch("stop") /\ Fail
  /\ UNCHANGED <<req, attempt, fresh, pos, body>>

\* Read() has nothing more to give, though the file should be longer.
PutEndsEarly ==
  /\ pc = "put" /\ left > 0
  /\ IF pos = Len(req.file) THEN UNCHANGED clean ELSE Hitch("read")
  /\ Fail /\ UNCHANGED <<req, attempt, fresh, pos, body>>

PutDone ==
  /\ pc = "put" /\ left = 0 /\ pc' = "wait"
  /\ UNCHANGED <<res, link, req, attempt, fresh, pos, body, result, clean>>

\* read_head() succeeds.  A 204 never carries a body, whatever the header.
ReadHeadTo204 ==  \* Mutant: a 204 is like any other answer
  /\ pc = "wait" /\ wire # <<>> /\ Head(wire).tag = "head"
  /\ resp' = Head(wire).val /\ left' = resp'.len
  /\ wire' = Tail(wire) /\ written' = 0 /\ pc' = "body"
  /\ UNCHANGED <<res, connected, up, inbox, req, attempt, fresh, pos, out, result, clean>>

ReadHead ==
  /\ pc = "wait" /\ wire # <<>> /\ Head(wire).tag = "head"
  /\ resp' = LET h == Head(wire).val
             IN IF h.status = 204 THEN [h EXCEPT !.framing = "length"] ELSE h
  /\ left' = resp'.len
  /\ wire' = Tail(wire) /\ written' = 0 /\ pc' = "body"
  /\ UNCHANGED <<res, connected, up, inbox, req, attempt, fresh, pos, out, result, clean>>

\* Mutant: only a send that fails makes a kept connection stale.
NoHeadFails ==
  /\ pc = "wait"
  /\ IF wire = <<>> THEN ~up ELSE Head(wire).tag # "head"
  /\ Fail /\ UNCHANGED <<req, attempt, fresh, pos, body, clean>>

\* The connection ends before the answer, or what comes is no status line.
NoHead ==
  /\ pc = "wait"
  /\ IF wire = <<>> THEN ~up ELSE Head(wire).tag # "head"
  /\ Stale /\ UNCHANGED <<req, fresh, pos, body, clean>>

InBody == pc = "body" /\ wire # <<>> /\ Head(wire).tag = "block"
            /\ (resp.framing = "length" => left > 0)

\* One block goes to the file, or to memory.
ReadBlock ==
  /\ InBody /\ wire' = Tail(wire) /\ written' = written + 1
  /\ left' = IF resp.framing = "length" THEN left - 1 ELSE left
  /\ out' = IF req.m = "GET" THEN Append(out, Head(wire).val) ELSE out
  /\ UNCHANGED <<res, connected, up, inbox, pc, req, attempt, fresh, pos, resp,
                 result, clean>>

\* sink.failed: "transfer failed".
SinkFails ==
  /\ InBody /\ Fail
  /\ Hitch("stop") \/ Hitch(IF req.m = "GET" THEN "write" ELSE "memory")
  /\ UNCHANGED <<req, attempt, fresh, pos, body>>

BodyLostAgain ==  \* Mutant: retried on a new connection too
  /\ pc = "body" /\ wire = <<>> /\ ~up /\ Close
  /\ resp.framing = "chunked" \/ (resp.framing = "length" /\ left > 0)
  /\ pc' = "connect" /\ attempt' = attempt + 1
  /\ UNCHANGED <<result, req, fresh, pos, body, clean>>

\* "server closed mid-body on a reused connection: retry once".  The file
\* stays as it is, and is written on from there.
BodyLost ==
  /\ pc = "body" /\ wire = <<>> /\ ~up /\ Close
  /\ resp.framing = "chunked" \/ (resp.framing = "length" /\ left > 0)
  /\ IF ~fresh /\ attempt = 0
     THEN pc' = "connect" /\ attempt' = 1 /\ UNCHANGED result
     ELSE Return("failed") /\ UNCHANGED attempt
  /\ UNCHANGED <<req, fresh, pos, body, clean>>

BodyEndsWhenLost ==  \* Mutant: a chunk that does not come is the last
  /\ pc = "body"
  /\ CASE resp.framing = "length"  -> left = 0 /\ UNCHANGED wire
       [] resp.framing = "chunked" -> \/ wire # <<>> /\ Head(wire).tag = "end" /\ wire' = Tail(wire)
                                      \/ wire = <<>> /\ ~up /\ UNCHANGED wire
       [] resp.framing = "close"   -> wire = <<>> /\ ~up /\ UNCHANGED wire

\* The end of the body, if there is one to be seen: one that ends with the
\* connection may have lost its end with it.
BodyEnds ==
  /\ pc = "body"
  /\ CASE resp.framing = "length"  -> left = 0 /\ UNCHANGED wire
       [] resp.framing = "chunked" -> wire # <<>> /\ Head(wire).tag = "end" /\ wire' = Tail(wire)
       [] resp.framing = "close"   -> wire = <<>> /\ ~up /\ UNCHANGED wire

AcceptedAnyway ==  \* Mutant: an answer is an answer
  CASE req.m = "GET"      -> resp.status = 200
    [] req.m = "PROPFIND" -> resp.status = 207
    [] OTHER              -> TRUE

\* "bad XML": NsListing reads a listing that is whole, and one that ends
\* before its first element.
Parses == written \in {0, Len(resp.full)}

\* What the functions of nsdav.c take for a success.
Declared == IF resp.framing = "length" THEN resp.len ELSE 0
Accepted ==
  CASE req.m = "GET"      -> resp.status = 200 /\ (Declared > 0 => written = Declared)
    [] req.m = "PUT"      -> resp.status \in {200, 201, 204}
    [] req.m = "DELETE"   -> resp.status \in {204, 404}
    [] req.m = "MKCOL"    -> resp.status \in {201, 405}
    [] req.m = "PROPFIND" -> resp.status = 207 /\ Parses

\* The answer is complete.  "out of memory" leaves the connection as it is.
Done ==
  /\ BodyEnds
  /\ \/ /\ Return(IF Accepted THEN "ok" ELSE "refused")
        /\ IF resp.closing THEN connected' = FALSE /\ up' = FALSE ELSE UNCHANGED <<connected, up>>
        /\ UNCHANGED clean
     \/ /\ req.m # "GET" /\ Hitch("memory") /\ Return("failed")
        /\ UNCHANGED <<connected, up>>
  /\ UNCHANGED <<res, inbox, req, attempt, fresh, pos, body>>

(***************************************************************************)
(* The specification                                                       *)
(***************************************************************************)
Server == Serve \/ Refuse \/ IdleClose \/ Drop
Sending == Connect \/ Keep \/ SendHead \/ SendFails \/ PutBlock \/ PutStopped
             \/ PutEndsEarly \/ PutDone
Receiving == ReadHead \/ NoHead \/ ReadBlock \/ SinkFails \/ BodyLost \/ Done
Client == Sending \/ Receiving

Next == Server \/ Client \/ \E m \in Methods, f \in Contents : Request(m, f)

Spec == Init /\ [][Next]_vars

\* No call of the client times out, so a server must answer or hang up.
Fairness == WF_vars(Client) /\ WF_vars(Serve)
FairSpec == Spec /\ Fairness

(***************************************************************************)
(* Properties                                                              *)
(***************************************************************************)
Heads == [status : Nat, framing : AllFramings, len : Nat, closing : BOOLEAN,
          full : Seq(Block \cup {Page}), mine : BOOLEAN]
Items == [tag : {"head"}, val : Heads] \cup [tag : {"block"}, val : Block \cup {Page}]
           \cup [tag : {"end"}, val : {0}]

\* Type invariant, and what the counters are within.
TypeOK ==
  /\ res \in Contents \cup {NoRes, Coll}
  /\ connected \in BOOLEAN /\ up \in BOOLEAN /\ fresh \in BOOLEAN /\ clean \in BOOLEAN
  /\ pc \in {"idle", "connect", "head", "put", "wait", "body"}
  /\ result \in {"none", "ok", "refused", "failed"}
  /\ req \in [m : Methods, file : Contents \cup {<<>>}]
  /\ req.m = "PUT" => req.file \in Contents
  /\ inbox \in [some : BOOLEAN, m : Methods, len : Nat, sent : Seq(Block)]
  /\ wire \in Seq(Items) /\ resp \in Heads /\ out \in Seq(Block \cup {Page})
  /\ attempt \in 0..1 /\ pos \in 0..Len(req.file)
  /\ left \in Nat /\ written \in Nat

\* The answer that is read is the answer to this very attempt, never one
\* left over on the kept connection from a request that was given up.
Paired == pc = "body" => resp.mine

\* The inductive invariant behind Paired and PutWhole.  Between requests a
\* connection is quiet ...
Quiet == pc \in {"idle", "connect", "head"} => ~inbox.some /\ wire = <<>>

\* ... while one is sent, the server has the blocks of this attempt, which
\* end at the position of the file ...
Position ==
  pc \in {"put", "wait"} => Len(req.file) <= left + pos /\ left <= Len(req.file)
Asked ==
  inbox.some =>
    /\ pc \in {"put", "wait"} /\ up /\ wire = <<>>
    /\ inbox.m = req.m /\ inbox.len = Len(req.file)
    /\ Len(inbox.sent) + left = Len(req.file)
    /\ \A i \in 1..Len(inbox.sent) : inbox.sent[i] = req.file[pos - Len(inbox.sent) + i]

\* ... and what is on the wire is the answer to it, or the beginning of it:
\* a head, the blocks that are not yet read, and the mark of the end.
Shape(w, n, framing) ==
  /\ Len(w) <= n + (IF framing = "chunked" THEN 1 ELSE 0)
  /\ \A i \in 1..Len(w) : w[i].tag = IF i <= n THEN "block" ELSE "end"
Answered ==
  (pc \in {"put", "wait"} /\ wire # <<>>) =>
    /\ Head(wire).tag = "head" /\ Head(wire).val.mine
    /\ Head(wire).val.status = 204 => Head(wire).val.framing # "chunked"
    /\ Shape(Tail(wire), Head(wire).val.len, Head(wire).val.framing)
Reading ==
  pc = "body" =>
    /\ resp.mine /\ ~inbox.some /\ written <= resp.len
    /\ resp.framing = "length" => left = resp.len - written
    /\ Shape(wire, resp.len - written, resp.framing)

LinkInv == Quiet /\ Position /\ Asked /\ Answered /\ Reading

\* A PUT replaces the file on the server by the whole file or not at all,
\* even when it is sent again with the file handle where it was left.
Whole == IsFile(res') /\ res' # res => res' = req.file
PutWhole == [][Whole]_vars

Promise == INSTANCE NsTransport WITH
  asked <- pc # "idle",
  got <- IF pc = "idle" /\ result = "ok" THEN out ELSE <<>>

\* A request that succeeds has had its effect, also when the answer to the
\* first attempt was lost and the second found it already done (404, 405).
Achieved == (pc = "idle" /\ result = "ok") => Promise!Met

\* Every step of a request is one the engine was promised, or none: also what
\* a GET brings, over kept connections and a second attempt, is the resource
\* itself as long as nothing goes wrong.
Implements == Promise!Spec

\* "An interrupted transfer cannot leave a corrupt file": what is renamed
\* into place is the body of the answer, where the answer says where it ends.
Downloaded == pc = "idle" /\ result = "ok" /\ req.m = "GET"
DownloadExact == Downloaded /\ resp.framing # "close" => out = resp.full

\* Short of that, a download is the body when nothing went wrong, whatever
\* ends it.  Where the answer says where it ends it is the body as well when
\* nothing was sent again, and otherwise ends in the body: truncated it is not.
EndsWith(s, t) == Len(t) <= Len(s) /\ SubSeq(s, Len(s) - Len(t) + 1, Len(s)) = t
DownloadWhole ==
  Downloaded =>
    /\ clean => out = resp.full
    /\ resp.framing # "close" =>
         EndsWith(out, resp.full) /\ (attempt = 0 => out = resp.full)

\* A listing that counts is the whole listing, for what it does not show is
\* taken for deleted on the server: unless the connection was to end it and
\* ended before the first element, which leaves that of an empty folder.
ListingWhole ==
  (pc = "idle" /\ result = "ok" /\ req.m = "PROPFIND") =>
    written = Len(resp.full) \/ (written = 0 /\ resp.framing = "close")

\* "Connections are kept alive across requests and transparently reopened
\* when the server closes them": a request fails on the way only when
\* something went wrong after it began.
Gone == pc = "idle" /\ result = "failed" /\ clean
Reopened == ~Gone

\* Short of that, it is so for every request but a PUT of a file with
\* something in it, whose file handle is not rewound.
ReopenedButPut == Gone => req.m = "PUT" /\ req.file # <<>>

\* Every request comes to its end, however often connections are lost.
RequestEnds == (pc # "idle") ~> (pc = "idle")
=============================================================================
