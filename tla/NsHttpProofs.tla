---------------------------- MODULE NsHttpProofs ----------------------------
(***************************************************************************)
(* Proofs about NsHttp, for all files, faults and framings: its types, the *)
(* invariant of the kept connection, that an answer is never taken for the *)
(* answer to another request, and that a PUT stores a whole file or none;  *)
(* then that do_request() and its callers keep what NsTransport promises   *)
(* the sync engine, that what is downloaded is never cut short, and that   *)
(* the server's closing of a kept connection makes only a PUT fail.        *)
(***************************************************************************)
EXTENDS NsHttp, SequenceTheorems, TLAPS

USE HttpAssumption

Inv == TypeOK /\ LinkInv

\* The file to be sent is a sequence of blocks.
LEMMA FilesAreSequences ==
  ASSUME TypeOK
  PROVE  /\ req.file \in Seq(Block) /\ Len(req.file) \in Nat
         /\ \A i \in 1..Len(req.file) : req.file[i] \in Block
<1>1. req.file \in Seq(Block)
  BY EmptySeq DEF TypeOK
<1> QED BY <1>1, LenProperties, ElementOfSeq

\* What Close, and with it every failure, keeps.
LEMMA CloseTypes ==
  ASSUME Inv, Close
  PROVE  /\ connected' \in BOOLEAN /\ up' \in BOOLEAN
         /\ inbox' \in [some : BOOLEAN, m : Methods, len : Nat, sent : Seq(Block)]
         /\ wire' \in Seq(Items) /\ ~inbox'.some /\ wire' = <<>>
<1>1. Empty \in [some : BOOLEAN, m : Methods, len : Nat, sent : Seq(Block)]
  BY EmptySeq DEF Empty, Methods
<1>2. <<>> \in Seq(Items)
  BY EmptySeq
<1> QED BY <1>1, <1>2 DEF Close, Empty

\* A request that has come in full holds the whole file.
LEMMA CompleteIsWhole ==
  ASSUME Inv, Complete
  PROVE  inbox.m = req.m /\ inbox.sent = req.file
<1>1. inbox.some /\ Len(inbox.sent) = inbox.len
  BY DEF Complete
<1>2. inbox.sent \in Seq(Block) /\ req.file \in Seq(Block) /\ Len(req.file) \in Nat
  BY FilesAreSequences DEF Inv, TypeOK
<1>3. /\ inbox.m = req.m /\ Len(inbox.sent) = Len(req.file)
      /\ Len(inbox.sent) + left = Len(req.file) /\ Len(req.file) <= left + pos
      /\ pos \in 0..Len(req.file) /\ left \in Nat
  BY <1>1 DEF Inv, TypeOK, LinkInv, Asked, Position
<1>4. pos = Len(inbox.sent)
  BY <1>2, <1>3
<1>5. \A i \in 1..Len(inbox.sent) : inbox.sent[i] = req.file[i]
  <2>1. \A i \in 1..Len(inbox.sent) : inbox.sent[i] = req.file[pos - Len(inbox.sent) + i]
    BY <1>1 DEF Inv, LinkInv, Asked
  <2> QED BY <2>1, <1>2, <1>3, <1>4
<1> QED BY <1>2, <1>3, <1>5, SeqEqual

\* What a request does to the resource.
LEMMA EffectIsWhole ==
  ASSUME Inv, Complete
  PROVE  Effect \in {res, NoRes, Coll, req.file} /\ Effect \in Contents \cup {NoRes, Coll}
<1>1. inbox.m = req.m /\ inbox.sent = req.file
  BY CompleteIsWhole
<1>2. Effect \in {res, NoRes, Coll, req.file}
  BY <1>1 DEF Effect
<1>3. inbox.m = "PUT" => req.file \in Contents
  BY <1>1 DEF Inv, TypeOK
<1> QED BY <1>1, <1>2, <1>3 DEF Effect, Inv, TypeOK

\* However a request is given up, the connection is quiet after it.
LEMMA Abandoned ==
  ASSUME Inv, Close, pc' \in {"idle", "connect"},
         UNCHANGED <<req, fresh, body>>, result' \in {result, "failed"},
         attempt' \in 0..1, clean' \in BOOLEAN, pos' \in 0..Len(req.file)
  PROVE  Inv'
<1>1. res' \in Contents \cup {NoRes, Coll}
  BY EffectIsWhole DEF Close, Inv, TypeOK
<1>2. TypeOK'
  BY <1>1, CloseTypes DEF Inv, TypeOK, body
<1>3. LinkInv'
  BY CloseTypes DEF LinkInv, Quiet, Position, Asked, Answered, Reading
<1> QED BY <1>2, <1>3 DEF Inv

\* So it is when a kept connection turns out to be stale.
LEMMA StaleKept ==
  ASSUME Inv, Stale, UNCHANGED <<req, fresh, body>>, clean' \in BOOLEAN,
         pos' \in 0..Len(req.file)
  PROVE  Inv'
<1>1. attempt' \in 0..1 /\ pc' \in {"idle", "connect"} /\ result' \in {result, "failed"}
  BY DEF Stale, Return, Inv, TypeOK
<1> QED BY <1>1, Abandoned DEF Stale

\* What follows a head is the body of the answer from its block n + 1 on, as
\* far as it goes, or to its end.
Carries(w, full, n) == \A i \in 1..Len(w) : w[i].tag = "block" => w[i].val = full[n + i]
EndMark(framing) == IF framing = "chunked" THEN 1 ELSE 0
CarriesAll(w, h) ==
  h.len = Len(h.full) /\ Carries(w, h.full, 0) /\ Len(w) = h.len + EndMark(h.framing)

\* An answer is a head, the blocks it announces, and a mark of the end when
\* it is chunked.
LEMMA AnswerShape ==
  ASSUME NEW status \in Nat, NEW framing \in AllFramings, NEW closing \in BOOLEAN,
         BodyOf(status) \in Seq(Block \cup {Page}),
         NEW a, a = Answer(status, framing, closing)
  PROVE  /\ a \in Seq(Items) /\ a # <<>>
         /\ Head(a).tag = "head" /\ Head(a).val.mine /\ Head(a).val.status = status
         /\ Head(a).val.status = 204 => Head(a).val.framing # "chunked"
         /\ Shape(Tail(a), Head(a).val.len, Head(a).val.framing)
         /\ CarriesAll(Tail(a), Head(a).val) /\ Head(a).val.full = BodyOf(status)
<1> DEFINE b == BodyOf(status)
           h == [status |-> status, framing |-> IF status = 204 THEN "close" ELSE framing,
                 len |-> Len(b), closing |-> closing, full |-> b, mine |-> TRUE]
           first == [tag |-> "head", val |-> h]
           blocks == [i \in 1..Len(b) |-> [tag |-> "block", val |-> b[i]]]
           end == IF framing = "chunked" /\ status # 204
                  THEN <<[tag |-> "end", val |-> 0]>> ELSE <<>>
<1>1. a = <<first>> \o blocks \o end
  BY DEF Answer
<1>2. Len(b) \in Nat /\ \A i \in 1..Len(b) : b[i] \in Block \cup {Page}
  BY LenProperties, ElementOfSeq
<1>3. h \in Heads
  BY <1>2 DEF Heads, AllFramings
<1>4. <<first>> \in Seq(Items) /\ Len(<<first>>) = 1 /\ <<first>>[1] = first
  BY <1>3 DEF Items
<1>5. blocks \in Seq(Items) /\ Len(blocks) = Len(b)
  <2>1. \A i \in 1..Len(b) : blocks[i] \in Items
    BY <1>2 DEF Items
  <2> QED BY <2>1, <1>2
<1>6. /\ end \in Seq(Items) /\ Len(end) \in {0, 1}
      /\ \A i \in 1..Len(end) : end[i].tag = "end"
      /\ Len(end) = EndMark(h.framing)
  <2> DEFINE e == [tag |-> "end", val |-> 0]
  <2>1. CASE framing = "chunked" /\ status # 204
    <3>1. e \in Items /\ e.tag = "end"
      BY DEF Items
    <3> HIDE DEF e
    <3>2. <<e>> \in Seq(Items) /\ Len(<<e>>) = 1 /\ \A i \in 1..Len(<<e>>) : <<e>>[i] = e
      BY <3>1
    <3>3. end = <<e>> /\ h.framing = "chunked"
      BY <2>1 DEF e
    <3> QED BY <3>1, <3>2, <3>3 DEF EndMark
  <2>2. CASE ~(framing = "chunked" /\ status # 204)
    <3>1. end = <<>> /\ h.framing # "chunked"
      BY <2>2
    <3> QED BY <3>1, EmptySeq DEF EndMark
  <2> QED BY <2>1, <2>2
<1> DEFINE fb == <<first>> \o blocks
<1> HIDE DEF h, first, blocks, end
<1>8. fb \in Seq(Items) /\ Len(fb) = 1 + Len(b)
      /\ \A i \in 1..Len(fb) : fb[i] = IF i <= 1 THEN first ELSE blocks[i - 1]
  <2>1. /\ fb \in Seq(Items) /\ Len(fb) = Len(<<first>>) + Len(blocks)
        /\ \A i \in 1..(Len(<<first>>) + Len(blocks)) :
             fb[i] = IF i <= Len(<<first>>) THEN <<first>>[i] ELSE blocks[i - Len(<<first>>)]
    BY <1>4, <1>5, ConcatProperties
  <2> HIDE DEF fb
  <2>2. Len(fb) = 1 + Len(b)
    BY <2>1, <1>4, <1>5
  <2>3. ASSUME NEW i \in 1..Len(fb) PROVE fb[i] = IF i <= 1 THEN first ELSE blocks[i - 1]
    <3>1. fb[i] = IF i <= 1 THEN <<first>>[i] ELSE blocks[i - 1]
      BY <2>1, <2>2, <1>4, <1>5
    <3> QED BY <3>1, <1>4
  <2> QED BY <2>1, <2>2, <2>3
<1>9. a \in Seq(Items) /\ Len(a) = 1 + Len(b) + Len(end)
      /\ \A i \in 1..Len(a) : a[i] = IF i <= Len(fb) THEN fb[i] ELSE end[i - Len(fb)]
  <2>0. a = fb \o end
    BY <1>1
  <2> HIDE DEF fb
  <2>1. /\ a \in Seq(Items) /\ Len(a) = Len(fb) + Len(end)
        /\ \A i \in 1..(Len(fb) + Len(end)) :
             a[i] = IF i <= Len(fb) THEN fb[i] ELSE end[i - Len(fb)]
    BY <2>0, <1>6, <1>8, ConcatProperties
  <2>2. Len(a) = 1 + Len(b) + Len(end)
    BY <2>1, <1>8
  <2> QED BY <2>1, <2>2
<1> HIDE DEF fb
<1>10. a # <<>> /\ Head(a) = first
  BY <1>2, <1>6, <1>8, <1>9
<1>11. Tail(a) \in Seq(Items) /\ Len(Tail(a)) = Len(b) + Len(end)
       /\ \A i \in 1..Len(Tail(a)) : Tail(a)[i] = a[i + 1]
  BY <1>2, <1>6, <1>9, <1>10, HeadTailProperties
<1>12. \A i \in 1..Len(b) : blocks[i].tag = "block" /\ blocks[i].val = b[i]
  BY DEF blocks
<1>13. \A i \in 1..Len(Tail(a)) :
         /\ Tail(a)[i].tag = IF i <= Len(b) THEN "block" ELSE "end"
         /\ i <= Len(b) => Tail(a)[i].val = b[i]
  <2>1. ASSUME NEW i \in 1..Len(Tail(a)), i <= Len(b) 
             PROVE Tail(a)[i].tag = "block" /\ Tail(a)[i].val = b[i]
    <3>0. i \in 1..(Len(b) + Len(end)) /\ Len(fb) = 1 + Len(b) /\ Len(b) \in Nat
           /\ Len(end) \in Nat /\ Len(a) = 1 + Len(b) + Len(end)
      BY <1>2, <1>6, <1>8, <1>9, <1>11
    <3>1. /\ i + 1 <= Len(fb) /\ ~(i + 1 <= 1) /\ i + 1 \in 1..Len(a)
          /\ i + 1 \in 1..Len(fb) /\ i \in 1..Len(b) /\ i + 1 - 1 = i
      BY <3>0, <2>1
    <3>2. Tail(a)[i] = a[i + 1]
      BY <1>11
    <3>3. a[i + 1] = fb[i + 1]
      BY <3>1, <1>9
    <3>4. fb[i + 1] = blocks[i]
      BY <3>1, <1>8
    <3> QED BY <3>1, <3>2, <3>3, <3>4, <1>12
  <2>2. ASSUME NEW i \in 1..Len(Tail(a)), ~(i <= Len(b)) PROVE Tail(a)[i].tag = "end"
    <3>0. i \in 1..(Len(b) + Len(end)) /\ Len(fb) = 1 + Len(b) /\ Len(b) \in Nat
           /\ Len(end) \in Nat /\ Len(a) = 1 + Len(b) + Len(end)
      BY <1>2, <1>6, <1>8, <1>9, <1>11
    <3>1. ~(i + 1 <= Len(fb)) /\ i + 1 \in 1..Len(a) /\ i + 1 - Len(fb) \in 1..Len(end)
      BY <3>0, <2>2
    <3>2. Tail(a)[i] = a[i + 1]
      BY <1>11
    <3>3. a[i + 1] = end[i + 1 - Len(fb)]
      BY <3>1, <1>9
    <3> QED BY <3>1, <3>2, <3>3, <1>6
  <2> QED BY <2>1, <2>2
<1>14. /\ first.tag = "head" /\ first.val.mine /\ first.val.len = Len(b)
       /\ first.val.framing = h.framing /\ first.val.status = status
       /\ first.val.status = 204 => first.val.framing # "chunked"
       /\ first.val.full = b
  BY DEF first, h
<1>15. Shape(Tail(a), first.val.len, first.val.framing)
  <2>1. Len(Tail(a)) <= first.val.len + (IF first.val.framing = "chunked" THEN 1 ELSE 0)
    BY <1>2, <1>6, <1>11, <1>14 DEF EndMark
  <2> QED BY <2>1, <1>13, <1>14 DEF Shape
<1>16. CarriesAll(Tail(a), first.val)
  <2>1. Carries(Tail(a), b, 0)
    <3>1. ASSUME NEW i \in 1..Len(Tail(a)), Tail(a)[i].tag = "block"
          PROVE  Tail(a)[i].val = b[0 + i]
      BY <3>1, <1>2, <1>13
    <3> QED BY <3>1 DEF Carries
  <2> QED BY <2>1, <1>6, <1>11, <1>14 DEF CarriesAll
<1> QED BY <1>9, <1>10, <1>14, <1>15, <1>16

\* The server answers: what a request has left in inbox is answered in full
\* on a quiet wire.
LEMMA Answering ==
  ASSUME Inv, inbox.some,
         NEW status \in Nat, NEW framing \in AllFramings, NEW closing \in BOOLEAN,
         status = 200 => IsFile(res),
         wire' = wire \o Answer(status, framing, closing), inbox' = Empty,
         up' \in BOOLEAN, clean' \in BOOLEAN, res' \in Contents \cup {NoRes, Coll},
         UNCHANGED <<connected, pc, req, attempt, fresh, pos, body, result>>
  PROVE  /\ Inv' /\ wire' # <<>> /\ Head(wire').val.status = status
         /\ Head(wire').val.full = BodyOf(status)
         /\ CarriesAll(Tail(wire'), Head(wire').val)
<1> DEFINE a == Answer(status, framing, closing)
<1>1. BodyOf(status) \in Seq(Block \cup {Page})
  <2>1. CASE status = 200
    <3>1. res \in Contents
      BY <2>1 DEF Inv, TypeOK, IsFile
    <3>2. BodyOf(status) = res
      BY <2>1 DEF BodyOf
    <3>3. res \in Seq(Block)
      BY <3>1
    <3> QED BY <3>2, <3>3
  <2>2. CASE status \in {201, 204}
    <3>1. BodyOf(status) = <<>>
      BY <2>2 DEF BodyOf
    <3> QED BY <3>1, EmptySeq
  <2>3. CASE status \notin {200, 201, 204}
    <3>1. BodyOf(status) \in {<<Page>>, <<Page, Page>>}
      BY <2>3 DEF BodyOf
    <3>2. <<Page>> \in Seq(Block \cup {Page}) /\ <<Page, Page>> \in Seq(Block \cup {Page})
      OBVIOUS
    <3> QED BY <3>1, <3>2
  <2> QED BY <2>1, <2>2, <2>3
<1>2. /\ a \in Seq(Items) /\ a # <<>>
      /\ Head(a).tag = "head" /\ Head(a).val.mine /\ Head(a).val.status = status
      /\ Head(a).val.status = 204 => Head(a).val.framing # "chunked"
      /\ Shape(Tail(a), Head(a).val.len, Head(a).val.framing)
      /\ CarriesAll(Tail(a), Head(a).val) /\ Head(a).val.full = BodyOf(status)
  BY <1>1, AnswerShape
<1> HIDE DEF a
<1>3. pc \in {"put", "wait"} /\ wire = <<>> /\ wire' = wire \o a
  BY DEF a, Inv, LinkInv, Asked
<1>4. wire' = a
  <2>1. <<>> \o a = a
    BY <1>2
  <2> QED BY <1>3, <2>1
<1>5. Empty \in [some : BOOLEAN, m : Methods, len : Nat, sent : Seq(Block)] /\ ~Empty.some
  BY EmptySeq DEF Empty, Methods
<1>6. TypeOK'
  BY <1>2, <1>4, <1>5 DEF Inv, TypeOK, body
<1>7. LinkInv'
  <2>1. Quiet' /\ Asked' /\ Reading'
    BY <1>3, <1>5 DEF Quiet, Asked, Reading
  <2>2. Position'
    BY DEF Inv, LinkInv, Position, body
  <2>3. Answered'
    BY <1>2, <1>4 DEF Answered
  <2> QED BY <2>1, <2>2, <2>3 DEF LinkInv
<1> QED BY <1>2, <1>4, <1>6, <1>7 DEF Inv

\* The server and the network keep the invariant: an answer comes whole or
\* is cut off from its end.
LEMMA ServerKeeps ==
  ASSUME Inv, Server
  PROVE  Inv'
<1>1. CASE Serve
  <2>1. inbox.some /\ Complete
    BY <1>1 DEF Serve, Complete
  <2>2. Status \in Nat /\ (Status = 200 => IsFile(res))
    <3>1. inbox.m \in Methods
      BY DEF Inv, TypeOK
    <3> QED BY <3>1 DEF Status, Methods
  <2>3. res' \in Contents \cup {NoRes, Coll}
    BY <1>1, <2>1, EffectIsWhole DEF Serve
  <2>4. PICK f \in Framings, closing \in BOOLEAN :
          /\ wire' = wire \o Answer(Status, f, closing)
          /\ up' = ~(closing \/ (f = "close" /\ Status # 204))
    BY <1>1 DEF Serve
  <2>5. up' \in BOOLEAN /\ clean' \in BOOLEAN /\ f \in AllFramings
    BY <1>1, <2>4 DEF Serve, Inv, TypeOK
  <2> QED BY <1>1, <2>1, <2>2, <2>3, <2>4, <2>5, Answering DEF Serve
<1>2. CASE Refuse
  <2>1. PICK f \in Framings : wire' = wire \o Answer(503, f, TRUE)
    BY <1>2 DEF Refuse
  <2>2. res' \in Contents \cup {NoRes, Coll} /\ f \in AllFramings /\ inbox.some
    BY <1>2 DEF Refuse, Inv, TypeOK
  <2>3. up' \in BOOLEAN /\ clean' \in BOOLEAN /\ inbox' = Empty
        /\ UNCHANGED <<connected, pc, req, attempt, fresh, pos, body, result>>
    BY <1>2 DEF Refuse
  <2>4. 503 \in Nat /\ TRUE \in BOOLEAN /\ (503 = 200 => IsFile(res))
    OBVIOUS
  <2> QED BY <2>1, <2>2, <2>3, <2>4, Answering
<1>3. CASE IdleClose
  <2>1. TypeOK'
    BY <1>3 DEF IdleClose, Inv, TypeOK, body
  <2>2. LinkInv'
    BY <1>3 DEF IdleClose, Inv, LinkInv, Quiet, Position, Asked, Answered, Reading, body
  <2> QED BY <2>1, <2>2 DEF Inv
<1>4. CASE Drop
  <2>1. PICK n \in 0..Len(wire) : wire' = SubSeq(wire, 1, n)
    BY <1>4 DEF Drop
  <2>2. wire \in Seq(Items) /\ Len(wire) \in Nat
    BY LenProperties DEF Inv, TypeOK
  <2>3. wire' \in Seq(Items) /\ Len(wire') = n /\ \A i \in 1..n : wire'[i] = wire[i]
    BY <2>1, <2>2
  <2>4. ~inbox'.some /\ inbox' \in [some : BOOLEAN, m : Methods, len : Nat, sent : Seq(Block)]
    BY <1>4, EmptySeq DEF Drop, Empty, Methods
  <2>5. TypeOK'
    BY <1>4, <2>3, <2>4 DEF Drop, Inv, TypeOK, body
  <2>6. Quiet' /\ Position' /\ Asked'
    <3>1. Quiet'
      BY <1>4, <2>2, <2>3, <2>4 DEF Drop, Inv, LinkInv, Quiet
    <3>2. Position'
      BY <1>4 DEF Drop, Inv, LinkInv, Position, body
    <3>3. Asked'
      BY <2>4 DEF Asked
    <3> QED BY <3>1, <3>2, <3>3
  <2>7. Answered'
    <3>1. SUFFICES ASSUME pc \in {"put", "wait"}, wire' # <<>>
                   PROVE  /\ Head(wire').tag = "head" /\ Head(wire').val.mine
                          /\ Head(wire').val.status = 204 => Head(wire').val.framing # "chunked"
                          /\ Shape(Tail(wire'), Head(wire').val.len, Head(wire').val.framing)
      BY <1>4 DEF Drop, Answered
    <3>2. n > 0 /\ wire # <<>>
      BY <2>2, <2>3, <3>1
    <3>3. Head(wire') = Head(wire) /\ Len(Tail(wire')) = n - 1 /\ Len(Tail(wire)) = Len(wire) - 1
      BY <2>2, <2>3, <3>1, <3>2, HeadTailProperties
    <3>4. \A i \in 1..(n - 1) : Tail(wire')[i] = Tail(wire)[i]
      BY <2>2, <2>3, <3>1, <3>2, HeadTailProperties
    <3>5. /\ Head(wire).tag = "head" /\ Head(wire).val.mine
          /\ Head(wire).val.status = 204 => Head(wire).val.framing # "chunked"
          /\ Shape(Tail(wire), Head(wire).val.len, Head(wire).val.framing)
      BY <3>1, <3>2 DEF Inv, LinkInv, Answered
    <3>6. Head(wire).val.len \in Nat
      BY <2>2, <3>2, <3>5, HeadTailProperties DEF Items, Heads
    <3>7. Shape(Tail(wire'), Head(wire).val.len, Head(wire).val.framing)
      BY <2>2, <3>2, <3>3, <3>4, <3>5, <3>6 DEF Shape
    <3> QED BY <3>3, <3>5, <3>7
  <2>8. Reading'
    <3>1. SUFFICES ASSUME pc = "body"
                   PROVE  Shape(wire', resp.len - written, resp.framing)
      BY <1>4, <2>4 DEF Drop, Inv, LinkInv, Reading, body
    <3>2. Shape(wire, resp.len - written, resp.framing)
      BY <3>1 DEF Inv, LinkInv, Reading
    <3>3. resp.len \in Nat /\ written \in Nat
      BY DEF Inv, TypeOK, Heads
    <3> QED BY <2>2, <2>3, <3>2, <3>3 DEF Shape
  <2> QED BY <2>5, <2>6, <2>7, <2>8 DEF Inv, LinkInv
<1> QED BY <1>1, <1>2, <1>3, <1>4 DEF Server

\* A new request finds the connection quiet, and leaves it quiet.
LEMMA RequestKeeps ==
  ASSUME Inv, NEW m \in Methods, NEW f \in Contents, Request(m, f)
  PROVE  Inv'
<1>1. req' \in [m : Methods, file : Contents \cup {<<>>}] /\ req'.m = m
      /\ (m = "PUT" => req'.file = f)
  BY DEF Request
<1>2. /\ NoResp \in Heads /\ <<>> \in Seq(Block \cup {Page})
  <2>1. <<>> \in Seq(Block \cup {Page})
    BY EmptySeq
  <2> QED BY <2>1 DEF NoResp, Heads, AllFramings
<1>3. Len(req'.file) \in Nat
  <2>1. req'.file \in Seq(Block)
    BY <1>1, EmptySeq
  <2> QED BY <2>1, LenProperties
<1>4. TypeOK'
  <2>1. 0 \in 0..Len(req'.file)
    BY <1>3
  <2> QED BY <1>1, <1>2, <2>1 DEF Request, Inv, TypeOK, link
<1>5. LinkInv'
  BY DEF Request, Inv, LinkInv, Quiet, Position, Asked, Answered, Reading, link
<1> QED BY <1>4, <1>5 DEF Inv

\* A new connection is quiet.
LEMMA ConnectKeeps ==
  ASSUME Inv, Connect
  PROVE  Inv'
<1>1. /\ ~inbox.some /\ wire = <<>> /\ ~Empty.some /\ <<>> \in Seq(Items)
      /\ Empty \in [some : BOOLEAN, m : Methods, len : Nat, sent : Seq(Block)]
  BY EmptySeq DEF Connect, Inv, LinkInv, Quiet, Empty, Methods
<1>2. ~inbox'.some /\ wire' = <<>> /\ pc' \in {"head", "idle"}
  BY <1>1 DEF Connect, Return, link
<1>3. TypeOK'
  BY <1>1 DEF Connect, Return, Hitch, Inv, TypeOK, link, body
<1>4. LinkInv'
  BY <1>2 DEF LinkInv, Quiet, Position, Asked, Answered, Reading
<1> QED BY <1>3, <1>4 DEF Inv

\* There is nothing left over that a kept connection could give.
LEMMA KeepKeeps ==
  ASSUME Inv, Keep
  PROVE  Inv'
<1>1. ~inbox.some /\ wire = <<>>
  BY DEF Keep, Inv, LinkInv, Quiet
<1>2. PICK n \in 0..Len(wire) : wire' = Forgotten(n)
  BY DEF Keep
<1>3. wire' = <<>>
  <2>1. Len(wire) = 0 /\ n = 0
    BY <1>1, <1>2, EmptySeq
  <2>2. 1..(Len(wire) - n) = {}
    BY <2>1
  <2> DEFINE g(i) == IF wire[n + i].tag = "head"
                     THEN [wire[n + i] EXCEPT !.val.mine = FALSE] ELSE wire[n + i]
  <2>3. wire' = [i \in {} |-> g(i)]
    BY <1>2, <2>2 DEF Forgotten
  <2> HIDE DEF g
  <2> QED BY <2>3
<1>4. wire' \in Seq(Items) /\ inbox' = inbox
  BY <1>3, EmptySeq DEF Keep
<1>5. TypeOK'
  BY <1>4 DEF Keep, Inv, TypeOK, body
<1>6. LinkInv'
  BY <1>1, <1>3 DEF Keep, LinkInv, Quiet, Position, Asked, Answered, Reading
<1> QED BY <1>5, <1>6 DEF Inv

\* A request begins with nothing sent of its file.
LEMMA SendHeadKeeps ==
  ASSUME Inv, SendHead
  PROVE  Inv'
<1>1. /\ ~inbox.some /\ wire = <<>> /\ wire' = <<>> /\ Len(req.file) \in Nat
      /\ pos \in 0..Len(req.file)
  BY FilesAreSequences DEF SendHead, Inv, LinkInv, Quiet, TypeOK
<1> DEFINE new == [some |-> TRUE, m |-> req.m, len |-> Len(req.file), sent |-> <<>>]
<1>2. /\ new \in [some : BOOLEAN, m : Methods, len : Nat, sent : Seq(Block)]
      /\ new.m = req.m /\ new.len = Len(req.file) /\ Len(new.sent) = 0
      /\ inbox' \in {inbox, new}
  BY <1>1, EmptySeq DEF SendHead, Sent, Inv, TypeOK
<1> HIDE DEF new
<1>3. pc' \in {"put", "wait"} /\ left' = Len(req.file) /\ UNCHANGED <<req, pos>>
  BY DEF SendHead
<1>4. TypeOK'
  BY <1>1, <1>2, <1>3 DEF SendHead, Inv, TypeOK
<1>5. Asked'
  <2>1. SUFFICES ASSUME inbox'.some PROVE Asked'
    BY DEF Asked
  <2>2. inbox' = new /\ up'
    BY <2>1, <1>1, <1>2 DEF SendHead, Sent
  <2>3. 1..Len(inbox'.sent) = {}
    BY <2>2, <1>2
  <2> QED BY <2>2, <2>3, <1>1, <1>2, <1>3 DEF Asked
<1>6. Position'
  BY <1>1, <1>3 DEF Position
<1>7. Quiet' /\ Answered' /\ Reading'
  BY <1>1, <1>3 DEF Quiet, Answered, Reading
<1> QED BY <1>4, <1>5, <1>6, <1>7 DEF Inv, LinkInv

\* A block goes to the end of what the server has, and the file moves on.
LEMMA PutBlockKeeps ==
  ASSUME Inv, PutBlock
  PROVE  Inv'
<1> DEFINE new == Append(inbox.sent, req.file[pos + 1])
<1>1. /\ Len(req.file) \in Nat /\ pos \in 0..Len(req.file) /\ left \in Nat
      /\ pos + 1 \in 1..Len(req.file) /\ req.file[pos + 1] \in Block
      /\ inbox.sent \in Seq(Block) /\ Len(inbox.sent) \in Nat
  BY FilesAreSequences, LenProperties DEF PutBlock, Inv, TypeOK
<1>2. /\ new \in Seq(Block) /\ Len(new) = Len(inbox.sent) + 1
      /\ new[Len(inbox.sent) + 1] = req.file[pos + 1]
      /\ \A i \in 1..Len(inbox.sent) : new[i] = inbox.sent[i]
  BY <1>1, AppendProperties
<1>3. inbox' = IF up THEN [inbox EXCEPT !.sent = new] ELSE inbox
  BY DEF PutBlock, Sent
<1> HIDE DEF new
<1>4. /\ inbox' \in [some : BOOLEAN, m : Methods, len : Nat, sent : Seq(Block)]
      /\ inbox'.some = inbox.some /\ inbox'.m = inbox.m /\ inbox'.len = inbox.len
      /\ up => inbox'.sent = new
  BY <1>2, <1>3 DEF Inv, TypeOK
<1>5. pc = "put" /\ pc' = "put" /\ pos' = pos + 1 /\ left' = left - 1 /\ left > 0
  BY DEF PutBlock
<1>6. TypeOK'
  <2>1. pos' \in 0..Len(req.file) /\ left' \in Nat
    BY <1>1, <1>5
  <2> QED BY <2>1, <1>4 DEF PutBlock, Inv, TypeOK
<1>7. Asked'
  <2>1. SUFFICES ASSUME inbox'.some PROVE Asked'
    BY DEF Asked
  <2>2. /\ up /\ wire = <<>> /\ inbox.m = req.m /\ inbox.len = Len(req.file)
        /\ Len(inbox.sent) + left = Len(req.file)
        /\ \A i \in 1..Len(inbox.sent) : inbox.sent[i] = req.file[pos - Len(inbox.sent) + i]
    BY <2>1, <1>4 DEF Inv, LinkInv, Asked
  <2>3. inbox'.sent = new /\ Len(new) + left' = Len(req.file)
    <3>1. inbox'.sent = new
      BY <2>2, <1>4
    <3>2. Len(new) + left' = Len(inbox.sent) + left
      BY <1>1, <1>2, <1>5
    <3> QED BY <3>1, <3>2, <2>2
  <2>4. ASSUME NEW i \in 1..Len(new) PROVE new[i] = req.file[pos' - Len(new) + i]
    <3> DEFINE k == Len(inbox.sent)
    <3>0. k \in Nat /\ i \in 1..(k + 1) /\ Len(new) = k + 1 /\ pos \in Nat /\ pos' = pos + 1
      BY <1>1, <1>2, <1>5
    <3>1. CASE i = k + 1
      <4>1. new[i] = req.file[pos + 1]
        BY <3>1, <1>2
      <4> HIDE DEF k
      <4>2. pos' - Len(new) + i = pos + 1
        BY <3>0, <3>1
      <4> QED BY <4>1, <4>2
    <3>2. CASE i # k + 1
      <4>1. i \in 1..k
        BY <3>0, <3>2
      <4>2. new[i] = inbox.sent[i] /\ inbox.sent[i] = req.file[pos - k + i]
        BY <4>1, <2>2, <1>2
      <4> HIDE DEF k
      <4>3. pos' - Len(new) + i = pos - k + i
        BY <3>0
      <4> QED BY <4>2, <4>3
    <3> QED BY <3>1, <3>2
  <2> QED BY <2>2, <2>3, <2>4, <1>4, <1>5 DEF PutBlock, Asked
<1>8. Position'
  BY <1>1, <1>5 DEF PutBlock, Inv, LinkInv, Position
<1>9. Quiet' /\ Answered' /\ Reading'
  BY <1>5 DEF PutBlock, Inv, LinkInv, Quiet, Answered, Reading
<1> QED BY <1>6, <1>7, <1>8, <1>9 DEF Inv, LinkInv

\* The steps of do_request() up to the end of the request.
LEMMA SendingKeeps ==
  ASSUME Inv, Sending
  PROVE  Inv'
<1>1. Len(req.file) \in Nat /\ pos \in 0..Len(req.file)
  BY FilesAreSequences DEF Inv, TypeOK
<1>2. CASE SendFails
  <2>1. pos' \in 0..Len(req.file) /\ clean' \in BOOLEAN
    BY <1>1, <1>2 DEF SendFails, Inv, TypeOK
  <2> QED BY <1>2, <2>1, StaleKept DEF SendFails
<1>3. CASE PutStopped
  <2>1. /\ pos' \in 0..Len(req.file) /\ clean' \in BOOLEAN /\ attempt' \in 0..1
        /\ Close /\ pc' = "idle" /\ result' = "failed" /\ UNCHANGED <<req, fresh, body>>
    BY <1>1, <1>3 DEF PutStopped, Fail, Return, Hitch, Inv, TypeOK
  <2> QED BY <2>1, Abandoned
<1>4. CASE PutEndsEarly
  <2>1. /\ pos' \in 0..Len(req.file) /\ clean' \in BOOLEAN /\ attempt' \in 0..1
        /\ Close /\ pc' = "idle" /\ result' = "failed" /\ UNCHANGED <<req, fresh, body>>
    BY <1>1, <1>4 DEF PutEndsEarly, Fail, Return, Hitch, Inv, TypeOK
  <2> QED BY <2>1, Abandoned
<1>5. CASE PutDone
  <2>1. TypeOK'
    BY <1>5 DEF PutDone, Inv, TypeOK, link, body
  <2>2. LinkInv'
    BY <1>5 DEF PutDone, Inv, LinkInv, Quiet, Position, Asked, Answered, Reading, link, body
  <2> QED BY <2>1, <2>2 DEF Inv
<1> QED BY <1>2, <1>3, <1>4, <1>5, ConnectKeeps, KeepKeeps, SendHeadKeeps, PutBlockKeeps
        DEF Sending

\* The head of the answer is taken off the wire; its body is left there.
LEMMA ReadHeadKeeps ==
  ASSUME Inv, ReadHead
  PROVE  Inv'
<1> DEFINE h == Head(wire).val
<1>1. pc = "wait" /\ wire \in Seq(Items) /\ wire # <<>> /\ Head(wire).tag = "head"
  BY DEF ReadHead, Inv, TypeOK
<1>2. Tail(wire) \in Seq(Items) /\ Head(wire) \in Items
  BY <1>1, HeadTailProperties
<1>3. h \in Heads
  BY <1>1, <1>2 DEF Items
<1>4. /\ h.mine
      /\ h.status = 204 => h.framing # "chunked"
      /\ Shape(Tail(wire), h.len, h.framing)
  BY <1>1 DEF Inv, LinkInv, Answered
<1>5. resp' = IF h.status = 204 THEN [h EXCEPT !.framing = "length"] ELSE h
  BY DEF ReadHead
<1> HIDE DEF h
<1>6. /\ resp' \in Heads /\ resp'.mine /\ resp'.len = h.len /\ h.len \in Nat
      /\ resp'.framing = "chunked" <=> h.framing = "chunked"
  <2>1. CASE h.status = 204
    <3>1. resp' = [h EXCEPT !.framing = "length"] /\ h.framing # "chunked"
      BY <2>1, <1>4, <1>5
    <3> QED BY <3>1, <1>3, <1>4 DEF Heads, AllFramings
  <2>2. CASE h.status # 204
    <3>1. resp' = h
      BY <2>2, <1>5
    <3> QED BY <3>1, <1>3, <1>4 DEF Heads
  <2> QED BY <2>1, <2>2
<1>7. /\ wire' = Tail(wire) /\ written' = 0 /\ left' = h.len /\ pc' = "body"
      /\ ~inbox.some /\ inbox' = inbox
  BY <1>1, <1>6 DEF ReadHead, Inv, LinkInv, Asked
<1>8. TypeOK'
  BY <1>2, <1>6, <1>7 DEF ReadHead, Inv, TypeOK
<1>9. Shape(wire', resp'.len - written', resp'.framing)
  BY <1>4, <1>6, <1>7 DEF Shape
<1>10. LinkInv'
  BY <1>6, <1>7, <1>9 DEF LinkInv, Quiet, Position, Asked, Answered, Reading
<1> QED BY <1>8, <1>10 DEF Inv

\* A block of the body is taken off the wire.
LEMMA ReadBlockKeeps ==
  ASSUME Inv, ReadBlock
  PROVE  Inv'
<1>1. /\ pc = "body" /\ wire \in Seq(Items) /\ wire # <<>> /\ Head(wire).tag = "block"
      /\ resp.framing = "length" => left > 0
      /\ written \in Nat /\ left \in Nat /\ resp \in Heads /\ resp.len \in Nat
  BY DEF ReadBlock, InBody, Inv, TypeOK, Heads
<1>2. /\ Tail(wire) \in Seq(Items) /\ Head(wire) \in Items /\ Head(wire) = wire[1]
      /\ Len(wire) \in Nat /\ Len(wire) >= 1 /\ Len(Tail(wire)) = Len(wire) - 1
      /\ \A i \in 1..Len(Tail(wire)) : Tail(wire)[i] = wire[i + 1]
  BY <1>1, HeadTailProperties, LenProperties, EmptySeq
<1>3. Head(wire).val \in Block \cup {Page}
  BY <1>1, <1>2 DEF Items
<1>4. /\ resp.mine /\ ~inbox.some /\ written <= resp.len
      /\ resp.framing = "length" => left = resp.len - written
      /\ Shape(wire, resp.len - written, resp.framing)
  BY <1>1 DEF Inv, LinkInv, Reading
<1>5. written < resp.len
  <2>1. 1 \in 1..Len(wire)
    BY <1>2
  <2>2. wire[1].tag = IF 1 <= resp.len - written THEN "block" ELSE "end"
    BY <2>1, <1>4 DEF Shape
  <2> QED BY <2>2, <1>1, <1>2
<1>6. /\ wire' = Tail(wire) /\ written' = written + 1 /\ pc' = "body" /\ resp' = resp
      /\ left' = (IF resp.framing = "length" THEN left - 1 ELSE left) /\ inbox' = inbox
  BY <1>1 DEF ReadBlock
<1>7. TypeOK'
  <2>1. left' \in Nat /\ written' \in Nat
    BY <1>1, <1>6
  <2>2. out' \in Seq(Block \cup {Page})
    <3>1. out \in Seq(Block \cup {Page})
      BY DEF Inv, TypeOK
    <3>2. Append(out, Head(wire).val) \in Seq(Block \cup {Page})
      BY <3>1, <1>3, AppendProperties
    <3> QED BY <3>1, <3>2 DEF ReadBlock
  <2> QED BY <2>1, <2>2, <1>2 DEF ReadBlock, Inv, TypeOK
<1>8. Shape(wire', resp.len - written', resp.framing)
  <2> DEFINE n == resp.len - written
             w == Tail(wire)
  <2>1. resp.len - written' = n - 1 /\ n \in Nat
    BY <1>1, <1>5, <1>6
  <2>2. Len(w) <= (n - 1) + (IF resp.framing = "chunked" THEN 1 ELSE 0)
    BY <2>1, <1>2, <1>4 DEF Shape
  <2>3. ASSUME NEW i \in 1..Len(w) PROVE w[i].tag = IF i <= n - 1 THEN "block" ELSE "end"
    <3>1. i + 1 \in 1..Len(wire) /\ w[i] = wire[i + 1] /\ (i + 1 <= n <=> i <= n - 1)
      BY <2>1, <1>2
    <3>2. wire[i + 1].tag = IF i + 1 <= n THEN "block" ELSE "end"
      BY <3>1, <1>4 DEF Shape
    <3> QED BY <3>1, <3>2
  <2> HIDE DEF n, w
  <2>4. Shape(w, n - 1, resp.framing)
    BY <2>2, <2>3 DEF Shape
  <2> QED BY <2>1, <2>4, <1>6 DEF w
<1>9. LinkInv'
  <2>1. written' <= resp.len /\ (resp.framing = "length" => left' = resp.len - written')
    BY <1>1, <1>4, <1>5, <1>6
  <2> QED BY <2>1, <1>4, <1>6, <1>8
          DEF LinkInv, Quiet, Position, Asked, Answered, Reading
<1> QED BY <1>7, <1>9 DEF Inv

\* When the body is at its end nothing of it is left on the wire.
LEMMA DoneKeeps ==
  ASSUME Inv, Done
  PROVE  Inv'
<1>1. /\ pc = "body" /\ wire \in Seq(Items) /\ written \in Nat /\ left \in Nat
      /\ resp.len \in Nat /\ resp.framing \in AllFramings
  BY DEF Done, BodyEnds, Inv, TypeOK, Heads
<1>2. /\ ~inbox.some /\ written <= resp.len
      /\ resp.framing = "length" => left = resp.len - written
      /\ Len(wire) <= (resp.len - written) + (IF resp.framing = "chunked" THEN 1 ELSE 0)
      /\ \A i \in 1..Len(wire) :
           wire[i].tag = IF i <= resp.len - written THEN "block" ELSE "end"
  BY <1>1 DEF Inv, LinkInv, Reading, Shape
<1>3. wire' = <<>>
  <2>1. CASE resp.framing = "length"
    <3>1. left = 0 /\ wire' = wire
      BY <2>1 DEF Done, BodyEnds
    <3>2. Len(wire) = 0
      BY <3>1, <2>1, <1>1, <1>2, LenProperties
    <3> QED BY <3>1, <3>2, <1>1, EmptySeq
  <2>2. CASE resp.framing = "chunked"
    <3>1. wire # <<>> /\ Head(wire).tag = "end" /\ wire' = Tail(wire)
      BY <2>2 DEF Done, BodyEnds
    <3>2. /\ Len(wire) \in Nat /\ Len(wire) >= 1 /\ Head(wire) = wire[1]
          /\ Tail(wire) \in Seq(Items) /\ Len(Tail(wire)) = Len(wire) - 1
      BY <3>1, <1>1, HeadTailProperties, LenProperties, EmptySeq
    <3>3. ~(1 <= resp.len - written)
      <4>1. 1 \in 1..Len(wire)
        BY <3>2
      <4>2. wire[1].tag = IF 1 <= resp.len - written THEN "block" ELSE "end"
        BY <4>1, <1>2
      <4> QED BY <4>2, <3>1, <3>2
    <3>4. Len(Tail(wire)) = 0
      BY <3>2, <3>3, <2>2, <1>1, <1>2
    <3> QED BY <3>1, <3>2, <3>4, EmptySeq
  <2>3. CASE resp.framing = "close"
    BY <2>3 DEF Done, BodyEnds
  <2> QED BY <2>1, <2>2, <2>3, <1>1 DEF AllFramings
<1>4. pc' = "idle" /\ inbox' = inbox
  BY DEF Done, Return
<1>5. TypeOK'
  <2>1. wire' \in Seq(Items)
    BY <1>3, EmptySeq
  <2> QED BY <2>1 DEF Done, Return, Hitch, Inv, TypeOK, body
<1>6. LinkInv'
  BY <1>2, <1>3, <1>4 DEF LinkInv, Quiet, Position, Asked, Answered, Reading
<1> QED BY <1>5, <1>6 DEF Inv

\* The steps of do_request() from the answer on.
LEMMA ReceivingKeeps ==
  ASSUME Inv, Receiving
  PROVE  Inv'
<1>1. pos \in 0..Len(req.file) /\ attempt \in 0..1 /\ clean \in BOOLEAN
  BY DEF Inv, TypeOK
<1>2. CASE NoHead
  BY <1>1, <1>2, StaleKept DEF NoHead
<1>3. CASE SinkFails
  <2>1. /\ pos' \in 0..Len(req.file) /\ clean' \in BOOLEAN /\ attempt' \in 0..1
        /\ Close /\ pc' = "idle" /\ result' = "failed" /\ UNCHANGED <<req, fresh, body>>
    BY <1>1, <1>3 DEF SinkFails, Fail, Return, Hitch
  <2> QED BY <2>1, Abandoned
<1>4. CASE BodyLost
  <2>1. /\ pos' \in 0..Len(req.file) /\ clean' \in BOOLEAN /\ attempt' \in 0..1
        /\ Close /\ pc' \in {"idle", "connect"} /\ result' \in {result, "failed"}
        /\ UNCHANGED <<req, fresh, body>>
    BY <1>1, <1>4 DEF BodyLost, Return
  <2> QED BY <2>1, Abandoned
<1> QED BY <1>2, <1>3, <1>4, ReadHeadKeeps, ReadBlockKeeps, DoneKeeps DEF Receiving

\* A new handle has no connection.
LEMMA InitLink ==
  ASSUME Init
  PROVE  Inv
<1>1. <<>> \in Seq(Block) /\ <<>> \in Seq(Items) /\ <<>> \in Seq(Block \cup {Page})
      /\ Len(<<>>) = 0
  BY EmptySeq
<1>2. TypeOK
  <2>1. Empty \in [some : BOOLEAN, m : Methods, len : Nat, sent : Seq(Block)]
    BY <1>1 DEF Empty, Methods
  <2>2. NoResp \in Heads
    BY <1>1 DEF NoResp, Heads, AllFramings
  <2>3. req \in [m : Methods, file : Contents \cup {<<>>}] /\ req.m # "PUT"
        /\ pos \in 0..Len(req.file)
    BY <1>1 DEF Init, Methods
  <2>4. /\ inbox \in [some : BOOLEAN, m : Methods, len : Nat, sent : Seq(Block)]
        /\ wire \in Seq(Items) /\ resp \in Heads /\ out \in Seq(Block \cup {Page})
    BY <1>1, <2>1, <2>2 DEF Init
  <2>5. /\ res \in Contents \cup {NoRes, Coll} /\ pc = "idle" /\ result = "none"
        /\ attempt \in 0..1 /\ left \in Nat /\ written \in Nat
    BY DEF Init
  <2>6. connected \in BOOLEAN /\ up \in BOOLEAN /\ fresh \in BOOLEAN /\ clean \in BOOLEAN
    BY Zenon DEF Init
  <2> QED BY <2>3, <2>4, <2>5, <2>6 DEF TypeOK
<1>3. LinkInv
  BY DEF Init, LinkInv, Quiet, Position, Asked, Answered, Reading, Empty
<1> QED BY <1>2, <1>3 DEF Inv

\* Every step keeps the invariant.
LEMMA NextKeeps ==
  ASSUME Inv, [Next]_vars
  PROVE  Inv'
<1>1. CASE UNCHANGED vars
  <2>1. TypeOK'
    BY <1>1 DEF Inv, TypeOK, vars, link, body
  <2>2. LinkInv'
    BY <1>1 DEF Inv, LinkInv, Quiet, Position, Asked, Answered, Reading, vars, link, body
  <2> QED BY <2>1, <2>2 DEF Inv
<1> QED BY <1>1, ServerKeeps, SendingKeeps, ReceivingKeeps, RequestKeeps DEF Next, Client

\* The invariant holds throughout.
LEMMA InvHolds == Spec => []Inv
<1> QED BY InitLink, NextKeeps, PTL DEF Spec

\* Every variable keeps its type and every counter its bounds: at most one
\* retry, and never more read of a file than there is of it.
THEOREM TypeInvariant == Spec => []TypeOK
<1> QED BY InvHolds, PTL DEF Inv

\* The kept connection: whatever is lost, refused or given up, between two
\* requests nothing is left on it that a later one could take for its own.
THEOREM LinkInvariant == Spec => [](TypeOK /\ LinkInv)
<1> QED BY InvHolds, PTL DEF Inv

\* do_request() never reads the answer to another request as its own.
THEOREM AnswersPaired == Spec => []Paired
<1>1. Inv => Paired
  BY DEF Inv, LinkInv, Reading, Paired
<1> QED BY <1>1, InvHolds, PTL

\* A PUT leaves the whole file on the server or what was there, although a
\* second attempt sends on from where the first left the file handle.
THEOREM PutStoresWhole == Spec => PutWhole
<1>1. ASSUME Inv, [Next]_vars PROVE [Whole]_vars
  <2>1. CASE Serve
    BY <1>1, <2>1, EffectIsWhole DEF Serve, Whole, IsFile
  <2>2. CASE Close
    BY <1>1, <2>2, EffectIsWhole DEF Close, Whole, IsFile
  <2>3. CASE UNCHANGED res
    BY <2>3 DEF Whole
  <2>4. Serve \/ Close \/ UNCHANGED res
    BY <1>1 DEF Next, Server, Refuse, IdleClose, Drop, Client, Sending, Connect, Keep,
                SendHead, SendFails, PutBlock, PutStopped, PutEndsEarly, PutDone, Receiving,
                ReadHead, NoHead, ReadBlock, SinkFails, BodyLost, Done, Stale, Fail,
                Request, vars
  <2> QED BY <2>1, <2>2, <2>3, <2>4
<1> QED BY <1>1, InvHolds, PTL DEF Spec, PutWhole

(***************************************************************************)
(* What an answer tells                                                    *)
(***************************************************************************)
\* The status codes nsdav.c takes for a success of what changes something.
Succeeds(status) ==
  IF req.m = "PUT" THEN status \in {200, 201, 204}
  ELSE IF req.m = "DELETE" THEN status \in {204, 404}
  ELSE IF req.m = "MKCOL" THEN status \in {201, 405}
  ELSE FALSE

\* An answer that tells of a success is true, and one that is to bring the
\* resource is about to bring it, from the time it is on the wire until it has
\* been read.  This and LinkInv are the invariant.
Truthful(h) == (Succeeds(h.status) => Promise!Met) /\ (h.status = 200 => h.full = res)
Told ==
  /\ (pc \in {"put", "wait"} /\ wire # <<>>) => Truthful(Head(wire).val)
  /\ pc = "body" => Truthful(resp)

\* What the server does is what was asked for.
LEMMA EffectIsWanted ==
  ASSUME Inv, Complete
  PROVE  Effect = Promise!Wanted /\ inbox.m = req.m /\ inbox.sent = req.file
<1>1. inbox.m = req.m /\ inbox.sent = req.file
  BY CompleteIsWhole
<1>2. req.m \in Methods
  BY DEF Inv, TypeOK
<1>3. CASE req.m = "PUT"
  BY <1>1, <1>3 DEF Effect, Promise!Wanted
<1>4. CASE req.m = "DELETE"
  BY <1>1, <1>4 DEF Effect, Promise!Wanted
<1>5. CASE req.m = "MKCOL"
  BY <1>1, <1>5 DEF Effect, Promise!Wanted
<1>6. CASE req.m \notin {"PUT", "DELETE", "MKCOL"}
  BY <1>1, <1>6 DEF Effect, Promise!Wanted
<1> QED BY <1>1, <1>3, <1>4, <1>5, <1>6

\* However a request is given up, it was carried out as a whole or not.
LEMMA CloseWants ==
  ASSUME Inv, Close
  PROVE  res' \in {res, Promise!Wanted}
<1> QED BY EffectIsWanted DEF Close

\* When the server reports a success, what was asked for is so.
LEMMA ServeTells ==
  ASSUME Inv, Serve, Succeeds(Status)
  PROVE  Promise!Met'
<1>1. Complete /\ res' = Effect /\ req' = req
  BY DEF Serve
<1>2. res' = Promise!Wanted /\ inbox.m = req.m
  BY <1>1, EffectIsWanted
<1>3. CASE req.m = "PUT"
  <2>1. res # Coll
    BY <1>2, <1>3 DEF Status, Succeeds
  <2> QED BY <2>1, <1>1, <1>2, <1>3 DEF Promise!Wanted, Promise!Met
<1>4. CASE req.m = "DELETE"
  BY <1>1, <1>2, <1>4 DEF Promise!Wanted, Promise!Met
<1>5. CASE req.m = "MKCOL"
  <2>1. res' # NoRes
    BY <1>2, <1>5, HttpAssumption DEF Promise!Wanted
  <2> QED BY <2>1, <1>1, <1>5 DEF Promise!Met
<1>6. CASE req.m \notin {"PUT", "DELETE", "MKCOL"}
  BY <1>6 DEF Succeeds
<1> QED BY <1>3, <1>4, <1>5, <1>6

\* The server, the network and the answer on its way.
LEMMA ServerTells ==
  ASSUME Inv, Told, Server
  PROVE  Told'
<1>1. CASE Serve
  <2>1. PICK f \in Framings, closing \in BOOLEAN :
          /\ wire' = wire \o Answer(Status, f, closing)
          /\ up' = ~(closing \/ (f = "close" /\ Status # 204))
    BY <1>1 DEF Serve
  <2>2. inbox.some /\ Complete /\ pc \in {"put", "wait"}
    BY <1>1 DEF Serve, Complete, Inv, LinkInv, Asked
  <2>3. Status \in Nat /\ (Status = 200 => IsFile(res))
    <3>1. inbox.m \in Methods
      BY DEF Inv, TypeOK
    <3> QED BY <3>1 DEF Status, Methods
  <2>4. up' \in BOOLEAN /\ clean' \in BOOLEAN /\ f \in AllFramings
    BY <1>1, <2>1 DEF Serve, Inv, TypeOK
  <2>5. res' \in Contents \cup {NoRes, Coll}
    BY <1>1, <2>2, EffectIsWhole DEF Serve
  <2>6. wire' # <<>> /\ Head(wire').val.status = Status /\ Head(wire').val.full = BodyOf(Status)
    BY <1>1, <2>1, <2>2, <2>3, <2>4, <2>5, Answering DEF Serve
  <2>7. pc' # "body" /\ req' = req
    BY <1>1, <2>2 DEF Serve
  <2>8. Succeeds(Head(wire).val.status)' => Succeeds(Status)
    BY <2>6, <2>7 DEF Succeeds
  <2>9. Succeeds(Head(wire).val.status)' => Promise!Met'
    BY <1>1, <2>8, ServeTells
  <2>10. Head(wire').val.status = 200 => Head(wire').val.full = res'
    <3>1. ASSUME Status = 200 PROVE BodyOf(Status) = res'
      <4>1. inbox.m \in Methods
        BY DEF Inv, TypeOK
      <4>2. inbox.m = "GET"
        BY <3>1, <4>1 DEF Status, Methods
      <4> QED BY <1>1, <3>1, <4>2 DEF Serve, Effect, BodyOf
    <3> QED BY <2>6, <3>1
  <2> QED BY <2>7, <2>9, <2>10 DEF Told, Truthful
<1>2. CASE Refuse
  <2>1. PICK f \in Framings : wire' = wire \o Answer(503, f, TRUE)
    BY <1>2 DEF Refuse
  <2>2. /\ inbox.some /\ pc \in {"put", "wait"} /\ inbox' = Empty
        /\ up' \in BOOLEAN /\ clean' \in BOOLEAN /\ f \in AllFramings
        /\ res' \in Contents \cup {NoRes, Coll}
        /\ UNCHANGED <<connected, pc, req, attempt, fresh, pos, body, result>>
    BY <1>2 DEF Refuse, Inv, TypeOK, LinkInv, Asked
  <2>3. 503 \in Nat /\ TRUE \in BOOLEAN /\ (503 = 200 => IsFile(res))
    OBVIOUS
  <2>4. Head(wire').val.status = 503
    BY <2>1, <2>2, <2>3, Answering
  <2> QED BY <2>2, <2>4 DEF Told, Truthful, Succeeds
<1>3. CASE IdleClose
  BY <1>3 DEF IdleClose, Told
<1>4. CASE Drop
  <2>1. PICK n \in 0..Len(wire) : wire' = SubSeq(wire, 1, n)
    BY <1>4 DEF Drop
  <2>2. wire \in Seq(Items) /\ Len(wire) \in Nat
    BY LenProperties DEF Inv, TypeOK
  <2>3. wire' # <<>> => wire # <<>> /\ Head(wire') = Head(wire)
    BY <2>1, <2>2
  <2>4. UNCHANGED <<res, req, pc, resp>>
    BY <1>4 DEF Drop, body
  <2>5. Promise!Met' = Promise!Met
    BY <2>4 DEF Promise!Met
  <2> QED BY <2>3, <2>4, <2>5 DEF Told, Truthful, Succeeds
<1> QED BY <1>1, <1>2, <1>3, <1>4 DEF Server

\* The client: what is read of an answer is as true as the answer.
LEMMA ClientTells ==
  ASSUME Inv, Told, Client
  PROVE  Told'
<1>1. CASE pc' \in {"idle", "connect", "head"}
  BY <1>1 DEF Told
<1>2. CASE SendHead
  <2>1. wire' = <<>> /\ pc' \in {"put", "wait"}
    BY <1>2 DEF SendHead, Inv, LinkInv, Quiet
  <2> QED BY <2>1 DEF Told
<1>3. CASE PutBlock \/ PutDone
  <2>1. UNCHANGED <<res, req, wire>> /\ pc \in {"put", "wait"} /\ pc' \in {"put", "wait"}
    BY <1>3 DEF PutBlock, PutDone, link
  <2>2. Promise!Met' = Promise!Met
    BY <2>1 DEF Promise!Met
  <2> QED BY <2>1, <2>2 DEF Told, Truthful, Succeeds
<1>4. CASE ReadHead
  <2>1. UNCHANGED <<res, req>> /\ pc = "wait" /\ wire # <<>> /\ pc' = "body"
    BY <1>4 DEF ReadHead
  <2>2. resp'.status = Head(wire).val.status /\ resp'.full = Head(wire).val.full
    <3>1. Head(wire).val \in Heads
      BY <1>4, HeadTailProperties DEF ReadHead, Inv, TypeOK, Items
    <3> QED BY <1>4, <3>1 DEF ReadHead, Heads
  <2>3. Promise!Met' = Promise!Met
    BY <2>1 DEF Promise!Met
  <2> QED BY <2>1, <2>2, <2>3 DEF Told, Truthful, Succeeds
<1>5. CASE ReadBlock
  <2>1. UNCHANGED <<res, req, resp, pc>> /\ pc = "body"
    BY <1>5 DEF ReadBlock, InBody
  <2>2. Promise!Met' = Promise!Met
    BY <2>1 DEF Promise!Met
  <2> QED BY <2>1, <2>2 DEF Told, Truthful, Succeeds
<1>6. \/ pc' \in {"idle", "connect", "head"}
      \/ SendHead \/ PutBlock \/ PutDone \/ ReadHead \/ ReadBlock
  BY DEF Client, Sending, Receiving, Connect, Keep, SendFails, PutStopped, PutEndsEarly,
         NoHead, SinkFails, BodyLost, Done, Stale, Fail, Return
<1> QED BY <1>1, <1>2, <1>3, <1>4, <1>5, <1>6

\* Told is kept by every step.
LEMMA ToldKept ==
  ASSUME Inv, Told, [Next]_vars
  PROVE  Told'
<1>1. CASE UNCHANGED vars
  BY <1>1 DEF Told, Truthful, Succeeds, Promise!Met, vars, link, body
<1>2. CASE \E m \in Methods, f \in Contents : Request(m, f)
  BY <1>2 DEF Request, Told
<1> QED BY <1>1, <1>2, ServerTells, ClientTells DEF Next

(***************************************************************************)
(* What a download that is done has brought, and when requests fail        *)
(***************************************************************************)
\* The file written so far ends in what was read of this answer, and is that
\* when nothing was sent again or nothing went wrong.  The wire holds the
\* blocks that come next.
Arrived(s, full, n) ==
  /\ n <= Len(s) /\ \A i \in 1..n : s[Len(s) - n + i] = full[i]
  /\ (attempt = 0 \/ clean) => Len(s) = n
Announced(h) == h.len = Len(h.full) /\ Carries(Tail(wire), h.full, 0)
Delivering ==
  /\ (pc \in {"put", "wait"} /\ wire # <<>>) => Announced(Head(wire).val)
  /\ pc = "body" =>
       /\ resp.len = Len(resp.full) /\ Carries(wire, resp.full, written)
       /\ req.m = "GET" => Arrived(out, resp.full, written)
  /\ (pc \notin {"idle", "body"} /\ (attempt = 0 \/ clean)) => out = <<>>
  /\ DownloadWhole

\* As long as nothing goes wrong a new connection stays up until the server
\* has answered, and an answer is on the wire to its end.
Retried ==
  attempt > 0 => /\ pc = "connect" => ~connected
                 /\ pc \in {"head", "put", "wait", "body"} => fresh
Clean ==
  clean =>
    /\ (fresh /\ pc \in {"head", "put", "wait"}) => (up \/ wire # <<>>)
    /\ (pc \in {"put", "wait"} /\ wire # <<>>) =>
         CarriesAll(Tail(wire), Head(wire).val)
    /\ (pc = "put" /\ wire # <<>>) => left = 0
    /\ pc = "body" => Len(wire) = resp.len - written + EndMark(resp.framing)
Reopening ==
  /\ Retried /\ Clean /\ ReopenedButPut
  /\ pc = "put" => req.m = "PUT"

\* What the server answers is on the wire from its head to its end, ...
LEMMA AnswerDelivers ==
  ASSUME Inv, Delivering, Reopening, inbox.some, wire' # <<>>,
         CarriesAll(Tail(wire'), Head(wire').val), clean' => (clean /\ left = 0),
         UNCHANGED <<connected, pc, req, attempt, fresh, pos, body, result>>
  PROVE  Delivering' /\ Reopening'
<1>1. pc \in {"put", "wait"}
  BY DEF Inv, LinkInv, Asked
<1>2. Announced(Head(wire).val)'
  BY DEF Announced, CarriesAll
<1>3. Delivering'
  BY <1>1, <1>2 DEF Delivering, DownloadWhole, Downloaded, body
<1>4. Retried' /\ ReopenedButPut'
  BY <1>1 DEF Reopening, Retried, ReopenedButPut, Gone
<1>5. Clean'
  BY <1>1 DEF Clean, body
<1> QED BY <1>1, <1>3, <1>4, <1>5 DEF Reopening

\* ... or cut off, when something has gone wrong.
LEMMA ServerDelivers ==
  ASSUME Inv, Delivering, Reopening, Server
  PROVE  Delivering' /\ Reopening'
<1>1. CASE Serve
  <2>1. PICK f \in Framings, closing \in BOOLEAN :
          /\ wire' = wire \o Answer(Status, f, closing)
          /\ up' = ~(closing \/ (f = "close" /\ Status # 204))
    BY <1>1 DEF Serve
  <2>2. inbox.some /\ Complete /\ pc \in {"put", "wait"}
    BY <1>1 DEF Serve, Complete, Inv, LinkInv, Asked
  <2>3. Status \in Nat /\ (Status = 200 => IsFile(res))
    <3>1. inbox.m \in Methods
      BY DEF Inv, TypeOK
    <3> QED BY <3>1 DEF Status, Methods
  <2>4. up' \in BOOLEAN /\ clean' \in BOOLEAN /\ f \in AllFramings
    BY <1>1, <2>1 DEF Serve, Inv, TypeOK
  <2>5. res' \in Contents \cup {NoRes, Coll}
    BY <1>1, <2>2, EffectIsWhole DEF Serve
  <2>6. wire' # <<>> /\ CarriesAll(Tail(wire'), Head(wire').val)
    BY <1>1, <2>1, <2>2, <2>3, <2>4, <2>5, Answering DEF Serve
  <2>7. left = 0
    BY <2>2, FilesAreSequences DEF Complete, Inv, TypeOK, LinkInv, Asked
  <2> QED BY <1>1, <2>2, <2>6, <2>7, AnswerDelivers DEF Serve
<1>2. CASE Refuse
  <2>1. PICK f \in Framings : wire' = wire \o Answer(503, f, TRUE)
    BY <1>2 DEF Refuse
  <2>2. /\ inbox.some /\ inbox' = Empty /\ ~clean'
        /\ up' \in BOOLEAN /\ clean' \in BOOLEAN /\ f \in AllFramings
        /\ res' \in Contents \cup {NoRes, Coll}
        /\ UNCHANGED <<connected, pc, req, attempt, fresh, pos, body, result>>
    BY <1>2 DEF Refuse, Inv, TypeOK
  <2>3. 503 \in Nat /\ TRUE \in BOOLEAN /\ (503 = 200 => IsFile(res))
    OBVIOUS
  <2>4. wire' # <<>> /\ CarriesAll(Tail(wire'), Head(wire').val)
    BY <2>1, <2>2, <2>3, Answering
  <2> QED BY <2>2, <2>4, AnswerDelivers
<1>3. CASE IdleClose
  <2>1. pc = "idle" /\ UNCHANGED <<pc, req, attempt, connected, wire, fresh, body, result, clean>>
    BY <1>3 DEF IdleClose
  <2>2. Delivering'
    BY <2>1 DEF Delivering, DownloadWhole, Downloaded, body
  <2>3. Reopening'
    BY <2>1 DEF Reopening, Retried, Clean, ReopenedButPut, Gone
  <2> QED BY <2>2, <2>3
<1>4. CASE Drop
  <2>1. PICK n \in 0..Len(wire) : wire' = SubSeq(wire, 1, n)
    BY <1>4 DEF Drop
  <2>2. wire \in Seq(Items) /\ Len(wire) \in Nat
    BY LenProperties DEF Inv, TypeOK
  <2>3. wire' \in Seq(Items) /\ Len(wire') = n /\ \A i \in 1..n : wire'[i] = wire[i]
    BY <2>1, <2>2
  <2>4. /\ pc # "idle" /\ ~clean'
        /\ UNCHANGED <<pc, req, attempt, connected, fresh, body, result>>
    BY <1>4 DEF Drop
  <2>5. ASSUME pc \in {"put", "wait"}, wire' # <<>> PROVE Announced(Head(wire).val)'
    <3>1. n > 0 /\ wire # <<>>
      BY <2>2, <2>3, <2>5
    <3>2. Head(wire') = Head(wire) /\ Len(Tail(wire')) = n - 1 /\ Len(Tail(wire)) = Len(wire) - 1
      BY <2>2, <2>3, <2>5, <3>1, HeadTailProperties
    <3>3. \A i \in 1..(n - 1) : Tail(wire')[i] = Tail(wire)[i]
      BY <2>2, <2>3, <2>5, <3>1, HeadTailProperties
    <3>4. Announced(Head(wire).val)
      BY <2>5, <3>1 DEF Delivering
    <3>5. \A i \in 1..(n - 1) : i \in 1..Len(Tail(wire))
      BY <2>2, <3>2
    <3> QED BY <3>2, <3>3, <3>4, <3>5 DEF Announced, Carries
  <2>6. ASSUME pc = "body" PROVE Carries(wire', resp.full, written)
    BY <2>2, <2>3, <2>6 DEF Delivering, Carries
  <2>7. ASSUME pc = "body", req.m = "GET" PROVE Arrived(out, resp.full, written)
    BY <2>7 DEF Delivering
  <2>8. Delivering'
    <3>1. (pc \in {"put", "wait"} /\ wire # <<>>)' => Announced(Head(wire).val)'
      BY <2>4, <2>5
    <3>2. pc' = "body" => /\ resp'.len = Len(resp'.full) /\ Carries(wire', resp'.full, written')
                          /\ req'.m = "GET" => Arrived(out, resp.full, written)'
      BY <2>4, <2>6, <2>7 DEF Arrived, body, Delivering
    <3> QED BY <2>4, <3>1, <3>2 DEF Delivering, DownloadWhole, Downloaded, body
  <2>9. Reopening'
    BY <2>4 DEF Reopening, Retried, Clean, ReopenedButPut, Gone
  <2> QED BY <2>8, <2>9
<1> QED BY <1>1, <1>2, <1>3, <1>4 DEF Server

\* A request that is given up delivers nothing, and with nothing gone wrong
\* only a PUT is given up.
LEMMA GivenUpDelivers ==
  ASSUME Inv, Delivering, pc' = "idle", result' = "failed", UNCHANGED req,
         clean' => req.m = "PUT" /\ req.file # <<>>
  PROVE  Delivering' /\ (Retried /\ attempt' = attempt => Reopening')
<1>1. Delivering'
  BY DEF Delivering, DownloadWhole, Downloaded
<1>2. ReopenedButPut'
  BY DEF ReopenedButPut, Gone
<1> QED BY <1>1, <1>2 DEF Reopening, Retried, Clean

\* Nor does one that is sent again over a new connection, once.
LEMMA AgainDelivers ==
  ASSUME Inv, Delivering, Close, pc' = "connect", attempt' = 1, out' = out,
         pc \in {"head", "put", "wait", "body"}, clean' => (clean /\ pc # "body")
  PROVE  Delivering' /\ Reopening'
<1>1. Delivering'
  BY DEF Delivering, DownloadWhole, Downloaded
<1>2. Reopening'
  BY DEF Close, Reopening, Retried, Clean, ReopenedButPut, Gone
<1> QED BY <1>1, <1>2

\* A kept connection that turns out to be stale is opened anew, a new one is
\* not stale as long as nothing has gone wrong.
LEMMA StaleDelivers ==
  ASSUME Inv, Delivering, Reopening, Stale, UNCHANGED <<req, clean>>, ~up,
         clean => wire = <<>>, pc \in {"head", "put", "wait"}, out' = out
  PROVE  Delivering' /\ Reopening'
<1>1. CASE fresh \/ attempt > 0
  <2>1. fresh
    BY <1>1 DEF Reopening, Retried
  <2>2. ~clean
    BY <2>1 DEF Reopening, Clean
  <2>3. pc' = "idle" /\ result' = "failed" /\ attempt' = attempt
    BY <1>1 DEF Stale, Return
  <2> QED BY <2>2, <2>3, GivenUpDelivers DEF Reopening
<1>2. CASE ~(fresh \/ attempt > 0)
  <2>1. Close /\ pc' = "connect" /\ attempt' = 1
    BY <1>2 DEF Stale, Inv, TypeOK
  <2> QED BY <2>1, AgainDelivers
<1> QED BY <1>1, <1>2

\* What is done before the answer is read.
LEMMA SendingDelivers ==
  ASSUME Inv, Delivering, Reopening, Sending
  PROVE  Delivering' /\ Reopening'
<1>1. CASE Connect
  <2>1. CASE result' = "failed" /\ pc' = "idle" /\ ~clean'
    <3>1. UNCHANGED <<req, attempt>>
      BY <1>1 DEF Connect
    <3> QED BY <2>1, <3>1, GivenUpDelivers DEF Reopening
  <2>2. CASE pc' = "head" /\ up' /\ fresh' /\ UNCHANGED clean
    <3>1. pc = "connect" /\ UNCHANGED <<req, attempt, out>>
      BY <1>1 DEF Connect, body
    <3>2. Delivering'
      BY <2>2, <3>1 DEF Delivering, DownloadWhole, Downloaded
    <3> QED BY <2>2, <3>1, <3>2 DEF Reopening, Retried, Clean, ReopenedButPut, Gone
  <2> QED BY <1>1, <2>1, <2>2 DEF Connect, Hitch, Return
<1>2. CASE Keep
  <2>1. /\ pc = "connect" /\ connected /\ pc' = "head" /\ ~fresh'
        /\ UNCHANGED <<req, attempt, out, clean>>
    BY <1>2 DEF Keep, body
  <2>2. attempt = 0
    BY <2>1 DEF Reopening, Retried, Inv, TypeOK
  <2>3. Delivering'
    BY <2>1 DEF Delivering, DownloadWhole, Downloaded
  <2> QED BY <2>1, <2>2, <2>3 DEF Reopening, Retried, Clean, ReopenedButPut, Gone
<1>3. CASE SendHead
  <2>1. /\ pc = "head" /\ pc' \in {"put", "wait"} /\ (pc' = "put" => req'.m = "PUT")
        /\ wire = <<>> /\ UNCHANGED <<req, attempt, out, fresh, up, wire, clean>>
    BY <1>3 DEF SendHead, Inv, LinkInv, Quiet
  <2>2. Delivering'
    BY <2>1 DEF Delivering, DownloadWhole, Downloaded
  <2> QED BY <2>1, <2>2 DEF Reopening, Retried, Clean, ReopenedButPut, Gone
<1>4. CASE SendFails
  <2>1. /\ Stale /\ ~up /\ UNCHANGED <<req, clean, out>>
        /\ pc = "head" \/ (pc = "put" /\ left > 0)
    BY <1>4 DEF SendFails, body
  <2>2. left > 0 => left # 0
    OBVIOUS
  <2>3. clean => wire = <<>>
    BY <2>1, <2>2 DEF Inv, LinkInv, Quiet, Reopening, Clean
  <2> QED BY <2>1, <2>3, StaleDelivers
<1>5. CASE PutBlock
  <2>1. /\ pc = "put" /\ left # 0
        /\ UNCHANGED <<pc, req, attempt, out, fresh, up, wire, clean, connected>>
    BY <1>5 DEF PutBlock
  <2>2. clean => wire = <<>>
    BY <2>1 DEF Reopening, Clean
  <2>3. Delivering'
    BY <2>1 DEF Delivering, DownloadWhole, Downloaded, Announced
  <2> QED BY <2>1, <2>2, <2>3 DEF Reopening, Retried, Clean, ReopenedButPut, Gone
<1>6. CASE PutStopped
  BY <1>6, GivenUpDelivers DEF PutStopped, Hitch, Fail, Return, Reopening
<1>7. CASE PutEndsEarly
  <2>1. pc = "put" /\ left > 0 /\ req.m = "PUT"
    BY <1>7 DEF PutEndsEarly, Reopening
  <2>2. req.file # <<>>
    BY <2>1, EmptySeq DEF Inv, TypeOK, LinkInv, Position
  <2> QED BY <1>7, <2>1, <2>2, GivenUpDelivers DEF PutEndsEarly, Fail, Return, Reopening
<1>8. CASE PutDone
  <2>1. /\ pc = "put" /\ pc' = "wait"
        /\ UNCHANGED <<req, attempt, out, fresh, up, wire, clean, connected>>
    BY <1>8 DEF PutDone, link, body
  <2>2. Delivering'
    BY <2>1 DEF Delivering, DownloadWhole, Downloaded, Announced
  <2> QED BY <2>1, <2>2 DEF Reopening, Retried, Clean, ReopenedButPut, Gone
<1> QED BY <1>1, <1>2, <1>3, <1>4, <1>5, <1>6, <1>7, <1>8 DEF Sending

\* The head of the answer begins the body, of which nothing is read yet.
LEMMA ReadHeadDelivers ==
  ASSUME Inv, Delivering, Reopening, ReadHead
  PROVE  Delivering' /\ Reopening'
<1> DEFINE h == Head(wire).val
<1>1. /\ pc = "wait" /\ wire # <<>> /\ pc' = "body" /\ wire' = Tail(wire) /\ written' = 0
      /\ UNCHANGED <<up, req, attempt, fresh, out, result, clean>>
      /\ resp' = IF h.status = 204 THEN [h EXCEPT !.framing = "length"] ELSE h
  BY DEF ReadHead
<1>2. h \in Heads /\ out \in Seq(Block \cup {Page}) /\ attempt \in 0..1
  BY <1>1, HeadTailProperties DEF ReadHead, Inv, TypeOK, Items
<1>3. resp'.full = h.full /\ resp'.len = h.len
  BY <1>1, <1>2 DEF Heads
<1>4. EndMark(resp'.framing) = EndMark(h.framing)
  <2>1. h.status = 204 => h.framing # "chunked" /\ resp'.framing = "length"
    BY <1>1, <1>2 DEF Inv, LinkInv, Answered, Heads
  <2>2. h.status # 204 => resp' = h
    BY <1>1
  <2> QED BY <2>1, <2>2 DEF EndMark
<1>5. Announced(h)
  BY <1>1 DEF Delivering
<1>6. out \in Seq(Block \cup {Page}) /\ ((attempt = 0 \/ clean) => out = <<>>)
  BY <1>1, <1>2 DEF Delivering
<1>7. Arrived(out, resp.full, written)'
  <2>1. Len(out) \in Nat /\ (out = <<>> => Len(out) = 0)
    BY <1>6, LenProperties, EmptySeq
  <2> QED BY <1>1, <1>6, <2>1 DEF Arrived
<1>8. Delivering'
  BY <1>1, <1>3, <1>5, <1>7 DEF Announced, Delivering, DownloadWhole, Downloaded
<1>9. clean' => Len(wire') = resp'.len - written' + EndMark(resp'.framing)
  <2>1. clean => CarriesAll(wire', h)
    BY <1>1 DEF Reopening, Clean
  <2>2. h.len \in Nat
    BY <1>2 DEF Heads
  <2> QED BY <1>1, <1>3, <1>4, <2>1, <2>2 DEF CarriesAll, EndMark
<1> QED BY <1>1, <1>8, <1>9 DEF Reopening, Retried, Clean, ReopenedButPut, Gone

\* A block that is read is the next of the body.
LEMMA ReadBlockDelivers ==
  ASSUME Inv, Delivering, Reopening, ReadBlock
  PROVE  Delivering' /\ Reopening'
<1>1. /\ pc = "body" /\ wire # <<>> /\ Head(wire).tag = "block" /\ pc' = "body"
      /\ wire' = Tail(wire) /\ written' = written + 1
      /\ out' = IF req.m = "GET" THEN Append(out, Head(wire).val) ELSE out
      /\ UNCHANGED <<up, req, attempt, fresh, resp, result, clean>>
  BY DEF ReadBlock, InBody
<1>2. wire \in Seq(Items) /\ out \in Seq(Block \cup {Page}) /\ written \in Nat
  BY DEF Inv, TypeOK
<1>3. /\ resp.len = Len(resp.full) /\ Carries(wire, resp.full, written)
      /\ (req.m = "GET" => Arrived(out, resp.full, written))
  BY <1>1 DEF Delivering
<1>4. /\ Len(wire) \in Nat /\ Len(wire) > 0 /\ Len(Tail(wire)) = Len(wire) - 1
      /\ \A i \in 1..(Len(wire) - 1) : Tail(wire)[i] = wire[i + 1]
      /\ Head(wire) = wire[1]
  BY <1>1, <1>2, HeadTailProperties, LenProperties, EmptySeq
<1>5. Head(wire).val = resp.full[written + 1]
  BY <1>1, <1>2, <1>3, <1>4 DEF Carries
<1>6. Carries(wire', resp'.full, written')
  <2>1. ASSUME NEW i \in 1..Len(wire'), wire'[i].tag = "block"
        PROVE  wire'[i].val = resp.full[written + 1 + i]
    <3>1. i \in 1..(Len(wire) - 1) /\ i + 1 \in 1..Len(wire) /\ wire'[i] = wire[i + 1]
      BY <1>1, <1>4, <2>1
    <3>2. wire'[i].val = resp.full[written + (i + 1)]
      BY <1>3, <2>1, <3>1 DEF Carries
    <3>3. written + (i + 1) = written + 1 + i
      BY <1>2, <3>1
    <3> QED BY <3>2, <3>3
  <2> QED BY <1>1, <2>1 DEF Carries
<1>7. ASSUME req.m = "GET" PROVE Arrived(out, resp.full, written)'
  <2> DEFINE v == Head(wire).val
             t == resp.full
             N == Len(out)
  <2>1. /\ N \in Nat /\ written <= N /\ out' = Append(out, v) /\ written' = written + 1
        /\ \A i \in 1..written : out[N - written + i] = t[i]
        /\ ((attempt = 0 \/ clean) => N = written) /\ v = t[written + 1]
        /\ attempt' = attempt /\ clean' = clean /\ resp'.full = t
    BY <1>1, <1>2, <1>3, <1>5, <1>7, LenProperties DEF Arrived
  <2>2. v \in Block \cup {Page}
    <3>1. wire[1] \in Items
      BY <1>2, <1>4
    <3> QED BY <1>1, <1>4, <3>1 DEF Items
  <2>3. /\ Len(out') = N + 1 /\ out'[N + 1] = v
        /\ \A i \in 1..N : out'[i] = out[i]
    BY <1>2, <2>1, <2>2, AppendProperties
  <2> HIDE DEF v, t, N
  <2>4. ASSUME NEW i \in 1..(written + 1)
        PROVE  out'[N + 1 - (written + 1) + i] = t[i]
    <3>1. CASE i = written + 1
      <4>1. N + 1 - (written + 1) + i = N + 1
        BY <1>2, <2>1, <3>1
      <4> QED BY <2>1, <2>3, <3>1, <4>1
    <3>2. CASE i # written + 1
      <4>1. i \in 1..written /\ N - written + i \in 1..N /\ N + 1 - (written + 1) + i = N - written + i
        BY <1>2, <2>1, <2>4, <3>2
      <4> QED BY <2>1, <2>3, <4>1
    <3> QED BY <3>1, <3>2
  <2> QED BY <1>2, <2>1, <2>3, <2>4 DEF Arrived
<1>8. Delivering'
  BY <1>1, <1>3, <1>6, <1>7 DEF Delivering, DownloadWhole, Downloaded
<1>9. clean' => Len(wire') = resp'.len - written' + EndMark(resp'.framing)
  <2>1. clean => Len(wire) = resp.len - written + EndMark(resp.framing)
    BY <1>1 DEF Reopening, Clean
  <2>2. resp.len \in Nat /\ EndMark(resp.framing) \in Nat
    BY DEF Inv, TypeOK, Heads, EndMark
  <2>3. EndMark(resp'.framing) = EndMark(resp.framing) /\ resp'.len = resp.len /\ clean' = clean
    BY <1>1
  <2>4. Len(wire') = Len(wire) - 1 /\ written' = written + 1
    BY <1>1, <1>4
  <2> QED BY <1>2, <1>4, <2>1, <2>2, <2>3, <2>4
<1> QED BY <1>1, <1>8, <1>9 DEF Reopening, Retried, Clean, ReopenedButPut, Gone

\* Where the body ends, all of it has been read, ...
LEMMA BodyEndsRead ==
  ASSUME Inv, Reopening, BodyEnds, resp.framing # "close" \/ clean
  PROVE  written = resp.len
<1>1. pc = "body" /\ resp \in Heads /\ written \in Nat /\ wire \in Seq(Items)
  BY DEF BodyEnds, Inv, TypeOK
<1>2. resp.framing \in {"length", "chunked", "close"} /\ resp.len \in Nat
  BY <1>1 DEF Heads, AllFramings
<1>3. CASE resp.framing = "length"
  BY <1>1, <1>2, <1>3 DEF BodyEnds, Inv, LinkInv, Reading
<1>4. CASE resp.framing = "chunked"
  <2>1. wire # <<>> /\ Head(wire).tag = "end"
    BY <1>4 DEF BodyEnds
  <2>2. Len(wire) > 0 /\ Len(wire) \in Nat /\ wire[1].tag = "end"
    BY <1>1, <2>1, HeadTailProperties, LenProperties, EmptySeq
  <2>3. written <= resp.len /\ Shape(wire, resp.len - written, resp.framing)
    BY <1>1 DEF Inv, LinkInv, Reading
  <2>4. ~(1 <= resp.len - written)
    BY <2>2, <2>3 DEF Shape
  <2> QED BY <1>1, <1>2, <2>3, <2>4
<1>5. CASE resp.framing = "close" /\ clean
  <2>1. wire = <<>> /\ Len(wire) = 0
    BY <1>5, EmptySeq DEF BodyEnds
  <2>2. Len(wire) = resp.len - written + EndMark(resp.framing) /\ EndMark(resp.framing) = 0
    BY <1>1, <1>5 DEF Reopening, Clean, EndMark
  <2> QED BY <1>1, <1>2, <2>1, <2>2
<1> QED BY <1>2, <1>3, <1>4, <1>5

\* ... and written to the file.
LEMMA BodyEndsWhole ==
  ASSUME Inv, Delivering, Reopening, BodyEnds, resp.framing # "close" \/ clean,
         req.m = "GET"
  PROVE  EndsWith(out, resp.full) /\ ((attempt = 0 \/ clean) => out = resp.full)
<1>1. pc = "body" /\ resp \in Heads /\ written \in Nat /\ out \in Seq(Block \cup {Page})
  BY DEF BodyEnds, Inv, TypeOK
<1>2. resp.len \in Nat /\ resp.full \in Seq(Block \cup {Page})
  BY <1>1 DEF Heads
<1>3. written = resp.len
  BY BodyEndsRead
<1> DEFINE t == resp.full
           N == Len(out)
           M == Len(t)
<1>4. /\ written = M /\ M <= N /\ ((attempt = 0 \/ clean) => N = M)
      /\ \A i \in 1..M : out[N - M + i] = t[i]
  BY <1>1, <1>3 DEF Delivering, Arrived
<1>5. N \in Nat /\ M \in Nat
  BY <1>1, <1>2, LenProperties
<1>6. EndsWith(out, t)
  <2> DEFINE s == SubSeq(out, N - M + 1, N)
  <2>1. s \in Seq(Block \cup {Page}) /\ Len(s) = M /\ \A i \in 1..M : s[i] = out[N - M + i]
    <3> HIDE DEF M, t
    <3>1. N - M + 1 \in 1..(Len(out) + 1) /\ N \in (N - M + 1 - 1)..Len(out)
      BY <1>4, <1>5
    <3>2. /\ s \in Seq(Block \cup {Page}) /\ Len(s) = N - (N - M + 1) + 1
          /\ \A i \in 1..(N - (N - M + 1) + 1) : s[i] = out[(N - M + 1) + i - 1]
      BY <1>1, <3>1, SubSeqProperties
    <3>3. N - (N - M + 1) + 1 = M /\ \A i \in 1..M : (N - M + 1) + i - 1 = N - M + i
      BY <1>5
    <3> QED BY <3>2, <3>3
  <2>2. s = t
    <3>1. \A i \in 1..M : s[i] = t[i]
      BY <1>4, <2>1
    <3> HIDE DEF s
    <3> QED BY <1>2, <2>1, <3>1, SeqEqual
  <2> QED BY <1>4, <2>2 DEF EndsWith
<1>7. ASSUME attempt = 0 \/ clean PROVE out = t
  <2>1. N = M
    BY <1>4, <1>7
  <2>2. \A i \in 1..M : out[i] = t[i]
    <3>1. \A i \in 1..M : N - M + i = i
      BY <1>5, <2>1
    <3> QED BY <1>4, <3>1
  <2> QED BY <1>1, <1>2, <2>1, <2>2, SeqEqual
<1> QED BY <1>6, <1>7

\* What is done while the answer is read.
LEMMA ReceivingDelivers ==
  ASSUME Inv, Delivering, Reopening, Receiving
  PROVE  Delivering' /\ Reopening'
<1>1. CASE NoHead
  <2>1. wire = <<>> /\ ~up /\ pc = "wait" /\ UNCHANGED <<req, clean, out>>
    BY <1>1 DEF NoHead, Inv, LinkInv, Answered, body
  <2> QED BY <1>1, <2>1, StaleDelivers DEF NoHead
<1>2. CASE SinkFails
  BY <1>2, GivenUpDelivers DEF SinkFails, Hitch, Fail, Return, Reopening
<1>3. CASE BodyLost
  <2>1. /\ pc = "body" /\ wire = <<>> /\ Close /\ UNCHANGED <<req, clean, out>>
        /\ resp.framing = "chunked" \/ (resp.framing = "length" /\ left > 0)
    BY <1>3 DEF BodyLost, body
  <2>2. /\ written <= resp.len /\ (resp.framing = "length" => left = resp.len - written)
        /\ resp.len \in Nat /\ written \in Nat /\ Len(wire) = 0
    BY <2>1, EmptySeq DEF Inv, TypeOK, LinkInv, Reading, Heads
  <2>3. Len(wire) # resp.len - written + EndMark(resp.framing)
    BY <2>1, <2>2 DEF EndMark
  <2>4. ~clean /\ ~clean'
    BY <2>1, <2>3 DEF Reopening, Clean
  <2>5. CASE pc' = "connect" /\ attempt' = 1
    BY <2>1, <2>4, <2>5, AgainDelivers
  <2>6. CASE pc' = "idle" /\ result' = "failed" /\ attempt' = attempt
    BY <2>1, <2>4, <2>6, GivenUpDelivers DEF Reopening
  <2> QED BY <1>3, <2>5, <2>6 DEF BodyLost, Return
<1>4. CASE Done
  <2>1. /\ pc = "body" /\ pc' = "idle" /\ UNCHANGED <<req, attempt, resp, out>>
        /\ BodyEnds
    BY <1>4 DEF Done, BodyEnds, Return, body
  <2>2. CASE result' = "failed" /\ ~clean'
    BY <2>1, <2>2, GivenUpDelivers DEF Reopening
  <2>3. CASE result' \in {"ok", "refused"} /\ UNCHANGED clean
    <3>1. DownloadWhole'
      <4>1. SUFFICES ASSUME req.m = "GET"
                     PROVE  /\ clean => out = resp.full
                            /\ resp.framing # "close" =>
                                 EndsWith(out, resp.full) /\ (attempt = 0 => out = resp.full)
        BY <2>1, <2>3 DEF DownloadWhole, Downloaded, EndsWith
      <4>2. (resp.framing # "close" \/ clean) =>
              EndsWith(out, resp.full) /\ ((attempt = 0 \/ clean) => out = resp.full)
        BY <2>1, <4>1, BodyEndsWhole
      <4> QED BY <4>2
    <3>2. Delivering'
      BY <2>1, <3>1 DEF Delivering
    <3> QED BY <2>1, <2>3, <3>2 DEF Reopening, Retried, Clean, ReopenedButPut, Gone
  <2> QED BY <1>4, <2>2, <2>3 DEF Done, Return, Hitch
<1> QED BY <1>1, <1>2, <1>3, <1>4, ReadHeadDelivers, ReadBlockDelivers DEF Receiving

\* The invariant of delivery is kept by every step.
LEMMA DeliveryKept ==
  ASSUME Inv, Delivering, Reopening, [Next]_vars
  PROVE  Delivering' /\ Reopening'
<1>1. CASE UNCHANGED vars
  <2>1. Delivering'
    BY <1>1 DEF vars, link, body, Delivering, DownloadWhole, Downloaded, Announced, Carries,
                Arrived, EndsWith
  <2> QED BY <1>1, <2>1 DEF vars, link, body, Reopening, Retried, Clean, ReopenedButPut, Gone,
                            CarriesAll, Carries, EndMark
<1>2. CASE \E m \in Methods, f \in Contents : Request(m, f)
  <2>1. pc' = "connect" /\ attempt' = 0 /\ out' = <<>>
    BY <1>2 DEF Request
  <2>2. Delivering'
    BY <2>1 DEF Delivering, DownloadWhole, Downloaded
  <2> QED BY <2>1, <2>2 DEF Reopening, Retried, Clean, ReopenedButPut, Gone
<1> QED BY <1>1, <1>2, ServerDelivers, SendingDelivers, ReceivingDelivers DEF Next, Client

\* And it holds throughout.
LEMMA DeliveryHolds == Spec => [](Inv /\ Delivering /\ Reopening)
<1>1. Init => Inv /\ Delivering /\ Reopening
  BY InitLink DEF Init, Delivering, DownloadWhole, Downloaded, Reopening, Retried, Clean,
                  ReopenedButPut, Gone
<1>2. (Inv /\ Delivering /\ Reopening) /\ [Next]_vars => (Inv /\ Delivering /\ Reopening)'
  BY NextKeeps, DeliveryKept
<1> QED BY <1>1, <1>2, PTL DEF Spec

\* A download that is reported done is the body of the answer when nothing
\* went wrong, however the answer ends.  Where the answer says how long it is
\* it is never cut short: it is the body, or ends in it when part of it had
\* come over a connection that was lost (nshttp.c, nsdav.c).
THEOREM DownloadsWhole == Spec => []DownloadWhole
<1>1. Delivering => DownloadWhole
  BY DEF Delivering
<1> QED BY <1>1, DeliveryHolds, PTL

\* A server that closes kept connections makes no request fail but a PUT with
\* something to send (the one retry of do_request, nshttp.c).
THEOREM OnlyPutFails == Spec => []ReopenedButPut
<1>1. Reopening => ReopenedButPut
  BY DEF Reopening
<1> QED BY <1>1, DeliveryHolds, PTL

(***************************************************************************)
(* The promise to the sync engine, kept                                    *)
(***************************************************************************)
\* Only a GET writes the file: what any other request brings is nothing.
Unread == req.m # "GET" => out = <<>>

\* The invariant of the refinement.
Kept == Inv /\ Told /\ Delivering /\ Reopening /\ Unread

\* It is kept by every step.
LEMMA UnreadKept ==
  ASSUME Unread, [Next]_vars
  PROVE  Unread'
<1>1. CASE \E m \in Methods, f \in Contents : Request(m, f)
  BY <1>1 DEF Request, Unread
<1>2. CASE ReadBlock
  BY <1>2 DEF ReadBlock, Unread
<1>3. CASE UNCHANGED <<req, out>>
  BY <1>3 DEF Unread
<1>4. \/ \E m \in Methods, f \in Contents : Request(m, f)
      \/ ReadBlock
      \/ UNCHANGED <<req, out>>
  BY DEF Next, Server, Serve, Refuse, IdleClose, Drop, Client, Sending, Receiving, Connect,
         Keep, SendHead, SendFails, PutBlock, PutStopped, PutEndsEarly, PutDone, ReadHead,
         NoHead, SinkFails, BodyLost, Done, vars, body
<1> QED BY <1>1, <1>2, <1>3, <1>4

\* An answer that is accepted is a success, and what was asked for is so.
LEMMA OkIsMet ==
  ASSUME Inv, Told, Done, result' = "ok"
  PROVE  Promise!Met
<1>1. Accepted /\ pc = "body" /\ req.m \in Methods
  BY DEF Done, Return, BodyEnds, Inv, TypeOK
<1>2. req.m \in {"PUT", "DELETE", "MKCOL"} => Succeeds(resp.status)
  BY <1>1 DEF Accepted, Succeeds, Methods
<1> QED BY <1>1, <1>2 DEF Told, Truthful, Promise!Met

\* What an accepted GET has brought is the resource, if nothing went wrong.
LEMMA OkHasBrought ==
  ASSUME Kept, Done, result' = "ok"
  PROVE  /\ UNCHANGED clean
         /\ IF req.m = "GET" THEN clean => out = res ELSE out = <<>>
<1>1. Accepted /\ pc = "body" /\ BodyEnds /\ UNCHANGED clean
  BY DEF Done, Return, BodyEnds, Hitch
<1>2. ASSUME req.m = "GET", clean PROVE out = res
  <2>1. out = resp.full
    BY <1>1, <1>2, BodyEndsWhole DEF Kept
  <2>2. resp.status = 200
    BY <1>1, <1>2 DEF Accepted
  <2>3. resp.full = res
    BY <1>1, <2>2 DEF Kept, Told, Truthful
  <2> QED BY <2>1, <2>3
<1>3. req.m # "GET" => out = <<>>
  BY DEF Kept, Unread
<1> QED BY <1>1, <1>2, <1>3

\* A step of the client is a step of the promise, or none.
LEMMA ClientRefines ==
  ASSUME Kept, Client
  PROVE  [Promise!Next]_(Promise!tvars)
<1> USE DEF Promise!Next, Promise!tvars
<1>0. Inv /\ clean \in BOOLEAN
  BY DEF Kept, Inv, TypeOK
<1>1. CASE UNCHANGED <<res, req, result, clean>> /\ (pc # "idle") /\ (pc' # "idle")
  BY <1>1
<1>2. CASE Close /\ UNCHANGED <<req, result, clean>> /\ pc # "idle" /\ pc' # "idle"
  BY <1>0, <1>2, CloseWants DEF Promise!Act
<1>3. CASE Close /\ req' = req /\ pc # "idle" /\ result' = "failed" /\ pc' = "idle"
           /\ clean' \in {clean, FALSE}
  BY <1>0, <1>3, CloseWants DEF Promise!GiveUp
<1>4. CASE UNCHANGED <<res, req>> /\ pc # "idle" /\ result' = "failed" /\ pc' = "idle"
           /\ clean' \in {clean, FALSE}
  BY <1>4 DEF Promise!GiveUp
<1>5. CASE Done
  <2>1. UNCHANGED <<res, req, out>> /\ pc # "idle" /\ pc' = "idle"
    BY <1>5 DEF Done, Return, BodyEnds, body
  <2>2. result' \in {"ok", "refused", "failed"} /\ clean' \in {clean, FALSE}
    BY <1>5 DEF Done, Return, Hitch
  <2>3. CASE result' = "ok"
    <3>1. Promise!Met
      BY <1>5, <2>3, OkIsMet DEF Kept
    <3>2. UNCHANGED clean /\ IF req.m = "GET" THEN clean => out = res ELSE out = <<>>
      BY <1>5, <2>3, OkHasBrought
    <3> QED BY <2>1, <2>3, <3>1, <3>2 DEF Promise!Succeed, Promise!Brought
  <2>4. CASE result' # "ok"
    BY <2>1, <2>2, <2>4 DEF Promise!GiveUp
  <2> QED BY <2>3, <2>4
<1>6. \/ UNCHANGED <<res, req, result, clean>> /\ (pc # "idle") /\ (pc' # "idle")
      \/ Close /\ UNCHANGED <<req, result, clean>> /\ pc # "idle" /\ pc' # "idle"
      \/ Close /\ req' = req /\ pc # "idle" /\ result' = "failed" /\ pc' = "idle"
           /\ clean' \in {clean, FALSE}
      \/ UNCHANGED <<res, req>> /\ pc # "idle" /\ result' = "failed" /\ pc' = "idle"
           /\ clean' \in {clean, FALSE}
      \/ Done
  BY DEF Client, Sending, Receiving, Connect, Keep, SendHead, SendFails, PutBlock,
         PutStopped, PutEndsEarly, PutDone, ReadHead, NoHead, ReadBlock, InBody, SinkFails,
         BodyLost, Stale, Fail, Return, Hitch
<1> QED BY <1>1, <1>2, <1>3, <1>4, <1>5, <1>6

\* So is every step.
LEMMA StepRefines ==
  ASSUME Kept, [Next]_vars
  PROVE  [Promise!Next]_(Promise!tvars)
<1>0. Inv
  BY DEF Kept
<1>1. CASE UNCHANGED vars
  BY <1>1 DEF vars, body, Promise!tvars
<1>2. CASE Serve
  <2>1. Complete /\ pc \in {"put", "wait"} /\ UNCHANGED <<pc, req, result, clean>>
    BY <1>0, <1>2 DEF Serve, Complete, Inv, LinkInv, Asked
  <2>2. res' = Promise!Wanted
    BY <1>0, <1>2, <2>1, EffectIsWanted DEF Serve
  <2> QED BY <2>1, <2>2 DEF Promise!Act, Promise!Next
<1>3. CASE Refuse \/ Drop
  <2>1. pc # "idle" /\ ~clean' /\ UNCHANGED <<res, pc, req, result>>
    BY <1>0, <1>3 DEF Refuse, Drop, Inv, LinkInv, Asked
  <2>2. clean' = FALSE
    BY <1>3 DEF Refuse, Drop
  <2> QED BY <2>1, <2>2 DEF Promise!Mishap, Promise!Next
<1>4. CASE IdleClose
  BY <1>4 DEF IdleClose, body, Promise!tvars
<1>5. CASE \E m \in Methods, f \in Contents : Request(m, f)
  <2>1. PICK m \in Methods, f \in Contents : Request(m, f)
    BY <1>5
  <2>2. Promise!Ask(m, f)
    BY <2>1 DEF Request, Promise!Ask
  <2> QED BY <2>2 DEF Promise!Next
<1> QED BY <1>1, <1>2, <1>3, <1>4, <1>5, ClientRefines DEF Next, Server

\* The initial states are those of the promise, and an answer there is none.
LEMMA InitRefines ==
  ASSUME Init
  PROVE  Promise!Init /\ Told /\ Achieved /\ Unread
<1> QED BY DEF Init, Promise!Init, Told, Achieved, Unread

\* What the refinement rests on holds throughout.
LEMMA KeptHolds == Spec => []Kept
<1>1. Init => Told /\ Unread
  BY InitRefines
<1>2. (Inv /\ Told) /\ [Next]_vars => Told'
  BY ToldKept
<1>3. Unread /\ [Next]_vars => Unread'
  BY UnreadKept
<1> QED BY <1>1, <1>2, <1>3, DeliveryHolds, PTL DEF Spec, Kept

\* Retries, kept connections and lost answers are invisible to the engine: a
\* request over HTTP is a step of NsTransport.  That is what NsSync takes for
\* granted of its requests, and of a GET: without a mishap it brings the
\* resource, through every framing and over a kept connection that had to be
\* reopened; after one it may bring anything and be reported done.
THEOREM KeepsThePromise == Spec => Implements
<1>1. Init => Promise!Init
  BY InitRefines
<1>2. Kept /\ [Next]_vars => [Promise!Next]_(Promise!tvars)
  BY StepRefines
<1> QED BY <1>1, <1>2, KeptHolds, PTL DEF Spec, Implements, Promise!Spec

\* A request that is reported done has had its effect, though its answer may
\* have been lost once and its second attempt have found it done.
THEOREM OkIsAchieved == Spec => []Achieved
<1>1. ASSUME Achieved, [Promise!Next]_(Promise!tvars) PROVE Achieved'
  BY <1>1 DEF Achieved, Promise!Next, Promise!tvars, Promise!Ask, Promise!Act,
              Promise!Mishap, Promise!Succeed, Promise!GiveUp, Promise!Met
<1>2. Init => Achieved
  BY InitRefines
<1>3. Kept /\ [Next]_vars => [Promise!Next]_(Promise!tvars)
  BY StepRefines
<1> QED BY <1>1, <1>2, <1>3, KeptHolds, PTL DEF Spec

(***************************************************************************)
(* Listings                                                                *)
(***************************************************************************)
\* A listing that is accepted was read to its end, or had none.
LEMMA StepListsWhole ==
  ASSUME Inv, Delivering, Reopening, ListingWhole, [Next]_vars
  PROVE  ListingWhole'
<1>1. CASE Done
  <2>1. /\ pc = "body" /\ BodyEnds /\ UNCHANGED <<req, resp, written>>
        /\ (result' = "ok" => Accepted)
    BY <1>1 DEF Done, BodyEnds, Return, body
  <2>2. resp.len = Len(resp.full)
    BY <2>1 DEF Delivering
  <2>3. resp.framing # "close" => written = Len(resp.full)
    BY <2>1, <2>2, BodyEndsRead
  <2>4. (result' = "ok" /\ req.m = "PROPFIND") => written \in {0, Len(resp.full)}
    BY <2>1 DEF Accepted, Parses
  <2> QED BY <2>1, <2>3, <2>4 DEF ListingWhole
<1>2. CASE pc' # "idle" \/ result' = "failed"
  BY <1>2 DEF ListingWhole
<1>3. CASE UNCHANGED <<pc, result, req, written, resp>>
  BY <1>3 DEF ListingWhole
<1>4. Done \/ pc' # "idle" \/ result' = "failed" \/ UNCHANGED <<pc, result, req, written, resp>>
  BY DEF Next, Server, Client, Sending, Receiving, Serve, Refuse, IdleClose, Drop, Request,
         Connect, Keep, SendHead, SendFails, PutBlock, PutStopped, PutEndsEarly, PutDone,
         ReadHead, NoHead, ReadBlock, InBody, SinkFails, BodyLost, Stale, Fail, Return, vars, body
<1> QED BY <1>1, <1>2, <1>3, <1>4

\* nsdav_list() takes no listing that was cut short for the folder, but the
\* one that was cut before its first byte where nothing told its length.
THEOREM ListsWhole == Spec => []ListingWhole
<1>1. Init => ListingWhole
  BY DEF Init, ListingWhole
<1>2. (Inv /\ Delivering /\ Reopening) /\ ListingWhole /\ [Next]_vars => ListingWhole'
  BY StepListsWhole
<1> QED BY <1>1, <1>2, DeliveryHolds, PTL DEF Spec
=============================================================================
