------------------------------ MODULE NsListing ------------------------------
(***************************************************************************)
(* What nsdav_list() and nsdav_stat() of src/nsdav.c make of the answer to *)
(* a PROPFIND: the reader of src/nsxml.c and the handlers it calls, as one *)
(* fold over the document.  A module of operators.                         *)
(*                                                                         *)
(* A document is a sequence of tokens: "open", "close" and "void" elements *)
(* with their tag, a "text" with one word of it, what is passed over       *)
(* ("skip": <? and <!, ended or not) and a "cut", a < that no > follows.   *)
(* A text is a sequence of words; an href is the prefix and the names of   *)
(* the path.  Namespaces, entities, blanks and %xx only change the words.  *)
(***************************************************************************)
EXTENDS Naturals, Sequences, SequencesExt

CONSTANTS
  MaxDepth,  \* MAXDEPTH
  MaxText,   \* MAXTEXT, in words
  MaxPath,   \* NSDAV_MAXPATH, in names
  Prefix     \* /remote.php/dav/files/<user>/

NoEntry == [path |-> <<>>, etag |-> <<>>, size |-> 0, mtime |-> 0, dir |-> FALSE]

\* The frames of the reader, and struct pf_ctx: nsxml_parse() has just begun.
Begin == [stack |-> <<>>, failed |-> FALSE, oom |-> FALSE, cur |-> NoEntry,
          have |-> FALSE, first |-> TRUE, head |-> <<>>, single |-> NoEntry]

\* pf_start()
Start(c, tag) ==
  CASE tag = "response"   -> [c EXCEPT !.cur = NoEntry, !.have = FALSE]
    [] tag = "collection" -> [c EXCEPT !.cur.dir = TRUE]
    [] OTHER              -> c

Short(s, n) == IF Len(s) <= n THEN s ELSE SubSeq(s, 1, n)
Number(text) == IF text = <<>> THEN 0 ELSE text[1]

\* The first response is the folder itself.  There is memory for so many.
Responded(c, memory) ==
  IF ~c.have THEN c
  ELSE [c EXCEPT
    !.single = c.cur, !.first = FALSE,
    !.oom = @ \/ (~c.first /\ Len(c.head) >= memory),
    !.head = IF c.first \/ Len(@) >= memory THEN @ ELSE Append(@, c.cur)]

\* pf_end()
Ended(c, tag, text, memory) ==
  CASE tag = "href" /\ text # <<>> /\ text[1] = Prefix ->
         [c EXCEPT !.cur.path = Short(Tail(text), MaxPath), !.have = TRUE]
    [] tag = "getetag"          -> [c EXCEPT !.cur.etag = text]
    [] tag = "getcontentlength" -> [c EXCEPT !.cur.size = Number(text)]
    [] tag = "getlastmodified"  -> [c EXCEPT !.cur.mtime = Number(text)]
    [] tag = "response"         -> Responded(c, memory)
    [] OTHER                    -> c

Opened(c, tag) ==
  [Start(c, tag) EXCEPT !.stack = Append(@, [tag |-> tag, text |-> <<>>])]

\* What closes is the innermost element, whatever the tag says.
Closed(c, memory) ==
  LET f == Last(c.stack)
  IN Ended([c EXCEPT !.stack = Front(@)], f.tag, f.text, memory)

\* Text goes to the innermost element, as far as it has room.
Said(c, word) ==
  IF c.stack = <<>> \/ Len(Last(c.stack).text) >= MaxText THEN c
  ELSE [c EXCEPT !.stack[Len(c.stack)].text = Append(@, word)]

\* One turn of the loop of nsxml_parse().
Token(c, token, memory) ==
  LET fail == [c EXCEPT !.failed = TRUE]
  IN CASE c.failed           -> c
       [] token.t = "open"   -> IF Len(c.stack) >= MaxDepth THEN fail ELSE Opened(c, token.tag)
       [] token.t = "void"   -> IF Len(c.stack) >= MaxDepth THEN fail
                                ELSE Ended(Start(c, token.tag), token.tag, <<>>, memory)
       [] token.t = "close"  -> IF c.stack = <<>> THEN fail ELSE Closed(c, memory)
       [] token.t = "text"   -> Said(c, token.word)
       [] token.t = "cut"    -> fail
       [] token.t = "skip"   -> c

Parsed(doc, memory) == FoldLeft(LAMBDA c, token : Token(c, token, memory), Begin, doc)
WellFormed(c) == ~c.failed /\ c.stack = <<>>

\* nsdav_list(): the entries, or none and not ok.
List(doc, memory) ==
  LET c == Parsed(doc, memory)
  IN IF WellFormed(c) /\ ~c.oom THEN [ok |-> TRUE, entries |-> c.head]
     ELSE [ok |-> FALSE, entries |-> <<>>]

\* nsdav_stat()
Stat(doc) ==
  LET c == Parsed(doc, 0) IN [ok |-> WellFormed(c), entry |-> c.single]

(***************************************************************************)
(* What servers write, and what is expected of it                          *)
(***************************************************************************)
Element(tag, inside) == <<[t |-> "open", tag |-> tag]>> \o inside \o <<[t |-> "close", tag |-> tag]>>
Words(s) == [i \in 1..Len(s) |-> [t |-> "text", word |-> s[i]]]

\* A folder has no length: it is among the properties not found.
Response(e) ==
  Element("response",
    Element("href", Words(<<Prefix>> \o e.path))
      \o Element("propstat", Element("prop",
           Element("resourcetype", IF e.dir THEN <<[t |-> "void", tag |-> "collection"]>> ELSE <<>>)
             \o Element("getetag", Words(e.etag))
             \o Element("getlastmodified", Words(<<e.mtime>>))
             \o (IF e.dir THEN <<>> ELSE Element("getcontentlength", Words(<<e.size>>)))))
      \o (IF e.dir THEN Element("propstat", Element("prop", <<[t |-> "void", tag |-> "getcontentlength"]>>))
          ELSE <<>>))

Multistatus(self, entries) ==
  <<[t |-> "skip"]>>
    \o Element("multistatus",
         FlattenSeq([i \in 1..(Len(entries) + 1) |-> Response((<<self>> \o entries)[i])]))

\* The beginnings of a document, also those that end within a tag.
Beginnings(doc) ==
  LET kept == {SubSeq(doc, 1, n) : n \in 0..(Len(doc) - 1)}
  IN kept \cup {d \o <<[t |-> "cut"]>> : d \in {k \in kept : Len(k) > 0 /\ doc[Len(k) + 1].t # "text"}}

Elements(doc) == {i \in 1..Len(doc) : doc[i].t \in {"open", "void", "cut"}}

\* A listing that is whole is read as it is; one that is not is not taken
\* for one, unless it ends before the first element: then nothing is listed.
ReadAsItIs(self, entries) ==
  LET doc == Multistatus(self, entries)
  IN /\ List(doc, Len(entries)) = [ok |-> TRUE, entries |-> entries]
     /\ entries # <<>> => ~List(doc, Len(entries) - 1).ok
     /\ \A d \in Beginnings(doc) :
          List(d, Len(entries)) = [ok |-> Elements(d) = {}, entries |-> <<>>]

\* What is asked about one file is answered by its entry.
StatIsEntry(e) ==
  LET doc == Multistatus(e, <<>>)
  IN /\ Stat(doc) = [ok |-> TRUE, entry |-> e]
     /\ \A d \in Beginnings(doc) : Stat(d).ok => Stat(d).entry = NoEntry
=============================================================================
