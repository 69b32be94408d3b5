------------------------------- MODULE NsConf -------------------------------
(***************************************************************************)
(* The configuration: what src/nsconf.c makes of a file, keeps in memory   *)
(* and writes back.  A module of operators; NsApp holds the state.         *)
(*                                                                         *)
(* A text is the sequence of its words, a password that of its letters; a  *)
(* blank that is not the one between two words is an entry of its own.  A  *)
(* file is what its lines say, key by key: a line that is missing is the   *)
(* empty text or port 0.                                                   *)
(***************************************************************************)
EXTENDS NsCounting, SequencesExt

CONSTANTS
  MaxFolders,  \* NSCONF_MAXFOLDERS
  MaxExtra,    \* NSCONF_MAXEXTRA
  MaxPass,     \* the characters nsconf.pass has room for
  MaxLost,     \* bound: Writes of one Save that fail for themselves
  NoFile       \* what is on the disk when there is no file

ASSUME LimitsAssumption ==
  MaxFolders \in Nat /\ MaxExtra \in Nat /\ MaxPass \in Nat /\ MaxLost \in Nat

Blank == " "
DefaultDrawer == "DH0:Nextcloud"
Scrap == "?"  \* a piece of a line
Vocabulary == STRING \cup {DefaultDrawer, Scrap}
Text == Seq(Vocabulary)

UWord == 65536
\* A name or a line that is empty is passed over.
Filled(texts) == Picked(texts, {i \in 1..Len(texts) : texts[i] # <<>>})

FirstOf(s, n) == IF Len(s) <= n THEN s ELSE SubSeq(s, 1, n)

\* take_word() skips blanks and stops at the next; take_rest() takes the line
\* to its end, without the blanks before it and after it.
Inked(text) == {i \in 1..Len(text) : text[i] # Blank}
WordsOf(text) == Picked(text, Inked(text))
TakeWord(text) == FirstOf(WordsOf(text), 1)
TakeRest(text) ==
  IF Inked(text) = {} THEN <<>> ELSE SubSeq(text, Min(Inked(text)), Max(Inked(text)))
Rests(texts) == [i \in 1..Len(texts) |-> TakeRest(texts[i])]

DefaultLocal == <<DefaultDrawer>>
Defaults == [server |-> <<>>, port |-> 443, user |-> <<>>, pass |-> <<>>,
             local |-> DefaultLocal, folders |-> <<>>, extra |-> <<>>, pairs |-> <<>>]

(***************************************************************************)
(* The folders, and the pairs the engine works from                        *)
(***************************************************************************)
Joined(local, name) == [remote |-> name, local |-> <<local, name>>]

PairsOf(folders, local, extra) ==
  LET named == IF local = <<>> THEN <<>> ELSE Filled(folders)
  IN FirstOf([i \in 1..Len(named) |-> Joined(local, named[i])] \o extra,
             MaxFolders + MaxExtra)
Pairs(c) == PairsOf(c.folders, c.local, c.extra)

Rebuild(c) == [c EXCEPT !.pairs = Pairs(c)]

Complete(c) == c.server # <<>> /\ c.user # <<>> /\ c.pairs # <<>>

HasFolder(c, name) == Contains(c.folders, name)

AddFolderAnyway(c, name) ==  \* Mutant: the table is written past its end
  IF name = <<>> \/ HasFolder(c, name)
  THEN c ELSE Rebuild([c EXCEPT !.folders = Append(@, name)])

AddFolder(c, name) ==
  IF name = <<>> \/ Len(c.folders) >= MaxFolders \/ HasFolder(c, name)
  THEN c ELSE Rebuild([c EXCEPT !.folders = Append(@, name)])

DelFolderOnly(c, name) ==  \* Mutant: nsconf_rebuild() is forgotten
  IF HasFolder(c, name) THEN [c EXCEPT !.folders = RemoveFirst(@, name)] ELSE c

DelFolder(c, name) ==
  IF HasFolder(c, name)
  THEN Rebuild([c EXCEPT !.folders = RemoveFirst(@, name)]) ELSE c

(***************************************************************************)
(* Loading.  A key that comes twice is the last one; the port is a UWORD.  *)
(* Folders and pairs beyond the tables are passed over.                    *)
(***************************************************************************)
Extra(words) == [remote |-> <<words[1]>>, local |-> << <<words[2]>> >>]

Loaded(file) ==
  IF file = NoFile THEN Defaults
  ELSE LET words == [i \in 1..Len(file.pairs) |-> WordsOf(file.pairs[i])]
           lines == Picked(words, {i \in 1..Len(words) : Len(words[i]) >= 2})
           extra == [i \in 1..Len(lines) |-> Extra(lines[i])]
           port  == file.port % UWord
           local == TakeRest(file.local)
       IN Rebuild(
            [server |-> TakeWord(file.server), user |-> TakeWord(file.user),
             pass |-> FirstOf(TakeRest(file.pass), MaxPass),
             port |-> IF port = 0 THEN 443 ELSE port,
             local |-> IF local = <<>> THEN DefaultLocal ELSE local,
             folders |-> FirstOf(Filled(Rests(file.folders)), MaxFolders),
             extra |-> FirstOf(extra, MaxExtra), pairs |-> <<>>])

(***************************************************************************)
(* Saving                                                                  *)
(***************************************************************************)
SavedFoldersOnly(c) ==  \* Mutant: pairs of 1.0 are not written back
  [server |-> c.server, port |-> c.port, user |-> c.user, pass |-> c.pass,
   local |-> c.local, folders |-> c.folders, pairs |-> <<>>]

Saved(c) ==
  [server |-> c.server, port |-> c.port, user |-> c.user, pass |-> c.pass,
   local |-> c.local, folders |-> c.folders,
   pairs |-> [i \in 1..Len(c.extra) |-> c.extra[i].remote \o c.extra[i].local[1]]]

\* The first five lines are one Write, every other is one of its own, and the
\* next is tried also when one fails.  One that fails leaves nothing ("none"),
\* or half: the last line left is cut in its key and not read, or in its value,
\* which is then a scrap.  The next line of its kind is joined to it.
HeadCut(file, how) ==
  IF how = "whole" THEN {file}
  ELSE LET left(n, line, value, cut, none) ==
             IF line <= n THEN value ELSE IF line = n + 1 /\ how = "value" THEN cut ELSE none
       IN {[file EXCEPT !.server = left(n, 1, @, <<Scrap>>, <<>>),
                        !.port   = left(n, 2, @, @ \div 10, 0),
                        !.user   = left(n, 3, @, <<Scrap>>, <<>>),
                        !.pass   = left(n, 4, @, FirstOf(@, Len(@) \div 2), <<>>),
                        !.local  = left(n, 5, @, <<Scrap>>, <<>>)] : n \in 0..4}

LinesLeft(lines, written, scrap) ==
  Picked([i \in 1..Len(lines) |-> IF written[i] = "value" THEN scrap ELSE lines[i]],
         {i \in 1..Len(lines) :
            \/ written[i] = "value"
            \/ written[i] = "whole" /\ (i = 1 \/ written[i - 1] \in {"whole", "none"})})

\* What fails are up to MaxLost Writes, or all from one on: the disk is full,
\* or the machine stops.
Failures(writes) ==
  {w \in [1..writes -> {"whole", "none", "key", "value"}] :
     \/ Cardinality({i \in 1..writes : w[i] # "whole"}) <= MaxLost
     \/ \E k \in 1..writes : \A i \in 1..writes :
          (i < k => w[i] = "whole") /\ (i > k => w[i] = "none")}

TornBy(file, w) ==
  LET n == Len(file.folders)
  IN {[f EXCEPT
         !.folders = LinesLeft(@, [i \in 1..n |-> w[1 + i]], <<Scrap>>),
         !.pairs   = LinesLeft(@, [i \in 1..Len(@) |-> w[1 + n + i]], <<Scrap, Scrap>>)] :
        f \in HeadCut(file, w[1])}
Torn(file) ==
  UNION {TornBy(file, w) : w \in Failures(1 + Len(file.folders) + Len(file.pairs))} \ {file}
=============================================================================
