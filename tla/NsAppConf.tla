----------------------------- MODULE NsAppConf -----------------------------
(***************************************************************************)
(* Proofs about the configuration and the dialog that edits it, for all    *)
(* files, texts, lists and sizes of the tables: every variable keeps its   *)
(* type and its limit, the list shows the folders as they are ticked, what *)
(* was saved is what the next start loads, and no Save drops a line.       *)
(***************************************************************************)
EXTENDS NsAppProofs

(***************************************************************************)
(* What is kept of sequences                                               *)
(***************************************************************************)
\* The first n entries of a sequence.
LEMMA FirstOfEntries ==
  ASSUME NEW S, NEW s \in Seq(S), NEW n \in Nat
  PROVE  /\ FirstOf(s, n) \in Seq(S) /\ Len(FirstOf(s, n)) <= n
         /\ Len(FirstOf(s, n)) = IF Len(s) <= n THEN Len(s) ELSE n
         /\ \A i \in 1..Len(FirstOf(s, n)) : FirstOf(s, n)[i] = s[i]
         /\ Len(s) <= n => FirstOf(s, n) = s
<1>1. Len(s) \in Nat
  BY LenProperties
<1>2. CASE Len(s) <= n
  BY <1>1, <1>2 DEF FirstOf
<1>3. CASE Len(s) > n
  <2>1. FirstOf(s, n) = SubSeq(s, 1, n)
    BY <1>1, <1>3 DEF FirstOf
  <2>2. 1..n \subseteq 1..Len(s)
    BY <1>1, <1>3
  <2>3. SubSeq(s, 1, n) \in Seq(S) /\ Len(SubSeq(s, 1, n)) = n
    BY <1>1, <2>2
  <2>4. \A i \in 1..n : SubSeq(s, 1, n)[i] = s[i]
    BY <1>1, <2>2
  <2> QED BY <1>1, <1>3, <2>1, <2>3, <2>4
<1> QED BY <1>1, <1>2, <1>3

\* The first occurrence of an entry taken out.
LEMMA RemovedFirst ==
  ASSUME NEW S, NEW s \in Seq(S), NEW e, Contains(s, e)
  PROVE  /\ RemoveFirst(s, e) \in Seq(S) /\ Len(RemoveFirst(s, e)) = Len(s) - 1
         /\ ToSet(RemoveFirst(s, e)) \subseteq ToSet(s)
         /\ ToSet(s) \ {e} \subseteq ToSet(RemoveFirst(s, e))
<1> DEFINE I == {i \in 1..Len(s) : s[i] = e}
           at == Min(I)
           d == DeletedAt(s, at)
           n == Len(s)
<1>0. n \in Nat /\ I # {} /\ I \subseteq Nat
  BY LenProperties DEF Contains
<1>1. at \in I
  <2>1. \E m \in I : \A k \in I : m <= k
    BY <1>0, LeastNumber
  <2> HIDE DEF I
  <2> QED BY <2>1 DEF Min
<1>2. RemoveFirst(s, e) = d
  <2>1. SelectInSeq(s, LAMBDA v : v = e) = at
    BY <1>0 DEF SelectInSeq
  <2> QED BY <2>1 DEF RemoveFirst, RemoveAt, DeletedAt, Contains
<1>3. at \in 1..n /\ s[at] = e
  BY <1>1
<1> HIDE DEF at, d
<1>4. /\ d \in Seq(S) /\ Len(d) = n - 1
      /\ \A i \in 1..(n - 1) : d[i] = IF i < at THEN s[i] ELSE s[i + 1]
  BY <1>3, DeletedText DEF d
<1> HIDE DEF n
<1>5. DOMAIN d = 1..(n - 1) /\ DOMAIN s = 1..n
  BY <1>0, <1>4 DEF n
<1>6. ASSUME NEW i \in 1..(n - 1)
      PROVE  d[i] \in ToSet(s)
  <2>1. i \in 1..n /\ i + 1 \in 1..n
    BY <1>0
  <2> QED BY <1>4, <1>5, <2>1 DEF ToSet
<1>7. ASSUME NEW i \in 1..n, s[i] # e
      PROVE  s[i] \in ToSet(d)
  <2>1. CASE i < at
    <3>1. i \in 1..(n - 1) /\ d[i] = s[i]
      BY <1>0, <1>3, <1>4, <2>1
    <3> QED BY <1>5, <3>1 DEF ToSet
  <2>2. CASE i > at
    <3>1. PICK j \in 1..(n - 1) : j + 1 = i /\ ~(j < at)
      <4>1. (i - 1) \in 1..(n - 1) /\ (i - 1) + 1 = i /\ ~(i - 1 < at)
        BY <1>0, <1>3, <2>2
      <4> QED BY <4>1
    <3>2. d[j] = s[i]
      BY <1>4, <3>1
    <3> QED BY <1>5, <3>1, <3>2 DEF ToSet
  <2> QED BY <1>0, <1>3, <1>7, <2>1, <2>2
<1>8. ToSet(d) \subseteq ToSet(s)
  BY <1>5, <1>6 DEF ToSet
<1>9. ToSet(s) \ {e} \subseteq ToSet(d)
  <2> SUFFICES ASSUME NEW x \in ToSet(s), x # e PROVE x \in ToSet(d)
    OBVIOUS
  <2>1. PICK i \in 1..n : s[i] = x
    BY <1>5 DEF ToSet
  <2> QED BY <1>7, <2>1
<1> QED BY <1>2, <1>4, <1>8, <1>9 DEF n

\* An entry at the end.
LEMMA AppendedLast ==
  ASSUME NEW S, NEW s \in Seq(S), NEW e \in S
  PROVE  /\ Append(s, e) \in Seq(S) /\ Len(Append(s, e)) = Len(s) + 1
         /\ ToSet(Append(s, e)) = ToSet(s) \cup {e}
         /\ Contains(Append(s, e), e)
<1> DEFINE a == Append(s, e)
           n == Len(s)
<1>1. /\ a \in Seq(S) /\ Len(a) = n + 1 /\ n \in Nat /\ a[n + 1] = e
      /\ \A i \in 1..n : a[i] = s[i]
  BY AppendProperties, LenProperties
<1>2. DOMAIN a = 1..(n + 1) /\ DOMAIN s = 1..n
  BY <1>1
<1> HIDE DEF a, n
<1>3. n + 1 \in 1..(n + 1) /\ \A i \in 1..(n + 1) : i \in 1..n \/ i = n + 1
  BY <1>1
<1>4. \A i \in 1..n : i \in 1..(n + 1)
  BY <1>1
<1>5. ToSet(a) = ToSet(s) \cup {e}
  BY <1>1, <1>2, <1>3, <1>4 DEF ToSet
<1>6. Contains(a, e)
  BY <1>1, <1>3 DEF Contains
<1> QED BY <1>1, <1>5, <1>6 DEF a, n

(***************************************************************************)
(* Types of the configuration                                              *)
(***************************************************************************)
Named == Text \ {<<>>}
Word  == {t \in Text : Len(t) = 1 /\ t[1] # Blank}

OldPair  == [remote : Word, local : {<<t>> : t \in Word}]
PairType == [remote : Text, local : Seq(Text)]

ConfType ==
  [server : Text, port : 1..(UWord - 1), user : Text, pass : Seq(Letter), local : Text,
   folders : Seq(Named), extra : Seq(OldPair), pairs : Seq(PairType)]

\* What there is room for.
Fits(c) ==
  Len(c.pass) <= MaxPass /\ Len(c.folders) <= MaxFolders /\ Len(c.extra) <= MaxExtra

ConfOK(c) ==
  c \in ConfType /\ Fits(c) /\ c.pairs = Pairs(c) /\ Len(c.pairs) <= MaxFolders + MaxExtra

\* Old pairs are pairs.
LEMMA OldPairsArePairs == Seq(OldPair) \subseteq Seq(PairType)
<1>1. \A t \in Word : t \in Text /\ <<t>> \in Seq(Text)
  BY DEF Word
<1>2. OldPair \subseteq PairType
  BY <1>1 DEF OldPair, PairType
<1> QED BY <1>2

\* Names that are not empty; all of them if none is.
LEMMA FilledNames ==
  ASSUME NEW s \in Seq(Text)
  PROVE  /\ Filled(s) \in Seq(Named) /\ Len(Filled(s)) <= Len(s)
         /\ \A k \in 1..Len(Filled(s)) : \E i \in 1..Len(s) : Filled(s)[k] = s[i]
         /\ \A i \in 1..Len(s) : s[i] # <<>> => s[i] \in ToSet(Filled(s))
         /\ s \in Seq(Named) => Filled(s) = s
<1> DEFINE I == {i \in 1..Len(s) : s[i] # <<>>}
           K == {s[i] : i \in I}
           p == Picked(s, I)
<1>1. I \in SUBSET (1..Len(s)) /\ Filled(s) = p
  BY DEF Filled
<1>2. /\ p \in Seq(K) /\ Len(p) = Cardinality(I) /\ Cardinality(I) <= Len(s)
      /\ \A i \in I : \E k \in 1..Len(p) : p[k] = s[i]
  <2> HIDE DEF I
  <2> QED BY <1>1, PickedEntries
<1> HIDE DEF p
<1>3. K \subseteq Named
  BY DEF Named
<1>4. Seq(K) \subseteq Seq(Named)
  <2> HIDE DEF K
  <2> QED BY <1>3
<1>5. ASSUME s \in Seq(Named)
      PROVE  Filled(s) = s
  <2>1. \A i \in 1..Len(s) : s[i] # <<>>
    BY <1>5 DEF Named
  <2>2. I = 1..Len(s)
    BY <2>1
  <2> HIDE DEF I
  <2> QED BY <1>1, <2>2, PickedAll DEF p
<1>6. \A k \in 1..Len(p) : \E i \in 1..Len(s) : p[k] = s[i]
  <2>1. \A k \in 1..Len(p) : p[k] \in K
    <3> HIDE DEF K
    <3> QED BY <1>2, LenProperties
  <2> QED BY <2>1
<1>7. \A i \in 1..Len(s) : s[i] # <<>> => s[i] \in ToSet(p)
  <2>1. DOMAIN p = 1..Len(p)
    <3> HIDE DEF K
    <3> QED BY <1>2, LenProperties
  <2>2. \A i \in I : \E k \in DOMAIN p : p[k] = s[i]
    BY <1>2, <2>1
  <2> QED BY <2>2 DEF ToSet
<1> HIDE DEF I, K
<1> QED BY <1>1, <1>2, <1>4, <1>5, <1>6, <1>7

\* Names without the blanks around them.
LEMMA RestsOf ==
  ASSUME NEW s \in Seq(Text)
  PROVE  /\ Rests(s) \in Seq(Text) /\ Len(Rests(s)) = Len(s)
         /\ \A i \in 1..Len(s) : Rests(s)[i] = TakeRest(s[i]) /\ Trimmed(Rests(s)[i])
         /\ ToSet(Rests(s)) = {TakeRest(x) : x \in ToSet(s)}
<1>0. Len(s) \in Nat /\ DOMAIN s = 1..Len(s)
  BY LenProperties
<1>1. ASSUME NEW i \in 1..Len(s) PROVE TakeRest(s[i]) \in Text /\ Trimmed(TakeRest(s[i]))
  <2>1. s[i] \in Seq(Vocabulary)
    BY <1>0 DEF Text
  <2> QED BY <2>1, RestText DEF Text
<1>2. Rests(s) = [i \in 1..Len(s) |-> TakeRest(s[i])]
  BY DEF Rests
<1>3. Rests(s) \in Seq(Text) /\ Len(Rests(s)) = Len(s) /\ DOMAIN Rests(s) = 1..Len(s)
  BY <1>0, <1>1, <1>2
<1>4. \A i \in 1..Len(s) : Rests(s)[i] = TakeRest(s[i])
  BY <1>2
<1>5. ToSet(Rests(s)) = {TakeRest(x) : x \in ToSet(s)}
  BY <1>0, <1>3, <1>4 DEF ToSet
<1> QED BY <1>1, <1>3, <1>4, <1>5

\* The pairs of folders and a drawer.
LEMMA PairsTyped ==
  ASSUME NEW folders \in Seq(Named), NEW local \in Text, NEW extra \in Seq(OldPair)
  PROVE  /\ PairsOf(folders, local, extra) \in Seq(PairType)
         /\ Len(PairsOf(folders, local, extra)) <= MaxFolders + MaxExtra
<1> DEFINE named == IF local = <<>> THEN <<>> ELSE Filled(folders)
           joined == [i \in 1..Len(named) |-> Joined(local, named[i])]
<1>1. folders \in Seq(Text)
  BY DEF Named
<1>2. named \in Seq(Named)
  BY <1>1, FilledNames
<1> HIDE DEF named
<1>3. \A i \in 1..Len(named) : Joined(local, named[i]) \in PairType
  <2>1. \A t \in Named : <<local, t>> \in Seq(Text) /\ t \in Text
    BY DEF Named
  <2>2. \A i \in 1..Len(named) : named[i] \in Named
    BY <1>2
  <2> QED BY <2>1, <2>2 DEF Joined, PairType
<1>4. joined \in Seq(PairType)
  <2>1. Len(named) \in Nat
    BY <1>2, LenProperties
  <2> QED BY <1>3, <2>1
<1>5. joined \o extra \in Seq(PairType)
  <2>1. extra \in Seq(PairType)
    BY OldPairsArePairs
  <2> HIDE DEF joined
  <2> QED BY <1>4, <2>1, ConcatProperties
<1> DEFINE all == joined \o extra
<1>6. MaxFolders + MaxExtra \in Nat
  BY LimitsAssumption
<1> HIDE DEF joined, all
<1>7. PairsOf(folders, local, extra) = FirstOf(all, MaxFolders + MaxExtra)
  BY DEF PairsOf, all, joined, named
<1>8. all \in Seq(PairType)
  BY <1>5 DEF all
<1> QED BY <1>6, <1>7, <1>8, FirstOfEntries

\* What nsconf_rebuild() makes of a configuration that fits.
LEMMA RebuildOK ==
  ASSUME NEW c \in ConfType, Fits(c)
  PROVE  /\ ConfOK(Rebuild(c))
         /\ Rebuild(c).server = c.server /\ Rebuild(c).user = c.user
         /\ Rebuild(c).port = c.port /\ Rebuild(c).pass = c.pass
         /\ Rebuild(c).local = c.local
         /\ Rebuild(c).folders = c.folders /\ Rebuild(c).extra = c.extra
<1> DEFINE p == Pairs(c)
           r == Rebuild(c)
<1>1. /\ c.folders \in Seq(Named) /\ c.local \in Text /\ c.extra \in Seq(OldPair)
      /\ r = [c EXCEPT !.pairs = p]
  BY DEF ConfType, Rebuild
<1>2. p \in Seq(PairType) /\ Len(p) <= MaxFolders + MaxExtra
  BY <1>1, PairsTyped DEF Pairs
<1> HIDE DEF p, r
<1>3. /\ r \in ConfType /\ r.pairs = p
      /\ r.server = c.server /\ r.user = c.user /\ r.port = c.port /\ r.pass = c.pass
      /\ r.local = c.local /\ r.folders = c.folders /\ r.extra = c.extra
  BY <1>1, <1>2 DEF ConfType
<1>4. Pairs(r) = p
  BY <1>3 DEF Pairs, p
<1>5. Fits(r)
  BY <1>3 DEF Fits
<1> QED BY <1>2, <1>3, <1>4, <1>5 DEF ConfOK, r

(***************************************************************************)
(* Loading                                                                 *)
(***************************************************************************)
\* The words of a line, and the first.
LEMMA Words ==
  ASSUME NEW t \in Text
  PROVE  /\ WordsOf(t) \in Seq(Vocabulary \ {Blank})
         /\ (\A i \in 1..Len(t) : t[i] # Blank) => WordsOf(t) = t
         /\ TakeWord(t) \in Text
<1> DEFINE I == Inked(t)
           K == {t[i] : i \in I}
           w == WordsOf(t)
<1>1. t \in Seq(Vocabulary) /\ I \in SUBSET (1..Len(t)) /\ w = Picked(t, I)
  BY DEF Text, Inked, WordsOf
<1> HIDE DEF w
<1>2. K \subseteq Vocabulary \ {Blank}
  BY <1>1 DEF Inked
<1>3. w \in Seq(K)
  <2> HIDE DEF I
  <2> QED BY <1>1, PickedEntries
<1>4. w \in Seq(Vocabulary \ {Blank})
  <2> HIDE DEF K
  <2> QED BY <1>2, <1>3
<1>5. ASSUME \A i \in 1..Len(t) : t[i] # Blank PROVE w = t
  <2>1. I = 1..Len(t)
    BY <1>5 DEF Inked
  <2> HIDE DEF I
  <2> QED BY <1>1, <2>1, PickedAll
<1>6. TakeWord(t) \in Text
  <2>1. FirstOf(w, 1) \in Seq(Vocabulary \ {Blank})
    BY <1>4, FirstOfEntries
  <2> QED BY <2>1 DEF TakeWord, Text, w
<1> QED BY <1>4, <1>5, <1>6 DEF w

\* A line with two words is a pair ...
LEMMA ExtraTyped ==
  ASSUME NEW words \in Seq(Vocabulary \ {Blank}), Len(words) >= 2
  PROVE  Extra(words) \in OldPair
<1>1. words[1] \in Vocabulary \ {Blank} /\ words[2] \in Vocabulary \ {Blank}
  BY LenProperties
<1>2. \A v \in Vocabulary \ {Blank} : <<v>> \in Word
  BY DEF Word, Text
<1> QED BY <1>1, <1>2 DEF Extra, OldPair

\* ... and the line that is written for a pair has two and gives it back.
LEMMA ExtraOfLine ==
  ASSUME NEW p \in OldPair
  PROVE  LET line == p.remote \o p.local[1]
         IN /\ line \in Text /\ WordsOf(line) = line
            /\ Len(line) = 2 /\ Extra(line) = p
<1> DEFINE r == p.remote
           l == p.local[1]
           line == r \o l
<1>1. r \in Word /\ l \in Word /\ p = [remote |-> r, local |-> <<l>>]
  BY DEF OldPair
<1> HIDE DEF r, l
<1>2. /\ r \in Seq(Vocabulary) /\ l \in Seq(Vocabulary) /\ Len(r) = 1 /\ Len(l) = 1
      /\ r[1] # Blank /\ l[1] # Blank
  BY <1>1 DEF Word, Text
<1>3. /\ line \in Seq(Vocabulary) /\ Len(line) = Len(r) + Len(l)
      /\ \A i \in 1..(Len(r) + Len(l)) : line[i] = IF i <= Len(r) THEN r[i] ELSE l[i - Len(r)]
  BY <1>2, ConcatProperties
<1> HIDE DEF line
<1>4. Len(line) = 2 /\ line[1] = r[1] /\ line[2] = l[1]
  BY <1>2, <1>3
<1>5. WordsOf(line) = line
  <2>1. \A i \in 1..Len(line) : line[i] # Blank
    BY <1>2, <1>4
  <2> QED BY <1>3, <2>1, Words DEF Text
<1>6. \A q \in Seq(Vocabulary) : Len(q) = 1 => q = <<q[1]>>
  OBVIOUS
<1>7. r = <<line[1]>> /\ l = <<line[2]>>
  BY <1>2, <1>4, <1>6
<1> QED BY <1>1, <1>3, <1>4, <1>5, <1>7 DEF Extra, Text, line, r, l

\* The lines nsconf_load() takes for pairs, and what it makes of them.
LineWords(file) == [i \in 1..Len(file.pairs) |-> WordsOf(file.pairs[i])]
PairLines(file) ==
  Picked(LineWords(file), {i \in 1..Len(LineWords(file)) : Len(LineWords(file)[i]) >= 2})
Extras(file) == [i \in 1..Len(PairLines(file)) |-> Extra(PairLines(file)[i])]
ReadConf(file) ==
  LET port  == file.port % UWord
      local == TakeRest(file.local)
  IN [server |-> TakeWord(file.server), user |-> TakeWord(file.user),
      pass |-> FirstOf(TakeRest(file.pass), MaxPass),
      port |-> IF port = 0 THEN 443 ELSE port,
      local |-> IF local = <<>> THEN DefaultLocal ELSE local,
      folders |-> FirstOf(Filled(Rests(file.folders)), MaxFolders),
      extra |-> FirstOf(Extras(file), MaxExtra), pairs |-> <<>>]

\* They are pairs.
LEMMA ExtrasTyped ==
  ASSUME NEW file \in FileType
  PROVE  Extras(file) \in Seq(OldPair)
<1> DEFINE words == LineWords(file)
           I == {i \in 1..Len(words) : Len(words[i]) >= 2}
           K == {words[i] : i \in I}
           lines == Picked(words, I)
           Inky == Seq(Vocabulary \ {Blank})
<1>0. file.pairs \in Seq(Text) /\ Len(file.pairs) \in Nat
  BY LenProperties DEF FileType
<1>1. words \in Seq(Inky)
  <2>1. \A i \in 1..Len(file.pairs) : WordsOf(file.pairs[i]) \in Inky
    BY <1>0, Words
  <2> HIDE DEF Inky
  <2> QED BY <1>0, <2>1 DEF LineWords
<1> HIDE DEF words
<1>2. I \in SUBSET (1..Len(words)) /\ \A k \in K : k \in Inky /\ Len(k) >= 2
  BY <1>1
<1>3. lines \in Seq(K)
  <2> HIDE DEF I
  <2> QED BY <1>1, <1>2, PickedEntries
<1> HIDE DEF I, K
<1>4. PairLines(file) = lines
  BY DEF PairLines, words, I
<1> HIDE DEF lines
<1>5. Len(lines) \in Nat /\ \A i \in 1..Len(lines) : lines[i] \in K
  BY <1>3, LenProperties
<1>6. \A i \in 1..Len(lines) : Extra(lines[i]) \in OldPair
  BY <1>2, <1>5, ExtraTyped
<1> QED BY <1>4, <1>5, <1>6 DEF Extras

\* Defaults are a configuration.
LEMMA DefaultsOK == ConfOK(Defaults)
<1>1. DefaultLocal \in Text
  BY DEF DefaultLocal, Text, Vocabulary
<1>2. <<>> \in Text /\ <<>> \in Seq(Letter) /\ <<>> \in Seq(Named) /\ <<>> \in Seq(OldPair)
      /\ <<>> \in Seq(PairType) /\ Len(<<>>) = 0
  BY DEF Text
<1> HIDE DEF DefaultLocal
<1>3. Defaults \in ConfType
  BY <1>1, <1>2 DEF Defaults, ConfType, UWord
<1>4. Fits(Defaults)
  BY <1>2, LimitsAssumption DEF Defaults, Fits
<1>5. Defaults.pairs = Pairs(Defaults)
  BY DefaultsAreFresh DEF FreshConf
<1>6. Len(Defaults.pairs) <= MaxFolders + MaxExtra
  BY <1>2, LimitsAssumption DEF Defaults
<1> QED BY <1>3, <1>4, <1>5, <1>6 DEF ConfOK

\* What is read of a file fits, however long its lists are.
LEMMA ReadConfTyped ==
  ASSUME NEW file \in FileType
  PROVE  /\ ReadConf(file) \in ConfType /\ Fits(ReadConf(file))
         /\ \A x \in ToSet(ReadConf(file).folders) : TakeRest(x) = x
<1> DEFINE filled == Filled(Rests(file.folders))
           folders == FirstOf(filled, MaxFolders)
           extra == FirstOf(Extras(file), MaxExtra)
           rest == TakeRest(file.pass)
           pass == FirstOf(rest, MaxPass)
           drawer == TakeRest(file.local)
           local == IF drawer = <<>> THEN DefaultLocal ELSE drawer
           port == IF file.port % UWord = 0 THEN 443 ELSE file.port % UWord
           server == TakeWord(file.server)
           user == TakeWord(file.user)
<1>1. /\ folders \in Seq(Named) /\ Len(folders) <= MaxFolders
      /\ \A x \in ToSet(folders) : TakeRest(x) = x
  <2> DEFINE rests == Rests(file.folders)
  <2>1. file.folders \in Seq(Text) /\ Len(file.folders) \in Nat
    BY LenProperties DEF FileType
  <2>2. rests \in Seq(Text) /\ \A i \in 1..Len(rests) : Trimmed(rests[i])
    BY <2>1, RestsOf
  <2> HIDE DEF rests
  <2>3. filled \in Seq(Named) /\ \A k \in 1..Len(filled) : \E i \in 1..Len(rests) : filled[k] = rests[i]
    BY <2>2, FilledNames DEF rests
  <2> HIDE DEF filled
  <2>4. /\ folders \in Seq(Named) /\ Len(folders) <= MaxFolders
        /\ \A i \in 1..Len(folders) : folders[i] = filled[i]
        /\ Len(folders) <= Len(filled)
    <3>1. Len(filled) \in Nat /\ MaxFolders \in Nat
      BY <2>3, LenProperties, LimitsAssumption
    <3> QED BY <2>3, <3>1, FirstOfEntries
  <2> HIDE DEF folders
  <2>5. ASSUME NEW x \in ToSet(folders) PROVE TakeRest(x) = x
    <3>1. PICK i \in 1..Len(folders) : folders[i] = x
      BY <2>4 DEF ToSet
    <3>2. i \in 1..Len(filled) /\ filled[i] = x
      <4>1. Len(folders) \in Nat /\ Len(filled) \in Nat
        BY <2>3, <2>4, LenProperties
      <4> QED BY <2>4, <3>1, <4>1
    <3>3. Trimmed(x)
      BY <2>2, <2>3, <3>2
    <3>4. x \in Seq(Vocabulary)
      BY <2>4, <3>1 DEF Named, Text
    <3> QED BY <3>3, <3>4, RestAgain
  <2> QED BY <2>4, <2>5
<1>2. extra \in Seq(OldPair) /\ Len(extra) <= MaxExtra
  BY ExtrasTyped, FirstOfEntries, LimitsAssumption
<1>3. pass \in Seq(Letter) /\ Len(pass) <= MaxPass
  <2>1. rest \in Seq(Letter)
    BY RestText DEF FileType
  <2> HIDE DEF rest
  <2> QED BY <2>1, FirstOfEntries, LimitsAssumption
<1>4. local \in Text
  <2>1. DefaultLocal \in Text
    BY DEF DefaultLocal, Text, Vocabulary
  <2>2. drawer \in Text
    BY RestText DEF FileType, Text
  <2> HIDE DEF drawer
  <2> QED BY <2>1, <2>2
<1>5. port \in 1..(UWord - 1)
  <2> DEFINE n == file.port
             r == n % UWord
  <2>1. n \in Nat
    BY DEF FileType
  <2> HIDE DEF n
  <2>2. r \in 0..65535
    BY <2>1, SMT DEF UWord
  <2> HIDE DEF r
  <2>3. port = IF r = 0 THEN 443 ELSE r
    BY DEF n, r
  <2> HIDE DEF port
  <2> QED BY <2>2, <2>3 DEF UWord
<1>6. server \in Text /\ user \in Text
  BY Words DEF FileType
<1>7. ReadConf(file) = [server |-> server, user |-> user, pass |-> pass, port |-> port,
                        local |-> local, folders |-> folders, extra |-> extra, pairs |-> <<>>]
  BY DEF ReadConf
<1>8. <<>> \in Seq(PairType)
  OBVIOUS
<1> HIDE DEF folders, extra, pass, local, port, server, user
<1> QED BY <1>1, <1>2, <1>3, <1>4, <1>5, <1>6, <1>7, <1>8 DEF ConfType, Fits

\* Loading.  What is loaded has no blanks around its folders.
LEMMA LoadedOK ==
  ASSUME NEW file, file = NoFile \/ file \in FileType
  PROVE  /\ ConfOK(Loaded(file))
         /\ \A x \in ToSet(Loaded(file).folders) : TakeRest(x) = x
         /\ file \in FileType => Loaded(file) = Rebuild(ReadConf(file))
<1>1. CASE file = NoFile
  <2>1. Loaded(file) = Defaults /\ file \notin FileType
    BY <1>1, AppAssumption DEF Loaded
  <2>2. ToSet(Defaults.folders) = {}
    BY DEF Defaults, ToSet
  <2> QED BY <2>1, <2>2, DefaultsOK
<1>2. CASE file \in FileType
  <2>1. Loaded(file) = Rebuild(ReadConf(file))
    BY <1>2, AppAssumption DEF Loaded, ReadConf, Extras, PairLines, LineWords
  <2>2. ConfOK(Loaded(file)) /\ Loaded(file).folders = ReadConf(file).folders
    BY <1>2, <2>1, ReadConfTyped, RebuildOK
  <2> QED BY <1>2, <2>1, <2>2, ReadConfTyped
<1> QED BY <1>1, <1>2

(***************************************************************************)
(* Saving                                                                  *)
(***************************************************************************)
\* The lines written for the pairs.
LEMMA SavedLines ==
  ASSUME NEW c, ConfOK(c)
  PROVE  /\ Saved(c).pairs \in Seq(Text) /\ Len(Saved(c).pairs) = Len(c.extra)
         /\ \A i \in 1..Len(c.extra) : /\ WordsOf(Saved(c).pairs[i]) = Saved(c).pairs[i]
                                       /\ Len(Saved(c).pairs[i]) = 2
                                       /\ Extra(Saved(c).pairs[i]) = c.extra[i]
<1> DEFINE e == c.extra
           line(i) == e[i].remote \o e[i].local[1]
           lines == [i \in 1..Len(e) |-> line(i)]
<1>1. e \in Seq(OldPair) /\ Len(e) \in Nat
  BY LenProperties DEF ConfOK, ConfType
<1>2. Saved(c).pairs = lines
  BY DEF Saved
<1> HIDE DEF e
<1>3. ASSUME NEW i \in 1..Len(e)
      PROVE  /\ line(i) \in Text /\ WordsOf(line(i)) = line(i)
             /\ Len(line(i)) = 2 /\ Extra(line(i)) = e[i]
  <2>1. e[i] \in OldPair
    BY <1>1
  <2> QED BY <2>1, ExtraOfLine
<1> HIDE DEF line
<1>4. lines \in Seq(Text) /\ Len(lines) = Len(e) /\ \A i \in 1..Len(e) : lines[i] = line(i)
  BY <1>1, <1>3
<1> HIDE DEF lines
<1> QED BY <1>2, <1>3, <1>4 DEF e

\* What is left of a file is a file: its first five lines, ...
LEMMA HeadTyped ==
  ASSUME NEW file \in FileType, NEW how, NEW f \in HeadCut(file, how)
  PROVE  f \in FileType
<1>0. /\ file.server \in Text /\ file.port \in Nat /\ file.user \in Text
      /\ file.pass \in Seq(Letter) /\ file.local \in Text
  BY DEF FileType
<1>1. <<>> \in Text /\ <<>> \in Seq(Letter) /\ <<Scrap>> \in Text /\ 0 \in Nat
  BY DEF Text, Vocabulary
<1>2. file.port \div 10 \in Nat
  <2>1. \A k \in Nat : k \div 10 \in Nat
    OBVIOUS
  <2> QED BY <1>0, <2>1
<1>3. FirstOf(file.pass, Len(file.pass) \div 2) \in Seq(Letter)
  <2> DEFINE n == Len(file.pass) \div 2
  <2>1. n \in Nat
    <3>1. \A k \in Nat : k \div 2 \in Nat
      OBVIOUS
    <3>2. Len(file.pass) \in Nat
      BY <1>0, LenProperties
    <3> QED BY <3>1, <3>2
  <2> HIDE DEF n
  <2>2. FirstOf(file.pass, n) \in Seq(Letter)
    BY <1>0, <2>1, FirstOfEntries
  <2> QED BY <2>2 DEF n
<1>4. CASE how = "whole"
  BY <1>4 DEF HeadCut
<1>5. CASE how # "whole"
  <2> DEFINE left(n, line, value, piece, none) ==
               IF line <= n THEN value ELSE IF line = n + 1 /\ how = "value" THEN piece ELSE none
             half == FirstOf(file.pass, Len(file.pass) \div 2)
  <2>1. PICK n \in 0..4 :
          f = [file EXCEPT !.server = left(n, 1, @, <<Scrap>>, <<>>),
                           !.port   = left(n, 2, @, @ \div 10, 0),
                           !.user   = left(n, 3, @, <<Scrap>>, <<>>),
                           !.pass   = left(n, 4, @, FirstOf(@, Len(@) \div 2), <<>>),
                           !.local  = left(n, 5, @, <<Scrap>>, <<>>)]
    BY <1>5 DEF HeadCut
  <2> DEFINE s == left(n, 1, file.server, <<Scrap>>, <<>>)
             o == left(n, 2, file.port, file.port \div 10, 0)
             u == left(n, 3, file.user, <<Scrap>>, <<>>)
             w == left(n, 4, file.pass, half, <<>>)
             l == left(n, 5, file.local, <<Scrap>>, <<>>)
  <2>2. s \in Text /\ u \in Text /\ l \in Text
    BY <1>0, <1>1
  <2>3. o \in Nat
    BY <1>0, <1>1, <1>2
  <2>4. w \in Seq(Letter)
    BY <1>0, <1>1, <1>3
  <2>5. f = [file EXCEPT !.server = s, !.port = o, !.user = u, !.pass = w, !.local = l]
    BY <2>1
  <2> HIDE DEF s, o, u, w, l
  <2> QED BY <2>2, <2>3, <2>4, <2>5 DEF FileType
<1> QED BY <1>4, <1>5

\* ... its other lines, ...
LEMMA LinesTyped ==
  ASSUME NEW lines \in Seq(Text), NEW scrap \in Text, NEW written
  PROVE  LinesLeft(lines, written, scrap) \in Seq(Text)
<1> DEFINE all == [i \in 1..Len(lines) |-> IF written[i] = "value" THEN scrap ELSE lines[i]]
           I == {i \in 1..Len(lines) :
                   \/ written[i] = "value"
                   \/ written[i] = "whole" /\ (i = 1 \/ written[i - 1] \in {"whole", "none"})}
           K == {all[i] : i \in I}
<1>1. LinesLeft(lines, written, scrap) = Picked(all, I)
  BY DEF LinesLeft
<1>2. all \in Seq(Text) /\ Len(all) = Len(lines) /\ \A i \in 1..Len(lines) : all[i] \in Text
  BY LenProperties
<1>3. I \in SUBSET (1..Len(all))
  BY <1>2
<1> HIDE DEF all
<1>4. K \subseteq Text
  BY <1>2, <1>3
<1> HIDE DEF I
<1>5. Picked(all, I) \in Seq(K)
  BY <1>2, <1>3, PickedEntries
<1> HIDE DEF K
<1> QED BY <1>1, <1>4, <1>5

\* ... and all of it, whatever was written.
LEMMA TornTyped ==
  ASSUME NEW file \in FileType, NEW f \in Torn(file)
  PROVE  f \in FileType
<1>1. PICK w : f \in TornBy(file, w)
  BY DEF Torn
<1>2. PICK g \in HeadCut(file, w[1]) :
         f = [g EXCEPT
                !.folders = LinesLeft(@, [i \in 1..Len(file.folders) |-> w[1 + i]], <<Scrap>>),
                !.pairs   = LinesLeft(@, [i \in 1..Len(@) |-> w[1 + Len(file.folders) + i]],
                                      <<Scrap, Scrap>>)]
  BY <1>1 DEF TornBy
<1>3. g \in FileType
  BY <1>2, HeadTyped
<1> DEFINE x == LinesLeft(g.folders, [i \in 1..Len(file.folders) |-> w[1 + i]], <<Scrap>>)
           y == LinesLeft(g.pairs, [i \in 1..Len(g.pairs) |-> w[1 + Len(file.folders) + i]],
                          <<Scrap, Scrap>>)
<1>4. <<Scrap>> \in Text /\ <<Scrap, Scrap>> \in Text
  BY DEF Text, Vocabulary
<1>5. x \in Seq(Text) /\ y \in Seq(Text)
  BY <1>3, <1>4, LinesTyped DEF FileType
<1>6. f = [g EXCEPT !.folders = x, !.pairs = y]
  BY <1>2, <1>3 DEF FileType
<1> HIDE DEF x, y
<1> QED BY <1>3, <1>5, <1>6 DEF FileType

\* A file that is written, whole or not, is a file.
LEMMA SavedOK ==
  ASSUME NEW c, ConfOK(c)
  PROVE  Saved(c) \in FileType /\ Torn(Saved(c)) \subseteq FileType
<1> DEFINE lines == Saved(c).pairs
<1>1. c \in ConfType
  BY DEF ConfOK
<1>2. lines \in Seq(Text)
  BY SavedLines
<1>3. Saved(c) = [server |-> c.server, port |-> c.port, user |-> c.user, pass |-> c.pass,
                  local |-> c.local, folders |-> c.folders, pairs |-> lines]
  BY DEF Saved
<1> HIDE DEF lines
<1>4. c.folders \in Seq(Text) /\ c.port \in Nat
  <2>1. c.folders \in Seq(Named) /\ c.port \in 1..(UWord - 1)
    BY <1>1 DEF ConfType
  <2>2. Named \subseteq Text
    BY DEF Named
  <2>3. c.port \in Nat
    <3>1. \A n \in 1..(UWord - 1) : n \in Nat
      BY DEF UWord
    <3> QED BY <2>1, <3>1
  <2>4. c.folders \in Seq(Text)
    BY <2>1, <2>2
  <2> QED BY <2>3, <2>4
<1>5. Saved(c) \in FileType
  BY <1>1, <1>2, <1>3, <1>4 DEF ConfType, FileType
<1> QED BY <1>5, TornTyped

\* What a whole file gives back: always the folders, without the blanks around
\* them, and the old pairs; and everything if there are no such blanks, server
\* and user are words, and there is a drawer.
LEMMA LoadedSaved ==
  ASSUME NEW c, ConfOK(c)
  PROVE  /\ Loaded(Saved(c)).folders = Filled(Rests(c.folders))
         /\ Loaded(Saved(c)).extra = c.extra
         /\ (Plain(c) /\ c.local # <<>>) => Loaded(Saved(c)) = c
<1> DEFINE file == Saved(c)
           r == ReadConf(file)
           l == Loaded(file)
<1>0. c \in ConfType /\ Fits(c) /\ c.pairs = Pairs(c)
  BY DEF ConfOK
<1>1. file \in FileType
  BY SavedOK
<1>2. /\ file.server = c.server /\ file.user = c.user /\ file.pass = c.pass
      /\ file.port = c.port /\ file.local = c.local /\ file.folders = c.folders
  BY DEF Saved
<1>3. /\ file.pairs \in Seq(Text) /\ Len(file.pairs) = Len(c.extra)
      /\ \A i \in 1..Len(c.extra) : /\ WordsOf(file.pairs[i]) = file.pairs[i]
                                    /\ Len(file.pairs[i]) = 2
                                    /\ Extra(file.pairs[i]) = c.extra[i]
  BY SavedLines
<1> HIDE DEF file
<1>4. Extras(file) = c.extra
  <2> DEFINE pairs == file.pairs
             I == {i \in 1..Len(pairs) : Len(pairs[i]) >= 2}
  <2>0. LineWords(file) = pairs
    <3>1. LineWords(file) = [i \in 1..Len(pairs) |-> pairs[i]]
      BY <1>3 DEF LineWords
    <3> QED BY <1>3, <3>1
  <2>1. I = 1..Len(pairs)
    <3>1. \A i \in 1..Len(pairs) : Len(pairs[i]) = 2
      BY <1>3
    <3> HIDE DEF pairs
    <3> QED BY <3>1
  <2>2. PairLines(file) = pairs
    <3>1. PairLines(file) = Picked(pairs, I)
      BY <2>0 DEF PairLines
    <3> HIDE DEF I, pairs
    <3>2. Picked(pairs, 1..Len(pairs)) = pairs
      BY <1>3, PickedAll DEF pairs
    <3> QED BY <2>1, <3>1, <3>2
  <2>3. Extras(file) = [i \in 1..Len(c.extra) |-> Extra(pairs[i])]
    BY <1>3, <2>2 DEF Extras
  <2>4. Extras(file) = [i \in 1..Len(c.extra) |-> c.extra[i]]
    BY <1>3, <2>3
  <2>5. c.extra \in Seq(OldPair)
    BY <1>0 DEF ConfType
  <2> QED BY <2>4, <2>5
<1>5. r.folders = Filled(Rests(c.folders)) /\ r.extra = c.extra
  <2> DEFINE rests == Rests(c.folders)
             filled == Filled(rests)
  <2>1. c.folders \in Seq(Text) /\ Len(c.folders) <= MaxFolders /\ Len(c.folders) \in Nat
    <3>1. c.folders \in Seq(Named) /\ Len(c.folders) <= MaxFolders
      BY <1>0 DEF ConfType, Fits
    <3> QED BY <3>1, LenProperties DEF Named
  <2>2. rests \in Seq(Text) /\ Len(rests) <= MaxFolders /\ Len(rests) \in Nat
    BY <2>1, RestsOf
  <2> HIDE DEF rests
  <2>3. filled \in Seq(Named) /\ Len(filled) <= MaxFolders
    <3>1. filled \in Seq(Named) /\ Len(filled) <= Len(rests)
      BY <2>2, FilledNames
    <3>2. Len(filled) \in Nat
      BY <3>1, LenProperties
    <3> HIDE DEF filled
    <3> QED BY <2>2, <3>1, <3>2, LimitsAssumption
  <2>4. FirstOf(filled, MaxFolders) = filled
    <3> HIDE DEF filled
    <3> QED BY <2>3, FirstOfEntries, LimitsAssumption
  <2>5. FirstOf(c.extra, MaxExtra) = c.extra
    BY <1>0, FirstOfEntries, LimitsAssumption DEF Fits, ConfType
  <2> QED BY <1>2, <1>4, <2>4, <2>5 DEF ReadConf, rests
<1>6. l = Rebuild(r)
  BY <1>1, LoadedOK
<1>7. r \in ConfType /\ Fits(r)
  BY <1>1, ReadConfTyped
<1>8. l.folders = r.folders /\ l.extra = r.extra
  <2> HIDE DEF r, l
  <2> QED BY <1>6, <1>7, RebuildOK
<1>9. ASSUME Plain(c), c.local # <<>>
      PROVE  l = c
  <2>1. r.server = c.server /\ r.user = c.user
    BY <1>2, <1>9 DEF ReadConf, Plain
  <2>2. r.local = c.local
    BY <1>2, <1>9 DEF ReadConf, Plain
  <2>a. r.pass = c.pass
    <3>1. FirstOf(c.pass, MaxPass) = c.pass
      BY <1>0, FirstOfEntries, LimitsAssumption DEF Fits, ConfType
    <3>2. r.pass = FirstOf(TakeRest(c.pass), MaxPass)
      BY <1>2 DEF ReadConf
    <3> QED BY <1>9, <3>1, <3>2 DEF Plain
  <2>b. r.folders = c.folders
    <3>1. c.folders \in Seq(Named) /\ c.folders \in Seq(Text)
      BY <1>0 DEF ConfType, Named
    <3>2. Filled(c.folders) = c.folders
      BY <3>1, FilledNames
    <3> QED BY <1>5, <1>9, <3>2 DEF Plain
  <2>3. r.port = c.port
    <3> DEFINE n == c.port
    <3>0. n \in 1..(UWord - 1)
      BY <1>0 DEF ConfType
    <3> HIDE DEF n
    <3>1. n \in Nat /\ 0 < n /\ n < 65536
      BY <3>0 DEF UWord
    <3>2. n % UWord = n /\ n # 0
      BY <3>1, SMT DEF UWord
    <3>3. r.port = IF n % UWord = 0 THEN 443 ELSE n % UWord
      BY <1>2 DEF ReadConf, n
    <3> QED BY <3>2, <3>3 DEF n
  <2>4. Pairs(r) = Pairs(c)
    BY <1>5, <2>2, <2>b DEF Pairs
  <2> HIDE DEF r, l
  <2>5. l = [r EXCEPT !.pairs = c.pairs]
    BY <1>0, <1>6, <2>4 DEF Rebuild
  <2> QED BY <1>0, <1>5, <1>7, <2>1, <2>2, <2>3, <2>5, <2>a, <2>b DEF ConfType
<1> QED BY <1>5, <1>8, <1>9 DEF file

(***************************************************************************)
(* Editing                                                                 *)
(***************************************************************************)
\* Folders added and removed: the others stay, and so do the old pairs.
LEMMA EditedOK ==
  ASSUME NEW c, ConfOK(c), NEW name \in Named
  PROVE  /\ ConfOK(AddFolder(c, name)) /\ ConfOK(DelFolder(c, name))
         /\ AddFolder(c, name).extra = c.extra /\ DelFolder(c, name).extra = c.extra
         /\ ToSet(c.folders) \subseteq ToSet(AddFolder(c, name).folders)
         /\ ToSet(AddFolder(c, name).folders) \subseteq ToSet(c.folders) \cup {name}
         /\ ToSet(DelFolder(c, name).folders) \subseteq ToSet(c.folders)
         /\ ToSet(c.folders) \ {name} \subseteq ToSet(DelFolder(c, name).folders)
         /\ ~HasFolder(AddFolder(c, name), name) => AddFolder(c, name) = c
<1>0. c \in ConfType /\ Fits(c) /\ c.folders \in Seq(Named) /\ Len(c.folders) \in Nat
  BY LenProperties DEF ConfOK, ConfType
<1>1. ASSUME NEW x \in Seq(Named), Len(x) <= MaxFolders
      PROVE  LET d == Rebuild([c EXCEPT !.folders = x])
             IN ConfOK(d) /\ d.folders = x /\ d.extra = c.extra
  <2> DEFINE e == [c EXCEPT !.folders = x]
  <2>1. /\ e \in ConfType /\ e.folders = x /\ e.extra = c.extra /\ e.pass = c.pass
    BY <1>0 DEF ConfType
  <2> HIDE DEF e
  <2>2. Fits(e)
    BY <1>0, <1>1, <2>1 DEF Fits
  <2> QED BY <2>1, <2>2, RebuildOK DEF e
<1> DEFINE more == Append(c.folders, name)
           fewer == RemoveFirst(c.folders, name)
<1>2. /\ more \in Seq(Named) /\ Len(more) = Len(c.folders) + 1
      /\ ToSet(more) = ToSet(c.folders) \cup {name} /\ Contains(more, name)
  BY <1>0, AppendedLast
<1>3. ASSUME HasFolder(c, name)
      PROVE  /\ fewer \in Seq(Named) /\ Len(fewer) = Len(c.folders) - 1
             /\ ToSet(fewer) \subseteq ToSet(c.folders)
             /\ ToSet(c.folders) \ {name} \subseteq ToSet(fewer)
  BY <1>0, <1>3, RemovedFirst DEF HasFolder
<1> HIDE DEF more, fewer
<1>4. /\ ConfOK(AddFolder(c, name)) /\ AddFolder(c, name).extra = c.extra
      /\ ToSet(c.folders) \subseteq ToSet(AddFolder(c, name).folders)
      /\ ToSet(AddFolder(c, name).folders) \subseteq ToSet(c.folders) \cup {name}
      /\ ~HasFolder(AddFolder(c, name), name) => AddFolder(c, name) = c
  <2>1. CASE name = <<>> \/ Len(c.folders) >= MaxFolders \/ HasFolder(c, name)
    <3>1. AddFolder(c, name) = c
      BY <2>1 DEF AddFolder
    <3> QED BY <3>1
  <2>2. CASE ~(name = <<>> \/ Len(c.folders) >= MaxFolders \/ HasFolder(c, name))
    <3> DEFINE d == Rebuild([c EXCEPT !.folders = more])
    <3>1. AddFolder(c, name) = d
      BY <2>2 DEF AddFolder, more
    <3>2. Len(more) <= MaxFolders
      BY <1>0, <1>2, <2>2, LimitsAssumption
    <3>3. ConfOK(d) /\ d.folders = more /\ d.extra = c.extra
      BY <1>1, <1>2, <3>2
    <3> HIDE DEF d
    <3>4. HasFolder(d, name)
      BY <1>2, <3>3 DEF HasFolder
    <3> QED BY <1>2, <3>1, <3>3, <3>4
  <2> QED BY <2>1, <2>2
<1>5. /\ ConfOK(DelFolder(c, name)) /\ DelFolder(c, name).extra = c.extra
      /\ ToSet(DelFolder(c, name).folders) \subseteq ToSet(c.folders)
      /\ ToSet(c.folders) \ {name} \subseteq ToSet(DelFolder(c, name).folders)
  <2>1. CASE ~HasFolder(c, name)
    <3>1. DelFolder(c, name) = c
      BY <2>1 DEF DelFolder
    <3> QED BY <3>1
  <2>2. CASE HasFolder(c, name)
    <3> DEFINE d == Rebuild([c EXCEPT !.folders = fewer])
    <3>1. DelFolder(c, name) = d
      BY <2>2 DEF DelFolder, fewer
    <3>2. Len(fewer) <= MaxFolders
      <4>1. Len(c.folders) <= MaxFolders
        BY <1>0 DEF Fits
      <4> QED BY <1>0, <1>3, <2>2, <4>1, LimitsAssumption
    <3>3. ConfOK(d) /\ d.folders = fewer /\ d.extra = c.extra
      BY <1>1, <1>3, <2>2, <3>2
    <3> HIDE DEF d
    <3> QED BY <1>3, <2>2, <3>1, <3>3
  <2> QED BY <2>1, <2>2
<1> QED BY <1>4, <1>5

\* The gadgets.
FieldsType == [server : Text, user : Text, local : Text, port : Nat]
PwShort(p) == Len(p.real) <= MaxChars /\ Len(p.view) <= MaxChars /\ p.mask <= MaxChars

\* The fields are read into the configuration; the folders stay.
LEMMA FieldsReadOK ==
  ASSUME ConfOK(conf), fields \in FieldsType, PwTyped(pw), PwShort(pw)
  PROVE  /\ ConfOK(FieldsRead)
         /\ FieldsRead.folders = conf.folders /\ FieldsRead.extra = conf.extra
<1> DEFINE port == IF fields.port \in 1..(UWord - 1) THEN fields.port ELSE 443
           c == [conf EXCEPT !.server = fields.server, !.user = fields.user,
                   !.pass = pw.real, !.local = fields.local, !.port = port]
<1>1. FieldsRead = Rebuild(c)
  BY DEF FieldsRead
<1>2. port \in 1..(UWord - 1)
  <2>1. 443 \in 1..(UWord - 1)
    BY DEF UWord
  <2> QED BY <2>1
<1> HIDE DEF port
<1>3. conf \in ConfType /\ Fits(conf)
  BY DEF ConfOK
<1>4. c \in ConfType /\ c.folders = conf.folders /\ c.extra = conf.extra /\ c.pass = pw.real
  BY <1>2, <1>3 DEF ConfType, FieldsType, PwTyped
<1> HIDE DEF c
<1>5. Fits(c)
  BY <1>3, <1>4, AppAssumption DEF Fits, PwShort
<1> QED BY <1>1, <1>4, <1>5, RebuildOK

\* The list of names: none empty, no more than there is room for, and while
\* there is room every name that was offered.
LEMMA NamesAdded ==
  ASSUME NEW list \in Seq(Text)
  PROVE  /\ AddNames(list) \in Seq(Named) /\ Len(AddNames(list)) <= MaxList
         /\ \/ ToSet(list) \subseteq ToSet(AddNames(list)) \cup {<<>>}
            \/ Len(AddNames(list)) = MaxList
<1> DEFINE first == {i \in 1..Len(list) :
                       list[i] # <<>> /\ \A j \in 1..(i - 1) : list[j] # list[i]}
           K == {list[i] : i \in first}
           p == Picked(list, first)
           a == FirstOf(p, MaxList)
<1>0. AddNames(list) = a
  BY DEF AddNames
<1>1. first \in SUBSET (1..Len(list)) /\ Len(list) \in Nat
  BY LenProperties
<1>2. K \subseteq Named
  BY DEF Named
<1>3. ASSUME NEW x \in ToSet(list), x # <<>>
      PROVE  \E i \in first : list[i] = x
  <2> DEFINE J == {i \in 1..Len(list) : list[i] = x}
  <2>1. J # {} /\ J \subseteq Nat
    BY <1>1 DEF ToSet
  <2>2. PICK m \in J : \A k \in J : m <= k
    BY <2>1, LeastNumber
  <2>3. \A j \in 1..(m - 1) : list[j] # x
    BY <1>1, <2>2
  <2> QED BY <1>3, <2>2, <2>3
<1> HIDE DEF first
<1>4. p \in Seq(K) /\ \A i \in first : \E k \in 1..Len(p) : p[k] = list[i]
  BY <1>1, PickedEntries
<1> HIDE DEF K, p
<1>5. p \in Seq(Named)
  BY <1>2, <1>4
<1>6. ToSet(list) \subseteq ToSet(p) \cup {<<>>}
  <2>1. DOMAIN p = 1..Len(p)
    BY <1>5
  <2> QED BY <1>3, <1>4, <2>1 DEF ToSet
<1>7. /\ a \in Seq(Named) /\ Len(a) <= MaxList
      /\ Len(a) = IF Len(p) <= MaxList THEN Len(p) ELSE MaxList
      /\ Len(p) <= MaxList => a = p
  BY <1>5, AppAssumption, FirstOfEntries
<1> HIDE DEF a
<1>8. a = p \/ Len(a) = MaxList
  BY <1>7
<1> QED BY <1>0, <1>6, <1>7, <1>8

\* No key, and no drawing anew, makes a password longer than the gadget takes.
LEMMA PasswordShort ==
  ASSUME NEW p, PwTyped(p), PwShort(p)
  PROVE  /\ \A q \in Keyed(p, Chars) : PwShort(q)
         /\ PwShort(Hidden(p)) /\ PwShort(Redrawn(p))
<1>0. /\ p.real \in Seq(Letter) /\ p.view \in Seq(Letter) /\ p.mask \in Nat
      /\ Len(p.real) \in Nat /\ Len(p.view) \in Nat /\ MaxChars \in Nat
  BY LenProperties, AppAssumption, LimitsAssumption DEF PwTyped
<1>1. ASSUME NEW work \in Seq(Letter), Len(work) <= MaxChars, NEW at \in 0..Len(work), NEW m
      PROVE  PwShort([Edited(p, work, at) EXCEPT !.meant = m])
  <2> DEFINE e == Edited(p, work, at)
  <2>1. /\ PwTyped(e) /\ e.mask = p.mask /\ Len(e.real) = Len(work) /\ Len(e.view) = Len(work)
    BY EditedTyped
  <2> HIDE DEF e
  <2> DEFINE q == [e EXCEPT !.meant = m]
  <2>2. q.real = e.real /\ q.view = e.view /\ q.mask = e.mask
    BY <2>1 DEF PwTyped
  <2> HIDE DEF q
  <2>3. PwShort(q)
    BY <1>1, <2>1, <2>2 DEF PwShort
  <2> QED BY <2>3 DEF q, e
<1>2. ASSUME NEW at \in 1..(Len(p.view) + 1), NEW c \in Letter, Len(p.view) < MaxChars
      PROVE  PwShort(Typed(p, at, c))
  <2> DEFINE v == p.view
             w == InsertedAt(v, at, c)
  <2>1. v \in Seq(Letter) /\ at \in 1..(Len(v) + 1)
    BY <1>0
  <2>2. Len(v) < MaxChars /\ Len(v) \in Nat
    BY <1>0, <1>2
  <2> HIDE DEF v
  <2>3. w \in Seq(Letter) /\ Len(w) = Len(v) + 1
    BY <2>1, InsertedText
  <2> HIDE DEF w
  <2>4. Len(w) <= MaxChars /\ at \in 0..Len(w)
    BY <1>0, <2>1, <2>2, <2>3
  <2>5. \A m : PwShort([Edited(p, w, at) EXCEPT !.meant = m])
    BY <1>1, <2>3, <2>4
  <2>6. \E m : Typed(p, at, c) = [Edited(p, w, at) EXCEPT !.meant = m]
    BY DEF Typed, w, v
  <2> QED BY <2>5, <2>6
<1>3. ASSUME NEW at \in 1..Len(p.view)
      PROVE  PwShort(Deleted(p, at))
  <2> DEFINE v == p.view
             w == DeletedAt(v, at)
  <2>1. v \in Seq(Letter) /\ at \in 1..Len(v) /\ Len(v) \in Nat
    BY <1>0
  <2>2. Len(v) <= MaxChars
    BY DEF PwShort
  <2> HIDE DEF v
  <2>3. w \in Seq(Letter) /\ Len(w) = Len(v) - 1
    BY <2>1, DeletedText
  <2> HIDE DEF w
  <2>4. Len(w) <= MaxChars /\ at - 1 \in 0..Len(w)
    BY <1>0, <2>1, <2>2, <2>3
  <2>5. \A m : PwShort([Edited(p, w, at - 1) EXCEPT !.meant = m])
    BY <1>1, <2>3, <2>4
  <2>6. \E m : Deleted(p, at) = [Edited(p, w, at - 1) EXCEPT !.meant = m]
    BY DEF Deleted, w, v
  <2> QED BY <2>5, <2>6
<1>4. PwShort(Cleared(p))
  <2>1. <<>> \in Seq(Letter) /\ Len(<<>>) <= MaxChars /\ 0 \in 0..Len(<<>>)
    BY <1>0
  <2>2. \A m : PwShort([Edited(p, <<>>, 0) EXCEPT !.meant = m])
    BY <1>1, <2>1
  <2> QED BY <2>2 DEF Cleared
<1>5. ASSUME NEW q \in Keyed(p, Chars)
      PROVE  PwShort(q)
  <2>1. \/ \E at \in 1..(Len(p.view) + 1), c \in Chars :
             Len(p.view) < MaxChars /\ q = Typed(p, at, c)
        \/ \E at \in 1..Len(p.view) : q = Deleted(p, at)
        \/ q = Cleared(p)
    BY DEF Keyed
  <2>2. \A c \in Chars : c \in Letter
    BY AppAssumption DEF Letter
  <2> QED BY <1>2, <1>3, <1>4, <2>1, <2>2
<1>6. PwShort(Hidden(p))
  <2> DEFINE q == Hidden(p)
             stars == Stars(Len(p.real))
  <2>1. Len(stars) = Len(p.real)
    BY <1>0, StarsText
  <2>2. q = [p EXCEPT !.mask = Len(p.real), !.view = stars]
    BY DEF Hidden
  <2> HIDE DEF stars
  <2>3. q.real = p.real /\ q.mask = Len(p.real) /\ q.view = stars
    BY <2>2 DEF PwTyped
  <2> HIDE DEF q
  <2>4. PwShort(q)
    BY <2>1, <2>3 DEF PwShort
  <2> QED BY <2>4 DEF q
<1>7. PwShort(Redrawn(p))
  <2> DEFINE q == Redrawn(p)
             stars == Stars(p.mask)
             other == p.mixed \/ p.mask # Len(p.real)
  <2>1. Len(stars) = p.mask
    BY <1>0, StarsText
  <2>2. q = [p EXCEPT !.view = stars, !.mixed = other]
    BY DEF Redrawn
  <2> HIDE DEF stars, other
  <2>3. q.real = p.real /\ q.mask = p.mask /\ q.view = stars
    BY <2>2 DEF PwTyped
  <2> HIDE DEF q
  <2>4. PwShort(q)
    BY <2>1, <2>3 DEF PwShort
  <2> QED BY <2>4 DEF q
<1> QED BY <1>5, <1>6, <1>7

\* Nor does setting it to what is in the configuration.
LEMMA SetShort ==
  ASSUME NEW text \in Seq(Letter), Len(text) <= MaxPass
  PROVE  PwShort(SetPassword(text))
<1>1. Len(text) \in Nat
  BY LenProperties
<1>2. Len(Stars(Len(text))) = Len(text)
  BY <1>1, StarsText
<1> QED BY <1>2, AppAssumption DEF SetPassword, PwShort

(***************************************************************************)
(* What a step does to the configuration, the file and the dialog          *)
(***************************************************************************)
\* Nothing, but that somebody types.
Still ==
  /\ UNCHANGED <<disk, conf, torn, off, names, rows, backup, saved, late, before>>
  /\ fields \in FieldsType => fields' \in FieldsType
  /\ PwTyped(pw) /\ PwShort(pw) => PwShort(pw')
  /\ win'["prefs"].open = win["prefs"].open
  /\ main' # "off" => main # "off"

Loads ==
  /\ conf' = Loaded(disk) /\ off' = {} /\ ~win["prefs"].open /\ ~win'["prefs"].open
  /\ UNCHANGED <<disk, torn, dialog>>

\* The program ends, and may be writing the file.
Ends ==
  /\ Gone /\ main' = "off"
  /\ \/ UNCHANGED <<disk, torn>>
     \/ win["prefs"].open /\ disk' \in Torn(Saved(FieldsRead)) /\ torn' = TRUE

Opens ==
  /\ main # "off" /\ win'["prefs"].open /\ UNCHANGED store
  /\ \E w : DialogOpens(w)

InDialog == win["prefs"].open /\ win'["prefs"].open /\ UNCHANGED <<backup, before, main>>

ReadsFields ==
  /\ InDialog /\ conf' = FieldsRead /\ late' = (late \/ saved)
  /\ UNCHANGED <<off, fields, pw, names, rows>>
  /\ \/ UNCHANGED <<disk, torn, saved>>
     \/ /\ Savable(conf') /\ saved' = TRUE
        /\ \/ disk' = Saved(conf') /\ torn' = FALSE
           \/ disk' \in Torn(Saved(conf')) /\ torn' = TRUE

Lists ==
  /\ InDialog /\ UNCHANGED <<store, fields, pw, saved, late>>
  /\ \/ UNCHANGED <<names, rows>>
     \/ \E list \in Listings :
          names' = AddNames(list \o conf.folders) /\ rows' = Rows(conf, names')

Toggles ==
  /\ InDialog /\ UNCHANGED <<disk, torn, fields, pw, names, saved>>
  /\ \E row \in Nat \ {0} :
       IF row > Len(names) THEN UNCHANGED <<conf, off, rows, late>>
       ELSE LET name == names[row]
                had  == HasFolder(conf, name)
            IN /\ conf' = IF had THEN DelFolder(conf, name) ELSE AddFolder(conf, name)
               /\ off' = IF had THEN off \cup {TakeRest(name)}
                         ELSE IF HasFolder(conf', name) THEN off \ {TakeRest(name)} ELSE off
               /\ rows' = IF had \/ HasFolder(conf', name) THEN Rows(conf', names) ELSE rows
               /\ late' = (late \/ saved)

Closes ==
  /\ win["prefs"].open /\ ~win'["prefs"].open /\ DialogClosed /\ UNCHANGED <<disk, torn>>
  /\ IF saved THEN UNCHANGED <<conf, off>> ELSE conf' = backup /\ off' = before.off

Effect ==
  Still \/ Loads \/ Ends \/ Opens \/ ReadsFields \/ Lists \/ Toggles \/ Closes

\* What is typed fits the gadgets.
LEMMA TypingStill ==
  ASSUME Control, TypeIn
  PROVE  Still
<1> USE DEF store, dialog, proc
<1>1. UNCHANGED <<disk, conf, torn, off, names, rows, backup, saved, late, before, win, main>>
  BY DEF TypeIn
<1>2. fields \in FieldsType => fields' \in FieldsType
  <2>1. CASE UNCHANGED fields
    BY <2>1
  <2>2. CASE \E t \in Texts : fields' = [fields EXCEPT ![t.field] = t.text]
    BY <2>2, AppAssumption DEF FieldsType
  <2>3. CASE \E n \in Ports : fields' = [fields EXCEPT !.port = n]
    BY <2>3, AppAssumption DEF FieldsType
  <2> QED BY <2>1, <2>2, <2>3 DEF TypeIn
<1>3. PwTyped(pw) /\ PwShort(pw) => PwShort(pw')
  <2>1. pw' \in Keyed(pw, Chars) \/ UNCHANGED pw
    BY DEF TypeIn
  <2>2. CASE UNCHANGED pw
    BY <2>2 DEF PwShort
  <2> QED BY <2>1, <2>2, PasswordShort
<1> QED BY <1>1, <1>2, <1>3 DEF Still

\* Every step has one of these effects.
LEMMA StepEffect ==
  ASSUME Control, [Next]_vars
  PROVE  Effect
<1>0. win \in [Windows -> WindowType] /\ "main" \in Windows /\ "prefs" \in Windows
  BY DEF Control, ControlTypes, Windows
<1> USE DEF Effect, store, proc, dialog
<1>1. ASSUME UNCHANGED <<store, fields, pw, names, rows, backup, saved, late, before>>,
             main' # "off" => main # "off", win'["prefs"].open = win["prefs"].open
      PROVE  Still
  BY <1>1 DEF Still, PwShort
<1>2. ASSUME Standing
      PROVE  win'["prefs"].open = win["prefs"].open
  BY <1>0, <1>2 DEF Standing
<1>3. CASE User
  <2>1. CASE \E c \in {"gui", "prefs", "cli", "list"} : Start(c)
    <3>1. /\ main = "off" /\ UNCHANGED <<win, disk, torn, dialog>>
          /\ conf' = Loaded(disk) /\ off' = {}
      BY <2>1 DEF Start
    <3>2. ~win["prefs"].open
      BY <3>1 DEF Control, Places
    <3> QED BY <3>1, <3>2 DEF Loads
  <2>2. CASE ClickMain \/ ClickPrefs
    <3>1. \E w \in Windows : \E m : Click(w, m)
      BY <2>2 DEF ClickMain, ClickPrefs, Windows
    <3>2. win'["prefs"].open = win["prefs"].open /\ UNCHANGED <<store, proc, dialog>>
      BY <1>0, <3>1 DEF Click, WindowType
    <3> QED BY <1>1, <3>2
  <2>3. CASE TypeIn
    BY <2>3, TypingStill
  <2>4. CASE CtrlC
    BY <1>1, <2>4 DEF CtrlC
  <2> QED BY <1>3, <2>1, <2>2, <2>3, <2>4 DEF User
<1>4. CASE Loop
  <2>1. CASE Resize
    <3>1. Standing
      BY <2>1, Reading DEF Resize, Control, Windows
    <3>2. UNCHANGED <<disk, conf, torn, off, fields, names, rows, backup, saved, late, before,
                      main>>
      BY <2>1 DEF Resize
    <3>3. PwTyped(pw) /\ PwShort(pw) => PwShort(pw')
      <4>1. pw' = Redrawn(pw) \/ UNCHANGED pw
        BY <2>1 DEF Resize
      <4>2. CASE UNCHANGED pw
        BY <4>2 DEF PwShort
      <4> QED BY <4>1, <4>2, PasswordShort
    <3> QED BY <1>2, <3>1, <3>2, <3>3 DEF Still
  <2>2. CASE \E w \in Windows : Wake(w) \/ Break(w) \/ PumpEnds(w)
    <3>1. UNCHANGED <<store, dialog, main>>
      BY <2>2 DEF Wake, Break, PumpEnds
    <3>2. PICK w \in Windows : \/ win' = [win EXCEPT ![w].pump = TRUE]
                               \/ win' = [win EXCEPT ![w].done = TRUE]
                               \/ win' = [win EXCEPT ![w].pump = FALSE]
      BY <2>2 DEF Wake, Break, PumpEnds
    <3>3. \A v \in Windows : win'[v].open = win[v].open
      <4>1. CASE win' = [win EXCEPT ![w].pump = TRUE]
        BY <1>0, <4>1 DEF WindowType
      <4>2. CASE win' = [win EXCEPT ![w].done = TRUE]
        BY <1>0, <4>2 DEF WindowType
      <4>3. CASE win' = [win EXCEPT ![w].pump = FALSE]
        BY <1>0, <4>3 DEF WindowType
      <4> QED BY <3>2, <4>1, <4>2, <4>3
    <3> QED BY <1>0, <1>1, <3>1, <3>3
  <2> QED BY <1>4, <2>1, <2>2 DEF Loop
<1>5. CASE Dialog
  <2>1. CASE FirstDialog
    <3>1. CASE DialogOpens(win)
      BY <1>0, <2>1, <3>1 DEF FirstDialog, DialogOpens, Opens, NewWindow, NoWindow
    <3>2. CASE UNCHANGED <<win, dialog>>
      BY <1>1, <2>1, <3>2 DEF FirstDialog
    <3> QED BY <2>1, <3>1, <3>2 DEF FirstDialog
  <2>2. CASE Connected
    <3>1. win["prefs"].open /\ UNCHANGED win
      BY <2>2 DEF Connected, Control, Places
    <3> QED BY <2>2, <3>1 DEF Connected, Lists, InDialog
  <2>3. CASE DialogCloses
    BY <1>0, <2>3 DEF DialogCloses, Waiting, Listening, Closes, NoWindow
  <2>4. ASSUME Connect \/ Toggle \/ SaveRefused \/ Save \/ Cancel \/ Browse \/ PasswordLeft
        PROVE  /\ win["prefs"].open /\ win'["prefs"].open /\ UNCHANGED <<backup, before, main>>
    <3>1. Standing
      BY <2>4, Reading DEF Connect, Toggle, SaveRefused, Save, Cancel, Browse, PasswordLeft,
                           Control, Windows
    <3>2. win["prefs"].open
      BY <2>4 DEF Connect, Toggle, SaveRefused, Save, Cancel, Browse, PasswordLeft,
                  Receives, Listening
    <3>3. UNCHANGED <<backup, before, main>>
      BY <2>4 DEF Connect, Toggle, SaveRefused, Save, Cancel, Browse, PasswordLeft
    <3> QED BY <1>2, <3>1, <3>2, <3>3
  <2>5. CASE Connect \/ SaveRefused
    BY <2>4, <2>5 DEF Connect, SaveRefused, ReadsFields, InDialog
  <2>6. CASE Save
    BY <2>4, <2>6 DEF Save, ReadsFields, InDialog
  <2>7. CASE Cancel
    BY <1>1, <2>4, <2>7 DEF Cancel
  <2>8. CASE Browse
    <3>1. fields \in FieldsType => fields' \in FieldsType
      BY <2>8, AppAssumption DEF Browse, FieldsType
    <3> QED BY <2>4, <2>8, <3>1 DEF Browse, Still, PwShort
  <2>9. CASE PasswordLeft
    <3>1. PwTyped(pw) /\ PwShort(pw) => PwShort(pw')
      BY <2>9, PasswordShort DEF PasswordLeft
    <3> QED BY <2>4, <2>9, <3>1 DEF PasswordLeft, Still
  <2>10. CASE Toggle
    <3> DEFINE row == Head(win["prefs"].queue).row
    <3>1. row \in Nat \ {0}
      <4>1. /\ win["prefs"].queue # <<>> /\ win["prefs"].queue \in Seq(Messages)
            /\ Head(win["prefs"].queue).type = "row"
        BY <1>0, <2>10 DEF Toggle, Receives, WindowType
      <4>2. Head(win["prefs"].queue) \in Messages
        <5> HIDE DEF Messages
        <5> QED BY <4>1, HeadTailProperties
      <4> QED BY <4>1, <4>2 DEF Messages
    <3> HIDE DEF row
    <3>2. /\ UNCHANGED <<disk, torn, fields, pw, names, saved>>
          /\ IF row > Len(names) THEN UNCHANGED <<conf, off, rows, late>>
             ELSE LET name == names[row]
                      had  == HasFolder(conf, name)
                  IN /\ conf' = IF had THEN DelFolder(conf, name) ELSE AddFolder(conf, name)
                     /\ off' = IF had THEN off \cup {TakeRest(name)}
                               ELSE IF HasFolder(conf', name) THEN off \ {TakeRest(name)}
                                    ELSE off
                     /\ rows' = IF had \/ HasFolder(conf', name) THEN Rows(conf', names)
                                ELSE rows
                     /\ late' = (late \/ saved)
      BY <2>10 DEF Toggle, row
    <3>3. InDialog
      BY <2>4, <2>10 DEF InDialog
    <3>4. Toggles
      BY <3>1, <3>2, <3>3 DEF Toggles
    <3> QED BY <3>4
  <2> QED BY <1>5, <2>1, <2>2, <2>3, <2>5, <2>6, <2>7, <2>8, <2>9, <2>10 DEF Dialog
<1>6. CASE MainWindow
  <2>1. CASE MainOpens \/ MainCloses
    <3>1. /\ UNCHANGED <<store, dialog>> /\ main # "off"
          /\ \/ \E x : win' = [win EXCEPT !["main"] = x]
             \/ UNCHANGED win
      BY <2>1 DEF MainOpens, MainCloses, Waiting, Listening, Control, Places
    <3>2. win'["prefs"].open = win["prefs"].open
      BY <1>0, <3>1
    <3> QED BY <1>1, <3>1, <3>2
  <2>2. CASE Leave \/ StopClick \/ SyncClick
    <3>1. Standing
      BY <2>2, Reading DEF Leave, StopClick, SyncClick, Control, Windows
    <3>2. UNCHANGED <<store, dialog, main>>
      BY <2>2 DEF Leave, StopClick, SyncClick
    <3> QED BY <1>1, <1>2, <3>1, <3>2
  <2>3. CASE MenuPrefs
    <3>0. win["main"].open /\ main # "off" /\ UNCHANGED <<store, main>>
      BY <2>3 DEF MenuPrefs, Receives, Listening, Control, Places
    <3>1. CASE DialogOpens(Read("main"))
      <4>1. win'["prefs"].open
        BY <1>0, <3>1 DEF DialogOpens, Read, NewWindow, NoWindow
      <4> QED BY <3>0, <3>1, <4>1 DEF Opens
    <3>2. CASE win' = Read("main") /\ UNCHANGED dialog
      <4>1. win'["prefs"].open = win["prefs"].open
        BY <1>0, <3>2 DEF Read
      <4> QED BY <1>1, <3>0, <3>2, <4>1
    <3> QED BY <2>3, <3>1, <3>2 DEF MenuPrefs
  <2> QED BY <1>6, <2>1, <2>2, <2>3 DEF MainWindow
<1>7. CASE Sync
  <2>1. UNCHANGED <<store, dialog, win>>
    BY <1>7 DEF Sync, CliOpens, Listed, NextPair, Scan, Finish, NextFile, Transferred,
                Progress, PollEnds
  <2>2. main' # "off" => main # "off"
    <3>1. CASE CliOpens \/ Listed
      BY <3>1 DEF CliOpens, Listed, Control, Running
    <3>2. CASE NextPair
      BY <3>2 DEF NextPair
    <3>3. CASE Scan \/ Finish \/ NextFile \/ Transferred \/ Progress \/ PollEnds
      BY <3>3 DEF Scan, Finish, NextFile, Transferred, Progress, PollEnds
    <3> QED BY <1>7, <3>1, <3>2, <3>3 DEF Sync
  <2> QED BY <1>1, <2>1, <2>2
<1>8. CASE UNCHANGED vars
  BY <1>1, <1>8 DEF vars
<1>9. CASE Crash \/ WildOpen \/ Exit
  BY <1>9 DEF Crash, WildOpen, Exit, Ends
<1>10. CASE SaveCut
  BY <1>10 DEF SaveCut, Ends, Receives, Listening
<1> QED BY <1>3, <1>4, <1>5, <1>6, <1>7, <1>8, <1>9, <1>10 DEF Next, Program
(***************************************************************************)
(* Types of the configurations, the file and the dialog                    *)
(***************************************************************************)
DataInv ==
  /\ ConfOK(conf) /\ ConfOK(backup)
  /\ disk = NoFile \/ disk \in FileType
  /\ fields \in FieldsType /\ PwShort(pw)
  /\ names \in Seq(Named) /\ Len(names) <= MaxList
  /\ torn \in BOOLEAN /\ saved \in BOOLEAN /\ late \in BOOLEAN

\* A dialog that is closed.
LEMMA ClosedData ==
  ASSUME DialogClosed, ConfOK(conf)', disk' = NoFile \/ disk' \in FileType, torn' \in BOOLEAN
  PROVE  DataInv'
<1>1. ConfOK(backup')
  BY DefaultsOK DEF DialogClosed
<1>2. fields' \in FieldsType
  <2>1. <<>> \in Text
    BY DEF Text
  <2> QED BY <2>1 DEF DialogClosed, NoFields, FieldsType
<1>3. PwShort(pw')
  <2>1. <<>> \in Seq(Letter) /\ Len(<<>>) <= MaxPass
    BY LimitsAssumption
  <2> QED BY <2>1, SetShort DEF DialogClosed
<1>4. names' \in Seq(Named) /\ Len(names') <= MaxList
  BY AppAssumption DEF DialogClosed
<1>5. saved' \in BOOLEAN /\ late' \in BOOLEAN
  BY DEF DialogClosed
<1> QED BY <1>1, <1>2, <1>3, <1>4, <1>5 DEF DataInv

\* DataInv is kept.
LEMMA NextData ==
  ASSUME Control, PassInv, DataInv, [Next]_vars
  PROVE  DataInv'
<1>0. /\ ConfOK(conf) /\ ConfOK(backup) /\ (disk = NoFile \/ disk \in FileType)
      /\ fields \in FieldsType /\ PwTyped(pw) /\ PwShort(pw)
      /\ names \in Seq(Named) /\ Len(names) <= MaxList
      /\ torn \in BOOLEAN /\ saved \in BOOLEAN /\ late \in BOOLEAN
  BY DEF DataInv, PassInv, PwTrue
<1>1. ConfOK(FieldsRead)
  BY <1>0, FieldsReadOK
<1>2. Saved(FieldsRead) \in FileType /\ Torn(Saved(FieldsRead)) \subseteq FileType
  BY <1>1, SavedOK
<1> USE DEF store, dialog
<1>3. CASE Still
  BY <1>0, <1>3 DEF Still, DataInv
<1>4. CASE Loads
  <2>1. ConfOK(conf')
    BY <1>0, <1>4, LoadedOK DEF Loads
  <2>2. PwShort(pw') /\ UNCHANGED <<disk, torn, backup, fields, names, saved, late>>
    BY <1>0, <1>4 DEF Loads
  <2> QED BY <1>0, <2>1, <2>2 DEF DataInv
<1>5. CASE Ends
  <2>1. DialogClosed /\ conf' = Defaults
    BY <1>5 DEF Ends, Gone
  <2>2. (disk' = NoFile \/ disk' \in FileType) /\ torn' \in BOOLEAN
    BY <1>0, <1>2, <1>5 DEF Ends
  <2>3. ConfOK(conf')
    BY <2>1, DefaultsOK
  <2> QED BY <2>1, <2>2, <2>3, ClosedData
<1>6. CASE Opens
  <2>1. PICK w : DialogOpens(w)
    BY <1>6 DEF Opens
  <2>2. UNCHANGED <<disk, conf, torn>> /\ backup' = conf /\ saved' = FALSE /\ late' = FALSE
    BY <1>6, <2>1 DEF Opens, DialogOpens
  <2>3. fields' \in FieldsType
    <3>1. conf.port \in Nat
      BY <1>0 DEF ConfOK, ConfType
    <3> QED BY <1>0, <2>1, <3>1 DEF DialogOpens, ConfOK, ConfType, FieldsType
  <2>4. PwShort(pw')
    <3>1. conf.pass \in Seq(Letter) /\ Len(conf.pass) <= MaxPass
      BY <1>0 DEF ConfOK, ConfType, Fits
    <3> QED BY <2>1, <3>1, SetShort DEF DialogOpens
  <2>5. names' \in Seq(Named) /\ Len(names') <= MaxList
    <3>1. conf.folders \in Seq(Text)
      BY <1>0 DEF ConfOK, ConfType, Named
    <3> QED BY <2>1, <3>1, NamesAdded DEF DialogOpens
  <2> QED BY <1>0, <2>2, <2>3, <2>4, <2>5 DEF DataInv
<1>7. CASE ReadsFields
  <2>1. conf' = FieldsRead /\ UNCHANGED <<backup, fields, pw, names>>
    BY <1>7 DEF ReadsFields, InDialog
  <2>2. (disk' = NoFile \/ disk' \in FileType) /\ torn' \in BOOLEAN
    BY <1>0, <1>2, <1>7, <2>1 DEF ReadsFields
  <2>3. saved' \in BOOLEAN /\ late' \in BOOLEAN
    BY <1>0, <1>7 DEF ReadsFields
  <2>4. PwShort(pw') /\ ConfOK(conf') /\ ConfOK(backup')
    BY <1>0, <1>1, <2>1
  <2> QED BY <1>0, <2>1, <2>2, <2>3, <2>4 DEF DataInv
<1>8. CASE Lists
  <2>1. UNCHANGED <<disk, conf, torn, backup, fields, pw, saved, late>>
    BY <1>8 DEF Lists, InDialog
  <2>2. names' \in Seq(Named) /\ Len(names') <= MaxList
    <3>1. conf.folders \in Seq(Text)
      BY <1>0 DEF ConfOK, ConfType, Named
    <3>2. \A list \in Listings : list \o conf.folders \in Seq(Text)
      BY <3>1, AppAssumption, ConcatProperties
    <3> QED BY <1>0, <1>8, <3>2, NamesAdded DEF Lists
  <2>3. PwShort(pw') /\ ConfOK(conf') /\ ConfOK(backup')
    BY <1>0, <2>1
  <2> QED BY <1>0, <2>1, <2>2, <2>3 DEF DataInv
<1>9. CASE Toggles
  <2>1. UNCHANGED <<disk, torn, backup, fields, pw, names, saved>>
    BY <1>9 DEF Toggles, InDialog
  <2>2. PICK row \in Nat \ {0} :
          /\ row > Len(names) => UNCHANGED <<conf, late>>
          /\ row <= Len(names) => /\ \/ conf' = DelFolder(conf, names[row])
                                     \/ conf' = AddFolder(conf, names[row])
                                  /\ late' = (late \/ saved)
    BY <1>0, <1>9, LenProperties DEF Toggles
  <2>3. late' \in BOOLEAN
    BY <1>0, <2>2, LenProperties
  <2>4. ConfOK(conf')
    <3>1. CASE row > Len(names)
      BY <1>0, <2>2, <3>1
    <3>2. CASE row <= Len(names)
      <4>1. names[row] \in Named
        BY <1>0, <3>2, LenProperties
      <4>2. ConfOK(DelFolder(conf, names[row])) /\ ConfOK(AddFolder(conf, names[row]))
        BY <1>0, <4>1, EditedOK
      <4> QED BY <2>2, <3>2, <4>2
    <3> QED BY <1>0, <3>1, <3>2, LenProperties
  <2>5. PwShort(pw') /\ ConfOK(backup')
    BY <1>0, <2>1
  <2> QED BY <1>0, <2>1, <2>3, <2>4, <2>5 DEF DataInv
<1>10. CASE Closes
  <2>1. DialogClosed /\ UNCHANGED <<disk, torn>> /\ conf' \in {conf, backup}
    BY <1>10 DEF Closes
  <2>2. ConfOK(conf')
    BY <1>0, <2>1
  <2> QED BY <1>0, <2>1, <2>2, ClosedData
<1> QED BY <1>3, <1>4, <1>5, <1>6, <1>7, <1>8, <1>9, <1>10, StepEffect DEF Effect

(***************************************************************************)
(* The list                                                                *)
(***************************************************************************)
ListInv ==
  win["prefs"].open =>
    /\ rows = Rows(conf, names)
    /\ ToSet(conf.folders) \subseteq ToSet(names) \cup {<<>>} \/ Len(names) = MaxList

\* The list depends on nothing but the folders and the old pairs.
LEMMA SameRows ==
  ASSUME NEW c, NEW d, c.folders = d.folders, c.extra = d.extra, NEW list
  PROVE  Rows(c, list) = Rows(d, list)
<1> QED BY DEF Rows, HasFolder

\* ListInv is kept.
LEMMA NextList ==
  ASSUME Control, PassInv, DataInv, ListInv, [Next]_vars
  PROVE  ListInv'
<1>0. /\ ConfOK(conf) /\ fields \in FieldsType /\ PwTyped(pw) /\ PwShort(pw)
      /\ names \in Seq(Named) /\ conf.folders \in Seq(Text)
  BY DEF DataInv, PassInv, PwTrue, ConfOK, ConfType, Named
<1> USE DEF store, dialog
<1>1. CASE ~win'["prefs"].open
  BY <1>1 DEF ListInv
<1>2. CASE Still
  BY <1>2 DEF Still, ListInv
<1>3. CASE Loads
  BY <1>1, <1>3 DEF Loads
<1>4. CASE Ends \/ Closes
  <2>1. ~win'["prefs"].open
    BY <1>4 DEF Ends, Closes, Gone, NoWindow, Windows
  <2> QED BY <1>1, <2>1
<1>5. CASE Opens
  <2>1. names' = AddNames(conf.folders) /\ rows' = Rows(conf, names') /\ UNCHANGED conf
    BY <1>5 DEF Opens, DialogOpens
  <2>2. ToSet(conf.folders) \subseteq ToSet(names') \cup {<<>>} \/ Len(names') = MaxList
    BY <1>0, <2>1, NamesAdded
  <2> QED BY <2>1, <2>2 DEF ListInv
<1>6. CASE ReadsFields
  <2>1. win["prefs"].open /\ conf' = FieldsRead /\ UNCHANGED <<names, rows>>
    BY <1>6 DEF ReadsFields, InDialog
  <2>2. conf'.folders = conf.folders /\ conf'.extra = conf.extra
    BY <1>0, <2>1, FieldsReadOK
  <2>3. Rows(conf', names) = Rows(conf, names)
    BY <2>2, SameRows
  <2> QED BY <2>1, <2>2, <2>3 DEF ListInv
<1>7. CASE Lists
  <2>1. win["prefs"].open /\ UNCHANGED conf
    BY <1>7 DEF Lists, InDialog
  <2>2. CASE UNCHANGED <<names, rows>>
    BY <2>1, <2>2 DEF ListInv
  <2>3. ASSUME NEW list \in Listings, names' = AddNames(list \o conf.folders),
               rows' = Rows(conf, names')
        PROVE  ListInv'
    <3> DEFINE all == list \o conf.folders
    <3>1. list \in Seq(Text)
      BY AppAssumption
    <3>2. all \in Seq(Text) /\ ToSet(conf.folders) \subseteq ToSet(all)
      <4>1. /\ all \in Seq(Text) /\ Len(all) = Len(list) + Len(conf.folders)
            /\ \A i \in 1..Len(conf.folders) : all[Len(list) + i] = conf.folders[i]
            /\ Len(list) \in Nat /\ Len(conf.folders) \in Nat
        BY <1>0, <3>1, ConcatProperties, LenProperties
      <4>2. DOMAIN all = 1..Len(all) /\ DOMAIN conf.folders = 1..Len(conf.folders)
        BY <1>0, <4>1
      <4> HIDE DEF all
      <4>3. \A i \in 1..Len(conf.folders) : Len(list) + i \in 1..Len(all)
        BY <4>1
      <4> QED BY <4>1, <4>2, <4>3 DEF ToSet
    <3>3. \/ ToSet(all) \subseteq ToSet(names') \cup {<<>>}
          \/ Len(names') = MaxList
      BY <2>3, <3>2, NamesAdded
    <3> QED BY <2>1, <2>3, <3>2, <3>3 DEF ListInv
  <2> QED BY <1>7, <2>2, <2>3 DEF Lists
<1>8. CASE Toggles
  <2>1. win["prefs"].open /\ UNCHANGED names
    BY <1>8 DEF Toggles, InDialog
  <2>2. PICK row \in Nat \ {0} :
          /\ row > Len(names) => UNCHANGED <<conf, rows>>
          /\ row <= Len(names) =>
               LET name == names[row]
                   had  == HasFolder(conf, name)
               IN /\ conf' = IF had THEN DelFolder(conf, name) ELSE AddFolder(conf, name)
                  /\ rows' = IF had \/ HasFolder(conf', name) THEN Rows(conf', names) ELSE rows
    BY <1>0, <1>8, LenProperties DEF Toggles
  <2>3. CASE row > Len(names)
    BY <2>1, <2>2, <2>3 DEF ListInv
  <2>4. CASE row <= Len(names)
    <3> DEFINE name == names[row]
               had == HasFolder(conf, name)
    <3>1. name \in Named /\ name \in ToSet(names)
      <4>1. row \in 1..Len(names) /\ DOMAIN names = 1..Len(names)
        BY <1>0, <2>4, LenProperties
      <4> QED BY <1>0, <4>1 DEF ToSet
    <3>2. /\ conf' = IF had THEN DelFolder(conf, name) ELSE AddFolder(conf, name)
          /\ rows' = IF had \/ HasFolder(conf', name) THEN Rows(conf', names) ELSE rows
      BY <2>2, <2>4
    <3> HIDE DEF name
    <3>3. ToSet(conf'.folders) \subseteq ToSet(conf.folders) \cup {name}
      BY <1>0, <3>1, <3>2, EditedOK
    <3>4. rows' = Rows(conf', names)
      <4>1. CASE had \/ HasFolder(conf', name)
        BY <3>2, <4>1
      <4>2. CASE ~had /\ ~HasFolder(conf', name)
        <5>1. conf' = conf
          BY <1>0, <3>1, <3>2, <4>2, EditedOK
        <5> QED BY <2>1, <3>2, <4>2, <5>1 DEF ListInv
      <4> QED BY <4>1, <4>2
    <3> QED BY <2>1, <3>1, <3>3, <3>4 DEF ListInv
  <2> QED BY <1>0, <2>3, <2>4, LenProperties
<1> QED BY <1>2, <1>3, <1>4, <1>5, <1>6, <1>7, <1>8, StepEffect DEF Effect
(***************************************************************************)
(* Save                                                                    *)
(***************************************************************************)
\* After Save the file has what the dialog has, as long as all lines were
\* written and nothing that waited behind Save changed anything.
SavedInv ==
  win["prefs"].open /\ saved /\ ~late /\ ~torn => disk = Saved(conf) /\ conf.local # <<>>

\* SavedInv is kept.
LEMMA NextSaved ==
  ASSUME Control, DataInv, SavedInv, [Next]_vars
  PROVE  SavedInv'
<1> USE DEF store, dialog
<1>0. saved \in BOOLEAN /\ late \in BOOLEAN /\ torn \in BOOLEAN /\ names \in Seq(Named)
  BY DEF DataInv
<1>1. CASE ~win'["prefs"].open
  BY <1>1 DEF SavedInv
<1>2. CASE Still
  BY <1>2 DEF Still, SavedInv
<1>3. CASE Loads \/ Ends \/ Closes
  <2>1. ~win'["prefs"].open
    BY <1>3 DEF Loads, Ends, Closes, Gone, NoWindow, Windows
  <2> QED BY <1>1, <2>1
<1>4. CASE Opens
  BY <1>4 DEF Opens, DialogOpens, SavedInv
<1>5. CASE ReadsFields
  <2>1. CASE UNCHANGED <<disk, torn, saved>>
    <3>1. saved' => late'
      BY <1>5, <2>1 DEF ReadsFields
    <3> QED BY <3>1 DEF SavedInv
  <2>2. CASE Savable(conf') /\ ((disk' = Saved(conf') /\ torn' = FALSE) \/ torn' = TRUE)
    BY <2>2 DEF Savable, SavedInv
  <2> QED BY <1>5, <2>1, <2>2 DEF ReadsFields
<1>6. CASE Lists
  BY <1>6 DEF Lists, InDialog, SavedInv
<1>7. CASE Toggles
  <2>1. win["prefs"].open /\ UNCHANGED <<disk, torn, saved>>
    BY <1>7 DEF Toggles, InDialog
  <2>2. UNCHANGED <<conf, late>> \/ late' = (late \/ saved)
    BY <1>7 DEF Toggles
  <2> QED BY <1>0, <2>1, <2>2 DEF SavedInv
<1> QED BY <1>2, <1>3, <1>4, <1>5, <1>6, <1>7, StepEffect DEF Effect

\* The step that leaves the dialog after Save.
LEMMA StepLoadsSaved ==
  ASSUME Control, DataInv, SavedInv, [Next]_vars, PrefsLeft, saved, ~late, ~torn, Plain(conf)
  PROVE  Loaded(disk') = conf'
<1> USE DEF store, dialog
<1>1. win["prefs"].open /\ ~win'["prefs"].open /\ main' # "off"
  BY DEF PrefsLeft
<1>2. disk = Saved(conf) /\ conf.local # <<>> /\ ConfOK(conf)
  BY <1>1 DEF SavedInv, DataInv
<1>3. Closes
  <2>1. ~(Still \/ Loads \/ Ends \/ Opens \/ ReadsFields \/ Lists \/ Toggles)
    BY <1>1 DEF Still, Loads, Ends, Opens, ReadsFields, Lists, Toggles, InDialog
  <2> QED BY <2>1, StepEffect DEF Effect
<1>4. UNCHANGED <<conf, disk>>
  BY <1>3 DEF Closes
<1>5. Loaded(Saved(conf)) = conf
  BY <1>2, LoadedSaved
<1> QED BY <1>2, <1>4, <1>5

\* What a start would load has no folder more than the configuration, but for
\* the blanks around their names and for those switched off since, and has its
\* old pairs.
Keeps(file, c, without) ==
  /\ ToSet(Loaded(file).folders) \ without \subseteq ToSet(Rests(c.folders))
  /\ Loaded(file).extra = c.extra

\* So it is with the configuration and, until Save, with what Cancel
\* returns to.
DropInv ==
  /\ main # "off" /\ ~torn => Keeps(disk, conf, off)
  /\ win["prefs"].open /\ ~saved /\ ~torn => Keeps(disk, backup, before.off)

\* The names of a configuration, without blanks.
LEMMA RestSet ==
  ASSUME NEW c, ConfOK(c)
  PROVE  /\ Rests(c.folders) \in Seq(Text)
         /\ ToSet(Rests(c.folders)) = {TakeRest(x) : x \in ToSet(c.folders)}
<1>1. c.folders \in Seq(Text)
  BY DEF ConfOK, ConfType, Named
<1> QED BY <1>1, RestsOf

\* What is not empty comes back from the file.
LEMMA FilledSet ==
  ASSUME NEW s \in Seq(Text)
  PROVE  /\ ToSet(Filled(s)) \subseteq ToSet(s)
         /\ \A x \in ToSet(s) : x # <<>> => x \in ToSet(Filled(s))
<1> DEFINE p == Filled(s)
<1>1. /\ p \in Seq(Named)
      /\ \A k \in 1..Len(p) : \E i \in 1..Len(s) : p[k] = s[i]
      /\ \A i \in 1..Len(s) : s[i] # <<>> => s[i] \in ToSet(p)
  BY FilledNames
<1> HIDE DEF p
<1>2. DOMAIN s = 1..Len(s) /\ DOMAIN p = 1..Len(p)
  BY <1>1, LenProperties
<1>3. ToSet(p) \subseteq ToSet(s)
  BY <1>1, <1>2 DEF ToSet
<1>4. ASSUME NEW x \in ToSet(s), x # <<>> PROVE x \in ToSet(p)
  <2>1. PICK i \in 1..Len(s) : s[i] = x
    BY <1>2 DEF ToSet
  <2> QED BY <1>1, <1>4, <2>1
<1> QED BY <1>3, <1>4 DEF p

\* A file that was written whole.
LEMMA SavedKeeps ==
  ASSUME NEW c, ConfOK(c), NEW without
  PROVE  Keeps(Saved(c), c, without)
<1> QED BY LoadedSaved, RestSet, FilledSet DEF Keeps

\* DropInv is kept.
LEMMA NextDrop ==
  ASSUME Control, PassInv, DataInv, DropInv, [Next]_vars
  PROVE  DropInv'
<1>0. /\ ConfOK(conf) /\ fields \in FieldsType /\ PwTyped(pw) /\ PwShort(pw)
      /\ names \in Seq(Named)
      /\ torn \in BOOLEAN /\ saved \in BOOLEAN
  BY DEF DataInv, PassInv, PwTrue
<1>1. win["prefs"].open => main # "off"
  BY DEF Control, Places
<1> USE DEF store, dialog
<1>2. CASE Still
  BY <1>2 DEF Still, DropInv
<1>3. CASE Loads
  <2>1. conf' = Loaded(disk) /\ off' = {} /\ UNCHANGED <<disk, torn>> /\ ~win'["prefs"].open
    BY <1>3 DEF Loads
  <2> DEFINE c == Loaded(disk)
  <2>2. ConfOK(c) /\ \A x \in ToSet(c.folders) : TakeRest(x) = x
    BY LoadedOK DEF DataInv
  <2>3. ToSet(Rests(c.folders)) = {TakeRest(x) : x \in ToSet(c.folders)}
    BY <2>2, RestSet
  <2>4. ToSet(c.folders) \subseteq ToSet(Rests(c.folders))
    BY <2>2, <2>3
  <2> HIDE DEF c
  <2>5. Keeps(disk, c, {})
    BY <2>4 DEF Keeps, c
  <2> QED BY <2>1, <2>5 DEF DropInv, c
<1>4. CASE Ends
  <2>1. main' = "off" /\ ~win'["prefs"].open
    BY <1>4 DEF Ends, Gone, NoWindow, Windows
  <2> QED BY <2>1 DEF DropInv
<1>5. CASE Opens
  <2>1. /\ main # "off" /\ UNCHANGED <<disk, conf, torn, off>>
        /\ backup' = conf /\ before'.off = off
    BY <1>5 DEF Opens, DialogOpens
  <2> QED BY <2>1 DEF DropInv
<1>6. CASE ReadsFields
  <2>1. /\ win["prefs"].open /\ win'["prefs"].open /\ UNCHANGED <<off, backup, before, main>>
        /\ conf' = FieldsRead
    BY <1>6 DEF ReadsFields, InDialog
  <2>2. ConfOK(conf') /\ conf'.folders = conf.folders /\ conf'.extra = conf.extra
    BY <1>0, <2>1, FieldsReadOK
  <2>3. CASE UNCHANGED <<disk, torn, saved>>
    BY <1>1, <2>1, <2>2, <2>3 DEF DropInv, Keeps
  <2>4. CASE saved' = TRUE /\ disk' = Saved(conf')
    <3>1. Keeps(disk', conf', off')
      BY <2>2, <2>4, SavedKeeps
    <3> QED BY <2>4, <3>1 DEF DropInv
  <2>5. CASE torn' = TRUE
    BY <2>5 DEF DropInv
  <2> QED BY <1>6, <2>3, <2>4, <2>5 DEF ReadsFields
<1>7. CASE Lists
  <2>1. win["prefs"].open /\ UNCHANGED <<disk, conf, torn, off, backup, before, saved, main>>
    BY <1>7 DEF Lists, InDialog
  <2> QED BY <2>1 DEF DropInv
<1>8. CASE Toggles
  <2>1. /\ win["prefs"].open /\ UNCHANGED <<disk, torn, backup, before, saved, main>>
    BY <1>8 DEF Toggles, InDialog
  <2>2. Keeps(disk, conf, off) => Keeps(disk, conf', off')
    <3>1. PICK row \in Nat \ {0} :
            /\ row > Len(names) => UNCHANGED <<conf, off>>
            /\ row <= Len(names) =>
                 LET name == names[row]
                     had  == HasFolder(conf, name)
                 IN /\ conf' = IF had THEN DelFolder(conf, name) ELSE AddFolder(conf, name)
                    /\ off' = IF had THEN off \cup {TakeRest(name)}
                              ELSE IF HasFolder(conf', name) THEN off \ {TakeRest(name)}
                                   ELSE off
      BY <1>0, <1>8, LenProperties DEF Toggles
    <3>2. CASE row > Len(names)
      BY <3>1, <3>2
    <3>3. CASE row <= Len(names)
      <4> DEFINE name == names[row]
                 had == HasFolder(conf, name)
      <4>1. name \in Named
        BY <1>0, <3>3, LenProperties
      <4>2. /\ conf' = IF had THEN DelFolder(conf, name) ELSE AddFolder(conf, name)
            /\ off' = IF had THEN off \cup {TakeRest(name)}
                      ELSE IF HasFolder(conf', name) THEN off \ {TakeRest(name)} ELSE off
        BY <3>1, <3>3
      <4> HIDE DEF name
      <4> DEFINE rest == TakeRest(name)
      <4>a. /\ ConfOK(conf')
            /\ ToSet(Rests(conf.folders)) = {TakeRest(x) : x \in ToSet(conf.folders)}
            /\ ToSet(Rests(conf'.folders)) = {TakeRest(x) : x \in ToSet(conf'.folders)}
        <5>1. ConfOK(conf')
          BY <1>0, <4>1, <4>2, EditedOK
        <5> QED BY <1>0, <5>1, RestSet
      <4>3. CASE had
        <5>1. /\ ToSet(conf.folders) \ {name} \subseteq ToSet(conf'.folders)
              /\ conf'.extra = conf.extra /\ off' = off \cup {rest}
          BY <1>0, <4>1, <4>2, <4>3, EditedOK
        <5>2. ToSet(Rests(conf.folders)) \ {rest} \subseteq ToSet(Rests(conf'.folders))
          BY <4>a, <5>1
        <5> HIDE DEF rest
        <5> QED BY <5>1, <5>2 DEF Keeps
      <4>4. CASE ~had
        <5>1. /\ conf' = AddFolder(conf, name) /\ ToSet(conf.folders) \subseteq ToSet(conf'.folders)
              /\ conf'.extra = conf.extra
              /\ off' = IF HasFolder(conf', name) THEN off \ {rest} ELSE off
          BY <1>0, <4>1, <4>2, <4>4, EditedOK
        <5>a. ToSet(Rests(conf.folders)) \subseteq ToSet(Rests(conf'.folders))
          BY <4>a, <5>1
        <5>2. CASE HasFolder(conf', name)
          <6>1. name \in ToSet(conf'.folders)
            BY <5>2 DEF HasFolder, Contains, ToSet
          <6>2. rest \in ToSet(Rests(conf'.folders))
            BY <4>a, <6>1
          <6> HIDE DEF rest
          <6> QED BY <5>1, <5>2, <5>a, <6>2 DEF Keeps
        <5>3. CASE ~HasFolder(conf', name)
          BY <5>1, <5>3, <5>a DEF Keeps
        <5> QED BY <5>2, <5>3
      <4> QED BY <4>3, <4>4
    <3> QED BY <1>0, <3>2, <3>3, LenProperties
  <2> QED BY <1>1, <2>1, <2>2 DEF DropInv
<1>9. CASE Closes
  <2>1. /\ win["prefs"].open /\ ~win'["prefs"].open /\ UNCHANGED <<disk, torn>>
        /\ IF saved THEN UNCHANGED <<conf, off>> ELSE conf' = backup /\ off' = before.off
    BY <1>9 DEF Closes
  <2> QED BY <1>0, <1>1, <2>1 DEF DropInv
<1> QED BY <1>2, <1>3, <1>4, <1>5, <1>6, <1>7, <1>8, <1>9, StepEffect DEF Effect

\* The step that writes the file.
LEMMA StepDropsNothing ==
  ASSUME Control, PassInv, DataInv, DropInv, [Next]_vars, disk' # disk, ~torn', ~torn
  PROVE  KeepsLines(Loaded(disk), Loaded(disk'))
<1> USE DEF store, dialog
<1>1. ConfOK(conf) /\ fields \in FieldsType /\ PwTyped(pw) /\ PwShort(pw)
  BY DEF DataInv, PassInv, PwTrue
<1>2. win["prefs"].open /\ conf' = FieldsRead /\ disk' = Saved(conf')
  <2>1. ~(Still \/ Loads \/ Ends \/ Opens \/ Lists \/ Toggles \/ Closes)
    BY DEF Still, Loads, Ends, Opens, Lists, Toggles, Closes
  <2>2. ReadsFields
    BY <2>1, StepEffect DEF Effect
  <2> QED BY <2>2 DEF ReadsFields, InDialog
<1>3. Keeps(disk, conf, off)
  BY <1>2 DEF DropInv, Control, Places
<1>4. ConfOK(FieldsRead) /\ FieldsRead.folders = conf.folders /\ FieldsRead.extra = conf.extra
  BY <1>1, FieldsReadOK
<1>5. /\ Loaded(disk').folders = Filled(Rests(conf.folders))
      /\ Loaded(disk').extra = conf.extra
  BY <1>2, <1>4, LoadedSaved
<1>6. \A x \in ToSet(Loaded(disk).folders) : x # <<>>
  <2>1. Loaded(disk).folders \in Seq(Named)
    BY LoadedOK DEF DataInv, ConfOK, ConfType
  <2>2. DOMAIN Loaded(disk).folders = 1..Len(Loaded(disk).folders)
    BY <2>1, LenProperties
  <2> QED BY <2>1, <2>2 DEF ToSet, Named
<1>7. \A x \in ToSet(Rests(conf.folders)) : x # <<>> => x \in ToSet(Filled(Rests(conf.folders)))
  BY <1>1, RestSet, FilledSet
<1> QED BY <1>3, <1>5, <1>6, <1>7 DEF Keeps, KeepsLines
(***************************************************************************)
(* The rest of the types                                                   *)
(***************************************************************************)
Flags ==
  /\ brk \in BOOLEAN /\ trouble \in BOOLEAN /\ wild \in BOOLEAN
  /\ ghosted \in BOOLEAN /\ sized \in BOOLEAN
  /\ rc \in {0, 5, 10, 20} /\ pair \in Nat

Queues == \A w \in Windows : Len(win[w].queue) <= MaxQueue

\* Flags are kept.
LEMMA NextFlags ==
  ASSUME Control, Flags, [Next]_vars
  PROVE  Flags'
<1> USE DEF proc, button, syncv
<1>0. /\ brk \in BOOLEAN /\ trouble \in BOOLEAN /\ wild \in BOOLEAN
      /\ ghosted \in BOOLEAN /\ sized \in BOOLEAN
      /\ rc \in {0, 5, 10, 20} /\ pair \in Nat
  BY DEF Flags
<1>1. ASSUME UNCHANGED <<trouble, wild, button, rc, pair>>, brk' \in BOOLEAN
      PROVE  Flags'
  BY <1>0, <1>1 DEF Flags
<1>2. CASE Gone /\ UNCHANGED <<rc, brk, trouble>> /\ wild' \in BOOLEAN
  BY <1>0, <1>2 DEF Gone, SyncIdle, Flags
<1>3. CASE User
  <2>1. CASE \E c \in {"gui", "prefs", "cli", "list"} : Start(c)
    BY <1>0, <2>1 DEF Start, Flags
  <2>2. CASE ClickMain \/ ClickPrefs \/ TypeIn \/ CtrlC
    BY <1>0, <1>1, <2>2 DEF ClickMain, ClickPrefs, Click, TypeIn, CtrlC
  <2> QED BY <1>3, <2>1, <2>2 DEF User
<1>4. CASE Loop
  <2>1. CASE \E w \in Windows : Wake(w) \/ Break(w) \/ PumpEnds(w)
    BY <1>0, <1>1, <2>1 DEF Wake, Break, PumpEnds
  <2>2. CASE Resize
    BY <1>0, <2>2 DEF Resize, Flags
  <2> QED BY <1>4, <2>1, <2>2 DEF Loop
<1>5. CASE Dialog
  <2>1. CASE FirstDialog
    BY <1>0, <2>1 DEF FirstDialog, Returns, Flags
  <2>2. CASE DialogCloses
    <3>1. UNCHANGED <<brk, trouble, wild, pair>> /\ rc' \in {rc, 5}
      BY <2>2 DEF DialogCloses, Returns
    <3>2. ghosted' \in BOOLEAN /\ sized' \in BOOLEAN
      BY <1>0, <2>2 DEF DialogCloses
    <3> QED BY <1>0, <3>1, <3>2 DEF Flags
  <2>3. CASE Connect \/ Connected \/ Toggle \/ SaveRefused \/ Save \/ Cancel \/ Browse
               \/ PasswordLeft
    BY <1>0, <1>1, <2>3 DEF Connect, Connected, Toggle, SaveRefused, Save, Cancel, Browse,
                            PasswordLeft
  <2> QED BY <1>5, <2>1, <2>2, <2>3 DEF Dialog
<1>6. CASE MainWindow
  <2>1. CASE MainOpens
    BY <1>0, <2>1 DEF MainOpens, Flags
  <2>2. CASE SyncClick
    BY <1>0, <2>2 DEF SyncClick, Flags
  <2>3. CASE MainCloses \/ Leave \/ MenuPrefs \/ StopClick
    BY <1>0, <1>1, <2>3 DEF MainCloses, Leave, MenuPrefs, StopClick
  <2> QED BY <1>6, <2>1, <2>2, <2>3 DEF MainWindow
<1>7. CASE Sync
  <2>1. ASSUME NEW ok \in BOOLEAN, NEW failed \in BOOLEAN, NEW stopped \in BOOLEAN,
               RunReturns(ok, failed, stopped)
        PROVE  rc' \in {0, 5, 10, 20} /\ trouble' \in BOOLEAN /\ pair' \in Nat
    <3>1. pair' \in Nat
      BY <1>0, <2>1 DEF RunReturns
    <3>2. rc' \in {0, 5, 10, 20}
      BY <1>0, <2>1 DEF RunReturns
    <3>3. trouble' \in BOOLEAN
      <4>1. UNCHANGED trouble \/ trouble' = (trouble \/ ~ok \/ failed \/ stopped)
        BY <2>1 DEF RunReturns
      <4> QED BY <1>0, <4>1
    <3> QED BY <3>1, <3>2, <3>3
  <2>2. CASE CliOpens \/ Listed
    BY <1>0, <2>2 DEF CliOpens, Listed, Flags
  <2>3. CASE NextPair
    BY <1>0, <2>3 DEF NextPair, SyncIdle, Flags
  <2>4. CASE Scan
    BY <1>0, <2>1, <2>4 DEF Scan, Flags
  <2>5. CASE Finish
    BY <1>0, <2>1, <2>5 DEF Finish, Flags
  <2>6. CASE NextFile
    BY <1>0, <2>1, <2>6 DEF NextFile, Flags
  <2>7. CASE PollEnds
    BY <1>0, <2>1, <2>7 DEF PollEnds, Goes, Flags
  <2>8. CASE Transferred \/ Progress
    BY <1>0, <1>1, <2>8 DEF Transferred, Progress
  <2> QED BY <1>7, <2>2, <2>3, <2>4, <2>5, <2>6, <2>7, <2>8 DEF Sync
<1>8. CASE UNCHANGED vars
  BY <1>0, <1>1, <1>8 DEF vars
<1>9. CASE Crash \/ SaveCut \/ WildOpen \/ Exit
  BY <1>0, <1>2, <1>9 DEF Crash, SaveCut, WildOpen, Exit
<1> QED BY <1>3, <1>4, <1>5, <1>6, <1>7, <1>8, <1>9 DEF Next, Program

\* A message that is read leaves fewer.
LEMMA ReadQueues ==
  ASSUME Control, Queues, NEW v \in Windows, win[v].queue # <<>>,
         win' = Read(v) \/ win' = ReadAndQuit(v)
  PROVE  Queues'
<1>0. win \in [Windows -> WindowType]
  BY DEF Control, ControlTypes
<1>1. Len(Tail(win[v].queue)) <= MaxQueue
  <2>1. win[v].queue \in Seq(Messages) /\ Len(win[v].queue) <= MaxQueue
    BY <1>0 DEF WindowType, Queues
  <2>2. Len(Tail(win[v].queue)) = Len(win[v].queue) - 1 /\ Len(win[v].queue) \in Nat
    <3> HIDE DEF Messages
    <3> QED BY <2>1, HeadTailProperties, LenProperties
  <2> QED BY <2>1, <2>2, AppAssumption
<1>2. ASSUME NEW w \in Windows
      PROVE  Len(win'[w].queue) <= MaxQueue
  <2>1. win'[w].queue = IF w = v THEN Tail(win[v].queue) ELSE win[w].queue
    <3>1. CASE win' = Read(v)
      BY <1>0, <3>1 DEF Read, WindowType
    <3>2. CASE win' = ReadAndQuit(v)
      BY <1>0, <3>2 DEF ReadAndQuit, WindowType
    <3> QED BY <3>1, <3>2
  <2> QED BY <1>1, <2>1 DEF Queues
<1> QED BY <1>2 DEF Queues

\* A window is opened or closed, or its loop waits or goes on: no message
\* comes.
LEMMA NoMessage ==
  ASSUME Control, Queues, NEW v \in Windows,
         \/ win' = [win EXCEPT ![v] = NewWindow] \/ win' = [win EXCEPT ![v] = NoWindow]
         \/ win' = [win EXCEPT ![v].pump = TRUE] \/ win' = [win EXCEPT ![v].pump = FALSE]
         \/ win' = [win EXCEPT ![v].done = TRUE]
  PROVE  Queues'
<1>0. win \in [Windows -> WindowType]
  BY DEF Control, ControlTypes
<1>1. Len(<<>>) <= MaxQueue
  BY AppAssumption
<1>2. ASSUME NEW w \in Windows
      PROVE  win'[w].queue = win[w].queue \/ win'[w].queue = <<>>
  <2>1. CASE win' = [win EXCEPT ![v] = NewWindow] \/ win' = [win EXCEPT ![v] = NoWindow]
    BY <1>0, <2>1 DEF NewWindow, NoWindow
  <2>2. CASE win' = [win EXCEPT ![v].pump = TRUE]
    BY <1>0, <2>2 DEF WindowType
  <2>3. CASE win' = [win EXCEPT ![v].pump = FALSE]
    BY <1>0, <2>3 DEF WindowType
  <2>4. CASE win' = [win EXCEPT ![v].done = TRUE]
    BY <1>0, <2>4 DEF WindowType
  <2> QED BY <2>1, <2>2, <2>3, <2>4
<1> QED BY <1>1, <1>2 DEF Queues

\* Queues are kept.
LEMMA NextQueues ==
  ASSUME Control, Queues, [Next]_vars
  PROVE  Queues'
<1>0. win \in [Windows -> WindowType] /\ "main" \in Windows /\ "prefs" \in Windows
  BY DEF Control, ControlTypes, Windows
<1>1. CASE UNCHANGED win
  BY <1>1 DEF Queues
<1>2. ASSUME NEW w \in Windows, NEW type, Receives(w, type),
             win' = Read(w) \/ win' = ReadAndQuit(w)
      PROVE  Queues'
  BY <1>2, ReadQueues DEF Receives
<1>3. CASE Gone
  <2>1. \A w \in Windows : win'[w].queue = <<>>
    BY <1>3 DEF Gone, NoWindow
  <2>2. Len(<<>>) <= MaxQueue
    BY AppAssumption
  <2> QED BY <2>1, <2>2 DEF Queues
<1>4. CASE User
  <2>1. CASE ClickMain \/ ClickPrefs
    <3>1. PICK v \in Windows : \E m : Click(v, m)
      BY <2>1 DEF ClickMain, ClickPrefs, Windows
    <3>2. PICK m : Click(v, m)
      BY <3>1
    <3>3. /\ Len(win[v].queue) < MaxQueue
          /\ win' = [win EXCEPT ![v].queue = Append(@, m)]
      BY <3>2 DEF Click
    <3>4. Len(Append(win[v].queue, m)) <= MaxQueue
      <4>1. win[v].queue \in Seq(Messages)
        BY <1>0 DEF WindowType
      <4>2. win[v].queue \in Seq(Messages \cup {m})
        <5> HIDE DEF Messages
        <5> QED BY <4>1
      <4>3. Len(Append(win[v].queue, m)) = Len(win[v].queue) + 1
        <5> HIDE DEF Messages
        <5> QED BY <4>2, AppendProperties
      <4> QED BY <3>3, <4>2, <4>3, AppAssumption, LenProperties
    <3>5. \A w \in Windows :
            win'[w].queue = IF w = v THEN Append(win[v].queue, m) ELSE win[w].queue
      BY <1>0, <3>3 DEF WindowType
    <3> QED BY <3>4, <3>5 DEF Queues
  <2>2. CASE (\E c \in {"gui", "prefs", "cli", "list"} : Start(c)) \/ TypeIn \/ CtrlC
    BY <1>1, <2>2 DEF Start, TypeIn, CtrlC
  <2> QED BY <1>4, <2>1, <2>2 DEF User
<1>5. CASE Loop
  <2>1. CASE Resize
    BY <1>0, <1>2, <2>1 DEF Resize
  <2>2. CASE \E w \in Windows : Wake(w) \/ Break(w) \/ PumpEnds(w)
    BY <2>2, NoMessage DEF Wake, Break, PumpEnds
  <2> QED BY <1>5, <2>1, <2>2 DEF Loop
<1>6. ASSUME NEW w, DialogOpens(w), w = win \/ w = Read("main"), w = win \/ win["main"].queue # <<>>
      PROVE  Queues'
  <2>1. \A v \in Windows : Len(w[v].queue) <= MaxQueue
    <3>1. CASE w = win
      BY <3>1 DEF Queues
    <3>2. CASE w = Read("main") /\ win["main"].queue # <<>>
      <4> HIDE DEF Messages
      <4>1. win["main"].queue \in Seq(Messages) /\ Len(win["main"].queue) <= MaxQueue
        BY <1>0 DEF WindowType, Queues
      <4>2. /\ Len(Tail(win["main"].queue)) = Len(win["main"].queue) - 1
            /\ Len(win["main"].queue) \in Nat
        BY <3>2, <4>1, HeadTailProperties, LenProperties
      <4>3. \A v \in Windows :
              w[v].queue = IF v = "main" THEN Tail(win["main"].queue) ELSE win[v].queue
        BY <1>0, <3>2 DEF Read, WindowType
      <4>4. Len(Tail(win["main"].queue)) <= MaxQueue
        BY <4>1, <4>2, AppAssumption
      <4> QED BY <4>3, <4>4 DEF Queues
    <3> QED BY <1>6, <3>1, <3>2
  <2>2. DOMAIN w = Windows
    BY <1>0, <1>6 DEF Read
  <2>3. win' = [w EXCEPT !["prefs"] = NewWindow]
    BY <1>6 DEF DialogOpens
  <2>4. \A v \in Windows : win'[v].queue = w[v].queue \/ win'[v].queue = <<>>
    BY <2>2, <2>3 DEF NewWindow, NoWindow
  <2>5. Len(<<>>) <= MaxQueue
    BY AppAssumption
  <2> QED BY <2>1, <2>4, <2>5 DEF Queues
<1>7. CASE Dialog
  <2>1. CASE FirstDialog
    BY <1>1, <1>6, <2>1 DEF FirstDialog
  <2>2. CASE DialogCloses
    BY <1>0, <2>2, NoMessage DEF DialogCloses
  <2>3. CASE Connected
    BY <1>1, <2>3 DEF Connected
  <2>4. CASE Connect \/ Toggle \/ SaveRefused \/ Save \/ Cancel \/ Browse \/ PasswordLeft
    BY <1>0, <1>2, <2>4 DEF Connect, Toggle, SaveRefused, Save, Cancel, Browse, PasswordLeft
  <2> QED BY <1>7, <2>1, <2>2, <2>3, <2>4 DEF Dialog
<1>8. CASE MainWindow
  <2>1. CASE MainOpens
    BY <1>0, <1>1, <2>1, NoMessage DEF MainOpens
  <2>2. CASE MainCloses
    BY <1>0, <2>2, NoMessage DEF MainCloses
  <2>3. CASE Leave \/ StopClick \/ SyncClick
    BY <1>0, <1>2, <2>3 DEF Leave, StopClick, SyncClick
  <2>4. CASE MenuPrefs
    <3>1. Receives("main", "prefs") /\ (win' = Read("main") \/ DialogOpens(Read("main")))
      BY <2>4 DEF MenuPrefs
    <3>2. win["main"].queue # <<>>
      BY <3>1 DEF Receives
    <3> QED BY <1>0, <1>2, <1>6, <3>1, <3>2
  <2> QED BY <1>8, <2>1, <2>2, <2>3, <2>4 DEF MainWindow
<1>9. CASE Sync
  BY <1>1, <1>9 DEF Sync, CliOpens, Listed, NextPair, Scan, Finish, NextFile, Transferred,
                    Progress, PollEnds
<1>10. CASE UNCHANGED vars
  BY <1>1, <1>10 DEF vars
<1>11. CASE Crash \/ SaveCut \/ WildOpen \/ Exit
  BY <1>3, <1>11 DEF Crash, SaveCut, WildOpen, Exit
<1> QED BY <1>4, <1>5, <1>7, <1>8, <1>9, <1>10, <1>11 DEF Next, Program

(***************************************************************************)
(* The theorems                                                            *)
(***************************************************************************)
\* All of it together, with what the other modules prove.
AppInv ==
  /\ Control /\ PassInv /\ FreshInv
  /\ DataInv /\ ListInv /\ SavedInv /\ DropInv /\ Flags /\ Queues

\* The program starts with it ...
LEMMA InitApp == Init => DataInv /\ ListInv /\ SavedInv /\ DropInv /\ Flags /\ Queues
<1> SUFFICES ASSUME Init PROVE DataInv /\ ListInv /\ SavedInv /\ DropInv /\ Flags /\ Queues
  OBVIOUS
<1>1. /\ disk \in Files /\ conf = Defaults /\ backup = Defaults /\ fields = NoFields
      /\ pw = SetPassword(<<>>) /\ names = <<>>
      /\ torn = FALSE /\ saved = FALSE /\ late = FALSE /\ main = "off"
      /\ win = [w \in Windows |-> NoWindow]
  BY DEF Init
<1>2. DataInv
  <2>1. ConfOK(conf) /\ ConfOK(backup)
    BY <1>1, DefaultsOK
  <2>2. disk = NoFile \/ disk \in FileType
    BY <1>1, AppAssumption
  <2>3. fields \in FieldsType
    <3>1. <<>> \in Text
      BY DEF Text
    <3> QED BY <1>1, <3>1 DEF NoFields, FieldsType
  <2>4. PwShort(pw)
    <3>1. <<>> \in Seq(Letter) /\ Len(<<>>) <= MaxPass
      BY LimitsAssumption
    <3> QED BY <1>1, <3>1, SetShort
  <2>5. names \in Seq(Named) /\ Len(names) <= MaxList
    BY <1>1, AppAssumption
  <2> QED BY <1>1, <2>1, <2>2, <2>3, <2>4, <2>5 DEF DataInv
<1>3. \A w \in Windows : ~win[w].open /\ win[w].queue = <<>>
  BY <1>1 DEF NoWindow
<1>4. "prefs" \in Windows
  BY DEF Windows
<1>5. ListInv /\ SavedInv /\ DropInv
  BY <1>1, <1>3, <1>4 DEF ListInv, SavedInv, DropInv
<1>6. Flags
  BY DEF Init, Flags
<1>7. Queues
  <2>1. Len(<<>>) <= MaxQueue
    BY AppAssumption
  <2> QED BY <1>3, <2>1 DEF Queues
<1> QED BY <1>2, <1>5, <1>6, <1>7

\* ... and keeps it.
LEMMA NextApp ==
  ASSUME AppInv, [Next]_vars
  PROVE  AppInv'
<1> USE DEF AppInv
<1>1. Control' /\ PassInv' /\ FreshInv'
  BY NextControl, NextPass, NextFresh
<1>2. DataInv' /\ ListInv' /\ SavedInv' /\ DropInv'
  BY NextData, NextList, NextSaved, NextDrop
<1>3. Flags' /\ Queues'
  BY NextFlags, NextQueues
<1> QED BY <1>1, <1>2, <1>3

\* So it is always so.
THEOREM AppInvariant == Spec => []AppInv
<1>1. Init => AppInv
  BY InitControl, InitPass, InitApp DEF AppInv
<1>2. AppInv /\ [Next]_vars => AppInv'
  BY NextApp
<1> QED BY <1>1, <1>2, PTL DEF Spec

\* Every variable keeps its type, the tables, texts and queues their limits,
\* whatever is loaded, typed, listed and clicked: a file of 1.0 with more
\* folders, pairs and letters than there is room for, too.
THEOREM TypesAndLimits == Spec => []TypeOK
<1>1. ASSUME AppInv PROVE TypeOK
  <2>1. /\ main \in {"off", "first", "gui", "prefs", "cli", "list", "exit"}
        /\ job \in {"off", "pair", "scan", "items", "flight", "listing"}
        /\ cb \in {"none", "file", "scan", "flight"}
        /\ busy \in BOOLEAN /\ abort \in BOOLEAN /\ connecting \in BOOLEAN
        /\ win \in [Windows -> WindowType]
    BY <1>1 DEF AppInv, Control, ControlTypes
  <2>2. /\ brk \in BOOLEAN /\ trouble \in BOOLEAN /\ wild \in BOOLEAN
        /\ ghosted \in BOOLEAN /\ sized \in BOOLEAN
        /\ rc \in {0, 5, 10, 20} /\ pair \in Nat
    BY <1>1 DEF AppInv, Flags
  <2>3. torn \in BOOLEAN /\ saved \in BOOLEAN /\ late \in BOOLEAN
    BY <1>1 DEF AppInv, DataInv
  <2>4. \A v \in {torn, brk, trouble, wild, busy, abort, ghosted, sized, saved, late,
                  connecting} : v \in BOOLEAN
    BY <2>1, <2>2, <2>3, Zenon
  <2>5. \A w \in Windows :
          /\ win[w].open \in BOOLEAN /\ win[w].done \in BOOLEAN /\ win[w].pump \in BOOLEAN
          /\ win[w].queue \in Seq(Messages) /\ Len(win[w].queue) <= MaxQueue
    <3>1. Queues
      BY <1>1 DEF AppInv
    <3> HIDE DEF Messages
    <3> QED BY <2>1, <3>1 DEF WindowType, Queues
  <2>6. /\ Len(conf.folders) <= MaxFolders /\ Len(conf.extra) <= MaxExtra
        /\ conf.port \in 1..(UWord - 1) /\ Len(conf.pairs) <= MaxFolders + MaxExtra
    BY <1>1 DEF AppInv, DataInv, ConfOK, ConfType, Fits
  <2>7. Len(names) <= MaxList /\ Len(pw.real) <= MaxChars /\ Len(pw.view) <= MaxChars
    BY <1>1 DEF AppInv, DataInv, PwShort
  <2> QED BY <2>1, <2>2, <2>4, <2>5, <2>6, <2>7 DEF TypeOK
<1> QED BY <1>1, AppInvariant, PTL

\* The list shows the folders as they are ticked, after every toggle, every
\* refusal, every answer of a server, and has every configured folder while
\* there is room.
THEOREM ListIsTrue == Spec => []ListTrue
<1>1. AppInv => ListTrue
  BY DEF AppInv, ListInv, ListTrue
<1> QED BY <1>1, AppInvariant, PTL

\* What the program goes on with after Save is what its next start loads, if
\* server and user are words and nothing else has blanks around it.
THEOREM SaveIsLoaded == Spec => SavedIsLoaded
<1>1. AppInv /\ [Next]_vars =>
        [PrefsLeft /\ saved /\ ~late /\ ~torn /\ Plain(conf) => Loaded(disk') = conf']_vars
  BY StepLoadsSaved DEF AppInv
<1> QED BY <1>1, AppInvariant, PTL DEF Spec, SavedIsLoaded

\* No Save drops a folder that was not switched off, nor a pair of 1.0: not
\* those with blanks around their names either.
THEOREM SaveDropsNothing == Spec => NothingDropped
<1>1. AppInv /\ [Next]_vars =>
        [disk' # disk /\ ~torn' => torn \/ KeepsLines(Loaded(disk), Loaded(disk'))]_vars
  BY StepDropsNothing DEF AppInv
<1> QED BY <1>1, AppInvariant, PTL DEF Spec, NothingDropped
=============================================================================
