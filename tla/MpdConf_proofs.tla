-------------------------- MODULE MpdConf_proofs --------------------------
(***************************************************************************)
(* Proofs about MpdConf, for every value of its constants: every set of    *)
(* devices and every file mpd accepts.  The scanner is a recursion over    *)
(* the lines of the file; what it computes is proved by the least number   *)
(* principle, on the line where it would go wrong first.                   *)
(***************************************************************************)
EXTENDS MpdConf, FiniteSetTheorems, SequenceTheorems, TLAPS

-----------------------------------------------------------------------------
(***************************************************************************)
(* Recursion over the lines.                                               *)
(***************************************************************************)

\* A non-empty set of numbers has a least one: among the intervals 1..n the
\* smallest, strict inclusion being well founded on finite sets.
LEMMA Least ==
  ASSUME NEW T \in SUBSET Nat, T # {}
  PROVE  \E x \in T : \A y \in T : x <= y
<1> DEFINE I == {1..n : n \in T}
<1>1. I \subseteq FiniteSubsetsOf(Nat) /\ I # {}
  <2>1. \A n \in T : 1..n \subseteq Nat /\ IsFiniteSet(1..n)
    BY FS_Interval
  <2>2. \A n \in T : 1..n \in FiniteSubsetsOf(Nat)
    BY <2>1 DEF FiniteSubsetsOf
  <2>3. QED
    BY <2>2
<1>2. IsWellFoundedOn(StrictSubsetOrdering(Nat), FiniteSubsetsOf(Nat))
  BY FS_StrictSubsetOrderingWellFounded
<1>3. PICK s \in I : \A t \in I : ~(<<t, s>> \in StrictSubsetOrdering(Nat))
  <2> HIDE DEF I
  <2>1. QED
    BY <1>1, <1>2, WFMin
<1>4. PICK x \in T : s = 1..x
  BY <1>3
<1>5. ASSUME NEW y \in T, y < x
      PROVE  FALSE
  <2>1. 1..y \subseteq 1..x /\ 1..y # 1..x /\ 1..x \in SUBSET Nat /\ 1..y \in SUBSET Nat
    <3>1. x \in 1..x /\ x \notin 1..y
      BY <1>5
    <3>2. QED
      BY <1>5, <3>1
  <2>2. <<1..y, 1..x>> \in StrictSubsetOrdering(Nat)
    BY <2>1 DEF StrictSubsetOrdering
  <2>3. 1..y \in I
    OBVIOUS
  <2>4. QED
    BY <1>3, <1>4, <2>2, <2>3
<1>6. QED
  BY <1>5

File == Seq(Seq(Token))

\* s is the scan of the first m lines.
IsScan(file, s, m) ==
  s = [n \in 0..m |->
         IF n = 0 THEN NoBlock ELSE ScanLine(file[n], s[n - 1], n)]

\* There is one for every number of lines.
LEMMA ScanExists ==
  ASSUME NEW file, NEW N \in Nat
  PROVE  \E s : IsScan(file, s, N)
<1> DEFINE T == {m \in Nat : ~ \E s : IsScan(file, s, m)}
<1>1. SUFFICES ASSUME T # {} PROVE FALSE
  OBVIOUS
<1>2. PICK x \in T : \A y \in T : x <= y
  <2>1. T \in SUBSET Nat
    OBVIOUS
  <2> HIDE DEF T
  <2>2. QED
    BY <1>1, <2>1, Least
<1>3. CASE x = 0
  <2>1. IsScan(file, [n \in 0..0 |-> NoBlock], 0)
    BY DEF IsScan
  <2>2. QED
    BY <1>2, <1>3, <2>1
<1>4. CASE x # 0
  <2>1. x - 1 \in Nat /\ x - 1 \notin T
    BY <1>2, <1>4
  <2>2. PICK s : IsScan(file, s, x - 1)
    BY <2>1
  <2> DEFINE t == [n \in 0..x |-> IF n = x THEN ScanLine(file[x], s[x - 1], x) ELSE s[n]]
  <2>3. \A n \in 0..x - 1 :
          s[n] = IF n = 0 THEN NoBlock ELSE ScanLine(file[n], s[n - 1], n)
    BY <2>2, <1>4 DEF IsScan
  <2>4. \A n \in 0..x :
          t[n] = IF n = 0 THEN NoBlock ELSE ScanLine(file[n], t[n - 1], n)
    <3> TAKE n \in 0..x
    <3>1. CASE n = x
      BY <3>1, <1>4
    <3>2. CASE n # x
      <4>1. n \in 0..x - 1 /\ t[n] = s[n] /\ (n # 0 => t[n - 1] = s[n - 1])
        BY <3>2, <1>4
      <4>2. QED
        BY <2>3, <4>1
    <3>3. QED
      BY <3>1, <3>2
  <2>5. IsScan(file, t, x)
    <3> DEFINE u == [n \in 0..x |->
                       IF n = 0 THEN NoBlock ELSE ScanLine(file[n], t[n - 1], n)]
    <3>1. \A n \in 0..x : t[n] = u[n]
      <4> HIDE DEF t
      <4>1. QED
        BY <2>4
    <3>2. t = u
      BY <3>1
    <3>3. QED
      BY <3>2 DEF IsScan
  <2>6. QED
    BY <2>5
<1>5. QED
  BY <1>3, <1>4

\* The recursion of scan_conf: it starts with nothing found and takes the lines in
\* order.
LEMMA ScanStep ==
  ASSUME NEW file \in File
  PROVE  /\ Scanned(file)[0] = NoBlock
         /\ \A n \in 1..Len(file) :
              Scanned(file)[n] = ScanLine(file[n], Scanned(file)[n - 1], n)
<1> DEFINE P(t) == IsScan(file, t, Len(file))
<1>1. Scanned(file) = CHOOSE t : P(t)
  BY DEF Scanned, IsScan
<1>2. \E t : P(t)
  <2>1. Len(file) \in Nat
    BY DEF File
  <2>2. \E t : IsScan(file, t, Len(file))
    BY <2>1, ScanExists
  <2>3. QED
    BY <2>2
<1> HIDE DEF P
<1>3. P(Scanned(file))
  BY <1>1, <1>2
<1>4. Scanned(file) = [n \in 0..Len(file) |->
        IF n = 0 THEN NoBlock ELSE ScanLine(file[n], Scanned(file)[n - 1], n)]
  BY <1>3 DEF P, IsScan
<1>5. Len(file) \in Nat
  BY DEF File
<1>6. QED
  BY <1>4, <1>5

-----------------------------------------------------------------------------
(***************************************************************************)
(* One line: what the scanner makes of it and what mpd does.               *)
(***************************************************************************)

\* A token that is a word with text t is Word(t).
LEMMA WordIs ==
  ASSUME NEW t \in Token
  PROVE  t.kind = "word" <=> t = Word(t.text)
BY DEF Token, Word

LEMMA WordFields == \A t : Word(t).kind = "word" /\ Word(t).text = t
BY DEF Word

LEMMA Braces ==
  /\ LBrace # RBrace
  /\ LBrace # "audio_output" /\ LBrace # "device" /\ LBrace # "type"
  /\ RBrace # "audio_output" /\ RBrace # "device" /\ RBrace # "type"
BY Zenon DEF LBrace, RBrace

\* The first word key_at finds is the first token of the line.
LEMMA KeyIsName ==
  ASSUME NEW line \in Seq(Token), WellFormed(line), NEW key
  PROVE  KeyAt(line, key) <=> Named(line, key)
<1>1. \A k \in DOMAIN line : line[k] \in Token /\ k \in Nat /\ k >= 1
  OBVIOUS
<1>2. ASSUME KeyAt(line, key) PROVE Named(line, key)
  <2>1. PICK k \in BareOf(line) : line[k].text = key /\ \A j \in BareOf(line) : k <= j
    BY <1>2 DEF KeyAt
  <2>2. k \in DOMAIN line /\ line[k].kind = "word" /\ 1 \in DOMAIN line /\ line # <<>>
    BY <2>1 DEF BareOf
  <2>3. line[1].kind # "note"
    BY <2>2 DEF WellFormed
  <2>4. line[1].kind = "word"
    BY <1>1, <2>2, <2>3 DEF WellFormed, Token
  <2>5. k = 1
    <3>1. 1 \in BareOf(line)
      BY <2>2, <2>4 DEF BareOf
    <3>2. QED
      BY <1>1, <2>1, <2>2, <3>1
  <2>6. QED
    BY <1>1, <2>1, <2>2, <2>5, WordIs DEF Named
<1>3. ASSUME Named(line, key) PROVE KeyAt(line, key)
  <2>1. 1 \in DOMAIN line
    BY <1>3 DEF Named
  <2>2. line[1].kind = "word" /\ line[1].text = key
    BY <1>3 DEF Named, Word
  <2>3. 1 \in BareOf(line)
    BY <2>1, <2>2 DEF BareOf
  <2>4. \A j \in BareOf(line) : 1 <= j
    BY <1>1 DEF BareOf
  <2>5. QED
    BY <2>2, <2>3, <2>4 DEF KeyAt
<1>4. QED
  BY <1>2, <1>3

\* Braces in strings and comments are not counted: in an accepted block the line
\* that opens it counts one, the one that closes it minus one, all others nothing.
LEMMA HeadDelta ==
  ASSUME NEW line \in Seq(Token), IsHead(line)
  PROVE  Delta(line) = 1
<1>1. /\ line[1].kind = "word" /\ line[1].text = "audio_output"
      /\ line[2].kind = "word" /\ line[2].text = LBrace
      /\ Tokens(line) = {1, 2}
  BY WordFields DEF IsHead, Named, Opens
<1>2. BareOf(line) = {1, 2}
  BY <1>1 DEF BareOf, Tokens
<1>3. {k \in BareOf(line) : line[k].text = LBrace} = {2}
  BY <1>1, <1>2, Braces
<1>4. {k \in BareOf(line) : line[k].text = RBrace} = {}
  BY <1>1, <1>2, Braces
<1>5. Count(line, LBrace) = 1 /\ Count(line, RBrace) = 0
  BY <1>3, <1>4, FS_Singleton, FS_EmptySet DEF Count
<1>6. QED
  BY <1>5 DEF Delta

LEMMA CloseDelta ==
  ASSUME NEW line \in Seq(Token), Closes(line)
  PROVE  Delta(line) = -1
<1>1. line[1].kind = "word" /\ line[1].text = RBrace /\ Tokens(line) = {1}
  BY WordFields DEF Closes
<1>2. BareOf(line) = {1}
  BY <1>1 DEF BareOf, Tokens
<1>3. {k \in BareOf(line) : line[k].text = RBrace} = {1}
  BY <1>1, <1>2, Braces
<1>4. {k \in BareOf(line) : line[k].text = LBrace} = {}
  BY <1>1, <1>2, Braces
<1>5. Count(line, LBrace) = 0 /\ Count(line, RBrace) = 1
  BY <1>3, <1>4, FS_Singleton, FS_EmptySet DEF Count
<1>6. QED
  BY <1>5 DEF Delta

LEMMA InsideDelta ==
  ASSUME NEW line \in Seq(Token), Tokens(line) = {} \/ Setting(line)
  PROVE  Delta(line) = 0
<1>1. \A k \in BareOf(line) : k \in Tokens(line) /\ line[k] = Word(line[k].text)
  BY WordIs DEF BareOf, Tokens
<1>2. \A k \in BareOf(line) : line[k] # Word(LBrace) /\ line[k] # Word(RBrace)
  BY <1>1 DEF Setting
<1>3. {k \in BareOf(line) : line[k].text = LBrace} = {}
  BY <1>1, <1>2, Braces
<1>4. {k \in BareOf(line) : line[k].text = RBrace} = {}
  BY <1>1, <1>2, Braces
<1>5. Count(line, LBrace) = 0 /\ Count(line, RBrace) = 0
  BY <1>3, <1>4, FS_EmptySet DEF Count
<1>6. QED
  BY <1>5 DEF Delta

\* The line that closes a block sets nothing, and no line that sets something
\* closes the block.
LEMMA CloseSetsNothing ==
  ASSUME NEW line \in Seq(Token), Closes(line)
  PROVE  /\ ~Named(line, "device") /\ ~Named(line, "type")
         /\ ~Named(line, "audio_output")
BY WordFields, Braces DEF Closes, Named

\* Nor does a line inside close it, and what sets a key is a setting.
LEMMA InsideStaysOpen ==
  ASSUME NEW line \in Seq(Token), Tokens(line) = {} \/ Setting(line)
  PROVE  ~Closes(line) /\ (\A key : Named(line, key) => Setting(line))
<1>1. ~Closes(line)
  BY DEF Closes, Setting
<1>2. ASSUME NEW key, Named(line, key) PROVE Setting(line)
  <2>1. 1 \in DOMAIN line /\ line[1].kind = "word"
    BY <1>2 DEF Named, Word
  <2>2. 1 \in Tokens(line)
    BY <2>1 DEF Tokens
  <2>3. QED
    BY <2>2
<1>3. QED
  BY <1>1, <1>2

-----------------------------------------------------------------------------
(***************************************************************************)
(* The scan of an accepted file.                                           *)
(***************************************************************************)

\* The result once the block has been found.
Found(depth, done, close, type, device) ==
  [block |-> TRUE, depth |-> depth, done |-> done, type |-> type, device |-> device,
   close |-> close]

StillOpen(type, device)   == Found(1, FALSE, 0, type, device)
Shut(close, type, device) == Found(0, TRUE, close, type, device)

\* The place of the line that sets key once line i has been read.
Place(line, b, key, old, i) == IF b.block /\ old = 0 /\ KeyAt(line, key) THEN i ELSE old

\* A line of the block, that leaves it open or closes it.
LEMMA ScanOpen ==
  ASSUME NEW b, NEW line, NEW i,
         b.done = FALSE, b.block \/ KeyAt(line, "audio_output"), ~(b.depth + Delta(line) <= 0)
  PROVE  ScanLine(line, b, i) =
           Found(b.depth + Delta(line), FALSE, 0,
                 Place(line, b, "type", b.type, i), Place(line, b, "device", b.device, i))
<1>1. ~(b.done \/ (~b.block /\ ~KeyAt(line, "audio_output")))
  OBVIOUS
<1>2. (b.depth + Delta(line) <= 0) = FALSE
  OBVIOUS
<1>3. QED
  BY <1>1, <1>2 DEF ScanLine, Place, Found

LEMMA ScanShut ==
  ASSUME NEW b, NEW line, NEW i,
         b.done = FALSE, b.block \/ KeyAt(line, "audio_output"), b.depth + Delta(line) <= 0
  PROVE  ScanLine(line, b, i) =
           Found(b.depth + Delta(line), TRUE, i - 1,
                 Place(line, b, "type", b.type, i), Place(line, b, "device", b.device, i))
<1>1. ~(b.done \/ (~b.block /\ ~KeyAt(line, "audio_output")))
  OBVIOUS
<1>2. (b.depth + Delta(line) <= 0) = TRUE
  OBVIOUS
<1>3. QED
  BY <1>1, <1>2 DEF ScanLine, Place, Found

\* Ahead of the block nothing is found.
LEMMA ScanBefore ==
  ASSUME NEW line \in Seq(Token), WellFormed(line), ~Named(line, "audio_output"), NEW i
  PROVE  ScanLine(line, NoBlock, i) = NoBlock
<1>1. ~KeyAt(line, "audio_output")
  BY KeyIsName
<1>2. QED
  BY <1>1 DEF ScanLine, NoBlock

\* The opening line.
LEMMA ScanHead ==
  ASSUME NEW line \in Seq(Token), WellFormed(line), IsHead(line), NEW i
  PROVE  ScanLine(line, NoBlock, i) = StillOpen(0, 0)
<1>1. KeyAt(line, "audio_output") /\ Delta(line) = 1
  BY KeyIsName, HeadDelta DEF IsHead
<1>2. /\ NoBlock.block = FALSE /\ NoBlock.done = FALSE /\ NoBlock.depth = 0
      /\ NoBlock.type = 0 /\ NoBlock.device = 0
  BY DEF NoBlock
<1>3. Place(line, NoBlock, "type", NoBlock.type, i) = 0
  BY <1>2 DEF Place
<1>4. Place(line, NoBlock, "device", NoBlock.device, i) = 0
  BY <1>2 DEF Place
<1>5. NoBlock.depth + Delta(line) = 1
  BY <1>1, <1>2
<1>6. ScanLine(line, NoBlock, i) =
        Found(NoBlock.depth + Delta(line), FALSE, 0,
              Place(line, NoBlock, "type", NoBlock.type, i),
              Place(line, NoBlock, "device", NoBlock.device, i))
  <2>1. ~(NoBlock.depth + Delta(line) <= 0)
    BY <1>5
  <2>2. QED
    BY <1>1, <1>2, <2>1, ScanOpen
<1>7. QED
  BY <1>3, <1>4, <1>5, <1>6 DEF StillOpen

\* A line inside, with the keys it may set.
LEMMA ScanInside ==
  ASSUME NEW line \in Seq(Token), WellFormed(line), Tokens(line) = {} \/ Setting(line),
         NEW i, NEW t, NEW d
  PROVE  ScanLine(line, StillOpen(t, d), i) =
           StillOpen(IF t = 0 /\ Named(line, "type") THEN i ELSE t,
                              IF d = 0 /\ Named(line, "device") THEN i ELSE d)
<1> DEFINE b == StillOpen(t, d)
           t2 == IF t = 0 /\ Named(line, "type") THEN i ELSE t
           d2 == IF d = 0 /\ Named(line, "device") THEN i ELSE d
<1>1. /\ b.block = TRUE /\ b.done = FALSE /\ b.depth = 1
      /\ b.type = t /\ b.device = d
  BY DEF StillOpen, Found
<1>2. (KeyAt(line, "type") <=> Named(line, "type"))
      /\ (KeyAt(line, "device") <=> Named(line, "device"))
  BY KeyIsName
<1> HIDE DEF b
<1>3. Place(line, b, "type", b.type, i) = t2
  BY <1>1, <1>2 DEF Place
<1>4. Place(line, b, "device", b.device, i) = d2
  BY <1>1, <1>2 DEF Place
<1> HIDE DEF t2, d2
<1>5. b.depth + Delta(line) = 1
  BY <1>1, InsideDelta
<1>6. ScanLine(line, b, i) = StillOpen(t2, d2)
  <2>1. (b.block \/ KeyAt(line, "audio_output")) /\ ~(b.depth + Delta(line) <= 0)
    BY <1>1, <1>5
  <2>2. ScanLine(line, b, i) =
          Found(b.depth + Delta(line), FALSE, 0,
                Place(line, b, "type", b.type, i), Place(line, b, "device", b.device, i))
    BY <1>1, <2>1, ScanOpen
  <2>3. QED
    BY <1>3, <1>4, <1>5, <2>2 DEF StillOpen
<1>7. QED
  BY <1>6 DEF b, t2, d2

\* The closing line.
LEMMA ScanClose ==
  ASSUME NEW line \in Seq(Token), WellFormed(line), Closes(line),
         NEW i, NEW t, NEW d
  PROVE  ScanLine(line, StillOpen(t, d), i) = Shut(i - 1, t, d)
<1> DEFINE b == StillOpen(t, d)
<1>1. /\ b.block = TRUE /\ b.done = FALSE /\ b.depth = 1
      /\ b.type = t /\ b.device = d
  BY DEF StillOpen, Found
<1>2. ~KeyAt(line, "type") /\ ~KeyAt(line, "device")
  BY KeyIsName, CloseSetsNothing
<1> HIDE DEF b
<1>3. Place(line, b, "type", b.type, i) = t /\ Place(line, b, "device", b.device, i) = d
  BY <1>1, <1>2 DEF Place
<1>4. b.depth + Delta(line) = 0
  BY <1>1, CloseDelta
<1>5. ScanLine(line, b, i) = Shut(i - 1, t, d)
  <2>1. (b.block \/ KeyAt(line, "audio_output")) /\ b.depth + Delta(line) <= 0
    BY <1>1, <1>4
  <2>2. ScanLine(line, b, i) =
          Found(b.depth + Delta(line), TRUE, i - 1,
                Place(line, b, "type", b.type, i), Place(line, b, "device", b.device, i))
    BY <1>1, <2>1, ScanShut
  <2>3. QED
    BY <1>3, <1>4, <2>2 DEF Shut
<1>6. QED
  BY <1>5 DEF b

\* Nothing is read behind it.
LEMMA ScanBehind ==
  ASSUME NEW line, NEW i, NEW k, NEW t, NEW d
  PROVE  ScanLine(line, Shut(k, t, d), i) = Shut(k, t, d)
BY DEF ScanLine, Shut, Found

\* The lines among the first n of the block that set key, and a place that names
\* the one there is.
SetBy(file, h, c, n, key) == {i \in h + 1..c - 1 : i <= n /\ Named(file[i], key)}

Names(v, S) == (v = 0 /\ S = {}) \/ v \in S

\* b is what the scanner knows after n lines: ahead of the block, inside, behind.
KnowsInside(file, h, c, n, b) ==
  \E t, d : /\ Names(t, SetBy(file, h, c, n, "type"))
            /\ Names(d, SetBy(file, h, c, n, "device"))
            /\ b = StillOpen(t, d)

KnowsBehind(file, h, c, n, b) ==
  \E t, d : /\ Names(t, SetBy(file, h, c, n, "type"))
            /\ Names(d, SetBy(file, h, c, n, "device"))
            /\ b = Shut(c - 1, t, d)

ScanKnows(file, h, c, n, b) ==
  /\ n < h => b = NoBlock
  /\ h <= n /\ n < c => KnowsInside(file, h, c, n, b)
  /\ c <= n => KnowsBehind(file, h, c, n, b)

LEMMA SetByStep ==
  ASSUME NEW file, NEW h \in Nat, NEW c \in Nat, NEW n \in Nat, n # 0, NEW key
  PROVE  /\ h < n /\ n < c /\ Named(file[n], key) =>
              SetBy(file, h, c, n, key) = SetBy(file, h, c, n - 1, key) \cup {n}
         /\ ~(h < n /\ n < c /\ Named(file[n], key)) =>
              SetBy(file, h, c, n, key) = SetBy(file, h, c, n - 1, key)
         /\ n <= h => SetBy(file, h, c, n, key) = {}
BY DEF SetBy

\* One more line.
LEMMA ScanKnowsStep ==
  ASSUME NEW file \in File, \A i \in DOMAIN file : WellFormed(file[i]),
         NEW h \in Nat, NEW c \in Nat, FirstBlock(file, h, c),
         NEW n \in 1..Len(file), NEW a, ScanKnows(file, h, c, n - 1, a),
         NEW line, line = file[n], NEW b, b = ScanLine(line, a, n)
  PROVE  ScanKnows(file, h, c, n, b)
<1>2. line \in Seq(Token) /\ WellFormed(line) /\ n \in Nat /\ n # 0 /\ h < c
  BY DEF File, FirstBlock
<1>3. CASE n < h
  <2>1. a = NoBlock
    BY <1>2, <1>3 DEF ScanKnows
  <2>2. ~Named(line, "audio_output")
    BY <1>3 DEF FirstBlock
  <2>3. b = NoBlock
    BY <1>2, <2>1, <2>2, ScanBefore
  <2>4. QED
    BY <1>2, <1>3, <2>3 DEF ScanKnows
<1>4. CASE n = h
  <2>1. a = NoBlock
    BY <1>2, <1>4 DEF ScanKnows
  <2>2. IsHead(line)
    BY <1>4 DEF FirstBlock
  <2>3. b = StillOpen(0, 0)
    BY <1>2, <2>1, <2>2, ScanHead
  <2>4. Names(0, SetBy(file, h, c, n, "type")) /\ Names(0, SetBy(file, h, c, n, "device"))
    BY <1>2, <1>4, SetByStep DEF Names
  <2>5. QED
    <3>1. KnowsInside(file, h, c, n, b)
      BY <2>3, <2>4 DEF KnowsInside
    <3>2. QED
      BY <1>2, <1>4, <3>1 DEF ScanKnows
<1>5. CASE h < n
  <2>2. CASE n < c
    <3>1. PICK t, d : /\ Names(t, SetBy(file, h, c, n - 1, "type"))
                      /\ Names(d, SetBy(file, h, c, n - 1, "device"))
                      /\ a = StillOpen(t, d)
      <4>1. KnowsInside(file, h, c, n - 1, a)
        BY <1>2, <1>5, <2>2 DEF ScanKnows
      <4>2. QED
        BY <4>1 DEF KnowsInside
    <3> DEFINE t2 == IF t = 0 /\ Named(line, "type") THEN n ELSE t
               d2 == IF d = 0 /\ Named(line, "device") THEN n ELSE d
    <3>2. Tokens(line) = {} \/ Setting(line)
      <4>1. n \in h + 1..c - 1
        BY <1>2, <1>5, <2>2
      <4>2. QED
        BY <4>1 DEF FirstBlock
    <3>3. b = StillOpen(t2, d2)
      <4>1. ScanLine(line, StillOpen(t, d), n) = StillOpen(t2, d2)
        BY <1>2, <3>2, ScanInside
      <4>2. QED
        BY <3>1, <4>1
    <3>4. Names(t2, SetBy(file, h, c, n, "type"))
      BY <1>2, <1>5, <2>2, <3>1, SetByStep DEF Names
    <3>5. Names(d2, SetBy(file, h, c, n, "device"))
      BY <1>2, <1>5, <2>2, <3>1, SetByStep DEF Names
    <3> HIDE DEF t2, d2
    <3>6. QED
      <4>1. KnowsInside(file, h, c, n, b)
        BY <3>3, <3>4, <3>5 DEF KnowsInside
      <4>2. QED
        BY <1>2, <1>5, <2>2, <4>1 DEF ScanKnows
  <2>3. CASE n = c
    <3>1. PICK t, d : /\ Names(t, SetBy(file, h, c, n - 1, "type"))
                      /\ Names(d, SetBy(file, h, c, n - 1, "device"))
                      /\ a = StillOpen(t, d)
      <4>1. KnowsInside(file, h, c, n - 1, a)
        BY <1>2, <1>5, <2>3 DEF ScanKnows
      <4>2. QED
        BY <4>1 DEF KnowsInside
    <3>2. Closes(line)
      BY <2>3 DEF FirstBlock
    <3>3. b = Shut(c - 1, t, d)
      <4>1. ScanLine(line, StillOpen(t, d), n) = Shut(n - 1, t, d)
        BY <1>2, <3>2, ScanClose
      <4>2. QED
        BY <2>3, <3>1, <4>1
    <3>4. /\ Names(t, SetBy(file, h, c, n, "type"))
          /\ Names(d, SetBy(file, h, c, n, "device"))
      BY <1>2, <2>3, <3>1, SetByStep
    <3>5. QED
      <4>1. KnowsBehind(file, h, c, n, b)
        BY <3>3, <3>4 DEF KnowsBehind
      <4>2. QED
        BY <1>2, <1>5, <2>3, <4>1 DEF ScanKnows
  <2>4. CASE n > c
    <3>1. PICK t, d : /\ Names(t, SetBy(file, h, c, n - 1, "type"))
                      /\ Names(d, SetBy(file, h, c, n - 1, "device"))
                      /\ a = Shut(c - 1, t, d)
      <4>1. KnowsBehind(file, h, c, n - 1, a)
        BY <1>2, <1>5, <2>4 DEF ScanKnows
      <4>2. QED
        BY <4>1 DEF KnowsBehind
    <3>2. b = Shut(c - 1, t, d)
      <4>1. ScanLine(line, Shut(c - 1, t, d), n) = Shut(c - 1, t, d)
        BY ScanBehind
      <4>2. QED
        BY <3>1, <4>1
    <3>3. /\ Names(t, SetBy(file, h, c, n, "type"))
          /\ Names(d, SetBy(file, h, c, n, "device"))
      BY <1>2, <2>4, <3>1, SetByStep
    <3>4. QED
      <4>1. KnowsBehind(file, h, c, n, b)
        BY <3>2, <3>3 DEF KnowsBehind
      <4>2. QED
        BY <1>2, <1>5, <2>4, <4>1 DEF ScanKnows
  <2>5. QED
    BY <1>2, <2>2, <2>3, <2>4
<1>6. QED
  BY <1>2, <1>3, <1>4, <1>5

\* Every number of lines: the first for which it failed would have a predecessor.
LEMMA ScanKnowsAll ==
  ASSUME NEW file \in File, \A i \in DOMAIN file : WellFormed(file[i]),
         NEW h \in Nat, NEW c \in Nat, FirstBlock(file, h, c)
  PROVE  \A n \in 0..Len(file) : ScanKnows(file, h, c, n, Scanned(file)[n])
<1> DEFINE T == {n \in 0..Len(file) : ~ScanKnows(file, h, c, n, Scanned(file)[n])}
<1>1. SUFFICES ASSUME T # {} PROVE FALSE
  OBVIOUS
<1>2. PICK x \in T : \A y \in T : x <= y
  <2>1. T \in SUBSET Nat
    BY DEF File
  <2> HIDE DEF T
  <2>2. QED
    BY <1>1, <2>1, Least
<1>3. CASE x = 0
  <2>1. ScanKnows(file, h, c, 0, Scanned(file)[0])
    <3>1. 0 < h /\ h < c
      BY DEF FirstBlock
    <3>2. QED
      BY <3>1, ScanStep DEF ScanKnows
  <2>2. QED
    BY <1>2, <1>3, <2>1
<1>4. CASE x # 0
  <2>1. x \in 1..Len(file) /\ x - 1 \in 0..Len(file) /\ x - 1 \notin T
    BY <1>2, <1>4 DEF File
  <2>2. ScanKnows(file, h, c, x - 1, Scanned(file)[x - 1])
    BY <2>1
  <2>3. Scanned(file)[x] = ScanLine(file[x], Scanned(file)[x - 1], x)
    BY <2>1, ScanStep
  <2>4. ScanKnows(file, h, c, x, Scanned(file)[x])
    BY <2>1, <2>2, <2>3, ScanKnowsStep
  <2>5. QED
    BY <1>2, <2>4
<1>5. QED
  BY <1>3, <1>4

-----------------------------------------------------------------------------
(***************************************************************************)
(* What mpd finds in an accepted file, and what the scanner finds.         *)
(***************************************************************************)

\* An accepted file and the lines of its first audio_output block.
Block(file, h, c) ==
  /\ file \in File /\ \A i \in DOMAIN file : WellFormed(file[i])
  /\ h \in Nat /\ c \in Nat /\ FirstBlock(file, h, c)

NoOutput(file) ==
  /\ file \in File
  /\ \A i \in DOMAIN file : WellFormed(file[i]) /\ ~Named(file[i], "audio_output")

LEMMA AcceptedCases ==
  ASSUME NEW file, Accepted(file)
  PROVE  NoOutput(file) \/ \E h, c : Block(file, h, c)
<1>1. file \in File /\ \A i \in DOMAIN file : WellFormed(file[i]) /\ i \in Nat
  BY DEF Accepted, File
<1>2. CASE \E h, c \in DOMAIN file : FirstBlock(file, h, c)
  <2>1. PICK h \in DOMAIN file, c \in DOMAIN file : FirstBlock(file, h, c)
    BY <1>2
  <2>2. Block(file, h, c)
    BY <1>1, <2>1 DEF Block
  <2>3. QED
    BY <2>2
<1>3. CASE \A i \in DOMAIN file : ~Named(file[i], "audio_output")
  BY <1>1, <1>3 DEF NoOutput
<1>4. QED
  BY <1>2, <1>3 DEF Accepted

LEMMA BlockAccepted ==
  ASSUME NEW file, NEW h, NEW c, Block(file, h, c)
  PROVE  Accepted(file)
<1>1. h \in DOMAIN file /\ c \in DOMAIN file
  BY DEF Block, FirstBlock, File
<1>2. QED
  BY <1>1 DEF Accepted, Block, File

\* The lines of the block that set key.
Setters(file, h, c, key) == {i \in h + 1..c - 1 : Named(file[i], key)}

LEMMA BlockLines ==
  ASSUME NEW file, NEW h, NEW c, Block(file, h, c)
  PROVE  /\ Len(file) \in Nat /\ DOMAIN file = 1..Len(file)
         /\ 1 <= h /\ h < c /\ c <= Len(file)
         /\ \A i \in 1..Len(file) : file[i] \in Seq(Token) /\ WellFormed(file[i])
BY DEF Block, FirstBlock, File

\* mpd's first block is the one that makes the file accepted.
LEMMA MpdBlockIs ==
  ASSUME NEW file, NEW h, NEW c, Block(file, h, c)
  PROVE  MpdBlock(file) = h
<1>1. h \in DOMAIN file /\ IsHead(file[h])
  BY BlockLines DEF Block, FirstBlock
<1>2. \A i \in 1..h - 1 : ~IsHead(file[i])
  BY DEF Block, FirstBlock, IsHead
<1>3. ASSUME NEW g \in DOMAIN file, IsHead(file[g]), \A i \in 1..g - 1 : ~IsHead(file[i])
      PROVE  g = h
  <2>1. g \in Nat /\ 1 <= g /\ h \in Nat /\ 1 <= h
    BY BlockLines DEF Block
  <2>2. ~(g < h) /\ ~(h < g)
    BY <1>1, <1>2, <1>3, <2>1
  <2>3. QED
    BY <2>1, <2>2
<1>4. QED
  BY <1>1, <1>2, <1>3 DEF MpdBlock

\* What mpd takes from the block are the lines between the braces that set the key.
LEMMA MpdLinesAre ==
  ASSUME NEW file, NEW h, NEW c, Block(file, h, c), NEW key \in {"type", "device"}
  PROVE  MpdLines(file, key) = Setters(file, h, c, key)
<1>1. \A i \in 1..Len(file) : InBlock(file, i) <=> h < i /\ \A k \in h + 1..i : ~Closes(file[k])
  BY MpdBlockIs, BlockLines DEF InBlock
<1>2. ASSUME NEW i \in MpdLines(file, key) PROVE i \in Setters(file, h, c, key)
  <2>1. /\ i \in 1..Len(file) /\ Named(file[i], key)
        /\ h < i /\ \A k \in h + 1..i : ~Closes(file[k])
    BY <1>1, BlockLines DEF MpdLines
  <2>2. Closes(file[c])
    BY DEF Block, FirstBlock
  <2>3. ~(c <= i)
    BY <2>1, <2>2, BlockLines DEF Block
  <2>4. QED
    BY <2>1, <2>3, BlockLines DEF Setters, Block
<1>3. ASSUME NEW i \in Setters(file, h, c, key) PROVE i \in MpdLines(file, key)
  <2>1. i \in h + 1..c - 1 /\ Named(file[i], key)
    BY DEF Setters
  <2>2. ASSUME NEW k \in h + 1..i PROVE ~Closes(file[k])
    <3>1. k \in h + 1..c - 1 /\ k \in 1..Len(file)
      BY <2>1, BlockLines DEF Block
    <3>2. Tokens(file[k]) = {} \/ Setting(file[k])
      BY <3>1 DEF Block, FirstBlock
    <3>3. QED
      BY <3>1, <3>2, BlockLines, InsideStaysOpen
  <2>3. i \in 1..Len(file) /\ h < i
    BY <2>1, BlockLines DEF Block
  <2>4. QED
    BY <1>1, <2>1, <2>2, <2>3, BlockLines DEF MpdLines
<1>4. QED
  BY <1>2, <1>3

\* A key is set at most once, by a line with a value.
LEMMA SettersOne ==
  ASSUME NEW file, NEW h, NEW c, Block(file, h, c), NEW key
  PROVE  /\ \A i, j \in Setters(file, h, c, key) : i = j
         /\ \A i \in Setters(file, h, c, key) : Setting(file[i])
<1>1. ASSUME NEW i \in Setters(file, h, c, key)
      PROVE  Setting(file[i]) /\ file[i][1] = Word(key) /\ i \in h + 1..c - 1
  <2>1. i \in h + 1..c - 1 /\ Named(file[i], key)
    BY DEF Setters
  <2>2. Tokens(file[i]) = {} \/ Setting(file[i])
    BY <2>1 DEF Block, FirstBlock
  <2>3. file[i] \in Seq(Token)
    BY <2>1, BlockLines DEF Block
  <2>4. QED
    BY <2>1, <2>2, <2>3, InsideStaysOpen DEF Named
<1>2. ASSUME NEW i \in Setters(file, h, c, key), NEW j \in Setters(file, h, c, key)
      PROVE  i = j
  BY <1>1 DEF Block, FirstBlock
<1>3. QED
  BY <1>1, <1>2

\* The value behind a key is the second token, for the scanner as for mpd.
LEMMA ExtractSetting ==
  ASSUME NEW line \in Seq(Token), Setting(line)
  PROVE  ExtractValue(line) = line[2].text
<1>1. 2 \in Tokens(line)
  BY DEF Setting
<1>2. 2 \in 1..Len(line) /\ line[2].kind # "note" /\ Len(line) \in Nat
  BY <1>1 DEF Tokens
<1>3. ~(Len(line) < 2)
  BY <1>2
<1>4. QED
  BY <1>2, <1>3 DEF ExtractValue

\* The scanner finds the block, the end of it and the line of each key.
LEMMA ScanResult ==
  ASSUME NEW file, NEW h, NEW c, Block(file, h, c)
  PROVE  /\ ScanConf(file).block = TRUE /\ ScanConf(file).close = c - 1
         /\ Names(ScanConf(file).type, MpdLines(file, "type"))
         /\ Names(ScanConf(file).device, MpdLines(file, "device"))
<1> DEFINE n == Len(file)
<1>1. n \in 0..Len(file) /\ c <= n /\ h \in Nat /\ c \in Nat
  BY BlockLines DEF Block
<1>2. ScanKnows(file, h, c, n, Scanned(file)[n])
  BY <1>1, ScanKnowsAll DEF Block
<1>3. KnowsBehind(file, h, c, n, ScanConf(file))
  BY <1>1, <1>2 DEF ScanKnows, ScanConf
<1>4. PICK t, d : /\ Names(t, SetBy(file, h, c, n, "type"))
                  /\ Names(d, SetBy(file, h, c, n, "device"))
                  /\ ScanConf(file) = Shut(c - 1, t, d)
  BY <1>3 DEF KnowsBehind
<1>5. \A key : SetBy(file, h, c, n, key) = Setters(file, h, c, key)
  BY <1>1 DEF SetBy, Setters
<1>6. /\ ScanConf(file).block = TRUE /\ ScanConf(file).close = c - 1
      /\ ScanConf(file).type = t /\ ScanConf(file).device = d
  BY <1>4 DEF Shut, Found
<1>7. QED
  BY <1>4, <1>5, <1>6, MpdLinesAre

\* Who finds the line mpd finds reads the value mpd reads.
LEMMA ValuesAgree ==
  ASSUME NEW file, NEW h, NEW c, Block(file, h, c), NEW key \in {"type", "device"},
         NEW v, Names(v, MpdLines(file, key))
  PROVE  ValueAt(file, v) = MpdValue(file, key)
<1> DEFINE S == MpdLines(file, key)
<1>1. /\ \A i, j \in S : i = j
      /\ \A i \in S : Setting(file[i]) /\ i \in 1..Len(file) /\ i # 0
  <2>1. S = Setters(file, h, c, key)
    BY MpdLinesAre
  <2>2. \A i \in Setters(file, h, c, key) : i \in 1..Len(file) /\ i # 0
    BY BlockLines DEF Setters, Block
  <2>3. QED
    BY <2>1, <2>2, SettersOne
<1>2. CASE S = {}
  BY <1>2 DEF Names, ValueAt, MpdValue
<1>3. CASE S # {}
  <2>1. v \in S
    BY <1>3 DEF Names
  <2>2. MpdLine(file, key) = v
    BY <1>1, <2>1 DEF MpdLine
  <2>3. ExtractValue(file[v]) = file[v][2].text
    BY <1>1, <2>1, BlockLines, ExtractSetting
  <2>4. QED
    BY <1>1, <1>3, <2>1, <2>2, <2>3 DEF ValueAt, MpdValue
<1>4. QED
  BY <1>2, <1>3

\* Without an audio_output block neither finds anything.
LEMMA NoOutputScan ==
  ASSUME NEW file, NoOutput(file)
  PROVE  ScanConf(file) = NoBlock /\ MpdBlock(file) = 0 /\ \A key : MpdLines(file, key) = {}
<1> DEFINE T == {n \in 0..Len(file) : Scanned(file)[n] # NoBlock}
<1>1. Len(file) \in Nat
  BY DEF NoOutput, File
<1>2. ASSUME T # {} PROVE FALSE
  <2>1. PICK x \in T : \A y \in T : x <= y
    <3>1. T \in SUBSET Nat
      BY <1>1
    <3> HIDE DEF T
    <3>2. QED
      BY <1>2, <3>1, Least
  <2>2. x # 0
    BY ScanStep DEF NoOutput
  <2>3. x \in 1..Len(file) /\ x - 1 \in 0..Len(file) /\ x - 1 \notin T
    BY <1>1, <2>1, <2>2
  <2>4. Scanned(file)[x] = ScanLine(file[x], NoBlock, x)
    BY <2>3, ScanStep DEF NoOutput
  <2>5. file[x] \in Seq(Token) /\ WellFormed(file[x]) /\ ~Named(file[x], "audio_output")
    BY <2>3 DEF NoOutput, File
  <2>6. QED
    BY <2>1, <2>4, <2>5, ScanBefore
<1>3. ScanConf(file) = NoBlock
  BY <1>1, <1>2 DEF ScanConf
<1>4. MpdBlock(file) = 0
  BY DEF MpdBlock, NoOutput, IsHead
<1>5. QED
  BY <1>3, <1>4 DEF MpdLines, InBlock

-----------------------------------------------------------------------------
(***************************************************************************)
(* Taking a line out and putting one in.                                   *)
(***************************************************************************)

\* A part of a sequence, place by place.
LEMMA Slice ==
  ASSUME NEW S, NEW s \in Seq(S), NEW a \in 1..Len(s) + 1, NEW b \in a - 1..Len(s)
  PROVE  /\ SubSeq(s, a, b) \in Seq(S) /\ Len(SubSeq(s, a, b)) = b - a + 1
         /\ \A i \in 1..b - a + 1 : SubSeq(s, a, b)[i] = s[a + i - 1]
<1>1. Len(s) \in Nat /\ a \in Int /\ b \in Int /\ \A i \in a..b : s[i] \in S
  OBVIOUS
<1>2. QED
  BY <1>1, SubSeqProperties

\* A sequence less one element, and with one more, place by place.
LEMMA RemovedLines ==
  ASSUME NEW S, NEW s \in Seq(S), NEW p \in 1..Len(s)
  PROVE  /\ RemoveAt(s, p) \in Seq(S) /\ Len(RemoveAt(s, p)) = Len(s) - 1
         /\ \A i \in 1..Len(s) - 1 : RemoveAt(s, p)[i] = IF i < p THEN s[i] ELSE s[i + 1]
<1> DEFINE u == SubSeq(s, 1, p - 1)
           v == SubSeq(s, p + 1, Len(s))
<1>1. Len(s) \in Nat /\ p \in Nat /\ 1 <= p /\ p <= Len(s)
  OBVIOUS
<1>2. u \in Seq(S) /\ Len(u) = p - 1 /\ \A i \in 1..p - 1 : u[i] = s[i]
  BY <1>1, Slice
<1>3. v \in Seq(S) /\ Len(v) = Len(s) - p /\ \A i \in 1..Len(s) - p : v[i] = s[p + i]
  BY <1>1, Slice
<1>4. RemoveAt(s, p) = u \o v
  BY DEF RemoveAt
<1> HIDE DEF u, v
<1>5. /\ u \o v \in Seq(S) /\ Len(u \o v) = Len(s) - 1
      /\ \A i \in 1..Len(s) - 1 : (u \o v)[i] = IF i <= p - 1 THEN u[i] ELSE v[i - (p - 1)]
  <2>1. /\ u \o v \in Seq(S) /\ Len(u \o v) = Len(u) + Len(v)
        /\ \A i \in 1..Len(u) + Len(v) :
             (u \o v)[i] = IF i <= Len(u) THEN u[i] ELSE v[i - Len(u)]
    BY <1>2, <1>3, ConcatProperties
  <2>2. Len(u) + Len(v) = Len(s) - 1
    BY <1>1, <1>2, <1>3
  <2>3. QED
    BY <1>2, <2>1, <2>2
<1>6. ASSUME NEW i \in 1..Len(s) - 1
      PROVE  (u \o v)[i] = IF i < p THEN s[i] ELSE s[i + 1]
  <2>1. CASE i < p
    <3>1. i <= p - 1 /\ i \in 1..p - 1
      BY <1>1, <2>1
    <3>2. QED
      BY <1>2, <1>5, <2>1, <3>1
  <2>2. CASE ~(i < p)
    <3>1. ~(i <= p - 1) /\ i - (p - 1) \in 1..Len(s) - p /\ p + (i - (p - 1)) = i + 1
      BY <1>1, <2>2
    <3>2. (u \o v)[i] = v[i - (p - 1)]
      BY <1>5, <3>1
    <3>3. QED
      BY <1>3, <2>2, <3>1, <3>2
  <2>3. QED
    BY <2>1, <2>2
<1>7. QED
  BY <1>4, <1>5, <1>6

LEMMA InsertedLines ==
  ASSUME NEW S, NEW s \in Seq(S), NEW p \in 1..Len(s) + 1, NEW x \in S
  PROVE  /\ InsertAt(s, p, x) \in Seq(S) /\ Len(InsertAt(s, p, x)) = Len(s) + 1
         /\ \A i \in 1..Len(s) + 1 :
              InsertAt(s, p, x)[i] = IF i < p THEN s[i] ELSE IF i = p THEN x ELSE s[i - 1]
<1> DEFINE u == SubSeq(s, 1, p - 1)
           v == SubSeq(s, p, Len(s))
           w == u \o <<x>>
<1>1. Len(s) \in Nat /\ p \in Nat /\ 1 <= p /\ p <= Len(s) + 1
  OBVIOUS
<1>2. u \in Seq(S) /\ Len(u) = p - 1 /\ \A i \in 1..p - 1 : u[i] = s[i]
  BY <1>1, Slice
<1>3. v \in Seq(S) /\ Len(v) = Len(s) - p + 1
      /\ \A i \in 1..Len(s) - p + 1 : v[i] = s[p + i - 1]
  BY <1>1, Slice
<1>4. InsertAt(s, p, x) = w \o v
  BY DEF InsertAt
<1>5. <<x>> \in Seq(S) /\ Len(<<x>>) = 1 /\ <<x>>[1] = x
  OBVIOUS
<1> HIDE DEF u, v
<1>6. w \in Seq(S) /\ Len(w) = p /\ \A i \in 1..p : w[i] = IF i < p THEN s[i] ELSE x
  <2>1. /\ w \in Seq(S) /\ Len(w) = p
        /\ \A i \in 1..p : w[i] = IF i <= p - 1 THEN u[i] ELSE <<x>>[i - (p - 1)]
    BY <1>1, <1>2, <1>5, ConcatProperties
  <2>2. QED
    BY <1>1, <1>2, <1>5, <2>1
<1> HIDE DEF w
<1>7. /\ w \o v \in Seq(S) /\ Len(w \o v) = Len(s) + 1
      /\ \A i \in 1..Len(s) + 1 : (w \o v)[i] = IF i <= p THEN w[i] ELSE v[i - p]
  <2>1. /\ w \o v \in Seq(S) /\ Len(w \o v) = Len(w) + Len(v)
        /\ \A i \in 1..Len(w) + Len(v) :
             (w \o v)[i] = IF i <= Len(w) THEN w[i] ELSE v[i - Len(w)]
    BY <1>3, <1>6, ConcatProperties
  <2>2. Len(w) + Len(v) = Len(s) + 1
    BY <1>1, <1>3, <1>6
  <2>3. QED
    BY <1>6, <2>1, <2>2
<1>8. ASSUME NEW i \in 1..Len(s) + 1
      PROVE  (w \o v)[i] = IF i < p THEN s[i] ELSE IF i = p THEN x ELSE s[i - 1]
  <2>1. CASE i <= p
    BY <1>1, <1>6, <1>7, <2>1
  <2>2. CASE ~(i <= p)
    <3>1. i - p \in 1..Len(s) - p + 1 /\ p + (i - p) - 1 = i - 1 /\ ~(i < p) /\ i # p
      BY <1>1, <2>2
    <3>2. (w \o v)[i] = v[i - p]
      BY <1>7, <2>2
    <3>3. QED
      BY <1>3, <3>1, <3>2
  <2>3. QED
    BY <2>1, <2>2
<1>9. QED
  BY <1>4, <1>7, <1>8

\* What was put in can be taken out again.
LEMMA RemoveInserted ==
  ASSUME NEW S, NEW s \in Seq(S), NEW p \in 1..Len(s) + 1, NEW x \in S
  PROVE  RemoveAt(InsertAt(s, p, x), p) = s
<1> DEFINE e == InsertAt(s, p, x)
           r == RemoveAt(e, p)
<1>1. Len(s) \in Nat /\ p \in Nat
  OBVIOUS
<1>2. /\ e \in Seq(S) /\ Len(e) = Len(s) + 1
      /\ \A i \in 1..Len(s) + 1 :
           e[i] = IF i < p THEN s[i] ELSE IF i = p THEN x ELSE s[i - 1]
  <2>1. /\ InsertAt(s, p, x) \in Seq(S) /\ Len(InsertAt(s, p, x)) = Len(s) + 1
        /\ \A i \in 1..Len(s) + 1 :
             InsertAt(s, p, x)[i] = IF i < p THEN s[i] ELSE IF i = p THEN x ELSE s[i - 1]
    BY InsertedLines
  <2>2. QED
    BY <2>1
<1> HIDE DEF e
<1>3. /\ r \in Seq(S) /\ Len(r) = Len(e) - 1
      /\ \A i \in 1..Len(e) - 1 : r[i] = IF i < p THEN e[i] ELSE e[i + 1]
  <2>1. p \in 1..Len(e)
    BY <1>1, <1>2
  <2>2. QED
    BY <1>2, <2>1, RemovedLines
<1> HIDE DEF r
<1>4. ASSUME NEW i \in 1..Len(s) PROVE r[i] = s[i]
  <2>1. i \in 1..Len(e) - 1 /\ i \in 1..Len(s) + 1 /\ i + 1 \in 1..Len(s) + 1
    BY <1>1, <1>2
  <2>2. CASE i < p
    BY <1>2, <1>3, <2>1, <2>2
  <2>3. CASE ~(i < p)
    <3>1. ~(i + 1 < p) /\ i + 1 # p /\ (i + 1) - 1 = i
      BY <1>1, <2>3
    <3>2. r[i] = e[i + 1]
      BY <1>3, <2>1, <2>3
    <3>3. e[i + 1] = s[(i + 1) - 1]
      BY <1>2, <2>1, <3>1
    <3>4. QED
      BY <3>1, <3>2, <3>3
  <2>4. QED
    BY <2>2, <2>3
<1>5. Len(r) = Len(s)
  BY <1>1, <1>2, <1>3
<1>6. r = s
  BY <1>3, <1>4, <1>5, SeqEqual
<1>7. QED
  BY <1>6 DEF r, e

\* A line put where the old one was.
LEMMA ReplacedLine ==
  ASSUME NEW S, NEW s \in Seq(S), NEW p \in 1..Len(s), NEW x \in S
  PROVE  SubSeq(s, 1, p - 1) \o <<x>> \o SubSeq(s, p + 1, Len(s)) =
           InsertAt(RemoveAt(s, p), p, x)
<1> DEFINE r == RemoveAt(s, p)
           u == SubSeq(s, 1, p - 1)
           v == SubSeq(s, p + 1, Len(s))
<1>1. Len(s) \in Nat /\ p \in Nat /\ 1 <= p /\ p <= Len(s)
  OBVIOUS
<1>2. u \in Seq(S) /\ Len(u) = p - 1 /\ \A i \in 1..p - 1 : u[i] = s[i]
  BY <1>1, Slice
<1>3. v \in Seq(S) /\ Len(v) = Len(s) - p /\ \A i \in 1..Len(s) - p : v[i] = s[p + i]
  BY <1>1, Slice
<1>4. /\ r \in Seq(S) /\ Len(r) = Len(s) - 1
      /\ \A i \in 1..Len(s) - 1 : r[i] = IF i < p THEN s[i] ELSE s[i + 1]
  BY RemovedLines
<1> HIDE DEF r, u, v
<1>5. SubSeq(r, 1, p - 1) = u
  <2>1. /\ SubSeq(r, 1, p - 1) \in Seq(S) /\ Len(SubSeq(r, 1, p - 1)) = p - 1
        /\ \A i \in 1..p - 1 : SubSeq(r, 1, p - 1)[i] = r[i]
    BY <1>1, <1>4, Slice
  <2>2. \A i \in 1..p - 1 : SubSeq(r, 1, p - 1)[i] = u[i]
    BY <1>1, <1>2, <1>4, <2>1
  <2>3. QED
    BY <1>2, <2>1, <2>2, SeqEqual
<1>6. SubSeq(r, p, Len(r)) = v
  <2>1. /\ SubSeq(r, p, Len(r)) \in Seq(S) /\ Len(SubSeq(r, p, Len(r))) = Len(s) - p
        /\ \A i \in 1..Len(s) - p : SubSeq(r, p, Len(r))[i] = r[p + i - 1]
    BY <1>1, <1>4, Slice
  <2>2. \A i \in 1..Len(s) - p : SubSeq(r, p, Len(r))[i] = v[i]
    BY <1>1, <1>3, <1>4, <2>1
  <2>3. QED
    BY <1>3, <2>1, <2>2, SeqEqual
<1>7. InsertAt(r, p, x) = u \o <<x>> \o v
  BY <1>5, <1>6 DEF InsertAt
<1>8. QED
  BY <1>7 DEF r, u, v

\* A part before and a part behind, with nothing between.
LEMMA SameLines ==
  ASSUME NEW S, NEW s \in Seq(S), NEW p \in 1..Len(s)
  PROVE  /\ SubSeq(s, 1, p - 1) \o <<>> \o SubSeq(s, p, Len(s)) = s
         /\ SubSeq(s, 1, p - 1) \o <<>> \o SubSeq(s, p + 1, Len(s)) = RemoveAt(s, p)
<1>1. Len(s) \in Nat /\ p \in Nat /\ 1 <= p /\ p <= Len(s)
  OBVIOUS
<1>2. SubSeq(s, 1, p - 1) \in Seq(S)
  BY <1>1, Slice
<1>3. SubSeq(s, 1, p - 1) \o <<>> = SubSeq(s, 1, p - 1)
  BY <1>2, ConcatEmptySeq
<1>4. SubSeq(s, 1, p - 1) \o SubSeq(s, (p - 1) + 1, Len(s)) = SubSeq(s, 1, Len(s))
  <2>1. 1 \in 1..Len(s) + 1 /\ p - 1 \in 1 - 1..Len(s) /\ Len(s) \in p - 1..Len(s)
    BY <1>1
  <2>2. QED
    BY <2>1, ConcatAdjacentSubSeq
<1>5. (p - 1) + 1 = p /\ SubSeq(s, 1, Len(s)) = s
  BY <1>1, SubSeqFull
<1>6. QED
  BY <1>3, <1>4, <1>5 DEF RemoveAt

\* Without its device line the block is a block.
LEMMA RemovedBlock ==
  ASSUME NEW file, NEW h, NEW c, Block(file, h, c),
         NEW p \in Setters(file, h, c, "device"), NEW r, r = RemoveAt(file, p)
  PROVE  /\ p \in h + 1..c - 1
         /\ Block(r, h, c - 1) /\ Setters(r, h, c - 1, "device") = {}
<1> DEFINE k(i) == IF i < p THEN i ELSE i + 1
<1>1. /\ Len(file) \in Nat /\ h \in Nat /\ c \in Nat /\ p \in Nat
      /\ 1 <= h /\ h < p /\ p < c /\ c <= Len(file) /\ file \in File
  BY BlockLines DEF Block, Setters
<1>2. /\ r \in File /\ Len(r) = Len(file) - 1
      /\ \A i \in 1..Len(file) - 1 : r[i] = file[k(i)]
  <2>1. p \in 1..Len(file)
    BY <1>1
  <2>2. /\ r \in File /\ Len(r) = Len(file) - 1
        /\ \A i \in 1..Len(file) - 1 : r[i] = IF i < p THEN file[i] ELSE file[i + 1]
    BY <1>1, <2>1, RemovedLines DEF File
  <2>3. QED
    BY <2>2
<1>3. /\ \A i \in 1..Len(file) - 1 : k(i) \in 1..Len(file) /\ k(i) # p
      /\ \A i \in 1..h : k(i) = i
      /\ k(c - 1) = c
      /\ \A i \in h + 1..c - 2 : k(i) \in h + 1..c - 1
      /\ \A i, j \in h + 1..c - 2 : k(i) = k(j) => i = j
  BY <1>1
<1> HIDE DEF k
<1>4. DOMAIN r = 1..Len(file) - 1
  BY <1>2 DEF File
<1>5. \A i \in DOMAIN r : WellFormed(r[i])
  BY <1>2, <1>3, <1>4, BlockLines
<1>6. FirstBlock(r, h, c - 1)
  <2>1. 1 <= h /\ h < c - 1 /\ c - 1 <= Len(r)
    BY <1>1, <1>2
  <2>2. IsHead(r[h])
    <3>1. h \in 1..Len(file) - 1 /\ k(h) = h
      BY <1>1, <1>3
    <3>2. QED
      BY <1>2, <3>1 DEF Block, FirstBlock
  <2>3. Closes(r[c - 1])
    <3>1. c - 1 \in 1..Len(file) - 1
      BY <1>1
    <3>2. QED
      BY <1>2, <1>3, <3>1 DEF Block, FirstBlock
  <2>4. ASSUME NEW i \in 1..h - 1 PROVE ~Named(r[i], "audio_output")
    <3>1. i \in 1..Len(file) - 1 /\ k(i) = i
      BY <1>1, <1>3
    <3>2. QED
      BY <1>2, <3>1 DEF Block, FirstBlock
  <2>5. ASSUME NEW i \in h + 1..c - 2
        PROVE  r[i] = file[k(i)] /\ k(i) \in h + 1..c - 1
    BY <1>1, <1>2, <1>3
  <2>6. \A i \in h + 1..c - 2 : Tokens(r[i]) = {} \/ Setting(r[i])
    BY <2>5 DEF Block, FirstBlock
  <2>7. \A i, j \in h + 1..c - 2 :
          Setting(r[i]) /\ Setting(r[j]) /\ r[i][1] = r[j][1] => i = j
    <3> SUFFICES ASSUME NEW i \in h + 1..c - 2, NEW j \in h + 1..c - 2,
                        Setting(r[i]), Setting(r[j]), r[i][1] = r[j][1]
                 PROVE  i = j
      OBVIOUS
    <3>1. /\ r[i] = file[k(i)] /\ k(i) \in h + 1..c - 1
          /\ r[j] = file[k(j)] /\ k(j) \in h + 1..c - 1
      BY <2>5
    <3>2. k(i) = k(j)
      BY <3>1 DEF Block, FirstBlock
    <3>3. QED
      BY <1>3, <3>2
  <2>8. (c - 1) - 1 = c - 2
    BY <1>1
  <2>9. QED
    BY <2>1, <2>2, <2>3, <2>4, <2>6, <2>7, <2>8 DEF FirstBlock
<1>7. ASSUME NEW i \in Setters(r, h, c - 1, "device") PROVE FALSE
  <2>1. i \in h + 1..c - 2 /\ Named(r[i], "device")
    BY <1>1 DEF Setters
  <2>2. i \in 1..Len(file) - 1 /\ k(i) \in h + 1..c - 1
    BY <1>1, <1>3, <2>1
  <2>3. k(i) \in Setters(file, h, c, "device")
    BY <1>2, <2>1, <2>2 DEF Setters
  <2>4. QED
    BY <1>3, <2>2, <2>3, SettersOne
<1>8. QED
  <2>1. p \in h + 1..c - 1 /\ c - 1 \in Nat
    BY <1>1
  <2>2. Block(r, h, c - 1)
    BY <1>1, <1>2, <1>5, <1>6, <2>1 DEF Block
  <2>3. QED
    BY <1>7, <2>1, <2>2

\* The line that is put in.
DeviceLine(arg) == <<Word("device"), Str(arg)>>

\* The line that is written is one mpd reads as a setting of device.
LEMMA DeviceLineIs ==
  ASSUME NEW arg \in Devices
  PROVE  /\ DeviceLine(arg) \in Seq(Token) /\ WellFormed(DeviceLine(arg))
         /\ Setting(DeviceLine(arg)) /\ Named(DeviceLine(arg), "device")
         /\ DeviceLine(arg)[2].text = arg
<1> DEFINE l == DeviceLine(arg)
<1>1. /\ l \in Seq(Token) /\ DOMAIN l = {1, 2} /\ l # <<>>
      /\ l[1] = Word("device") /\ l[2] = Str(arg)
  <2>1. arg \in Texts /\ Word("device") \in Token /\ Str(arg) \in Token
    <3>1. arg \in Texts /\ "device" \in Texts
      BY ConfAssumption
    <3>2. QED
      BY <3>1 DEF Word, Str, Token
  <2>2. QED
    BY <2>1 DEF DeviceLine
<1> HIDE DEF l
<1>2. l[1].kind = "word" /\ l[2].kind = "str" /\ l[2].text = arg
  BY <1>1 DEF Word, Str
<1>3. l[1].text = "device"
  BY <1>1, WordFields
<1>4. WellFormed(l) /\ Named(l, "device") /\ Tokens(l) = {1, 2}
  BY <1>1, <1>2 DEF WellFormed, Named, Tokens
<1>5. \A j \in {1, 2} : l[j] \notin {Word(LBrace), Word(RBrace)}
  BY <1>2, <1>3, WordFields, Braces
<1>6. QED
  BY <1>1, <1>2, <1>4, <1>5 DEF Setting, l

\* With a device line put in the block is a block, and mpd finds that line.
LEMMA InsertedBlock ==
  ASSUME NEW file, NEW h, NEW c, Block(file, h, c), Setters(file, h, c, "device") = {},
         NEW p \in h + 1..c, NEW arg \in Devices,
         NEW e, e = InsertAt(file, p, DeviceLine(arg))
  PROVE  Block(e, h, c + 1) /\ Setters(e, h, c + 1, "device") = {p}
<1> DEFINE k(i) == IF i < p THEN i ELSE i - 1
           l == DeviceLine(arg)
<1>1. /\ Len(file) \in Nat /\ h \in Nat /\ c \in Nat /\ p \in Nat
      /\ 1 <= h /\ h < p /\ p <= c /\ c <= Len(file) /\ file \in File
  BY BlockLines DEF Block
<1>2. /\ l \in Seq(Token) /\ WellFormed(l) /\ Setting(l) /\ Named(l, "device")
  BY DeviceLineIs
<1>3. /\ e \in File /\ Len(e) = Len(file) + 1 /\ e[p] = l
      /\ \A i \in 1..Len(file) + 1 : i # p => e[i] = file[k(i)]
  <2> HIDE DEF l
  <2>1. p \in 1..Len(file) + 1 /\ e = InsertAt(file, p, l)
    BY <1>1 DEF l
  <2>2. /\ e \in File /\ Len(e) = Len(file) + 1
        /\ \A i \in 1..Len(file) + 1 :
             e[i] = IF i < p THEN file[i] ELSE IF i = p THEN l ELSE file[i - 1]
    <3>1. file \in Seq(Seq(Token)) /\ l \in Seq(Token) /\ p \in 1..Len(file) + 1
      BY <1>1, <1>2, <2>1 DEF File
    <3>2. /\ InsertAt(file, p, l) \in Seq(Seq(Token))
          /\ Len(InsertAt(file, p, l)) = Len(file) + 1
          /\ \A i \in 1..Len(file) + 1 : InsertAt(file, p, l)[i] =
               IF i < p THEN file[i] ELSE IF i = p THEN l ELSE file[i - 1]
      BY <3>1, InsertedLines
    <3>3. QED
      BY <2>1, <3>2 DEF File
  <2>3. QED
    BY <1>1, <2>1, <2>2
<1> HIDE DEF l
<1>4. /\ \A i \in 1..Len(file) + 1 : i # p => k(i) \in 1..Len(file)
      /\ \A i \in 1..h : k(i) = i /\ i # p
      /\ k(c + 1) = c /\ c + 1 # p
      /\ \A i \in h + 1..c : i # p => k(i) \in h + 1..c - 1
      /\ \A i, j \in h + 1..c : i # p /\ j # p /\ k(i) = k(j) => i = j
  BY <1>1
<1> HIDE DEF k
<1>5. DOMAIN e = 1..Len(file) + 1
  BY <1>3 DEF File
<1>6. \A i \in DOMAIN e : WellFormed(e[i])
  BY <1>2, <1>3, <1>4, <1>5, BlockLines
<1>7. ASSUME NEW i \in h + 1..c, i # p
      PROVE  /\ e[i] = file[k(i)] /\ k(i) \in h + 1..c - 1
             /\ Tokens(e[i]) = {} \/ Setting(e[i])
             /\ ~Named(e[i], "device")
  <2>1. e[i] = file[k(i)] /\ k(i) \in h + 1..c - 1
    BY <1>1, <1>3, <1>4, <1>7
  <2>2. k(i) \notin Setters(file, h, c, "device")
    OBVIOUS
  <2>3. QED
    BY <2>1, <2>2 DEF Block, FirstBlock, Setters
<1>8. FirstBlock(e, h, c + 1)
  <2>1. 1 <= h /\ h < c + 1 /\ c + 1 <= Len(e)
    BY <1>1, <1>3
  <2>2. IsHead(e[h])
    <3>1. h \in 1..Len(file) + 1 /\ k(h) = h /\ h # p
      BY <1>1, <1>4
    <3>2. QED
      BY <1>3, <3>1 DEF Block, FirstBlock
  <2>3. Closes(e[c + 1])
    <3>1. c + 1 \in 1..Len(file) + 1
      BY <1>1
    <3>2. QED
      BY <1>3, <1>4, <3>1 DEF Block, FirstBlock
  <2>4. ASSUME NEW i \in 1..h - 1 PROVE ~Named(e[i], "audio_output")
    <3>1. i \in 1..Len(file) + 1 /\ k(i) = i /\ i # p
      BY <1>1, <1>4
    <3>2. QED
      BY <1>3, <3>1 DEF Block, FirstBlock
  <2>5. \A i \in h + 1..c : Tokens(e[i]) = {} \/ Setting(e[i])
    BY <1>2, <1>3, <1>7
  <2>6. ASSUME NEW i \in h + 1..c, NEW j \in h + 1..c,
               Setting(e[i]), Setting(e[j]), e[i][1] = e[j][1]
        PROVE  i = j
    <3>1. ASSUME NEW n \in h + 1..c, n # p, Setting(e[n]) PROVE e[n][1] # e[p][1]
      <4>1. e[p][1] = Word("device")
        BY <1>2, <1>3 DEF Named
      <4>2. e[n] # <<>> /\ ~Named(e[n], "device")
        BY <1>7, <3>1 DEF Setting, Tokens
      <4>3. QED
        BY <4>1, <4>2 DEF Named
    <3>2. CASE i = p \/ j = p
      BY <2>6, <3>1, <3>2
    <3>3. CASE i # p /\ j # p
      <4>1. e[i] = file[k(i)] /\ k(i) \in h + 1..c - 1 /\ e[j] = file[k(j)] /\ k(j) \in h + 1..c - 1
        BY <1>7, <3>3
      <4>2. k(i) = k(j)
        BY <2>6, <4>1 DEF Block, FirstBlock
      <4>3. QED
        BY <1>4, <3>3, <4>2
    <3>4. QED
      BY <3>2, <3>3
  <2>7. (c + 1) - 1 = c
    BY <1>1
  <2>8. QED
    BY <2>1, <2>2, <2>3, <2>4, <2>5, <2>6, <2>7 DEF FirstBlock
<1>9. Setters(e, h, c + 1, "device") = {p}
  <2>1. (c + 1) - 1 = c
    BY <1>1
  <2>2. QED
    BY <1>2, <1>3, <1>7, <2>1 DEF Setters
<1>10. QED
  BY <1>1, <1>3, <1>6, <1>8, <1>9 DEF Block

-----------------------------------------------------------------------------
(***************************************************************************)
(* What audio_conf_set_device makes of an accepted file.                   *)
(***************************************************************************)

LEMMA ArgsAre == Args = Devices \cup {""} /\ "" \notin Devices
BY ConfAssumption DEF Args

\* Rest takes out the one device line.
LEMMA RestIs ==
  ASSUME NEW file, NEW h, NEW c, Block(file, h, c)
  PROVE  /\ Setters(file, h, c, "device") = {} => Rest(file) = file
         /\ \A p \in Setters(file, h, c, "device") : Rest(file) = RemoveAt(file, p)
<1>1. MpdLines(file, "device") = Setters(file, h, c, "device")
  BY MpdLinesAre
<1>2. ASSUME NEW p \in Setters(file, h, c, "device")
      PROVE  Rest(file) = RemoveAt(file, p)
  <2>1. MpdLine(file, "device") = p
    BY <1>1, SettersOne DEF MpdLine
  <2>2. QED
    BY <1>1, <2>1 DEF Rest
<1>3. QED
  BY <1>1, <1>2 DEF Rest

\* The rest is a file with the same block less its device line, and the new line
\* goes somewhere between the braces.
LEMMA EditedIs ==
  ASSUME NEW file, NEW h, NEW c, Block(file, h, c), NEW arg \in Args
  PROVE  \E d : /\ Block(Rest(file), h, d) /\ Setters(Rest(file), h, d, "device") = {}
                /\ \E p \in h + 1..d :
                     /\ arg = "" => Edited(file, arg) = Rest(file)
                     /\ arg # "" =>
                          Edited(file, arg) = InsertAt(Rest(file), p, DeviceLine(arg))
<1> DEFINE b == ScanConf(file)
           S == Setters(file, h, c, "device")
<1>1. b.close = c - 1 /\ Names(b.device, S)
  BY ScanResult, MpdLinesAre
<1>2. /\ file \in Seq(Seq(Token)) /\ Len(file) \in Nat /\ h \in Nat /\ c \in Nat
      /\ 1 <= h /\ h < c /\ c <= Len(file)
  BY BlockLines DEF Block, File
<1>3. arg # "" => DeviceLine(arg) \in Seq(Token)
  BY ArgsAre, DeviceLineIs
<1>4. DeviceLines(arg) = IF arg = "" THEN <<>> ELSE <<DeviceLine(arg)>>
  BY DEF DeviceLines, DeviceLine
<1> HIDE DEF b, S
<1>5. CASE b.device = 0
  <2>1. S = {}
    <3>1. 0 \notin S
      BY <1>2 DEF S, Setters
    <3>2. QED
      BY <1>1, <1>5, <3>1 DEF Names
  <2>2. Rest(file) = file
    BY <2>1, RestIs DEF S
  <2>3. b.close = c - 1 /\ b.close + 1 = c
    BY <1>1, <1>2
  <2>4. Edited(file, arg) =
          SubSeq(file, 1, c - 1) \o DeviceLines(arg) \o SubSeq(file, c, Len(file))
    BY <1>5, <2>3 DEF Edited, b
  <2>5. arg = "" => Edited(file, arg) = Rest(file)
    <3>1. c \in 1..Len(file)
      BY <1>2
    <3>2. SubSeq(file, 1, c - 1) \o <<>> \o SubSeq(file, c, Len(file)) = file
      BY <1>2, <3>1, SameLines
    <3>3. QED
      BY <1>4, <2>2, <2>4, <3>2
  <2>6. arg # "" => Edited(file, arg) = InsertAt(Rest(file), c, DeviceLine(arg))
    BY <1>4, <2>2, <2>4 DEF InsertAt
  <2>7. c \in h + 1..c
    BY <1>2
  <2>8. QED
    BY <2>1, <2>2, <2>5, <2>6, <2>7 DEF S
<1>6. CASE b.device # 0
  <2> DEFINE p == b.device
  <2>1. p \in S
    BY <1>1, <1>6 DEF Names
  <2>2. Rest(file) = RemoveAt(file, p)
    BY <2>1, RestIs DEF S
  <2>3. /\ p \in h + 1..c - 1
        /\ Block(Rest(file), h, c - 1) /\ Setters(Rest(file), h, c - 1, "device") = {}
    BY <2>1, <2>2, RemovedBlock DEF S
  <2>4. p \in 1..Len(file)
    BY <1>2, <2>3
  <2>5. Edited(file, arg) =
          SubSeq(file, 1, p - 1) \o DeviceLines(arg) \o SubSeq(file, p + 1, Len(file))
    BY <1>6 DEF Edited, b
  <2> HIDE DEF p
  <2>6. arg = "" => Edited(file, arg) = Rest(file)
    <3>1. SubSeq(file, 1, p - 1) \o <<>> \o SubSeq(file, p + 1, Len(file)) =
            RemoveAt(file, p)
      BY <1>2, <2>4, SameLines
    <3>2. QED
      BY <1>4, <2>2, <2>5, <3>1
  <2>7. arg # "" => Edited(file, arg) = InsertAt(Rest(file), p, DeviceLine(arg))
    BY <1>2, <1>3, <1>4, <2>2, <2>4, <2>5, ReplacedLine
  <2>8. QED
    BY <2>3, <2>6, <2>7
<1>7. QED
  BY <1>5, <1>6

\* The value of a block without device lines, and of one with a device line.
LEMMA ValueIs ==
  ASSUME NEW file, NEW h, NEW c, Block(file, h, c)
  PROVE  /\ Setters(file, h, c, "device") = {} => MpdValue(file, "device") = ""
         /\ \A p \in Setters(file, h, c, "device") :
              /\ MpdValue(file, "device") = file[p][2].text
              /\ file[p][2].text \in Texts
<1>1. MpdLines(file, "device") = Setters(file, h, c, "device")
  BY MpdLinesAre
<1>2. ASSUME NEW p \in Setters(file, h, c, "device")
      PROVE  /\ MpdValue(file, "device") = file[p][2].text
             /\ file[p][2].text \in Texts
  <2>1. MpdLine(file, "device") = p
    BY <1>1, SettersOne DEF MpdLine
  <2>2. Setting(file[p]) /\ file[p] \in Seq(Token)
    <3>1. p \in 1..Len(file)
      BY BlockLines DEF Setters, Block
    <3>2. QED
      BY <3>1, SettersOne, BlockLines
  <2>3. file[p][2] \in Token
    <3>1. 2 \in DOMAIN file[p]
      BY <2>2 DEF Setting, Tokens
    <3>2. QED
      BY <2>2, <3>1
  <2>4. QED
    BY <1>1, <2>1, <2>3 DEF MpdValue, Token
<1>3. QED
  BY <1>1, <1>2 DEF MpdValue

\* The edited file is one mpd accepts, in which it reads the device asked for,
\* once, and whose rest is that of the old file.
LEMMA EditDoes ==
  ASSUME NEW file, NEW h, NEW c, Block(file, h, c), NEW arg \in Args,
         NEW e, e = Edited(file, arg)
  PROVE  /\ Accepted(e) /\ e # <<>> /\ Rest(e) = Rest(file)
         /\ MpdValue(e, "device") = arg /\ Cardinality(MpdLines(e, "device")) <= 1
<1> DEFINE r == Rest(file)
<1>0. PICK d : /\ Block(r, h, d) /\ Setters(r, h, d, "device") = {}
               /\ \E p \in h + 1..d :
                    /\ arg = "" => e = r
                    /\ arg # "" => e = InsertAt(r, p, DeviceLine(arg))
  BY EditedIs
<1> HIDE DEF r
<1>1. PICK p \in h + 1..d :
        /\ Block(r, h, d) /\ Setters(r, h, d, "device") = {}
        /\ arg = "" => e = r
        /\ arg # "" => e = InsertAt(r, p, DeviceLine(arg))
  BY <1>0
<1>2. h \in Nat
  BY DEF Block
<1>3. ASSUME NEW f, NEW g, NEW n, Block(f, g, n)
      PROVE  f # <<>> /\ MpdLines(f, "device") = Setters(f, g, n, "device")
  <2>1. Len(f) # 0
    BY <1>3, BlockLines DEF Block
  <2>2. QED
    BY <1>3, <2>1, MpdLinesAre
<1>4. CASE arg = ""
  <2>1. Rest(e) = r /\ MpdValue(e, "device") = arg
    BY <1>1, <1>4, RestIs, ValueIs
  <2>2. Cardinality(MpdLines(e, "device")) = 0
    BY <1>1, <1>3, <1>4, FS_EmptySet
  <2>3. QED
    <3>1. Block(e, h, d)
      BY <1>1, <1>4
    <3>2. Accepted(e) /\ e # <<>>
      BY <1>3, <3>1, BlockAccepted
    <3>3. QED
      BY <2>1, <2>2, <3>2 DEF r
<1>5. CASE arg # ""
  <2>1. arg \in Devices
    BY <1>5, ArgsAre
  <2>2. Block(e, h, d + 1) /\ Setters(e, h, d + 1, "device") = {p}
    <3>1. e = InsertAt(r, p, DeviceLine(arg))
      BY <1>1, <1>5
    <3>2. Block(r, h, d) /\ Setters(r, h, d, "device") = {} /\ p \in h + 1..d
      BY <1>1
    <3>3. QED
      BY <2>1, <3>1, <3>2, InsertedBlock
  <2>3. r \in Seq(Seq(Token)) /\ p \in 1..Len(r) + 1 /\ DeviceLine(arg) \in Seq(Token)
    <3>1. r \in Seq(Seq(Token)) /\ d \in Nat /\ d <= Len(r) /\ Len(r) \in Nat
      BY <1>1, BlockLines DEF Block, File
    <3>2. QED
      BY <1>2, <2>1, <3>1, DeviceLineIs
  <2>4. Rest(e) = r
    <3>1. Rest(e) = RemoveAt(e, p)
      BY <2>2, RestIs
    <3>2. RemoveAt(InsertAt(r, p, DeviceLine(arg)), p) = r
      BY <2>3, RemoveInserted
    <3>3. QED
      BY <1>1, <1>5, <3>1, <3>2
  <2>5. MpdValue(e, "device") = arg
    <3>1. e[p] = DeviceLine(arg)
      <4>1. InsertAt(r, p, DeviceLine(arg))[p] = DeviceLine(arg)
        BY <2>3, InsertedLines
      <4>2. QED
        BY <1>1, <1>5, <4>1
    <3>2. MpdValue(e, "device") = e[p][2].text
      BY <2>2, ValueIs
    <3>3. QED
      BY <2>1, <3>1, <3>2, DeviceLineIs
  <2>6. Cardinality(MpdLines(e, "device")) = 1
    <3>1. MpdLines(e, "device") = {p}
      BY <1>3, <2>2
    <3>2. QED
      BY <3>1, FS_Singleton
  <2>7. QED
    <3>1. Accepted(e) /\ e # <<>>
      BY <1>3, <2>2, BlockAccepted
    <3>2. QED
      BY <2>4, <2>5, <2>6, <3>1 DEF r
<1>6. QED
  BY <1>4, <1>5

\* What the abstract specification needs of the first file.
LEMMA AcceptedValue ==
  ASSUME NEW file, Accepted(file)
  PROVE  /\ file \in File /\ Rest(file) \in File
         /\ MpdValue(file, "device") \in Texts \cup {""}
<1>1. CASE NoOutput(file)
  <2>1. MpdLines(file, "device") = {}
    BY <1>1, NoOutputScan
  <2>2. QED
    BY <1>1, <2>1 DEF Rest, MpdValue, NoOutput
<1>2. ASSUME NEW h, NEW c, Block(file, h, c)
      PROVE  /\ file \in File /\ Rest(file) \in File
             /\ MpdValue(file, "device") \in Texts \cup {""}
  <2>1. CASE Setters(file, h, c, "device") = {}
    BY <1>2, <2>1, RestIs, ValueIs DEF Block
  <2>2. CASE Setters(file, h, c, "device") # {}
    <3>1. PICK p \in Setters(file, h, c, "device") : TRUE
      BY <2>2
    <3>2. Rest(file) = RemoveAt(file, p) /\ Block(RemoveAt(file, p), h, c - 1)
      BY <1>2, <3>1, RestIs, RemovedBlock
    <3>3. QED
      BY <1>2, <3>1, <3>2, ValueIs DEF Block
  <2>3. QED
    BY <2>1, <2>2
<1>3. QED
  BY <1>1, <1>2, AcceptedCases

-----------------------------------------------------------------------------
(***************************************************************************)
(* What it makes of any file: of a part of one that was read, or of what a *)
(* call made of such a part.                                               *)
(***************************************************************************)

\* The lines found are among those scanned, and the device line is behind the one
\* that opened the block.
Bounded(n, b) ==
  /\ b.device \in 0..n /\ b.close \in 0..n /\ b.device # 1
  /\ b.device # 0 \/ b.close # 0 \/ b.block = TRUE => n >= 1

LEMMA BoundedStep ==
  ASSUME NEW n \in Nat, n # 0, NEW b, Bounded(n - 1, b), NEW line, NEW r,
         r = ScanLine(line, b, n)
  PROVE  Bounded(n, r)
<1>0. /\ b.device \in 0..n - 1 /\ b.close \in 0..n - 1 /\ b.device # 1 /\ n >= 1
      /\ b.block = TRUE => n - 1 >= 1
  BY DEF Bounded
<1>1. CASE r = b
  BY <1>0, <1>1 DEF Bounded
<1>2. CASE r # b
  <2> DEFINE depth == b.depth + Delta(line)
  <2>1. /\ r.block = TRUE
        /\ r.close = IF depth <= 0 THEN n - 1 ELSE 0
        /\ r.device = IF b.block /\ b.device = 0 /\ KeyAt(line, "device") THEN n ELSE b.device
    BY <1>2 DEF ScanLine
  <2>2. r.close \in 0..n
    BY <2>1
  <2>3. r.device \in 0..n /\ r.device # 1
    <3>1. CASE b.block = TRUE
      BY <1>0, <2>1, <3>1
    <3>2. CASE b.block # TRUE
      BY <1>0, <2>1, <3>2
    <3>3. QED
      BY <3>1, <3>2
  <2>4. QED
    BY <1>0, <2>2, <2>3 DEF Bounded
<1>3. QED
  BY <1>1, <1>2

\* Every number of lines, as in ScanKnowsAll.
LEMMA ScanBounded ==
  ASSUME NEW file \in File
  PROVE  Bounded(Len(file), ScanConf(file))
<1> DEFINE T == {n \in 0..Len(file) : ~Bounded(n, Scanned(file)[n])}
<1>0. Len(file) \in Nat
  BY DEF File
<1>1. ASSUME T # {}
      PROVE  FALSE
  <2>1. PICK x \in T : \A y \in T : x <= y
    <3>1. T \in SUBSET Nat
      OBVIOUS
    <3> HIDE DEF T
    <3>2. QED
      BY <1>1, <3>1, Least
  <2>2. CASE x = 0
    <3>1. Bounded(0, Scanned(file)[0])
      <4>1. Scanned(file)[0] = NoBlock
        BY ScanStep
      <4>2. NoBlock.device = 0 /\ NoBlock.close = 0 /\ NoBlock.block # TRUE
        BY DEF NoBlock
      <4>3. Bounded(0, NoBlock)
        <5>1. 0 \in 0..0 /\ ~(0 = 1)
          OBVIOUS
        <5>2. NoBlock.device \in 0..0 /\ NoBlock.close \in 0..0 /\ NoBlock.device # 1
          BY <4>2, <5>1
        <5>3. ~(NoBlock.device # 0 \/ NoBlock.close # 0 \/ NoBlock.block = TRUE)
          BY <4>2
        <5>4. QED
          BY <5>2, <5>3, Zenon DEF Bounded
      <4>4. QED
        BY <4>1, <4>3
    <3>2. QED
      BY <2>1, <2>2, <3>1
  <2>3. CASE x # 0
    <3>1. x \in 1..Len(file) /\ x \in Nat /\ x - 1 \in 0..Len(file) /\ x - 1 \notin T
      BY <1>0, <2>1, <2>3
    <3>2. Bounded(x - 1, Scanned(file)[x - 1])
      BY <3>1
    <3>3. Scanned(file)[x] = ScanLine(file[x], Scanned(file)[x - 1], x)
      BY <3>1, ScanStep
    <3>4. Bounded(x, Scanned(file)[x])
      BY <2>3, <3>1, <3>2, <3>3, BoundedStep
    <3>5. QED
      BY <2>1, <3>4
  <2>4. QED
    BY <2>2, <2>3
<1>2. Len(file) \in 0..Len(file)
  BY <1>0
<1>3. QED
  BY <1>1, <1>2 DEF ScanConf

\* The line that is written is a line.
LEMMA DeviceLinesFile ==
  ASSUME NEW arg \in Args
  PROVE  DeviceLines(arg) \in File
<1>1. CASE arg = ""
  <2>1. DeviceLines(arg) = <<>>
    BY <1>1 DEF DeviceLines
  <2>2. QED
    BY <2>1 DEF File
<1>2. CASE arg # ""
  <2>1. DeviceLine(arg) \in Seq(Token)
    BY <1>2, ArgsAre, DeviceLineIs
  <2>2. DeviceLines(arg) = <<DeviceLine(arg)>>
    BY <1>2 DEF DeviceLines, DeviceLine
  <2>3. QED
    BY <2>1, <2>2 DEF File
<1>3. QED
  BY <1>1, <1>2

\* What has a block is edited into a file, and never an empty one.
LEMMA EditedFile ==
  ASSUME NEW file \in File, ScanConf(file).block, NEW arg \in Args,
         NEW e, e = Edited(file, arg)
  PROVE  e \in File /\ e # <<>>
<1> DEFINE b == ScanConf(file)
           top == IF b.device # 0 THEN b.device - 1 ELSE b.close
           rest == IF b.device # 0 THEN b.device + 1 ELSE b.close + 1
           u == SubSeq(file, 1, top)
           v == SubSeq(file, rest, Len(file))
           d == DeviceLines(arg)
<1>1. /\ b.device \in 0..Len(file) /\ b.close \in 0..Len(file) /\ b.device # 1
      /\ Len(file) >= 1 /\ Len(file) \in Nat
  <2>1. Bounded(Len(file), b) /\ b.block = TRUE
    BY ScanBounded
  <2>2. Len(file) \in Nat
    BY DEF File
  <2> HIDE DEF b
  <2>3. QED
    BY <2>1, <2>2 DEF Bounded
<1> HIDE DEF b
<1>2. /\ top \in 0..Len(file) /\ rest \in 1..Len(file) + 1
      /\ top = 0 => rest = 1
  BY <1>1
<1> HIDE DEF top, rest
<1>3. u \in File /\ Len(u) = top /\ v \in File /\ Len(v) = Len(file) - rest + 1
  <2>1. 1 \in 1..Len(file) + 1 /\ top \in 1 - 1..Len(file) /\ Len(file) \in rest - 1..Len(file)
    BY <1>1, <1>2
  <2>2. u \in File /\ Len(u) = top - 1 + 1
    BY <2>1, Slice DEF File
  <2>3. v \in File /\ Len(v) = Len(file) - rest + 1
    BY <1>2, <2>1, Slice DEF File
  <2>4. QED
    BY <1>1, <1>2, <2>2, <2>3
<1>4. e = u \o d \o v
  BY DEF Edited, b, top, rest
<1>5. d \in File
  BY DeviceLinesFile
<1> HIDE DEF u, v, d
<1>6. u \o d \in File /\ Len(u \o d) = Len(u) + Len(d)
  BY <1>3, <1>5, ConcatProperties DEF File
<1>7. e \in File /\ Len(e) = Len(u) + Len(d) + Len(v)
  <2> DEFINE w == u \o d
  <2>1. w \in Seq(Seq(Token)) /\ v \in Seq(Seq(Token)) /\ e = w \o v
    BY <1>3, <1>4, <1>6 DEF File
  <2>2. Len(w) = Len(u) + Len(d)
    BY <1>6
  <2> HIDE DEF w
  <2>3. w \o v \in Seq(Seq(Token)) /\ Len(w \o v) = Len(w) + Len(v)
    BY <2>1, ConcatProperties
  <2>4. QED
    BY <2>1, <2>2, <2>3 DEF File
<1>8. Len(e) # 0
  <2>1. Len(d) \in Nat
    BY <1>5 DEF File
  <2>2. QED
    BY <1>1, <1>2, <1>3, <1>7, <2>1
<1>9. QED
  BY <1>7, <1>8

\* Any part of a file is a file.
LEMMA PartsAreFiles ==
  ASSUME NEW file \in File, NEW part \in Parts(file)
  PROVE  part \in File
<1>0. file \in Seq(Seq(Token)) /\ Len(file) \in Nat /\ DOMAIN file = 1..Len(file)
  BY DEF File
<1>1. ASSUME NEW n \in 0..Len(file)
      PROVE  SubSeq(file, 1, n) \in File
  <2>1. 1 \in 1..Len(file) + 1 /\ n \in 1 - 1..Len(file)
    BY <1>0
  <2>2. QED
    BY <1>0, <2>1, Slice DEF File
<1>2. ASSUME NEW n \in DOMAIN file, NEW k \in 1..Len(file[n])
      PROVE  Append(SubSeq(file, 1, n - 1), SubSeq(file[n], 1, k)) \in File
  <2>1. n - 1 \in 0..Len(file) /\ file[n] \in Seq(Token)
    BY <1>0
  <2>2. 1 \in 1..Len(file[n]) + 1 /\ k \in 1 - 1..Len(file[n])
    BY <2>1
  <2>3. SubSeq(file[n], 1, k) \in Seq(Token)
    BY <2>1, <2>2, Slice
  <2>4. SubSeq(file, 1, n - 1) \in Seq(Seq(Token))
    BY <1>1, <2>1 DEF File
  <2>5. QED
    BY <2>3, <2>4 DEF File
<1>3. \/ \E n \in 0..Len(file) : part = SubSeq(file, 1, n)
      \/ \E n \in DOMAIN file : \E k \in 1..Len(file[n]) :
           part = Append(SubSeq(file, 1, n - 1), SubSeq(file[n], 1, k))
  BY Zenon DEF Parts
<1>4. QED
  BY <1>1, <1>2, <1>3

-----------------------------------------------------------------------------
(***************************************************************************)
(* The theorems.                                                           *)
(***************************************************************************)

\* As long as no part of the file has taken its place, mpd.conf is a file mpd
\* accepts and its rest is what it was.
FileInv ==
  /\ conf \in File /\ tmp \in File /\ read \in File /\ asked \in Args
  /\ whole => Accepted(conf) /\ Rest(conf) = Rest(origin)
  /\ DeviceSet

\* A call that is under way works on the file it found, has read an audio_output
\* block, and what it is about to rename is what it meant to write.
CallInv ==
  /\ at \in {"idle", "write", "replace"} /\ result \in {"none", "ok", "failed"}
  /\ calls \in 0..MaxCalls /\ short \in 0..MaxShort /\ whole \in BOOLEAN
  /\ at # "idle" => conf = before /\ result = "none" /\ ScanConf(read).block
  /\ at = "replace" => tmp = Edited(read, asked)

ConfInv == FileInv /\ CallInv

LEMMA AcceptedFile ==
  ASSUME NEW file, Accepted(file)
  PROVE  file \in File
BY DEF Accepted, File

\* It holds at first,
LEMMA InitConf == Init => ConfInv
<1> SUFFICES ASSUME Init PROVE ConfInv
  OBVIOUS
<1>1. <<>> \in File /\ "" \in Args /\ MaxCalls \in 0..MaxCalls /\ MaxShort \in 0..MaxShort
  <2>1. MaxCalls \in Nat /\ MaxShort \in Nat
    BY ConfAssumption
  <2>2. <<>> \in File /\ "" \in Args
    BY DEF File, Args
  <2>3. MaxCalls \in 0..MaxCalls /\ MaxShort \in 0..MaxShort
    BY <2>1
  <2>4. QED
    BY <2>2, <2>3
<1>2. Accepted(conf) /\ conf \in File
  BY FilesAssumption, AcceptedFile DEF Init
<1>3. QED
  BY <1>1, <1>2 DEF Init, ConfInv, FileInv, CallInv, DeviceSet

\* The first line alone, or any other part, of an edited file is a file.
LEMMA PartIsFile ==
  ASSUME NEW e \in File, e # <<>>
  PROVE  SubSeq(e, 1, 1) \in File
<1>1. Len(e) \in Nat /\ Len(e) # 0 /\ e \in Seq(Seq(Token))
  BY DEF File
<1>2. 1 \in 1..Len(e) + 1 /\ 1 \in 1 - 1..Len(e)
  BY <1>1
<1>3. QED
  BY <1>1, <1>2, Slice DEF File

\* A call that has read all of an accepted file sets its device and nothing else.
LEMMA EditKeeps ==
  ASSUME Accepted(conf), ScanConf(conf).block, NEW arg \in Args, NEW e,
         e = Edited(conf, arg)
  PROVE  /\ Accepted(e) /\ Rest(e) = Rest(conf)
         /\ MpdValue(e, "device") = arg /\ Cardinality(MpdLines(e, "device")) <= 1
<1>1. ~NoOutput(conf)
  BY NoOutputScan DEF NoBlock
<1>2. PICK h, c : Block(conf, h, c)
  BY <1>1, AcceptedCases
<1>3. QED
  BY <1>2, EditDoes

\* and every step of every call keeps it.
LEMMA StepConf == ConfInv /\ [Next]_vars => ConfInv'
<1> SUFFICES ASSUME ConfInv, [Next]_vars PROVE ConfInv'
  OBVIOUS
<1> DEFINE e == Edited(read, asked)
<1>0. <<>> \in File /\ read \in File /\ asked \in Args /\ whole \in BOOLEAN
  BY DEF ConfInv, FileInv, CallInv, File
<1>1. ASSUME at # "idle"
      PROVE  e \in File /\ e # <<>>
  <2>1. ScanConf(read).block
    BY <1>1 DEF ConfInv, CallInv
  <2>2. QED
    BY <1>0, <2>1, EditedFile
<1> HIDE DEF e
<1>2. ASSUME NEW arg \in Args, SetDevice(arg)
      PROVE  ConfInv'
  <2>1. read' \in File
    <3>1. read' = conf \/ read' \in Parts(conf)
      BY <1>2 DEF SetDevice
    <3>2. conf \in File
      BY DEF ConfInv, FileInv
    <3>3. QED
      BY <3>1, <3>2, PartsAreFiles
  <2>2. at = "idle" /\ calls' \in 0..MaxCalls /\ short' \in 0..MaxShort
    <3>1. MaxCalls \in Nat /\ MaxShort \in Nat
      BY ConfAssumption
    <3>2. QED
      BY <1>2, <3>1 DEF SetDevice, ConfInv, CallInv
  <2>3. CallInv'
    BY <1>2, <2>2 DEF SetDevice, ConfInv, CallInv
  <2>4. FileInv'
    BY <1>2, <2>1 DEF SetDevice, ConfInv, FileInv, DeviceSet
  <2>5. QED
    BY <2>3, <2>4 DEF ConfInv
<1>3. CASE WriteTmp
  <2>1. at = "write" /\ UNCHANGED <<conf, asked, calls, short, read, before, origin, whole>>
    BY <1>3 DEF WriteTmp
  <2>2. CASE tmp' = e /\ at' = "replace" /\ UNCHANGED result
    <3>1. FileInv'
      BY <1>1, <2>1, <2>2 DEF ConfInv, FileInv, DeviceSet
    <3>2. CallInv'
      BY <2>1, <2>2 DEF ConfInv, CallInv, e
    <3>3. QED
      BY <3>1, <3>2 DEF ConfInv
  <2>3. CASE tmp' \in {<<>>, tmp} /\ at' = "idle" /\ result' = "failed"
    <3>1. tmp' \in File
      BY <1>0, <2>3 DEF ConfInv, FileInv
    <3>2. FileInv'
      BY <2>1, <2>3, <3>1 DEF ConfInv, FileInv, DeviceSet
    <3>3. CallInv'
      BY <2>1, <2>3 DEF ConfInv, CallInv
    <3>4. QED
      BY <3>2, <3>3 DEF ConfInv
  <2>4. QED
    BY <1>3, <2>2, <2>3 DEF WriteTmp, e
<1>4. CASE Replace
  <2>1. /\ at = "replace" /\ tmp' = <<>> /\ at' = "idle" /\ tmp = e
        /\ UNCHANGED <<asked, calls, short, read, before, origin>>
    BY <1>4 DEF Replace, ConfInv, CallInv, e
  <2>2. CASE conf' = tmp /\ result' = "ok" /\ whole' = (whole /\ read = conf)
    <3>1. conf' \in File /\ conf' = e
      BY <1>1, <2>1, <2>2
    <3>2. ASSUME whole' = TRUE
          PROVE  /\ Accepted(conf') /\ Rest(conf') = Rest(origin)
                 /\ MpdValue(conf', "device") = asked
                 /\ Cardinality(MpdLines(conf', "device")) <= 1
      <4>1. whole = TRUE /\ read = conf
        BY <1>0, <2>2, <3>2
      <4>2. Accepted(conf) /\ Rest(conf) = Rest(origin) /\ ScanConf(conf).block
        BY <2>1, <4>1 DEF ConfInv, FileInv, CallInv
      <4>3. conf' = Edited(conf, asked)
        BY <3>1, <4>1 DEF e
      <4>4. QED
        BY <1>0, <4>2, <4>3, EditKeeps
    <3>3. whole' \in BOOLEAN
      BY <2>2
    <3>4. FileInv'
      <4>1. whole' => Accepted(conf') /\ Rest(conf') = Rest(origin')
        BY <2>1, <3>2, <3>3
      <4>2. DeviceSet'
        BY <2>1, <3>2, <3>3 DEF DeviceSet
      <4>3. QED
        BY <1>0, <2>1, <3>1, <4>1, <4>2 DEF FileInv
    <3>5. CallInv'
      BY <2>1, <2>2, <3>3 DEF ConfInv, CallInv
    <3>6. QED
      BY <3>4, <3>5 DEF ConfInv
  <2>3. CASE UNCHANGED <<conf, whole>> /\ result' = "failed"
    <3>1. FileInv'
      BY <1>0, <2>1, <2>3 DEF ConfInv, FileInv, DeviceSet
    <3>2. CallInv'
      BY <2>1, <2>3 DEF ConfInv, CallInv
    <3>3. QED
      BY <3>1, <3>2 DEF ConfInv
  <2>4. QED
    BY <1>4, <2>2, <2>3 DEF Replace
<1>5. CASE Dies
  <2>1. /\ at # "idle" /\ at' = "idle"
        /\ UNCHANGED <<conf, asked, result, calls, short, read, before, origin, whole>>
    BY <1>5 DEF Dies
  <2>2. tmp' \in File
    <3>1. tmp' = tmp \/ tmp' = SubSeq(e, 1, 1)
      BY <1>5 DEF Dies, e
    <3>2. QED
      BY <1>1, <2>1, <3>1, PartIsFile DEF ConfInv, FileInv
  <2>3. FileInv'
    BY <2>1, <2>2 DEF ConfInv, FileInv, DeviceSet
  <2>4. CallInv'
    BY <2>1 DEF ConfInv, CallInv
  <2>5. QED
    BY <2>3, <2>4 DEF ConfInv
<1>6. CASE UNCHANGED vars
  BY <1>6 DEF vars, ConfInv, FileInv, CallInv, DeviceSet
<1>7. QED
  BY <1>2, <1>3, <1>4, <1>5, <1>6 DEF Next

\* The inductive invariant: until a call that had read a part of mpd.conf only has
\* succeeded, mpd.conf stays a file mpd accepts and its rest stays what it was.
THEOREM ConfStaysAccepted == Spec => []ConfInv
BY InitConf, StepConf, PTL DEF Spec

\* Every variable keeps its type, after short reads too; what is about to be renamed
\* is never empty.
THEOREM TypeCorrect == Spec => []TypeOK
<1>1. ConfInv => TypeOK
  <2> SUFFICES ASSUME ConfInv PROVE TypeOK
    OBVIOUS
  <2>1. at = "replace" => tmp # <<>>
    BY EditedFile DEF ConfInv, FileInv, CallInv
  <2>2. QED
    BY <2>1 DEF ConfInv, FileInv, CallInv, TypeOK, File
<1>2. QED
  BY <1>1, ConfStaysAccepted, PTL

\* After a successful call mpd finds the device asked for, once, in its first
\* audio_output block, or none when none was asked for, unless a part of the file has
\* taken its place.
THEOREM DeviceIsSet == Spec => []DeviceSet
<1>1. ConfInv => DeviceSet
  BY DEF ConfInv, FileInv
<1>2. QED
  BY <1>1, ConfStaysAccepted, PTL

\* No sequence of calls, failures and deaths changes anything else in the file, short
\* of a call that succeeds with a part of it.
THEOREM RestIsKept == Spec => []RestKept
<1>1. ConfInv => RestKept
  BY DEF ConfInv, FileInv, RestKept
<1>2. QED
  BY <1>1, ConfStaysAccepted, PTL

\* The scanner, which knows nothing of mpd's grammar but braces, quotes and
\* comments, reads what mpd reads, under the same condition.
THEOREM ScannerReadsWhatMpdReads == Spec => []ScannerAgrees
<1>1. ConfInv => ScannerAgrees
  <2> SUFFICES ASSUME ConfInv, whole, MpdBlock(conf) # 0
               PROVE  /\ ConfCurrent(conf) = MpdValue(conf, "device")
                      /\ ConfType(conf) = MpdValue(conf, "type")
    BY DEF ScannerAgrees
  <2>1. Accepted(conf)
    BY DEF ConfInv, FileInv
  <2>2. ~NoOutput(conf)
    BY NoOutputScan
  <2>3. PICK h, c : Block(conf, h, c)
    BY <2>1, <2>2, AcceptedCases
  <2>4. ConfCurrent(conf) = MpdValue(conf, "device")
    BY <2>3, ScanResult, ValuesAgree DEF ConfCurrent
  <2>5. ConfType(conf) = MpdValue(conf, "type")
    BY <2>3, ScanResult, ValuesAgree DEF ConfType
  <2>6. QED
    BY <2>4, <2>5
<1>2. QED
  BY <1>1, ConfStaysAccepted, PTL

\* The only way a step gives mpd.conf other contents than the call found is the
\* rename of the edited file, and that call reports success; between two calls
\* nothing happens to it.
LEMMA StepIsWhole ==
  ASSUME CallInv, [Next]_vars
  PROVE  \/ UNCHANGED <<conf, before, asked, read, result>>
         \/ conf' = before'
         \/ conf' = Edited(read', asked') /\ result' = "ok"
<1>1. CASE at = "idle"
  <2>1. ~WriteTmp /\ ~Replace /\ ~Dies
    BY <1>1 DEF WriteTmp, Replace, Dies
  <2>2. (\E arg \in Args : SetDevice(arg)) \/ UNCHANGED vars
    BY <2>1 DEF Next
  <2>3. QED
    BY <2>2 DEF SetDevice, vars
<1>2. CASE at # "idle"
  <2>1. conf = before
    BY <1>2 DEF CallInv
  <2>2. before' = before /\ asked' = asked /\ read' = read
    BY <1>2 DEF Next, SetDevice, WriteTmp, Replace, Dies, vars
  <2>3. CASE conf' # conf
    <3>1. Replace /\ conf' = tmp /\ result' = "ok"
      BY <1>2, <2>3 DEF Next, SetDevice, WriteTmp, Replace, Dies, vars
    <3>2. tmp = Edited(read, asked)
      BY <3>1 DEF Replace, CallInv
    <3>3. QED
      BY <2>2, <3>1, <3>2
  <2>4. QED
    BY <2>1, <2>2, <2>3
<1>3. QED
  BY <1>1, <1>2

\* Whatever write fails, and wherever the process dies, mpd.conf is the file the
\* call found or all of what it meant to write, and the old one after a failure.
THEOREM ReplaceIsWhole == Spec => []OldOrNew
<1>1. Init => OldOrNew
  BY DEF Init, OldOrNew
<1>2. ConfInv /\ OldOrNew /\ [Next]_vars => OldOrNew'
  BY StepIsWhole DEF ConfInv, OldOrNew
<1>3. QED
  BY <1>1, <1>2, ConfStaysAccepted, PTL DEF Spec

\* To whoever looks at the value mpd reads and at the rest of the file, a call is
\* one step that sets the first and leaves the second alone, or nothing, until one
\* succeeds after a short read; and one that fails does nothing even then.
THEOREM ImplementsSetting == Spec => SetterSpec
<1>1. Init => Setter!Init
  <2> SUFFICES ASSUME Init PROVE Setter!Init
    OBVIOUS
  <2>1. Accepted(conf)
    BY FilesAssumption DEF Init
  <2>2. Rest(conf) \in Seq(Seq(Token)) /\ MpdValue(conf, "device") \in Texts \cup {""}
    BY <2>1, AcceptedValue DEF File
  <2>3. at = "idle" /\ asked = "" /\ result = "none" /\ whole = TRUE
    BY DEF Init
  <2>4. (at # "idle") = FALSE
    BY <2>3
  <2>5. QED
    BY <2>2, <2>3, <2>4 DEF Setter!Init
<1>2. ConfInv /\ [Next]_vars => [Setter!Next]_Setter!vars
  <2> SUFFICES ASSUME ConfInv, [Next]_vars PROVE [Setter!Next]_Setter!vars
    OBVIOUS
  <2>1. ASSUME NEW arg \in Args, SetDevice(arg)
        PROVE  Setter!Next
    <3>1. at = "idle" /\ asked' = arg /\ conf' = conf /\ whole' = whole
      BY <2>1 DEF SetDevice
    <3>2. \/ (at' # "idle") = TRUE /\ result' = "none"
          \/ (at' # "idle") = FALSE /\ result' = "failed"
      BY <2>1 DEF SetDevice
    <3>3. Setter!Call(arg)
      BY <3>1, <3>2 DEF Setter!Call
    <3>4. QED
      BY <3>3 DEF Setter!Next
  <2>2. CASE WriteTmp
    <3>1. at = "write" /\ UNCHANGED <<conf, asked, whole>>
      BY <2>2 DEF WriteTmp
    <3>2. CASE at' = "replace" /\ UNCHANGED result
      <4>1. (at' # "idle") = (at # "idle")
        BY <3>1, <3>2
      <4>2. QED
        BY <3>1, <3>2, <4>1 DEF Setter!vars
    <3>3. CASE at' = "idle" /\ result' = "failed"
      <4>1. (at # "idle") /\ (at' # "idle") = FALSE
        BY <3>1, <3>3
      <4>2. Setter!Fail
        BY <3>1, <3>3, <4>1 DEF Setter!Fail
      <4>3. QED
        BY <4>2 DEF Setter!Next
    <3>4. QED
      BY <2>2, <3>2, <3>3 DEF WriteTmp
  <2>3. CASE Replace
    <3>1. at = "replace" /\ at' = "idle" /\ asked' = asked /\ tmp = Edited(read, asked)
      BY <2>3 DEF Replace, ConfInv, CallInv
    <3>2. (at # "idle") /\ (at' # "idle") = FALSE
      BY <3>1
    <3>3. CASE conf' = tmp /\ result' = "ok" /\ whole' = (whole /\ read = conf)
      <4>1. CASE whole = TRUE /\ read = conf
        <5>1. Accepted(conf) /\ ScanConf(conf).block /\ asked \in Args
          BY <3>1, <4>1 DEF ConfInv, FileInv, CallInv
        <5>2. MpdValue(conf', "device") = asked /\ Rest(conf') = Rest(conf)
          BY <3>1, <3>3, <4>1, <5>1, EditKeeps
        <5>3. whole' = whole
          BY <3>3, <4>1
        <5>4. Setter!Succeed
          BY <3>1, <3>2, <3>3, <4>1, <5>2, <5>3 DEF Setter!Succeed
        <5>5. QED
          BY <5>4 DEF Setter!Next
      <4>2. CASE ~(whole = TRUE /\ read = conf)
        <5>1. whole' = FALSE
          BY <3>3, <4>2 DEF ConfInv, CallInv
        <5>2. Setter!SucceedInPart
          BY <3>1, <3>2, <3>3, <5>1 DEF Setter!SucceedInPart
        <5>3. QED
          BY <5>2 DEF Setter!Next
      <4>3. QED
        BY <4>1, <4>2
    <3>4. CASE UNCHANGED <<conf, whole>> /\ result' = "failed"
      <4>1. Setter!Fail
        BY <3>1, <3>2, <3>4 DEF Setter!Fail
      <4>2. QED
        BY <4>1 DEF Setter!Next
    <3>5. QED
      BY <2>3, <3>3, <3>4 DEF Replace
  <2>4. CASE Dies
    <3>1. at # "idle" /\ at' = "idle" /\ UNCHANGED <<conf, asked, result, whole>>
      BY <2>4 DEF Dies
    <3>2. (at # "idle") /\ (at' # "idle") = FALSE
      BY <3>1
    <3>3. Setter!Die
      BY <3>1, <3>2 DEF Setter!Die
    <3>4. QED
      BY <3>3 DEF Setter!Next
  <2>5. CASE UNCHANGED vars
    <3>1. UNCHANGED <<conf, at, asked, result, whole>>
      BY <2>5 DEF vars
    <3>2. QED
      BY <3>1 DEF Setter!vars
  <2> QED
    BY <2>1, <2>2, <2>3, <2>4, <2>5 DEF Next
<1>3. QED
  BY <1>1, <1>2, ConfStaysAccepted, PTL DEF Spec, SetterSpec, Setter!Spec
=============================================================================
