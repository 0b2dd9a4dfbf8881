--------------------------- MODULE EncoderProofs ---------------------------
(* Theorems about FrameEncoder and EncodeFunction, for every block size,   *)
(* every Hash, every sequence of calls and every fault.                    *)
EXTENDS EncodeFunction, SequenceTheorems, WellFoundedInduction, TLAPS

(* A step of an encoder, whoever calls it and however often.               *)
AnyStep ==
  \/ \E n \in WriteSizes : fenc_write(n)
  \/ fenc_flush \/ fenc_close
  \/ \E p \in Ports : fenc_setoutport(p)
  \/ Running

AnyCaller == Init /\ [][AnyStep]_vars

LEMMA CallerIsAny == Next => AnyStep
  BY DEF Next, Caller, AnyStep

LEMMA EncodeIsAny == [EncodeNext]_encodeVars => [AnyStep]_vars
<1> SUFFICES ASSUME EncodeNext
             PROVE  AnyStep \/ UNCHANGED vars
  BY DEF encodeVars, vars
<1>1. CASE Calls
  BY <1>1 DEF Calls, Caller, AnyStep
<1>2. CASE WriteString
  BY <1>2 DEF WriteString, AnyStep
<1>3. CASE LeaveBlock
  BY <1>3 DEF LeaveBlock
<1>4. CASE Close
  BY <1>4 DEF Close, AnyStep
<1>5. CASE New
  BY <1>5 DEF New, AnyStep, Running
<1>6. CASE Step
  BY <1>6 DEF Step, AnyStep, Running
<1>7. CASE Raising
  BY <1>7 DEF Raising, AnyStep, Running
<1>8. CASE Push
  BY <1>8 DEF AnyStep, Running
<1> QED
  BY <1>1, <1>2, <1>3, <1>4, <1>5, <1>6, <1>7, <1>8 DEF EncodeNext

(* Both specifications are of an encoder with some caller.                 *)
LEMMA BothAreAny == Spec \/ EncodeSpec => AnyCaller
<1>1. EncodeInit => Init
  BY DEF EncodeInit
<1> QED
  BY <1>1, CallerIsAny, EncodeIsAny, PTL DEF Spec, EncodeSpec, AnyCaller

-----------------------------------------------------------------------------
(* A set of numbers that is not empty has a least one.                     *)
LEMMA LeastNumber ==
  ASSUME NEW T \in SUBSET Nat, T # {}
  PROVE  \E x \in T : \A y \in T : ~(y < x)
<1> DEFINE R == {ss \in Nat \X Nat : ss[1] < ss[2]}
<1>1. IsWellFoundedOn(R, Nat)
  BY NatLessThanWellFounded DEF OpToRel
<1>2. \A x, y \in Nat : y < x => <<y, x>> \in R
  OBVIOUS
<1> HIDE DEF R
<1>3. PICK x \in T : \A y \in T : ~(<<y, x>> \in R)
  BY <1>1, WFMin
<1> QED
  BY <1>2, <1>3

(* The arguments of new.                                                   *)
Prefs == [id : 0..4, linked : BOOLEAN, checksum : BOOLEAN]

LEMMA BlockSizesAre ==
  /\ \A b \in Range(BlockSizes) : b \in Nat \ {0} /\ b <= BlockSizes[4]
  /\ \A i \in 1..4 : BlockSizes[i] \in Range(BlockSizes)
  /\ BlockSizes[4] \in Nat
<1>1. /\ BlockSizes[1] < BlockSizes[2] /\ BlockSizes[2] < BlockSizes[3]
      /\ BlockSizes[3] < BlockSizes[4]
      /\ \A i \in 1..4 : BlockSizes[i] \in Nat \ {0}
      /\ Range(BlockSizes) = {BlockSizes[i] : i \in 1..4}
  BY EncoderAssumption DEF Range
<1> HIDE EncoderAssumption
<1> QED
  BY <1>1

(* Whatever it is asked for, the block size is the default or one of four. *)
LEMMA BlockSizeIsOne ==
  ASSUME NEW n
  PROVE  /\ fenc_init_args_blocksize(n) \in 0..4
         /\ n # 0 =>
              LET id == fenc_init_args_blocksize(n)
              IN  /\ id \in 1..4 /\ (id = 4 \/ n <= BlockSizes[id])
                  /\ \A i \in 1..4 : i = 4 \/ n <= BlockSizes[i] => id <= i
<1>1. CASE n = 0
  BY <1>1 DEF fenc_init_args_blocksize, LZ4F_default
<1>2. CASE n # 0
  <2> DEFINE S == {id \in 1..4 : id = 4 \/ n <= BlockSizes[id]}
  <2>1. S \in SUBSET Nat /\ 4 \in S /\ S \subseteq 1..4
    OBVIOUS
  <2>2. fenc_init_args_blocksize(n) = Min(S)
    BY <1>2 DEF fenc_init_args_blocksize
  <2>3. \A i \in 1..4 : i = 4 \/ n <= BlockSizes[i] => i \in S
    OBVIOUS
  <2>4. \A i \in S : i \in 1..4 /\ (i = 4 \/ n <= BlockSizes[i])
    OBVIOUS
  <2> HIDE DEF S
  <2>5. PICK x \in S : \A y \in S : ~(y < x)
    BY <2>1, LeastNumber
  <2>6. \E z \in S : \A y \in S : z =< y
    BY <2>1, <2>5
  <2>7. Min(S) \in S /\ \A y \in S : Min(S) <= y
    BY <2>6 DEF Min
  <2>8. Min(S) \in 0..4
    <3>1. S \subseteq 0..4
      BY <2>1
    <3> QED
      BY <2>7, <3>1
  <2> QED
    BY <1>2, <2>2, <2>3, <2>4, <2>7, <2>8
<1> QED
  BY <1>1, <1>2

LEMMA ArgsArePrefs ==
  ASSUME NEW h
  PROVE  fenc_init_args(h) = Raised \/ fenc_init_args(h) \in Prefs
  BY BlockSizeIsOne DEF fenc_init_args, Prefs, RTEST, LZ4F_default

-----------------------------------------------------------------------------
(* What belongs to what: the state of the context, of the object and of    *)
(* the call in progress.                                                   *)
Begun ==
  /\ pc = "new" => stage = "none"
  /\ pc \in {"idle", "update", "push"} => stage # "none"
  /\ stage = "none" => fed = 0 /\ out = <<>> /\ gaps = <<>> /\ pc # "push"
  /\ stage # "none" => prefs \in Prefs
  /\ held <= fed
  /\ stage = "ended" => held = 0
  /\ pc = "update" => op = "write"
  /\ pc = "push" /\ op \in {"flush", "close"} => held = 0

Inductive == TypeOK /\ Begun

(* The blocks of s hold the content from behind offset a to offset b, in   *)
(* order, none of them empty or larger than max.                           *)
Tiles(s, a, b, max) ==
  /\ a \in Nat /\ b \in Nat /\ a <= b
  /\ s \in Seq(Pieces)
  /\ \A i \in 1..Len(s) :
       /\ s[i].kind = "block" /\ s[i].from \in Nat /\ s[i].len \in 1..max
       /\ a < s[i].from /\ s[i].from + s[i].len <= b + 1
  /\ \A i, j \in 1..Len(s) : i < j => s[i].from + s[i].len <= s[j].from
  /\ \A n \in (a + 1)..b : \E i \in 1..Len(s) : n \in Content(s[i])
  /\ \A i \in 1..(Len(s) - 1) : s[i + 1].from = s[i].from + s[i].len
  /\ IF s = <<>> THEN a = b
     ELSE s[1].from = a + 1 /\ s[Len(s)].from + s[Len(s)].len = b + 1

(* The content in the pieces of s.                                         *)
Covers(s) == UNION {Content(s[i]) : i \in DOMAIN s}

Apart(s) ==
  \A i, j \in DOMAIN s : i # j => Content(s[i]) \cap Content(s[j]) = {}

(* Every content byte up to t is in a piece of s, at one place only.       *)
Once(s, t) == Covers(s) = 1..t /\ Apart(s)

Chained(s) == \A i \in 1..(Len(s) - 1) : Follows(s[i], s[i + 1])

Whole(s) ==
  /\ s \in Seq(Pieces) /\ s # <<>> /\ s[1] = Header
  /\ Chained(s)

(* The frame as it is when what is about to be pushed has been.            *)
Pushed == [i \in 1..Len(out) |-> out[i].piece]
AllPieces == Pushed \o (IF pc = "push" THEN workbuf ELSE <<>>)

(* A piece behind which the content goes on at offset e + 1.               *)
UpTo(p, e) ==
  \/ p = Header /\ e = 0
  \/ p.kind = "block" /\ p.from + p.len = e + 1

Unbroken ==
  gaps = <<>> =>
    /\ stage = "none" => AllPieces = <<>>
    /\ stage # "none" => Whole(AllPieces)
    /\ stage = "begun" => UpTo(AllPieces[Len(AllPieces)], fed - held)
    /\ stage = "ended" => AllPieces[Len(AllPieces)] = EndMark

(* What has become of a call of encode.                                    *)
Ending ==
  /\ encode \in {"object", "block", "string", "coding", "returning",
                 "raising", "returned", "raised", "lost"}
  /\ pc = "push" /\ op = "close" =>
       workbuf # <<>> /\ workbuf[Len(workbuf)] = EndMark
  /\ encode \in {"returning", "raising"} =>
       pc = "idle" \/ (pc = "push" /\ op = "close")
  /\ encode \in {"returned", "raised"} =>
       pc = "idle" /\ EndMark \in Range(gaps) \cup {out[i].piece : i \in DOMAIN out}
  /\ encode = "returned" =>
       held = 0 /\ out # <<>> /\ out[Len(out)].piece = EndMark

-----------------------------------------------------------------------------
(* Cutting what LZ4F holds into blocks.                                    *)
LEMMA Quotient ==
  ASSUME NEW n \in Nat, NEW d \in Nat \ {0}
  PROVE  /\ n \div d \in Nat /\ n % d \in Nat /\ n % d < d
         /\ n = (n \div d) * d + (n % d)
  OBVIOUS

LEMMA Multiples ==
  ASSUME NEW i \in Nat, NEW j \in Nat, NEW d \in Nat \ {0}, i < j
  PROVE  /\ i * d \in Nat /\ j * d \in Nat
         /\ i * d + d <= j * d /\ (j - i = 1 => j * d = i * d + d)
<1>1. j = i + 1 + (j - i - 1) /\ j - i - 1 \in Nat
  OBVIOUS
<1>2. \A k \in Nat : (i + 1 + k) * d = i * d + d + k * d /\ k * d \in Nat
  OBVIOUS
<1> QED
  BY <1>1, <1>2

(* q blocks of d bytes each, from behind offset a.                         *)
LEMMA EvenTiles ==
  ASSUME NEW a \in Nat, NEW q \in Nat, NEW d \in Nat \ {0}
  PROVE  Tiles([i \in 1..q |-> Block(a + (i - 1) * d + 1, d)],
               a, a + q * d, d)
<1> DEFINE s == [i \in 1..q |-> Block(a + (i - 1) * d + 1, d)]
<1>1. \A i \in 1..q : /\ i - 1 \in Nat /\ (i - 1) * d \in Nat
                      /\ i * d = (i - 1) * d + d
                      /\ (i - 1) * d + d <= q * d
  <2> TAKE i \in 1..q
  <2>1. i \in Nat /\ i - 1 \in Nat /\ i - 1 < i /\ i <= q
    OBVIOUS
  <2>2. (i - 1) * d \in Nat /\ i * d = (i - 1) * d + d
    BY <2>1, Multiples
  <2>3. i * d <= q * d
    BY <2>1, Multiples
  <2> QED
    BY <2>1, <2>2, <2>3
<1>2. q * d \in Nat
  OBVIOUS
<1>3. /\ Len(s) = q
      /\ \A i \in 1..q : /\ s[i] \in Pieces /\ s[i].kind = "block"
                          /\ s[i].from = a + (i - 1) * d + 1 /\ s[i].len = d
  BY <1>1 DEF Block, Pieces
<1>4. s \in Seq(Pieces)
  BY <1>3, IsASeq
<1> HIDE DEF s
<1>5. \A i \in 1..q : /\ s[i].from \in Nat /\ s[i].len \in 1..d
                      /\ a < s[i].from /\ s[i].from + s[i].len <= a + q * d + 1
  <2> TAKE i \in 1..q
  <2>1. /\ (i - 1) * d \in Nat /\ (i - 1) * d + d <= q * d
        /\ s[i].from = a + (i - 1) * d + 1 /\ s[i].len = d
    BY <1>1, <1>3
  <2> DEFINE x == (i - 1) * d
             y == q * d
  <2>2. x \in Nat /\ y \in Nat /\ x + d <= y /\ s[i].from = a + x + 1
    BY <1>2, <2>1
  <2> HIDE DEF x, y
  <2>3. a < s[i].from /\ s[i].from + s[i].len <= a + y + 1
        /\ s[i].from \in Nat /\ d \in 1..d
    BY <2>1, <2>2
  <2> QED
    BY <2>1, <2>3 DEF y
<1>6. ASSUME NEW i \in 1..q, NEW j \in 1..q, i < j
      PROVE  s[i].from + s[i].len <= s[j].from
  <2>1. i - 1 \in Nat /\ j - 1 \in Nat /\ i - 1 < j - 1
    BY <1>6
  <2>2. (i - 1) * d + d <= (j - 1) * d /\ (i - 1) * d \in Nat /\ (j - 1) * d \in Nat
    BY <2>1, Multiples
  <2> QED
    BY <1>3, <2>2
<1>7. ASSUME NEW n \in (a + 1)..(a + q * d)
      PROVE  \E i \in 1..q : n \in Content(s[i])
  <2> DEFINE m == n - a - 1
             k == m \div d
  <2>1. m \in Nat /\ n = a + 1 + m /\ m < q * d
    BY <1>2
  <2> HIDE DEF m
  <2>2. k \in Nat /\ k * d \in Nat /\ k * d <= m /\ m < k * d + d
    BY <2>1, Quotient
  <2> HIDE DEF k
  <2>3. k < q
    <3>1. k = q \/ q < k => q * d <= k * d
      BY <2>2, Multiples
    <3> QED
      BY <1>2, <2>1, <2>2, <3>1
  <2>4. k + 1 \in 1..q /\ (k + 1) - 1 = k
    BY <2>2, <2>3
  <2>5. s[k + 1].from = a + k * d + 1 /\ s[k + 1].len = d
    BY <1>3, <2>4
  <2>6. n \in Content(s[k + 1])
    BY <2>1, <2>2, <2>5 DEF Content
  <2> QED
    BY <2>4, <2>6
<1>8. ASSUME NEW i \in 1..(q - 1)
      PROVE  s[i + 1].from = s[i].from + s[i].len
  <2>1. i \in 1..q /\ i + 1 \in 1..q /\ (i + 1) - 1 = i
    OBVIOUS
  <2>2. i * d = (i - 1) * d + d /\ (i - 1) * d \in Nat
    BY <1>1, <2>1
  <2> QED
    BY <1>3, <2>1, <2>2
<1>9. IF s = <<>> THEN a = a + q * d
      ELSE s[1].from = a + 1 /\ s[Len(s)].from + s[Len(s)].len = a + q * d + 1
  <2>1. CASE q = 0
    BY <1>3, <1>4, <2>1, EmptySeq
  <2>2. CASE q # 0
    <3>1. 1 \in 1..q /\ q \in 1..q /\ s # <<>> /\ (1 - 1) * d = 0
      BY <1>3, <2>2
    <3> QED
      BY <1>1, <1>3, <3>1
  <2> QED
    BY <2>1, <2>2
<1>10. Tiles(s, a, a + q * d, d)
  <2> DEFINE b == a + q * d
  <2>1. b \in Nat /\ a <= b
    BY <1>2
  <2>2. \A i \in 1..(Len(s) - 1) : s[i + 1].from = s[i].from + s[i].len
    BY <1>3, <1>8
  <2> HIDE DEF b
  <2> QED
    BY <1>3, <1>4, <1>5, <1>6, <1>7, <1>9, <2>1, <2>2 DEF Tiles, b
<1> QED
  BY <1>10 DEF s

LEMMA SizeOfPrefs ==
  ASSUME NEW p \in Prefs
  PROVE  BlockSizes[IF p.id = 0 THEN 1 ELSE p.id] \in Range(BlockSizes)
<1>1. p.id \in 0..4
  BY DEF Prefs
<1>2. (IF p.id = 0 THEN 1 ELSE p.id) \in 1..4
  BY <1>1
<1> QED
  BY <1>2, BlockSizesAre

(* What is known of an encoder that has begun its frame.                   *)
LEMMA Known ==
  ASSUME Inductive, stage # "none"
  PROVE  /\ BlockSize \in Nat \ {0} /\ prefs \in Prefs
         /\ fed \in Nat /\ held \in Nat /\ held < BlockSize /\ held <= fed
         /\ fed - held \in Nat
<1>1. prefs \in Prefs
  BY DEF Inductive, Begun
<1>2. BlockSize \in Range(BlockSizes)
  BY <1>1, SizeOfPrefs DEF BlockSize, LZ4F_default
<1> QED
  BY <1>1, <1>2, BlockSizesAre DEF Inductive, TypeOK, Begun

(* The full blocks of what is held and n bytes more, and what remains.     *)
LEMMA FullTiles ==
  ASSUME Inductive, stage # "none", NEW n \in Nat
  PROVE  /\ (held + n) % BlockSize \in Nat
         /\ (held + n) % BlockSize < BlockSize
         /\ (held + n) % BlockSize <= fed + n
         /\ Tiles(FullBlocks(n), fed - held,
                  fed + n - ((held + n) % BlockSize), BlockSize)
<1> DEFINE d == BlockSize
           q == (held + n) \div d
           r == (held + n) % d
<1>1. /\ d \in Nat \ {0} /\ fed \in Nat /\ held \in Nat /\ held <= fed
      /\ fed - held \in Nat /\ held + n \in Nat
  BY Known
<1>2. FullBlocks(n) = [i \in 1..q |-> Block(fed - held + (i - 1) * d + 1, d)]
  BY DEF FullBlocks
<1> HIDE DEF d
<1>3. q \in Nat /\ r \in Nat /\ r < d /\ held + n = q * d + r /\ q * d \in Nat
  BY <1>1, Quotient
<1> HIDE DEF q, r
<1>4. r <= fed + n /\ fed - held + q * d = fed + n - r
  BY <1>1, <1>3
<1>5. Tiles(FullBlocks(n), fed - held, fed + n - r, d)
  BY <1>1, <1>2, <1>3, <1>4, EvenTiles
<1> QED
  BY <1>3, <1>4, <1>5 DEF r, d

LEMMA TailTiles ==
  ASSUME Inductive, stage # "none"
  PROVE  Tiles(TailBlock, fed - held, fed, BlockSize)
<1> DEFINE a == fed - held
           max == BlockSize
           p == Block(a + 1, held)
<1>1. /\ fed \in Nat /\ held \in Nat /\ held < max /\ a \in Nat /\ max \in Nat
      /\ fed = a + held
  BY Known
<1>2. /\ p \in Pieces /\ p.kind = "block" /\ p.from = a + 1 /\ p.len = held
  BY <1>1 DEF Block, Pieces
<1>3. TailBlock = IF held = 0 THEN <<>> ELSE <<p>>
  BY DEF TailBlock
<1> HIDE DEF a, max, p
<1>4. CASE held = 0
  <2>1. TailBlock = <<>> /\ <<>> \in Seq(Pieces) /\ Len(<<>>) = 0
    BY <1>3, <1>4, EmptySeq
  <2>2. Tiles(<<>>, a, fed, max)
    BY <1>1, <1>4, <2>1 DEF Tiles
  <2> QED
    BY <2>1, <2>2 DEF a, max
<1>5. CASE held # 0
  <2>1. TailBlock = <<p>> /\ <<p>> \in Seq(Pieces) /\ Len(<<p>>) = 1
        /\ <<p>>[1] = p /\ <<p>> # <<>>
    BY <1>2, <1>3, <1>5
  <2>2. \A n \in (a + 1)..fed : n \in Content(p)
    BY <1>1, <1>2 DEF Content
  <2>3. /\ p.from \in Nat /\ p.len \in 1..max /\ a < p.from
        /\ p.from + p.len <= fed + 1 /\ p.from + p.len = fed + 1
        /\ a <= fed
    BY <1>1, <1>2, <1>5
  <2> DEFINE s == <<p>>
  <2> HIDE DEF s
  <2>4. s \in Seq(Pieces) /\ Len(s) = 1 /\ s[1] = p /\ s # <<>>
    BY <2>1 DEF s
  <2>5. Tiles(s, a, fed, max)
    BY <1>1, <1>2, <2>2, <2>3, <2>4 DEF Tiles
  <2> QED
    BY <2>1, <2>5 DEF a, max, s
<1> QED
  BY <1>4, <1>5

-----------------------------------------------------------------------------
(* The pieces a step adds.                                                 *)
LEMMA EndPieces ==
  /\ Header \in Pieces /\ EndMark \in Pieces /\ Header # EndMark
  /\ Header.kind = "header" /\ EndMark.kind = "end"
  /\ Content(Header) = {} /\ Content(EndMark) = {}
<1>1. 0..(0 + 0 - 1) = {}
  OBVIOUS
<1> QED
  BY <1>1 DEF Header, EndMark, Pieces, Content

LEMMA OnceEmpty == Once(<<>>, 0)
<1>1. 1..0 = {} /\ DOMAIN <<>> = {}
  OBVIOUS
<1> QED
  BY <1>1 DEF Once, Covers, Apart

(* Pieces behind others.                                                   *)
LEMMA Together ==
  ASSUME NEW s \in Seq(Pieces), NEW t \in Seq(Pieces)
  PROVE  /\ Covers(s \o t) = Covers(s) \cup Covers(t)
         /\ Apart(s \o t) <=> Apart(s) /\ Apart(t) /\ Covers(s) \cap Covers(t) = {}
<1> DEFINE u == s \o t
           m == Len(s)
           n == Len(t)
<1>1. /\ m \in Nat /\ n \in Nat /\ DOMAIN s = 1..m /\ DOMAIN t = 1..n
      /\ u \in Seq(Pieces) /\ DOMAIN u = 1..(m + n)
      /\ \A i \in 1..(m + n) : u[i] = IF i <= m THEN s[i] ELSE t[i - m]
  <2>1. /\ u \in Seq(Pieces) /\ Len(u) = m + n
        /\ \A i \in 1..(m + n) : u[i] = IF i <= m THEN s[i] ELSE t[i - m]
    BY ConcatProperties
  <2> HIDE DEF u
  <2> QED
    BY <2>1, LenProperties
<1> HIDE DEF u, m, n
<1>2. \A i \in 1..m : i \in 1..(m + n) /\ u[i] = s[i]
  BY <1>1
<1>3. \A j \in 1..n : m + j \in 1..(m + n) /\ u[m + j] = t[j]
  <2> TAKE j \in 1..n
  <2>1. m + j \in 1..(m + n) /\ ~(m + j <= m) /\ (m + j) - m = j
    BY <1>1
  <2> QED
    BY <1>1, <2>1
<1>4. \A k \in 1..(m + n) : k \in 1..m \/ \E j \in 1..n : k = m + j
  <2> TAKE k \in 1..(m + n)
  <2>1. CASE k <= m
    BY <1>1, <2>1
  <2>2. CASE ~(k <= m)
    <3>1. k - m \in 1..n /\ k = m + (k - m)
      BY <1>1, <2>2
    <3> QED
      BY <3>1
  <2> QED
    BY <2>1, <2>2
<1>5. Covers(u) = Covers(s) \cup Covers(t)
  <2>1. ASSUME NEW x \in Covers(u) PROVE x \in Covers(s) \cup Covers(t)
    <3>1. PICK k \in 1..(m + n) : x \in Content(u[k])
      BY <1>1 DEF Covers
    <3>2. CASE k \in 1..m
      BY <1>1, <1>2, <3>1, <3>2 DEF Covers
    <3>3. CASE \E j \in 1..n : k = m + j
      BY <1>1, <1>3, <3>1, <3>3 DEF Covers
    <3> QED
      BY <1>4, <3>2, <3>3
  <2>2. ASSUME NEW x \in Covers(s) PROVE x \in Covers(u)
    BY <1>1, <1>2 DEF Covers
  <2>3. ASSUME NEW x \in Covers(t) PROVE x \in Covers(u)
    BY <1>1, <1>3 DEF Covers
  <2> QED
    BY <2>1, <2>2, <2>3
<1>6. ASSUME Apart(u) PROVE Apart(s) /\ Apart(t) /\ Covers(s) \cap Covers(t) = {}
  <2>1. Apart(s)
    BY <1>1, <1>2, <1>6 DEF Apart
  <2>2. ASSUME NEW i \in 1..n, NEW j \in 1..n, i # j
        PROVE  Content(t[i]) \cap Content(t[j]) = {}
    <3>1. m + i # m + j
      BY <1>1, <2>2
    <3> QED
      BY <1>1, <1>3, <1>6, <3>1 DEF Apart
  <2>3. ASSUME NEW i \in 1..m, NEW j \in 1..n
        PROVE  Content(s[i]) \cap Content(t[j]) = {}
    <3>1. i # m + j
      BY <1>1
    <3> QED
      BY <1>1, <1>2, <1>3, <1>6, <3>1 DEF Apart
  <2>4. Covers(s) \cap Covers(t) = {}
    BY <1>1, <2>3 DEF Covers
  <2> QED
    BY <1>1, <2>1, <2>2, <2>4 DEF Apart
<1>7. ASSUME Apart(s), Apart(t), Covers(s) \cap Covers(t) = {} PROVE Apart(u)
  <2>1. ASSUME NEW i \in 1..m, NEW j \in 1..n
        PROVE  Content(s[i]) \cap Content(t[j]) = {}
    BY <1>1, <1>7 DEF Covers
  <2> SUFFICES ASSUME NEW k \in 1..(m + n), NEW l \in 1..(m + n), k # l
               PROVE  Content(u[k]) \cap Content(u[l]) = {}
    BY <1>1 DEF Apart
  <2>2. CASE k \in 1..m /\ l \in 1..m
    BY <1>1, <1>2, <1>7, <2>2 DEF Apart
  <2>3. CASE k \in 1..m /\ \E j \in 1..n : l = m + j
    BY <1>2, <1>3, <2>1, <2>3
  <2>4. CASE (\E i \in 1..n : k = m + i) /\ l \in 1..m
    BY <1>2, <1>3, <2>1, <2>4
  <2>5. CASE (\E i \in 1..n : k = m + i) /\ (\E j \in 1..n : l = m + j)
    BY <1>1, <1>3, <1>7, <2>5 DEF Apart
  <2> QED
    BY <1>4, <2>2, <2>3, <2>4, <2>5
<1> QED
  BY <1>5, <1>6, <1>7 DEF u

(* It does not matter which of two runs of pieces comes first.             *)
LEMMA OnceSwapped ==
  ASSUME NEW p \in Seq(Pieces), NEW g \in Seq(Pieces), NEW w \in Seq(Pieces),
         NEW t, Once((p \o g) \o w, t)
  PROVE  Once((p \o w) \o g, t)
<1> DEFINE a == p \o g
           b == p \o w
<1>1. a \in Seq(Pieces) /\ b \in Seq(Pieces)
  BY ConcatProperties
<1>2. /\ Covers(a) = Covers(p) \cup Covers(g)
      /\ Apart(a) <=> Apart(p) /\ Apart(g) /\ Covers(p) \cap Covers(g) = {}
  BY Together
<1>3. /\ Covers(b) = Covers(p) \cup Covers(w)
      /\ Apart(b) <=> Apart(p) /\ Apart(w) /\ Covers(p) \cap Covers(w) = {}
  BY Together
<1>4. Once(a \o w, t)
  OBVIOUS
<1> HIDE DEF a, b
<1>5. /\ Covers(a \o w) = Covers(a) \cup Covers(w)
      /\ Apart(a \o w) <=> Apart(a) /\ Apart(w) /\ Covers(a) \cap Covers(w) = {}
  BY <1>1, Together
<1>6. /\ Covers(b \o g) = Covers(b) \cup Covers(g)
      /\ Apart(b \o g) <=> Apart(b) /\ Apart(g) /\ Covers(b) \cap Covers(g) = {}
  BY <1>1, Together
<1>7. Covers(b \o g) = 1..t
  BY <1>2, <1>3, <1>4, <1>5, <1>6 DEF Once
<1>8. Apart(b \o g)
  BY <1>2, <1>3, <1>4, <1>5, <1>6 DEF Once
<1> QED
  BY <1>7, <1>8 DEF Once, b

(* A piece without content may come anywhere, and any number of times.     *)
LEMMA OnceMarked ==
  ASSUME NEW s \in Seq(Pieces), NEW t, NEW p \in Pieces, Once(s, t), Content(p) = {}
  PROVE  Once(s \o <<p>>, t)
<1> DEFINE q == <<p>>
<1>1. q \in Seq(Pieces) /\ DOMAIN q = {1} /\ q[1] = p
  OBVIOUS
<1> HIDE DEF q
<1>2. Covers(q) = {} /\ Apart(q)
  BY <1>1 DEF Covers, Apart
<1>3. /\ Covers(s \o q) = Covers(s) \cup Covers(q)
      /\ Apart(s \o q) <=> Apart(s) /\ Apart(q) /\ Covers(s) \cap Covers(q) = {}
  BY <1>1, Together
<1> QED
  BY <1>2, <1>3 DEF Once, q

(* Blocks that begin where the others end.                                 *)
LEMMA OnceGrows ==
  ASSUME NEW c \in Seq(Pieces), NEW s, NEW t, NEW u, NEW max \in Nat,
         Once(c, t), Tiles(s, t, u, max)
  PROVE  Once(c \o s, u)
<1>1. s \in Seq(Pieces) /\ DOMAIN s = 1..Len(s)
  BY LenProperties DEF Tiles
<1>2. t \in Nat /\ u \in Nat /\ t <= u /\ Len(s) \in Nat
  BY LenProperties DEF Tiles
<1>3. \A i \in 1..Len(s) : \A n \in Content(s[i]) : n \in (t + 1)..u
  BY <1>2 DEF Tiles, Content
<1>4. ASSUME NEW i \in 1..Len(s), NEW j \in 1..Len(s), i < j
      PROVE  Content(s[i]) \cap Content(s[j]) = {}
  <2>1. /\ s[i].from \in Nat /\ s[i].len \in Nat /\ s[j].from \in Nat
        /\ s[j].len \in Nat /\ s[i].from + s[i].len <= s[j].from
    BY <1>4 DEF Tiles
  <2>2. \A n \in Int : ~(n <= s[i].from + s[i].len - 1 /\ s[j].from <= n)
    BY <2>1
  <2> QED
    BY <2>1, <2>2 DEF Content
<1>5. Apart(s)
  <2> SUFFICES ASSUME NEW i \in 1..Len(s), NEW j \in 1..Len(s), i # j
               PROVE  Content(s[i]) \cap Content(s[j]) = {}
    BY <1>1 DEF Apart
  <2>1. i < j \/ j < i
    BY <1>2
  <2>2. CASE i < j
    BY <1>4, <2>2
  <2>3. CASE j < i
    BY <1>4, <2>3
  <2> QED
    BY <2>1, <2>2, <2>3
<1>6. Covers(s) = (t + 1)..u
  <2>1. \A n \in (t + 1)..u : n \in Covers(s)
    BY <1>1 DEF Tiles, Covers
  <2>2. \A n \in Covers(s) : n \in (t + 1)..u
    BY <1>1, <1>3 DEF Covers
  <2> QED
    BY <2>1, <2>2
<1>7. Covers(c) = 1..t /\ Apart(c)
  BY DEF Once
<1>8. (1..t) \cup ((t + 1)..u) = 1..u /\ (1..t) \cap ((t + 1)..u) = {}
  BY <1>2
<1>9. /\ Covers(c \o s) = Covers(c) \cup Covers(s)
      /\ Apart(c \o s) <=> Apart(c) /\ Apart(s) /\ Covers(c) \cap Covers(s) = {}
  BY <1>1, Together
<1> QED
  BY <1>5, <1>6, <1>7, <1>8, <1>9 DEF Once

-----------------------------------------------------------------------------
(* Every step keeps the types, and what belongs together.                  *)
LEMMA InductiveInit == Init => Inductive
<1> SUFFICES ASSUME Init PROVE Inductive
  OBVIOUS
<1>1. TypeOK
  <2>1. /\ workbuf \in Seq(Pieces) /\ gaps \in Seq(Pieces)
        /\ out \in Seq([port : Ports, piece : Pieces])
    BY EmptySeq DEF Init
  <2>2. pushed \in [Ports -> Nat]
    BY DEF Init
  <2>3. held < (IF stage = "none" THEN 1 ELSE BlockSize)
    BY DEF Init
  <2> QED
    BY <2>1, <2>2, <2>3 DEF Init, TypeOK
<1>2. Begun
  BY DEF Init, Begun
<1> QED
  BY <1>1, <1>2 DEF Inductive

(* The bytes LZ4F takes in at once.                                        *)
LEMMA ChunkSize ==
  ASSUME Inductive
  PROVE  Chunk \in Nat /\ Chunk <= rest /\ (rest > 0 => Chunk > 0)
<1>1. rest \in Nat /\ BlockSizes[4] \in Nat \ {0}
  BY EncoderAssumption DEF Inductive, TypeOK
<1> QED
  BY <1>1 DEF Chunk, ChunkMax

(* What taking in a chunk does to the library's counts.                    *)
LEMMA TakenIn ==
  ASSUME Inductive, stage # "none", fed' = fed + Chunk,
         held' = (held + Chunk) % BlockSize
  PROVE  /\ fed' \in Nat /\ held' \in Nat /\ held' < BlockSize /\ held' <= fed'
         /\ Tiles(FullBlocks(Chunk), fed - held, fed' - held', BlockSize)
         /\ FullBlocks(Chunk) \in Seq(Pieces)
<1>1. Chunk \in Nat /\ fed \in Nat
  BY ChunkSize, Known
<1>2. Tiles(FullBlocks(Chunk), fed - held, fed' - held', BlockSize)
  BY <1>1, FullTiles
<1>3. fed' \in Nat /\ held' \in Nat /\ held' < BlockSize /\ held' <= fed'
  BY <1>1, FullTiles
<1> QED
  BY <1>2, <1>3 DEF Tiles

LEMMA InductiveUpdate ==
  ASSUME Inductive, compressUpdate \/ UpdateInterrupted
  PROVE  Inductive'
<1>1. /\ stage = "begun" /\ stage' = stage /\ prefs' = prefs /\ opts' = opts
      /\ fed' = fed + Chunk /\ held' = (held + Chunk) % BlockSize
      /\ outport' = outport /\ out' = out /\ pushed' = pushed
      /\ pc = "update"
  BY DEF compressUpdate, UpdateInterrupted, frame
<1>2. /\ fed' \in Nat /\ held' \in Nat /\ held' < BlockSize /\ held' <= fed'
      /\ FullBlocks(Chunk) \in Seq(Pieces)
  BY <1>1, TakenIn
<1>3. BlockSize' = BlockSize /\ prefs \in Prefs
  BY <1>1, Known DEF BlockSize
<1>4. /\ workbuf' \in Seq(Pieces) /\ gaps' \in Seq(Pieces) /\ rest' \in Nat
      /\ pc' \in {"push", "idle"} /\ op' \in {"none", "write"}
      /\ pc' = "push" => op' = "write"
  <2>1. rest \in Nat /\ Chunk \in Nat /\ Chunk <= rest /\ op = "write"
    BY <1>1, ChunkSize DEF Inductive, TypeOK, Begun
  <2>2. CASE compressUpdate
    BY <1>2, <2>1, <2>2 DEF compressUpdate, Inductive, TypeOK
  <2>3. CASE UpdateInterrupted
    <3>1. gaps \in Seq(Pieces) /\ gaps' = gaps \o FullBlocks(Chunk)
      BY <2>3 DEF UpdateInterrupted, Inductive, TypeOK
    <3>2. gaps' \in Seq(Pieces)
      BY <1>2, <3>1, ConcatProperties
    <3> QED
      BY <2>1, <2>3, <3>2 DEF UpdateInterrupted, Inductive, TypeOK
  <2> QED
    BY <2>2, <2>3
<1>5. TypeOK'
  BY <1>1, <1>2, <1>3, <1>4 DEF Inductive, TypeOK
<1>6. Begun'
  BY <1>1, <1>2, <1>3, <1>4 DEF Begun
<1> QED
  BY <1>5, <1>6 DEF Inductive

LEMMA InductiveEnd ==
  ASSUME Inductive, fenc_flush \/ fenc_close
  PROVE  Inductive'
<1>1. /\ stage # "none" /\ prefs' = prefs /\ opts' = opts /\ fed' = fed
      /\ held' = 0 /\ outport' = outport /\ out' = out /\ pushed' = pushed
      /\ gaps' = gaps /\ rest' = rest /\ pc' = "push" /\ op' \in {"flush", "close"}
      /\ stage' \in {stage, "ended"}
  BY DEF fenc_flush, fenc_close, frame, Inductive, Begun
<1>2. TailBlock \in Seq(Pieces)
  BY <1>1, TailTiles DEF Tiles
<1>3. workbuf' \in Seq(Pieces)
  <2>1. Append(TailBlock, EndMark) \in Seq(Pieces)
    BY <1>2, EndPieces, AppendProperties
  <2> QED
    BY <1>2, <2>1 DEF fenc_flush, fenc_close
<1>4. BlockSize' = BlockSize /\ BlockSize \in Nat \ {0} /\ prefs \in Prefs /\ fed \in Nat
  BY <1>1, Known DEF BlockSize
<1>5. TypeOK'
  BY <1>1, <1>3, <1>4 DEF Inductive, TypeOK
<1>6. Begun'
  BY <1>1, <1>4 DEF Inductive, TypeOK, Begun
<1> QED
  BY <1>5, <1>6 DEF Inductive

LEMMA InductivePush ==
  ASSUME Inductive, Push \/ PushRaises
  PROVE  Inductive'
<1>1. /\ stage' = stage /\ prefs' = prefs /\ opts' = opts /\ fed' = fed
      /\ held' = held /\ outport' = outport /\ workbuf' = workbuf
      /\ pc = "push" /\ BlockSize' = BlockSize
  BY DEF Push, PushRaises, frame, lib, BlockSize
<1>2. /\ pc' \in {"idle", "update", "failed"} /\ op' \in {"none", "write"}
      /\ pc' = "update" => op' = "write"
      /\ rest' \in Nat /\ pc' # "push"
  BY DEF Push, PushRaises, Inductive, TypeOK
<1>3. gaps' \in Seq(Pieces)
  <2>1. gaps \in Seq(Pieces) /\ workbuf \in Seq(Pieces)
    BY DEF Inductive, TypeOK
  <2>2. gaps \o workbuf \in Seq(Pieces)
    BY <2>1, ConcatProperties
  <2> QED
    BY <2>1, <2>2 DEF Push, PushRaises
<1>4. out' \in Seq([port : Ports, piece : Pieces]) /\ pushed' \in [Ports -> Nat]
  <2>1. CASE PushRaises
    BY <2>1 DEF PushRaises, Inductive, TypeOK
  <2>2. CASE Push
    <3> DEFINE w == [i \in DOMAIN workbuf |->
                       [port |-> outport, piece |-> workbuf[i]]]
               T == [port : Ports, piece : Pieces]
    <3>1. w \in Seq(T)
      <4>1. /\ outport \in Ports /\ Len(workbuf) \in Nat
            /\ DOMAIN workbuf = 1..Len(workbuf)
            /\ \A i \in 1..Len(workbuf) : workbuf[i] \in Pieces
        BY DEF Inductive, TypeOK
      <4> QED
        BY <4>1, IsASeq
    <3>2. out \in Seq(T) /\ out' = out \o w
      BY <2>2 DEF Push, Inductive, TypeOK
    <3>3. pushed' \in [Ports -> Nat]
      BY <2>2 DEF Push, Inductive, TypeOK
    <3> HIDE DEF w, T
    <3>4. out' \in Seq(T)
      BY <3>1, <3>2, ConcatProperties
    <3> QED
      BY <3>3, <3>4 DEF T
  <2> QED
    BY <2>1, <2>2
<1>5. TypeOK'
  BY <1>1, <1>2, <1>3, <1>4 DEF Inductive, TypeOK
<1>6. stage # "none"
  BY <1>1 DEF Inductive, Begun
<1>7. Begun'
  BY <1>1, <1>2, <1>6 DEF Inductive, Begun
<1> QED
  BY <1>5, <1>7 DEF Inductive

LEMMA InductiveNext == Inductive /\ [AnyStep]_vars => Inductive'
<1> SUFFICES ASSUME Inductive, [AnyStep]_vars
             PROVE  Inductive'
  OBVIOUS
<1> USE DEF Inductive
<1>1. CASE fenc_init
  <2>1. /\ pc = "new" /\ stage = "none" /\ fed = 0 /\ held = 0
        /\ prefs' = Raised \/ prefs' \in Prefs
    BY <1>1, ArgsArePrefs DEF fenc_init, Begun, TypeOK
  <2>2. opts' = <<>> /\ fed' = 0 /\ held' = 0
        /\ UNCHANGED <<outport, rest, out, pushed, gaps>>
    BY <1>1, <2>1 DEF fenc_init
  <2>3. CASE prefs' = Raised
    <3>1. pc' = "failed" /\ UNCHANGED <<stage, workbuf, op>>
      BY <1>1, <2>3 DEF fenc_init
    <3> QED
      BY <2>1, <2>2, <2>3, <3>1 DEF TypeOK, Begun, BlockSize
  <2>4. CASE prefs' # Raised
    <3>1. stage' = "begun" /\ workbuf' = <<Header>> /\ pc' = "push" /\ op' = "new"
      BY <1>1, <2>4 DEF fenc_init
    <3>2. workbuf' \in Seq(Pieces)
      BY <3>1, EndPieces
    <3>3. prefs' \in Prefs /\ BlockSize' \in Nat \ {0}
      <4>1. PICK p \in Prefs : prefs' = p
        BY <2>1, <2>4
      <4>2. BlockSize' \in Range(BlockSizes)
        BY <4>1, SizeOfPrefs DEF BlockSize, LZ4F_default
      <4> QED
        BY <4>1, <4>2, BlockSizesAre
    <3> QED
      BY <2>1, <2>2, <3>1, <3>2, <3>3 DEF TypeOK, Begun, Prefs
  <2> QED
    BY <2>3, <2>4
<1>2. ASSUME NEW n \in WriteSizes, fenc_write(n)
      PROVE  Inductive'
  <2>1. n \in Nat
    BY EncoderAssumption
  <2> QED
    BY <1>2, <2>1 DEF fenc_write, TypeOK, Begun, frame, lib, BlockSize
<1>3. CASE UpdateRefused \/ UpdateDone
  BY <1>3 DEF UpdateRefused, UpdateDone, TypeOK, Begun, frame, lib, BlockSize
<1>4. ASSUME NEW p \in Ports, fenc_setoutport(p)
      PROVE  Inductive'
  BY <1>4 DEF fenc_setoutport, TypeOK, Begun, frame, lib, BlockSize
<1>5. CASE UNCHANGED vars
  BY <1>5 DEF vars, TypeOK, Begun, BlockSize
<1> QED
  BY <1>1, <1>2, <1>3, <1>4, <1>5, InductiveUpdate, InductiveEnd,
     InductivePush DEF AnyStep, Running

LEMMA InductiveInvariant == AnyCaller => []Inductive
  BY InductiveInit, InductiveNext, PTL DEF AnyCaller

(* Every variable keeps its type, whoever calls the encoder, and in encode. *)
THEOREM EncoderTypes == Spec \/ EncodeSpec => []TypeOK
<1>1. Inductive => TypeOK
  BY DEF Inductive
<1> QED
  BY <1>1, InductiveInvariant, BothAreAny, PTL

-----------------------------------------------------------------------------
(* What was pushed, piece by piece.                                        *)
PiecesOf(o) == [i \in 1..Len(o) |-> o[i].piece]

LEMMA PiecesAre ==
  ASSUME NEW o \in Seq([port : Ports, piece : Pieces])
  PROVE  /\ PiecesOf(o) \in Seq(Pieces) /\ Len(PiecesOf(o)) = Len(o)
         /\ Len(o) \in Nat
         /\ \A i \in 1..Len(o) : PiecesOf(o)[i] = o[i].piece
         /\ Range(PiecesOf(o)) = {o[i].piece : i \in DOMAIN o}
<1>1. Len(o) \in Nat /\ \A i \in 1..Len(o) : o[i].piece \in Pieces
  <2>1. \A i \in 1..Len(o) : o[i] \in [port : Ports, piece : Pieces]
    BY ElementOfSeq
  <2> QED
    BY <2>1, LenProperties
<1>2. PiecesOf(o) \in Seq(Pieces) /\ Len(PiecesOf(o)) = Len(o)
      /\ \A i \in 1..Len(o) : PiecesOf(o)[i] = o[i].piece
  BY <1>1, IsASeq DEF PiecesOf
<1>3. DOMAIN o = 1..Len(o) /\ DOMAIN PiecesOf(o) = 1..Len(o)
  BY LenProperties DEF PiecesOf
<1> QED
  BY <1>1, <1>2, <1>3 DEF Range

LEMMA PushedPieces ==
  ASSUME Inductive
  PROVE  /\ Range(Pushed) = {out[i].piece : i \in DOMAIN out}
         /\ Pushed \in Seq(Pieces) /\ Len(Pushed) = Len(out) /\ Len(out) \in Nat
         /\ \A i \in 1..Len(out) : Pushed[i] = out[i].piece
         /\ workbuf \in Seq(Pieces)
         /\ pc = "push" => AllPieces = Pushed \o workbuf
         /\ pc # "push" => AllPieces = Pushed
<1>1. out \in Seq([port : Ports, piece : Pieces]) /\ workbuf \in Seq(Pieces)
  BY DEF Inductive, TypeOK
<1>2. Pushed = PiecesOf(out)
  BY DEF Pushed, PiecesOf
<1>3. /\ Range(Pushed) = {out[i].piece : i \in DOMAIN out}
      /\ Pushed \in Seq(Pieces) /\ Len(Pushed) = Len(out) /\ Len(out) \in Nat
      /\ \A i \in 1..Len(out) : Pushed[i] = out[i].piece
  BY <1>1, <1>2, PiecesAre
<1>4. Pushed \o <<>> = Pushed
  BY <1>3, ConcatEmptySeq
<1> QED
  BY <1>1, <1>3, <1>4 DEF AllPieces

LEMMA PushedGrows ==
  ASSUME Inductive, Push
  PROVE  Pushed' = Pushed \o workbuf
<1> DEFINE w == [i \in DOMAIN workbuf |->
                   [port |-> outport, piece |-> workbuf[i]]]
           T == [port : Ports, piece : Pieces]
<1>1. /\ out \in Seq(T) /\ workbuf \in Seq(Pieces) /\ outport \in Ports
      /\ out' = out \o w
  BY DEF Push, Inductive, TypeOK
<1>2. /\ w \in Seq(T) /\ Len(w) = Len(workbuf) /\ Len(workbuf) \in Nat
      /\ \A i \in 1..Len(workbuf) : w[i].piece = workbuf[i]
  <2>1. /\ Len(workbuf) \in Nat /\ DOMAIN workbuf = 1..Len(workbuf)
        /\ \A i \in 1..Len(workbuf) : workbuf[i] \in Pieces
    BY <1>1
  <2> QED
    BY <1>1, <2>1, IsASeq
<1> HIDE DEF w, T
<1>3. Len(out') = Len(out) + Len(workbuf) /\ Len(out) \in Nat
      /\ \A i \in 1..(Len(out) + Len(workbuf)) :
           out'[i] = IF i <= Len(out) THEN out[i] ELSE w[i - Len(out)]
  <2>1. Len(out \o w) = Len(out) + Len(w)
        /\ \A i \in 1..(Len(out) + Len(w)) :
             (out \o w)[i] = IF i <= Len(out) THEN out[i] ELSE w[i - Len(out)]
    BY <1>1, <1>2, ConcatProperties
  <2> QED
    BY <1>1, <1>2, <2>1, LenProperties
<1>4. /\ Pushed \in Seq(Pieces) /\ Len(Pushed) = Len(out)
      /\ \A i \in 1..Len(out) : Pushed[i] = out[i].piece
  BY PushedPieces
<1> DEFINE s == Pushed \o workbuf
<1>5. /\ s \in Seq(Pieces) /\ Len(s) = Len(out) + Len(workbuf)
      /\ \A i \in 1..(Len(out) + Len(workbuf)) :
           s[i] = IF i <= Len(out) THEN out[i].piece ELSE workbuf[i - Len(out)]
  <2>1. /\ s \in Seq(Pieces) /\ Len(s) = Len(Pushed) + Len(workbuf)
        /\ \A i \in 1..(Len(Pushed) + Len(workbuf)) :
             s[i] = IF i <= Len(Pushed) THEN Pushed[i]
                    ELSE workbuf[i - Len(Pushed)]
    BY <1>1, <1>4, ConcatProperties
  <2> QED
    BY <1>2, <1>3, <1>4, <2>1
<1> HIDE DEF s
<1>6. \A i \in 1..(Len(out) + Len(workbuf)) : out'[i].piece = s[i]
  <2> TAKE i \in 1..(Len(out) + Len(workbuf))
  <2>1. CASE i <= Len(out)
    BY <1>3, <1>5, <2>1
  <2>2. CASE i > Len(out)
    <3>1. i - Len(out) \in 1..Len(workbuf)
      BY <1>2, <1>3, <2>2
    <3> QED
      BY <1>2, <1>3, <1>5, <2>2, <3>1
  <2> QED
    BY <1>2, <1>3, <2>1, <2>2
<1>7. out' \in Seq(T)
  <2>1. out \o w \in Seq(T)
    BY <1>1, <1>2, ConcatProperties
  <2> QED
    BY <1>1, <2>1
<1>8. Pushed' = s
  <2>1. Pushed' = PiecesOf(out')
    BY DEF Pushed, PiecesOf
  <2>2. /\ Pushed' \in Seq(Pieces) /\ Len(Pushed') = Len(s)
        /\ \A i \in 1..Len(s) : Pushed'[i] = out'[i].piece
    BY <1>3, <1>5, <1>7, <2>1, PiecesAre DEF T
  <2>3. \A i \in 1..Len(s) : Pushed'[i] = s[i]
    BY <1>5, <1>6, <2>2
  <2> QED
    BY <1>5, <2>2, <2>3, SeqEqual
<1> QED
  BY <1>8 DEF s

-----------------------------------------------------------------------------
(* Where the content is.  A step leaves the pieces that account for it     *)
(* where they are, moves some of them, writes the header, or adds blocks   *)
(* of what it takes from LZ4F.                                             *)
Swaps ==
  \E p, g, w \in Seq(Pieces) :
    Accounted = (p \o g) \o w /\ Accounted' = (p \o w) \o g

Untouched == (Accounted' = Accounted \/ Swaps) /\ fed' - held' = fed - held

Begins ==
  /\ Accounted = <<>> /\ Accounted' = <<Header>>
  /\ fed - held = 0 /\ fed' - held' = 0

Extends ==
  /\ stage # "none"
  /\ \E s : /\ Tiles(s, fed - held, fed' - held', BlockSize)
            /\ \/ Accounted' = Accounted \o s
               \/ Accounted' = (Accounted \o s) \o <<EndMark>>

(* The three parts of the pieces.                                          *)
LEMMA AccountedIs ==
  ASSUME Inductive
  PROVE  /\ Accounted \in Seq(Pieces) /\ Pushed \in Seq(Pieces)
         /\ gaps \in Seq(Pieces) /\ workbuf \in Seq(Pieces)
         /\ Pushed \o gaps \in Seq(Pieces)
         /\ pc = "push" => Accounted = (Pushed \o gaps) \o workbuf
         /\ pc # "push" => Accounted = Pushed \o gaps
<1>1. /\ Pushed \in Seq(Pieces) /\ gaps \in Seq(Pieces) /\ workbuf \in Seq(Pieces)
      /\ <<>> \in Seq(Pieces)
  BY PushedPieces, EmptySeq DEF Inductive, TypeOK
<1>2. [i \in DOMAIN out |-> out[i].piece] = Pushed
  <2>1. DOMAIN out = 1..Len(out)
    BY LenProperties DEF Inductive, TypeOK
  <2> QED
    BY <2>1 DEF Pushed
<1>3. Accounted = (Pushed \o gaps) \o (IF pc = "push" THEN workbuf ELSE <<>>)
  BY <1>2 DEF Accounted
<1> DEFINE p == Pushed
<1>4. p \in Seq(Pieces)
  BY <1>1
<1> HIDE DEF p
<1>5. p \o gaps \in Seq(Pieces)
  BY <1>1, <1>4, ConcatProperties
<1> DEFINE q == p \o gaps
<1>6. q \in Seq(Pieces)
  BY <1>5
<1> HIDE DEF q
<1>7. q \o <<>> = q /\ q \o workbuf \in Seq(Pieces)
  BY <1>1, <1>6, ConcatProperties, ConcatEmptySeq
<1> QED
  BY <1>1, <1>3, <1>5, <1>6, <1>7 DEF p, q

LEMMA PushAccounts ==
  ASSUME Inductive, Inductive', Push \/ PushRaises
  PROVE  Untouched
<1>1. /\ fed' = fed /\ held' = held /\ pc = "push" /\ pc' # "push"
  BY DEF Push, PushRaises, lib
<1>2. /\ Accounted = (Pushed \o gaps) \o workbuf
      /\ Pushed \in Seq(Pieces) /\ gaps \in Seq(Pieces) /\ workbuf \in Seq(Pieces)
  BY <1>1, AccountedIs
<1>3. Accounted' = Pushed' \o gaps'
  <2>1. Inductive /\ pc # "push" => Accounted = Pushed \o gaps
    BY AccountedIs
  <2>2. (Inductive /\ pc # "push" => Accounted = Pushed \o gaps)'
    <3>1. /\ out' \in Seq([port : Ports, piece : Pieces]) /\ gaps' \in Seq(Pieces)
      BY DEF Inductive, TypeOK
    <3>2. DOMAIN out' = 1..Len(out')
      BY <3>1, LenProperties
    <3>3. [i \in DOMAIN out' |-> out'[i].piece] = Pushed'
      BY <3>2 DEF Pushed
    <3>4. Pushed' \in Seq(Pieces)
      BY <3>1, PiecesAre DEF Pushed, PiecesOf
    <3> DEFINE q == Pushed' \o gaps'
    <3>5. q \in Seq(Pieces)
      BY <3>1, <3>4, ConcatProperties
    <3>6. q \o <<>> = q
      <4> HIDE DEF q
      <4> QED
        BY <3>5, ConcatEmptySeq
    <3> QED
      BY <1>1, <3>3, <3>6 DEF Accounted
  <2> QED
    BY <1>1, <2>2
<1>4. CASE PushRaises
  <2>1. Pushed' = Pushed /\ gaps' = gaps \o workbuf
    BY <1>4 DEF PushRaises, Pushed
  <2>2. (Pushed \o gaps) \o workbuf = Pushed \o (gaps \o workbuf)
    <3> HIDE DEF Pushed
    <3> QED
      BY <1>2, ConcatAssociative
  <2> QED
    BY <1>1, <1>2, <1>3, <2>1, <2>2 DEF Untouched
<1>5. CASE Push
  <2>1. Pushed' = Pushed \o workbuf /\ gaps' = gaps
    BY <1>5, PushedGrows DEF Push
  <2>2. Swaps
    BY <1>2, <1>3, <2>1 DEF Swaps
  <2> QED
    BY <1>1, <2>2 DEF Untouched
<1> QED
  BY <1>4, <1>5

LEMMA UpdateAccounts ==
  ASSUME Inductive, Inductive', compressUpdate \/ UpdateInterrupted
  PROVE  Extends
<1>1. /\ stage = "begun" /\ out' = out /\ pc = "update"
      /\ fed' = fed + Chunk /\ held' = (held + Chunk) % BlockSize
  BY DEF compressUpdate, UpdateInterrupted
<1>2. Tiles(FullBlocks(Chunk), fed - held, fed' - held', BlockSize)
  BY <1>1, TakenIn
<1> DEFINE b == FullBlocks(Chunk)
<1>3. b \in Seq(Pieces)
  BY <1>2 DEF Tiles
<1>4. /\ Accounted = Pushed \o gaps /\ Pushed' = Pushed
      /\ Pushed \in Seq(Pieces) /\ gaps \in Seq(Pieces)
  BY <1>1, AccountedIs DEF Pushed
<1>5. Accounted' = Accounted \o b
  <2>1. [i \in DOMAIN out' |-> out'[i].piece] = Pushed
    <3>1. DOMAIN out = 1..Len(out)
      BY LenProperties DEF Inductive, TypeOK
    <3> QED
      BY <1>1, <3>1 DEF Pushed
  <2>2. CASE compressUpdate
    <3>1. gaps' = gaps /\ pc' = "push" /\ workbuf' = b
      BY <2>2 DEF compressUpdate
    <3> QED
      BY <1>4, <2>1, <3>1 DEF Accounted
  <2>3. CASE UpdateInterrupted
    <3>1. gaps' = gaps \o b /\ pc' = "idle"
      BY <2>3 DEF UpdateInterrupted
    <3> HIDE DEF b, Pushed
    <3>2. Accounted' = (Pushed \o (gaps \o b)) \o <<>>
      BY <2>1, <3>1 DEF Accounted
    <3>3. (Pushed \o gaps) \o b = Pushed \o (gaps \o b)
      BY <1>3, <1>4, ConcatAssociative
    <3>4. gaps \o b \in Seq(Pieces)
      BY <1>3, <1>4, ConcatProperties
    <3> DEFINE g == gaps \o b
    <3> HIDE DEF g
    <3>5. Pushed \o g \in Seq(Pieces)
      BY <1>4, <3>4, ConcatProperties DEF g
    <3>6. (Pushed \o g) \o <<>> = Pushed \o g
      BY <3>5, ConcatEmptySeq
    <3> QED
      BY <1>4, <3>2, <3>3, <3>6 DEF g
  <2> QED
    BY <2>2, <2>3
<1> QED
  BY <1>1, <1>2, <1>5 DEF Extends

LEMMA EndAccounts ==
  ASSUME Inductive, fenc_flush \/ fenc_close
  PROVE  Extends
<1>1. /\ stage # "none" /\ out' = out /\ pc = "idle"
      /\ fed' = fed /\ held' = 0 /\ gaps' = gaps /\ pc' = "push"
  BY DEF fenc_flush, fenc_close, Inductive, Begun
<1>2. Tiles(TailBlock, fed - held, fed' - held', BlockSize)
  <2>1. fed' - held' = fed
    BY <1>1, Known
  <2> QED
    BY <1>1, <2>1, TailTiles
<1> DEFINE b == TailBlock
           e == <<EndMark>>
<1>3. b \in Seq(Pieces) /\ e \in Seq(Pieces) /\ EndMark \in Pieces
  BY <1>2, EndPieces DEF Tiles
<1>4. Accounted \in Seq(Pieces) /\ Accounted = Pushed \o gaps
  BY <1>1, AccountedIs
<1>5. Accounted' = Accounted \o workbuf'
  <2>1. [i \in DOMAIN out' |-> out'[i].piece] = Pushed
    <3>1. DOMAIN out = 1..Len(out)
      BY LenProperties DEF Inductive, TypeOK
    <3> QED
      BY <1>1, <3>1 DEF Pushed
  <2> QED
    BY <1>1, <1>4, <2>1 DEF Accounted
<1>6. CASE fenc_flush
  <2>1. workbuf' = b
    BY <1>6 DEF fenc_flush
  <2> QED
    BY <1>1, <1>2, <1>5, <2>1 DEF Extends
<1>7. CASE fenc_close
  <2>1. workbuf' = Append(b, EndMark)
    BY <1>7 DEF fenc_close
  <2> HIDE DEF b
  <2>2. workbuf' = b \o e
    BY <1>3, <2>1, AppendIsConcat
  <2> DEFINE a == Accounted
  <2>3. a \in Seq(Pieces)
    BY <1>4
  <2> HIDE DEF a, e
  <2>4. (a \o b) \o e = a \o (b \o e)
    BY <1>3, <2>3, ConcatAssociative
  <2> QED
    BY <1>1, <1>2, <1>5, <2>2, <2>4 DEF Extends, a, b, e
<1> QED
  BY <1>6, <1>7

LEMMA Accounting ==
  ASSUME Inductive, [AnyStep]_vars
  PROVE  Untouched \/ Begins \/ Extends
<1>0. Inductive'
  BY InductiveNext
<1>1. CASE fenc_init
  <2>1. /\ pc = "new" /\ stage = "none" /\ fed = 0 /\ held = 0 /\ out = <<>>
        /\ gaps = <<>> /\ out' = out /\ gaps' = gaps /\ fed' = fed /\ held' = held
    BY <1>1 DEF fenc_init, Inductive, Begun, TypeOK
  <2>2. [i \in DOMAIN out |-> out[i].piece] = <<>> /\ <<>> \in Seq(Pieces)
    <3>1. DOMAIN <<>> = {}
      OBVIOUS
    <3> QED
      BY <2>1, <3>1, EmptySeq
  <2>3. <<Header>> \in Seq(Pieces)
    BY EndPieces
  <2>4. <<>> \o <<>> = <<>> /\ <<>> \o <<Header>> = <<Header>>
    BY <2>2, <2>3, ConcatEmptySeq
  <2>5. Accounted = <<>>
    BY <2>1, <2>2, <2>4 DEF Accounted
  <2>6. Accounted' = <<>> \/ Accounted' = <<Header>>
    BY <1>1, <2>1, <2>2, <2>4 DEF fenc_init, Accounted
  <2> QED
    BY <2>1, <2>5, <2>6 DEF Untouched, Begins
<1>2. CASE \E n \in WriteSizes : fenc_write(n)
  BY <1>2 DEF fenc_write, Untouched, Accounted, lib
<1>3. CASE UpdateRefused \/ UpdateDone \/ \E p \in Ports : fenc_setoutport(p)
  BY <1>3 DEF UpdateRefused, UpdateDone, fenc_setoutport, Untouched, Accounted, lib
<1>4. CASE UNCHANGED vars
  BY <1>4 DEF vars, Untouched, Accounted
<1> QED
  BY <1>0, <1>1, <1>2, <1>3, <1>4, PushAccounts, UpdateAccounts, EndAccounts
     DEF AnyStep, Running

LEMMA OnceNext ==
  Inductive /\ Once(Accounted, fed - held) /\ [AnyStep]_vars
    => Once(Accounted, fed - held)'
<1> SUFFICES ASSUME Inductive, Once(Accounted, fed - held), [AnyStep]_vars
             PROVE  Once(Accounted', fed' - held')
  BY DEF Once, Covers, Apart
<1>1. CASE Untouched
  <2>1. CASE Swaps
    <3>1. PICK p, g, w \in Seq(Pieces) :
            Accounted = (p \o g) \o w /\ Accounted' = (p \o w) \o g
      BY <2>1 DEF Swaps
    <3> QED
      BY <1>1, <3>1, OnceSwapped DEF Untouched
  <2> QED
    BY <1>1, <2>1 DEF Untouched
<1>2. CASE Begins
  <2>1. <<>> \in Seq(Pieces) /\ <<Header>> \in Seq(Pieces)
    BY EndPieces, EmptySeq
  <2>2. Once(<<>> \o <<Header>>, 0)
    BY <2>1, OnceEmpty, OnceMarked, EndPieces
  <2>3. <<>> \o <<Header>> = <<Header>>
    BY <2>1, ConcatEmptySeq
  <2> QED
    BY <1>2, <2>2, <2>3 DEF Begins
<1>3. CASE Extends
  <2>1. PICK s : /\ Tiles(s, fed - held, fed' - held', BlockSize)
                 /\ \/ Accounted' = Accounted \o s
                    \/ Accounted' = (Accounted \o s) \o <<EndMark>>
    BY <1>3 DEF Extends
  <2>2. BlockSize \in Nat /\ Accounted \in Seq(Pieces) /\ s \in Seq(Pieces)
    BY <1>3, <2>1, Known, AccountedIs DEF Extends, Tiles
  <2> DEFINE a == Accounted
             c == a \o s
  <2>3. a \in Seq(Pieces) /\ Once(a, fed - held)
    BY <2>2
  <2> HIDE DEF a
  <2>4. Once(c, fed' - held') /\ c \in Seq(Pieces)
    BY <2>1, <2>2, <2>3, OnceGrows, ConcatProperties
  <2> HIDE DEF c
  <2>5. Once(c \o <<EndMark>>, fed' - held')
    BY <2>4, OnceMarked, EndPieces
  <2> QED
    BY <2>1, <2>4, <2>5 DEF a, c
<1> QED
  BY <1>1, <1>2, <1>3, Accounting

LEMMA OnceInvariant == AnyCaller => []Once(Accounted, fed - held)
<1>1. Init => Once(Accounted, fed - held)
  <2> SUFFICES ASSUME Init PROVE Once(Accounted, fed - held)
    OBVIOUS
  <2>1. fed - held = 0 /\ out = <<>> /\ gaps = <<>> /\ pc = "new"
    BY DEF Init
  <2>2. [i \in DOMAIN out |-> out[i].piece] = <<>> /\ <<>> \in Seq(Pieces)
    <3>1. DOMAIN <<>> = {}
      OBVIOUS
    <3> QED
      BY <2>1, <3>1, EmptySeq
  <2>3. <<>> \o <<>> = <<>>
    BY <2>2, ConcatEmptySeq
  <2>4. Accounted = <<>>
    BY <2>1, <2>2, <2>3 DEF Accounted
  <2> QED
    BY <2>1, <2>4, OnceEmpty
<1> QED
  BY <1>1, OnceNext, InductiveInvariant, PTL DEF AnyCaller

(* No content byte is left out, and none is in two places: in two pieces   *)
(* that were pushed, in one pushed twice, in one pushed and lost; for      *)
(* every block size, every length of a write and every fault.              *)
THEOREM ByteAccount == Spec \/ EncodeSpec => []EveryByteOnce
<1>1. Once(Accounted, fed - held) => EveryByteOnce
  BY DEF Once, Covers, Apart, EveryByteOnce
<1> QED
  BY <1>1, OnceInvariant, BothAreAny, PTL

(* A flush or a close that returns has kept nothing back.                  *)
THEOREM FlushKeepsNothing == Spec \/ EncodeSpec => FlushDelivers
<1>1. /\ Inductive /\ Once(Accounted, fed - held) /\ Once(Accounted, fed - held)'
      /\ [AnyStep]_vars
      => [pc = "push" /\ op \in {"flush", "close"} /\ pc' = "idle" =>
            \A n \in 1..fed :
              \E i \in DOMAIN Accounted' : n \in Content(Accounted'[i])]_vars
  <2> SUFFICES ASSUME Inductive, Once(Accounted, fed - held)', AnyStep,
                      pc = "push", op \in {"flush", "close"}, pc' = "idle",
                      NEW n \in 1..fed
               PROVE  \E i \in DOMAIN Accounted' : n \in Content(Accounted'[i])
    OBVIOUS
  <2>1. Push \/ PushRaises
    BY DEF AnyStep, Running, fenc_init, fenc_write, fenc_flush, fenc_close,
           fenc_setoutport, compressUpdate, UpdateInterrupted, UpdateRefused,
           UpdateDone
  <2>2. fed' = fed /\ held' = held /\ held = 0 /\ fed \in Nat
    BY <2>1 DEF Push, PushRaises, lib, Inductive, Begun, TypeOK
  <2>3. fed' - held' = fed
    BY <2>2
  <2>4. UNION {Content(Accounted'[i]) : i \in DOMAIN Accounted'} = 1..fed
    BY <2>3 DEF Once, Covers
  <2> QED
    BY <2>4
<1> QED
  BY <1>1, OnceInvariant, InductiveInvariant, BothAreAny, PTL
     DEF AnyCaller, FlushDelivers

-----------------------------------------------------------------------------
(* The order of the pieces.                                                *)
LEMMA Joined ==
  ASSUME NEW s, Whole(s), NEW t \in Seq(Pieces), t # <<>>, Chained(t),
         Follows(s[Len(s)], t[1])
  PROVE  Whole(s \o t) /\ (s \o t)[Len(s \o t)] = t[Len(t)]
<1> DEFINE u == s \o t
<1>1. /\ s \in Seq(Pieces) /\ Len(s) \in Nat /\ Len(t) \in Nat
      /\ Len(s) > 0 /\ Len(t) > 0
  BY LenProperties, EmptySeq DEF Whole
<1>2. /\ u \in Seq(Pieces) /\ Len(u) = Len(s) + Len(t)
      /\ \A i \in 1..(Len(s) + Len(t)) :
           u[i] = IF i <= Len(s) THEN s[i] ELSE t[i - Len(s)]
  BY <1>1, ConcatProperties
<1> HIDE DEF u
<1>3. u # <<>> /\ u[1] = Header /\ u[Len(u)] = t[Len(t)]
  BY <1>1, <1>2 DEF Whole
<1>4. ASSUME NEW i \in 1..(Len(u) - 1)
      PROVE  Follows(u[i], u[i + 1])
  <2>1. CASE i < Len(s)
    <3>1. i \in 1..(Len(s) - 1) /\ u[i] = s[i] /\ u[i + 1] = s[i + 1]
      BY <1>1, <1>2, <2>1
    <3> QED
      BY <3>1 DEF Whole, Chained
  <2>2. CASE i = Len(s)
    <3>1. u[i] = s[Len(s)] /\ u[i + 1] = t[1]
      BY <1>1, <1>2, <2>2
    <3> QED
      BY <3>1
  <2>3. CASE i > Len(s)
    <3> DEFINE j == i - Len(s)
    <3>1. j \in 1..(Len(t) - 1) /\ i + 1 - Len(s) = j + 1
      BY <1>1, <1>2, <2>3
    <3>2. u[i] = t[j] /\ u[i + 1] = t[j + 1]
      BY <1>1, <1>2, <2>3, <3>1
    <3> QED
      BY <3>1, <3>2 DEF Chained
  <2> QED
    BY <1>1, <2>1, <2>2, <2>3
<1> QED
  BY <1>2, <1>3, <1>4 DEF Whole, Chained, u

(* The content goes on where it stopped.                                   *)
LEMMA TilesJoined ==
  ASSUME NEW s, NEW t, NEW a, NEW b, NEW max \in Nat,
         Whole(s), UpTo(s[Len(s)], a), Tiles(t, a, b, max)
  PROVE  Whole(s \o t) /\ UpTo((s \o t)[Len(s \o t)], b)
<1>1. s \in Seq(Pieces) /\ t \in Seq(Pieces) /\ a \in Nat /\ b \in Nat
  BY DEF Whole, Tiles
<1>2. CASE t = <<>>
  <2>1. s \o t = s /\ a = b
    BY <1>1, <1>2, ConcatEmptySeq DEF Tiles
  <2> QED
    BY <2>1
<1>3. CASE t # <<>>
  <2>1. 1 \in 1..Len(t) /\ Len(t) \in 1..Len(t) /\ Len(t) \in Nat
    BY <1>1, <1>3, LenProperties, EmptySeq
  <2>2. /\ \A i \in 1..Len(t) : t[i].kind = "block"
        /\ t[1].from = a + 1 /\ t[Len(t)].from + t[Len(t)].len = b + 1
        /\ \A i \in 1..(Len(t) - 1) : t[i + 1].from = t[i].from + t[i].len
    BY <1>3 DEF Tiles
  <2>3. Chained(t)
    BY <2>1, <2>2 DEF Chained, Follows
  <2>4. Follows(s[Len(s)], t[1])
    BY <1>1, <2>1, <2>2 DEF UpTo, Follows
  <2>5. UpTo(t[Len(t)], b)
    BY <2>1, <2>2 DEF UpTo
  <2> QED
    BY <1>1, <1>3, <2>3, <2>4, <2>5, Joined
<1> QED
  BY <1>2, <1>3

(* An end mark may follow anything.                                        *)
LEMMA MarkJoined ==
  ASSUME NEW s, Whole(s)
  PROVE  /\ Whole(s \o <<EndMark>>)
         /\ (s \o <<EndMark>>)[Len(s \o <<EndMark>>)] = EndMark
<1> DEFINE t == <<EndMark>>
<1>1. /\ t \in Seq(Pieces) /\ t # <<>> /\ Len(t) = 1 /\ t[1] = EndMark
  BY EndPieces
<1>2. Chained(t)
  BY <1>1 DEF Chained
<1>3. s[Len(s)] \in Pieces
  <2>1. s \in Seq(Pieces) /\ Len(s) \in 1..Len(s)
    BY LenProperties, EmptySeq DEF Whole
  <2> QED
    BY <2>1, ElementOfSeq
<1>4. Follows(s[Len(s)], EndMark)
  BY <1>3, EndPieces DEF Pieces, Follows
<1> HIDE DEF t
<1>5. Whole(s \o t) /\ (s \o t)[Len(s \o t)] = EndMark
  BY <1>1, <1>2, <1>4, Joined
<1> QED
  BY <1>5 DEF t

(* Steps that add nothing to the frame.                                    *)
LEMMA UnbrokenKept ==
  ASSUME Unbroken, AllPieces' = AllPieces, gaps' = gaps, stage' = stage,
         fed' - held' = fed - held
  PROVE  Unbroken'
  BY DEF Unbroken

LEMMA UnbrokenQuiet ==
  ASSUME Inductive, Unbroken, pc # "push", pc' # "push",
         UNCHANGED <<stage, fed, held, out, gaps>>
  PROVE  Unbroken'
<1>1. AllPieces' = AllPieces
  BY DEF AllPieces, Pushed
<1> QED
  BY <1>1, UnbrokenKept

LEMMA UnbrokenInit ==
  ASSUME Inductive, Inductive', Unbroken, fenc_init
  PROVE  Unbroken'
<1>1. /\ stage = "none" /\ fed = 0 /\ held = 0 /\ out = <<>>
      /\ out' = <<>> /\ fed' = 0 /\ held' = 0
  BY DEF fenc_init, Inductive, Begun, TypeOK
<1>2. Pushed' = <<>>
  <2>1. Len(out') = 0
    BY <1>1
  <2>2. Pushed' = [i \in 1..0 |-> out'[i].piece]
    BY <2>1 DEF Pushed
  <2>3. Pushed' \in Seq(Pieces) /\ Len(Pushed') = 0
    BY <2>2, IsASeq
  <2> QED
    BY <2>3, EmptySeq
<1>3. CASE prefs' = Raised
  <2>1. stage' = "none" /\ pc' # "push"
    BY <1>1, <1>3 DEF fenc_init
  <2>2. AllPieces' = <<>>
    BY <1>2, <2>1, EmptySeq, ConcatEmptySeq DEF AllPieces
  <2> QED
    BY <2>1, <2>2 DEF Unbroken
<1>4. CASE prefs' # Raised
  <2>1. stage' = "begun" /\ pc' = "push" /\ workbuf' = <<Header>>
    BY <1>4 DEF fenc_init
  <2> DEFINE s == <<Header>>
  <2>2. s \in Seq(Pieces) /\ s # <<>> /\ s[1] = Header /\ Len(s) = 1
    BY EndPieces
  <2>3. Chained(s)
    BY <2>2 DEF Chained
  <2>4. AllPieces' = s
    BY <1>2, <2>1, <2>2, ConcatEmptySeq DEF AllPieces
  <2> HIDE DEF s
  <2>5. Whole(AllPieces') /\ UpTo(AllPieces'[Len(AllPieces')], 0)
    BY <2>2, <2>3, <2>4 DEF Whole, UpTo
  <2>6. fed' - held' = 0
    BY <1>1
  <2> QED
    BY <2>1, <2>5, <2>6 DEF Unbroken
<1> QED
  BY <1>3, <1>4

LEMMA NothingAdded ==
  ASSUME NEW s \in Seq(Pieces), NEW t \in Seq(Pieces), s \o t = <<>>
  PROVE  s = <<>> /\ t = <<>>
<1>1. Len(s \o t) = Len(s) + Len(t) /\ Len(s) \in Nat /\ Len(t) \in Nat
  BY ConcatProperties, LenProperties
<1>2. Len(<<>>) = 0
  OBVIOUS
<1>3. Len(s) = 0 /\ Len(t) = 0
  BY <1>1, <1>2
<1> QED
  BY <1>3, EmptySeq

LEMMA UnbrokenUpdate ==
  ASSUME Inductive, Unbroken, compressUpdate \/ UpdateInterrupted, gaps' = <<>>
  PROVE  Unbroken'
<1>1. /\ stage = "begun" /\ stage' = "begun" /\ out' = out /\ pc = "update"
      /\ fed' = fed + Chunk /\ held' = (held + Chunk) % BlockSize
      /\ gaps = <<>>
  <2>1. gaps \in Seq(Pieces) /\ FullBlocks(Chunk) \in Seq(Pieces)
    <3>1. stage # "none" /\ fed' = fed + Chunk /\ held' = (held + Chunk) % BlockSize
      BY DEF compressUpdate, UpdateInterrupted
    <3> QED
      BY <3>1, TakenIn DEF Inductive, TypeOK
  <2>2. gaps' = gaps \/ gaps' = gaps \o FullBlocks(Chunk)
    BY DEF compressUpdate, UpdateInterrupted
  <2>3. gaps = <<>>
    BY <2>1, <2>2, NothingAdded
  <2> QED
    BY <2>3 DEF compressUpdate, UpdateInterrupted
<1>2. /\ Tiles(FullBlocks(Chunk), fed - held, fed' - held', BlockSize)
      /\ BlockSize \in Nat
  BY <1>1, TakenIn, Known
<1>3. /\ AllPieces = Pushed /\ Whole(Pushed)
      /\ UpTo(Pushed[Len(Pushed)], fed - held) /\ Pushed' = Pushed
  BY <1>1, PushedPieces DEF Unbroken, Pushed
<1>4. CASE compressUpdate
  <2>1. AllPieces' = Pushed \o FullBlocks(Chunk)
    BY <1>3, <1>4 DEF compressUpdate, AllPieces
  <2>2. Whole(AllPieces') /\ UpTo(AllPieces'[Len(AllPieces')], fed' - held')
    BY <1>2, <1>3, <2>1, TilesJoined
  <2> QED
    BY <1>1, <2>2 DEF Unbroken
<1>5. CASE UpdateInterrupted
  <2>1. FullBlocks(Chunk) = <<>>
    <3> DEFINE b == FullBlocks(Chunk)
    <3>1. /\ b \in Seq(Pieces) /\ gaps' = gaps \o b /\ gaps = <<>>
      BY <1>1, <1>2, <1>5 DEF UpdateInterrupted, Tiles
    <3> HIDE DEF b
    <3>2. <<>> \o b = b
      BY <3>1, ConcatEmptySeq
    <3> QED
      BY <3>1, <3>2 DEF b
  <2>2. fed - held = fed' - held'
    BY <1>2, <2>1 DEF Tiles
  <2>3. AllPieces' = Pushed
    BY <1>3, <1>5, PushedPieces, ConcatEmptySeq DEF UpdateInterrupted, AllPieces
  <2> QED
    BY <1>1, <1>3, <2>2, <2>3 DEF Unbroken
<1> QED
  BY <1>4, <1>5

LEMMA UnbrokenEnd ==
  ASSUME Inductive, Unbroken, fenc_flush \/ fenc_close, gaps' = <<>>
  PROVE  Unbroken'
<1>1. /\ stage \in {"begun", "ended"} /\ out' = out /\ pc = "idle" /\ pc' = "push"
      /\ fed' = fed /\ held' = 0 /\ gaps = <<>> /\ fed \in Nat
  BY DEF fenc_flush, fenc_close, Inductive, Begun, TypeOK
<1>2. /\ Tiles(TailBlock, fed - held, fed, BlockSize) /\ BlockSize \in Nat
      /\ TailBlock \in Seq(Pieces) /\ fed' - held' = fed
  BY <1>1, TailTiles, Known DEF Tiles
<1>3. /\ AllPieces = Pushed /\ Whole(Pushed) /\ Pushed' = Pushed
      /\ AllPieces' = Pushed \o workbuf'
  BY <1>1, PushedPieces DEF Unbroken, Pushed, AllPieces
<1> DEFINE s == Pushed \o TailBlock
<1>4. /\ Whole(s) /\ (stage = "begun" => UpTo(s[Len(s)], fed))
      /\ (stage = "ended" => s[Len(s)] = EndMark)
  <2>1. CASE stage = "begun"
    <3>1. UpTo(Pushed[Len(Pushed)], fed - held)
      BY <1>1, <1>3, <2>1 DEF Unbroken
    <3>2. Whole(s) /\ UpTo(s[Len(s)], fed)
      <4> HIDE DEF Pushed
      <4> QED
        BY <1>2, <1>3, <3>1, TilesJoined
    <3> QED
      BY <2>1, <3>2
  <2>2. CASE stage = "ended"
    <3>1. TailBlock = <<>>
      BY <2>2 DEF TailBlock, Inductive, Begun
    <3>2. s = Pushed
      BY <3>1, PushedPieces, ConcatEmptySeq
    <3> QED
      BY <1>1, <1>3, <2>2, <3>2 DEF Unbroken
  <2> QED
    BY <1>1, <2>1, <2>2
<1>5. CASE fenc_flush
  <2>1. AllPieces' = s /\ stage' = stage
    BY <1>3, <1>5 DEF fenc_flush
  <2> QED
    BY <1>1, <1>2, <1>4, <2>1 DEF Unbroken
<1>6. CASE fenc_close
  <2>1. workbuf' = TailBlock \o <<EndMark>> /\ stage' = "ended"
    BY <1>2, <1>6, EndPieces, AppendIsConcat DEF fenc_close
  <2>2. AllPieces' = s \o <<EndMark>>
    <3>1. Pushed \in Seq(Pieces) /\ <<EndMark>> \in Seq(Pieces)
      BY PushedPieces, EndPieces
    <3> QED
      BY <1>2, <1>3, <2>1, <3>1, ConcatAssociative
  <2> HIDE DEF s
  <2>3. Whole(AllPieces') /\ AllPieces'[Len(AllPieces')] = EndMark
    BY <1>4, <2>2, MarkJoined
  <2> QED
    BY <2>1, <2>3 DEF Unbroken
<1> QED
  BY <1>5, <1>6

LEMMA UnbrokenPush ==
  ASSUME Inductive, Inductive', Unbroken, Push \/ PushRaises, gaps' = <<>>
  PROVE  Unbroken'
<1>1. /\ UNCHANGED <<stage, fed, held>> /\ pc = "push" /\ pc' # "push"
      /\ gaps = <<>> /\ AllPieces = Pushed \o workbuf
  <2>1. gaps \in Seq(Pieces) /\ workbuf \in Seq(Pieces)
    BY DEF Inductive, TypeOK
  <2>2. gaps = <<>>
    BY <2>1, NothingAdded DEF Push, PushRaises
  <2> QED
    BY <2>2, PushedPieces DEF Push, PushRaises, lib
<1>2. AllPieces' = Pushed'
  <2>1. Pushed' \in Seq(Pieces)
    <3>1. out' \in Seq([port : Ports, piece : Pieces])
      BY DEF Inductive, TypeOK
    <3> QED
      BY <3>1, PiecesAre DEF Pushed, PiecesOf
  <2> QED
    BY <1>1, <2>1, ConcatEmptySeq DEF AllPieces
<1>3. CASE Push
  BY <1>1, <1>2, <1>3, PushedGrows, UnbrokenKept DEF Push
<1>4. CASE PushRaises
  <2>1. workbuf = <<>>
    <3>1. workbuf \in Seq(Pieces) /\ gaps \in Seq(Pieces) /\ gaps \o workbuf = <<>>
      BY <1>4 DEF PushRaises, Inductive, TypeOK
    <3> QED
      BY <3>1, NothingAdded
  <2>2. Pushed' = Pushed /\ Pushed \o workbuf = Pushed
    BY <1>4, <2>1, PushedPieces, ConcatEmptySeq DEF PushRaises, Pushed
  <2> QED
    BY <1>1, <1>2, <2>2, UnbrokenKept
<1> QED
  BY <1>3, <1>4

LEMMA UnbrokenNext == Inductive /\ Unbroken /\ [AnyStep]_vars => Unbroken'
<1> SUFFICES ASSUME Inductive, Unbroken, [AnyStep]_vars, gaps' = <<>>
             PROVE  Unbroken'
  BY DEF Unbroken
<1>1. Inductive'
  BY InductiveNext
<1>2. CASE UNCHANGED vars
  BY <1>2, UnbrokenKept DEF vars, AllPieces, Pushed
<1>3. CASE \/ \E n \in WriteSizes : fenc_write(n)
           \/ \E p \in Ports : fenc_setoutport(p)
           \/ UpdateRefused \/ UpdateDone
  BY <1>3, UnbrokenQuiet DEF fenc_write, fenc_setoutport, UpdateRefused,
                             UpdateDone, lib
<1> QED
  BY <1>1, <1>2, <1>3, UnbrokenInit, UnbrokenUpdate, UnbrokenEnd, UnbrokenPush
     DEF AnyStep, Running

LEMMA UnbrokenInvariant == AnyCaller => []Unbroken
<1>1. Init => Unbroken
  <2> SUFFICES ASSUME Init PROVE Unbroken
    OBVIOUS
  <2>1. Inductive /\ pc = "new" /\ stage = "none" /\ Len(out) = 0
    BY InductiveInit DEF Init
  <2>2. AllPieces = <<>>
    BY <2>1, PushedPieces, EmptySeq
  <2> QED
    BY <2>1, <2>2 DEF Unbroken
<1> QED
  BY <1>1, UnbrokenNext, InductiveInvariant, PTL DEF AnyCaller

(* What the ports received is the beginning of a frame, however it was     *)
(* written, flushed and closed, if no call lost pieces by raising.         *)
THEOREM FrameOrder == Spec \/ EncodeSpec => []FrameInOrder
<1>1. Inductive /\ Unbroken => FrameInOrder
  <2> SUFFICES ASSUME Inductive, Unbroken, gaps = <<>>, out # <<>>
               PROVE  /\ out[1].piece = Header
                      /\ \A i \in 1..(Len(out) - 1) :
                           Follows(out[i].piece, out[i + 1].piece)
    <3>1. out = <<>> => 1..(Len(out) - 1) = {}
      OBVIOUS
    <3> QED
      BY <3>1 DEF FrameInOrder
  <2>1. /\ Pushed \in Seq(Pieces) /\ Len(Pushed) = Len(out) /\ Len(out) \in Nat
        /\ Len(out) > 0 /\ \A i \in 1..Len(out) : Pushed[i] = out[i].piece
    BY PushedPieces, EmptySeq DEF Inductive, TypeOK
  <2>2. Whole(AllPieces)
    BY DEF Unbroken, Inductive, Begun
  <2>3. /\ Len(AllPieces) \in Nat /\ Len(out) <= Len(AllPieces)
        /\ \A i \in 1..Len(out) : AllPieces[i] = Pushed[i]
    <3>1. CASE pc = "push"
      <4>1. /\ workbuf \in Seq(Pieces) /\ Len(workbuf) \in Nat
            /\ AllPieces = Pushed \o workbuf
        BY <3>1, PushedPieces, LenProperties
      <4> HIDE DEF Pushed
      <4>2. /\ Len(Pushed \o workbuf) = Len(Pushed) + Len(workbuf)
            /\ \A i \in 1..(Len(Pushed) + Len(workbuf)) :
                 (Pushed \o workbuf)[i] = IF i <= Len(Pushed) THEN Pushed[i]
                                          ELSE workbuf[i - Len(Pushed)]
        BY <2>1, <4>1, ConcatProperties
      <4> QED
        BY <2>1, <4>1, <4>2
    <3>2. CASE pc # "push"
      BY <2>1, <3>2, PushedPieces
    <3> QED
      BY <3>1, <3>2
  <2>4. out[1].piece = Header
    BY <2>1, <2>2, <2>3 DEF Whole
  <2>5. ASSUME NEW i \in 1..(Len(out) - 1)
        PROVE  Follows(out[i].piece, out[i + 1].piece)
    <3>1. /\ i \in 1..Len(out) /\ i + 1 \in 1..Len(out)
          /\ i \in 1..(Len(AllPieces) - 1)
      BY <2>1, <2>3
    <3>2. Follows(AllPieces[i], AllPieces[i + 1])
      BY <2>2, <3>1 DEF Whole, Chained
    <3> QED
      BY <2>1, <2>3, <3>1, <3>2
  <2> QED
    BY <2>4, <2>5
<1> QED
  BY <1>1, UnbrokenInvariant, InductiveInvariant, BothAreAny, PTL

-----------------------------------------------------------------------------
(* The frame of an encode.                                                 *)
LEMMA CloseMarks ==
  ASSUME Inductive, fenc_close
  PROVE  /\ workbuf' # <<>> /\ workbuf'[Len(workbuf')] = EndMark
         /\ pc = "idle" /\ pc' = "push" /\ op' = "close" /\ out' = out /\ gaps' = gaps
<1>1. stage # "none"
  BY DEF fenc_close, Inductive, Begun
<1>2. TailBlock \in Seq(Pieces) /\ EndMark \in Pieces
  BY <1>1, TailTiles, EndPieces DEF Tiles
<1> HIDE DEF TailBlock, EndMark
<1>3. workbuf' = Append(TailBlock, EndMark)
  BY DEF fenc_close
<1>4. /\ Len(workbuf') = Len(TailBlock) + 1 /\ Len(TailBlock) \in Nat
      /\ workbuf'[Len(TailBlock) + 1] = EndMark /\ workbuf' \in Seq(Pieces)
  BY <1>2, <1>3, AppendProperties, LenProperties
<1> QED
  BY <1>4, EmptySeq DEF fenc_close

(* The last piece that is pushed is the last one the ports have.           *)
LEMMA PushEnds ==
  ASSUME Inductive, Inductive', Push, workbuf # <<>>,
         workbuf[Len(workbuf)] = EndMark
  PROVE  /\ out' # <<>> /\ out'[Len(out')].piece = EndMark
         /\ EndMark \in {out'[i].piece : i \in DOMAIN out'}
<1>1. /\ workbuf \in Seq(Pieces) /\ Len(workbuf) \in Nat /\ Len(workbuf) > 0
      /\ Pushed \in Seq(Pieces) /\ Len(Pushed) \in Nat
  BY PushedPieces, LenProperties, EmptySeq
<1>2. /\ out' \in Seq([port : Ports, piece : Pieces])
      /\ Pushed' = PiecesOf(out') /\ Pushed' = Pushed \o workbuf
  BY PushedGrows DEF Inductive, TypeOK, Pushed, PiecesOf
<1>3. /\ Len(Pushed') = Len(out') /\ Len(out') \in Nat
      /\ \A i \in 1..Len(out') : Pushed'[i] = out'[i].piece
  BY <1>2, PiecesAre
<1>4. /\ Len(Pushed') = Len(Pushed) + Len(workbuf)
      /\ Pushed'[Len(Pushed) + Len(workbuf)] = workbuf[Len(workbuf)]
  <2> HIDE DEF Pushed
  <2>1. /\ Len(Pushed \o workbuf) = Len(Pushed) + Len(workbuf)
        /\ \A i \in 1..(Len(Pushed) + Len(workbuf)) :
             (Pushed \o workbuf)[i] = IF i <= Len(Pushed) THEN Pushed[i]
                                      ELSE workbuf[i - Len(Pushed)]
    BY <1>1, ConcatProperties
  <2> QED
    BY <1>1, <1>2, <2>1
<1>5. Len(out') \in 1..Len(out') /\ out'[Len(out')].piece = EndMark
  BY <1>1, <1>3, <1>4
<1>6. DOMAIN out' = 1..Len(out')
  BY <1>2, LenProperties
<1> QED
  BY <1>5, <1>6, <1>2, EmptySeq

LEMMA EndingNext ==
  Inductive /\ Ending /\ [EncodeNext]_encodeVars => Ending'
<1> SUFFICES ASSUME Inductive, Ending, [EncodeNext]_encodeVars
             PROVE  Ending'
  OBVIOUS
<1>0. Inductive'
  BY InductiveNext, EncodeIsAny
<1>1. CASE Calls \/ WriteString \/ Close
  <2>1. /\ \/ encode \in {"object", "block"} /\ encode' = encode
           \/ encode = "string" /\ encode' = "coding"
           \/ encode \in {"returning", "raising", "coding"} /\ encode' = encode
              /\ fenc_close
        /\ \/ \E n \in WriteSizes : fenc_write(n)
           \/ fenc_flush \/ fenc_close
           \/ \E p \in Ports : fenc_setoutport(p)
    BY <1>1 DEF Calls, WriteString, Close, Caller
  <2>2. CASE fenc_close
    BY <2>1, <2>2, CloseMarks DEF Ending
  <2>3. CASE ~fenc_close
    BY <2>1, <2>3 DEF Ending, fenc_write, fenc_flush, fenc_setoutport
  <2> QED
    BY <2>2, <2>3
<1>2. CASE LeaveBlock
  BY <1>2 DEF LeaveBlock, Ending, vars
<1>3. CASE New \/ Step
  <2>1. pc \in {"new", "update"} /\ encode' \in {encode, "lost"}
        /\ (pc' = "push" => op' # "close")
    BY <1>3 DEF New, Step, fenc_init, compressUpdate, UpdateDone, Inductive,
                Begun
  <2> QED
    BY <2>1 DEF Ending
<1>4. CASE Raising
  <2>1. CASE UpdateInterrupted \/ UpdateRefused
    <3>1. pc = "update" /\ pc' = "idle"
      BY <2>1 DEF UpdateInterrupted, UpdateRefused
    <3>2. encode' \in {encode, "lost"} /\ encode \notin {"returned", "raised"}
      BY <1>4, <3>1 DEF Raising, AfterRaise, Ending
    <3> QED
      BY <3>1, <3>2 DEF Ending
  <2>2. CASE PushRaises
    <3>1. pc = "push" /\ pc' \in {"idle", "failed"} /\ out' = out
          /\ Range(gaps') = Range(gaps) \cup Range(workbuf)
      <4>1. gaps \in Seq(Pieces) /\ workbuf \in Seq(Pieces)
        BY DEF Inductive, TypeOK
      <4>2. Range(gaps \o workbuf) = Range(gaps) \cup Range(workbuf)
        BY <4>1, RangeConcatenation
      <4> QED
        BY <2>2, <4>2 DEF PushRaises
    <3>2. CASE pc' = "failed"
      <4>1. encode' = "lost"
        BY <1>4, <3>2 DEF Raising
      <4> QED
        BY <3>2, <4>1 DEF Ending
    <3>3. CASE pc' = "idle"
      <4>1. AfterRaise
        BY <1>4, <3>3 DEF Raising
      <4>2. CASE encode \in {"returning", "raising"}
        <5>1. encode' = "raised" /\ workbuf # <<>>
              /\ workbuf[Len(workbuf)] = EndMark
          BY <3>1, <4>1, <4>2 DEF AfterRaise, Ending
        <5>2. EndMark \in Range(workbuf)
          <6>1. workbuf \in Seq(Pieces) /\ Len(workbuf) \in 1..Len(workbuf)
            BY <5>1, LenProperties, EmptySeq DEF Inductive, TypeOK
          <6> QED
            BY <5>1, <6>1, RangeEquality
        <5> QED
          BY <3>1, <3>3, <5>1, <5>2 DEF Ending
      <4>3. CASE encode \notin {"returning", "raising"}
        <5>1. encode' \in {encode, "lost"} /\ encode \notin {"returned", "raised"}
          BY <3>1, <4>1, <4>3 DEF AfterRaise, Ending
        <5> QED
          BY <3>3, <4>3, <5>1 DEF Ending
      <4> QED
        BY <4>2, <4>3
    <3> QED
      BY <3>1, <3>2, <3>3
  <2> QED
    BY <1>4, <2>1, <2>2 DEF Raising
<1>5. CASE Push /\ AfterReturn
  <2>1. pc = "push" /\ pc' # "push" /\ held' = held /\ gaps' = gaps
        /\ encode \notin {"returned", "raised"}
    BY <1>5 DEF Push, Ending, lib
  <2>2. CASE op = "close"
    <3>1. /\ out' # <<>> /\ out'[Len(out')].piece = EndMark
          /\ EndMark \in {out'[i].piece : i \in DOMAIN out'}
      BY <1>0, <1>5, <2>1, <2>2, PushEnds DEF Ending
    <3>2. pc' = "idle" /\ held' = 0
      BY <1>5, <2>1, <2>2 DEF Push, Inductive, Begun
    <3>3. \/ encode \in {"returning", "coding"} /\ encode' = "returned"
          \/ encode = "raising" /\ encode' = "raised"
          \/ encode \in {"object", "block", "string", "lost"} /\ encode' = encode
      <4>1. encode \in {"object", "block", "string", "coding", "returning",
                        "raising", "lost"}
        BY <2>1 DEF Ending
      <4>2. encode' = CASE encode \in {"returning", "coding"} -> "returned"
                        [] encode = "raising" -> "raised"
                        [] OTHER -> encode
        BY <1>5, <2>2 DEF AfterReturn
      <4>3. CASE encode \in {"returning", "coding"}
        BY <4>2, <4>3
      <4>4. CASE encode = "raising"
        BY <4>2, <4>4
      <4>5. CASE encode \notin {"returning", "coding", "raising"}
        BY <4>1, <4>2, <4>5
      <4> QED
        BY <4>3, <4>4, <4>5
    <3> QED
      BY <2>1, <3>1, <3>2, <3>3 DEF Ending
  <2>3. CASE op # "close"
    <3>1. encode' = encode
      BY <1>5, <2>3 DEF AfterReturn
    <3> QED
      BY <2>1, <2>3, <3>1 DEF Ending
  <2> QED
    BY <2>2, <2>3
<1>6. CASE UNCHANGED encodeVars
  BY <1>6 DEF encodeVars, vars, Ending
<1> QED
  BY <1>1, <1>2, <1>3, <1>4, <1>5, <1>6 DEF EncodeNext

(* However a block leaves its encoder, the frame is ended when encode is   *)
(* over, and an encode that returns has left a whole frame of what was     *)
(* written to it, unless a call inside it raised.                          *)
THEOREM EncodeIsEnded == EncodeSpec => []EncodeEnds
<1>1. EncodeInit => Ending
  BY DEF EncodeInit, Init, Ending
<1>2. Inductive /\ Ending /\ Once(Accounted, fed - held) => EncodeEnds
  <2> SUFFICES ASSUME Inductive, Ending, Once(Accounted, fed - held),
                      encode = "returned", gaps = <<>>, NEW n \in 1..fed
               PROVE  \E i \in DOMAIN out : n \in Content(out[i].piece)
    BY DEF Ending, EncodeEnds
  <2>1. pc = "idle" /\ held = 0 /\ fed \in Nat
    BY DEF Ending, Inductive, TypeOK
  <2>2. fed - held = fed /\ Accounted = Pushed
    <3>1. Pushed \in Seq(Pieces) /\ Accounted = Pushed \o gaps
      BY <2>1, AccountedIs
    <3> HIDE DEF Pushed
    <3>2. Pushed \o <<>> = Pushed
      BY <3>1, ConcatEmptySeq
    <3> QED
      BY <2>1, <3>1, <3>2
  <2>3. n \in Covers(Pushed)
    BY <2>2 DEF Once
  <2>4. DOMAIN Pushed = 1..Len(out) /\ DOMAIN out = 1..Len(out)
    BY LenProperties DEF Pushed, Inductive, TypeOK
  <2>5. \A i \in DOMAIN out : Pushed[i] = out[i].piece
    BY <2>4 DEF Pushed
  <2> QED
    BY <2>3, <2>4, <2>5 DEF Covers
<1> QED
  BY <1>1, <1>2, EndingNext, OnceInvariant, InductiveInvariant, BothAreAny, PTL
     DEF EncodeSpec

-----------------------------------------------------------------------------
(* Induction.                                                              *)
\* A set that holds 0 and with every number the next one holds them all.
LEMMA SetInduction ==
  ASSUME NEW T \in SUBSET Nat, 0 \in T, \A n \in T : n + 1 \in T
  PROVE  T = Nat
<1> SUFFICES ASSUME Nat \ T # {} PROVE FALSE
  OBVIOUS
<1>1. PICK x \in Nat \ T : \A y \in Nat \ T : ~(y < x)
  BY LeastNumber
<1>2. x - 1 \in Nat /\ x - 1 < x
  BY <1>1
<1>3. x - 1 \in T
  BY <1>1, <1>2
<1>4. x \in T
  BY <1>2, <1>3
<1> QED
  BY <1>1, <1>4


\* A set of numbers that is not empty and has a bound has a greatest one.
LEMMA GreatestNumber ==
  ASSUME NEW T \in SUBSET Nat, NEW b \in Nat, \A x \in T : x <= b, T # {}
  PROVE  Max(T) \in T /\ \A x \in T : x <= Max(T)
<1> DEFINE U == {u \in Nat : \A x \in T : x <= u}
<1>1. PICK m \in U : \A u \in U : ~(u < m)
  <2>1. b \in U /\ U \in SUBSET Nat
    OBVIOUS
  <2> HIDE DEF U
  <2> QED
    BY <2>1, LeastNumber
<1>2. m \in T
  <2> SUFFICES ASSUME m \notin T PROVE FALSE
    OBVIOUS
  <2>1. \A x \in T : x <= m /\ x # m /\ x \in Nat
    BY <1>1
  <2>2. m - 1 \in Nat /\ \A x \in T : x <= m - 1
    <3>1. PICK z \in T : TRUE
      OBVIOUS
    <3> QED
      BY <1>1, <2>1, <3>1
  <2>3. m - 1 \in U /\ m - 1 < m
    BY <1>1, <2>2
  <2> QED
    BY <1>1, <2>3
<1>3. \E x \in T : \A y \in T : x >= y
  BY <1>1, <1>2
<1>4. Max(T) \in T /\ \A y \in T : Max(T) >= y
  BY <1>3 DEF Max
<1> QED
  BY <1>4

-----------------------------------------------------------------------------
(* The keyword arguments of new.                                           *)
AfterPairs(a, h, d, m) ==
  a = [n \in 0..m |-> IF n = 0 THEN d ELSE rbx_scanhash_foreach(a[n - 1], h[n])]

LEMMA AfterExists ==
  ASSUME NEW h, NEW d, NEW m \in Nat
  PROVE  \E a : AfterPairs(a, h, d, m)
<1> DEFINE T == {n \in Nat : \E a : AfterPairs(a, h, d, n)}
<1>1. 0 \in T
  <2>1. AfterPairs([n \in 0..0 |-> d], h, d, 0)
    BY DEF AfterPairs
  <2> QED
    BY <2>1
<1>2. ASSUME NEW n \in T PROVE n + 1 \in T
  <2>1. PICK a : AfterPairs(a, h, d, n)
    OBVIOUS
  <2> DEFINE c == [i \in 0..(n + 1) |->
                    IF i = n + 1 THEN rbx_scanhash_foreach(a[n], h[n + 1]) ELSE a[i]]
  <2>2. ASSUME NEW i \in 0..(n + 1)
        PROVE  c[i] = IF i = 0 THEN d ELSE rbx_scanhash_foreach(c[i - 1], h[i])
    BY <2>1 DEF AfterPairs
  <2>3. c = [i \in 0..(n + 1) |-> IF i = 0 THEN d ELSE rbx_scanhash_foreach(c[i - 1], h[i])]
    BY <2>2
  <2>4. AfterPairs(c, h, d, n + 1)
    BY <2>3 DEF AfterPairs
  <2> QED
    BY <2>4
<1> HIDE DEF T
<1>3. T = Nat
  <2>1. T \in SUBSET Nat
    BY DEF T
  <2> QED
    BY <1>1, <1>2, <2>1, SetInduction
<1> QED
  BY <1>3 DEF T

\* The variables are what the pairs, one after the other, have made of them.
LEMMA AfterAll ==
  ASSUME NEW h \in Seq(Pairs), NEW d
  PROVE  \E a : AfterPairs(a, h, d, Len(h)) /\ rbx_scanhash(h, d) = a[Len(h)]
<1> DEFINE m == Len(h)
           r == CHOOSE a : AfterPairs(a, h, d, m)
<1>1. m \in Nat
  OBVIOUS
<1>2. rbx_scanhash(h, d) = r[m]
  BY DEF rbx_scanhash, AfterPairs
<1> HIDE DEF r, m
<1>3. AfterPairs(r, h, d, m)
  <2>1. \E a : AfterPairs(a, h, d, m)
    BY <1>1, AfterExists
  <2> QED
    BY <2>1 DEF r
<1> QED
  BY <1>2, <1>3 DEF m

\* What v is after n pairs, when every name is known: the last value given, or
\* what it was.
LastGiven(v, h, d, n) ==
  /\ DOMAIN v = DOMAIN d
  /\ \A name \in DOMAIN d :
       /\ (\A i \in 1..n : h[i].name # name) => v[name] = d[name]
       /\ \A i \in 1..n : h[i].name = name /\ (\A j \in (i + 1)..n : h[j].name # name)
                            => v[name] = h[i].value

AllKnown(h, d, n) == \A i \in 1..n : h[i].name \in DOMAIN d

LEMMA Scanned ==
  ASSUME NEW h \in Seq(Pairs), NEW a, NEW d, AfterPairs(a, h, d, Len(h)), NEW k \in 0..Len(h)
  PROVE  /\ AllKnown(h, d, k) => LastGiven(a[k], h, d, k)
         /\ ~AllKnown(h, d, k) => a[k] = Raised
<1> DEFINE P(n) == /\ AllKnown(h, d, n) => LastGiven(a[n], h, d, n)
                   /\ ~AllKnown(h, d, n) => a[n] = Raised
           T == {n \in Nat : n <= Len(h) => P(n)}
<1>0. Len(h) \in Nat
  OBVIOUS
<1>1. 0 \in T
  <2>1. a[0] = d
    BY <1>0 DEF AfterPairs
  <2> QED
    BY <2>1 DEF AllKnown, LastGiven
<1>2. ASSUME NEW n \in T PROVE n + 1 \in T
  <2> SUFFICES ASSUME n + 1 <= Len(h) PROVE P(n + 1)
    OBVIOUS
  <2>1. n \in Nat /\ P(n)
    BY <1>0
  <2>2. a[n + 1] = rbx_scanhash_foreach(a[n], h[n + 1])
    BY <1>0 DEF AfterPairs
  <2>3. a[n + 1] = IF h[n + 1].name \in DOMAIN a[n] THEN [a[n] EXCEPT ![h[n + 1].name] = h[n + 1].value]
                   ELSE Raised
    BY <2>2 DEF rbx_scanhash_foreach, rbx_scanhash_intern
  <2>4. AllKnown(h, d, n + 1) <=> AllKnown(h, d, n) /\ h[n + 1].name \in DOMAIN d
    BY <2>1 DEF AllKnown
  <2>5. CASE ~AllKnown(h, d, n)
    <3>1. a[n] = <<>> /\ DOMAIN a[n] = {}
      BY <2>1, <2>5 DEF Raised
    <3> QED
      BY <2>3, <2>4, <2>5, <3>1
  <2>6. CASE AllKnown(h, d, n) /\ h[n + 1].name \notin DOMAIN d
    BY <2>1, <2>3, <2>4, <2>6 DEF LastGiven
  <2>7. CASE AllKnown(h, d, n) /\ h[n + 1].name \in DOMAIN d
    <3> DEFINE key == h[n + 1].name
               val == h[n + 1].value
               old == a[n]
               new == a[n + 1]
    <3>1. LastGiven(old, h, d, n)
      BY <2>1, <2>7
    <3>2. DOMAIN new = DOMAIN d /\ new[key] = val /\ \A name \in DOMAIN d : name # key => new[name] = old[name]
      BY <2>3, <2>7, <3>1 DEF LastGiven
    <3> HIDE DEF key, val, old, new
    <3>3. ASSUME NEW name \in DOMAIN d
          PROVE  /\ (\A i \in 1..(n + 1) : h[i].name # name) => new[name] = d[name]
                 /\ \A i \in 1..(n + 1) : h[i].name = name /\ (\A j \in (i + 1)..(n + 1) : h[j].name # name)
                                            => new[name] = h[i].value
      <4>1. CASE name = key
        <5>1. \A i \in 1..(n + 1) : i # n + 1 => n + 1 \in (i + 1)..(n + 1)
          BY <2>1
        <5>2. n + 1 \in 1..(n + 1)
          BY <2>1
        <5> QED
          BY <3>2, <4>1, <5>1, <5>2 DEF key, val
      <4>2. CASE name # key
        <5>1. new[name] = old[name]
          BY <3>2, <3>3, <4>2
        <5>2. \A i \in 1..n : i \in 1..(n + 1) /\ \A j \in (i + 1)..n : j \in (i + 1)..(n + 1)
          BY <2>1
        <5>3. \A i \in 1..(n + 1) : h[i].name = name => i \in 1..n
          BY <2>1, <4>2 DEF key
        <5>4. \A i \in 1..n : (\A j \in (i + 1)..(n + 1) : h[j].name # name) => (\A j \in (i + 1)..n : h[j].name # name)
          BY <5>2
        <5>5. (\A i \in 1..(n + 1) : h[i].name # name) => (\A i \in 1..n : h[i].name # name)
          BY <5>2
        <5> QED
          BY <3>1, <3>3, <5>1, <5>3, <5>4, <5>5 DEF LastGiven
      <4> QED
        BY <4>1, <4>2
    <3>4. LastGiven(new, h, d, n + 1)
      BY <3>2, <3>3 DEF LastGiven
    <3> QED
      BY <2>4, <2>7, <3>4 DEF new
  <2> QED
    BY <2>5, <2>6, <2>7
<1> HIDE DEF T
<1>3. T = Nat
  <2>1. T \in SUBSET Nat
    BY DEF T
  <2> QED
    BY <1>1, <1>2, <2>1, SetInduction
<1> QED
  BY <1>0, <1>3 DEF T

\* Says is what the variable of a keyword becomes.
LEMMA SaysLast ==
  ASSUME NEW h \in Seq(Pairs), NEW v, NEW d, LastGiven(v, h, d, Len(h)), NEW name \in DOMAIN d
  PROVE  \/ Says(h, name) = {} /\ v[name] = d[name]
         \/ Says(h, name) = {v[name]}
<1> DEFINE at == {i \in DOMAIN h : h[i].name = name}
<1>1. Len(h) \in Nat /\ DOMAIN h = 1..Len(h)
  OBVIOUS
<1>2. CASE at = {}
  <2>1. Says(h, name) = {}
    BY <1>2 DEF Says
  <2>2. \A i \in 1..Len(h) : h[i].name # name
    BY <1>1, <1>2
  <2> QED
    BY <2>1, <2>2 DEF LastGiven
<1>3. CASE at # {}
  <2>1. at \in SUBSET Nat /\ \A i \in at : i <= Len(h)
    BY <1>1
  <2> HIDE DEF at
  <2>2. Max(at) \in at /\ \A i \in at : i <= Max(at)
    BY <1>1, <1>3, <2>1, GreatestNumber
  <2> DEFINE m == Max(at)
  <2>3. m \in at /\ \A i \in at : i <= m
    BY <2>2
  <2>4. Says(h, name) = {h[m].value}
    BY <1>3 DEF Says, at
  <2> HIDE DEF m
  <2>5. m \in 1..Len(h) /\ h[m].name = name /\ m \in Nat
    BY <1>1, <2>3 DEF at
  <2>6. \A j \in (m + 1)..Len(h) : h[j].name # name
    <3> SUFFICES ASSUME NEW j \in (m + 1)..Len(h), h[j].name = name PROVE FALSE
      OBVIOUS
    <3>1. j \in DOMAIN h /\ ~(j <= m)
      BY <1>1, <2>5
    <3> QED
      BY <2>3, <3>1 DEF at
  <2>7. v[name] = h[m].value
    BY <2>5, <2>6 DEF LastGiven
  <2> QED
    BY <2>4, <2>7
<1> QED
  BY <1>2, <1>3

\* What the three variables hold.
LEMMA Arguments ==
  ASSUME NEW h \in Seq(Pairs)
  PROVE  LET v == rbx_scanhash(h, Defaults)
         IN  /\ ~AllKnown(h, Defaults, Len(h)) => v = Raised
             /\ AllKnown(h, Defaults, Len(h)) =>
                  /\ v # Raised
                  /\ \A name \in DOMAIN Defaults :
                       \/ Says(h, name) = {} /\ v[name] = Defaults[name]
                       \/ Says(h, name) = {v[name]}
<1> DEFINE v == rbx_scanhash(h, Defaults)
<1>1. Len(h) \in Nat /\ Len(h) \in 0..Len(h)
  OBVIOUS
<1>2. PICK a : AfterPairs(a, h, Defaults, Len(h)) /\ v = a[Len(h)]
  BY AfterAll
<1> HIDE DEF v
<1>3. /\ AllKnown(h, Defaults, Len(h)) => LastGiven(v, h, Defaults, Len(h))
      /\ ~AllKnown(h, Defaults, Len(h)) => v = Raised
  BY <1>1, <1>2, Scanned
<1>4. ASSUME AllKnown(h, Defaults, Len(h))
      PROVE  v # Raised
  <2>1. DOMAIN v = DOMAIN Defaults
    BY <1>3, <1>4 DEF LastGiven
  <2>2. "blocksize" \in DOMAIN Defaults
    BY DEF Defaults
  <2>3. DOMAIN Raised = {}
    BY DEF Raised
  <2> QED
    BY <2>1, <2>2, <2>3
<1>5. AllKnown(h, Defaults, Len(h)) =>
        \A name \in DOMAIN Defaults :
          \/ Says(h, name) = {} /\ v[name] = Defaults[name]
          \/ Says(h, name) = {v[name]}
  BY <1>3, SaysLast
<1> QED
  BY <1>3, <1>4, <1>5 DEF v

Ints == -(IntMax + 1)..IntMax

SizeOf(p) == BlockSizes[IF p.id = LZ4F_default THEN 1 ELSE p.id]

\* What becomes of a small negative number in unsigned arithmetic.
LEMMA ModOfNegative ==
  ASSUME NEW x \in Int, NEW y \in Int, y > 0, x < 0, 0 <= x + y
  PROVE  x % y = x + y
<1> DEFINE d == x \div y
           r == x % y
<1>1. d \in Int /\ r \in Int /\ x = y * d + r /\ 0 <= r /\ r < y
  OBVIOUS
<1> HIDE DEF d, r
<1>2. d >= 0 => y * d >= 0
  BY <1>1
<1>3. d <= -2 => y * d <= -(y + y)
  <2>1. ASSUME d <= -2
        PROVE  y * d <= -(y + y)
    <3>1. PICK e \in Int : e = -2 - d /\ e >= 0
      BY <1>1, <2>1
    <3>2. y * e >= 0
      BY <3>1
    <3>3. d = -2 - e
      BY <1>1, <3>1
    <3>4. y * d = -(y + y) - y * e
      BY <1>1, <3>1, <3>3
    <3> QED
      BY <3>1, <3>2, <3>4
  <2> QED
    BY <2>1
<1>4. d = -1
  BY <1>1, <1>2, <1>3
<1> QED
  BY <1>1, <1>4 DEF r

\* A block size that holds what is asked for, and the least of those, or the
\* largest.
LEMMA SizeAsked ==
  ASSUME NEW n \in Ints, n # 0
  PROVE  LET id == fenc_init_args_blocksize(n % SizeMod)
         IN  /\ id \in 1..4
             /\ n \in 1..BlockSizes[4] =>
                  /\ n <= BlockSizes[id]
                  /\ \A b \in Range(BlockSizes) : n <= b => BlockSizes[id] <= b
             /\ n \notin 0..BlockSizes[4] => BlockSizes[id] = BlockSizes[4]
<1> DEFINE m == n % SizeMod
           id == fenc_init_args_blocksize(m)
<1>1. /\ \A i \in 1..4 : BlockSizes[i] \in Nat
      /\ BlockSizes[1] < BlockSizes[2] /\ BlockSizes[2] < BlockSizes[3]
      /\ BlockSizes[3] < BlockSizes[4]
      /\ Range(BlockSizes) = {BlockSizes[i] : i \in 1..4}
  BY EncoderAssumption DEF Range
<1>2. /\ IntMax \in Nat /\ SizeMod \in Nat /\ BlockSizes[4] <= IntMax
      /\ 2 * (IntMax + 1) <= SizeMod
  BY EncoderAssumption
<1>3. n \in Int /\ -(IntMax + 1) <= n /\ n <= IntMax
  BY <1>2 DEF Ints
<1>4. n > 0 => m = n
  <2>1. \A x \in Nat, y \in Nat \ {0} : x < y => x % y = x
    OBVIOUS
  <2> QED
    BY <1>2, <1>3, <2>1
<1>5. n < 0 => m = n + SizeMod
  <2>1. SizeMod \in Nat /\ SizeMod > 0 /\ 0 <= n + SizeMod
    BY <1>2, <1>3
  <2>2. ASSUME n < 0
        PROVE  m = n + SizeMod
    BY <1>3, <2>1, <2>2, ModOfNegative
  <2> QED
    BY <2>2
<1>6. n < 0 => m \in Nat /\ m > BlockSizes[4]
  <2> DEFINE last == BlockSizes[4]
  <2>1. last \in Nat /\ last <= IntMax
    BY <1>1, <1>2
  <2> HIDE DEF m, last
  <2>2. n < 0 => m \in Nat /\ m > last
    BY <1>2, <1>3, <1>5, <2>1
  <2> QED
    BY <2>2 DEF last
<1>7. m \in Nat \ {0}
  BY <1>1, <1>3, <1>4, <1>6
<1> HIDE DEF m
<1>8. /\ id \in 1..4 /\ (id = 4 \/ m <= BlockSizes[id])
      /\ \A i \in 1..4 : i = 4 \/ m <= BlockSizes[i] => id <= i
  BY <1>7, BlockSizeIsOne
<1> HIDE DEF id
<1>9. \A i, j \in 1..4 : i <= j => BlockSizes[i] <= BlockSizes[j]
  BY <1>1
<1>10. ASSUME n \in 1..BlockSizes[4]
       PROVE  /\ n <= BlockSizes[id]
              /\ \A b \in Range(BlockSizes) : n <= b => BlockSizes[id] <= b
  <2>1. m = n
    BY <1>1, <1>4, <1>10
  <2>2. n <= BlockSizes[id]
    BY <1>1, <1>8, <1>10, <2>1
  <2>3. ASSUME NEW b \in Range(BlockSizes), n <= b
        PROVE  BlockSizes[id] <= b
    <3>1. PICK i \in 1..4 : b = BlockSizes[i]
      BY <1>1
    <3>2. id <= i
      BY <1>8, <2>1, <2>3, <3>1
    <3> QED
      BY <1>8, <1>9, <3>1, <3>2
  <2> QED
    BY <2>2, <2>3
<1>11. ASSUME n \notin 0..BlockSizes[4]
       PROVE  BlockSizes[id] = BlockSizes[4]
  <2>1. m > BlockSizes[4]
    BY <1>1, <1>3, <1>4, <1>6, <1>11
  <2>2. BlockSizes[id] <= BlockSizes[4] /\ BlockSizes[id] \in Nat
    BY <1>1, <1>8, <1>9
  <2>3. id = 4
    BY <1>1, <1>7, <1>8, <2>1, <2>2
  <2> QED
    BY <2>3
<1> QED
  BY <1>8, <1>10, <1>11 DEF id, m

\* What new makes of its arguments.
Understood(h) ==
  /\ \A i \in DOMAIN h : h[i].name \in DOMAIN Defaults
  /\ \A v \in Says(h, "blocksize") \ {Nil} : v.kind = "number" /\ v.val \in Ints

Honoured(h, p) ==
  /\ p.linked = \E v \in Says(h, "blocklink") : RTEST(v)
  /\ p.checksum = \A v \in Says(h, "checksum") : RTEST(v)
  /\ \A n \in Ints : Says(h, "blocksize") = {Num(n)} =>
       /\ n \in 1..BlockSizes[4] =>
            /\ n <= SizeOf(p)
            /\ \A b \in Range(BlockSizes) : n <= b => SizeOf(p) <= b
       /\ n \notin 0..BlockSizes[4] => SizeOf(p) = BlockSizes[4]

LEMMA ArgsHonoured ==
  ASSUME NEW h \in Seq(Pairs)
  PROVE  /\ ~Understood(h) => fenc_init_args(h) = Raised
         /\ Understood(h) => fenc_init_args(h) # Raised /\ Honoured(h, fenc_init_args(h))
<1> DEFINE a == rbx_scanhash(h, Defaults)
           asked == a["blocksize"]
           size == Says(h, "blocksize")
           link == Says(h, "blocklink")
           sum == Says(h, "checksum")
           args == [id |-> IF asked = Nil THEN LZ4F_default
                           ELSE fenc_init_args_blocksize(asked.val % SizeMod),
                    linked |-> RTEST(a["blocklink"]),
                    checksum |-> RTEST(a["checksum"])]
<1>1. /\ ~AllKnown(h, Defaults, Len(h)) => a = Raised
      /\ AllKnown(h, Defaults, Len(h)) =>
           /\ a # Raised
           /\ \A name \in DOMAIN Defaults :
                \/ Says(h, name) = {} /\ a[name] = Defaults[name]
                \/ Says(h, name) = {a[name]}
  BY Arguments
<1>2. AllKnown(h, Defaults, Len(h)) <=> \A i \in DOMAIN h : h[i].name \in DOMAIN Defaults
  BY DEF AllKnown
<1>3. /\ DOMAIN Defaults = {"blocksize", "blocklink", "checksum"}
      /\ Defaults["blocksize"] = Nil /\ Defaults["blocklink"] = False /\ Defaults["checksum"] = True
  BY DEF Defaults
<1>4. AllKnown(h, Defaults, Len(h)) =>
        /\ a # Raised
        /\ (size = {} /\ asked = Nil) \/ size = {asked}
        /\ (link = {} /\ a["blocklink"] = False) \/ link = {a["blocklink"]}
        /\ (sum = {} /\ a["checksum"] = True) \/ sum = {a["checksum"]}
  BY <1>1, <1>3
<1>5. fenc_init_args(h) = IF a = Raised \/ ~(asked = Nil \/ NUM2INT(asked)) THEN Raised
                          ELSE args
  BY DEF fenc_init_args
<1> DEFINE p == fenc_init_args(h)
<1>6. p = args => /\ p.id = IF asked = Nil THEN LZ4F_default
                            ELSE fenc_init_args_blocksize(asked.val % SizeMod)
                  /\ p.linked = RTEST(a["blocklink"]) /\ p.checksum = RTEST(a["checksum"])
                  /\ p # Raised
  <2> SUFFICES ASSUME p = args
               PROVE  /\ p.id = IF asked = Nil THEN LZ4F_default
                                ELSE fenc_init_args_blocksize(asked.val % SizeMod)
                      /\ p.linked = RTEST(a["blocklink"]) /\ p.checksum = RTEST(a["checksum"])
                      /\ p # Raised
    OBVIOUS
  <2> HIDE DEF p, asked, a
  <2>1. DOMAIN args = {"id", "linked", "checksum"} /\ DOMAIN Raised = {}
    BY DEF Raised
  <2>2. p # Raised
    BY <2>1
  <2> QED
    BY <2>2
<1> HIDE DEF p, args, asked, a, size, link, sum
<1>7. CASE ~AllKnown(h, Defaults, Len(h))
  BY <1>1, <1>2, <1>5, <1>7 DEF Understood, p
<1>8. CASE AllKnown(h, Defaults, Len(h))
  <2>1. Understood(h) <=> \A v \in size \ {Nil} : v.kind = "number" /\ v.val \in Ints
    BY <1>2, <1>8 DEF Understood, size
  <2>2. Understood(h) <=> asked = Nil \/ NUM2INT(asked)
    <3>1. CASE size = {} /\ asked = Nil
      BY <2>1, <3>1
    <3>2. CASE size = {asked}
      BY <2>1, <3>2 DEF NUM2INT, Ints
    <3> QED
      BY <1>4, <1>8, <3>1, <3>2
  <2>3. CASE ~Understood(h)
    BY <1>5, <2>2, <2>3 DEF p
  <2>4. CASE Understood(h)
    <3>1. p = args
      BY <1>4, <1>5, <1>8, <2>2, <2>4 DEF p
    <3>2. /\ p.id = IF asked = Nil THEN LZ4F_default
                    ELSE fenc_init_args_blocksize(asked.val % SizeMod)
          /\ p.linked = RTEST(a["blocklink"]) /\ p.checksum = RTEST(a["checksum"])
          /\ p # Raised
      BY <1>6, <3>1
    <3>3. p.linked = \E v \in link : RTEST(v)
      <4>1. CASE link = {} /\ a["blocklink"] = False
        <5>1. ~RTEST(a["blocklink"]) /\ ~\E v \in link : RTEST(v)
          BY <4>1 DEF RTEST, False
        <5>2. RTEST(a["blocklink"]) = \E v \in link : RTEST(v)
          BY <5>1 DEF RTEST
        <5> QED
          BY <3>2, <5>2
      <4>2. CASE link = {a["blocklink"]}
        <5>1. RTEST(a["blocklink"]) = \E v \in link : RTEST(v)
          BY <4>2 DEF RTEST
        <5> QED
          BY <3>2, <5>1
      <4> QED
        BY <1>4, <1>8, <4>1, <4>2
    <3>4. p.checksum = \A v \in sum : RTEST(v)
      <4>1. CASE sum = {} /\ a["checksum"] = True
        <5>1. RTEST(a["checksum"]) /\ \A v \in sum : RTEST(v)
          BY <4>1 DEF RTEST, True
        <5> QED
          BY <3>2, <5>1
      <4>2. CASE sum = {a["checksum"]}
        <5>1. RTEST(a["checksum"]) = \A v \in sum : RTEST(v)
          BY <4>2 DEF RTEST
        <5> QED
          BY <3>2, <5>1
      <4> QED
        BY <1>4, <1>8, <4>1, <4>2
    <3>5. ASSUME NEW n \in Ints, size = {Num(n)}, n # 0
          PROVE  /\ n \in 1..BlockSizes[4] =>
                      /\ n <= SizeOf(p)
                      /\ \A b \in Range(BlockSizes) : n <= b => SizeOf(p) <= b
                 /\ n \notin 0..BlockSizes[4] => SizeOf(p) = BlockSizes[4]
      <4>1. asked = Num(n)
        BY <1>4, <1>8, <3>5
      <4>2. Num(n) # Nil /\ Num(n).val = n
        BY DEF Num, Nil
      <4>3. p.id = fenc_init_args_blocksize(n % SizeMod)
        BY <3>2, <4>1, <4>2
      <4> DEFINE id == fenc_init_args_blocksize(n % SizeMod)
      <4>4. /\ id \in 1..4
            /\ n \in 1..BlockSizes[4] =>
                 /\ n <= BlockSizes[id]
                 /\ \A b \in Range(BlockSizes) : n <= b => BlockSizes[id] <= b
            /\ n \notin 0..BlockSizes[4] => BlockSizes[id] = BlockSizes[4]
        BY <3>5, SizeAsked
      <4> HIDE DEF id
      <4>5. SizeOf(p) = BlockSizes[id]
        BY <4>3, <4>4 DEF SizeOf, LZ4F_default, id
      <4> QED
        BY <4>4, <4>5
    <3>6. \A n \in Ints : size = {Num(n)} =>
            /\ n \in 1..BlockSizes[4] =>
                 /\ n <= SizeOf(p)
                 /\ \A b \in Range(BlockSizes) : n <= b => SizeOf(p) <= b
            /\ n \notin 0..BlockSizes[4] => SizeOf(p) = BlockSizes[4]
      <4> TAKE n \in Ints
      <4>1. CASE n = 0
        <5>1. 0 \in 0..BlockSizes[4] /\ 0 \notin 1..BlockSizes[4]
          BY BlockSizesAre
        <5> QED
          BY <4>1, <5>1
      <4> QED
        BY <3>5, <4>1
    <3>7. Honoured(h, p)
      BY <3>3, <3>4, <3>6 DEF Honoured, size, link, sum
    <3> QED
      BY <2>4, <3>2, <3>7 DEF p
  <2> QED
    BY <2>3, <2>4
<1> QED
  BY <1>7, <1>8

\* The frame has what new was asked for, whatever the Hash, and a Hash it does
\* not understand keeps it from beginning one.
THEOREM OptionsAreHonoured == Spec \/ EncodeSpec => OptionsHonoured
<1>1. Inductive /\ [AnyStep]_vars =>
        [pc = "new" =>
           LET asked == Says(opts, "blocksize")
               known == /\ \A i \in DOMAIN opts : opts[i].name \in DOMAIN Defaults
                        /\ \A v \in asked \ {Nil} :
                             v.kind = "number" /\ v.val \in -(IntMax + 1)..IntMax
           IN  IF ~known THEN pc' = "failed" /\ stage' = "none"
               ELSE /\ pc' = "push" /\ stage' = "begun"
                    /\ prefs'.linked = \E v \in Says(opts, "blocklink") : RTEST(v)
                    /\ prefs'.checksum = \A v \in Says(opts, "checksum") : RTEST(v)
                    /\ \A n \in -(IntMax + 1)..IntMax :
                         asked = {Num(n)} =>
                           /\ n \in 1..BlockSizes[4] =>
                                /\ n <= BlockSize'
                                /\ \A b \in Range(BlockSizes) : n <= b => BlockSize' <= b
                           /\ n \notin 0..BlockSizes[4] => BlockSize' = BlockSizes[4]]_vars
  <2> SUFFICES ASSUME Inductive, AnyStep, pc = "new"
               PROVE  IF ~Understood(opts) THEN pc' = "failed" /\ stage' = "none"
                      ELSE pc' = "push" /\ stage' = "begun" /\ Honoured(opts, prefs')
    <3>1. BlockSize' = SizeOf(prefs')
      BY DEF BlockSize, SizeOf
    <3> QED
      BY <3>1 DEF Honoured, Understood, Ints
  <2>1. fenc_init
    BY DEF AnyStep, Running, fenc_write, fenc_flush, fenc_close, fenc_setoutport, compressUpdate,
           UpdateInterrupted, UpdateRefused, UpdateDone, Push, PushRaises
  <2>2. opts \in Seq(Pairs) /\ stage = "none"
    <3>1. opts \in Options \/ opts = <<>>
      BY DEF Inductive, TypeOK
    <3>2. opts \in Seq(Pairs)
      <4>1. <<>> \in Seq(Pairs)
        BY EmptySeq
      <4>2. Options \subseteq Seq(Pairs)
        BY EncoderAssumption
      <4> QED
        BY <3>1, <4>1, <4>2
    <3>3. stage = "none"
      BY DEF Inductive, Begun
    <3> QED
      BY <3>2, <3>3
  <2>3. /\ prefs' = fenc_init_args(opts)
        /\ IF prefs' = Raised THEN pc' = "failed" /\ stage' = stage
           ELSE pc' = "push" /\ stage' = "begun"
    BY <2>1 DEF fenc_init
  <2> QED
    BY <2>2, <2>3, ArgsHonoured
<1> QED
  BY <1>1, InductiveInvariant, BothAreAny, PTL DEF AnyCaller, OptionsHonoured
=============================================================================
