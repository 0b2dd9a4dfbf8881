-------------------------- MODULE OldStreamProofs --------------------------
(* What an old stream holds, for all options, sizes, faults and streams of *)
(* other programs.                                                         *)
EXTENDS OldStream, SequenceTheorems, WellFoundedInduction, TLAPS
-----------------------------------------------------------------------------
(* Induction.  A set of numbers that is not empty has a least one.         *)
LEMMA LeastNumber ==
  ASSUME NEW T \in SUBSET Nat, T # {}
  PROVE  \E x \in T : \A y \in T : ~(y < x)
<1> DEFINE R == {ss \in Nat \X Nat : ss[1] < ss[2]}
<1>1. IsWellFoundedOn(R, Nat)
  BY NatLessThanWellFounded DEF OpToRel
<1>2. \A x, y \in Nat : y < x => <<y, x>> \in R
  OBVIOUS
<1> HIDE DEF R
<1>3. PICK x \in T : \A y \in T : ~(<<y, x>> \in R)
  BY <1>1, WFMin
<1> QED
  BY <1>2, <1>3

\* A set that holds 0 and with every number the next one holds them all.
LEMMA SetInduction ==
  ASSUME NEW T \in SUBSET Nat, 0 \in T, \A n \in T : n + 1 \in T
  PROVE  T = Nat
<1> SUFFICES ASSUME Nat \ T # {} PROVE FALSE
  OBVIOUS
<1>1. PICK x \in Nat \ T : \A y \in Nat \ T : ~(y < x)
  BY LeastNumber
<1>2. x - 1 \in Nat /\ x - 1 < x
  BY <1>1
<1>3. x - 1 \in T
  BY <1>1, <1>2
<1>4. x \in T
  BY <1>2, <1>3
<1> QED
  BY <1>1, <1>4

-----------------------------------------------------------------------------
(* What items hold.                                                        *)
LEMMA ItemKinds ==
  ASSUME NEW x \in Item
  PROVE  /\ x.item \in {"header", "legacy", "size", "payload", "cut", "sum"}
         /\ x.item \in {"header", "legacy"} => x.opts \in Option
         /\ x.item = "size" => x.literal \in BOOLEAN /\ x.n \in Nat
         /\ x.item \in {"payload", "cut"} => x.block \in Block
BY DEF Item

LEMMA BlockIs ==
  ASSUME NEW b \in Block
  PROVE  /\ b.literal \in BOOLEAN /\ b.n \in Nat /\ b.data \in Seq(Nat) /\ b.refers \in Seq(Nat)
         /\ b.literal => Len(b.data) = b.n /\ b.refers = <<>>
BY DEF Block

LEMMA DataType ==
  ASSUME NEW x \in Item
  PROVE  Data(x) \in Seq(Nat)
BY ItemKinds, BlockIs, EmptySeq DEF Data

Held(c, f, m) ==
  c = [i \in 0..m |-> IF i = 0 THEN <<>> ELSE c[i - 1] \o Data(f[i])]

LEMMA HeldExists ==
  ASSUME NEW f, NEW m \in Nat
  PROVE  \E c : Held(c, f, m)
<1> DEFINE T == {n \in Nat : \E c : Held(c, f, n)}
<1>1. 0 \in T
  <2>1. Held([n \in 0..0 |-> <<>>], f, 0)
    BY DEF Held
  <2> QED
    BY <2>1
<1>2. ASSUME NEW n \in T PROVE n + 1 \in T
  <2>1. PICK c : Held(c, f, n)
    OBVIOUS
  <2> DEFINE d == [i \in 0..(n + 1) |-> IF i = n + 1 THEN c[n] \o Data(f[n + 1]) ELSE c[i]]
  <2>2. ASSUME NEW i \in 0..(n + 1)
        PROVE  d[i] = IF i = 0 THEN <<>> ELSE d[i - 1] \o Data(f[i])
    BY <2>1 DEF Held
  <2>3. d = [i \in 0..(n + 1) |-> IF i = 0 THEN <<>> ELSE d[i - 1] \o Data(f[i])]
    BY <2>2
  <2>4. Held(d, f, n + 1)
    BY <2>3 DEF Held
  <2> QED
    BY <2>4
<1> HIDE DEF T
<1>3. T = Nat
  <2>1. T \in SUBSET Nat
    BY DEF T
  <2> QED
    BY <1>1, <1>2, <2>1, SetInduction
<1> QED
  BY <1>3 DEF T

LEMMA HeldStep ==
  ASSUME NEW f, NEW m \in Nat, NEW c, Held(c, f, m)
  PROVE  /\ c[0] = <<>>
         /\ \A i \in 0..(m - 1) : c[i + 1] = c[i] \o Data(f[i + 1])
BY DEF Held

LEMMA ContentIs ==
  ASSUME NEW f, Len(f) \in Nat
  PROVE  \E c : Held(c, f, Len(f)) /\ \A n \in 0..Len(f) : ContentTo(f, n) = c[n]
<1> DEFINE r == CHOOSE c : Held(c, f, Len(f))
<1>1. \A n \in 0..Len(f) : ContentTo(f, n) = r[n]
  BY DEF ContentTo, Held
<1> HIDE DEF r
<1>2. Held(r, f, Len(f))
  <2>1. \E c : Held(c, f, Len(f))
    BY HeldExists
  <2> QED
    BY <2>1 DEF r
<1> QED
  BY <1>1, <1>2

LEMMA ContentStart ==
  ASSUME NEW f, Len(f) \in Nat
  PROVE  ContentTo(f, 0) = <<>>
<1>1. PICK c : Held(c, f, Len(f)) /\ \A n \in 0..Len(f) : ContentTo(f, n) = c[n]
  BY ContentIs
<1> QED
  BY <1>1 DEF Held

LEMMA ContentStep ==
  ASSUME NEW f, Len(f) \in Nat, NEW n \in 0..(Len(f) - 1)
  PROVE  ContentTo(f, n + 1) = ContentTo(f, n) \o Data(f[n + 1])
<1>1. PICK c : Held(c, f, Len(f)) /\ \A m \in 0..Len(f) : ContentTo(f, m) = c[m]
  BY ContentIs
<1>2. c[n + 1] = c[n] \o Data(f[n + 1])
  BY <1>1, HeldStep
<1>3. n \in 0..Len(f) /\ n + 1 \in 0..Len(f)
  OBVIOUS
<1> QED
  BY <1>1, <1>2, <1>3

LEMMA ContentType ==
  ASSUME NEW f \in Seq(Item), NEW k \in 0..Len(f)
  PROVE  ContentTo(f, k) \in Seq(Nat)
<1> DEFINE T == {n \in Nat : n <= Len(f) => ContentTo(f, n) \in Seq(Nat)}
<1>0. Len(f) \in Nat
  OBVIOUS
<1>1. 0 \in T
  BY <1>0, ContentStart, EmptySeq
<1>2. ASSUME NEW n \in T PROVE n + 1 \in T
  <2> SUFFICES ASSUME n + 1 <= Len(f) PROVE ContentTo(f, n + 1) \in Seq(Nat)
    OBVIOUS
  <2>1. n \in 0..(Len(f) - 1) /\ n + 1 \in 1..Len(f) /\ n <= Len(f)
    BY <1>0
  <2>2. ContentTo(f, n + 1) = ContentTo(f, n) \o Data(f[n + 1])
    BY <1>0, <2>1, ContentStep
  <2>3. Data(f[n + 1]) \in Seq(Nat)
    BY <2>1, ElementOfSeq, DataType
  <2> HIDE DEF T
  <2>4. ContentTo(f, n) \in Seq(Nat)
    BY <2>1 DEF T
  <2> QED
    BY <2>2, <2>3, <2>4, ConcatProperties
<1> HIDE DEF T
<1>3. T = Nat
  <2>1. T \in SUBSET Nat
    BY DEF T
  <2> QED
    BY <1>1, <1>2, <2>1, SetInduction
<1> QED
  BY <1>0, <1>3 DEF T

\* Streams whose first items hold the same.
LEMMA ContentSame ==
  ASSUME NEW f, NEW g, Len(f) \in Nat, Len(g) \in Nat,
         NEW k \in Nat, k <= Len(f), k <= Len(g),
         \A i \in 1..k : Data(f[i]) = Data(g[i])
  PROVE  ContentTo(f, k) = ContentTo(g, k)
<1> DEFINE T == {n \in Nat : n <= k => ContentTo(f, n) = ContentTo(g, n)}
<1>1. 0 \in T
  BY ContentStart
<1>2. ASSUME NEW n \in T PROVE n + 1 \in T
  <2> SUFFICES ASSUME n + 1 <= k PROVE ContentTo(f, n + 1) = ContentTo(g, n + 1)
    OBVIOUS
  <2>1. n \in 0..(Len(f) - 1) /\ n \in 0..(Len(g) - 1) /\ n + 1 \in 1..k /\ n <= k
    OBVIOUS
  <2>2. ContentTo(f, n + 1) = ContentTo(f, n) \o Data(f[n + 1])
    BY <2>1, ContentStep
  <2>3. ContentTo(g, n + 1) = ContentTo(g, n) \o Data(g[n + 1])
    BY <2>1, ContentStep
  <2> QED
    BY <2>1, <2>2, <2>3
<1> HIDE DEF T
<1>3. T = Nat
  <2>1. T \in SUBSET Nat
    BY DEF T
  <2> QED
    BY <1>1, <1>2, <2>1, SetInduction
<1> QED
  BY <1>3 DEF T

LEMMA ContentAppend ==
  ASSUME NEW f \in Seq(Item), NEW x \in Item
  PROVE  /\ \A n \in 0..Len(f) : ContentTo(Append(f, x), n) = ContentTo(f, n)
         /\ Content(Append(f, x)) = Content(f) \o Data(x)
<1> DEFINE g == Append(f, x)
<1>1. /\ Len(f) \in Nat /\ Len(g) = Len(f) + 1 /\ g[Len(f) + 1] = x
      /\ \A i \in 1..Len(f) : g[i] = f[i]
  BY AppendProperties
<1> HIDE DEF g
<1>2. ASSUME NEW n \in 0..Len(f)
      PROVE  ContentTo(g, n) = ContentTo(f, n)
  <2>1. n \in Nat /\ n <= Len(f) /\ n <= Len(g) /\ Len(g) \in Nat
    BY <1>1
  <2>2. \A i \in 1..n : Data(g[i]) = Data(f[i])
    BY <1>1
  <2> QED
    BY <1>1, <2>1, <2>2, ContentSame
<1>3. ContentTo(g, Len(f) + 1) = ContentTo(g, Len(f)) \o Data(x)
  <2>1. Len(f) \in 0..(Len(g) - 1) /\ Len(g) \in Nat
    BY <1>1
  <2> QED
    BY <1>1, <2>1, ContentStep
<1>4. Len(f) \in 0..Len(f)
  BY <1>1
<1> QED
  BY <1>1, <1>2, <1>3, <1>4 DEF Content, g

Extends(f, m, k) == \E t \in Seq(Nat) : ContentTo(f, m) = ContentTo(f, k) \o t

\* What the first items hold is the beginning of what all hold.
LEMMA ContentFront ==
  ASSUME NEW f \in Seq(Item), NEW k \in 0..Len(f)
  PROVE  \E t \in Seq(Nat) : Content(f) = ContentTo(f, k) \o t
<1> DEFINE P(n) == \A m \in k..Len(f) : m = k + n => Extends(f, m, k)
           T == {n \in Nat : P(n)}
<1>0. Len(f) \in Nat /\ k \in Nat /\ k <= Len(f)
  OBVIOUS
<1>1. 0 \in T
  <2>1. ContentTo(f, k) = ContentTo(f, k) \o <<>> /\ <<>> \in Seq(Nat)
    BY ContentType, ConcatEmptySeq, EmptySeq
  <2>2. Extends(f, k, k)
    BY <2>1 DEF Extends
  <2> QED
    BY <1>0, <2>2
<1>2. ASSUME NEW n \in T PROVE n + 1 \in T
  <2>0. n \in Nat /\ P(n)
    OBVIOUS
  <2> HIDE DEF T
  <2> SUFFICES P(n + 1)
    BY <2>0 DEF T
  <2> SUFFICES ASSUME NEW m \in k..Len(f), m = k + (n + 1)
               PROVE  Extends(f, m, k)
    OBVIOUS
  <2>1. /\ m - 1 \in 0..(Len(f) - 1) /\ m \in 1..Len(f) /\ m - 1 \in k..Len(f)
        /\ m - 1 = k + n /\ (m - 1) + 1 = m
    BY <1>0, <2>0
  <2>2. PICK t \in Seq(Nat) : ContentTo(f, m - 1) = ContentTo(f, k) \o t
    BY <2>0, <2>1 DEF Extends
  <2> DEFINE d == Data(f[m])
             c == ContentTo(f, k)
  <2>3. d \in Seq(Nat) /\ c \in Seq(Nat)
    BY <2>1, ElementOfSeq, DataType, ContentType
  <2>4. ContentTo(f, m) = (c \o t) \o d
    BY <1>0, <2>1, <2>2, ContentStep
  <2> HIDE DEF c, d
  <2>5. (c \o t) \o d = c \o (t \o d) /\ t \o d \in Seq(Nat)
    BY <2>3, ConcatAssociative, ConcatProperties
  <2> QED
    BY <2>4, <2>5 DEF c, Extends
<1> HIDE DEF T
<1>3. T = Nat
  <2>1. T \in SUBSET Nat
    BY DEF T
  <2> QED
    BY <1>1, <1>2, <2>1, SetInduction
<1>4. Len(f) - k \in T /\ k + (Len(f) - k) = Len(f)
  BY <1>0, <1>3
<1>5. P(Len(f) - k)
  BY <1>4 DEF T
<1>6. Extends(f, Len(f), k)
  BY <1>0, <1>5
<1> QED
  BY <1>6 DEF Extends, Content

-----------------------------------------------------------------------------
(* Suffixes, byte by byte.                                                 *)
EndsWith(t, r) ==
  /\ Len(r) <= Len(t)
  /\ \A i \in 1..Len(r) : r[i] = t[Len(t) - Len(r) + i]

LEMMA Reversed ==
  ASSUME NEW S, NEW s \in Seq(S), NEW n \in 0..Len(s)
  PROVE  /\ SubSeq(Reverse(s), 1, n) \in Seq(S)
         /\ Len(SubSeq(Reverse(s), 1, n)) = n
         /\ \A i \in 1..n : SubSeq(Reverse(s), 1, n)[i] = s[Len(s) - i + 1]
         /\ Len(Reverse(s)) = Len(s)
<1>1. Len(s) \in Nat /\ \A i \in 1..Len(s) : s[i] \in S
  BY LenProperties, ElementOfSeq
<1>2. /\ Reverse(s) = [i \in 1..Len(s) |-> s[(Len(s) - i) + 1]]
      /\ \A i \in 1..Len(s) : (Len(s) - i) + 1 \in 1..Len(s)
  BY <1>1 DEF Reverse
<1>3. /\ Reverse(s) \in Seq(S) /\ Len(Reverse(s)) = Len(s)
      /\ \A i \in 1..Len(s) : Reverse(s)[i] = s[Len(s) - i + 1]
  BY <1>1, <1>2, IsASeq
<1> DEFINE r == Reverse(s)
<1> HIDE DEF r
<1>4. /\ SubSeq(r, 1, n) \in Seq(S)
      /\ Len(SubSeq(r, 1, n)) = (IF 1 <= n THEN n - 1 + 1 ELSE 0)
      /\ \A i \in 1..(n - 1 + 1) : SubSeq(r, 1, n)[i] = r[1 + i - 1]
  <2>1. \A i \in 1..n : r[i] \in S
    BY <1>1, <1>3, ElementOfSeq DEF r
  <2>2. 1 \in Int /\ n \in Int
    BY <1>1
  <2> QED
    BY <2>1, <2>2, SubSeqProperties
<1>5. /\ Len(SubSeq(r, 1, n)) = n
      /\ \A i \in 1..n : SubSeq(r, 1, n)[i] = r[i]
  BY <1>1, <1>4
<1> QED
  BY <1>1, <1>3, <1>4, <1>5 DEF r

LEMMA SuffixIs ==
  ASSUME NEW S, NEW r \in Seq(S), NEW t \in Seq(S)
  PROVE  IsSuffix(r, t) <=> EndsWith(t, r)
<1> DEFINE n == Len(r)
           a == SubSeq(Reverse(r), 1, n)
           b == SubSeq(Reverse(t), 1, n)
<1>1. n \in Nat /\ Len(t) \in Nat
  BY LenProperties
<1>2. /\ a \in Seq(S) /\ Len(a) = n /\ Len(Reverse(r)) = n
      /\ \A i \in 1..n : a[i] = r[n - i + 1]
  <2>1. n \in 0..Len(r)
    BY <1>1
  <2> QED
    BY <2>1, Reversed
<1>3. Len(Reverse(t)) = Len(t)
  <2>1. 0 \in 0..Len(t)
    BY <1>1
  <2> QED
    BY <2>1, Reversed
<1>4. IsSuffix(r, t) <=> n <= Len(t) /\ a = b
  BY <1>2, <1>3 DEF IsSuffix, IsPrefix
<1>5. ASSUME n <= Len(t)
      PROVE  a = b <=> \A i \in 1..n : r[i] = t[Len(t) - n + i]
  <2>1. /\ b \in Seq(S) /\ Len(b) = n
        /\ \A i \in 1..n : b[i] = t[Len(t) - i + 1]
    <3>1. n \in 0..Len(t)
      BY <1>1, <1>5
    <3> QED
      BY <3>1, Reversed
  <2> HIDE DEF a, b, n
  <2>2. a = b <=> \A i \in 1..n : a[i] = b[i]
    <3>1. ASSUME \A i \in 1..n : a[i] = b[i]
          PROVE  a = b
      BY <1>2, <2>1, <3>1, SeqEqual
    <3> QED
      BY <3>1
  <2>3. (\A i \in 1..n : a[i] = b[i])
          <=> \A i \in 1..n : r[n - i + 1] = t[Len(t) - i + 1]
    <3>1. \A i \in 1..n : a[i] = r[n - i + 1] /\ b[i] = t[Len(t) - i + 1]
      BY <1>2, <2>1
    <3>2. ASSUME \A i \in 1..n : a[i] = b[i], NEW i \in 1..n
          PROVE  r[n - i + 1] = t[Len(t) - i + 1]
      BY <3>1, <3>2
    <3>3. ASSUME \A i \in 1..n : r[n - i + 1] = t[Len(t) - i + 1],
                 NEW i \in 1..n
          PROVE  a[i] = b[i]
      BY <3>1, <3>3
    <3> QED
      BY <3>2, <3>3
  <2>4. (\A i \in 1..n : r[n - i + 1] = t[Len(t) - i + 1])
          <=> \A i \in 1..n : r[i] = t[Len(t) - n + i]
    <3>1. ASSUME \A i \in 1..n : r[n - i + 1] = t[Len(t) - i + 1],
                 NEW i \in 1..n
          PROVE  r[i] = t[Len(t) - n + i]
      <4>1. /\ n - i + 1 \in 1..n /\ n - (n - i + 1) + 1 = i
            /\ Len(t) - (n - i + 1) + 1 = Len(t) - n + i
        BY <1>1
      <4>2. r[n - (n - i + 1) + 1] = t[Len(t) - (n - i + 1) + 1]
        BY <3>1, <4>1
      <4> QED
        BY <4>1, <4>2
    <3>2. ASSUME \A i \in 1..n : r[i] = t[Len(t) - n + i],
                 NEW i \in 1..n
          PROVE  r[n - i + 1] = t[Len(t) - i + 1]
      <4>1. /\ n - i + 1 \in 1..n /\ Len(t) - n + (n - i + 1) = Len(t) - i + 1
        BY <1>1
      <4>2. r[n - i + 1] = t[Len(t) - n + (n - i + 1)]
        BY <3>2, <4>1
      <4> QED
        BY <4>1, <4>2
    <3> QED
      BY <3>1, <3>2
  <2> QED
    BY <2>2, <2>3, <2>4
<1> QED
  BY <1>4, <1>5 DEF EndsWith

LEMMA EndsWithTrans ==
  ASSUME NEW S, NEW r \in Seq(S), NEW s \in Seq(S), NEW t \in Seq(S),
         EndsWith(s, r), EndsWith(t, s)
  PROVE  EndsWith(t, r)
<1>1. Len(r) \in Nat /\ Len(s) \in Nat /\ Len(t) \in Nat
  BY LenProperties
<1>2. Len(r) <= Len(s) /\ Len(s) <= Len(t)
  BY DEF EndsWith
<1>3. ASSUME NEW i \in 1..Len(r)
      PROVE  r[i] = t[Len(t) - Len(r) + i]
  <2>1. /\ Len(s) - Len(r) + i \in 1..Len(s)
        /\ Len(t) - Len(s) + (Len(s) - Len(r) + i) = Len(t) - Len(r) + i
    BY <1>1, <1>2
  <2>2. r[i] = s[Len(s) - Len(r) + i]
    BY DEF EndsWith
  <2>3. s[Len(s) - Len(r) + i] = t[Len(t) - Len(s) + (Len(s) - Len(r) + i)]
    BY <2>1 DEF EndsWith
  <2> QED
    BY <2>1, <2>2, <2>3
<1> QED
  BY <1>1, <1>2, <1>3 DEF EndsWith

(* Of two suffixes of a string the longer one ends with the other.         *)
LEMMA EndsWithShorter ==
  ASSUME NEW S, NEW r \in Seq(S), NEW s \in Seq(S), NEW t \in Seq(S),
         EndsWith(t, r), EndsWith(t, s), Len(r) <= Len(s)
  PROVE  EndsWith(s, r)
<1>1. Len(r) \in Nat /\ Len(s) \in Nat /\ Len(t) \in Nat
  BY LenProperties
<1>2. Len(r) <= Len(s) /\ Len(s) <= Len(t)
  BY DEF EndsWith
<1>3. ASSUME NEW i \in 1..Len(r)
      PROVE  r[i] = s[Len(s) - Len(r) + i]
  <2>1. /\ Len(s) - Len(r) + i \in 1..Len(s)
        /\ Len(t) - Len(s) + (Len(s) - Len(r) + i) = Len(t) - Len(r) + i
    BY <1>1, <1>2
  <2>2. r[i] = t[Len(t) - Len(r) + i]
    BY DEF EndsWith
  <2>3. s[Len(s) - Len(r) + i] = t[Len(t) - Len(s) + (Len(s) - Len(r) + i)]
    BY <2>1 DEF EndsWith
  <2> QED
    BY <2>1, <2>2, <2>3
<1> QED
  BY <1>1, <1>2, <1>3 DEF EndsWith

(* What follows both, follows both.                                        *)
LEMMA EndsWithBoth ==
  ASSUME NEW S, NEW r \in Seq(S), NEW t \in Seq(S), NEW d \in Seq(S),
         EndsWith(t, r)
  PROVE  EndsWith(t \o d, r \o d)
<1> DEFINE rd == r \o d
           td == t \o d
<1>1. Len(r) \in Nat /\ Len(t) \in Nat /\ Len(d) \in Nat /\ Len(r) <= Len(t)
  BY LenProperties DEF EndsWith
<1>2. /\ Len(rd) = Len(r) + Len(d)
      /\ \A i \in 1..(Len(r) + Len(d)) :
           rd[i] = IF i <= Len(r) THEN r[i] ELSE d[i - Len(r)]
  BY ConcatProperties
<1>3. /\ Len(td) = Len(t) + Len(d)
      /\ \A i \in 1..(Len(t) + Len(d)) :
           td[i] = IF i <= Len(t) THEN t[i] ELSE d[i - Len(t)]
  BY ConcatProperties
<1> HIDE DEF rd, td
<1>4. ASSUME NEW i \in 1..Len(rd)
      PROVE  rd[i] = td[Len(td) - Len(rd) + i]
  <2> DEFINE j == Len(t) - Len(r) + i
  <2>1. /\ j \in 1..(Len(t) + Len(d)) /\ Len(td) - Len(rd) + i = j
        /\ (j <= Len(t) <=> i <= Len(r)) /\ j - Len(t) = i - Len(r)
        /\ i \in 1..(Len(r) + Len(d))
    BY <1>1, <1>2, <1>3
  <2>2. i <= Len(r) => r[i] = t[j]
    BY <1>1, <2>1 DEF EndsWith
  <2> HIDE DEF j
  <2> QED
    BY <1>2, <1>3, <2>1, <2>2
<1> QED
  BY <1>1, <1>2, <1>3, <1>4 DEF EndsWith, rd, td

LEMMA SubSeqEnd ==
  ASSUME NEW S, NEW s \in Seq(S), NEW m \in 1..Len(s)
  PROVE  /\ SubSeq(s, m, Len(s)) \in Seq(S)
         /\ Len(SubSeq(s, m, Len(s))) = Len(s) - m + 1
         /\ EndsWith(s, SubSeq(s, m, Len(s)))
<1> DEFINE r == SubSeq(s, m, Len(s))
<1>1. Len(s) \in Nat /\ m \in Int /\ m <= Len(s) /\ 1 <= m /\ Len(s) \in Int
  BY LenProperties
<1>2. /\ r \in Seq(S) /\ Len(r) = (IF m <= Len(s) THEN Len(s) - m + 1 ELSE 0)
      /\ \A i \in 1..(Len(s) - m + 1) : r[i] = s[m + i - 1]
  <2>1. \A i \in m..Len(s) : s[i] \in S
    BY <1>1, ElementOfSeq
  <2> QED
    BY <1>1, <2>1, SubSeqProperties
<1> HIDE DEF r
<1>3. Len(r) = Len(s) - m + 1 /\ Len(r) <= Len(s)
  BY <1>1, <1>2
<1>4. ASSUME NEW i \in 1..Len(r)
      PROVE  r[i] = s[Len(s) - Len(r) + i]
  <2>1. m + i - 1 = Len(s) - Len(r) + i
    BY <1>1, <1>3
  <2> QED
    BY <1>2, <1>3, <2>1
<1> QED
  BY <1>2, <1>3, <1>4 DEF EndsWith, r

Reach(s) == Enc!Coder!Reach(s)

LEMMA ReachIs ==
  ASSUME NEW S, NEW s \in Seq(S)
  PROVE  /\ Reach(s) \in Seq(S) /\ EndsWith(s, Reach(s))
         /\ Len(Reach(s)) = IF Len(s) > W THEN W ELSE Len(s)
<1>1. Len(s) \in Nat /\ W \in Nat \ {0}
  BY LenProperties, OldStreamAssumption
<1>2. CASE Len(s) > W
  <2> DEFINE m == Len(s) - W + 1
  <2>1. m \in 1..Len(s) /\ Len(s) - m + 1 = W
    BY <1>1, <1>2
  <2>2. Reach(s) = SubSeq(s, m, Len(s))
    BY <1>2 DEF Reach, Enc!Coder!Reach
  <2> HIDE DEF m
  <2>3. /\ SubSeq(s, m, Len(s)) \in Seq(S)
        /\ Len(SubSeq(s, m, Len(s))) = W
        /\ EndsWith(s, SubSeq(s, m, Len(s)))
    BY <2>1, SubSeqEnd
  <2> QED
    BY <1>2, <2>2, <2>3
<1>3. CASE ~(Len(s) > W)
  <2>1. EndsWith(s, s)
    BY <1>1 DEF EndsWith
  <2> QED
    BY <1>3, <2>1 DEF Reach, Enc!Coder!Reach
<1> QED
  BY <1>2, <1>3

LEMMA SavedIs ==
  ASSUME NEW S, NEW s \in Seq(S), NEW r \in Enc!Coder!Saved(s)
  PROVE  /\ r \in Seq(S) /\ Len(r) \in Nat /\ Len(r) <= W
         /\ EndsWith(s, r)
<1> DEFINE q == Reach(s)
<1>1. /\ q \in Seq(S) /\ EndsWith(s, q) /\ Len(q) <= W /\ Len(q) \in Nat
      /\ W \in Nat
  <2>1. Len(s) \in Nat /\ W \in Nat
    BY LenProperties, OldStreamAssumption
  <2> QED
    BY <2>1, ReachIs
<1>2. r \in {SubSeq(q, l, Len(q)) : l \in 1..Len(q)} \cup {<<>>}
  BY DEF Reach, Enc!Coder!Saved, Enc!Coder!Suffixes
<1> HIDE DEF q
<1>3. r \in Seq(S) /\ Len(r) \in Nat /\ Len(r) <= Len(q) /\ EndsWith(q, r)
  <2>1. CASE r = <<>>
    BY <1>1, <2>1, EmptySeq DEF EndsWith
  <2>2. ASSUME NEW l \in 1..Len(q), r = SubSeq(q, l, Len(q))
        PROVE  r \in Seq(S) /\ EndsWith(q, r)
    BY <1>1, <2>2, SubSeqEnd
  <2>3. r \in Seq(S) /\ EndsWith(q, r)
    BY <1>2, <2>1, <2>2
  <2> QED
    BY <2>3, LenProperties DEF EndsWith
<1>4. EndsWith(s, r)
  BY <1>1, <1>3, EndsWithTrans
<1> QED
  BY <1>1, <1>3, <1>4

(* What LZ4 saves of s is in reach at the end of a longer string t.        *)
LEMMA SavedInReach ==
  ASSUME NEW S, NEW s \in Seq(S), NEW t \in Seq(S), EndsWith(t, s),
         NEW r \in Enc!Coder!Saved(s)
  PROVE  EndsWith(Reach(t), r)
<1>1. r \in Seq(S) /\ Len(r) \in Nat /\ Len(r) <= W /\ EndsWith(s, r)
  BY SavedIs
<1>2. EndsWith(t, r)
  BY <1>1, EndsWithTrans
<1>3. /\ Reach(t) \in Seq(S) /\ EndsWith(t, Reach(t))
      /\ Len(r) <= Len(Reach(t))
  <2>1. Len(t) \in Nat /\ W \in Nat /\ Len(r) <= Len(t)
    BY <1>2, LenProperties, OldStreamAssumption DEF EndsWith
  <2> QED
    BY <1>1, <2>1, ReachIs
<1> QED
  BY <1>1, <1>2, <1>3, EndsWithShorter

\* Two ends of a string that are equally long.
LEMMA EndsEqual ==
  ASSUME NEW S, NEW r \in Seq(S), NEW s \in Seq(S), NEW t \in Seq(S),
         EndsWith(t, r), EndsWith(t, s), Len(r) = Len(s)
  PROVE  r = s
<1>1. \A i \in 1..Len(r) : r[i] = s[i]
  BY DEF EndsWith
<1> QED
  BY <1>1, SeqEqual

LEMMA EmptyEnds ==
  ASSUME NEW S, NEW t \in Seq(S)
  PROVE  EndsWith(t, <<>>)
BY LenProperties DEF EndsWith

\* What precedes the reach of a match can be forgotten.
LEMMA ReachForgets ==
  ASSUME NEW S, NEW s \in Seq(S), NEW d \in Seq(S)
  PROVE  Reach(Reach(s) \o d) = Reach(s \o d)
<1> DEFINE q == Reach(s)
           a == q \o d
           b == s \o d
<1>1. /\ q \in Seq(S) /\ EndsWith(s, q) /\ Len(q) = IF Len(s) > W THEN W ELSE Len(s)
      /\ Len(s) \in Nat /\ Len(d) \in Nat /\ W \in Nat
  BY ReachIs, LenProperties, OldStreamAssumption
<1> HIDE DEF q
<1>2. /\ a \in Seq(S) /\ b \in Seq(S) /\ EndsWith(b, a)
      /\ Len(a) = Len(q) + Len(d) /\ Len(b) = Len(s) + Len(d)
  BY <1>1, ConcatProperties, EndsWithBoth
<1> HIDE DEF a, b
<1>3. /\ Reach(a) \in Seq(S) /\ EndsWith(a, Reach(a)) /\ Len(Reach(a)) = IF Len(a) > W THEN W ELSE Len(a)
      /\ Reach(b) \in Seq(S) /\ EndsWith(b, Reach(b)) /\ Len(Reach(b)) = IF Len(b) > W THEN W ELSE Len(b)
  BY <1>2, ReachIs
<1>4. EndsWith(b, Reach(a))
  BY <1>2, <1>3, EndsWithTrans
<1>5. Len(Reach(a)) = Len(Reach(b))
  BY <1>1, <1>2, <1>3
<1>6. Reach(a) = Reach(b)
  BY <1>2, <1>3, <1>4, <1>5, EndsEqual
<1> QED
  BY <1>6 DEF a, b, q

-----------------------------------------------------------------------------
(* The encoder.                                                            *)
EPCs == {"idle", "slice", "code", "size", "payload", "sum", "end", "streamsum", "flush"}

EncoderTypes ==
  /\ opts \in Option /\ buf \in Seq(Nat) /\ inputproxy \in Seq(Nat) /\ w \in Block
  /\ io \in Seq(Item) /\ io # <<>> /\ io[1] = Enc!Header(opts)
  /\ summed \in Seq(Nat) /\ epc \in EPCs /\ eop \in {"none", "write", "close"}
  /\ closed \in BOOLEAN /\ given \in Nat
  /\ stream \in Seq(Nat) /\ prefix \in Seq(Nat)
  /\ taken \in Seq(Nat) /\ raised \in Seq({"coder", "port"})
  /\ Len(buf) <= BlockSize /\ given <= MaxWritten /\ Len(stream) <= W /\ Len(prefix) <= W

NoPort == ~Contains(raised, "port")
NoCoder == ~Contains(raised, "coder")

\* What was pushed and, when it has been coded, what is to be pushed.
Whole == IF epc \in {"size", "payload"} THEN Content(io) \o buf ELSE Content(io)

Accounted ==
  /\ taken = IF epc = "sum" THEN Content(io) ELSE Content(io) \o buf
  /\ epc \in {"size", "payload", "sum"} => w.data = buf
  /\ opts.streamsum => summed = Whole
  /\ opts.streamsum /\ (closed \/ epc = "flush") => Last(io).of = Content(io)

\* A size may follow.
Between(f) ==
  \/ Last(f).item = "header"
  \/ Last(f).item = "payload" /\ ~f[1].opts.blocksum
  \/ Last(f).item = "sum" /\ Len(f) > 1 /\ f[Len(f) - 1].item = "payload"

Complete(f) ==
  IF f[1].opts.streamsum
    THEN Last(f).item = "sum" /\ Len(f) > 1 /\ f[Len(f) - 1] = Enc!EndMark
    ELSE Last(f) = Enc!EndMark

Shaped ==
  /\ Formed(io)
  /\ epc \in {"size", "payload", "sum"} => w.n \in 1..BlockSize
  /\ closed => Complete(io)
  /\ ~closed =>
       /\ epc \in {"idle", "slice", "code", "size", "end"} => Between(io)
       /\ epc = "payload" => Last(io) = Enc!SizeWord(w.literal, w.n)
       /\ epc = "sum" => Last(io).item = "payload" /\ opts.blocksum
       /\ epc = "streamsum" => Last(io) = Enc!EndMark /\ opts.streamsum
       /\ epc = "flush" => Complete(io)

Literals(f) == {i \in DOMAIN f : f[i].item = "payload" /\ f[i].block.literal}
AllFull(f) == \A i \in Literals(f) : f[i].block.n = BlockSize
Full(f) ==
  \A i, j \in DOMAIN f :
    i \in Literals(f) /\ i < j /\ f[j].item = "payload" => f[i].block.n = BlockSize

Sized ==
  /\ Full(io)
  /\ \A i \in DOMAIN io : io[i].item = "payload" => io[i].block.n \in 1..BlockSize
  /\ epc # "idle" => eop \in {"write", "close"}
  /\ epc = "slice" => eop = "write"
  /\ epc \in {"code", "size", "payload", "sum"} => buf # <<>>
  /\ epc \in {"code", "size", "payload", "sum"} /\ eop = "write" => Len(buf) = BlockSize
  /\ epc \in {"size", "payload", "sum"} /\ w.literal => w.n = Len(buf)
  /\ ~closed /\ epc \notin {"end", "streamsum", "flush"} /\ (epc = "sum" => eop = "write")
       => AllFull(io)

Linked ==
  /\ InReach(io)
  /\ opts.linked => EndsWith(Reach(Whole), stream)
  /\ epc \in {"size", "payload"} /\ w.refers # <<>>
       => opts.linked /\ EndsWith(Reach(Content(io)), w.refers)

EncoderIs ==
  /\ EncoderTypes
  /\ NoPort => Accounted /\ Shaped /\ Sized /\ (NoCoder => Linked)

-----------------------------------------------------------------------------
(* Types.                                                                  *)
LEMMA BlocksAre ==
  ASSUME EncoderTypes, NEW b \in Enc!Blocks(buf)
  PROVE  /\ b \in Block /\ b.data = buf
         /\ buf # <<>> => b.n \in 1..Len(buf)
         /\ b.literal => b.n = Len(buf)
         /\ b.refers # <<>> => opts.linked /\ b.refers = stream
<1>1. buf \in Seq(Nat) /\ stream \in Seq(Nat) /\ Len(buf) \in Nat /\ <<>> \in Seq(Nat)
  BY LenProperties, EmptySeq DEF EncoderTypes
<1>2. CASE b = Enc!Literal(buf)
  BY <1>1, <1>2, EmptySeq DEF Enc!Literal, Block
<1>3. ASSUME NEW n \in 1..(Len(buf) - 1),
             b = Enc!Coded(n, buf, IF opts.linked THEN stream ELSE <<>>)
      PROVE  /\ b \in Block /\ b.data = buf
             /\ buf # <<>> => b.n \in 1..Len(buf)
             /\ b.literal => b.n = Len(buf)
             /\ b.refers # <<>> => opts.linked /\ b.refers = stream
  BY <1>1, <1>3 DEF Enc!Coded, Block
<1> QED
  BY <1>2, <1>3 DEF Enc!Blocks

LEMMA SavedTypes ==
  ASSUME EncoderTypes, stream' \in Enc!Coder!Saved(stream \o buf) \cup {stream}
  PROVE  stream' \in Seq(Nat) /\ Len(stream') <= W
<1> DEFINE q == stream \o buf
<1>1. stream \in Seq(Nat) /\ buf \in Seq(Nat) /\ Len(stream) <= W
  BY DEF EncoderTypes
<1>2. q \in Seq(Nat)
  BY <1>1, ConcatProperties
<1> HIDE DEF q
<1>3. \A r \in Enc!Coder!Saved(q) : r \in Seq(Nat) /\ Len(r) <= W
  BY <1>2, SavedIs
<1> QED
  BY <1>1, <1>3 DEF q

LEMMA RaisedTypes ==
  ASSUME raised \in Seq({"coder", "port"}), NEW x \in {"coder", "port"}, raised' = Append(raised, x)
  PROVE  /\ raised' \in Seq({"coder", "port"})
         /\ \A y : Contains(raised', y) <=> y = x \/ Contains(raised, y)
<1>1. /\ Len(raised) \in Nat /\ Len(raised') = Len(raised) + 1 /\ raised'[Len(raised) + 1] = x
      /\ \A i \in 1..Len(raised) : raised'[i] = raised[i]
      /\ raised' \in Seq({"coder", "port"})
  BY AppendProperties
<1> QED
  BY <1>1 DEF Contains

LEMMA PushTypes ==
  ASSUME EncoderTypes, NEW pc \in EPCs, NEW x \in Item, NEW next \in EPCs, Enc!Push(pc, x, next),
         buf' \in {buf, <<>>}
  PROVE  EncoderTypes'
<1>1. io' \in Seq(Item) /\ io' # <<>> /\ io'[1] = io[1]
  <2>1. io \in Seq(Item) /\ io # <<>> /\ io' = Append(io, x)
    BY DEF EncoderTypes, Enc!Push
  <2>2. 1 \in 1..Len(io)
    BY <2>1, EmptySeq
  <2> QED
    BY <2>1, <2>2, AppendProperties
<1>2. buf' \in Seq(Nat) /\ Len(buf') <= BlockSize
  <2>1. <<>> \in Seq(Nat) /\ Len(<<>>) = 0 /\ BlockSize \in Nat
    BY EmptySeq, OldStreamAssumption
  <2>2. buf \in Seq(Nat) /\ Len(buf) <= BlockSize
    BY DEF EncoderTypes
  <2>3. CASE buf' = buf
    BY <2>2, <2>3
  <2>4. CASE buf' = <<>>
    <3>1. Len(buf') = 0 /\ 0 <= BlockSize
      BY <2>1, <2>4
    <3> QED
      BY <2>1, <2>4, <3>1
  <2> QED
    BY <2>3, <2>4
<1> QED
  BY <1>1, <1>2 DEF EncoderTypes, Enc!Push, Enc!Header, Enc!coder, Enc!hist

LEMMA StepTypes == EncoderTypes /\ Enc!EncoderStep => EncoderTypes'
<1> SUFFICES ASSUME EncoderTypes, Enc!EncoderStep PROVE EncoderTypes'
  OBVIOUS
<1>0. w \in Block /\ summed \in Seq(Nat) /\ w.literal \in BOOLEAN /\ w.n \in Nat
  BY BlockIs DEF EncoderTypes
<1>1. CASE Enc!TakeSlice
  <2> DEFINE room == BlockSize - Len(buf)
             n == IF room < Len(inputproxy) THEN room ELSE Len(inputproxy)
             slice == SubSeq(inputproxy, 1, n)
             left == SubSeq(inputproxy, n + 1, Len(inputproxy))
  <2>1. /\ Len(inputproxy) \in Nat /\ Len(buf) \in Nat /\ Len(buf) <= BlockSize
        /\ BlockSize \in Nat /\ inputproxy \in Seq(Nat) /\ buf \in Seq(Nat) /\ taken \in Seq(Nat)
    BY LenProperties, OldStreamAssumption DEF EncoderTypes
  <2>2. n \in 0..Len(inputproxy) /\ n <= room /\ room \in Nat
    BY <2>1
  <2>3. slice \in Seq(Nat) /\ Len(slice) = n
    <3>1. \A i \in 1..n : inputproxy[i] \in Nat
      BY <2>1, <2>2, ElementOfSeq
    <3> HIDE DEF n
    <3>2. 1 \in Int /\ n \in Int
      BY <2>1, <2>2
    <3> QED
      BY <2>1, <2>2, <3>1, <3>2, SubSeqProperties
  <2>4. left \in Seq(Nat)
    <3>1. \A i \in (n + 1)..Len(inputproxy) : inputproxy[i] \in Nat
      BY <2>1, <2>2, ElementOfSeq
    <3> HIDE DEF n
    <3>2. n + 1 \in Int /\ Len(inputproxy) \in Int
      BY <2>1, <2>2
    <3> QED
      BY <3>1, <3>2, SubSeqProperties
  <2>5. buf' = buf \o slice /\ taken' = taken \o slice /\ inputproxy' = left
    BY <1>1 DEF Enc!TakeSlice
  <2> HIDE DEF slice, left, n
  <2>6. buf' \in Seq(Nat) /\ taken' \in Seq(Nat) /\ Len(buf') <= BlockSize
    BY <2>1, <2>2, <2>3, <2>5, ConcatProperties
  <2>7. epc' \in EPCs
    BY <1>1 DEF Enc!TakeSlice, EPCs
  <2> QED
    BY <1>1, <2>4, <2>5, <2>6, <2>7 DEF Enc!TakeSlice, EncoderTypes, Enc!coder
<1>2. CASE Enc!WriteReturns
  BY <1>2 DEF Enc!WriteReturns, EncoderTypes, EPCs, Enc!coder, Enc!hist
<1>3. CASE Enc!CodeBlock
  <2>1. stream' \in Enc!Coder!Saved(stream \o buf) \cup {stream} /\ prefix' \in {stream', prefix}
    BY <1>3 DEF Enc!CodeBlock, Enc!Coder!blkenc_update, Enc!coder
  <2>2. stream' \in Seq(Nat) /\ Len(stream') <= W
    BY <2>1, SavedTypes
  <2>3. w' \in Block
    BY <1>3, BlocksAre DEF Enc!CodeBlock
  <2>4. summed' \in Seq(Nat)
    BY <1>3, ConcatProperties DEF Enc!CodeBlock, EncoderTypes
  <2> QED
    BY <1>3, <2>1, <2>2, <2>3, <2>4 DEF Enc!CodeBlock, EncoderTypes, EPCs, Enc!hist
<1>4. CASE Enc!CodeRaises
  <2>1. stream' \in Enc!Coder!Saved(stream \o buf) \cup {stream} /\ prefix' = prefix
    BY <1>4 DEF Enc!CodeRaises, Enc!Coder!UpdateRaises, Enc!coder
  <2>2. stream' \in Seq(Nat) /\ Len(stream') <= W
    BY <2>1, SavedTypes
  <2>3. raised' \in Seq({"coder", "port"})
    BY <1>4, RaisedTypes DEF Enc!CodeRaises, EncoderTypes
  <2> QED
    BY <1>4, <2>1, <2>2, <2>3, EmptySeq DEF Enc!CodeRaises, EncoderTypes, EPCs
<1>5. CASE Enc!PushSize
  <2>1. Enc!SizeWord(w.literal, w.n) \in Item
    BY <1>0 DEF Enc!SizeWord, Item
  <2> QED
    BY <1>5, <2>1, PushTypes DEF Enc!PushSize, EPCs
<1>6. CASE Enc!PushPayload
  <2>1. Enc!Payload(w) \in Item
    BY <1>0 DEF Enc!Payload, Item
  <2>2. Enc!AfterBlock \in EPCs
    BY DEF Enc!AfterBlock, EPCs
  <2> QED
    BY <1>6, <2>1, <2>2, PushTypes DEF Enc!PushPayload, EPCs
<1>7. CASE Enc!PushSum
  <2>1. Enc!BlockSum(w) \in Item
    BY <1>0 DEF Enc!BlockSum, Item
  <2>2. Enc!AfterBlock \in EPCs
    BY DEF Enc!AfterBlock, EPCs
  <2> QED
    BY <1>7, <2>1, <2>2, PushTypes DEF Enc!PushSum, EPCs
<1>8. CASE Enc!PushEnd
  <2>1. Enc!EndMark \in Item
    BY DEF Enc!EndMark, Enc!SizeWord, Item
  <2> QED
    BY <1>8, <2>1, PushTypes DEF Enc!PushEnd, EPCs
<1>9. CASE Enc!PushStreamSum
  <2>1. Enc!Checksum(summed) \in Item
    BY <1>0 DEF Enc!Checksum, Item
  <2> QED
    BY <1>9, <2>1, PushTypes DEF Enc!PushStreamSum, EPCs
<1>10. CASE Enc!Flush
  BY <1>10 DEF Enc!Flush, EncoderTypes, EPCs, Enc!coder, Enc!hist
<1>11. CASE Enc!PortRaises
  <2>1. raised' \in Seq({"coder", "port"})
    BY <1>11, RaisedTypes DEF Enc!PortRaises, EncoderTypes
  <2> QED
    BY <1>11, <2>1, EmptySeq DEF Enc!PortRaises, EncoderTypes, EPCs, Enc!coder
<1> QED
  BY <1>1, <1>2, <1>3, <1>4, <1>5, <1>6, <1>7, <1>8, <1>9, <1>10, <1>11 DEF Enc!EncoderStep

LEMMA EncodeTypes == EncoderTypes /\ Enc!Encode => EncoderTypes'
<1> SUFFICES ASSUME EncoderTypes, Enc!Encode PROVE EncoderTypes'
  OBVIOUS
<1>1. ASSUME NEW n \in WriteSizes, Enc!write(n) PROVE EncoderTypes'
  <2>1. n \in Nat /\ given \in Nat
    BY OldStreamAssumption DEF EncoderTypes
  <2>2. inputproxy' \in Seq(Nat)
    <3>1. \A i \in 1..n : given + i \in Nat
      BY <2>1
    <3>2. [i \in 1..n |-> given + i] \in Seq(Nat)
      BY <2>1, <3>1, IsASeq
    <3> QED
      BY <1>1, <3>2 DEF Enc!write
  <2> QED
    BY <1>1, <2>1, <2>2, OldStreamAssumption DEF Enc!write, EncoderTypes, EPCs, Enc!coder, Enc!hist
<1>2. CASE Enc!close
  BY <1>2 DEF Enc!close, EncoderTypes, EPCs, Enc!coder, Enc!hist
<1>3. CASE Enc!EncoderStep
  BY <1>3, StepTypes
<1> QED
  BY <1>1, <1>2, <1>3 DEF Enc!Encode

-----------------------------------------------------------------------------
(* Every byte once.                                                        *)
LEMMA ContentNow == ASSUME EncoderTypes PROVE Content(io) \in Seq(Nat) /\ Len(io) \in Nat
<1>1. io \in Seq(Item) /\ Len(io) \in Nat /\ Len(io) \in 0..Len(io)
  BY LenProperties DEF EncoderTypes
<1> QED
  BY <1>1, ContentType DEF Content

LEMMA PushContent ==
  ASSUME EncoderTypes, NEW pc, NEW x \in Item, NEW next, Enc!Push(pc, x, next)
  PROVE  /\ io' = Append(io, x) /\ Content(io') = Content(io) \o Data(x)
         /\ \A n \in 0..Len(io) : ContentTo(io', n) = ContentTo(io, n)
         /\ Len(io') = Len(io) + 1 /\ io'[Len(io) + 1] = x /\ Last(io') = x
         /\ \A i \in 1..Len(io) : io'[i] = io[i]
         /\ Len(io) \in Nat \ {0} /\ io'[1] = io[1]
<1>1. io \in Seq(Item) /\ io' = Append(io, x) /\ Len(io) \in Nat \ {0}
  BY EmptySeq DEF EncoderTypes, Enc!Push
<1>2. /\ Len(io') = Len(io) + 1 /\ io'[Len(io) + 1] = x
      /\ \A i \in 1..Len(io) : io'[i] = io[i]
  BY <1>1, AppendProperties
<1>3. 1 \in 1..Len(io)
  BY <1>1
<1> QED
  BY <1>1, <1>2, <1>3, ContentAppend DEF Last

\* A call that was not ended by the port leaves it so.
LEMMA PortFirst == EncoderTypes /\ Enc!Encode /\ NoPort' => NoPort /\ ~Enc!PortRaises
<1> SUFFICES ASSUME EncoderTypes, Enc!Encode, NoPort' PROVE NoPort /\ ~Enc!PortRaises
  OBVIOUS
<1>0. raised \in Seq({"coder", "port"})
  BY DEF EncoderTypes
<1>1. CASE raised' = raised
  <2>1. ~Enc!PortRaises
    <3> SUFFICES ASSUME Enc!PortRaises PROVE FALSE
      OBVIOUS
    <3>1. Len(raised) \in Nat /\ Len(raised') = Len(raised) + 1
      BY <1>0, AppendProperties DEF Enc!PortRaises
    <3> QED
      BY <1>1, <3>1
  <2> QED
    BY <1>1, <2>1 DEF NoPort, Contains
<1>2. CASE Enc!CodeRaises \/ Enc!PortRaises
  <2>1. \E x \in {"coder", "port"} : raised' = Append(raised, x) /\ (Enc!PortRaises => x = "port")
    <3>1. CASE Enc!PortRaises
      BY <3>1 DEF Enc!PortRaises
    <3>2. CASE ~Enc!PortRaises
      BY <1>2, <3>2 DEF Enc!CodeRaises
    <3> QED
      BY <3>1, <3>2
  <2> QED
    BY <1>0, <2>1, RaisedTypes DEF NoPort
<1>3. raised' = raised \/ Enc!CodeRaises \/ Enc!PortRaises
  BY DEF Enc!Encode, Enc!EncoderStep, Enc!write, Enc!close, Enc!TakeSlice, Enc!WriteReturns,
         Enc!CodeBlock, Enc!Push, Enc!PushSize, Enc!PushPayload, Enc!PushSum, Enc!PushEnd,
         Enc!PushStreamSum, Enc!Flush, Enc!hist
<1> QED
  BY <1>1, <1>2, <1>3

\* The code that moves no byte.
LEMMA QuietAccount ==
  ASSUME Accounted, EncoderTypes, UNCHANGED <<opts, io, buf, summed, taken>>,
         epc \in {"idle", "slice", "code", "flush"},
         epc' \in {"idle", "slice", "code", "end"},
         closed' = closed \/ epc = "flush"
  PROVE  Accounted'
BY DEF Accounted, Whole

LEMMA SliceAccount == EncoderTypes /\ Accounted /\ Enc!TakeSlice => Accounted'
<1> SUFFICES ASSUME EncoderTypes, Accounted, Enc!TakeSlice PROVE Accounted'
  OBVIOUS
<1> DEFINE room == BlockSize - Len(buf)
           n == IF room < Len(inputproxy) THEN room ELSE Len(inputproxy)
           slice == SubSeq(inputproxy, 1, n)
           held == Content(io)
<1>1. /\ buf' = buf \o slice /\ taken' = taken \o slice /\ epc = "slice"
      /\ epc' \in {"code", "slice"} /\ UNCHANGED <<opts, io, summed, closed, w>>
  BY DEF Enc!TakeSlice
<1>2. slice \in Seq(Nat) /\ buf \in Seq(Nat) /\ held \in Seq(Nat)
  <2>1. Len(inputproxy) \in Nat /\ Len(buf) \in Nat /\ BlockSize \in Nat /\ inputproxy \in Seq(Nat)
    BY LenProperties, OldStreamAssumption DEF EncoderTypes
  <2>2. n \in Int /\ 1 \in Int /\ n <= Len(inputproxy)
    BY <2>1
  <2> HIDE DEF n
  <2>3. \A i \in 1..n : inputproxy[i] \in Nat
    BY <2>1, <2>2, ElementOfSeq
  <2> QED
    BY <2>2, <2>3, SubSeqProperties, ContentNow DEF EncoderTypes
<1> HIDE DEF slice
<1>3. taken = held \o buf
  BY <1>1 DEF Accounted
<1>4. (held \o buf) \o slice = held \o (buf \o slice)
  <2> HIDE DEF held
  <2> QED
    BY <1>2, ConcatAssociative
<1>5. taken' = Content(io') \o buf'
  BY <1>1, <1>3, <1>4
<1> QED
  BY <1>1, <1>5 DEF Accounted, Whole

LEMMA CodeAccount == EncoderTypes /\ Accounted /\ Enc!CodeBlock => Accounted'
<1> SUFFICES ASSUME EncoderTypes, Accounted, Enc!CodeBlock PROVE Accounted'
  OBVIOUS
<1>1. w'.data = buf
  BY BlocksAre DEF Enc!CodeBlock
<1> QED
  BY <1>1 DEF Enc!CodeBlock, Enc!hist, Accounted, Whole

LEMMA NoData == ASSUME NEW x, x.item # "payload" PROVE Data(x) = <<>>
BY DEF Data

LEMMA PushAccount ==
  ASSUME EncoderTypes, Accounted,
         Enc!PushSize \/ Enc!PushPayload \/ Enc!PushSum \/ Enc!PushEnd \/ Enc!PushStreamSum
  PROVE  Accounted'
<1> DEFINE held == Content(io)
<1>0. /\ held \in Seq(Nat) /\ held \o <<>> = held /\ w \in Block /\ summed \in Seq(Nat) /\ buf \in Seq(Nat)
      /\ w.literal \in BOOLEAN /\ w.n \in Nat /\ (held \o buf) \o <<>> = held \o buf
  BY ContentNow, ConcatEmptySeq, ConcatProperties, BlockIs DEF EncoderTypes
<1>1. CASE Enc!PushSize
  <2>1. Enc!SizeWord(w.literal, w.n) \in Item /\ Data(Enc!SizeWord(w.literal, w.n)) = <<>>
    BY <1>0, NoData DEF Enc!SizeWord, Item
  <2>2. Content(io') = held
    BY <1>0, <1>1, <2>1, PushContent DEF Enc!PushSize
  <2> QED
    BY <1>1, <2>2 DEF Enc!PushSize, Enc!Push, Enc!hist, Accounted, Whole
<1>2. CASE Enc!PushPayload
  <2>1. Enc!Payload(w) \in Item /\ Data(Enc!Payload(w)) = w.data
    BY <1>0 DEF Enc!Payload, Item, Data
  <2>2. Content(io') = held \o buf
    BY <1>2, <2>1, PushContent DEF Enc!PushPayload, Enc!Push, Accounted
  <2>3. taken = held \o buf /\ (opts.streamsum => summed = held \o buf) /\ w.data = buf
    BY <1>2 DEF Enc!PushPayload, Enc!Push, Accounted, Whole
  <2>4. epc' \in {"sum", "end", "slice"} /\ (epc' = "sum" <=> opts.blocksum)
    BY <1>2 DEF Enc!PushPayload, Enc!Push, Enc!AfterBlock
  <2>5. /\ UNCHANGED <<opts, w, summed, closed, taken>> /\ ~closed
        /\ buf' = IF opts.blocksum THEN buf ELSE <<>>
    BY <1>2 DEF Enc!PushPayload, Enc!Push, Enc!hist
  <2> QED
    BY <1>0, <2>2, <2>3, <2>4, <2>5 DEF Accounted, Whole
<1>3. CASE Enc!PushSum
  <2>1. Enc!BlockSum(w) \in Item /\ Data(Enc!BlockSum(w)) = <<>>
    BY <1>0, NoData DEF Enc!BlockSum, Item
  <2>2. Content(io') = held
    BY <1>0, <1>3, <2>1, PushContent DEF Enc!PushSum
  <2>3. epc' \in {"end", "slice"}
    BY <1>3 DEF Enc!PushSum, Enc!Push, Enc!AfterBlock
  <2> QED
    BY <1>0, <1>3, <2>2, <2>3 DEF Enc!PushSum, Enc!Push, Enc!hist, Accounted, Whole
<1>4. CASE Enc!PushEnd
  <2>1. Enc!EndMark \in Item /\ Data(Enc!EndMark) = <<>>
    BY NoData DEF Enc!EndMark, Enc!SizeWord, Item
  <2>2. Content(io') = held
    BY <1>0, <1>4, <2>1, PushContent DEF Enc!PushEnd
  <2> QED
    BY <1>4, <2>2 DEF Enc!PushEnd, Enc!Push, Enc!hist, Accounted, Whole
<1>5. CASE Enc!PushStreamSum
  <2>1. /\ Enc!Checksum(summed) \in Item /\ Data(Enc!Checksum(summed)) = <<>>
        /\ Enc!Checksum(summed).of = summed
    BY <1>0, NoData DEF Enc!Checksum, Item
  <2>2. Content(io') = held /\ Last(io') = Enc!Checksum(summed)
    BY <1>0, <1>5, <2>1, PushContent DEF Enc!PushStreamSum
  <2> QED
    BY <1>5, <2>1, <2>2 DEF Enc!PushStreamSum, Enc!Push, Enc!hist, Accounted, Whole
<1> QED
  BY <1>1, <1>2, <1>3, <1>4, <1>5

LEMMA EncodeAccount == EncoderTypes /\ (NoPort => Accounted) /\ Enc!Encode => (NoPort => Accounted)'
<1> SUFFICES ASSUME EncoderTypes, Accounted, Enc!Encode, ~Enc!PortRaises PROVE Accounted'
  BY PortFirst
<1>1. CASE (\E n \in WriteSizes : Enc!write(n)) \/ Enc!close \/ Enc!WriteReturns \/ Enc!CodeRaises \/ Enc!Flush
  <2>1. /\ UNCHANGED <<opts, io, buf, summed, taken>>
        /\ epc \in {"idle", "slice", "code", "flush"}
        /\ epc' \in {"idle", "slice", "code", "end"}
        /\ closed' = closed \/ epc = "flush"
    BY <1>1 DEF Enc!write, Enc!close, Enc!Ready, Enc!WriteReturns, Enc!CodeRaises, Enc!Flush, Enc!hist
  <2> QED
    BY <2>1, QuietAccount
<1> QED
  BY <1>1, SliceAccount, CodeAccount, PushAccount DEF Enc!Encode, Enc!EncoderStep

LEMMA InitAccount == Enc!Init => EncoderTypes /\ Accounted
<1> SUFFICES ASSUME Enc!Init PROVE EncoderTypes /\ Accounted
  OBVIOUS
<1>1. opts \in Option /\ Enc!Header(opts) \in Item /\ Data(Enc!Header(opts)) = <<>>
  BY OldStreamAssumption, NoData DEF Enc!Init, Enc!Header, Item
<1>2. /\ <<>> \in Seq(Nat) /\ <<>> \in Seq(Item) /\ <<>> \in Seq({"coder", "port"}) /\ Len(<<>>) = 0
      /\ BlockSize \in Nat /\ W \in Nat /\ MaxWritten \in Nat
  BY EmptySeq, OldStreamAssumption
<1>3. io \in Seq(Item) /\ io # <<>> /\ io[1] = Enc!Header(opts) /\ Len(io) = 1
  BY <1>1 DEF Enc!Init
<1>4. Enc!Literal(<<>>) \in Block
  BY <1>2 DEF Enc!Literal, Block
<1>5. EncoderTypes
  <2>1. /\ buf = <<>> /\ inputproxy = <<>> /\ stream = <<>> /\ prefix = <<>> /\ taken = <<>>
        /\ raised = <<>> /\ summed = <<>> /\ w = Enc!Literal(<<>>)
        /\ epc = "idle" /\ eop = "none" /\ closed = FALSE /\ given = 0
    BY DEF Enc!Init
  <2>2. Len(<<>>) <= BlockSize /\ Len(<<>>) <= W /\ given <= MaxWritten /\ given \in Nat
    BY <1>2, <2>1
  <2> QED
    BY <1>1, <1>2, <1>3, <1>4, <2>1, <2>2 DEF EncoderTypes, EPCs
<1>6. Content(io) = <<>>
  <2>1. 0 \in 0..(Len(io) - 1) /\ Len(io) \in Nat /\ Len(io) = 0 + 1
    BY <1>3
  <2>2. ContentTo(io, 0 + 1) = ContentTo(io, 0) \o Data(io[0 + 1])
    BY <2>1, ContentStep
  <2>3. ContentTo(io, 0) = <<>> /\ io[0 + 1] = Enc!Header(opts)
    BY <1>3, <2>1, ContentStart
  <2> QED
    BY <1>1, <1>2, <2>1, <2>2, <2>3, ConcatEmptySeq DEF Content
<1>7. <<>> \o <<>> = <<>>
  BY <1>2, ConcatEmptySeq
<1> QED
  BY <1>5, <1>6, <1>7 DEF Enc!Init, Accounted, Whole

-----------------------------------------------------------------------------
(* The shape of what is pushed.                                            *)
LEMMA FormedAppend ==
  ASSUME NEW f \in Seq(Item), Formed(f), NEW x \in Item, NEW g, g = Append(f, x),
         Follows(g, Len(f))
  PROVE  Formed(g)
<1>1. /\ Len(f) \in Nat \ {0} /\ g \in Seq(Item) /\ g # <<>> /\ Len(g) = Len(f) + 1
      /\ \A i \in 1..Len(f) : g[i] = f[i]
  BY AppendProperties, EmptySeq DEF Formed
<1>2. g[1].item \in {"header", "legacy"}
  BY <1>1 DEF Formed
<1>3. ASSUME NEW i \in 1..(Len(f) - 1) PROVE Follows(g, i)
  <2>1. /\ i \in 1..Len(f) /\ i + 1 \in 1..Len(f) /\ 1 \in 1..Len(f) /\ i \in Nat
        /\ (i > 1 => i - 1 \in 1..Len(f))
    BY <1>1
  <2>2. g[i] = f[i] /\ g[i + 1] = f[i + 1] /\ g[1] = f[1] /\ (i > 1 => g[i - 1] = f[i - 1])
    BY <1>1, <2>1
  <2>3. Follows(f, i)
    BY DEF Formed
  <2> QED
    BY <2>2, <2>3 DEF Follows
<1>4. ASSUME NEW i \in 1..(Len(g) - 1) PROVE Follows(g, i)
  <2>1. i = Len(f) \/ i \in 1..(Len(f) - 1)
    BY <1>1
  <2> QED
    BY <1>3, <2>1
<1> QED
  BY <1>1, <1>2, <1>4 DEF Formed

LEMMA BetweenFollows ==
  ASSUME NEW f \in Seq(Item), f # <<>>, Between(f), NEW x \in Item, NEW g, g = Append(f, x),
         x.item = "size"
  PROVE  Follows(g, Len(f))
<1>1. /\ Len(f) \in Nat \ {0} /\ Len(g) = Len(f) + 1 /\ g[Len(f) + 1] = x
      /\ \A i \in 1..Len(f) : g[i] = f[i]
  BY AppendProperties, EmptySeq
<1>2. /\ g[Len(f)] = f[Len(f)] /\ g[1] = f[1]
      /\ Len(f) > 1 => g[Len(f) - 1] = f[Len(f) - 1]
  BY <1>1
<1> QED
  BY <1>1, <1>2 DEF Between, Last, Follows

LEMMA QuietShape ==
  ASSUME Shaped, UNCHANGED <<opts, io, closed>>,
         epc \in {"idle", "slice", "code"}, epc' \in {"idle", "slice", "code", "size", "end"},
         epc' = "size" => w'.n \in 1..BlockSize
  PROVE  Shaped'
BY DEF Shaped

LEMMA PushShape ==
  ASSUME EncoderTypes, Shaped,
         Enc!PushSize \/ Enc!PushPayload \/ Enc!PushSum \/ Enc!PushEnd \/ Enc!PushStreamSum
  PROVE  Shaped'
<1>0. /\ w \in Block /\ summed \in Seq(Nat) /\ w.literal \in BOOLEAN /\ w.n \in Nat
      /\ io \in Seq(Item) /\ io # <<>> /\ Formed(io) /\ io[1].opts = opts /\ opts \in Option
  BY BlockIs DEF EncoderTypes, Shaped, Enc!Header
<1>00. Len(io) \in Nat \ {0}
  BY <1>0, EmptySeq
<1>1. CASE Enc!PushSize
  <2> DEFINE x == Enc!SizeWord(w.literal, w.n)
  <2>1. x \in Item /\ x.item = "size"
    BY <1>0 DEF Enc!SizeWord, Item
  <2>2. io' = Append(io, x) /\ Last(io') = x /\ ~closed /\ epc = "size" /\ epc' = "payload"
    BY <1>1, <2>1, PushContent DEF Enc!PushSize, Enc!Push
  <2> HIDE DEF x
  <2>3. Follows(io', Len(io))
    BY <1>0, <2>1, <2>2, BetweenFollows DEF Shaped
  <2>4. Formed(io')
    BY <1>0, <2>1, <2>2, <2>3, FormedAppend
  <2> QED
    BY <1>1, <2>2, <2>4 DEF x, Enc!PushSize, Enc!Push, Shaped, Enc!SizeWord
<1>2. CASE Enc!PushPayload
  <2> DEFINE x == Enc!Payload(w)
  <2>1. x \in Item /\ x.item = "payload" /\ x.block = w
    BY <1>0 DEF Enc!Payload, Item
  <2>2. /\ io' = Append(io, x) /\ Last(io') = x /\ ~closed /\ epc = "payload"
        /\ io'[Len(io)] = io[Len(io)] /\ io'[Len(io) + 1] = x /\ io'[1] = io[1]
        /\ epc' \in {"sum", "slice", "end"} /\ (epc' = "sum" <=> opts.blocksum)
        /\ UNCHANGED <<opts, w, closed>>
    <3>1. Len(io) \in 1..Len(io)
      BY <1>00
    <3> QED
      BY <1>2, <2>1, <3>1, PushContent DEF Enc!PushPayload, Enc!Push, Enc!AfterBlock
  <2> HIDE DEF x
  <2>3. io[Len(io)] = Enc!SizeWord(w.literal, w.n) /\ w.n \in 1..BlockSize
    BY <2>2 DEF Shaped, Last
  <2>4. /\ io[Len(io)].item = "size" /\ io[Len(io)].n = w.n /\ io[Len(io)].literal = w.literal
        /\ w.n > 0
    BY <1>0, <2>3 DEF Enc!SizeWord
  <2>5. Follows(io', Len(io))
    BY <2>1, <2>2, <2>4 DEF Follows, Announces
  <2>6. Formed(io')
    BY <1>0, <2>1, <2>2, <2>5, FormedAppend
  <2>7. ~opts.blocksum => Between(io')
    BY <1>0, <2>1, <2>2 DEF Between
  <2> QED
    BY <1>0, <2>1, <2>2, <2>3, <2>6, <2>7 DEF Shaped, Option
<1>3. CASE Enc!PushSum
  <2> DEFINE x == Enc!BlockSum(w)
  <2>1. x \in Item /\ x.item = "sum"
    BY <1>0 DEF Enc!BlockSum, Item
  <2>2. /\ io' = Append(io, x) /\ Last(io') = x /\ ~closed /\ epc = "sum"
        /\ io'[Len(io)] = io[Len(io)] /\ io'[Len(io) + 1] = x /\ io'[1] = io[1] /\ Len(io') = Len(io) + 1
        /\ epc' \in {"slice", "end"}
        /\ UNCHANGED <<opts, w, closed>>
    <3>1. Len(io) \in 1..Len(io)
      BY <1>00
    <3> QED
      BY <1>3, <2>1, <3>1, PushContent DEF Enc!PushSum, Enc!Push, Enc!AfterBlock
  <2> HIDE DEF x
  <2>3. io[Len(io)].item = "payload" /\ opts.blocksum
    BY <2>2 DEF Shaped, Last
  <2>4. Follows(io', Len(io))
    BY <1>0, <2>1, <2>2, <2>3 DEF Follows
  <2>5. Formed(io')
    BY <1>0, <2>1, <2>2, <2>4, FormedAppend
  <2>6. Between(io')
    <3>1. Len(io') > 1 /\ Len(io') - 1 = Len(io)
      BY <1>00, <2>2
    <3> QED
      BY <2>1, <2>2, <2>3, <3>1 DEF Between
  <2> QED
    BY <2>2, <2>5, <2>6 DEF Shaped
<1>4. CASE Enc!PushEnd
  <2> DEFINE x == Enc!EndMark
  <2>1. x \in Item /\ x.item = "size"
    BY DEF Enc!EndMark, Enc!SizeWord, Item
  <2>2. /\ io' = Append(io, x) /\ Last(io') = x /\ ~closed /\ epc = "end"
        /\ epc' = (IF opts.streamsum THEN "streamsum" ELSE "flush") /\ io'[1] = io[1]
        /\ UNCHANGED <<opts, w, closed>>
    BY <1>4, <2>1, PushContent DEF Enc!PushEnd, Enc!Push
  <2> HIDE DEF x
  <2>3. Follows(io', Len(io))
    BY <1>0, <2>1, <2>2, BetweenFollows DEF Shaped
  <2>4. Formed(io')
    BY <1>0, <2>1, <2>2, <2>3, FormedAppend
  <2>5. ~opts.streamsum => Complete(io')
    BY <1>0, <2>2 DEF Complete, x
  <2> QED
    BY <2>2, <2>4, <2>5 DEF x, Shaped, Enc!EndMark, Enc!SizeWord
<1>5. CASE Enc!PushStreamSum
  <2> DEFINE x == Enc!Checksum(summed)
  <2>1. x \in Item /\ x.item = "sum"
    BY <1>0 DEF Enc!Checksum, Item
  <2>2. /\ io' = Append(io, x) /\ Last(io') = x /\ ~closed /\ epc = "streamsum" /\ epc' = "flush"
        /\ io'[Len(io)] = io[Len(io)] /\ io'[Len(io) + 1] = x /\ io'[1] = io[1] /\ Len(io') = Len(io) + 1
        /\ UNCHANGED <<opts, w, closed>>
    <3>1. Len(io) \in 1..Len(io)
      BY <1>00
    <3> QED
      BY <1>5, <2>1, <3>1, PushContent DEF Enc!PushStreamSum, Enc!Push
  <2> HIDE DEF x
  <2>3. io[Len(io)] = Enc!EndMark /\ opts.streamsum
    BY <2>2 DEF Shaped, Last
  <2>4. io[Len(io)].item = "size" /\ io[Len(io)].n = 0
    BY <2>3 DEF Enc!EndMark, Enc!SizeWord
  <2>5. Follows(io', Len(io))
    BY <2>1, <2>2, <2>4 DEF Follows
  <2>6. Formed(io')
    BY <1>0, <2>1, <2>2, <2>5, FormedAppend
  <2>7. Complete(io')
    <3>1. Len(io') > 1 /\ Len(io') - 1 = Len(io)
      BY <1>00, <2>2
    <3> QED
      BY <1>0, <2>1, <2>2, <2>3, <3>1 DEF Complete
  <2> QED
    BY <2>2, <2>6, <2>7 DEF Shaped
<1> QED
  BY <1>1, <1>2, <1>3, <1>4, <1>5

LEMMA EncodeShape ==
  ASSUME EncoderTypes, Shaped, Sized, Enc!Encode, ~Enc!PortRaises
  PROVE  Shaped'
<1>1. CASE (\E n \in WriteSizes : Enc!write(n)) \/ Enc!close \/ Enc!TakeSlice \/ Enc!WriteReturns \/ Enc!CodeRaises
  <2>1. /\ UNCHANGED <<opts, io, closed>>
        /\ epc \in {"idle", "slice", "code"}
        /\ epc' \in {"idle", "slice", "code", "end"}
    BY <1>1 DEF Enc!write, Enc!close, Enc!Ready, Enc!TakeSlice, Enc!WriteReturns, Enc!CodeRaises
  <2> QED
    BY <2>1, QuietShape
<1>2. CASE Enc!CodeBlock
  <2>1. w'.n \in 1..Len(buf) /\ Len(buf) \in Nat /\ Len(buf) <= BlockSize
    <3>1. buf # <<>>
      BY <1>2 DEF Enc!CodeBlock, Sized
    <3> QED
      BY <1>2, <3>1, BlocksAre, LenProperties DEF Enc!CodeBlock, EncoderTypes
  <2>2. w'.n \in 1..BlockSize
    BY <2>1, OldStreamAssumption
  <2> QED
    BY <1>2, <2>2, QuietShape DEF Enc!CodeBlock
<1>3. CASE Enc!Flush
  BY <1>3 DEF Enc!Flush, Shaped
<1> QED
  BY <1>1, <1>2, <1>3, PushShape DEF Enc!Encode, Enc!EncoderStep

-----------------------------------------------------------------------------
(* The sizes of blocks.                                                    *)
Appended(f, x, g) ==
  /\ \A i : i \in Literals(g) <=>
       i \in Literals(f) \/ (i = Len(f) + 1 /\ x.item = "payload" /\ x.block.literal)
  /\ Literals(f) \subseteq 1..Len(f) /\ Len(f) \in Nat
  /\ DOMAIN f = 1..Len(f) /\ DOMAIN g = 1..(Len(f) + 1)
  /\ \A i \in 1..Len(f) : g[i] = f[i]
  /\ g[Len(f) + 1] = x

LEMMA LiteralsAppend ==
  ASSUME NEW f \in Seq(Item), NEW x \in Item, NEW g, g = Append(f, x)
  PROVE  Appended(f, x, g)
<1>1. /\ Len(f) \in Nat /\ Len(g) = Len(f) + 1 /\ g[Len(f) + 1] = x /\ g \in Seq(Item)
      /\ \A i \in 1..Len(f) : g[i] = f[i]
  BY AppendProperties
<1>2. DOMAIN f = 1..Len(f) /\ DOMAIN g = 1..(Len(f) + 1)
  BY <1>1, LenProperties
<1>3. ASSUME NEW i PROVE i \in DOMAIN g <=> i \in 1..Len(f) \/ i = Len(f) + 1
  BY <1>1, <1>2
<1>4. Len(f) + 1 \notin 1..Len(f)
  BY <1>1
<1> QED
  BY <1>1, <1>2, <1>3, <1>4 DEF Literals, Appended

LEMMA PushNothing ==
  ASSUME NEW f \in Seq(Item), NEW x \in Item, NEW g, g = Append(f, x), x.item # "payload"
  PROVE  /\ AllFull(f) => AllFull(g)
         /\ Full(f) => Full(g)
         /\ (\A i \in DOMAIN f : f[i].item = "payload" => f[i].block.n \in 1..BlockSize)
              => (\A i \in DOMAIN g : g[i].item = "payload" => g[i].block.n \in 1..BlockSize)
<1>0. Appended(f, x, g)
  BY LiteralsAppend
<1>1. \A i \in Literals(g) : i \in Literals(f)
  BY <1>0 DEF Appended
<1>2. \A i \in DOMAIN g : i \in DOMAIN f \/ g[i].item # "payload"
  BY <1>0 DEF Appended
<1> QED
  BY <1>0, <1>1, <1>2 DEF Appended, AllFull, Full

LEMMA PushBlock ==
  ASSUME NEW f \in Seq(Item), NEW x \in Item, NEW g, g = Append(f, x), x.item = "payload",
         AllFull(f)
  PROVE  /\ (x.block.literal => x.block.n = BlockSize) => AllFull(g)
         /\ Full(g)
         /\ (\A i \in DOMAIN f : f[i].item = "payload" => f[i].block.n \in 1..BlockSize)
              /\ x.block.n \in 1..BlockSize
              => (\A i \in DOMAIN g : g[i].item = "payload" => g[i].block.n \in 1..BlockSize)
<1>1. Appended(f, x, g)
  BY LiteralsAppend
<1>2. \A i \in DOMAIN g : i \in DOMAIN f \/ i = Len(f) + 1
  BY <1>1 DEF Appended
<1>3. \A i, j \in DOMAIN g : i < j => i \in DOMAIN f /\ i # Len(f) + 1
  BY <1>1 DEF Appended
<1>4. Full(g)
  <2> SUFFICES ASSUME NEW i \in DOMAIN g, NEW j \in DOMAIN g, i \in Literals(g), i < j
               PROVE  g[i].block.n = BlockSize
    BY DEF Full
  <2>1. i \in Literals(f)
    BY <1>1, <1>3 DEF Appended
  <2> QED
    BY <1>1, <2>1 DEF Appended, AllFull
<1>5. (x.block.literal => x.block.n = BlockSize) => AllFull(g)
  BY <1>1 DEF Appended, AllFull
<1> QED
  BY <1>1, <1>2, <1>4, <1>5 DEF Appended

LEMMA QuietSize ==
  ASSUME Sized, EncoderTypes, UNCHANGED <<io, closed>>, epc \in {"idle", "slice", "code"},
         epc' \in {"idle", "slice", "code", "size", "end"},
         epc' # "idle" => eop' \in {"write", "close"},
         epc' = "slice" => eop' = "write",
         epc' \in {"code", "size"} => buf' # <<>> /\ (eop' = "write" => Len(buf') = BlockSize),
         epc' = "size" /\ w'.literal => w'.n = Len(buf')
  PROVE  Sized'
BY DEF Sized

LEMMA SliceSize == EncoderTypes /\ Sized /\ Enc!TakeSlice => Sized'
<1> SUFFICES ASSUME EncoderTypes, Sized, Enc!TakeSlice PROVE Sized'
  OBVIOUS
<1>1. EncoderTypes'
  BY EncodeTypes DEF Enc!Encode, Enc!EncoderStep
<1>2. Len(buf') \in Nat /\ Len(buf') <= BlockSize /\ BlockSize \in Nat \ {0}
  BY <1>1, LenProperties, OldStreamAssumption DEF EncoderTypes
<1>3. epc' = "code" => Len(buf') = BlockSize
  <2>1. epc' = IF Len(buf') >= BlockSize THEN "code" ELSE "slice"
    BY DEF Enc!TakeSlice
  <2> QED
    BY <1>2, <2>1
<1>4. epc' = "code" => buf' # <<>>
  BY <1>2, <1>3, EmptySeq
<1>5. epc = "slice" /\ epc' \in {"code", "slice"} /\ UNCHANGED <<io, closed, eop>> /\ eop = "write"
  BY DEF Enc!TakeSlice, Sized
<1> QED
  BY <1>3, <1>4, <1>5, QuietSize

LEMMA PushSizes ==
  ASSUME EncoderTypes, Sized, Shaped,
         Enc!PushSize \/ Enc!PushPayload \/ Enc!PushSum \/ Enc!PushEnd \/ Enc!PushStreamSum
  PROVE  Sized'
<1>0. /\ w \in Block /\ summed \in Seq(Nat) /\ w.literal \in BOOLEAN /\ w.n \in Nat
      /\ io \in Seq(Item)
  BY BlockIs DEF EncoderTypes
<1>1. CASE Enc!PushSize
  <2> DEFINE x == Enc!SizeWord(w.literal, w.n)
  <2>1. x \in Item /\ x.item # "payload"
    BY <1>0 DEF Enc!SizeWord, Item
  <2>2. /\ io' = Append(io, x) /\ ~closed /\ epc = "size" /\ epc' = "payload"
        /\ UNCHANGED <<buf, w, eop, closed>>
    BY <1>1 DEF Enc!PushSize, Enc!Push
  <2> HIDE DEF x
  <2>3. /\ AllFull(io) => AllFull(io')
        /\ Full(io) => Full(io')
        /\ (\A i \in DOMAIN io : io[i].item = "payload" => io[i].block.n \in 1..BlockSize)
             => (\A i \in DOMAIN io' : io'[i].item = "payload" => io'[i].block.n \in 1..BlockSize)
    BY <1>0, <2>1, <2>2, PushNothing
  <2> QED
    BY <2>2, <2>3 DEF Sized
<1>2. CASE Enc!PushPayload
  <2> DEFINE x == Enc!Payload(w)
  <2>1. x \in Item /\ x.item = "payload" /\ x.block = w
    BY <1>0 DEF Enc!Payload, Item
  <2>2. /\ io' = Append(io, x) /\ ~closed /\ epc = "payload"
        /\ epc' \in {"sum", "slice", "end"} /\ (epc' = "slice" => eop # "close")
        /\ (epc' = "end" => eop = "close")
        /\ (epc' = "sum" => buf' = buf)
        /\ UNCHANGED <<w, eop, closed>>
    BY <1>2 DEF Enc!PushPayload, Enc!Push, Enc!AfterBlock
  <2> HIDE DEF x
  <2>3. /\ AllFull(io) /\ w.n \in 1..BlockSize /\ eop \in {"write", "close"}
        /\ (eop = "write" => Len(buf) = BlockSize) /\ (w.literal => w.n = Len(buf)) /\ buf # <<>>
    BY <2>2 DEF Sized, Shaped
  <2>4. /\ (w.literal => w.n = BlockSize) => AllFull(io')
        /\ Full(io')
        /\ (\A i \in DOMAIN io : io[i].item = "payload" => io[i].block.n \in 1..BlockSize)
             => (\A i \in DOMAIN io' : io'[i].item = "payload" => io'[i].block.n \in 1..BlockSize)
    BY <1>0, <2>1, <2>2, <2>3, PushBlock
  <2> QED
    BY <2>2, <2>3, <2>4 DEF Sized
<1>3. CASE Enc!PushSum
  <2> DEFINE x == Enc!BlockSum(w)
  <2>1. x \in Item /\ x.item # "payload"
    BY <1>0 DEF Enc!BlockSum, Item
  <2>2. /\ io' = Append(io, x) /\ ~closed /\ epc = "sum" /\ epc' \in {"slice", "end"}
        /\ (epc' = "slice" => eop # "close")
        /\ UNCHANGED <<w, eop, closed>>
    BY <1>3 DEF Enc!PushSum, Enc!Push, Enc!AfterBlock
  <2> HIDE DEF x
  <2>3. /\ AllFull(io) => AllFull(io')
        /\ Full(io) => Full(io')
        /\ (\A i \in DOMAIN io : io[i].item = "payload" => io[i].block.n \in 1..BlockSize)
             => (\A i \in DOMAIN io' : io'[i].item = "payload" => io'[i].block.n \in 1..BlockSize)
    BY <1>0, <2>1, <2>2, PushNothing
  <2> QED
    BY <2>2, <2>3 DEF Sized
<1>4. CASE Enc!PushEnd \/ Enc!PushStreamSum
  <2> DEFINE x == IF epc = "end" THEN Enc!EndMark ELSE Enc!Checksum(summed)
  <2>1. x \in Item /\ x.item # "payload"
    BY <1>0 DEF Enc!EndMark, Enc!SizeWord, Enc!Checksum, Item
  <2>2. /\ io' = Append(io, x) /\ epc \in {"end", "streamsum"} /\ epc' \in {"streamsum", "flush"}
        /\ UNCHANGED <<w, eop, closed>>
    BY <1>4 DEF Enc!PushEnd, Enc!PushStreamSum, Enc!Push
  <2> HIDE DEF x
  <2>3. /\ Full(io) => Full(io')
        /\ (\A i \in DOMAIN io : io[i].item = "payload" => io[i].block.n \in 1..BlockSize)
             => (\A i \in DOMAIN io' : io'[i].item = "payload" => io'[i].block.n \in 1..BlockSize)
    BY <1>0, <2>1, <2>2, PushNothing
  <2> QED
    BY <2>2, <2>3 DEF Sized
<1> QED
  BY <1>1, <1>2, <1>3, <1>4

LEMMA EncodeSizes ==
  ASSUME EncoderTypes, Shaped, Sized, Enc!Encode, ~Enc!PortRaises
  PROVE  Sized'
<1>1. CASE (\E n \in WriteSizes : Enc!write(n)) \/ Enc!WriteReturns \/ Enc!CodeRaises
  <2>1. /\ UNCHANGED <<io, closed>> /\ epc \in {"idle", "slice", "code"}
        /\ epc' \in {"idle", "slice"} /\ (epc' = "slice" => eop' = "write")
    BY <1>1 DEF Enc!write, Enc!Ready, Enc!WriteReturns, Enc!CodeRaises
  <2> QED
    BY <2>1, QuietSize
<1>2. CASE Enc!close
  BY <1>2, QuietSize DEF Enc!close, Enc!Ready
<1>3. CASE Enc!CodeBlock
  <2>1. w'.literal => w'.n = Len(buf)
    BY <1>3, BlocksAre DEF Enc!CodeBlock
  <2>2. /\ UNCHANGED <<io, closed, eop, buf>> /\ epc = "code" /\ epc' = "size"
    BY <1>3 DEF Enc!CodeBlock
  <2>3. eop \in {"write", "close"} /\ buf # <<>> /\ (eop = "write" => Len(buf) = BlockSize)
    BY <2>2 DEF Sized
  <2> QED
    BY <2>1, <2>2, <2>3, QuietSize
<1>4. CASE Enc!Flush
  BY <1>4 DEF Enc!Flush, Sized
<1> QED
  BY <1>1, <1>2, <1>3, <1>4, SliceSize, PushSizes DEF Enc!Encode, Enc!EncoderStep

-----------------------------------------------------------------------------
(* What blocks refer to.                                                   *)
LEMMA InReachIs ==
  ASSUME NEW f \in Seq(Item)
  PROVE  InReach(f) <=>
           \A i \in 1..Len(f) : f[i].item = "payload" /\ f[i].block.refers # <<>> =>
             f[1].opts.linked /\ EndsWith(Reach(ContentTo(f, i - 1)), f[i].block.refers)
<1>1. DOMAIN f = 1..Len(f) /\ Len(f) \in Nat
  BY LenProperties
<1>2. ASSUME NEW i \in 1..Len(f), f[i].item = "payload"
      PROVE  IsSuffix(f[i].block.refers, Reach(ContentTo(f, i - 1)))
               <=> EndsWith(Reach(ContentTo(f, i - 1)), f[i].block.refers)
  <2>1. f[i] \in Item /\ i - 1 \in 0..Len(f)
    BY <1>1, ElementOfSeq
  <2>2. f[i].block.refers \in Seq(Nat)
    BY <1>2, <2>1, ItemKinds, BlockIs
  <2>3. Reach(ContentTo(f, i - 1)) \in Seq(Nat)
    BY <2>1, ContentType, ReachIs
  <2> QED
    BY <2>2, <2>3, SuffixIs
<1> QED
  BY <1>1, <1>2 DEF InReach, Reach

LEMMA InReachAppend ==
  ASSUME NEW f \in Seq(Item), f # <<>>, NEW x \in Item, NEW g, g = Append(f, x), InReach(f),
         x.item = "payload" /\ x.block.refers # <<>> =>
           f[1].opts.linked /\ EndsWith(Reach(Content(f)), x.block.refers)
  PROVE  InReach(g)
<1>1. /\ Len(f) \in Nat \ {0} /\ g \in Seq(Item) /\ Len(g) = Len(f) + 1 /\ g[Len(f) + 1] = x
      /\ \A i \in 1..Len(f) : g[i] = f[i]
      /\ \A n \in 0..Len(f) : ContentTo(g, n) = ContentTo(f, n)
  <2>1. Len(f) \in Nat \ {0}
    BY EmptySeq
  <2>2. g \in Seq(Item) /\ Len(g) = Len(f) + 1 /\ g[Len(f) + 1] = x /\ \A i \in 1..Len(f) : g[i] = f[i]
    BY AppendProperties
  <2>3. \A n \in 0..Len(f) : ContentTo(g, n) = ContentTo(f, n)
    BY ContentAppend
  <2> QED
    BY <2>1, <2>2, <2>3
<1>2. g[1] = f[1]
  BY <1>1
<1>3. ASSUME NEW i \in 1..Len(g), g[i].item = "payload", g[i].block.refers # <<>>
      PROVE  g[1].opts.linked /\ EndsWith(Reach(ContentTo(g, i - 1)), g[i].block.refers)
  <2>1. CASE i = Len(f) + 1
    <3>1. i - 1 = Len(f) /\ Len(f) \in 0..Len(f)
      BY <1>1, <2>1
    <3>2. ContentTo(g, i - 1) = Content(f)
      BY <1>1, <3>1 DEF Content
    <3> QED
      BY <1>1, <1>2, <1>3, <2>1, <3>2
  <2>2. CASE i \in 1..Len(f)
    <3>1. g[i] = f[i] /\ i - 1 \in 0..Len(f)
      BY <1>1, <2>2
    <3>2. ContentTo(g, i - 1) = ContentTo(f, i - 1)
      BY <1>1, <3>1
    <3>3. f[1].opts.linked /\ EndsWith(Reach(ContentTo(f, i - 1)), f[i].block.refers)
      BY <1>3, <2>2, <3>1, InReachIs
    <3> QED
      BY <1>2, <3>1, <3>2, <3>3
  <2> QED
    BY <1>1, <2>1, <2>2
<1> QED
  BY <1>1, <1>3, InReachIs

LEMMA CodeLinked == EncoderTypes /\ Linked /\ Enc!CodeBlock => Linked'
<1> SUFFICES ASSUME EncoderTypes, Linked, Enc!CodeBlock PROVE Linked'
  OBVIOUS
<1> DEFINE held == Content(io)
<1>1. /\ held \in Seq(Nat) /\ buf \in Seq(Nat) /\ stream \in Seq(Nat)
      /\ held \o buf \in Seq(Nat) /\ stream \o buf \in Seq(Nat)
  BY ContentNow, ConcatProperties DEF EncoderTypes
<1>2. epc = "code" /\ epc' = "size" /\ UNCHANGED <<opts, io, buf>> /\ w' \in Enc!Blocks(buf)
  BY DEF Enc!CodeBlock
<1>3. opts.linked => EndsWith(Reach(held), stream)
  BY <1>2 DEF Linked, Whole
<1>4. Whole' = held \o buf
  BY <1>2 DEF Whole
<1>5. opts.linked => EndsWith(Reach(Whole'), stream')
  <2> SUFFICES ASSUME opts.linked PROVE EndsWith(Reach(Whole'), stream')
    OBVIOUS
  <2>1. stream' \in Enc!Coder!Saved(stream \o buf)
    BY DEF Enc!CodeBlock, Enc!Coder!blkenc_update
  <2> HIDE DEF held
  <2>2. EndsWith(held, stream)
    <3>1. Reach(held) \in Seq(Nat) /\ EndsWith(held, Reach(held))
      BY <1>1, ReachIs
    <3> QED
      BY <1>1, <1>3, <3>1, EndsWithTrans
  <2>3. EndsWith(held \o buf, stream \o buf)
    BY <1>1, <2>2, EndsWithBoth
  <2> DEFINE a == held \o buf
             b == stream \o buf
  <2>4. a \in Seq(Nat) /\ b \in Seq(Nat) /\ EndsWith(a, b) /\ stream' \in Enc!Coder!Saved(b)
    BY <1>1, <2>1, <2>3
  <2> HIDE DEF a, b
  <2>5. EndsWith(Reach(a), stream')
    BY <2>4, SavedInReach
  <2> QED
    BY <1>4, <2>5 DEF a
<1>6. w'.refers # <<>> => opts.linked /\ w'.refers = stream
  BY <1>2, BlocksAre
<1> QED
  BY <1>2, <1>3, <1>5, <1>6 DEF Linked

LEMMA PushLinked ==
  ASSUME EncoderTypes, Accounted, Linked,
         Enc!PushSize \/ Enc!PushPayload \/ Enc!PushSum \/ Enc!PushEnd \/ Enc!PushStreamSum
  PROVE  Linked'
<1>0. /\ w \in Block /\ summed \in Seq(Nat) /\ w.literal \in BOOLEAN /\ w.n \in Nat /\ InReach(io)
      /\ io \in Seq(Item) /\ io # <<>> /\ io[1].opts = opts
  BY BlockIs DEF EncoderTypes, Linked, Enc!Header
<1>1. CASE Enc!PushPayload
  <2> DEFINE x == Enc!Payload(w)
  <2>1. x \in Item /\ x.item = "payload" /\ x.block = w /\ Data(x) = w.data
    BY <1>0 DEF Enc!Payload, Item, Data
  <2>2. /\ io' = Append(io, x) /\ Content(io') = Content(io) \o w.data /\ epc = "payload"
        /\ epc' \in {"sum", "slice", "end"} /\ UNCHANGED <<opts, stream>>
    BY <1>1, <2>1, PushContent DEF Enc!PushPayload, Enc!Push, Enc!AfterBlock, Enc!coder
  <2> HIDE DEF x
  <2>3. w.data = buf
    BY <2>2 DEF Accounted
  <2>4. Whole' = Whole
    BY <2>2, <2>3 DEF Whole
  <2>5. w.refers # <<>> => opts.linked /\ EndsWith(Reach(Content(io)), w.refers)
    BY <2>2 DEF Linked
  <2>6. InReach(io')
    BY <1>0, <2>1, <2>2, <2>5, InReachAppend
  <2> QED
    BY <2>2, <2>4, <2>6 DEF Linked
<1>2. CASE Enc!PushSize \/ Enc!PushSum \/ Enc!PushEnd \/ Enc!PushStreamSum
  <2> DEFINE x == CASE epc = "size" -> Enc!SizeWord(w.literal, w.n)
                    [] epc = "sum" -> Enc!BlockSum(w)
                    [] epc = "end" -> Enc!EndMark
                    [] OTHER -> Enc!Checksum(summed)
             next == epc'
  <2>1. x \in Item /\ x.item # "payload"
    BY <1>0 DEF Enc!SizeWord, Enc!BlockSum, Enc!EndMark, Enc!Checksum, Item
  <2>2. /\ Enc!Push(epc, x, next) /\ (epc = "size" <=> epc' = "payload")
        /\ epc # "payload" /\ epc' # "size" /\ (epc = "size" => buf' = buf)
    BY <1>2 DEF Enc!PushSize, Enc!PushSum, Enc!PushEnd, Enc!PushStreamSum, Enc!Push, Enc!AfterBlock
  <2>3. io' = Append(io, x) /\ UNCHANGED <<opts, w, stream>>
    BY <2>2 DEF Enc!Push, Enc!coder
  <2> HIDE DEF x, next
  <2>4. Content(io') = Content(io)
    <3>1. Content(io') = Content(io) \o Data(x) /\ Data(x) = <<>> /\ Content(io) \in Seq(Nat)
      BY <2>1, <2>2, PushContent, ContentNow, NoData
    <3> QED
      BY <3>1, ConcatEmptySeq
  <2>5. InReach(io')
    BY <1>0, <2>1, <2>3, InReachAppend
  <2>6. Whole' = Whole
    BY <2>2, <2>4 DEF Whole
  <2> QED
    BY <2>2, <2>3, <2>4, <2>5, <2>6 DEF Linked
<1> QED
  BY <1>1, <1>2

LEMMA EncodeLinked ==
  ASSUME EncoderTypes, Accounted, NoCoder => Linked, Enc!Encode, ~Enc!PortRaises, NoCoder'
  PROVE  Linked'
<1>0. NoCoder /\ ~Enc!CodeRaises
  <2>1. raised \in Seq({"coder", "port"})
    BY DEF EncoderTypes
  <2>2. ~Enc!CodeRaises
    BY <2>1, RaisedTypes DEF Enc!CodeRaises, NoCoder
  <2>3. raised' = raised
    BY <2>2 DEF Enc!Encode, Enc!EncoderStep, Enc!write, Enc!close, Enc!TakeSlice, Enc!WriteReturns,
         Enc!CodeBlock, Enc!Push, Enc!PushSize, Enc!PushPayload, Enc!PushSum, Enc!PushEnd,
         Enc!PushStreamSum, Enc!Flush, Enc!hist
  <2> QED
    BY <2>2, <2>3 DEF NoCoder
<1>1. CASE (\E n \in WriteSizes : Enc!write(n)) \/ Enc!close \/ Enc!TakeSlice \/ Enc!WriteReturns \/ Enc!Flush
  <2>1. /\ UNCHANGED <<opts, io, stream>>
        /\ epc \in {"idle", "slice", "flush"}
        /\ epc' \in {"idle", "slice", "code", "end"}
    BY <1>1 DEF Enc!write, Enc!close, Enc!Ready, Enc!TakeSlice, Enc!WriteReturns, Enc!Flush, Enc!coder
  <2> QED
    BY <1>0, <2>1 DEF Linked, Whole
<1> QED
  BY <1>0, <1>1, CodeLinked, PushLinked DEF Enc!Encode, Enc!EncoderStep

LEMMA InitEncoder == Enc!Init => EncoderIs
<1> SUFFICES ASSUME Enc!Init PROVE EncoderIs
  OBVIOUS
<1>1. EncoderTypes /\ Accounted
  BY InitAccount
<1>2. /\ io = <<Enc!Header(opts)>> /\ io \in Seq(Item) /\ Len(io) = 1 /\ io[1] = Enc!Header(opts)
      /\ io[1].item = "header" /\ DOMAIN io = {1}
  BY <1>1 DEF Enc!Init, EncoderTypes, Enc!Header
<1>3. epc = "idle" /\ ~closed /\ stream = <<>>
  BY DEF Enc!Init
<1>4. Shaped
  BY <1>2, <1>3 DEF Shaped, Formed, Between, Last
<1>5. Sized
  BY <1>2, <1>3 DEF Sized, Full, AllFull, Literals
<1>6. Linked
  <2>1. InReach(io)
    BY <1>2 DEF InReach
  <2>2. Reach(Whole) \in Seq(Nat)
    BY <1>1, <1>3, ContentNow, ReachIs DEF Whole
  <2> QED
    BY <1>3, <2>1, <2>2, EmptyEnds DEF Linked
<1> QED
  BY <1>1, <1>4, <1>5, <1>6 DEF EncoderIs

LEMMA EncodeStays == EncoderIs /\ Enc!Encode => EncoderIs'
<1> SUFFICES ASSUME EncoderIs, Enc!Encode PROVE EncoderIs'
  OBVIOUS
<1>1. EncoderTypes /\ EncoderTypes'
  BY EncodeTypes DEF EncoderIs
<1>2. ASSUME NoPort' PROVE (Accounted /\ Shaped /\ Sized /\ (NoCoder => Linked))'
  <2>1. NoPort /\ ~Enc!PortRaises /\ Accounted /\ Shaped /\ Sized /\ (NoCoder => Linked)
    BY <1>1, <1>2, PortFirst DEF EncoderIs
  <2>2. Accounted' /\ Shaped' /\ Sized'
    BY <1>1, <1>2, <2>1, EncodeAccount, EncodeShape, EncodeSizes
  <2>3. NoCoder' => Linked'
    BY <1>1, <2>1, EncodeLinked
  <2> QED
    BY <2>2, <2>3
<1> QED
  BY <1>1, <1>2 DEF EncoderIs

LEMMA EncoderKept == EncoderIs /\ UNCHANGED evars => EncoderIs'
<1> SUFFICES ASSUME EncoderIs, UNCHANGED evars PROVE EncoderIs'
  OBVIOUS
<1>1. UNCHANGED <<opts, buf, inputproxy, w, io, summed, epc, eop, closed, given, stream, prefix,
                  taken, raised>>
  BY DEF evars
<1>2. EncoderTypes'
  BY <1>1 DEF EncoderIs, EncoderTypes
<1>3. NoPort' = NoPort /\ NoCoder' = NoCoder /\ Whole' = Whole
  BY <1>1 DEF NoPort, NoCoder, Whole
<1>4. Accounted => Accounted'
  BY <1>1, <1>3 DEF Accounted
<1>5. Shaped => Shaped'
  BY <1>1 DEF Shaped
<1>6. Sized => Sized'
  BY <1>1 DEF Sized
<1>7. Linked => Linked'
  BY <1>1, <1>3 DEF Linked
<1> QED
  BY <1>2, <1>3, <1>4, <1>5, <1>6, <1>7 DEF EncoderIs

LEMMA AlwaysEncoder == Spec => []EncoderIs
<1>1. Init => EncoderIs
  BY InitEncoder DEF Init
<1>2. EncoderIs /\ [Next]_vars => EncoderIs'
  <2> SUFFICES ASSUME EncoderIs, [Next]_vars PROVE EncoderIs'
    OBVIOUS
  <2>1. Enc!Encode \/ UNCHANGED evars
    BY DEF Next, Fix, Open, vars
  <2> QED
    BY <2>1, EncodeStays, EncoderKept
<1> QED
  BY <1>1, <1>2, PTL DEF Spec

\* For all options, sizes of writes and faults: what was pushed and what waits
\* in @buf is what has got into @buf, each byte once and in order, unless the
\* port raised; export_block clears @buf only when its block was pushed.
THEOREM ByteAccount == Spec => []EveryByteOnce
<1>1. EncoderIs => EveryByteOnce
  BY DEF EncoderIs, NoPort, Accounted, EveryByteOnce
<1> QED
  BY <1>1, AlwaysEncoder, PTL

\* For all options, sizes of writes and faults: the checksum at the end of a
\* stream is that of its content, also when a block was coded twice.
THEOREM SumIsRight == Spec => []SumMatches
<1>1. EncoderIs => SumMatches
  BY DEF EncoderIs, NoPort, Accounted, SumMatches
<1> QED
  BY <1>1, AlwaysEncoder, PTL

-----------------------------------------------------------------------------
(* The decoder.                                                            *)
Byte == Nat \cup {Packed, Junk}

DPCs == {"new", "idle", "loop", "flags", "body", "decode", "sum"}

DecoderTypes ==
  /\ rest \in Seq(Item) /\ ended \in BOOLEAN
  /\ sbuf \in [of : {"none", "readbuf", "decodebuf"}, at : Nat]
  /\ readbuf \in Seq(Byte) /\ decodebuf \in Seq(Byte) /\ window \in Seq(Byte)
  /\ flags \in [literal : BOOLEAN, n : Nat]
  /\ dpc \in DPCs /\ size \in Nat /\ dest \in Seq(Byte) /\ got \in Seq(Byte)
  /\ failed \in Nat /\ failed <= MaxFailed
  /\ dpc \notin {"new", "idle"} => failed < MaxFailed
  /\ Len(readbuf) <= BlockSize /\ Len(decodebuf) <= BlockSize /\ Len(window) <= W

\* What follows the first a of f.
LeftAt(f, a) == SubSeq(f, a + 1, Len(f))

\* How many items of the file were read, and the one that is read next.
At == Len(file) - Len(rest)
Following == file[At + 1]
IsHere == At < Len(file) /\ Following.item = "payload"

Placed ==
  /\ file \in Seq(Item) /\ At \in 1..Len(file) /\ rest = LeftAt(file, At)
  /\ Formed(file) /\ (Followed => InReach(file)) /\ fpc \in {"off", "done"}
  /\ header = [legacy |-> file[1].item = "legacy", opts |-> file[1].opts]

Announced ==
  /\ file[At].item = "size" /\ flags.n \in 1..BlockSize
  /\ flags.literal = file[At].literal /\ flags.n = file[At].n

\* A block is read after its size, and nothing else when something else was taken
\* for a size.
Reading ==
  /\ dpc = "body" => Announced
  /\ dpc = "decode" => Announced /\ IsHere /\ ~flags.literal
  /\ dpc = "sum" => \/ rest = <<>> /\ failed > 0 /\ flags.literal
                    \/ /\ Announced /\ IsHere
                       /\ flags.literal => readbuf = Following.block.data

HasEnd(f) == \E i \in DOMAIN f : f[i].item = "size" /\ f[i].n = 0

Ends ==
  /\ dpc \in {"idle", "loop", "flags"} /\ ~ended => rest = <<>> \/ Following.item = "size"
  /\ ended => /\ dpc \in {"idle", "flags"}
              /\ rest = <<>> \/ (At = Len(file) - 1 /\ Following.item = "sum")
  /\ ended /\ ~header.legacy => HasEnd(file)

\* The block was decoded and is not yet handed on.
Decoded == dpc = "sum" /\ ~flags.literal

Unbroken(n) == header.opts.linked /\ \A i \in Literals(file) : i > n

Delivering ==
  /\ dpc \in {"idle", "loop", "flags"} => (got \o dest) \o Dec!Buffered = ContentTo(file, At)
  /\ dpc \in {"body", "decode", "sum"} => got \o dest = ContentTo(file, At)
  /\ dpc = "flags" \/ ended => Dec!Buffered = <<>>
  /\ dpc = "idle" \/ ended => dest = <<>>
  /\ dpc # "idle" /\ dop # "read_part" => sbuf.of = "none"
  /\ Decoded => decodebuf = Following.block.data
  /\ Unbroken(At) => window = Reach(ContentTo(file, IF Decoded THEN At + 1 ELSE At))

DecoderIs ==
  /\ DecoderTypes
  /\ dpc = "new" => /\ file = <<>> /\ dest = <<>> /\ got = <<>> /\ failed = 0 /\ ~ended
                    /\ sbuf.of = "none" /\ window = <<>>
  /\ dpc # "new" => Placed /\ Reading /\ (failed = 0 => Ends /\ (Followed => Delivering))

-----------------------------------------------------------------------------
(* What is left of a sequence.                                             *)
IsLeft(S, f, a, r) ==
  /\ Len(f) \in Nat /\ r \in Seq(S) /\ Len(r) = Len(f) - a
  /\ r = <<>> <=> a = Len(f)
  /\ \A i \in 1..(Len(f) - a) : r[i] = f[a + i]
  /\ a < Len(f) => Head(r) = f[a + 1] /\ f[a + 1] \in S

LEMMA LeftIs ==
  ASSUME NEW S, NEW f \in Seq(S), NEW a \in 0..Len(f)
  PROVE  IsLeft(S, f, a, LeftAt(f, a))
<1> DEFINE r == SubSeq(f, a + 1, Len(f))
<1>1. Len(f) \in Nat /\ a \in Nat /\ a <= Len(f) /\ a + 1 \in Int /\ Len(f) \in Int
  BY LenProperties
<1>2. \A i \in (a + 1)..Len(f) : f[i] \in S
  BY <1>1, ElementOfSeq
<1>3. /\ r \in Seq(S) /\ Len(r) = (IF a + 1 <= Len(f) THEN Len(f) - (a + 1) + 1 ELSE 0)
      /\ \A i \in 1..(Len(f) - (a + 1) + 1) : r[i] = f[(a + 1) + i - 1]
  BY <1>1, <1>2, SubSeqProperties
<1> HIDE DEF r
<1>4. Len(r) = Len(f) - a /\ \A i \in 1..(Len(f) - a) : r[i] = f[a + i]
  BY <1>1, <1>3
<1>5. r = <<>> <=> a = Len(f)
  <2>1. r = <<>> <=> Len(r) = 0
    BY <1>3, EmptySeq
  <2> QED
    BY <1>1, <1>4, <2>1
<1>6. ASSUME a < Len(f) PROVE Head(r) = f[a + 1] /\ f[a + 1] \in S
  <2>1. a + 1 \in 1..Len(f) /\ 1 \in 1..(Len(f) - a) /\ a + 1 \in (a + 1)..Len(f)
    BY <1>1, <1>6
  <2>2. r[1] = f[a + 1] /\ f[a + 1] \in S
    BY <1>2, <1>4, <2>1
  <2>3. Head(r) = r[1]
    OBVIOUS
  <2> QED
    BY <2>2, <2>3
<1> QED
  BY <1>1, <1>3, <1>4, <1>5, <1>6 DEF r, IsLeft, LeftAt

Later(f, a, k) == IF a + k <= Len(f) THEN a + k ELSE Len(f)

LEMMA LeftLater ==
  ASSUME NEW S, NEW f \in Seq(S), NEW a \in 0..Len(f), NEW r, IsLeft(S, f, a, r), NEW k \in Nat
  PROVE  /\ Later(f, a, k) \in a..Len(f)
         /\ LeftAt(r, k) = LeftAt(f, Later(f, a, k))
<1> DEFINE b == Later(f, a, k)
           q == LeftAt(r, k)
           z == LeftAt(f, b)
<1>1. Len(f) \in Nat /\ r \in Seq(S) /\ Len(r) = Len(f) - a /\ \A i \in 1..Len(r) : r[i] = f[a + i]
  BY DEF IsLeft
<1>2. b \in 0..Len(f) /\ b \in a..Len(f) /\ b = IF a + k <= Len(f) THEN a + k ELSE Len(f)
  BY <1>1 DEF Later
<1> HIDE DEF b
<1>3. z \in Seq(S) /\ Len(z) = Len(f) - b /\ \A i \in 1..(Len(f) - b) : z[i] = f[b + i]
  <2>1. IsLeft(S, f, b, z)
    BY <1>2, LeftIs
  <2> HIDE DEF z
  <2> QED
    BY <2>1 DEF IsLeft
<1> HIDE DEF z
<1>4. CASE a + k <= Len(f)
  <2>1. k \in 0..Len(r)
    BY <1>1, <1>4
  <2>2. q \in Seq(S) /\ Len(q) = Len(r) - k /\ \A i \in 1..(Len(r) - k) : q[i] = r[k + i]
    <3>1. IsLeft(S, r, k, q)
      BY <1>1, <2>1, LeftIs
    <3> HIDE DEF q
    <3> QED
      BY <3>1 DEF IsLeft
  <2> HIDE DEF q
  <2>3. Len(q) = Len(z)
    BY <1>1, <1>2, <1>3, <1>4, <2>2
  <2>4. ASSUME NEW i \in 1..Len(q) PROVE q[i] = z[i]
    <3>1. k + i \in 1..Len(r) /\ a + (k + i) = b + i /\ i \in 1..(Len(f) - b) /\ i \in 1..(Len(r) - k)
      BY <1>1, <1>2, <1>4, <2>2, <2>3
    <3> QED
      BY <1>1, <1>3, <2>2, <3>1
  <2>5. q = z
    BY <1>3, <2>2, <2>3, <2>4, SeqEqual
  <2> QED
    BY <1>2, <2>5 DEF q, z, b
<1>5. CASE ~(a + k <= Len(f))
  <2>1. Len(r) < k + 1 /\ Len(f) < b + 1 /\ k + 1 \in Int /\ b + 1 \in Int /\ Len(r) \in Int /\ Len(f) \in Int
    BY <1>1, <1>2, <1>5
  <2>2. q = <<>> /\ z = <<>>
    BY <2>1, SubSeqEmpty DEF z, LeftAt
  <2> QED
    BY <1>2, <2>2 DEF z, b
<1> QED
  BY <1>4, <1>5

\* What is taken from the front and what is left.
LEMMA FrontAndLeft ==
  ASSUME NEW S, NEW f \in Seq(S), NEW n \in 0..Len(f)
  PROVE  /\ SubSeq(f, 1, n) \in Seq(S) /\ Len(SubSeq(f, 1, n)) = n
         /\ \A i \in 1..n : SubSeq(f, 1, n)[i] = f[i]
         /\ SubSeq(f, 1, n) \o SubSeq(f, n + 1, Len(f)) = f
<1>1. Len(f) \in Nat /\ n \in Int /\ 1 \in Int
  BY LenProperties
<1>2. \A i \in 1..n : f[i] \in S
  BY <1>1, ElementOfSeq
<1>3. /\ SubSeq(f, 1, n) \in Seq(S) /\ Len(SubSeq(f, 1, n)) = (IF 1 <= n THEN n - 1 + 1 ELSE 0)
      /\ \A i \in 1..(n - 1 + 1) : SubSeq(f, 1, n)[i] = f[1 + i - 1]
  BY <1>1, <1>2, SubSeqProperties
<1>4. Len(SubSeq(f, 1, n)) = n /\ \A i \in 1..n : SubSeq(f, 1, n)[i] = f[i]
  BY <1>1, <1>3
<1>5. SubSeq(f, 1, n) \o SubSeq(f, n + 1, Len(f)) = SubSeq(f, 1, Len(f))
  <2>1. 1 \in 1..(Len(f) + 1) /\ n \in (1 - 1)..Len(f) /\ Len(f) \in n..Len(f)
    BY <1>1
  <2> QED
    BY <2>1, ConcatAdjacentSubSeq
<1> QED
  BY <1>3, <1>4, <1>5, SubSeqFull

LEMMA PrefixIs ==
  ASSUME NEW S, NEW s \in Seq(S), NEW t \in Seq(S), NEW q, q = s \o t
  PROVE  IsPrefix(s, q)
<1>1. /\ q \in Seq(S) /\ Len(q) = Len(s) + Len(t) /\ Len(s) \in Nat /\ Len(t) \in Nat
      /\ \A i \in 1..(Len(s) + Len(t)) : q[i] = IF i <= Len(s) THEN s[i] ELSE t[i - Len(s)]
  BY ConcatProperties, LenProperties
<1>2. Len(s) \in 0..Len(q) /\ Len(s) \in 0..Len(s)
  BY <1>1
<1> DEFINE a == SubSeq(s, 1, Len(s))
           b == SubSeq(q, 1, Len(s))
<1>3. a \in Seq(S) /\ Len(a) = Len(s) /\ \A i \in 1..Len(s) : a[i] = s[i]
  BY <1>2, FrontAndLeft
<1>4. b \in Seq(S) /\ Len(b) = Len(s) /\ \A i \in 1..Len(s) : b[i] = q[i]
  BY <1>1, <1>2, FrontAndLeft
<1> HIDE DEF a, b
<1>5. \A i \in 1..Len(a) : a[i] = b[i]
  BY <1>1, <1>3, <1>4
<1>6. a = b
  BY <1>3, <1>4, <1>5, SeqEqual
<1> QED
  BY <1>1, <1>6 DEF IsPrefix, a, b

Regroups(a, b, c, d) == (a \o (b \o c)) \o d = (a \o b) \o (c \o d)

LEMMA Joined ==
  ASSUME NEW S, NEW a \in Seq(S), NEW b \in Seq(S), NEW c \in Seq(S), NEW d \in Seq(S)
  PROVE  Regroups(a, b, c, d)
<1> DEFINE p == a \o b
<1>1. p \in Seq(S)
  BY ConcatProperties
<1>2. a \o (b \o c) = p \o c
  <2>1. p \o c = a \o (b \o c)
    BY ConcatAssociative
  <2> QED
    BY <2>1
<1> HIDE DEF p
<1>3. (p \o c) \o d = p \o (c \o d)
  BY <1>1, ConcatAssociative
<1> QED
  BY <1>2, <1>3 DEF p, Regroups

-----------------------------------------------------------------------------
(* Where the decoder is.                                                   *)
LEMMA Position ==
  ASSUME Placed
  PROVE  /\ Len(file) \in Nat /\ file \in Seq(Item) /\ Len(rest) = Len(file) - At
         /\ IsLeft(Item, file, At, rest) /\ At \in 1..Len(file) /\ At \in 0..Len(file)
         /\ rest \in Seq(Item) /\ (rest = <<>> <=> At = Len(file))
         /\ rest # <<>> => /\ Head(rest) = Following /\ Following \in Item
                           /\ At + 1 \in 1..Len(file) /\ At \in 1..(Len(file) - 1)
<1> DEFINE a == At
<1>1. file \in Seq(Item) /\ Len(file) \in Nat /\ a \in 1..Len(file) /\ a \in 0..Len(file)
      /\ rest = LeftAt(file, a)
  BY LenProperties DEF Placed
<1> HIDE DEF a
<1>2. IsLeft(Item, file, a, rest)
  BY <1>1, LeftIs
<1>3. Len(rest) = Len(file) - a
  BY <1>2 DEF IsLeft
<1>4. rest \in Seq(Item) /\ (rest = <<>> <=> a = Len(file))
  BY <1>2 DEF IsLeft
<1>5. ASSUME rest # <<>>
      PROVE  Head(rest) = file[a + 1] /\ file[a + 1] \in Item /\ a + 1 \in 1..Len(file) /\ a \in 1..(Len(file) - 1)
  BY <1>1, <1>2, <1>4, <1>5 DEF IsLeft
<1> QED
  BY <1>1, <1>2, <1>3, <1>4, <1>5 DEF a, Following

Still == UNCHANGED <<file, header, fpc, raised>>

LEMMA Moves ==
  ASSUME Placed, Still, NEW k \in Nat, rest' = LeftAt(rest, k)
  PROVE  Placed' /\ At' = Later(file, At, k)
<1> DEFINE a == At
           b == Later(file, a, k)
<1>1. file \in Seq(Item) /\ Len(file) \in Nat /\ a \in 1..Len(file) /\ a \in 0..Len(file)
      /\ IsLeft(Item, file, a, rest)
  BY Position
<1> HIDE DEF a
<1>2. b \in a..Len(file) /\ rest' = LeftAt(file, b)
  BY <1>1, LeftLater
<1> HIDE DEF b
<1>3. b \in 0..Len(file) /\ b \in 1..Len(file)
  BY <1>1, <1>2
<1>4. IsLeft(Item, file, b, rest')
  BY <1>1, <1>2, <1>3, LeftIs
<1>5. Len(rest') = Len(file) - b
  BY <1>4 DEF IsLeft
<1>6. file' = file
  BY DEF Still
<1>7. At' = b
  BY <1>1, <1>3, <1>5, <1>6 DEF At
<1>8. Followed' = Followed
  BY DEF Still, Followed
<1> QED
  BY <1>2, <1>3, <1>6, <1>7, <1>8 DEF Placed, Still, a, b

LEMMA Remains ==
  ASSUME Placed, Still, rest' = rest
  PROVE  Placed' /\ At' = At
<1>1. Followed' = Followed
  BY DEF Still, Followed
<1>2. At' = At
  BY DEF At, Still
<1> QED
  BY <1>1, <1>2 DEF Placed, Still

LEMMA Tails ==
  ASSUME Placed, Still, rest # <<>>, rest' = Tail(rest)
  PROVE  Placed' /\ At' = At + 1
<1>1. rest \in Seq(Item) /\ At + 1 \in 1..Len(file) /\ Len(file) \in Nat
  BY Position
<1>2. rest' = LeftAt(rest, 1) /\ 1 \in Nat
  BY <1>1, TailIsSubSeq DEF LeftAt
<1> QED
  BY <1>1, <1>2, Moves DEF Later

LEMMA Skips ==
  ASSUME Placed, Still, rest' = <<>>
  PROVE  Placed' /\ At' = Len(file)
<1>1. rest \in Seq(Item) /\ Len(file) \in Nat /\ At \in 1..Len(file) /\ Len(rest) = Len(file) - At
  BY Position
<1>2. Len(rest) \in Nat /\ Len(rest) < Len(rest) + 1 /\ Len(rest) + 1 \in Int /\ Len(rest) \in Int
  BY <1>1
<1>3. rest' = LeftAt(rest, Len(rest))
  BY <1>2, SubSeqEmpty DEF LeftAt
<1>4. Placed' /\ At' = Later(file, At, Len(rest))
  BY <1>2, <1>3, Moves
<1> QED
  BY <1>1, <1>4 DEF Later

\* What follows what.
LEMMA FormedIs ==
  ASSUME NEW f, Formed(f), NEW i \in 1..(Len(f) - 1)
  PROVE  /\ f[i].item = "size" /\ f[i].n > 0 =>
              /\ f[i + 1].item \in {"payload", "cut"}
              /\ f[i + 1].item = "payload" => Announces(f[i], f[i + 1].block)
              /\ f[i + 1].item = "cut" => AnnouncesMore(f[i], f[i + 1].block)
         /\ f[i].item = "size" /\ f[i].n = 0 => f[i + 1].item = "sum" /\ Len(f) = i + 1
         /\ f[i].item = "payload" => f[i + 1].item = IF f[1].opts.blocksum THEN "sum" ELSE "size"
         /\ f[i].item = "payload" /\ f[1].opts.blocksum /\ i + 1 < Len(f) => f[i + 2].item = "size"
         /\ f[i].item \in {"header", "legacy"} => f[i + 1].item = "size"
<1>1. f \in Seq(Item) /\ Len(f) \in Nat /\ i \in 1..Len(f) /\ f[i] \in Item /\ Follows(f, i)
  <2>1. f \in Seq(Item) /\ Len(f) \in Nat /\ i \in 1..Len(f) /\ Follows(f, i)
    BY LenProperties DEF Formed
  <2> QED
    BY <2>1, ElementOfSeq
<1>2. f[i].item = "size" => f[i].n \in Nat
  BY <1>1, ItemKinds
<1>3. ASSUME i + 1 < Len(f) PROVE Follows(f, i + 1) /\ (i + 1) - 1 = i /\ (i + 1) + 1 = i + 2
  <2>1. i + 1 \in 1..(Len(f) - 1)
    BY <1>1, <1>3
  <2> QED
    BY <2>1 DEF Formed
<1>4. f[i].item = "size" /\ f[i].n > 0 =>
              /\ f[i + 1].item \in {"payload", "cut"}
              /\ f[i + 1].item = "payload" => Announces(f[i], f[i + 1].block)
              /\ f[i + 1].item = "cut" => AnnouncesMore(f[i], f[i + 1].block)
  BY <1>1, <1>2 DEF Follows
<1>5. f[i].item = "payload" => f[i + 1].item = IF f[1].opts.blocksum THEN "sum" ELSE "size"
  BY <1>1 DEF Follows
<1>6. f[i].item \in {"header", "legacy"} => f[i + 1].item = "size"
  BY <1>1 DEF Follows
<1>7. ASSUME f[i].item = "size", f[i].n = 0
      PROVE  f[i + 1].item = "sum" /\ Len(f) = i + 1
  <2>1. f[i + 1].item = "sum"
    BY <1>1, <1>2, <1>7 DEF Follows
  <2>2. ~(i + 1 < Len(f))
    <3> SUFFICES ASSUME i + 1 < Len(f) PROVE FALSE
      OBVIOUS
    <3>1. f[i].item = "payload"
      BY <1>3, <2>1 DEF Follows
    <3> QED
      BY <1>7, <3>1
  <2> QED
    BY <1>1, <2>1, <2>2
<1>8. ASSUME f[i].item = "payload", f[1].opts.blocksum, i + 1 < Len(f)
      PROVE  f[i + 2].item = "size"
  <2>1. f[i + 1].item = "sum"
    BY <1>5, <1>8
  <2> QED
    BY <1>3, <1>8, <2>1 DEF Follows
<1> QED
  BY <1>4, <1>5, <1>6, <1>7, <1>8

LEMMA NextContent ==
  ASSUME Placed, rest # <<>>
  PROVE  /\ ContentTo(file, At + 1) = ContentTo(file, At) \o Data(Following)
         /\ Following.item # "payload" => ContentTo(file, At + 1) = ContentTo(file, At)
         /\ ContentTo(file, At) \in Seq(Nat) /\ Data(Following) \in Seq(Nat)
<1>1. Len(file) \in Nat /\ file \in Seq(Item) /\ At \in 0..(Len(file) - 1) /\ At \in 0..Len(file) /\ Following \in Item
  BY Position
<1>2. ContentTo(file, At + 1) = ContentTo(file, At) \o Data(Following)
  BY <1>1, ContentStep DEF Following
<1>3. ContentTo(file, At) \in Seq(Nat) /\ Data(Following) \in Seq(Nat)
  BY <1>1, ContentType, DataType
<1>4. ASSUME Following.item # "payload" PROVE ContentTo(file, At + 1) = ContentTo(file, At)
  <2>1. Data(Following) = <<>>
    BY <1>4 DEF Data
  <2> QED
    BY <1>2, <1>3, <2>1, ConcatEmptySeq
<1> QED
  BY <1>2, <1>3, <1>4

-----------------------------------------------------------------------------
(* What @buf gives.                                                        *)
LEMMA BufferedIs ==
  ASSUME DecoderTypes
  PROVE  /\ Dec!Buffered \in Seq(Byte) /\ (sbuf.of = "none" => Dec!Buffered = <<>>)
         /\ readbuf \in Seq(Byte) /\ decodebuf \in Seq(Byte)
         /\ \A name : Dec!StringOf(name) \in Seq(Byte)
<1> DEFINE s == Dec!StringOf(sbuf.of)
           at == sbuf.at
<1>1. /\ at \in Nat /\ readbuf \in Seq(Byte) /\ decodebuf \in Seq(Byte)
      /\ \A name : Dec!StringOf(name) \in Seq(Byte)
  BY DEF DecoderTypes, Dec!StringOf
<1>2. s \in Seq(Byte)
  BY <1>1
<1>3. Dec!Buffered = IF sbuf.of = "none" THEN <<>> ELSE LeftAt(s, at)
  BY DEF Dec!Buffered, LeftAt
<1> HIDE DEF s, at
<1>4. LeftAt(s, at) \in Seq(Byte)
  <2>1. CASE at \in 0..Len(s)
    BY <1>2, <2>1, LeftIs DEF IsLeft
  <2>2. CASE ~(at \in 0..Len(s))
    <3>1. Len(s) \in Int /\ at + 1 \in Int /\ Len(s) < at + 1
      BY <1>1, <1>2, <2>2, LenProperties
    <3> QED
      BY <3>1, SubSeqEmpty, EmptySeq DEF LeftAt
  <2> QED
    BY <2>1, <2>2
<1> QED
  BY <1>1, <1>3, <1>4, EmptySeq

LEMMA BufferTaken ==
  ASSUME DecoderTypes, NEW n \in 0..Len(Dec!Buffered), Dec!Buffered # <<>>,
         sbuf' = [sbuf EXCEPT !.at = @ + n], UNCHANGED <<readbuf, decodebuf>>
  PROVE  /\ SubSeq(Dec!Buffered, 1, n) \in Seq(Byte)
         /\ SubSeq(Dec!Buffered, 1, n) \o Dec!Buffered' = Dec!Buffered /\ Dec!Buffered' \in Seq(Byte)
         /\ sbuf' \in [of : {"none", "readbuf", "decodebuf"}, at : Nat] /\ sbuf'.of = sbuf.of
<1> DEFINE s == Dec!StringOf(sbuf.of)
           at == sbuf.at
           b == Dec!Buffered
<1>1. /\ at \in Nat /\ s \in Seq(Byte) /\ b \in Seq(Byte) /\ sbuf.of # "none"
      /\ sbuf \in [of : {"none", "readbuf", "decodebuf"}, at : Nat] /\ Len(b) \in Nat /\ n \in Nat
  BY BufferedIs, LenProperties DEF DecoderTypes
<1>2. sbuf' \in [of : {"none", "readbuf", "decodebuf"}, at : Nat] /\ sbuf'.of = sbuf.of /\ sbuf'.at = at + n
  BY <1>1
<1>3. b = LeftAt(s, at)
  BY <1>1 DEF Dec!Buffered, LeftAt
<1>4. b' = LeftAt(s, at + n)
  <2>1. Dec!StringOf(sbuf.of)' = s
    BY <1>2 DEF Dec!StringOf
  <2> HIDE DEF s, at
  <2> QED
    BY <1>1, <1>2, <2>1 DEF Dec!Buffered, LeftAt
<1>5. b # <<>> /\ n \in 0..Len(b)
  OBVIOUS
<1> DEFINE rem == LeftAt(s, at + n)
<1> HIDE DEF s, at, b
<1>6. at \in 0..Len(s) /\ Len(s) \in Nat
  <2>1. Len(s) \in Nat
    BY <1>1, LenProperties
  <2> SUFFICES ASSUME ~(at \in 0..Len(s)) PROVE FALSE
    BY <2>1
  <2>2. Len(s) \in Int /\ at + 1 \in Int /\ Len(s) < at + 1
    BY <1>1, <2>1
  <2> QED
    BY <1>3, <1>5, <2>2, SubSeqEmpty DEF LeftAt
<1>7. IsLeft(Byte, s, at, b)
  BY <1>1, <1>3, <1>6, LeftIs
<1>8. LeftAt(b, n) = rem
  <2>1. LeftAt(b, n) = LeftAt(s, Later(s, at, n))
    BY <1>1, <1>6, <1>7, LeftLater
  <2>2. Later(s, at, n) = at + n
    BY <1>1, <1>5, <1>6, <1>7 DEF IsLeft, Later
  <2> QED
    BY <2>1, <2>2
<1> HIDE DEF rem
<1>9. SubSeq(b, 1, n) \in Seq(Byte) /\ SubSeq(b, 1, n) \o LeftAt(b, n) = b
  BY <1>1, <1>5, FrontAndLeft DEF LeftAt
<1>10. LeftAt(b, n) \in Seq(Byte)
  BY <1>1, <1>5, LeftIs DEF IsLeft
<1> QED
  BY <1>2, <1>4, <1>8, <1>9, <1>10 DEF b, rem

LEMMA BufferNew ==
  ASSUME DecoderTypes, NEW name \in {"readbuf", "decodebuf"}, sbuf' = [of |-> name, at |-> 0],
         UNCHANGED <<readbuf, decodebuf>>
  PROVE  Dec!Buffered' = Dec!StringOf(name)
<1> DEFINE s == Dec!StringOf(name)
<1>1. s \in Seq(Byte)
  BY BufferedIs
<1>2. Dec!StringOf(sbuf.of)' = s /\ sbuf'.of # "none" /\ sbuf'.at = 0
  BY DEF Dec!StringOf
<1>3. Dec!Buffered' = SubSeq(s, 0 + 1, Len(s))
  BY <1>2 DEF Dec!Buffered
<1> HIDE DEF s
<1>4. SubSeq(s, 0 + 1, Len(s)) = SubSeq(s, 1, Len(s))
  OBVIOUS
<1> QED
  BY <1>1, <1>3, <1>4, SubSeqFull DEF s

LEMMA BufferSame ==
  ASSUME UNCHANGED <<sbuf, readbuf, decodebuf>>
  PROVE  Dec!Buffered' = Dec!Buffered
<1>1. Dec!StringOf(sbuf.of)' = Dec!StringOf(sbuf.of)
  BY DEF Dec!StringOf
<1> QED
  BY <1>1 DEF Dec!Buffered

-----------------------------------------------------------------------------
(* Types.                                                                  *)
\* What was read of a block.
LEMMA BodyIs ==
  ASSUME NEW b \in Block, b.n <= BlockSize
  PROVE  /\ Dec!Bytes(b) \in Seq(Byte) /\ Len(Dec!Bytes(b)) <= BlockSize
         /\ b.literal => Dec!Bytes(b) = b.data
<1>1. b.literal \in BOOLEAN /\ b.n \in Nat /\ b.data \in Seq(Nat) /\ (b.literal => Len(b.data) = b.n)
  BY BlockIs
<1>2. b.data \in Seq(Byte)
  BY <1>1, SeqMonotonic DEF Byte
<1>3. CASE b.literal
  BY <1>1, <1>2, <1>3 DEF Dec!Bytes
<1>4. CASE ~b.literal
  <2> DEFINE p == [i \in 1..b.n |-> Packed]
  <2>1. p \in Seq(Byte)
    <3>1. \A i \in 1..b.n : Packed \in Byte
      BY DEF Byte
    <3> QED
      BY <1>1, <3>1, IsASeq
  <2>2. Len(p) = b.n
    BY <1>1
  <2> HIDE DEF p
  <2>3. Dec!Bytes(b) = p
    BY <1>4 DEF Dec!Bytes, p
  <2> QED
    BY <1>4, <2>1, <2>2, <2>3
<1> QED
  BY <1>3, <1>4

\* What stands in a String after LZ4 has written over it.
LEMMA JunkIs ==
  ASSUME NEW d \in Seq(Byte), NEW s, s \in {d, [i \in DOMAIN d |-> Junk]}
  PROVE  s \in Seq(Byte) /\ Len(s) = Len(d)
<1>1. DOMAIN d = 1..Len(d) /\ Len(d) \in Nat
  BY LenProperties
<1> DEFINE p == [i \in 1..Len(d) |-> Junk]
<1>2. p \in Seq(Byte)
  <2>1. \A i \in 1..Len(d) : Junk \in Byte
    BY DEF Byte
  <2> QED
    BY <1>1, <2>1, IsASeq
<1>3. Len(p) = Len(d)
  BY <1>1
<1> QED
  BY <1>1, <1>2, <1>3

\* What a block decodes to with any dictionary.
LEMMA DecodedIs ==
  ASSUME NEW b \in Block, Len(b.data) <= BlockSize,
         NEW s, s \in {b.data, [i \in DOMAIN b.data |-> Junk]}
  PROVE  s \in Seq(Byte) /\ Len(s) <= BlockSize
<1>1. b.data \in Seq(Nat) /\ b.data \in Seq(Byte)
  BY BlockIs, SeqMonotonic DEF Byte
<1> QED
  BY <1>1, JunkIs

\* The dictionary after a block is the end of what it was and of the block.
LEMMA WindowIs ==
  ASSUME NEW q \in Seq(Byte)
  PROVE  SubSeq(q, IF Len(q) > W THEN Len(q) - W + 1 ELSE 1, Len(q)) = Reach(q)
<1>1. CASE Len(q) > W
  BY <1>1 DEF Reach, Enc!Coder!Reach
<1>2. CASE ~(Len(q) > W)
  BY <1>2, SubSeqFull DEF Reach, Enc!Coder!Reach
<1> QED
  BY <1>1, <1>2

LEMMA DecodePlaced ==
  ASSUME Placed, Reading, Still, Dec!Decode
  PROVE  Placed' /\ rest' \in Seq(Item)
<1>1. Placed'
  <2>1. dpc = "decode" => rest # <<>>
    BY Position DEF Reading, IsHere
  <2>2. \/ rest' = rest
        \/ rest # <<>> /\ rest' = Tail(rest)
        \/ rest' = <<>>
        \/ \E k \in {1, 2} : rest' = LeftAt(rest, k)
    <3>1. CASE Dec!TakeBlock
      BY <3>1 DEF Dec!TakeBlock, LeftAt
    <3>2. CASE Dec!ReadRaises
      BY <3>2 DEF Dec!ReadRaises, LeftAt
    <3>3. CASE Dec!NoFlags \/ Dec!ReadWrongFlags \/ Dec!ReadFlags \/ Dec!ShortBody \/ Dec!DecodeRaises
      BY <2>1, <3>3 DEF Dec!NoFlags, Dec!ReadWrongFlags, Dec!ReadFlags, Dec!ShortBody, Dec!DecodeRaises
    <3> QED
      BY <3>1, <3>2, <3>3 DEF Dec!Decode, Dec!DecoderStep, Dec!read_all, Dec!read_part, Dec!TakeBuffered,
         Dec!NeedBlock, Dec!LegacyEnd, Dec!ReadBody, Dec!DecodeBody
  <2>3. ASSUME NEW k \in {1, 2}, rest' = LeftAt(rest, k)
        PROVE  Placed'
    BY <2>3, Moves
  <2> QED
    BY <2>2, <2>3, Remains, Tails, Skips
<1>2. file' \in Seq(Item) /\ At' \in 0..Len(file') /\ rest' = LeftAt(file', At')
  BY <1>1, LenProperties DEF Placed
<1> QED
  BY <1>1, <1>2, LeftIs DEF IsLeft

LEMMA DecodeTypes ==
  ASSUME DecoderTypes, Placed, Reading, Still, dpc # "new", Dec!Decode
  PROVE  DecoderTypes'
<1>1. rest' \in Seq(Item)
  BY DecodePlaced
<1>2. /\ got \o dest \in Seq(Byte) /\ <<>> \in Seq(Byte) /\ Len(<<>>) = 0 /\ BlockSize \in Nat /\ W \in Nat
      /\ Dec!Buffered \in Seq(Byte) /\ Len(Dec!Buffered) \in Nat /\ MaxFailed \in Nat
      /\ \A name : dest \o Dec!StringOf(name) \in Seq(Byte)
      /\ got \in Seq(Byte) /\ dest \in Seq(Byte)
  BY BufferedIs, ConcatProperties, EmptySeq, LenProperties, OldStreamAssumption DEF DecoderTypes
<1>3. CASE Dec!read_all
  <2>1. dest' \in Seq(Byte) /\ sbuf' \in [of : {"none", "readbuf", "decodebuf"}, at : Nat]
    BY <1>2, <1>3 DEF Dec!read_all
  <2> QED
    BY <1>1, <1>3, <2>1 DEF Dec!read_all, Dec!Ready, DecoderTypes, DPCs
<1>4. ASSUME NEW n \in ReadSizes, Dec!read_part(n) PROVE DecoderTypes'
  <2>1. n \in Nat
    BY OldStreamAssumption
  <2> QED
    BY <1>1, <1>2, <1>4, <2>1 DEF Dec!read_part, Dec!Ready, Dec!bufs, DecoderTypes, DPCs
<1>5. CASE Dec!TakeBuffered
  <2> DEFINE n == IF size < Len(Dec!Buffered) THEN size ELSE Len(Dec!Buffered)
             bytes == dest \o SubSeq(Dec!Buffered, 1, n)
  <2>1. n \in 0..Len(Dec!Buffered) /\ size - n \in Nat
    BY <1>2 DEF DecoderTypes
  <2>2. /\ Dec!Buffered # <<>> /\ sbuf' = [sbuf EXCEPT !.at = @ + n] /\ size' = size - n
        /\ \/ dpc' = "idle" /\ got' = got \o bytes /\ dest' = <<>> /\ failed' = failed
           \/ dest' = bytes /\ UNCHANGED <<dpc, got, failed>>
        /\ UNCHANGED <<rest, ended, readbuf, decodebuf, window, flags>>
    BY <1>5 DEF Dec!TakeBuffered, Dec!Return
  <2> HIDE DEF n
  <2>3. SubSeq(Dec!Buffered, 1, n) \in Seq(Byte) /\ sbuf' \in [of : {"none", "readbuf", "decodebuf"}, at : Nat]
    BY <2>1, <2>2, BufferTaken
  <2>4. bytes \in Seq(Byte)
    BY <1>2, <2>3, ConcatProperties
  <2> HIDE DEF bytes
  <2>5. got \o bytes \in Seq(Byte)
    BY <1>2, <2>4, ConcatProperties
  <2> QED
    BY <1>1, <1>2, <2>1, <2>2, <2>3, <2>4, <2>5 DEF DecoderTypes, DPCs
<1>6. CASE Dec!NeedBlock
  BY <1>1, <1>6 DEF Dec!NeedBlock, Dec!bufs, DecoderTypes, DPCs
<1>7. CASE Dec!LegacyEnd \/ Dec!ReadFlags \/ Dec!ReadWrongFlags \/ Dec!NoFlags
  <2>0. failed + 1 \in Nat /\ failed + 1 <= MaxFailed /\ dpc = "flags"
    BY <1>2, <1>7 DEF DecoderTypes, Dec!LegacyEnd, Dec!ReadFlags, Dec!ReadWrongFlags, Dec!NoFlags
  <2>1. CASE Dec!NoBlock
    BY <1>1, <1>2, <2>1 DEF Dec!NoBlock, Dec!Return, Dec!bufs, DecoderTypes, DPCs
  <2>2. CASE Dec!Raise /\ UNCHANGED <<header, ended, Dec!bufs, window, flags, dop, size>>
    BY <1>1, <1>2, <2>0, <2>2 DEF Dec!Raise, Dec!bufs, DecoderTypes, DPCs
  <2>3. CASE /\ dpc' = "body" /\ flags' = [literal |-> Head(rest).literal, n |-> Head(rest).n]
             /\ rest # <<>> /\ Dec!Next4 = "size"
             /\ UNCHANGED <<header, ended, Dec!bufs, window, dop, size, dest, got, failed>>
    <3>1. Head(rest) \in Item /\ Head(rest).item = "size"
      BY <2>3, Position DEF Dec!Next4
    <3>2. flags' \in [literal : BOOLEAN, n : Nat]
      BY <2>3, <3>1, ItemKinds
    <3> QED
      BY <1>1, <2>0, <2>3, <3>2 DEF Dec!bufs, DecoderTypes, DPCs
  <2>4. CASE /\ flags' = [literal |-> TRUE, n |-> 1] /\ readbuf' = <<Junk>> /\ dpc' = "sum"
             /\ UNCHANGED <<header, ended, sbuf, decodebuf, window, dop, size, dest, got, failed>>
    <3>1. readbuf' \in Seq(Byte) /\ Len(readbuf') <= BlockSize
      <4>1. Junk \in Byte /\ BlockSize \in Nat \ {0}
        BY OldStreamAssumption DEF Byte
      <4> QED
        BY <2>4, <4>1
    <3> QED
      BY <1>1, <2>0, <2>4, <3>1 DEF DecoderTypes, DPCs
  <2> QED
    BY <1>7, <2>1, <2>2, <2>3, <2>4 DEF Dec!LegacyEnd, Dec!ReadFlags, Dec!ReadWrongFlags, Dec!NoFlags
<1>8. CASE Dec!ReadBody \/ Dec!ShortBody
  <2>0. failed + 1 \in Nat /\ failed + 1 <= MaxFailed /\ dpc = "body" /\ Announced /\ failed < MaxFailed
    BY <1>2, <1>8 DEF DecoderTypes, Dec!ReadBody, Dec!ShortBody, Reading
  <2>1. readbuf' \in Seq(Byte) /\ Len(readbuf') <= BlockSize
    <3>1. CASE rest = <<>>
      BY <1>2, <1>8, <3>1 DEF Dec!ReadBody, Dec!ShortBody
    <3>2. CASE rest # <<>>
      <4>1. /\ Head(rest) = file[At + 1] /\ file[At + 1] \in Item /\ At \in 1..(Len(file) - 1)
            /\ file[At].item = "size" /\ flags.n \in 1..BlockSize /\ file[At].n = flags.n /\ Formed(file)
        BY <2>0, <3>2, Position DEF Announced, Following, Placed
      <4>2. \/ file[At + 1].item = "payload" /\ Announces(file[At], file[At + 1].block)
            \/ file[At + 1].item = "cut" /\ AnnouncesMore(file[At], file[At + 1].block)
        BY <4>1, FormedIs
      <4>3. Head(rest).block \in Block /\ Head(rest).block.n <= BlockSize
        <5>1. file[At + 1].block \in Block /\ file[At + 1].block.n \in Nat
          BY <4>1, <4>2, ItemKinds, BlockIs
        <5> QED
          BY <1>2, <4>1, <4>2, <5>1 DEF Announces, AnnouncesMore
      <4>4. readbuf' = Dec!Bytes(Head(rest).block)
        BY <1>8, <3>2 DEF Dec!ReadBody, Dec!ShortBody
      <4> QED
        BY <4>3, <4>4, BodyIs
    <3> QED
      BY <3>1, <3>2
  <2> QED
    BY <1>1, <1>2, <1>8, <2>0, <2>1 DEF Dec!ReadBody, Dec!ShortBody, Dec!Raise, DecoderTypes, DPCs
<1>9. CASE Dec!DecodeBody
  <2>1. dpc = "decode" /\ IsHere
    BY <1>9 DEF Dec!DecodeBody, Reading
  <2>2. Head(rest) = Following /\ Following \in Item /\ Following.item = "payload"
    BY <2>1, Position DEF IsHere
  <2>3. Head(rest).block \in Block /\ Len(Head(rest).block.data) <= BlockSize
    BY <1>9, <2>2, ItemKinds DEF Dec!DecodeBody
  <2>4. decodebuf' \in {Head(rest).block.data, [i \in DOMAIN Head(rest).block.data |-> Junk]}
    BY <1>9 DEF Dec!DecodeBody
  <2>5. decodebuf' \in Seq(Byte) /\ Len(decodebuf') <= BlockSize
    BY <2>3, <2>4, DecodedIs
  <2>6. window' \in Seq(Byte) /\ Len(window') <= W
    <3> DEFINE q == window \o decodebuf'
    <3>1. window \in Seq(Byte) /\ Len(window) <= W /\ q \in Seq(Byte)
      BY <2>5, ConcatProperties DEF DecoderTypes
    <3>2. window' \in {window, SubSeq(q, IF Len(q) > W THEN Len(q) - W + 1 ELSE 1, Len(q))}
      BY <1>9 DEF Dec!DecodeBody
    <3> HIDE DEF q
    <3>3. window' \in {window, Reach(q)}
      BY <3>1, <3>2, WindowIs
    <3>4. Reach(q) \in Seq(Byte) /\ Len(Reach(q)) <= W
      BY <1>2, <3>1, ReachIs, LenProperties
    <3> QED
      BY <3>1, <3>3, <3>4
  <2> QED
    BY <1>1, <1>9, <2>5, <2>6 DEF Dec!DecodeBody, DecoderTypes, DPCs
<1>10. CASE Dec!DecodeRaises
  <2>1. failed + 1 \in Nat /\ failed + 1 <= MaxFailed
    <3>1. dpc = "decode"
      BY <1>10 DEF Dec!DecodeRaises
    <3> QED
      BY <1>2, <3>1 DEF DecoderTypes
  <2>2. decodebuf' \in Seq(Byte) /\ Len(decodebuf') <= BlockSize
    <3>1. decodebuf' \in {<<>>, decodebuf, [i \in DOMAIN decodebuf |-> Junk]}
      BY <1>10 DEF Dec!DecodeRaises
    <3>2. decodebuf \in Seq(Byte) /\ Len(decodebuf) <= BlockSize /\ <<>> \in Seq(Byte) /\ Len(<<>>) <= BlockSize
      BY <1>2 DEF DecoderTypes
    <3> QED
      BY <3>1, <3>2, JunkIs
  <2> QED
    BY <1>1, <1>2, <1>10, <2>1, <2>2 DEF Dec!DecodeRaises, Dec!Raise, DecoderTypes, DPCs
<1>11. CASE Dec!TakeBlock
  <2>1. failed + 1 \in Nat /\ failed + 1 <= MaxFailed /\ failed < MaxFailed
    BY <1>2, <1>11 DEF DecoderTypes, Dec!TakeBlock
  <2>2. sbuf' \in [of : {"none", "readbuf", "decodebuf"}, at : Nat] /\ dest' \in Seq(Byte)
    <3> DEFINE name == IF flags.literal THEN "readbuf" ELSE "decodebuf"
               joined == dest \o Dec!StringOf(name)
    <3>1. name \in {"readbuf", "decodebuf"} /\ joined \in Seq(Byte)
      BY <1>2
    <3>2. /\ sbuf' = [of |-> name, at |-> 0] \/ sbuf' = sbuf
          /\ dest' \in {joined, dest, <<>>}
      BY <1>11 DEF Dec!TakeBlock, Dec!Raise
    <3> HIDE DEF name, joined
    <3>3. dest' \in Seq(Byte)
      BY <1>2, <3>1, <3>2
    <3>4. sbuf \in [of : {"none", "readbuf", "decodebuf"}, at : Nat]
      BY DEF DecoderTypes
    <3>5. [of |-> name, at |-> 0] \in [of : {"none", "readbuf", "decodebuf"}, at : Nat]
      BY <3>1
    <3> QED
      BY <3>2, <3>3, <3>4, <3>5
  <2> QED
    BY <1>1, <1>2, <1>11, <2>1, <2>2 DEF Dec!TakeBlock, Dec!Raise, DecoderTypes, DPCs
<1>12. CASE Dec!ReadRaises
  <2>1. failed + 1 \in Nat /\ failed + 1 <= MaxFailed
    BY <1>2, <1>12 DEF DecoderTypes, Dec!ReadRaises
  <2> QED
    BY <1>1, <1>2, <1>12, <2>1 DEF Dec!ReadRaises, Dec!Raise, Dec!bufs, DecoderTypes, DPCs
<1> QED
  BY <1>3, <1>4, <1>5, <1>6, <1>7, <1>8, <1>9, <1>10, <1>11, <1>12 DEF Dec!Decode, Dec!DecoderStep

-----------------------------------------------------------------------------
(* What the decoder has read and handed on.                                *)
Course == Placed /\ Reading /\ (failed = 0 => Ends /\ (Followed => Delivering))

LEMMA Raises ==
  ASSUME Placed', dpc' = "idle", failed \in Nat, failed' = failed + 1
  PROVE  Course'
<1>1. failed' # 0
  OBVIOUS
<1> QED
  BY <1>1 DEF Course, Reading

LEMMA StillIs ==
  ASSUME Still
  PROVE  /\ Followed' = Followed /\ HasEnd(file)' = HasEnd(file)
         /\ Literals(file)' = Literals(file)
         /\ \A n : ContentTo(file', n) = ContentTo(file, n)
         /\ file' = file /\ header' = header
BY DEF Still, Followed, HasEnd, Literals

\* What calls have done so far is not touched by a new one.
LEMMA AllCourse ==
  ASSUME DecoderTypes, Course, Still, Dec!read_all
  PROVE  Course'
<1>1. /\ UNCHANGED <<rest, file, header, ended, got, failed>> /\ dpc = "idle" /\ dpc' = "flags"
      /\ dest' = Dec!Buffered /\ sbuf' = [of |-> "none", at |-> 0] /\ dop' = "read_all"
      /\ UNCHANGED <<window, readbuf, decodebuf>>
  BY DEF Dec!read_all, Dec!Ready, Still
<1>2. Placed' /\ At' = At /\ Following' = Following
  BY <1>1, Remains DEF Course, Following
<1>3. Reading'
  BY <1>1 DEF Reading
<1>4. ASSUME failed' = 0 PROVE Ends'
  BY <1>1, <1>2, <1>4, StillIs DEF Course, Ends
<1>5. ASSUME failed' = 0, Followed' PROVE Delivering'
  <2>1. Delivering /\ Ends
    BY <1>1, <1>5, StillIs DEF Course
  <2>2. Dec!Buffered' = <<>>
    BY <1>1 DEF Dec!Buffered
  <2>3. /\ (got \o dest) \o Dec!Buffered = ContentTo(file, At) /\ dest = <<>>
        /\ ended => Dec!Buffered = <<>>
        /\ Unbroken(At) => window = Reach(ContentTo(file, At))
    BY <1>1, <2>1 DEF Delivering, Decoded
  <2>4. got \in Seq(Byte) /\ Dec!Buffered \in Seq(Byte)
    BY BufferedIs DEF DecoderTypes
  <2>5. (got' \o dest') \o Dec!Buffered' = ContentTo(file, At)
    <3>1. got \o dest = got
      BY <2>3, <2>4, ConcatEmptySeq
    <3>2. got \o Dec!Buffered \in Seq(Byte)
      BY <2>4, ConcatProperties
    <3>3. (got \o Dec!Buffered) \o <<>> = got \o Dec!Buffered
      BY <3>2, ConcatEmptySeq
    <3> QED
      BY <1>1, <2>2, <2>3, <3>1, <3>3
  <2>6. Unbroken(At)' = Unbroken(At)
    BY <1>1, <1>2, StillIs DEF Unbroken
  <2> QED
    BY <1>1, <1>2, <2>2, <2>3, <2>5, <2>6 DEF Delivering, Decoded
<1> QED
  BY <1>2, <1>3, <1>4, <1>5 DEF Course

LEMMA PartCourse ==
  ASSUME DecoderTypes, Course, Still, NEW n \in ReadSizes, Dec!read_part(n)
  PROVE  Course'
<1>1. /\ UNCHANGED <<rest, file, header, ended, got, failed, window>> /\ dpc = "idle" /\ dpc' = "loop"
      /\ ~ended /\ dest' = <<>> /\ dop' = "read_part" /\ UNCHANGED <<sbuf, readbuf, decodebuf>>
  BY DEF Dec!read_part, Dec!Ready, Dec!bufs, Still
<1>2. Placed' /\ At' = At /\ Following' = Following
  BY <1>1, Remains DEF Course, Following
<1>3. Reading'
  BY <1>1 DEF Reading
<1>4. ASSUME failed' = 0 PROVE Ends'
  BY <1>1, <1>2, <1>4, StillIs DEF Course, Ends
<1>5. ASSUME failed' = 0, Followed' PROVE Delivering'
  <2>1. Delivering
    BY <1>1, <1>5, StillIs DEF Course
  <2>2. Dec!Buffered' = Dec!Buffered
    BY <1>1, BufferSame
  <2>3. Unbroken(At)' = Unbroken(At)
    BY <1>1, <1>2, StillIs DEF Unbroken
  <2> QED
    BY <1>1, <1>2, <2>1, <2>2, <2>3 DEF Delivering, Decoded
<1> QED
  BY <1>2, <1>3, <1>4, <1>5 DEF Course

LEMMA LoopCourse ==
  ASSUME DecoderTypes, Course, Still, Dec!TakeBuffered \/ Dec!NeedBlock
  PROVE  Course'
<1>0. Placed' /\ At' = At /\ Following' = Following
  <2>1. rest' = rest
    BY DEF Dec!TakeBuffered, Dec!NeedBlock
  <2>2. Placed' /\ At' = At
    BY <2>1, Remains DEF Course
  <2> QED
    BY <2>2 DEF Following, Still
<1>1. CASE Dec!NeedBlock
  <2>1. /\ dpc = "loop" /\ dpc' = "flags" /\ Dec!Buffered = <<>>
        /\ UNCHANGED <<rest, header, ended, sbuf, readbuf, decodebuf, window, dop, dest, got, failed>>
    BY <1>1 DEF Dec!NeedBlock, Dec!bufs
  <2>2. Reading'
    BY <2>1 DEF Reading
  <2>3. ASSUME failed' = 0 PROVE Ends'
    BY <1>0, <2>1, <2>3, StillIs DEF Course, Ends
  <2>4. ASSUME failed' = 0, Followed' PROVE Delivering'
    <3>1. Delivering
      BY <2>1, <2>4, StillIs DEF Course
    <3>2. Dec!Buffered' = Dec!Buffered
      BY <2>1, BufferSame
    <3>3. Unbroken(At)' = Unbroken(At)
      BY <1>0, StillIs DEF Unbroken
    <3> QED
      BY <1>0, <2>1, <3>1, <3>2, <3>3, StillIs DEF Delivering, Decoded
  <2> QED
    BY <1>0, <2>2, <2>3, <2>4 DEF Course
<1>2. CASE Dec!TakeBuffered
  <2> DEFINE n == IF size < Len(Dec!Buffered) THEN size ELSE Len(Dec!Buffered)
             part == SubSeq(Dec!Buffered, 1, n)
             bytes == dest \o part
  <2>1. n \in 0..Len(Dec!Buffered)
    BY BufferedIs, LenProperties DEF DecoderTypes
  <2>2. /\ Dec!Buffered # <<>> /\ sbuf' = [sbuf EXCEPT !.at = @ + n] /\ dpc = "loop"
        /\ \/ dpc' = "idle" /\ got' = got \o bytes /\ dest' = <<>> /\ failed' = failed
           \/ dest' = bytes /\ UNCHANGED <<dpc, got, failed>>
        /\ UNCHANGED <<rest, header, ended, readbuf, decodebuf, window, dop>>
    BY <1>2 DEF Dec!TakeBuffered, Dec!Return
  <2> HIDE DEF n
  <2>3. part \in Seq(Byte) /\ part \o Dec!Buffered' = Dec!Buffered /\ sbuf'.of = sbuf.of
        /\ Dec!Buffered' \in Seq(Byte)
    BY <2>1, <2>2, BufferTaken
  <2> HIDE DEF part
  <2>4. Reading'
    BY <2>2 DEF Reading
  <2>5. ASSUME failed' = 0 PROVE Ends'
    BY <1>0, <2>2, <2>5, StillIs DEF Course, Ends
  <2>6. ASSUME failed' = 0, Followed' PROVE Delivering'
    <3>1. Delivering /\ Ends
      BY <2>2, <2>6, StillIs DEF Course
    <3>2. ~ended /\ (got \o dest) \o Dec!Buffered = ContentTo(file, At)
      BY <2>2, <3>1 DEF Delivering, Ends
    <3>3. Unbroken(At)' = Unbroken(At)
      BY <1>0, StillIs DEF Unbroken
    <3>4. /\ got \in Seq(Byte) /\ dest \in Seq(Byte) /\ Dec!Buffered \in Seq(Byte)
          /\ Dec!Buffered' \in Seq(Byte) /\ bytes \in Seq(Byte) /\ got \o bytes \in Seq(Byte)
      <4>1. got \in Seq(Byte) /\ dest \in Seq(Byte) /\ Dec!Buffered \in Seq(Byte) /\ bytes \in Seq(Byte)
        BY <2>3, BufferedIs, ConcatProperties DEF DecoderTypes
      <4> HIDE DEF bytes
      <4> QED
        BY <2>3, <4>1, ConcatProperties
    <3>5. (got \o bytes) \o Dec!Buffered' = (got \o dest) \o Dec!Buffered
      <4> DEFINE after == Dec!Buffered'
                 before == Dec!Buffered
      <4>1. part \o after = before /\ after \in Seq(Byte) /\ before \in Seq(Byte)
        BY <2>3, <3>4
      <4> HIDE DEF after, before
      <4>2. (got \o (dest \o part)) \o after = (got \o dest) \o (part \o after)
        <5>1. got \in Seq(Byte) /\ dest \in Seq(Byte) /\ part \in Seq(Byte) /\ after \in Seq(Byte)
          BY <2>3, <3>4, <4>1
        <5>2. Regroups(got, dest, part, after)
          BY <5>1, Joined
        <5> QED
          BY <5>2 DEF Regroups
      <4> QED
        BY <4>1, <4>2 DEF after, before
    <3>6. (got' \o dest') \o Dec!Buffered' = ContentTo(file, At)
      BY <2>2, <3>2, <3>4, <3>5, ConcatEmptySeq
    <3>7. Unbroken(At) => window = Reach(ContentTo(file, At))
      BY <2>2, <3>1 DEF Delivering, Decoded
    <3>8. dop # "read_part" => sbuf.of = "none"
      BY <2>2, <3>1 DEF Delivering
    <3> QED
      BY <1>0, <2>2, <2>3, <3>2, <3>3, <3>6, <3>7, <3>8, StillIs DEF Delivering, Decoded
  <2> QED
    BY <1>0, <2>4, <2>5, <2>6 DEF Course
<1> QED
  BY <1>1, <1>2

\* The end of the stream, after which nothing that holds bytes follows.
LEMMA NoBlockCourse ==
  ASSUME DecoderTypes, Course, Still, dpc = "flags", Placed', Dec!NoBlock,
         failed = 0 => /\ At' = Len(file) \/ (At' = Len(file) - 1 /\ Following'.item = "sum")
                       /\ ~header.legacy => HasEnd(file)
                       /\ ContentTo(file, At') = ContentTo(file, At)
                       /\ At <= At'
  PROVE  Course'
<1>1. /\ dpc' = "idle" /\ ended' /\ got' = got \o dest /\ dest' = <<>> /\ failed' = failed
      /\ UNCHANGED <<header, sbuf, readbuf, decodebuf, window, flags, dop, size>>
  BY DEF Dec!NoBlock, Dec!Return, Dec!bufs
<1>2. Reading'
  BY <1>1 DEF Reading
<1>3. rest' = <<>> <=> At' = Len(file)
  <2>1. file' = file /\ file' \in Seq(Item) /\ At' \in 0..Len(file') /\ rest' = LeftAt(file', At')
    BY LenProperties DEF Placed, Still
  <2> QED
    BY <2>1, LeftIs DEF IsLeft
<1>4. ASSUME failed' = 0 PROVE Ends'
  BY <1>1, <1>3, <1>4, StillIs DEF Ends
<1>5. ASSUME failed' = 0, Followed' PROVE Delivering'
  <2>1. Delivering
    BY <1>1, <1>5, StillIs DEF Course
  <2>2. Dec!Buffered' = Dec!Buffered /\ Dec!Buffered = <<>>
    BY <1>1, <2>1, BufferSame DEF Delivering
  <2>3. (got \o dest) \o Dec!Buffered = ContentTo(file, At)
    BY <2>1 DEF Delivering
  <2>4. got \o dest \in Seq(Byte)
    BY ConcatProperties DEF DecoderTypes
  <2>5. (got' \o dest') \o Dec!Buffered' = ContentTo(file', At')
    BY <1>1, <1>5, <2>2, <2>3, <2>4, ConcatEmptySeq, StillIs
  <2>6. Unbroken(At)' => window' = Reach(ContentTo(file', At'))
    <3> SUFFICES ASSUME Unbroken(At)' PROVE window' = Reach(ContentTo(file', At'))
      OBVIOUS
    <3>1. Unbroken(At)
      <4>1. /\ header.opts.linked /\ \A i \in Literals(file) : i > At'
            /\ At <= At' /\ At \in Nat /\ At' \in Nat
        BY <1>1, <1>5, StillIs, LenProperties DEF Unbroken, Course, Placed
      <4>2. \A i \in Literals(file) : i \in Int
        BY LenProperties DEF Literals, Course, Placed
      <4> QED
        BY <4>1, <4>2 DEF Unbroken
    <3>2. window = Reach(ContentTo(file, At))
      BY <2>1, <3>1 DEF Delivering, Decoded
    <3> QED
      BY <1>1, <1>5, <3>2, StillIs
  <2> QED
    BY <1>1, <2>2, <2>5, <2>6 DEF Delivering, Decoded
<1> QED
  BY <1>2, <1>4, <1>5 DEF Course

LEMMA FlagsCourse ==
  ASSUME DecoderTypes, Course, Still,
         Dec!LegacyEnd \/ Dec!ReadFlags \/ Dec!ReadWrongFlags \/ Dec!NoFlags
  PROVE  Course'
<1>0. /\ Placed /\ dpc = "flags" /\ failed \in Nat /\ Len(file) \in Nat /\ file \in Seq(Item)
      /\ At \in 1..Len(file) /\ (rest = <<>> <=> At = Len(file))
  BY Position DEF Course, Dec!LegacyEnd, Dec!ReadFlags, Dec!ReadWrongFlags, Dec!NoFlags, DecoderTypes
<1>1. Placed'
  BY DecodePlaced DEF Course, Dec!Decode, Dec!DecoderStep
<1>2. CASE Dec!LegacyEnd
  <2>1. rest = <<>> /\ rest' = rest /\ Dec!NoBlock /\ header.legacy
    BY <1>2 DEF Dec!LegacyEnd
  <2>2. At' = At
    BY <1>0, <2>1, Remains
  <2> QED
    BY <1>0, <1>1, <2>1, <2>2, NoBlockCourse
<1>3. CASE Dec!ReadFlags
  <2>1. rest # <<>> /\ rest' = Tail(rest) /\ Head(rest) = Following /\ Head(rest).item = "size"
        /\ Head(rest).n <= BlockSize
        /\ At + 1 \in 1..Len(file) /\ At \in 1..(Len(file) - 1) /\ Following \in Item
    BY <1>0, <1>3, Position DEF Dec!ReadFlags, Dec!Next4
  <2>2. At' = At + 1 /\ file' = file
    BY <1>0, <2>1, Tails DEF Still
  <2>3. CASE Head(rest).n = 0
    <3>1. Dec!NoBlock
      BY <1>3, <2>3 DEF Dec!ReadFlags
    <3>2. file[At + 1].item = "size" /\ file[At + 1].n = 0 /\ HasEnd(file)
      <4>1. file[At + 1].item = "size" /\ file[At + 1].n = 0
        BY <2>1, <2>3 DEF Following
      <4>2. DOMAIN file = 1..Len(file)
        BY <1>0, LenProperties
      <4> QED
        BY <2>1, <4>1, <4>2 DEF HasEnd
    <3>3. At' = Len(file) \/ (At' = Len(file) - 1 /\ Following'.item = "sum")
      <4> SUFFICES ASSUME At + 1 # Len(file)
                   PROVE  At + 1 = Len(file) - 1 /\ file[(At + 1) + 1].item = "sum"
        BY <2>2 DEF Following
      <4>1. At + 1 \in 1..(Len(file) - 1) /\ Formed(file)
        BY <1>0, <2>1 DEF Placed
      <4>2. file[(At + 1) + 1].item = "sum" /\ Len(file) = (At + 1) + 1
        BY <3>2, <4>1, FormedIs
      <4> QED
        BY <1>0, <4>2
    <3>4. ContentTo(file, At') = ContentTo(file, At)
      BY <1>0, <2>1, <2>2, NextContent
    <3> QED
      BY <1>0, <1>1, <2>2, <3>1, <3>2, <3>3, <3>4, NoBlockCourse
  <2>4. CASE Head(rest).n # 0
    <3>1. /\ dpc' = "body" /\ flags' = [literal |-> Head(rest).literal, n |-> Head(rest).n]
          /\ UNCHANGED <<header, ended, sbuf, readbuf, decodebuf, window, dop, size, dest, got, failed>>
      BY <1>3, <2>4 DEF Dec!ReadFlags, Dec!bufs
    <3>2. Announced'
      <4>1. Head(rest).n \in 1..BlockSize
        BY <2>1, <2>4, ItemKinds, OldStreamAssumption
      <4>2. file'[At'] = Head(rest)
        BY <2>1, <2>2 DEF Following
      <4> QED
        BY <2>1, <3>1, <4>1, <4>2 DEF Announced
    <3>3. ASSUME failed' = 0 PROVE Ends'
      <4>1. Ends
        BY <3>1, <3>3 DEF Course
      <4>2. ~ended
        BY <1>0, <2>1, <4>1 DEF Ends
      <4> QED
        BY <3>1, <4>2 DEF Ends
    <3>4. ASSUME failed' = 0, Followed' PROVE Delivering'
      <4>1. Delivering /\ Ends
        BY <3>1, <3>4, StillIs DEF Course
      <4>2. ~ended /\ (got \o dest) \o Dec!Buffered = ContentTo(file, At) /\ Dec!Buffered = <<>>
        BY <1>0, <2>1, <4>1 DEF Ends, Delivering
      <4>3. got \o dest \in Seq(Byte)
        BY ConcatProperties DEF DecoderTypes
      <4>4. ContentTo(file, At + 1) = ContentTo(file, At)
        BY <1>0, <2>1, NextContent
      <4>5. got' \o dest' = ContentTo(file', At')
        BY <2>2, <3>1, <4>2, <4>3, <4>4, ConcatEmptySeq
      <4>6. Unbroken(At)' => window' = Reach(ContentTo(file', At'))
        <5>1. Unbroken(At)' => Unbroken(At)
          <6>1. \A i \in Literals(file) : i \in Int
            BY <1>0, LenProperties DEF Literals
          <6> QED
            BY <1>0, <2>2, <6>1, StillIs DEF Unbroken
        <5>2. Unbroken(At) => window = Reach(ContentTo(file, At))
          BY <1>0, <4>1 DEF Delivering, Decoded
        <5> QED
          BY <2>2, <3>1, <4>4, <5>1, <5>2
      <4>7. dop # "read_part" => sbuf.of = "none"
        BY <1>0, <4>1 DEF Delivering
      <4> QED
        BY <3>1, <4>2, <4>5, <4>6, <4>7 DEF Delivering, Decoded
    <3> QED
      BY <1>1, <3>1, <3>2, <3>3, <3>4 DEF Course, Reading
  <2> QED
    BY <2>3, <2>4
<1>4. CASE Dec!ReadWrongFlags
  <2>1. rest # <<>> /\ Head(rest) = Following /\ Following.item # "size" /\ rest' = <<>>
        /\ At \in 1..(Len(file) - 1)
    BY <1>0, <1>4, Position DEF Dec!ReadWrongFlags, Dec!Next4
  <2>2. At' = Len(file)
    BY <1>0, <2>1, Skips
  <2>3. failed = 0 => ended /\ At = Len(file) - 1 /\ Following.item = "sum" /\ (~header.legacy => HasEnd(file))
    BY <1>0, <2>1 DEF Course, Ends
  <2>4. CASE Dec!NoBlock
    <3>1. failed = 0 => ContentTo(file, At') = ContentTo(file, At)
      <4> SUFFICES ASSUME failed = 0 PROVE ContentTo(file, At') = ContentTo(file, At)
        OBVIOUS
      <4>1. At' = At + 1
        BY <1>0, <2>2, <2>3
      <4> QED
        BY <1>0, <2>1, <2>3, <4>1, NextContent
    <3> QED
      BY <1>0, <1>1, <2>2, <2>3, <2>4, <3>1, NoBlockCourse
  <2>5. CASE Dec!Raise
    BY <1>0, <1>1, <2>5, Raises DEF Dec!Raise
  <2>6. CASE /\ Len(rest) > 1 /\ flags' = [literal |-> TRUE, n |-> 1] /\ readbuf' = <<Junk>> /\ dpc' = "sum"
             /\ UNCHANGED failed
    <3>1. failed # 0
      BY <1>0, <2>3, <2>6, Position
    <3> QED
      BY <1>0, <1>1, <2>1, <2>6, <3>1 DEF Course, Reading
  <2> QED
    BY <1>4, <2>4, <2>5, <2>6 DEF Dec!ReadWrongFlags
<1>5. CASE Dec!NoFlags
  BY <1>0, <1>1, <1>5, Raises DEF Dec!NoFlags, Dec!Raise
<1> QED
  BY <1>2, <1>3, <1>4, <1>5

LEMMA BodyCourse ==
  ASSUME DecoderTypes, Course, Still, Dec!ReadBody \/ Dec!ShortBody
  PROVE  Course'
<1>0. Placed /\ dpc = "body" /\ failed \in Nat /\ Announced /\ Placed'
  BY DecodePlaced DEF Course, Dec!ReadBody, Dec!ShortBody, DecoderTypes, Reading, Dec!Decode, Dec!DecoderStep
<1>1. CASE Dec!ShortBody
  BY <1>0, <1>1, Raises DEF Dec!ShortBody, Dec!Raise
<1>2. CASE Dec!ReadBody
  <2>1. /\ rest # <<>> /\ Head(rest).item = "payload" /\ rest' = rest
        /\ readbuf' = Dec!Bytes(Head(rest).block) /\ dpc' = IF flags.literal THEN "sum" ELSE "decode"
        /\ UNCHANGED <<header, ended, sbuf, decodebuf, window, flags, dop, size, dest, got, failed>>
    BY <1>2 DEF Dec!ReadBody, Dec!Next4
  <2>2. At' = At /\ Following' = Following /\ Announced'
    <3>1. At' = At
      BY <1>0, <2>1, Remains
    <3> QED
      BY <1>0, <2>1, <3>1 DEF Following, Announced, Still
  <2>3. /\ Head(rest) = Following /\ Following \in Item /\ At \in 1..(Len(file) - 1) /\ Len(file) \in Nat
        /\ At < Len(file)
    BY <1>0, <2>1, Position
  <2>4. Announces(file[At], Following.block) /\ Following.block \in Block
    <3>1. Formed(file) /\ file[At].item = "size" /\ file[At].n > 0 /\ file[At + 1].item = "payload"
      BY <1>0, <2>1, <2>3 DEF Placed, Announced, Following
    <3> QED
      BY <2>1, <2>3, <3>1, FormedIs, ItemKinds DEF Following
  <2>5. flags.literal => readbuf' = Following.block.data
    BY <1>0, <2>1, <2>3, <2>4 DEF Announced, Announces, Dec!Bytes
  <2>6. IsHere'
    BY <2>1, <2>2, <2>3 DEF IsHere, Still
  <2>7. Reading'
    BY <2>1, <2>2, <2>5, <2>6 DEF Reading
  <2>8. ASSUME failed' = 0 PROVE Ends'
    <3>1. ~ended
      BY <1>0, <2>1, <2>8 DEF Course, Ends
    <3> QED
      BY <2>1, <3>1 DEF Ends
  <2>9. ASSUME failed' = 0, Followed' PROVE Delivering'
    <3>1. Delivering /\ Ends
      BY <2>1, <2>9, StillIs DEF Course
    <3>2. ~ended /\ got \o dest = ContentTo(file, At) /\ (dop # "read_part" => sbuf.of = "none")
      BY <1>0, <3>1 DEF Ends, Delivering
    <3>3. Unbroken(At)' = Unbroken(At)
      BY <2>2, StillIs DEF Unbroken
    <3>4. Unbroken(At) => window = Reach(ContentTo(file, At))
      BY <1>0, <3>1 DEF Delivering, Decoded
    <3>5. ~Decoded'
      BY <2>1 DEF Decoded
    <3> QED
      BY <2>1, <2>2, <3>2, <3>3, <3>4, <3>5, StillIs DEF Delivering
  <2> QED
    BY <1>0, <2>7, <2>8, <2>9 DEF Course
<1> QED
  BY <1>1, <1>2

\* What a block refers to is in the dictionary.
LEMMA DictionarySuffices ==
  ASSUME DecoderTypes, Placed, Delivering, Followed, dpc = "decode", IsHere, Following.block \in Block
  PROVE  IsSuffix(Following.block.refers, Dec!Dictionary)
<1> DEFINE r == Following.block.refers
<1>0. /\ file \in Seq(Item) /\ Len(file) \in Nat /\ At \in 1..Len(file) /\ At + 1 \in 1..Len(file)
      /\ DOMAIN file = 1..Len(file) /\ file[At + 1].item = "payload" /\ file[At + 1].block.refers = r
  BY Position, LenProperties DEF IsHere, Following
<1>1. r \in Seq(Byte) /\ Dec!Dictionary \in Seq(Byte)
  <2>1. r \in Seq(Nat) /\ Nat \subseteq Byte
    BY BlockIs DEF Byte
  <2> QED
    BY <2>1, SeqMonotonic, EmptySeq DEF Dec!Dictionary, DecoderTypes
<1> HIDE DEF r
<1>2. CASE r = <<>>
  <2>1. EndsWith(Dec!Dictionary, r)
    BY <1>1, <1>2, EmptyEnds
  <2> QED
    BY <1>1, <2>1, SuffixIs DEF r
<1>3. CASE r # <<>>
  <2>1. InReach(file)
    BY DEF Placed
  <2>2. file[1].opts.linked /\ EndsWith(Reach(ContentTo(file, (At + 1) - 1)), r)
    BY <1>0, <1>3, <2>1, InReachIs
  <2>3. (At + 1) - 1 = At
    BY <1>0
  <2>4. \A i \in Literals(file) : i > At
    <3> SUFFICES ASSUME NEW i \in Literals(file), ~(i > At) PROVE FALSE
      OBVIOUS
    <3>1. i \in 1..Len(file) /\ i < At + 1 /\ file[i].item = "payload" /\ file[i].block.literal
      BY <1>0 DEF Literals
    <3>2. \E j \in DOMAIN file : file[j].item = "payload" /\ file[j].block.refers # <<>>
      BY <1>0, <1>3
    <3> QED
      BY <1>0, <3>1, <3>2 DEF Followed
  <2>5. header.opts.linked
    BY <2>2 DEF Placed
  <2>6. Unbroken(At)
    BY <2>4, <2>5 DEF Unbroken
  <2>7. Dec!Dictionary = Reach(ContentTo(file, At))
    BY <2>5, <2>6 DEF Dec!Dictionary, Delivering, Decoded
  <2>8. EndsWith(Dec!Dictionary, r)
    BY <2>2, <2>3, <2>7
  <2> QED
    BY <1>1, <2>8, SuffixIs DEF r
<1> QED
  BY <1>2, <1>3

\* The operator of the library, as the decoder's module has it.
LEMMA SuffixToo ==
  ASSUME NEW r, NEW t
  PROVE  Dec!IsSuffix(r, t) <=> IsSuffix(r, t)
BY DEF Dec!IsSuffix, IsSuffix, Dec!IsPrefix, IsPrefix, Dec!Reverse, Reverse

LEMMA DecodeCourse ==
  ASSUME DecoderTypes, Course, Still, Dec!DecodeBody \/ Dec!DecodeRaises
  PROVE  Course'
<1>0. Placed /\ dpc = "decode" /\ failed \in Nat /\ Announced /\ IsHere /\ ~flags.literal /\ Placed'
  BY DecodePlaced DEF Course, Dec!DecodeBody, Dec!DecodeRaises, DecoderTypes, Reading, Dec!Decode, Dec!DecoderStep
<1>1. CASE Dec!DecodeRaises
  BY <1>0, <1>1, Raises DEF Dec!DecodeRaises, Dec!Raise
<1>2. CASE Dec!DecodeBody
  <2> DEFINE block == Head(rest).block
             all == window \o decodebuf'
  <2>1. /\ dpc' = "sum" /\ Len(block.data) <= BlockSize
        /\ IsSuffix(block.refers, Dec!Dictionary) => decodebuf' = block.data
        /\ window' = IF header.opts.linked
                       THEN SubSeq(all, IF Len(all) > W THEN Len(all) - W + 1 ELSE 1, Len(all)) ELSE window
        /\ UNCHANGED <<rest, header, ended, sbuf, readbuf, flags, dop, size, dest, got, failed>>
    <3>1. /\ dpc' = "sum" /\ Len(block.data) <= BlockSize
          /\ UNCHANGED <<rest, header, ended, sbuf, readbuf, flags, dop, size, dest, got, failed>>
      BY <1>2 DEF Dec!DecodeBody
    <3>2. IsSuffix(block.refers, Dec!Dictionary) => decodebuf' = block.data
      <4>1. Dec!IsSuffix(block.refers, Dec!Dictionary) => decodebuf' = block.data
        BY <1>2 DEF Dec!DecodeBody
      <4> QED
        BY <4>1, SuffixToo
    <3>3. window' = IF header.opts.linked
                      THEN SubSeq(all, IF Len(all) > W THEN Len(all) - W + 1 ELSE 1, Len(all)) ELSE window
      BY <1>2, Zenon DEF Dec!DecodeBody
    <3> QED
      BY <3>1, <3>2, <3>3, Zenon
  <2>2. /\ Head(rest) = Following /\ Following \in Item /\ At \in 1..(Len(file) - 1) /\ Len(file) \in Nat
        /\ At < Len(file) /\ Following.item = "payload" /\ rest # <<>>
    BY <1>0, Position DEF IsHere
  <2>3. block = Following.block /\ block \in Block
    BY <2>2, ItemKinds
  <2> HIDE DEF block
  <2>4. At' = At /\ Following' = Following /\ Announced' /\ IsHere'
    <3>1. At' = At
      BY <1>0, <2>1, Remains
    <3> QED
      BY <1>0, <2>1, <2>2, <3>1 DEF Following, Announced, IsHere, Still
  <2>5. Reading'
    BY <1>0, <2>1, <2>4 DEF Reading
  <2>6. ASSUME failed' = 0 PROVE Ends'
    <3>1. ~ended
      BY <1>0, <2>1, <2>6 DEF Course, Ends
    <3> QED
      BY <2>1, <3>1 DEF Ends
  <2>7. ASSUME failed' = 0, Followed' PROVE Delivering'
    <3>1. Delivering /\ Ends /\ Followed
      BY <2>1, <2>7, StillIs DEF Course
    <3>2. ~ended /\ got \o dest = ContentTo(file, At) /\ (dop # "read_part" => sbuf.of = "none")
      BY <1>0, <3>1 DEF Ends, Delivering
    <3>3. decodebuf' = block.data
      <4>1. IsSuffix(Following.block.refers, Dec!Dictionary)
        BY <1>0, <2>3, <3>1, DictionarySuffices
      <4> QED
        BY <2>1, <2>3, <4>1
    <3>4. Unbroken(At)' => window' = Reach(ContentTo(file, At + 1))
      <4> SUFFICES ASSUME Unbroken(At)' PROVE window' = Reach(ContentTo(file, At + 1))
        OBVIOUS
      <4>1. Unbroken(At) /\ header.opts.linked
        BY <2>4, StillIs DEF Unbroken
      <4>2. window = Reach(ContentTo(file, At))
        BY <1>0, <3>1, <4>1 DEF Delivering, Decoded
      <4> DEFINE c == ContentTo(file, At)
                 d == block.data
      <4>3. c \in Seq(Nat) /\ d \in Seq(Nat) /\ ContentTo(file, At + 1) = c \o d
        <5>1. Data(Following) = d
          BY <2>2, <2>3 DEF Data
        <5> QED
          BY <1>0, <2>2, <5>1, NextContent
      <4>4. all = Reach(c) \o d
        BY <3>3, <4>2
      <4> HIDE DEF c, d, all
      <4>5. Reach(Reach(c) \o d) = Reach(c \o d)
        BY <4>3, ReachForgets
      <4>6. all \in Seq(Byte)
        <5>1. Reach(c) \o d \in Seq(Nat)
          BY <4>3, ReachIs, ConcatProperties
        <5> QED
          BY <4>4, <5>1, SeqMonotonic DEF Byte
      <4>7. window' = Reach(all)
        BY <2>1, <4>1, <4>6, WindowIs
      <4> QED
        BY <4>3, <4>4, <4>5, <4>7
    <3>5. Decoded'
      BY <1>0, <2>1 DEF Decoded
    <3>6. ContentTo(file', At' + 1) = ContentTo(file, At + 1) /\ ContentTo(file', At') = ContentTo(file, At)
      BY <2>4, StillIs
    <3> QED
      BY <2>1, <2>3, <2>4, <3>2, <3>3, <3>4, <3>5, <3>6 DEF Delivering
  <2> QED
    BY <1>0, <2>5, <2>6, <2>7 DEF Course
<1> QED
  BY <1>1, <1>2

\* How far the decoder gets with a block.
LEMMA PastBlock ==
  ASSUME Placed, Placed', Still, Announced, IsHere,
         At' = Later(file, At, IF header.opts.blocksum THEN 2 ELSE 1)
  PROVE  /\ At' >= At + 1 /\ At' \in Nat /\ At \in Nat
         /\ rest' = <<>> \/ Following'.item = "size"
         /\ ContentTo(file, At') = ContentTo(file, At) \o Following.block.data
         /\ ContentTo(file, At') = ContentTo(file, At + 1)
         /\ Following.block.literal = flags.literal /\ Following.block \in Block
         /\ At + 1 \in DOMAIN file
<1> DEFINE a == At
           b == At'
<1>0. /\ file \in Seq(Item) /\ Len(file) \in Nat /\ a \in 1..(Len(file) - 1) /\ rest # <<>>
      /\ file[a + 1].item = "payload" /\ file[a].item = "size" /\ file[a].n > 0 /\ Formed(file)
      /\ file[a].literal = flags.literal /\ file[a + 1] \in Item /\ DOMAIN file = 1..Len(file)
      /\ header.opts = file[1].opts /\ Following = file[a + 1]
  BY Position, LenProperties DEF IsHere, Announced, Following, Placed
<1> DEFINE k == IF header.opts.blocksum THEN 2 ELSE 1
<1>1. b = Later(file, a, k) /\ k \in {1, 2} /\ (k = 2 <=> header.opts.blocksum)
  OBVIOUS
<1>2. rest' = <<>> <=> b = Len(file)
  <2>1. file' = file /\ file' \in Seq(Item) /\ At' \in 0..Len(file') /\ rest' = LeftAt(file', At')
    BY LenProperties DEF Placed, Still
  <2> QED
    BY <2>1, LeftIs DEF IsLeft
<1>3. Following' = file[b + 1]
  BY DEF Following, Still
<1>4. ContentTo(file, a + 1) = ContentTo(file, a) \o file[a + 1].block.data
  <2>1. ContentTo(file, At + 1) = ContentTo(file, At) \o Data(Following)
    BY <1>0, NextContent
  <2>2. Data(Following) = file[a + 1].block.data
    BY <1>0 DEF Data
  <2> QED
    BY <2>1, <2>2
<1> HIDE DEF a, b, k
<1>10. (b = IF a + k <= Len(file) THEN a + k ELSE Len(file)) /\ (k = 1 \/ k = 2)
  BY <1>1 DEF Later
<1>11. a \in Nat /\ 1 <= a /\ a + 1 <= Len(file) /\ Len(file) \in Nat
  BY <1>0
<1>5. b >= a + 1 /\ b \in Nat /\ a \in Nat /\ b <= a + 2 /\ b <= Len(file)
  BY <1>10, <1>11
<1>6. file[a + 1].block.literal = flags.literal /\ file[a + 1].block \in Block
  <2>1. Announces(file[a], file[a + 1].block)
    BY <1>0, FormedIs
  <2> QED
    BY <1>0, <2>1, ItemKinds DEF Announces
<1>7. b = Len(file) \/ file[b + 1].item = "size"
  <2> SUFFICES ASSUME b # Len(file) PROVE file[b + 1].item = "size"
    OBVIOUS
  <2>1. a + 1 \in 1..(Len(file) - 1) /\ b = a + k
    BY <1>10, <1>11
  <2> DEFINE i == a + 1
  <2>2. CASE header.opts.blocksum
    <3>1. i + 1 < Len(file) /\ i + 2 = b + 1 /\ i \in 1..(Len(file) - 1)
      BY <1>1, <1>5, <1>11, <2>1, <2>2
    <3> QED
      BY <1>0, <2>2, <3>1, FormedIs
  <2>3. CASE ~header.opts.blocksum
    <3>1. i + 1 = b + 1 /\ i \in 1..(Len(file) - 1)
      BY <1>1, <1>5, <1>11, <2>1, <2>3
    <3> QED
      BY <1>0, <2>3, <3>1, FormedIs
  <2> QED
    BY <2>2, <2>3
<1>8. ContentTo(file, b) = ContentTo(file, a + 1)
  <2>1. b = a + 1 \/ (b = a + 2 /\ header.opts.blocksum)
    BY <1>1, <1>10, <1>11
  <2>2. CASE b = a + 2 /\ header.opts.blocksum
    <3>1. a + 1 \in 1..(Len(file) - 1) /\ a + 1 \in 0..(Len(file) - 1) /\ a + 1 \in 0..Len(file)
          /\ (a + 1) + 1 = b
      BY <1>0, <1>5, <2>2
    <3>2. file[(a + 1) + 1].item = "sum"
      BY <1>0, <2>2, <3>1, FormedIs
    <3>3. ContentTo(file, (a + 1) + 1) = ContentTo(file, a + 1) \o Data(file[(a + 1) + 1])
      BY <1>0, <3>1, ContentStep
    <3>4. ContentTo(file, a + 1) \in Seq(Nat) /\ Data(file[(a + 1) + 1]) = <<>>
      BY <1>0, <3>1, <3>2, ContentType DEF Data
    <3> QED
      BY <3>1, <3>3, <3>4, ConcatEmptySeq
  <2> QED
    BY <2>1, <2>2
<1>9. a + 1 \in DOMAIN file
  BY <1>0
<1> QED
  BY <1>0, <1>2, <1>3, <1>4, <1>5, <1>6, <1>7, <1>8, <1>9 DEF a, b

\* The block joins what the call returns, or is what later calls return.
LEMMA TakeCourse ==
  ASSUME DecoderTypes, Course, Still, Dec!TakeBlock
  PROVE  Course'
<1> DEFINE name == IF flags.literal THEN "readbuf" ELSE "decodebuf"
           s == Dec!StringOf(name)
           k == IF header.opts.blocksum THEN 2 ELSE 1
<1>0. Placed /\ Reading /\ dpc = "sum" /\ failed \in Nat
  BY DEF Course, Dec!TakeBlock, DecoderTypes
<1>1. /\ rest' = LeftAt(rest, k) /\ k \in Nat
      /\ UNCHANGED <<header, ended, readbuf, decodebuf, window, flags, dop, size>>
      /\ IF dop = "read_part"
           THEN /\ sbuf' = [of |-> name, at |-> 0]
                /\ \/ dpc' = "idle" /\ failed' = failed + 1
                   \/ dpc' = "loop" /\ UNCHANGED <<dest, got, failed>>
           ELSE dest' = dest \o s /\ dpc' = "flags" /\ UNCHANGED <<sbuf, got, failed>>
  BY DEF Dec!TakeBlock, Dec!Raise, LeftAt
<1>2. Placed' /\ At' = Later(file, At, k)
  BY <1>0, <1>1, Moves
<1>3. CASE dpc' = "idle" /\ failed' = failed + 1
  BY <1>0, <1>2, <1>3, Raises
<1>4. CASE UNCHANGED failed /\ dpc' \in {"loop", "flags"}
  <2>1. Reading'
    BY <1>4 DEF Reading
  <2> SUFFICES ASSUME failed = 0 PROVE Ends' /\ (Followed' => Delivering')
    BY <1>2, <1>4, <2>1 DEF Course
  <2>2. Announced /\ IsHere /\ Ends /\ ~ended /\ (Followed => Delivering)
        /\ (flags.literal => readbuf = Following.block.data)
    BY <1>0 DEF Reading, Course, Ends
  <2>3. /\ At' >= At + 1 /\ At' \in Nat /\ At \in Nat /\ At + 1 \in DOMAIN file
        /\ rest' = <<>> \/ Following'.item = "size"
        /\ ContentTo(file, At') = ContentTo(file, At) \o Following.block.data
        /\ ContentTo(file, At') = ContentTo(file, At + 1)
        /\ Following.block.literal = flags.literal /\ Following.item = "payload"
    BY <1>0, <1>2, <2>2, PastBlock DEF IsHere
  <2>4. Ends'
    BY <1>1, <1>4, <2>2, <2>3 DEF Ends
  <2>5. ASSUME Followed' PROVE Delivering'
    <3>1. Delivering
      BY <2>2, <2>5, StillIs
    <3>2. s = Following.block.data
      BY <1>0, <2>2, <3>1 DEF Delivering, Decoded, Dec!StringOf
    <3>3. /\ got \in Seq(Byte) /\ dest \in Seq(Byte) /\ s \in Seq(Byte)
          /\ got \o dest = ContentTo(file, At)
      BY <1>0, <3>1, BufferedIs DEF DecoderTypes, Delivering
    <3>4. Unbroken(At)' => window' = Reach(ContentTo(file, At'))
      <4> SUFFICES ASSUME Unbroken(At)' PROVE window' = Reach(ContentTo(file, At'))
        OBVIOUS
      <4>1. header.opts.linked /\ \A i \in Literals(file) : i > At'
        BY StillIs DEF Unbroken
      <4>2. ~flags.literal
        <5> SUFFICES ASSUME flags.literal PROVE FALSE
          OBVIOUS
        <5>1. At + 1 \in Literals(file)
          BY <2>3 DEF Literals, Following
        <5> QED
          BY <2>3, <4>1, <5>1
      <4>3. Unbroken(At)
        <5>1. \A i \in Literals(file) : i \in Int
          BY <1>0, Position, LenProperties DEF Literals
        <5> QED
          BY <2>3, <4>1, <5>1 DEF Unbroken
      <4> QED
        BY <1>0, <1>1, <2>3, <3>1, <4>2, <4>3 DEF Delivering, Decoded
    <3>5. Dec!Buffered' = (IF dop = "read_part" THEN s ELSE <<>>)
          /\ (dop # "read_part" => sbuf'.of = "none")
      <4>1. CASE dop = "read_part"
        <5>1. name \in {"readbuf", "decodebuf"} /\ sbuf' = [of |-> name, at |-> 0]
          BY <1>1, <4>1
        <5>2. Dec!Buffered' = s
          BY <1>1, <5>1, BufferNew
        <5> QED
          BY <4>1, <5>2
      <4>2. CASE dop # "read_part"
        <5>1. UNCHANGED <<sbuf, readbuf, decodebuf>> /\ sbuf.of = "none"
          BY <1>0, <1>1, <3>1, <4>2 DEF Delivering
        <5>2. Dec!Buffered' = <<>>
          BY <5>1, BufferSame, BufferedIs
        <5> QED
          BY <4>2, <5>1, <5>2
      <4> QED
        BY <4>1, <4>2
    <3> HIDE DEF s
    <3>6. (got' \o dest') \o Dec!Buffered' = ContentTo(file, At')
      <4>1. CASE dop = "read_part"
        BY <1>1, <1>4, <2>3, <3>2, <3>3, <3>5, <4>1
      <4>2. CASE dop # "read_part"
        <5>1. got' = got /\ dest' = dest \o s /\ Dec!Buffered' = <<>>
          BY <1>1, <3>5, <4>2
        <5>2. got \o (dest \o s) = (got \o dest) \o s
          <6>1. got \in Seq(Byte) /\ dest \in Seq(Byte) /\ s \in Seq(Byte)
            BY <3>3
          <6>2. (got \o dest) \o s = got \o (dest \o s)
            BY <6>1, ConcatAssociative
          <6> QED
            BY <6>2
        <5>3. (got \o dest) \o s \in Seq(Byte)
          BY <3>3, ConcatProperties
        <5> QED
          BY <2>3, <3>2, <3>3, <5>1, <5>2, <5>3, ConcatEmptySeq
      <4> QED
        BY <4>1, <4>2
    <3>7. (dpc' = "flags" => dop # "read_part") /\ dop' = dop /\ ~ended' /\ dpc' # "idle" /\ dpc' # "sum"
      BY <1>1, <1>4, <2>2
    <3>8. ContentTo(file', At') = ContentTo(file, At')
      BY StillIs
    <3> QED
      BY <1>4, <3>4, <3>5, <3>6, <3>7, <3>8 DEF Delivering, Decoded
  <2> QED
    BY <2>4, <2>5
<1> QED
  BY <1>1, <1>3, <1>4

\* A step of a call.
LEMMA DecodeStays ==
  ASSUME DecoderIs, Dec!Decode, UNCHANGED <<evars, fvars, file>>
  PROVE  DecoderIs'
<1>1. Still
  <2>1. UNCHANGED <<file, fpc, raised>>
    BY DEF evars, fvars
  <2>2. UNCHANGED header
    BY DEF Dec!Decode, Dec!DecoderStep, Dec!read_all, Dec!read_part, Dec!TakeBuffered, Dec!NeedBlock,
         Dec!LegacyEnd, Dec!ReadFlags, Dec!ReadWrongFlags, Dec!NoFlags, Dec!NoBlock, Dec!ReadBody,
         Dec!ShortBody, Dec!DecodeBody, Dec!DecodeRaises, Dec!TakeBlock, Dec!ReadRaises
  <2> QED
    BY <2>1, <2>2 DEF Still
<1>2. dpc # "new" /\ dpc' # "new"
  BY DEF Dec!Decode, Dec!DecoderStep, Dec!read_all, Dec!read_part, Dec!Ready, Dec!TakeBuffered, Dec!NeedBlock,
         Dec!LegacyEnd, Dec!ReadFlags, Dec!ReadWrongFlags, Dec!NoFlags, Dec!NoBlock, Dec!ReadBody,
         Dec!ShortBody, Dec!DecodeBody, Dec!DecodeRaises, Dec!TakeBlock, Dec!ReadRaises, Dec!Return, Dec!Raise
<1>3. DecoderTypes /\ Placed /\ Reading /\ Course
  BY <1>2 DEF DecoderIs, Course
<1>4. DecoderTypes'
  BY <1>1, <1>2, <1>3, DecodeTypes
<1>5. Course'
  <2>1. CASE Dec!ReadRaises
    <3>1. Placed' /\ dpc' = "idle" /\ failed' = failed + 1 /\ failed \in Nat
      BY <1>1, <1>3, <2>1, DecodePlaced DEF Dec!ReadRaises, Dec!Raise, DecoderTypes
    <3> QED
      BY <3>1, Raises
  <2> QED
    BY <1>1, <1>3, <2>1, AllCourse, PartCourse, LoopCourse, FlagsCourse, BodyCourse, DecodeCourse, TakeCourse
       DEF Dec!Decode, Dec!DecoderStep
<1> QED
  BY <1>2, <1>4, <1>5 DEF DecoderIs, Course
-----------------------------------------------------------------------------
(* What is opened.                                                         *)
CutOff(f, g) ==
  /\ g \in Seq(Item) /\ Len(g) \in 1..Len(f)
  /\ \A i \in 1..(Len(g) - 1) : g[i] = f[i]
  /\ \/ g[Len(g)] = f[Len(g)]
     \/ /\ f[Len(g)].item = "payload" /\ g[Len(g)].item = "cut"
        /\ g[Len(g)].block.literal = f[Len(g)].block.literal
        /\ g[Len(g)].block.n < f[Len(g)].block.n

LEMMA CutPayloadIs ==
  ASSUME NEW b \in Block, NEW n \in 1..(b.n - 1)
  PROVE  /\ CutPayload(b, n) \in Item /\ CutPayload(b, n).item = "cut"
         /\ CutPayload(b, n).block.literal = b.literal /\ CutPayload(b, n).block.n < b.n
<1> DEFINE s == SubSeq(b.data, 1, n)
<1>1. b.literal \in BOOLEAN /\ b.n \in Nat /\ b.data \in Seq(Nat) /\ b.refers \in Seq(Nat) /\ n \in Nat /\ n < b.n
      /\ (b.literal => Len(b.data) = b.n)
  BY BlockIs
<1>2. ASSUME b.literal PROVE s \in Seq(Nat) /\ Len(s) = n
  <2>1. n \in 0..Len(b.data)
    BY <1>1, <1>2
  <2> QED
    BY <1>1, <2>1, FrontAndLeft
<1> HIDE DEF s
<1>3. CASE b.literal
  <2> DEFINE c == [literal |-> TRUE, n |-> Len(s), data |-> s, refers |-> <<>>]
  <2>1. c \in Block /\ c.literal = b.literal /\ c.n = n
    <3>1. b.literal = TRUE /\ s \in Seq(Nat) /\ Len(s) = n /\ n \in Nat /\ <<>> \in Seq(Nat)
      BY <1>1, <1>2, <1>3, EmptySeq
    <3> QED
      BY <3>1 DEF Block
  <2>2. CutPayload(b, n) = [item |-> "cut", block |-> c]
    BY <1>3 DEF CutPayload, Enc!Literal, s
  <2> HIDE DEF c
  <2>3. c.n < b.n /\ c.literal = b.literal /\ c \in Block
    BY <1>1, <2>1
  <2> QED
    BY <2>2, <2>3 DEF Item
<1>4. CASE ~b.literal
  <2> DEFINE c == [b EXCEPT !.n = n]
  <2>1. c \in Block /\ c.literal = b.literal /\ c.n = n
    BY <1>1, <1>4 DEF Block
  <2>2. CutPayload(b, n) = [item |-> "cut", block |-> c]
    BY <1>4 DEF CutPayload
  <2> HIDE DEF c
  <2> QED
    BY <1>1, <2>1, <2>2 DEF Item
<1> QED
  BY <1>3, <1>4

LEMMA CutIs ==
  ASSUME NEW f, Formed(f), NEW g \in Cuts(f)
  PROVE  CutOff(f, g)
<1>1. f \in Seq(Item) /\ Len(f) \in Nat /\ DOMAIN f = 1..Len(f)
  BY LenProperties DEF Formed
<1>2. CASE \E n \in 1..Len(f) : g = SubSeq(f, 1, n)
  <2>1. PICK n \in 1..Len(f) : g = SubSeq(f, 1, n)
    BY <1>2
  <2>2. n \in 0..Len(f) /\ n \in Nat
    BY <1>1
  <2>3. g \in Seq(Item) /\ Len(g) = n /\ \A i \in 1..n : g[i] = f[i]
    BY <1>1, <2>1, <2>2, FrontAndLeft
  <2> QED
    BY <1>1, <2>2, <2>3 DEF CutOff
<1>3. CASE \E k \in DOMAIN f : /\ f[k].item = "payload"
                               /\ \E n \in 1..(f[k].block.n - 1) :
                                    g = Append(SubSeq(f, 1, k - 1), CutPayload(f[k].block, n))
  <2>1. PICK k \in DOMAIN f : /\ f[k].item = "payload"
                              /\ \E n \in 1..(f[k].block.n - 1) :
                                   g = Append(SubSeq(f, 1, k - 1), CutPayload(f[k].block, n))
    BY <1>3
  <2>2. PICK n \in 1..(f[k].block.n - 1) : g = Append(SubSeq(f, 1, k - 1), CutPayload(f[k].block, n))
    BY <2>1
  <2> DEFINE s == SubSeq(f, 1, k - 1)
             x == CutPayload(f[k].block, n)
  <2>3. k \in 1..Len(f) /\ k - 1 \in 0..Len(f) /\ k \in Nat
    BY <1>1
  <2>4. s \in Seq(Item) /\ Len(s) = k - 1 /\ \A i \in 1..(k - 1) : s[i] = f[i]
    BY <1>1, <2>3, FrontAndLeft
  <2>5. f[k].block \in Block
    BY <1>1, <2>1, <2>3, ElementOfSeq, ItemKinds
  <2>6. x \in Item /\ x.item = "cut" /\ x.block.literal = f[k].block.literal /\ x.block.n < f[k].block.n
    BY <2>5, CutPayloadIs
  <2>7. g = Append(s, x)
    BY <2>2
  <2> HIDE DEF s, x
  <2>8. g \in Seq(Item) /\ Len(g) = k /\ g[k] = x /\ \A i \in 1..(k - 1) : g[i] = f[i]
    <3>1. /\ g \in Seq(Item) /\ Len(g) = Len(s) + 1 /\ g[Len(s) + 1] = x
          /\ \A i \in 1..Len(s) : g[i] = s[i]
      BY <2>4, <2>6, <2>7, AppendProperties
    <3> QED
      BY <2>3, <2>4, <3>1
  <2> QED
    BY <2>1, <2>3, <2>6, <2>8 DEF CutOff
<1> QED
  BY <1>2, <1>3 DEF Cuts

LEMMA CutFormed ==
  ASSUME NEW f, Formed(f), NEW g, CutOff(f, g)
  PROVE  Formed(g)
<1>1. /\ f \in Seq(Item) /\ Len(f) \in Nat /\ f[1].item \in {"header", "legacy"}
      /\ g \in Seq(Item) /\ Len(g) \in Nat /\ 1 <= Len(g) /\ Len(g) <= Len(f)
  BY LenProperties DEF Formed, CutOff
<1>2. g # <<>>
  BY <1>1, EmptySeq
<1>3. g[1] = f[1]
  <2>1. CASE Len(g) > 1
    <3>1. 1 \in 1..(Len(g) - 1)
      BY <1>1, <2>1
    <3> QED
      BY <3>1 DEF CutOff
  <2>2. CASE Len(g) = 1
    BY <1>1, <2>2 DEF CutOff
  <2>3. Len(g) > 1 \/ Len(g) = 1
    <3> DEFINE m == Len(g)
    <3>1. m \in Nat /\ 1 <= m
      BY <1>1
    <3> HIDE DEF m
    <3>2. m > 1 \/ m = 1
      BY <3>1
    <3> QED
      BY <3>2 DEF m
  <2> QED
    BY <2>1, <2>2, <2>3
<1>4. ASSUME NEW i \in 1..(Len(g) - 1) PROVE Follows(g, i)
  <2>1. i \in 1..(Len(f) - 1) /\ i \in Nat /\ g[i] = f[i] /\ (i > 1 => i - 1 \in 1..(Len(g) - 1))
    BY <1>1 DEF CutOff
  <2>2. Follows(f, i) /\ (i > 1 => g[i - 1] = f[i - 1])
    BY <2>1 DEF Formed, CutOff
  <2>3. CASE g[i + 1] = f[i + 1]
    BY <1>3, <2>1, <2>2, <2>3 DEF Follows
  <2>4. CASE g[i + 1] # f[i + 1]
    <3>1. i + 1 = Len(g)
      <4> SUFFICES ASSUME i + 1 # Len(g) PROVE FALSE
        OBVIOUS
      <4>1. i + 1 \in 1..(Len(g) - 1)
        BY <1>1, <2>1
      <4> QED
        BY <2>4, <4>1 DEF CutOff
    <3>2. /\ f[i + 1].item = "payload" /\ g[i + 1].item = "cut"
          /\ g[i + 1].block.literal = f[i + 1].block.literal /\ g[i + 1].block.n < f[i + 1].block.n
      BY <2>4, <3>1 DEF CutOff
    <3>3. f[i].item = "size" /\ f[i].n > 0 /\ Announces(f[i], f[i + 1].block)
      BY <2>2, <3>2 DEF Follows
    <3> QED
      BY <2>1, <3>2, <3>3 DEF Follows, Announces, AnnouncesMore
  <2> QED
    BY <2>3, <2>4
<1> QED
  BY <1>1, <1>2, <1>3, <1>4 DEF Formed

LEMMA CutReach ==
  ASSUME NEW f, Formed(f), InReach(f), NEW g, CutOff(f, g)
  PROVE  InReach(g)
<1>1. /\ f \in Seq(Item) /\ Len(f) \in Nat /\ DOMAIN f = 1..Len(f)
      /\ g \in Seq(Item) /\ Len(g) \in Nat /\ 1 <= Len(g) /\ Len(g) <= Len(f) /\ DOMAIN g = 1..Len(g)
  BY LenProperties DEF Formed, CutOff
<1> SUFFICES ASSUME NEW i \in DOMAIN g, g[i].item = "payload", g[i].block.refers # <<>>
             PROVE  g[1].opts.linked /\ EndsWith(Reach(ContentTo(g, i - 1)), g[i].block.refers)
  BY <1>1, InReachIs
<1>2. /\ i \in 1..Len(g) /\ i \in DOMAIN f /\ i - 1 \in Nat /\ i - 1 <= Len(g) /\ i - 1 <= Len(f)
      /\ \A k \in 1..(i - 1) : k \in 1..(Len(g) - 1)
  BY <1>1
<1>3. g[i] = f[i]
  <2>1. CASE i = Len(g)
    BY <2>1 DEF CutOff
  <2>2. CASE i # Len(g)
    <3>1. i \in 1..(Len(g) - 1)
      BY <1>1, <1>2, <2>2
    <3> QED
      BY <3>1 DEF CutOff
  <2> QED
    BY <2>1, <2>2
<1>4. f[1].opts.linked /\ EndsWith(Reach(ContentTo(f, i - 1)), f[i].block.refers)
  BY <1>1, <1>2, <1>3, InReachIs
<1>5. \A k \in 1..(i - 1) : Data(f[k]) = Data(g[k])
  BY <1>2 DEF CutOff
<1>6. ContentTo(f, i - 1) = ContentTo(g, i - 1)
  BY <1>1, <1>2, <1>5, ContentSame
<1>7. g[1] = f[1]
  <2>1. CASE i = 1
    BY <1>3, <2>1
  <2>2. CASE i # 1
    <3>1. 1 \in 1..(i - 1)
      BY <1>2, <2>2
    <3> QED
      BY <1>2, <3>1 DEF CutOff
  <2> QED
    BY <2>1, <2>2
<1> QED
  BY <1>3, <1>4, <1>6, <1>7
-----------------------------------------------------------------------------
(* A stream that was finished.                                             *)
EndOf(f) == Len(f) - (IF f[1].opts.streamsum THEN 1 ELSE 0)

\* Where its end mark is, and what is before it.
WrittenIs(f, e) ==
  /\ f \in Seq(Item) /\ Len(f) \in Nat /\ e \in 2..Len(f) /\ f[e] = Enc!EndMark
  /\ e = Len(f) \/ (e = Len(f) - 1 /\ f[Len(f)].item = "sum")
  /\ \A i \in 1..Len(f) : f[i].item = "size" /\ i # e =>
       /\ i + 1 < e /\ f[i].n > 0 /\ f[i + 1].item = "payload" /\ Announces(f[i], f[i + 1].block)
  /\ \A i \in 1..Len(f) : f[i].item = "payload" =>
       /\ i < e
       /\ f[1].opts.blocksum => f[i + 1].item = "sum" /\ i + 1 < e /\ f[i + 2].item = "size"
       /\ ~f[1].opts.blocksum => f[i + 1].item = "size"

LEMMA FinishedIs ==
  ASSUME NEW f, Formed(f), Complete(f)
  PROVE  WrittenIs(f, EndOf(f))
<1> DEFINE e == EndOf(f)
           last == Len(f)
<1>1. f \in Seq(Item) /\ last \in Nat \ {0} /\ f[1].item \in {"header", "legacy"}
  BY LenProperties, EmptySeq DEF Formed
<1>2. /\ e = last \/ (e = last - 1 /\ f[last].item = "sum")
      /\ f[e] = Enc!EndMark
  BY <1>1 DEF Complete, EndOf, Last
<1>3. f[e].item = "size" /\ f[e].n = 0
  BY <1>2 DEF Enc!EndMark, Enc!SizeWord
<1>4. f[1].opts.streamsum => last > 1
  BY DEF Complete
<1>5. e \in 2..last
  <2>1. e # 1
    BY <1>1, <1>3
  <2>2. e = last \/ (e = last - 1 /\ last > 1)
    BY <1>1, <1>4 DEF EndOf
  <2> HIDE DEF e, last
  <2> QED
    BY <1>1, <2>1, <2>2
<1>6. f[last].item \in {"sum", "size"} /\ (f[last].item = "size" => e = last)
  BY <1>2, <1>3
<1> HIDE DEF e
<1>7. ASSUME NEW i \in 1..last, f[i].item = "size", i # e
      PROVE  i + 1 < e /\ f[i].n > 0 /\ f[i + 1].item = "payload" /\ Announces(f[i], f[i + 1].block)
  <2>1. i \in 1..(Len(f) - 1)
    BY <1>1, <1>6, <1>7
  <2>2. f[i].n \in Nat
    BY <1>1, <1>7, ElementOfSeq, ItemKinds
  <2>3. f[i].n > 0
    <3> SUFFICES ASSUME f[i].n = 0 PROVE FALSE
      BY <2>2
    <3>1. f[i + 1].item = "sum" /\ Len(f) = i + 1
      BY <1>7, <2>1, FormedIs
    <3>2. e = i
      BY <1>1, <1>2, <1>3, <3>1
    <3> QED
      BY <1>7, <3>2
  <2>4. f[i + 1].item # "cut"
    <3> SUFFICES ASSUME f[i + 1].item = "cut" PROVE FALSE
      OBVIOUS
    <3>1. i + 1 \in 1..(Len(f) - 1)
      BY <1>1, <1>6, <2>1
    <3>2. Follows(f, i + 1)
      BY <3>1 DEF Formed
    <3> QED
      BY <3>2 DEF Follows
  <2>5. f[i + 1].item = "payload" /\ Announces(f[i], f[i + 1].block)
    BY <1>7, <2>1, <2>3, <2>4, FormedIs
  <2>6. i + 1 # e /\ i + 1 # last
    BY <1>3, <1>6, <2>5
  <2>7. i + 1 < e
    <3>1. i \in Nat /\ i + 1 <= last /\ (e = last \/ e = last - 1)
      BY <1>1, <1>2, <2>1
    <3> HIDE DEF last
    <3> QED
      BY <1>1, <1>5, <2>6, <3>1
  <2> QED
    BY <2>3, <2>5, <2>7
<1>8. ASSUME NEW i \in 1..last, f[i].item = "payload"
      PROVE  /\ i < e
             /\ f[1].opts.blocksum => f[i + 1].item = "sum" /\ i + 1 < e /\ f[i + 2].item = "size"
             /\ ~f[1].opts.blocksum => f[i + 1].item = "size"
  <2>1. i # e /\ i # last
    BY <1>3, <1>6, <1>8
  <2>2. i < e /\ i \in 1..(Len(f) - 1) /\ i \in Nat
    <3>1. i \in Nat /\ 1 <= i /\ i <= last /\ (e = last \/ e = last - 1)
      BY <1>1, <1>2
    <3>2. i < e /\ i \in 1..(last - 1)
      <4> HIDE DEF last
      <4> QED
        BY <1>1, <1>5, <2>1, <3>1
    <3> QED
      BY <3>1, <3>2
  <2>3. f[i + 1].item = IF f[1].opts.blocksum THEN "sum" ELSE "size"
    BY <1>8, <2>2, FormedIs
  <2>4. ASSUME f[1].opts.blocksum PROVE i + 1 < e /\ f[i + 2].item = "size"
    <3>1. i + 1 # e
      BY <1>3, <2>3, <2>4
    <3>2. i + 1 < e /\ i + 1 < Len(f)
      BY <1>1, <1>5, <2>2, <3>1
    <3> QED
      BY <1>8, <2>2, <2>4, <3>2, FormedIs
  <2> QED
    BY <2>2, <2>3, <2>4
<1> QED
  BY <1>1, <1>2, <1>5, <1>7, <1>8 DEF WrittenIs, e

-----------------------------------------------------------------------------
(* What items measure.                                                     *)
Width(x) == IF x.item = "payload" THEN x.block.n ELSE Fixer!Word

Measured(q, s, m) ==
  q = [i \in 0..m |-> IF i = 0 THEN 0 ELSE q[i - 1] + Width(s[i])]

LEMMA MeasuredExists ==
  ASSUME NEW s, NEW m \in Nat
  PROVE  \E q : Measured(q, s, m)
<1> DEFINE T == {n \in Nat : \E q : Measured(q, s, n)}
<1>1. 0 \in T
  <2>1. Measured([n \in 0..0 |-> 0], s, 0)
    BY DEF Measured
  <2> QED
    BY <2>1
<1>2. ASSUME NEW n \in T PROVE n + 1 \in T
  <2>1. PICK q : Measured(q, s, n)
    OBVIOUS
  <2> DEFINE d == [i \in 0..(n + 1) |-> IF i = n + 1 THEN q[n] + Width(s[n + 1]) ELSE q[i]]
  <2>2. ASSUME NEW i \in 0..(n + 1)
        PROVE  d[i] = IF i = 0 THEN 0 ELSE d[i - 1] + Width(s[i])
    BY <2>1 DEF Measured
  <2>3. d = [i \in 0..(n + 1) |-> IF i = 0 THEN 0 ELSE d[i - 1] + Width(s[i])]
    BY <2>2
  <2>4. Measured(d, s, n + 1)
    BY <2>3 DEF Measured
  <2> QED
    BY <2>4
<1> HIDE DEF T
<1>3. T = Nat
  <2>1. T \in SUBSET Nat
    BY DEF T
  <2> QED
    BY <1>1, <1>2, <2>1, SetInduction
<1> QED
  BY <1>3 DEF T

LEMMA BytesIs ==
  ASSUME NEW s, Len(s) \in Nat
  PROVE  \E q : Measured(q, s, Len(s)) /\ Fixer!Bytes(s) = q[Len(s)]
<1> DEFINE r == CHOOSE q : Measured(q, s, Len(s))
<1>1. Fixer!Bytes(s) = r[Len(s)]
  BY DEF Fixer!Bytes, Measured, Width
<1> HIDE DEF r
<1>2. Measured(r, s, Len(s))
  <2>1. \E q : Measured(q, s, Len(s))
    BY MeasuredExists
  <2> QED
    BY <2>1 DEF r
<1> QED
  BY <1>1, <1>2

\* A sum that grows.
LEMMA Grows ==
  ASSUME NEW s, NEW m \in Nat, NEW q, Measured(q, s, m), \A i \in 1..m : Width(s[i]) \in Nat
  PROVE  /\ q[0] = 0 /\ \A i \in 0..m : q[i] \in Nat
         /\ \A i \in 0..(m - 1) : q[i + 1] = q[i] + Width(s[i + 1])
         /\ \A i, j \in 0..m : i <= j => q[i] <= q[j]
<1>1. /\ q[0] = 0
      /\ \A i \in 0..(m - 1) : q[i + 1] = q[i] + Width(s[i + 1])
  BY DEF Measured
<1> DEFINE P(n) == n <= m => q[n] \in Nat /\ \A i \in 0..n : q[i] \in Nat /\ q[i] <= q[n]
           T == {n \in Nat : P(n)}
<1>2. 0 \in T
  <2>1. \A i \in 0..0 : i = 0
    OBVIOUS
  <2> QED
    BY <1>1, <2>1
<1>3. ASSUME NEW n \in T PROVE n + 1 \in T
  <2>0. n \in Nat /\ P(n)
    OBVIOUS
  <2> HIDE DEF T
  <2> SUFFICES ASSUME n + 1 <= m
               PROVE  q[n + 1] \in Nat /\ \A i \in 0..(n + 1) : q[i] \in Nat /\ q[i] <= q[n + 1]
    BY <2>0 DEF T
  <2>1. n \in 0..(m - 1) /\ n + 1 \in 1..m
    BY <2>0
  <2>2. q[n + 1] = q[n] + Width(s[n + 1]) /\ Width(s[n + 1]) \in Nat /\ q[n] \in Nat
        /\ \A i \in 0..n : q[i] \in Nat /\ q[i] <= q[n]
    BY <1>1, <2>0, <2>1
  <2>3. q[n + 1] \in Nat /\ q[n] <= q[n + 1]
    BY <2>2
  <2>4. ASSUME NEW i \in 0..(n + 1) PROVE q[i] \in Nat /\ q[i] <= q[n + 1]
    <3>1. i = n + 1 \/ i \in 0..n
      BY <2>0
    <3>2. ASSUME i \in 0..n PROVE q[i] \in Nat /\ q[i] <= q[n + 1]
      <4>1. q[i] <= q[n] /\ q[i] \in Nat
        <5>1. i \in 0..m
          BY <2>1, <3>2
        <5> QED
          BY <2>2, <3>2
      <4> QED
        BY <2>2, <2>3, <4>1
    <3> QED
      BY <2>3, <3>1, <3>2
  <2> QED
    BY <2>3, <2>4
<1> HIDE DEF T
<1>4. T = Nat
  <2>1. T \in SUBSET Nat
    BY DEF T
  <2> QED
    BY <1>2, <1>3, <2>1, SetInduction
<1>5. \A n \in 0..m : q[n] \in Nat /\ \A i \in 0..n : q[i] \in Nat /\ q[i] <= q[n]
  <2>1. \A n \in Nat : P(n)
    BY <1>4 DEF T
  <2> QED
    BY <2>1
<1> QED
  BY <1>1, <1>5
\* How far a block can reach, reckoned from the end of the file.
Gap(f, t) ==
  Fixer!Bytes(t) - Fixer!Word - (IF f[1].opts.blocksum THEN Fixer!Word ELSE 0)
                              - (IF f[1].opts.streamsum THEN Fixer!Word ELSE 0)

\* The last block reaches as far as that, and a literal block that is not the
\* last is full.
LEMMA GapIs ==
  ASSUME NEW f, WrittenIs(f, EndOf(f)), Full(f),
         \A i \in 1..Len(f) : f[i].item = "payload" => f[i].block.n \in 1..BlockSize,
         NEW k \in 1..(Len(f) - 1), f[k + 1].item = "size", k + 1 # EndOf(f),
         NEW t, Len(t) = Len(f) - (k + 1),
         \A i \in 1..Len(t) : Width(t[i]) = Width(f[(k + 1) + i])
  PROVE  /\ f[k + 1].n \in 1..BlockSize /\ Gap(f, t) \in Nat /\ Gap(f, t) >= f[k + 1].n
         /\ f[k + 1].literal => f[k + 1].n = BlockSize \/ Gap(f, t) = f[k + 1].n
<1> DEFINE e == EndOf(f)
           last == Len(f)
           bs == IF f[1].opts.blocksum THEN 1 ELSE 0
           ss == IF f[1].opts.streamsum THEN 1 ELSE 0
           n == f[k + 1].n
           a == 1 + bs
           z == e - k - 2
<1>1. /\ last \in Nat /\ e \in 2..last /\ k \in Nat /\ 1 <= k /\ k + 1 <= last /\ bs \in {0, 1} /\ ss \in {0, 1}
      /\ f[e] = Enc!EndMark /\ (e = last \/ (e = last - 1 /\ f[last].item = "sum")) /\ e = last - ss
      /\ f \in Seq(Item) /\ DOMAIN f = 1..last
  BY LenProperties DEF WrittenIs, EndOf
<1>2. /\ (k + 1) + 1 < e /\ f[(k + 1) + 1].item = "payload" /\ Announces(f[k + 1], f[(k + 1) + 1].block)
  <2>1. k + 1 \in 1..last
    BY <1>1
  <2> QED
    BY <2>1 DEF WrittenIs
<1>3. k + 2 \in 1..last /\ (k + 1) + 1 = k + 2
  BY <1>1, <1>2
<1>4. f[k + 2].item = "payload" /\ f[k + 2].block.n = n /\ f[k + 2].block.literal = f[k + 1].literal
      /\ f[k + 2].block.n \in 1..BlockSize
  BY <1>2, <1>3 DEF Announces
<1>5. /\ k + 2 < e
      /\ bs = 1 => f[k + 3].item = "sum" /\ k + 3 < e /\ f[k + 4].item = "size"
      /\ bs = 0 => f[k + 3].item = "size"
  <2>1. (k + 2) + 1 = k + 3 /\ (k + 2) + 2 = k + 4
    <3>1. k \in Nat
      BY <1>1
    <3> QED
      BY <3>1
  <2>2. /\ k + 2 < e
        /\ f[1].opts.blocksum => f[(k + 2) + 1].item = "sum" /\ (k + 2) + 1 < e /\ f[(k + 2) + 2].item = "size"
        /\ ~f[1].opts.blocksum => f[(k + 2) + 1].item = "size"
    BY <1>3, <1>4 DEF WrittenIs
  <2>3. (bs = 1 => f[1].opts.blocksum) /\ (bs = 0 => ~f[1].opts.blocksum)
    OBVIOUS
  <2> HIDE DEF bs
  <2> QED
    BY <2>1, <2>2, <2>3
<1>6. Fixer!Word = 4 /\ BlockSize \in Nat
  BY OldStreamAssumption DEF Fixer!Word
<1>7. \A i \in 1..last : Width(f[i]) \in Nat
  BY <1>6 DEF Width
<1>8. Len(t) \in Nat /\ \A i \in 1..Len(t) : Width(t[i]) \in Nat /\ (k + 1) + i \in 1..last
  <2>1. Len(t) \in Nat /\ \A i \in 1..Len(t) : (k + 1) + i \in 1..last
    BY <1>1
  <2> QED
    BY <1>7, <2>1
<1>9. PICK q : Measured(q, t, Len(t)) /\ Fixer!Bytes(t) = q[Len(t)]
  BY <1>8, BytesIs
<1>10. /\ q[0] = 0 /\ \A i \in 0..Len(t) : q[i] \in Nat
       /\ \A i \in 0..(Len(t) - 1) : q[i + 1] = q[i] + Width(t[i + 1])
       /\ \A i, j \in 0..Len(t) : i <= j => q[i] <= q[j]
  BY <1>8, <1>9, Grows
<1>11. \A i \in 0..(Len(t) - 1) : q[i + 1] = q[i] + Width(f[k + i + 2])
  <2> SUFFICES ASSUME NEW i \in 0..(Len(t) - 1)
               PROVE  q[i + 1] = q[i] + Width(f[k + i + 2])
    OBVIOUS
  <2>1. i + 1 \in 1..Len(t) /\ (k + 1) + (i + 1) = k + i + 2
    BY <1>1, <1>8
  <2> QED
    BY <1>10, <2>1
<1>21. /\ Len(t) = last - (k + 1)
       /\ (IF f[1].opts.blocksum THEN Fixer!Word ELSE 0) = 4 * bs
       /\ (IF f[1].opts.streamsum THEN Fixer!Word ELSE 0) = 4 * ss
  BY <1>6
<1> HIDE DEF e, last, n, bs, ss
<1>12. Len(t) = last - k - 1 /\ e = last - ss /\ z = e - k - 2 /\ Len(t) = z + 1 + ss
  BY <1>1, <1>21
<1>22. a = 1 + bs /\ a + 1 = 2 + bs
  BY <1>1
<1>13. a \in 1..z /\ a \in Nat /\ z \in Nat /\ a \in 0..Len(t) /\ z \in 0..(Len(t) - 1) /\ z \in 0..Len(t)
  BY <1>1, <1>5, <1>12
<1> HIDE DEF a, z
<1>14. q[a] = n + 4 * bs
  <2>1. q[1] = n
    <3>1. 0 \in 0..(Len(t) - 1) /\ 0 + 1 = 1 /\ k + 0 + 2 = k + 2
      BY <1>1, <1>13
    <3>2. q[0 + 1] = q[0] + Width(f[k + 0 + 2])
      BY <1>11, <3>1
    <3>3. Width(f[k + 2]) = n /\ n \in Nat
      BY <1>4, <1>6 DEF Width
    <3> QED
      BY <1>10, <3>1, <3>2, <3>3
  <2>2. ASSUME bs = 1 PROVE q[2] = n + 4
    <3>1. 1 \in 0..(Len(t) - 1) /\ 1 + 1 = 2 /\ k + 1 + 2 = k + 3
      BY <1>1, <1>13, <2>2
    <3>2. q[1 + 1] = q[1] + Width(f[k + 1 + 2])
      BY <1>11, <3>1
    <3>3. Width(f[k + 3]) = 4
      BY <1>5, <1>6, <2>2 DEF Width
    <3> QED
      BY <2>1, <3>1, <3>2, <3>3
  <2>3. n \in Nat
    BY <1>4, <1>6
  <2>4. CASE bs = 1
    BY <1>22, <2>2, <2>3, <2>4
  <2>5. CASE bs = 0
    BY <1>22, <2>1, <2>3, <2>5
  <2> QED
    BY <1>1, <2>4, <2>5
<1>15. q[Len(t)] = q[z] + 4 + 4 * ss
  <2>1. q[z + 1] = q[z] + 4
    <3>1. k + z + 2 = e
      BY <1>1, <1>12
    <3>2. Width(f[e]) = 4
      BY <1>1, <1>6 DEF Width, Enc!EndMark, Enc!SizeWord
    <3> QED
      BY <1>11, <1>13, <3>1, <3>2
  <2>2. ASSUME ss = 1 PROVE q[(z + 1) + 1] = q[z + 1] + 4
    <3>1. z + 1 \in 0..(Len(t) - 1) /\ k + (z + 1) + 2 = last
      BY <1>1, <1>12, <1>13, <2>2
    <3>2. Width(f[last]) = 4
      BY <1>1, <1>6, <2>2 DEF Width
    <3> QED
      BY <1>11, <3>1, <3>2
  <2>3. q[z] \in Nat
    BY <1>10, <1>13
  <2>4. CASE ss = 1
    <3>1. Len(t) = (z + 1) + 1
      BY <1>12, <1>13, <2>4
    <3> QED
      BY <2>1, <2>2, <2>3, <2>4, <3>1
  <2>5. CASE ss = 0
    <3>1. Len(t) = z + 1
      BY <1>12, <1>13, <2>5
    <3> QED
      BY <2>1, <2>3, <2>5, <3>1
  <2> QED
    BY <1>1, <2>4, <2>5
<1>16. q[a] <= q[z] /\ q[z] \in Nat /\ q[a] \in Nat /\ n \in 1..BlockSize /\ n \in Nat
  BY <1>4, <1>6, <1>10, <1>13
<1>17. Gap(f, t) = q[z] - 4 * bs
  <2>1. Gap(f, t) = q[Len(t)] - 4 - 4 * bs - 4 * ss
    BY <1>6, <1>9, <1>21 DEF Gap
  <2>2. CASE ss = 0
    BY <1>1, <1>15, <1>16, <2>1, <2>2
  <2>3. CASE ss = 1
    BY <1>1, <1>15, <1>16, <2>1, <2>3
  <2> QED
    BY <1>1, <2>2, <2>3
<1>18. Gap(f, t) \in Nat /\ Gap(f, t) >= n
  BY <1>1, <1>14, <1>16, <1>17
<1>19. ASSUME f[k + 1].literal, z # a PROVE n = BlockSize
  <2>1. k + 2 + a < e /\ k + 2 + a \in 1..last /\ k + 2 + a # e
    BY <1>1, <1>12, <1>13, <1>19
  <2>2. f[k + 2 + a].item = "size"
    <3>1. (bs = 1 => k + 2 + a = k + 4) /\ (bs = 0 => k + 2 + a = k + 3)
      BY <1>1, <1>22
    <3> QED
      BY <1>1, <1>5, <3>1
  <2>3. (k + 2 + a) + 1 < e /\ f[(k + 2 + a) + 1].item = "payload"
    BY <2>1, <2>2 DEF WrittenIs, e, last
  <2>4. k + 2 \in Literals(f)
    BY <1>1, <1>3, <1>4, <1>19 DEF Literals, last
  <2>5. (k + 2 + a) + 1 \in DOMAIN f /\ k + 2 < (k + 2 + a) + 1
    BY <1>1, <1>13, <2>1, <2>3
  <2>6. k + 2 \in DOMAIN f
    BY <2>4 DEF Literals
  <2>7. f[k + 2].block.n = BlockSize
    BY <2>3, <2>4, <2>5, <2>6 DEF Full
  <2> QED
    BY <1>4, <2>7
<1>20. ASSUME z = a PROVE Gap(f, t) = n
  <2>1. q[z] = n + 4 * bs
    BY <1>14, <1>20
  <2> QED
    BY <1>1, <1>16, <1>17, <2>1
<1> QED
  BY <1>16, <1>18, <1>19, <1>20 DEF n
-----------------------------------------------------------------------------
(* The repair.                                                             *)
\* The item y is the item x as extlz4-0.1 wrote it.
Lengthened(x, y) ==
  IF x.item = "size" /\ x.literal THEN \E more \in Nat : y = [x EXCEPT !.n = @ + more] ELSE y = x

\* What is left of the input after its first k items.
Uncopied(k) ==
  /\ k \in 1..Len(io) /\ fin \in Seq(Item) /\ Len(fin) = Len(io) - k
  /\ \A i \in 1..Len(fin) : Lengthened(io[k + i], fin[i])

\* The stream s holds the first items that the encoder of today writes.
Copies(s) ==
  /\ s \in Seq(Item) /\ Len(s) \in 1..Len(io)
  /\ s[1] = [item |-> "header", opts |-> [opts EXCEPT !.linked = ~@]]
  /\ \A i \in 2..Len(s) : s[i] = io[i]

FixerIs ==
  /\ fpc \in {"off", "header", "blocks", "streamsum", "done"}
  /\ fpc # "off" => Finished
  /\ fpc \notin {"off", "done"} => fheader = opts
  /\ fpc = "header" => Uncopied(1)
  /\ fpc \in {"blocks", "streamsum"} => Uncopied(Len(fixed))
  /\ fpc \in {"blocks", "streamsum", "done"} => Copies(fixed)
  /\ fpc = "streamsum" => Len(fixed) = EndOf(io)
  /\ fpc = "done" => Len(fixed) = Len(io)

LEMMA IoIs ==
  ASSUME EncoderIs, Finished
  PROVE  /\ io \in Seq(Item) /\ Len(io) \in Nat /\ io[1].item = "header" /\ io[1].opts = opts
         /\ opts \in Option /\ Formed(io) /\ WrittenIs(io, EndOf(io)) /\ Full(io)
         /\ DOMAIN io = 1..Len(io)
         /\ \A i \in 1..Len(io) : io[i].item = "payload" => io[i].block.n \in 1..BlockSize
<1>1. EncoderTypes /\ Shaped /\ Sized /\ closed
  BY DEF EncoderIs, Finished, NoPort
<1>2. io \in Seq(Item) /\ io[1] = Enc!Header(opts) /\ opts \in Option /\ Formed(io) /\ Complete(io)
  BY <1>1 DEF EncoderTypes, Shaped
<1>3. DOMAIN io = 1..Len(io) /\ Len(io) \in Nat
  BY <1>2, LenProperties
<1>4. WrittenIs(io, EndOf(io))
  BY <1>2, FinishedIs
<1>5. Full(io) /\ \A i \in DOMAIN io : io[i].item = "payload" => io[i].block.n \in 1..BlockSize
  BY <1>1 DEF Sized
<1> QED
  BY <1>2, <1>3, <1>4, <1>5 DEF Enc!Header

LEMMA LengthenedIs ==
  ASSUME NEW x \in Item, NEW y, Lengthened(x, y)
  PROVE  /\ y \in Item /\ y.item = x.item /\ Width(y) = Width(x)
         /\ x.item # "size" => y = x
         /\ x.item = "size" => /\ y.literal = x.literal /\ x.n \in Nat /\ y.n \in Nat /\ y.n >= x.n
                               /\ ~x.literal => y = x
                               /\ [y EXCEPT !.n = x.n] = x
<1>1. CASE x.item = "size" /\ x.literal
  <2>1. x \in [item : {"size"}, literal : BOOLEAN, n : Nat]
    BY <1>1 DEF Item
  <2>2. PICK more \in Nat : y = [x EXCEPT !.n = @ + more]
    BY <1>1 DEF Lengthened
  <2>3. y \in [item : {"size"}, literal : BOOLEAN, n : Nat] /\ y.literal = x.literal /\ y.n = x.n + more
    BY <2>1, <2>2
  <2>4. [y EXCEPT !.n = x.n] = x
    BY <2>1, <2>2
  <2>5. y \in Item
    BY <2>3 DEF Item
  <2>6. y.item = "size" /\ x.n \in Nat /\ y.n \in Nat /\ y.n >= x.n
    BY <2>1, <2>3
  <2> QED
    BY <1>1, <2>3, <2>4, <2>5, <2>6 DEF Width
<1>2. CASE ~(x.item = "size" /\ x.literal)
  <2>1. y = x
    BY <1>2 DEF Lengthened
  <2>2. x.item = "size" => x.n \in Nat /\ [x EXCEPT !.n = x.n] = x
    <3> SUFFICES ASSUME x.item = "size" PROVE x.n \in Nat /\ [x EXCEPT !.n = x.n] = x
      OBVIOUS
    <3>1. x \in [item : {"size"}, literal : BOOLEAN, n : Nat]
      BY DEF Item
    <3> QED
      BY <3>1
  <2> QED
    BY <2>1, <2>2
<1> QED
  BY <1>1, <1>2

LEMMA FixStarts ==
  ASSUME EncoderIs, FixerIs, Fix
  PROVE  FixerIs'
<1>1. Finished /\ UNCHANGED evars /\ fpc' = "header"
  BY DEF Fix, Fixer!Fix
<1>2. PICK f \in Broken(io) : fin' = Tail(f) /\ fheader' = Head(f).opts
  BY DEF Fix, Fixer!Fix
<1>3. PICK more \in 0..2 :
        f = [i \in DOMAIN io |-> IF io[i].item = "size" /\ io[i].literal
                                   THEN [io[i] EXCEPT !.n = @ + more] ELSE io[i]]
  BY DEF Broken
<1>4. io \in Seq(Item) /\ Len(io) \in Nat /\ DOMAIN io = 1..Len(io) /\ io[1].item = "header" /\ io[1].opts = opts
      /\ Len(io) # 0
  BY <1>1, IoIs, EmptySeq DEF Formed
<1>5. ASSUME NEW i \in 1..Len(io) PROVE io[i] \in Item /\ Lengthened(io[i], f[i]) /\ f[i] \in Item
  <2>1. io[i] \in Item /\ more \in Nat
    BY <1>4, ElementOfSeq
  <2>2. f[i] = IF io[i].item = "size" /\ io[i].literal THEN [io[i] EXCEPT !.n = @ + more] ELSE io[i]
    BY <1>3, <1>4
  <2>3. Lengthened(io[i], f[i])
    BY <2>1, <2>2 DEF Lengthened
  <2> QED
    BY <2>1, <2>3, LengthenedIs
<1>6. f \in Seq(Item) /\ Len(f) = Len(io)
  <2> DEFINE g(i) == IF io[i].item = "size" /\ io[i].literal THEN [io[i] EXCEPT !.n = @ + more] ELSE io[i]
  <2>1. f = [i \in 1..Len(io) |-> g(i)]
    BY <1>3, <1>4
  <2>2. \A i \in 1..Len(io) : g(i) \in Item
    BY <1>5, <2>1
  <2> HIDE DEF g
  <2>3. [i \in 1..Len(io) |-> g(i)] \in Seq(Item)
    BY <1>4, <2>2, IsASeq
  <2> QED
    BY <1>4, <2>1, <2>3
<1>7. 1 \in 0..Len(f) /\ 1 \in 1..Len(io) /\ f # <<>>
  BY <1>4, <1>6, EmptySeq
<1>8. fin' = LeftAt(f, 1)
  BY <1>2, <1>6, <1>7, TailIsSubSeq DEF LeftAt
<1>9. fin' \in Seq(Item) /\ Len(fin') = Len(f) - 1 /\ \A i \in 1..(Len(f) - 1) : fin'[i] = f[1 + i]
  BY <1>6, <1>7, <1>8, LeftIs DEF IsLeft
<1>10. UNCHANGED <<io, opts, closed, raised>>
  BY <1>1 DEF evars
<1>11. Uncopied(1)'
  <2>1. ASSUME NEW i \in 1..Len(fin') PROVE Lengthened(io[1 + i], fin'[i])
    <3>1. 1 + i \in 1..Len(io) /\ i \in 1..(Len(f) - 1)
      BY <1>4, <1>6, <1>9
    <3> QED
      BY <1>5, <1>9, <3>1
  <2> QED
    BY <1>6, <1>7, <1>9, <1>10, <2>1 DEF Uncopied
<1>12. fheader' = opts'
  <2>1. f[1] = io[1]
    BY <1>3, <1>4, <1>7
  <2>2. Head(f) = f[1]
    OBVIOUS
  <2> QED
    BY <1>2, <1>4, <1>10, <2>1, <2>2
<1>13. Finished'
  BY <1>1, <1>10 DEF Finished
<1> QED
  BY <1>1, <1>11, <1>12, <1>13 DEF FixerIs

\* The items of what is copied.
LEMMA CopiesMore ==
  ASSUME NEW s, Copies(s), NEW t \in Seq(Item), Len(s) + Len(t) <= Len(io), Len(io) \in Nat,
         \A i \in 1..Len(t) : t[i] = io[Len(s) + i]
  PROVE  Copies(s \o t) /\ Len(s \o t) = Len(s) + Len(t)
<1> DEFINE q == s \o t
<1>1. /\ s \in Seq(Item) /\ Len(s) \in Nat /\ Len(t) \in Nat /\ 1 <= Len(s)
      /\ q \in Seq(Item) /\ Len(q) = Len(s) + Len(t)
      /\ \A i \in 1..(Len(s) + Len(t)) : q[i] = IF i <= Len(s) THEN s[i] ELSE t[i - Len(s)]
  BY LenProperties, ConcatProperties DEF Copies
<1> HIDE DEF q
<1>2. q[1] = s[1]
  BY <1>1
<1>3. ASSUME NEW i \in 2..Len(q) PROVE q[i] = io[i]
  <2>1. CASE i <= Len(s)
    <3>1. i \in 2..Len(s) /\ i \in 1..(Len(s) + Len(t))
      BY <1>1, <2>1
    <3> QED
      BY <1>1, <2>1, <3>1 DEF Copies
  <2>2. CASE ~(i <= Len(s))
    <3>1. i - Len(s) \in 1..Len(t) /\ Len(s) + (i - Len(s)) = i /\ i \in 1..(Len(s) + Len(t))
      BY <1>1, <2>2
    <3>2. q[i] = t[i - Len(s)] /\ t[i - Len(s)] = io[Len(s) + (i - Len(s))]
      BY <1>1, <2>2, <3>1
    <3> QED
      BY <3>1, <3>2
  <2> QED
    BY <2>1, <2>2
<1>4. Len(q) \in 1..Len(io)
  BY <1>1
<1> QED
  BY <1>1, <1>2, <1>3, <1>4 DEF Copies, q

LEMMA UncopiedLess ==
  ASSUME NEW k, Uncopied(k), Len(io) \in Nat, NEW j \in 0..Len(fin), UNCHANGED io, fin' = LeftAt(fin, j)
  PROVE  Uncopied(k + j)'
<1>1. fin \in Seq(Item) /\ Len(fin) \in Nat /\ Len(fin) = Len(io) - k /\ k \in Nat /\ k >= 1 /\ j \in Nat /\ j <= Len(fin)
  BY LenProperties DEF Uncopied
<1>2. fin' \in Seq(Item) /\ Len(fin') = Len(fin) - j /\ \A i \in 1..(Len(fin) - j) : fin'[i] = fin[j + i]
  BY <1>1, LeftIs DEF IsLeft
<1>3. ASSUME NEW i \in 1..Len(fin') PROVE Lengthened(io[(k + j) + i], fin'[i])
  <2>1. j + i \in 1..Len(fin) /\ k + (j + i) = (k + j) + i /\ i \in 1..(Len(fin) - j)
    BY <1>1, <1>2
  <2>2. Lengthened(io[k + (j + i)], fin[j + i])
    BY <2>1 DEF Uncopied
  <2> QED
    BY <1>2, <2>1, <2>2
<1>4. k + j \in 1..Len(io) /\ Len(fin') = Len(io) - (k + j)
  BY <1>1, <1>2
<1> QED
  BY <1>2, <1>3, <1>4 DEF Uncopied
LEMMA HeaderCopied ==
  ASSUME EncoderIs, FixerIs, Fixer!export_header, UNCHANGED evars
  PROVE  FixerIs'
<1>1. /\ fixed' = <<[item |-> "header", opts |-> [fheader EXCEPT !.linked = ~@]]>> /\ fpc' = "blocks"
      /\ UNCHANGED <<fin, fheader, io, opts, closed, raised>> /\ fpc = "header"
  BY DEF Fixer!export_header, evars
<1>2. Finished /\ fheader = opts /\ Uncopied(1) /\ opts \in Option /\ Len(io) \in Nat
  BY <1>1, IoIs DEF FixerIs
<1>3. [item |-> "header", opts |-> [opts EXCEPT !.linked = ~@]] \in Item
  BY <1>2 DEF Item, Option
<1>4. fixed' \in Seq(Item) /\ Len(fixed') = 1 /\ fixed'[1] = [item |-> "header", opts |-> [opts EXCEPT !.linked = ~@]]
  BY <1>1, <1>2, <1>3
<1>5. Uncopied(Len(fixed))'
  BY <1>1, <1>2, <1>4 DEF Uncopied
<1>6. Copies(fixed)'
  <2>1. Len(fixed') \in 1..Len(io)
    BY <1>2, <1>4 DEF Uncopied
  <2> QED
    BY <1>1, <1>4, <2>1 DEF Copies
<1> QED
  BY <1>1, <1>2, <1>5, <1>6 DEF FixerIs, Finished

\* The item that is copied next.
LEMMA NextIs ==
  ASSUME EncoderIs, Finished, Uncopied(Len(fixed)), Copies(fixed), fin # <<>>
  PROVE  /\ Len(fixed) \in Nat /\ Len(fixed) + 1 \in 1..Len(io) /\ Head(fin) = fin[1] /\ fin[1] \in Item
         /\ 1 \in 1..Len(fin) /\ Len(fin) \in Nat /\ Len(fin) = Len(io) - Len(fixed)
         /\ io[Len(fixed) + 1] \in Item
         /\ \A i \in 1..Len(fin) : /\ Len(fixed) + i \in 1..Len(io)
                                   /\ io[Len(fixed) + i] \in Item /\ Lengthened(io[Len(fixed) + i], fin[i])
<1>1. /\ fin \in Seq(Item) /\ Len(fin) \in Nat /\ Len(fin) = Len(io) - Len(fixed) /\ Len(io) \in Nat
      /\ Len(fixed) \in Nat /\ Len(fixed) >= 1 /\ Len(fin) # 0 /\ io \in Seq(Item) /\ Head(fin) = fin[1]
  BY LenProperties, EmptySeq, IoIs DEF Uncopied, Copies
<1>2. 1 \in 1..Len(fin) /\ Len(fixed) + 1 \in 1..Len(io)
  BY <1>1
<1>3. ASSUME NEW i \in 1..Len(fin)
      PROVE  /\ Len(fixed) + i \in 1..Len(io)
             /\ io[Len(fixed) + i] \in Item /\ Lengthened(io[Len(fixed) + i], fin[i])
  <2>1. Len(fixed) + i \in 1..Len(io)
    BY <1>1
  <2> QED
    BY <1>1, <2>1, ElementOfSeq DEF Uncopied
<1> QED
  BY <1>1, <1>2, <1>3, ElementOfSeq

\* The size that is written is that of the block.
LEMMA CorrectIs ==
  ASSUME EncoderIs, Finished, Uncopied(Len(fixed)), Copies(fixed), fheader = opts, fin # <<>>,
         io[Len(fixed) + 1].item = "size", Len(fixed) + 1 # EndOf(io)
  PROVE  (IF fin[1].literal THEN Fixer!CorrectSize(fin[1].n) ELSE fin[1].n) = io[Len(fixed) + 1].n
<1> DEFINE k == Len(fixed)
           t == Tail(fin)
           n == io[k + 1].n
           given0 == fin[1].n
<1>1. /\ io \in Seq(Item) /\ Len(io) \in Nat /\ io[1].opts = opts /\ WrittenIs(io, EndOf(io)) /\ Full(io)
      /\ \A i \in 1..Len(io) : io[i].item = "payload" => io[i].block.n \in 1..BlockSize
  BY IoIs
<1>2. k \in Nat /\ k + 1 \in 1..Len(io) /\ 1 \in 1..Len(fin) /\ Len(fin) \in Nat /\ Len(fin) = Len(io) - k
      /\ io[k + 1] \in Item /\ fin \in Seq(Item)
      /\ \A i \in 1..Len(fin) : io[k + i] \in Item /\ Lengthened(io[k + i], fin[i])
  BY NextIs DEF Uncopied
<1>3. /\ fin[1].literal = io[k + 1].literal /\ n \in Nat /\ given0 \in Nat /\ given0 >= n
      /\ ~io[k + 1].literal => given0 = n
  BY <1>2, LengthenedIs
<1>4. /\ Len(t) = Len(io) - (k + 1)
      /\ \A i \in 1..Len(t) : Width(t[i]) = Width(io[(k + 1) + i])
  <2>1. t = LeftAt(fin, 1)
    <3>1. fin \in Seq(Item) /\ fin # <<>>
      BY <1>2
    <3>2. Tail(fin) = SubSeq(fin, 2, Len(fin))
      BY <3>1, TailIsSubSeq
    <3> QED
      BY <3>2 DEF LeftAt
  <2>2. 1 \in 0..Len(fin)
    BY <1>2
  <2>3. Len(t) = Len(fin) - 1 /\ \A i \in 1..(Len(fin) - 1) : t[i] = fin[1 + i]
    BY <1>2, <2>1, <2>2, LeftIs DEF IsLeft
  <2> HIDE DEF t
  <2>4. ASSUME NEW i \in 1..Len(t) PROVE Width(t[i]) = Width(io[(k + 1) + i])
    <3>1. 1 + i \in 1..Len(fin) /\ k + (1 + i) = (k + 1) + i /\ i \in 1..(Len(fin) - 1)
      BY <1>2, <2>3
    <3>2. Width(fin[1 + i]) = Width(io[k + (1 + i)])
      BY <1>2, <3>1, LengthenedIs
    <3> QED
      BY <2>3, <3>1, <3>2
  <2> QED
    BY <1>2, <2>3, <2>4
<1>5. k + 1 # Len(io) /\ k \in 1..(Len(io) - 1)
  <2>1. (k + 1) + 1 < EndOf(io) /\ EndOf(io) \in 2..Len(io)
    BY <1>1, <1>2 DEF WrittenIs
  <2>2. k >= 1
    BY LenProperties DEF Copies
  <2> QED
    BY <1>1, <1>2, <2>1, <2>2
<1> DEFINE gap == Gap(io, t)
<1>6. /\ n \in 1..BlockSize /\ gap \in Nat /\ gap >= n
      /\ io[k + 1].literal => n = BlockSize \/ gap = n
  <2> HIDE DEF t
  <2> QED
    BY <1>1, <1>4, <1>5, GapIs
<1>7. Fixer!EndOfBlock = gap
  BY <1>1 DEF Fixer!EndOfBlock, Gap
<1>8. CASE fin[1].literal
  <2>1. n = BlockSize \/ gap = n
    BY <1>3, <1>6, <1>8
  <2>2. Fixer!CorrectSize(given0) =
          LET most == IF gap > BlockSize THEN BlockSize ELSE gap
          IN  IF given0 > most THEN most ELSE given0
    BY <1>7 DEF Fixer!CorrectSize
  <2> HIDE DEF gap, n, given0
  <2>3. BlockSize \in Nat
    BY OldStreamAssumption
  <2>4. Fixer!CorrectSize(given0) = n
    BY <1>3, <1>6, <2>1, <2>2, <2>3
  <2> QED
    BY <1>8, <2>4 DEF given0, n
<1>9. CASE ~fin[1].literal
  BY <1>3, <1>9
<1> QED
  BY <1>8, <1>9

\* A block is found where it is, and copied with its size.
LEMMA BlockCopied ==
  ASSUME EncoderIs, FixerIs, Fixer!export_fixedblock, UNCHANGED evars
  PROVE  FixerIs'
<1>0. PICK k : k = Len(fixed)
  OBVIOUS
<1> DEFINE e == EndOf(io)
           n == IF Head(fin).literal THEN Fixer!CorrectSize(Head(fin).n) ELSE Head(fin).n
           block == SubSeq(fin, 2, IF fheader.blocksum THEN 3 ELSE 2)
           x == [Head(fin) EXCEPT !.n = n]
<1>1. fpc = "blocks" /\ fin # <<>> /\ Head(fin).item = "size" /\ Head(fin).n > 0
  BY DEF Fixer!export_fixedblock
<1>2. UNCHANGED <<fheader, io, opts, closed, raised>>
  BY DEF Fixer!export_fixedblock, evars
<1>3. IF block # <<>> /\ block[1].item = "payload" /\ block[1].block.n = n
        THEN /\ fixed' = fixed \o <<x>> \o block
             /\ fin' = SubSeq(fin, Len(block) + 2, Len(fin))
             /\ UNCHANGED fpc
        ELSE fpc' = "lost" /\ UNCHANGED <<fixed, fin>>
  BY Zenon DEF Fixer!export_fixedblock
<1>4. Finished /\ fheader = opts /\ Uncopied(k) /\ Copies(fixed)
  BY <1>0, <1>1 DEF FixerIs
<1>5. /\ io \in Seq(Item) /\ Len(io) \in Nat /\ io[1].opts = opts /\ WrittenIs(io, e)
  BY <1>4, IoIs
<1>6. /\ k \in Nat /\ k + 1 \in 1..Len(io) /\ Head(fin) = fin[1] /\ fin[1] \in Item
      /\ Len(fin) \in Nat /\ Len(fin) = Len(io) - k /\ fin \in Seq(Item)
      /\ \A i \in 1..Len(fin) : /\ k + i \in 1..Len(io) /\ io[k + i] \in Item
                                /\ Lengthened(io[k + i], fin[i])
      /\ 1 \in 1..Len(fin) /\ io[k + 1] \in Item
  BY <1>0, <1>1, <1>4, NextIs DEF Uncopied
<1> HIDE DEF e, n, x
<1>7. io[k + 1].item = "size" /\ k + 1 # e
  <2>1. Lengthened(io[k + 1], fin[1])
    BY <1>6
  <2>2. io[k + 1].item = "size"
    BY <1>1, <1>6, <2>1, LengthenedIs
  <2>3. k + 1 # e
    <3> SUFFICES ASSUME k + 1 = e PROVE FALSE
      OBVIOUS
    <3>1. io[k + 1] = Enc!EndMark
      BY <1>5 DEF WrittenIs
    <3>2. ~io[k + 1].literal /\ io[k + 1].n = 0
      BY <3>1 DEF Enc!EndMark, Enc!SizeWord
    <3>3. fin[1] = io[k + 1]
      BY <1>6, <2>1, <2>2, <3>2, LengthenedIs
    <3> QED
      BY <1>1, <1>6, <3>2, <3>3
  <2> QED
    BY <2>2, <2>3
<1>8. n = io[k + 1].n /\ x = io[k + 1]
  <2>1. n = io[k + 1].n
    BY <1>1, <1>4, <1>6, <1>7, CorrectIs, <1>0 DEF n, e
  <2>2. Lengthened(io[k + 1], fin[1])
    BY <1>6
  <2> QED
    BY <1>6, <1>7, <2>1, <2>2, LengthenedIs DEF x
<1>9. /\ (k + 1) + 1 < e /\ io[(k + 1) + 1].item = "payload" /\ io[(k + 1) + 1].block.n = n /\ e \in 2..Len(io)
  BY <1>5, <1>6, <1>7, <1>8 DEF WrittenIs, Announces
<1>10. k + 2 \in 1..Len(io) /\ (k + 1) + 1 = k + 2
  BY <1>5, <1>6, <1>9
<1>11. fheader.blocksum => (k + 2) + 1 < e /\ io[(k + 2) + 1].item = "sum"
  BY <1>4, <1>5, <1>9, <1>10 DEF WrittenIs
<1>12. PICK bs \in {0, 1} : (bs = 1 <=> fheader.blocksum) /\ block = SubSeq(fin, 2, 2 + bs)
  <2>1. CASE fheader.blocksum
    BY <2>1
  <2>2. CASE ~fheader.blocksum
    BY <2>2
  <2> QED
    BY <2>1, <2>2
<1> HIDE DEF block
<1>13. 2 + bs <= Len(fin) /\ 2 <= Len(fin)
  <2>1. bs = 1 => (k + 2) + 1 < e
    BY <1>11, <1>12
  <2> QED
    BY <1>5, <1>6, <1>9, <1>10, <1>12, <2>1
<1>14. /\ block \in Seq(Item) /\ Len(block) = 1 + bs
       /\ \A i \in 1..(1 + bs) : block[i] = fin[i + 1]
  <2>1. 2 \in Int /\ 2 + bs \in Int /\ bs \in Int
    BY <1>12
  <2>2. \A i \in 2..(2 + bs) : fin[i] \in Item
    <3> SUFFICES ASSUME NEW i \in 2..(2 + bs) PROVE fin[i] \in Item
      OBVIOUS
    <3>1. i \in 1..Len(fin)
      BY <1>6, <1>13, <2>1
    <3> QED
      BY <1>6, <3>1, ElementOfSeq
  <2>3. /\ SubSeq(fin, 2, 2 + bs) \in Seq(Item)
        /\ Len(SubSeq(fin, 2, 2 + bs)) = (IF 2 <= 2 + bs THEN (2 + bs) - 2 + 1 ELSE 0)
        /\ \A i \in 1..((2 + bs) - 2 + 1) : SubSeq(fin, 2, 2 + bs)[i] = fin[2 + i - 1]
    BY <2>1, <2>2, SubSeqProperties
  <2>4. /\ block \in Seq(Item)
        /\ Len(block) = (IF 2 <= 2 + bs THEN (2 + bs) - 2 + 1 ELSE 0)
        /\ \A i \in 1..((2 + bs) - 2 + 1) : block[i] = fin[2 + i - 1]
    BY <1>12, <2>3
  <2>5. (2 + bs) - 2 + 1 = 1 + bs /\ 2 <= 2 + bs
    BY <1>12
  <2>6. \A i \in 1..(1 + bs) : 2 + i - 1 = i + 1
    BY <1>12
  <2> QED
    BY <2>4, <2>5, <2>6
<1>15. \A i \in 1..(1 + bs) : block[i] = io[(k + 1) + i]
  <2> SUFFICES ASSUME NEW i \in 1..(1 + bs) PROVE block[i] = io[(k + 1) + i]
    OBVIOUS
  <2>1. i + 1 \in 1..Len(fin) /\ k + (i + 1) = (k + 1) + i /\ i \in Nat
    BY <1>6, <1>12, <1>13
  <2>2. io[(k + 1) + i].item # "size"
    <3>1. i = 1 \/ (i = 2 /\ bs = 1)
      BY <1>12
    <3>2. ASSUME i = 2, bs = 1 PROVE io[(k + 1) + i].item = "sum"
      <4>1. (k + 1) + i = (k + 2) + 1
        BY <1>6, <3>2
      <4> QED
        BY <1>11, <1>12, <3>2, <4>1
    <3> QED
      BY <1>9, <3>1, <3>2
  <2>3. fin[i + 1] = io[k + (i + 1)]
    <3>1. io[k + (i + 1)] \in Item /\ Lengthened(io[k + (i + 1)], fin[i + 1])
      BY <1>6, <2>1
    <3> QED
      BY <2>1, <2>2, <3>1, LengthenedIs
  <2> QED
    BY <1>14, <2>1, <2>3
<1>16. /\ fixed' = (fixed \o <<x>>) \o block
       /\ fin' = LeftAt(fin, 2 + bs) /\ fpc' = "blocks"
  <2>1. block # <<>> /\ block[1] = io[(k + 1) + 1]
    <3>1. 1 \in 1..(1 + bs) /\ Len(block) # 0
      BY <1>12, <1>14
    <3> QED
      BY <1>14, <1>15, <3>1, EmptySeq
  <2>2. fixed' = fixed \o <<x>> \o block /\ fin' = SubSeq(fin, Len(block) + 2, Len(fin)) /\ fpc' = fpc
    BY <1>3, <1>9, <2>1
  <2>3. Len(block) + 2 = (2 + bs) + 1
    BY <1>12, <1>14
  <2> QED
    BY <1>1, <2>2, <2>3 DEF LeftAt
<1>17. Copies(fixed \o <<x>>) /\ Len(fixed \o <<x>>) = k + 1
  <2> DEFINE t == <<x>>
  <2>1. t \in Seq(Item) /\ Len(t) = 1 /\ t[1] = io[k + 1]
    BY <1>6, <1>8
  <2>2. \A i \in 1..Len(t) : t[i] = io[Len(fixed) + i]
    BY <1>0, <2>1
  <2>3. Len(fixed) + Len(t) <= Len(io)
    BY <1>0, <1>5, <1>6, <2>1
  <2> HIDE DEF t
  <2>4. Copies(fixed \o t) /\ Len(fixed \o t) = Len(fixed) + Len(t)
    BY <1>4, <1>5, <2>1, <2>2, <2>3, CopiesMore
  <2> QED
    BY <1>0, <2>1, <2>4 DEF t
<1>18. Copies(fixed') /\ Len(fixed') = k + (2 + bs)
  <2> DEFINE s == fixed \o <<x>>
  <2>1. Copies(s) /\ Len(s) = k + 1 /\ fixed' = s \o block
    BY <1>16, <1>17
  <2> HIDE DEF s
  <2>2. Len(s) + Len(block) <= Len(io) /\ Len(s) + Len(block) = k + (2 + bs)
    BY <1>5, <1>6, <1>12, <1>13, <1>14, <2>1
  <2>3. \A i \in 1..Len(block) : block[i] = io[Len(s) + i]
    BY <1>14, <1>15, <2>1
  <2> QED
    BY <1>5, <1>14, <2>1, <2>2, <2>3, CopiesMore
<1>19. Uncopied(k + (2 + bs))'
  <2>1. 2 + bs \in 0..Len(fin)
    BY <1>12, <1>13
  <2> QED
    BY <1>2, <1>4, <1>5, <1>16, <2>1, UncopiedLess
<1>20. Copies(fixed)'
  BY <1>2, <1>18 DEF Copies
<1>21. Uncopied(Len(fixed))'
  BY <1>18, <1>19 DEF Uncopied
<1> QED
  BY <1>2, <1>4, <1>16, <1>20, <1>21 DEF FixerIs, Finished
\* The end mark is copied after all blocks, and the checksum after it.
LEMMA EndCopied ==
  ASSUME EncoderIs, FixerIs, Fixer!EndOfBlocks, UNCHANGED evars
  PROVE  FixerIs'
<1>0. PICK k : k = Len(fixed)
  OBVIOUS
<1> DEFINE e == EndOf(io)
<1>1. /\ fpc = "blocks" /\ fin # <<>> /\ Head(fin).item = "size" /\ Head(fin).n = 0
      /\ fixed' = Append(fixed, Head(fin)) /\ fin' = Tail(fin)
      /\ fpc' = IF fheader.streamsum THEN "streamsum" ELSE "done"
      /\ UNCHANGED <<fheader, io, opts, closed, raised>>
  BY DEF Fixer!EndOfBlocks, evars
<1>2. Finished /\ fheader = opts /\ Uncopied(k) /\ Copies(fixed)
  BY <1>0, <1>1 DEF FixerIs
<1>3. /\ io \in Seq(Item) /\ Len(io) \in Nat /\ io[1].opts = opts /\ WrittenIs(io, e)
  BY <1>2, IoIs
<1>4. /\ k \in Nat /\ k + 1 \in 1..Len(io) /\ Head(fin) = fin[1] /\ fin[1] \in Item
      /\ Len(fin) \in Nat /\ Len(fin) = Len(io) - k /\ fin \in Seq(Item)
      /\ 1 \in 1..Len(fin) /\ io[k + 1] \in Item /\ Lengthened(io[k + 1], fin[1])
  BY <1>0, <1>1, <1>2, NextIs DEF Uncopied
<1>5. io[k + 1].item = "size" /\ io[k + 1].n = 0
  BY <1>1, <1>4, LengthenedIs
<1>6. k + 1 = e
  BY <1>3, <1>4, <1>5 DEF WrittenIs
<1>7. fin[1] = io[k + 1]
  <2>1. ~io[k + 1].literal
    BY <1>3, <1>6 DEF WrittenIs, Enc!EndMark, Enc!SizeWord
  <2> QED
    BY <1>4, <1>5, <2>1, LengthenedIs
<1>8. Copies(fixed') /\ Len(fixed') = k + 1
  <2> DEFINE t == <<Head(fin)>>
  <2>1. t \in Seq(Item) /\ Len(t) = 1 /\ t[1] = io[k + 1]
    BY <1>4, <1>7
  <2>2. fixed' = fixed \o t
    <3>1. fixed \in Seq(Item) /\ Head(fin) \in Item
      BY <1>2, <1>4 DEF Copies
    <3>2. Append(fixed, Head(fin)) = fixed \o <<Head(fin)>>
      BY <3>1, AppendIsConcat
    <3> QED
      BY <1>1, <3>2
  <2>3. \A i \in 1..Len(t) : t[i] = io[Len(fixed) + i]
    BY <1>0, <2>1
  <2>4. Len(fixed) + Len(t) <= Len(io)
    BY <1>0, <1>3, <1>4, <2>1
  <2> HIDE DEF t
  <2> QED
    BY <1>0, <1>2, <1>3, <2>1, <2>2, <2>3, <2>4, CopiesMore
<1>9. Uncopied(k + 1)'
  <2>1. 1 \in 0..Len(fin) /\ fin \in Seq(Item) /\ fin # <<>>
    BY <1>1, <1>4
  <2>2. Tail(fin) = SubSeq(fin, 2, Len(fin))
    BY <2>1, TailIsSubSeq
  <2>3. fin' = LeftAt(fin, 1)
    BY <1>1, <2>2 DEF LeftAt
  <2> QED
    BY <1>1, <1>2, <1>3, <2>1, <2>3, UncopiedLess
<1>10. Copies(fixed)' /\ Uncopied(Len(fixed))'
  BY <1>1, <1>8, <1>9 DEF Copies, Uncopied
<1>11. ~opts.streamsum => e = Len(io)
  BY <1>3 DEF EndOf
<1>12. EndOf(io)' = e
  BY <1>1 DEF EndOf
<1> QED
  BY <1>1, <1>2, <1>6, <1>8, <1>10, <1>11, <1>12 DEF FixerIs, Finished

LEMMA SumCopied ==
  ASSUME EncoderIs, FixerIs, Fixer!export_streamsum, UNCHANGED evars
  PROVE  FixerIs'
<1> DEFINE k == Len(fixed)
           e == EndOf(io)
<1>1. /\ fpc = "streamsum" /\ fixed' = fixed \o fin /\ fin' = <<>> /\ fpc' = "done"
      /\ UNCHANGED <<fheader, io, opts, closed, raised>>
  BY DEF Fixer!export_streamsum, evars
<1>2. Finished /\ fheader = opts /\ Uncopied(k) /\ Copies(fixed) /\ k = e
  BY <1>1 DEF FixerIs
<1>3. /\ io \in Seq(Item) /\ Len(io) \in Nat /\ WrittenIs(io, e)
  BY <1>2, IoIs
<1>4. fin \in Seq(Item) /\ Len(fin) \in Nat /\ Len(fin) = Len(io) - k /\ k \in Nat
      /\ \A i \in 1..Len(fin) : Lengthened(io[k + i], fin[i])
  BY <1>2, LenProperties DEF Uncopied
<1>5. ASSUME NEW i \in 1..Len(fin) PROVE fin[i] = io[k + i]
  <2>1. k + i = Len(io) /\ io[Len(io)].item = "sum" /\ k + i \in 1..Len(io)
    <3>1. e = Len(io) \/ (e = Len(io) - 1 /\ io[Len(io)].item = "sum")
      BY <1>3 DEF WrittenIs
    <3> QED
      BY <1>2, <1>3, <1>4, <3>1
  <2>2. io[k + i] \in Item
    BY <1>3, <2>1, ElementOfSeq
  <2>3. Lengthened(io[k + i], fin[i])
    BY <1>4
  <2> QED
    BY <2>1, <2>2, <2>3, LengthenedIs
<1>6. Len(fixed) + Len(fin) <= Len(io) /\ Len(fixed) + Len(fin) = Len(io)
  BY <1>3, <1>4
<1>7. Copies(fixed \o fin) /\ Len(fixed \o fin) = Len(fixed) + Len(fin)
  BY <1>2, <1>3, <1>4, <1>5, <1>6, CopiesMore
<1>8. Copies(fixed)' /\ Len(fixed') = Len(io)
  BY <1>1, <1>6, <1>7 DEF Copies
<1> QED
  BY <1>1, <1>2, <1>8 DEF FixerIs, Finished

LEMMA FixerKept ==
  ASSUME FixerIs, UNCHANGED <<evars, fvars>>
  PROVE  FixerIs'
<1>1. UNCHANGED <<io, opts, closed, raised, fin, fixed, fheader, fpc>>
  BY DEF evars, fvars
<1>2. \A k : Uncopied(k)' = Uncopied(k)
  BY <1>1 DEF Uncopied
<1>3. Copies(fixed)' = Copies(fixed) /\ EndOf(io)' = EndOf(io) /\ Finished' = Finished
  BY <1>1 DEF Copies, EndOf, Finished
<1>4. Uncopied(Len(fixed))' = Uncopied(Len(fixed)) /\ Uncopied(1)' = Uncopied(1)
  BY <1>1 DEF Uncopied
<1> QED
  BY <1>1, <1>3, <1>4 DEF FixerIs

\* What was copied is a stream that holds the same.
LEMMA CopyIs ==
  ASSUME EncoderIs, FixerIs, fpc = "done"
  PROVE  /\ Formed(fixed) /\ Content(fixed) = Content(io) /\ Contains(fixed, Enc!EndMark)
         /\ \A i \in 1..(Len(fixed) - 1) : fixed[i + 1].item = "payload" => fixed[i].n = fixed[i + 1].block.n
<1> DEFINE e == EndOf(io)
<1>1. Finished /\ Copies(fixed) /\ Len(fixed) = Len(io)
  BY DEF FixerIs
<1>2. /\ io \in Seq(Item) /\ Len(io) \in Nat /\ io[1].item = "header" /\ io[1].opts = opts /\ opts \in Option
      /\ Formed(io) /\ WrittenIs(io, e)
  BY <1>1, IoIs
<1>3. /\ fixed \in Seq(Item) /\ Len(fixed) \in 1..Len(io) /\ 1 <= Len(io)
      /\ fixed[1].item = "header" /\ fixed[1].opts.blocksum = io[1].opts.blocksum
      /\ \A i \in 2..Len(io) : fixed[i] = io[i]
  BY <1>1, <1>2 DEF Copies, Option
<1>4. Formed(fixed)
  <2>1. fixed # <<>>
    BY <1>2, <1>3, EmptySeq
  <2>2. ASSUME NEW i \in 1..(Len(fixed) - 1) PROVE Follows(fixed, i)
    <3>1. i \in 1..(Len(io) - 1) /\ i \in Nat /\ i + 1 \in 2..Len(io) /\ (i = 1 \/ i \in 2..Len(io))
          /\ (i > 1 => i - 1 = 1 \/ i - 1 \in 2..Len(io))
      BY <1>1, <1>2
    <3>2. Follows(io, i)
      BY <1>2, <3>1 DEF Formed
    <3>3. fixed[i + 1] = io[i + 1]
      BY <1>3, <3>1
    <3>4. CASE i = 1
      <4>1. io[i + 1].item = "size"
        BY <1>2, <3>2, <3>4 DEF Follows
      <4> QED
        BY <1>3, <3>3, <3>4, <4>1 DEF Follows
    <3>5. CASE i # 1
      <4>1. fixed[i] = io[i] /\ (i > 1 => fixed[i - 1].item = io[i - 1].item)
        BY <1>2, <1>3, <3>1, <3>5
      <4> QED
        BY <1>3, <3>2, <3>3, <4>1 DEF Follows
    <3> QED
      BY <3>4, <3>5
  <2> QED
    BY <1>3, <2>1, <2>2 DEF Formed
<1>5. Content(fixed) = Content(io)
  <2>1. \A i \in 1..Len(io) : Data(fixed[i]) = Data(io[i])
    <3> SUFFICES ASSUME NEW i \in 1..Len(io) PROVE Data(fixed[i]) = Data(io[i])
      OBVIOUS
    <3>1. i = 1 \/ i \in 2..Len(io)
      BY <1>2
    <3>2. Data(fixed[1]) = Data(io[1])
      BY <1>2, <1>3 DEF Data
    <3> QED
      BY <1>3, <3>1, <3>2
  <2>2. ContentTo(fixed, Len(io)) = ContentTo(io, Len(io))
    BY <1>1, <1>2, <2>1, ContentSame
  <2> QED
    BY <1>1, <2>2 DEF Content
<1>6. Contains(fixed, Enc!EndMark)
  <2>1. e \in 2..Len(io) /\ io[e] = Enc!EndMark
    BY <1>2 DEF WrittenIs
  <2>2. fixed[e] = Enc!EndMark /\ e \in 1..Len(fixed)
    BY <1>1, <1>2, <1>3, <2>1
  <2> QED
    BY <2>2 DEF Contains
<1>7. ASSUME NEW i \in 1..(Len(fixed) - 1), fixed[i + 1].item = "payload"
      PROVE  fixed[i].n = fixed[i + 1].block.n
  BY <1>4, <1>7 DEF Formed, Follows, Announces
<1> QED
  BY <1>4, <1>5, <1>6, <1>7
LEMMA FixerStays ==
  ASSUME EncoderIs, FixerIs, Fixer!FixerStep, UNCHANGED evars
  PROVE  FixerIs'
BY HeaderCopied, BlockCopied, EndCopied, SumCopied DEF Fixer!FixerStep

\* Nothing is repaired while the encoder goes on.
LEMMA FixerWaits ==
  ASSUME FixerIs, fpc = "off", UNCHANGED fvars
  PROVE  FixerIs'
BY DEF FixerIs, fvars

-----------------------------------------------------------------------------
(* The decoder is opened.                                                  *)
LEMMA OpenedFile ==
  ASSUME EncoderIs, FixerIs, OpenWritten \/ OpenFixed \/ OpenForeign, UNCHANGED <<evars, fvars>>
  PROVE  Formed(file') /\ (Followed' => InReach(file')) /\ fpc' \in {"off", "done"}
<1>1. fpc' = fpc /\ raised' = raised /\ fpc' \in {"off", "done"}
  BY DEF evars, fvars, OpenWritten, OpenFixed, OpenForeign
<1>2. (\A i \in DOMAIN file' : file'[i].item = "payload" => file'[i].block.refers = <<>>) => InReach(file')
  BY DEF InReach
<1>3. CASE OpenWritten
  <2>1. Finished /\ file' \in Cuts(io)
    BY <1>3 DEF OpenWritten
  <2>2. Formed(io) /\ NoPort
    BY <2>1, IoIs DEF Finished, NoPort
  <2>3. CutOff(io, file')
    BY <2>1, <2>2, CutIs
  <2>4. Formed(file')
    BY <2>2, <2>3, CutFormed
  <2>5. ASSUME Followed' PROVE InReach(file')
    <3>1. CASE NoCoder
      <4>1. InReach(io)
        BY <2>2, <3>1 DEF EncoderIs, Linked
      <4> QED
        BY <2>2, <2>3, <4>1, CutReach
    <3>2. CASE ~NoCoder
      BY <1>1, <1>2, <2>5, <3>2 DEF Followed, NoCoder
    <3> QED
      BY <3>1, <3>2
  <2> QED
    BY <1>1, <2>4, <2>5
<1>4. CASE OpenFixed
  <2>1. Formed(file') /\ fpc' # "off"
    BY <1>1, <1>4, CopyIs DEF OpenFixed
  <2>2. Followed' => InReach(file')
    BY <1>2, <2>1 DEF Followed
  <2> QED
    BY <1>1, <2>1, <2>2
<1>5. CASE OpenForeign
  BY <1>1, <1>5, OldStreamAssumption DEF OpenForeign
<1> QED
  BY <1>3, <1>4, <1>5

\* What follows the header is a size.
LEMMA OpenPlace ==
  ASSUME NEW f, Formed(f)
  PROVE  /\ f \in Seq(Item) /\ Len(f) \in Nat /\ 1 \in 1..Len(f) /\ f # <<>>
         /\ Head(f) = f[1] /\ Tail(f) = LeftAt(f, 1) /\ Tail(f) \in Seq(Item) /\ Len(f) - Len(Tail(f)) = 1
         /\ Tail(f) = <<>> \/ f[1 + 1].item = "size"
         /\ ContentTo(f, 1) = <<>>
<1>1. f \in Seq(Item) /\ f # <<>> /\ f[1].item \in {"header", "legacy"} /\ Len(f) \in Nat
  BY LenProperties DEF Formed
<1>2. 1 \in 1..Len(f) /\ Len(f) # 0
  BY <1>1, EmptySeq
<1>3. Head(f) = f[1] /\ Tail(f) = LeftAt(f, 1) /\ Tail(f) \in Seq(Item) /\ Len(Tail(f)) = Len(f) - 1
  BY <1>1, HeadTailProperties, TailIsSubSeq DEF LeftAt
<1>4. ASSUME Tail(f) # <<>> PROVE f[1 + 1].item = "size"
  <2>1. Len(Tail(f)) # 0
    BY <1>3, <1>4, EmptySeq
  <2>2. 1 \in 1..(Len(f) - 1)
    BY <1>1, <1>3, <2>1
  <2> QED
    BY <1>1, <2>2, FormedIs
<1>5. ContentTo(f, 1) = <<>>
  <2>1. 0 \in 0..(Len(f) - 1) /\ 0 + 1 = 1
    BY <1>1, <1>2
  <2>2. ContentTo(f, 0 + 1) = ContentTo(f, 0) \o Data(f[0 + 1])
    BY <1>1, <2>1, ContentStep
  <2>3. Data(f[1]) = <<>>
    BY <1>1 DEF Data
  <2>4. <<>> \o <<>> = <<>>
    BY EmptySeq, ConcatEmptySeq
  <2> QED
    BY <1>1, <2>1, <2>2, <2>3, <2>4, ContentStart
<1>6. Len(f) - Len(Tail(f)) = 1
  BY <1>1, <1>3
<1> QED
  BY <1>1, <1>2, <1>3, <1>4, <1>5, <1>6

LEMMA OpenStays ==
  ASSUME EncoderIs, FixerIs, DecoderIs, Open
  PROVE  DecoderIs'
<1>1. /\ dpc = "new" /\ dpc' = "idle" /\ rest' = Tail(file')
      /\ header' = [legacy |-> Head(file').item = "legacy", opts |-> Head(file').opts]
      /\ UNCHANGED <<ended, sbuf, readbuf, decodebuf, window, flags, dop, size, dest, got, failed>>
      /\ UNCHANGED <<evars, fvars>>
  BY DEF Open, Dec!Open, Dec!bufs
<1>2. DecoderTypes /\ dest = <<>> /\ got = <<>> /\ failed = 0 /\ ~ended /\ sbuf.of = "none" /\ window = <<>>
  BY <1>1 DEF DecoderIs
<1>3. Formed(file') /\ (Followed' => InReach(file')) /\ fpc' \in {"off", "done"}
  BY <1>1, OpenedFile DEF Open
<1>4. /\ file' \in Seq(Item) /\ Len(file') \in Nat /\ 1 \in 1..Len(file') /\ file' # <<>>
      /\ Head(file') = file'[1] /\ Tail(file') = LeftAt(file', 1) /\ Tail(file') \in Seq(Item)
      /\ Len(file') - Len(Tail(file')) = 1
      /\ Tail(file') = <<>> \/ file'[1 + 1].item = "size"
      /\ ContentTo(file', 1) = <<>>
  <2>1. PICK f : f = file'
    OBVIOUS
  <2>2. Formed(f)
    BY <1>3, <2>1
  <2>3. /\ f \in Seq(Item) /\ Len(f) \in Nat /\ 1 \in 1..Len(f) /\ f # <<>>
        /\ Head(f) = f[1] /\ Tail(f) = LeftAt(f, 1) /\ Tail(f) \in Seq(Item) /\ Len(f) - Len(Tail(f)) = 1
        /\ Tail(f) = <<>> \/ f[1 + 1].item = "size"
        /\ ContentTo(f, 1) = <<>>
    BY <2>2, OpenPlace
  <2> QED
    BY <2>1, <2>3
<1>5. DecoderTypes'
  BY <1>1, <1>2, <1>4 DEF DecoderTypes, DPCs
<1>6. At' = 1
  BY <1>1, <1>4 DEF At
<1>7. Placed' /\ Reading'
  BY <1>1, <1>3, <1>4, <1>6 DEF Placed, Reading
<1>8. Ends'
  BY <1>1, <1>2, <1>4, <1>6 DEF Ends, Following
<1>9. Delivering'
  <2>1. Dec!Buffered' = <<>> /\ (got \o dest) \o <<>> = <<>>
    <3>1. Dec!Buffered' = <<>>
      BY <1>1, <1>2 DEF Dec!Buffered
    <3>2. (<<>> \o <<>>) \o <<>> = <<>>
      BY EmptySeq, ConcatEmptySeq
    <3> QED
      BY <1>2, <3>1, <3>2
  <2>2. Reach(<<>>) = <<>>
    <3>1. Len(<<>>) = 0 /\ W \in Nat
      BY EmptySeq, OldStreamAssumption
    <3> QED
      BY <3>1 DEF Reach, Enc!Coder!Reach
  <2> QED
    BY <1>1, <1>2, <1>4, <1>6, <2>1, <2>2 DEF Delivering, Decoded
<1> QED
  BY <1>1, <1>5, <1>7, <1>8, <1>9 DEF DecoderIs

\* What the encoder and the repair do is done before the decoder is opened, or
\* does not concern it.
LEMMA DecoderKept ==
  ASSUME DecoderIs, UNCHANGED <<dvars, file>>, dpc = "new" \/ UNCHANGED <<fpc, raised>>
  PROVE  DecoderIs'
<1>1. UNCHANGED <<rest, header, ended, sbuf, readbuf, decodebuf, window, flags, dpc, dop,
                  size, dest, got, failed, file>>
  BY DEF dvars
<1>2. DecoderTypes'
  BY <1>1 DEF DecoderIs, DecoderTypes
<1>3. CASE dpc = "new"
  BY <1>1, <1>2, <1>3 DEF DecoderIs
<1>4. CASE dpc # "new"
  <2>1. Still /\ Placed /\ Reading /\ (failed = 0 => Ends /\ (Followed => Delivering))
    BY <1>1, <1>4 DEF Still, DecoderIs
  <2>2. Followed' = Followed /\ HasEnd(file)' = HasEnd(file)
        /\ Literals(file)' = Literals(file) /\ Dec!Buffered' = Dec!Buffered
    BY <1>1, <2>1, StillIs, BufferSame
  <2>3. Placed'
    BY <1>1, <2>1, Remains
  <2>4. Reading'
    BY <1>1, <2>1 DEF Reading, Announced, IsHere, Following, At
  <2>5. Ends => Ends'
    BY <1>1, <2>2 DEF Ends, Following, At
  <2>6. Delivering => Delivering'
    BY <1>1, <2>2 DEF Delivering, Decoded, Unbroken, Following, At
  <2> QED
    BY <1>1, <1>2, <1>4, <2>1, <2>2, <2>3, <2>4, <2>5, <2>6 DEF DecoderIs
<1> QED
  BY <1>3, <1>4

-----------------------------------------------------------------------------
(* All three.                                                              *)
AllIs == EncoderIs /\ FixerIs /\ DecoderIs

LEMMA InitAll == Init => AllIs
<1> SUFFICES ASSUME Init PROVE AllIs
  OBVIOUS
<1>1. EncoderIs
  BY InitEncoder DEF Init
<1>2. FixerIs
  BY DEF Init, Fixer!Init, FixerIs
<1>3. DecoderIs
  <2>1. <<>> \in Seq(Item) /\ <<>> \in Seq(Byte) /\ Len(<<>>) = 0 /\ BlockSize \in Nat /\ W \in Nat /\ MaxFailed \in Nat
    BY EmptySeq, OldStreamAssumption
  <2>2. /\ rest = <<>> /\ ended = FALSE /\ sbuf = [of |-> "none", at |-> 0]
        /\ readbuf = <<>> /\ decodebuf = <<>> /\ window = <<>> /\ flags = [literal |-> FALSE, n |-> 0]
        /\ dpc = "new" /\ size = 0 /\ dest = <<>> /\ got = <<>> /\ failed = 0 /\ file = <<>>
    BY DEF Init, Dec!Init
  <2>3. DecoderTypes
    <3>1. sbuf \in [of : {"none", "readbuf", "decodebuf"}, at : Nat] /\ flags \in [literal : BOOLEAN, n : Nat]
      BY <2>2
    <3>2. Len(readbuf) <= BlockSize /\ Len(decodebuf) <= BlockSize /\ Len(window) <= W
      BY <2>1, <2>2
    <3>3. failed \in Nat /\ failed <= MaxFailed /\ size \in Nat
      BY <2>1, <2>2
    <3> QED
      BY <2>1, <2>2, <3>1, <3>2, <3>3 DEF DecoderTypes, DPCs
  <2> QED
    BY <2>2, <2>3 DEF DecoderIs
<1> QED
  BY <1>1, <1>2, <1>3 DEF AllIs

LEMMA NextAll == AllIs /\ [Next]_vars => AllIs'
<1> SUFFICES ASSUME AllIs, [Next]_vars PROVE AllIs'
  OBVIOUS
<1>0. EncoderIs /\ FixerIs /\ DecoderIs
  BY DEF AllIs
<1>1. CASE dpc = "new" /\ fpc = "off" /\ Enc!Encode /\ UNCHANGED <<dvars, fvars, file>>
  BY <1>0, <1>1, EncodeStays, FixerWaits, DecoderKept DEF AllIs
<1>2. CASE Fix
  <2>1. dpc = "new" /\ UNCHANGED evars /\ UNCHANGED <<dvars, file>>
    BY <1>2 DEF Fix
  <2> QED
    BY <1>0, <1>2, <2>1, EncoderKept, FixStarts, DecoderKept DEF AllIs
<1>3. CASE Fixer!FixerStep /\ UNCHANGED <<evars, dvars, file>>
  <2>1. UNCHANGED evars /\ UNCHANGED <<dvars, file>>
    BY <1>3
  <2>2. dpc = "new"
    BY <1>0, <1>3 DEF DecoderIs, Placed, Fixer!FixerStep, Fixer!export_header, Fixer!export_fixedblock,
       Fixer!EndOfBlocks, Fixer!export_streamsum
  <2> QED
    BY <1>0, <1>3, <2>1, <2>2, EncoderKept, FixerStays, DecoderKept DEF AllIs
<1>4. CASE Open
  <2>1. UNCHANGED evars /\ UNCHANGED <<evars, fvars>>
    BY <1>4 DEF Open
  <2> QED
    BY <1>0, <1>4, <2>1, EncoderKept, FixerKept, OpenStays DEF AllIs
<1>5. CASE Dec!Decode /\ UNCHANGED <<evars, fvars, file>>
  BY <1>0, <1>5, EncoderKept, FixerKept, DecodeStays DEF AllIs
<1>6. CASE UNCHANGED vars
  <2>1. UNCHANGED evars /\ UNCHANGED <<evars, fvars>> /\ UNCHANGED <<dvars, file>> /\ UNCHANGED <<fpc, raised>>
    BY <1>6 DEF vars, evars, fvars
  <2> QED
    BY <1>0, <2>1, EncoderKept, FixerKept, DecoderKept DEF AllIs
<1> QED
  BY <1>1, <1>2, <1>3, <1>4, <1>5, <1>6 DEF Next

LEMMA Always == Spec => []AllIs
<1> QED
  BY InitAll, NextAll, PTL DEF Spec

\* For all options, sizes, faults and streams: @buf, the Strings of the decoder
\* and the dictionaries do not outgrow their bounds.
THEOREM TypeCorrect == Spec => []TypeOK
<1>1. AllIs => TypeOK
  BY DEF AllIs, EncoderIs, EncoderTypes, DecoderIs, DecoderTypes, TypeOK
<1> QED
  BY <1>1, Always, PTL

\* For all streams, cut off anywhere, and whatever was read before: the end is
\* reported only when the end mark was read, unless a call raised.
THEOREM EndIsMarked == Spec => []NilIsTheEnd
<1>1. AllIs => NilIsTheEnd
  BY DEF AllIs, DecoderIs, Ends, HasEnd, NilIsTheEnd
<1> QED
  BY <1>1, Always, PTL

\* What calls have returned, and what the call in progress is about to return.
LEMMA ReadIs ==
  ASSUME dpc # "new", DecoderTypes, Placed, Ends, Delivering
  PROVE  /\ IsPrefix(got \o dest, Content(file))
         /\ ended => got = Content(file)
<1>1. /\ file \in Seq(Item) /\ Len(file) \in Nat /\ At \in 0..Len(file) /\ (rest = <<>> <=> At = Len(file))
      /\ got \in Seq(Byte) /\ dest \in Seq(Byte) /\ Dec!Buffered \in Seq(Byte) /\ got \o dest \in Seq(Byte)
  BY Position, BufferedIs, ConcatProperties DEF DecoderTypes
<1>2. IsPrefix(got \o dest, Content(file))
  <2> DEFINE g == got \o dest
             b == IF dpc \in {"idle", "loop", "flags"} THEN Dec!Buffered ELSE <<>>
             c == Content(file)
  <2>1. g \in Seq(Byte) /\ b \in Seq(Byte)
    BY <1>1, EmptySeq
  <2>2. g \o b = ContentTo(file, At)
    <3>1. g \o <<>> = g
      BY <1>1, ConcatEmptySeq
    <3> QED
      BY <3>1 DEF DecoderTypes, DPCs, Delivering
  <2>3. PICK t \in Seq(Nat) : c = ContentTo(file, At) \o t
    BY <1>1, ContentFront
  <2>4. t \in Seq(Byte)
    BY SeqMonotonic DEF Byte
  <2> HIDE DEF g, b, c
  <2>5. (g \o b) \o t = g \o (b \o t) /\ b \o t \in Seq(Byte)
    BY <2>1, <2>4, ConcatAssociative, ConcatProperties
  <2>6. IsPrefix(g, c)
    BY <2>1, <2>2, <2>3, <2>5, PrefixIs
  <2> QED
    BY <2>6 DEF g, c
<1>3. ASSUME ended PROVE got = Content(file)
  <2>1. got = ContentTo(file, At)
    <3>1. (got \o <<>>) \o <<>> = got
      BY <1>1, ConcatEmptySeq
    <3> QED
      BY <1>3, <3>1 DEF Ends, Delivering
  <2>2. CASE rest = <<>>
    BY <1>1, <2>1, <2>2 DEF Content
  <2>3. CASE rest # <<>>
    <3>1. At = Len(file) - 1 /\ Following.item = "sum"
      BY <1>3, <2>3 DEF Ends
    <3>2. ContentTo(file, At + 1) = ContentTo(file, At) /\ At + 1 = Len(file)
      BY <1>1, <2>3, <3>1, NextContent
    <3> QED
      BY <2>1, <3>2 DEF Content
  <2> QED
    BY <2>2, <2>3
<1> QED
  BY <1>2, <1>3

\* For all options, sizes of writes and reads, faults of the encoder and streams
\* of other programs: what is read is what was written, in order, and all of it
\* when the end is reported, as long as no call raises.
THEOREM ReadBack == Spec => []ReadIsWritten
<1>1. AllIs => ReadIsWritten
  <2> SUFFICES ASSUME AllIs, Followed, failed = 0
               PROVE  /\ IsPrefix(got \o dest, Content(file))
                      /\ ended => got = Content(file)
    BY DEF ReadIsWritten, Delivers
  <2>1. CASE dpc = "new"
    <3>1. file = <<>> /\ got = <<>> /\ dest = <<>> /\ ~ended
      BY <2>1 DEF AllIs, DecoderIs
    <3>2. Content(file) = <<>>
      <4>1. Len(file) = 0 /\ Len(file) \in Nat
        BY <3>1, EmptySeq
      <4> QED
        BY <4>1, ContentStart DEF Content
    <3>3. <<>> \o <<>> = <<>> /\ <<>> \in Seq(Byte)
      BY EmptySeq, ConcatEmptySeq
    <3> QED
      BY <3>1, <3>2, <3>3, PrefixIs
  <2>2. CASE dpc # "new"
    <3>1. DecoderTypes /\ Placed /\ Ends /\ Delivering
      BY <2>2 DEF AllIs, DecoderIs
    <3> QED
      BY <2>2, <3>1, ReadIs
  <2> QED
    BY <2>1, <2>2
<1> QED
  BY <1>1, Always, PTL

\* For all options, sizes and faults: what extlz4-0.1 has written is repaired
\* to a stream that holds the same and whose sizes are those of its blocks; the
\* last one is found from the end of the file.
THEOREM RepairIsRight == Spec => []Repaired
<1>1. AllIs => Repaired
  BY CopyIs DEF AllIs, FixerIs, Repaired
<1> QED
  BY <1>1, Always, PTL
=============================================================================
