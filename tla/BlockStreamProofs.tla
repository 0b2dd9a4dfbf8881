------------------------- MODULE BlockStreamProofs -------------------------
(* A decoder of linked blocks has what a block refers to, for every reach  *)
(* of a match, every string and every sequence of resets and failures.     *)
EXTENDS BlockStream, SequenceTheorems, TLAPS

DecP == INSTANCE BlockDecoderProofs WITH
  context <- dContext, predict <- dPredict, Faults <- DecoderFaults

-----------------------------------------------------------------------------
(* Suffixes, byte by byte.                                                 *)
EndsWith(t, r) ==
  /\ Len(r) <= Len(t)
  /\ \A i \in 1..Len(r) : r[i] = t[Len(t) - Len(r) + i]

LEMMA Reversed ==
  ASSUME NEW s \in Seq(Bytes), NEW n \in 0..Len(s)
  PROVE  /\ SubSeq(Reverse(s), 1, n) \in Seq(Bytes)
         /\ Len(SubSeq(Reverse(s), 1, n)) = n
         /\ \A i \in 1..n : SubSeq(Reverse(s), 1, n)[i] = s[Len(s) - i + 1]
         /\ Len(Reverse(s)) = Len(s)
<1>1. Len(s) \in Nat /\ \A i \in 1..Len(s) : s[i] \in Bytes
  BY LenProperties, ElementOfSeq
<1>2. /\ Reverse(s) = [i \in 1..Len(s) |-> s[(Len(s) - i) + 1]]
      /\ \A i \in 1..Len(s) : (Len(s) - i) + 1 \in 1..Len(s)
  BY <1>1 DEF Reverse
<1>3. /\ Reverse(s) \in Seq(Bytes) /\ Len(Reverse(s)) = Len(s)
      /\ \A i \in 1..Len(s) : Reverse(s)[i] = s[Len(s) - i + 1]
  BY <1>1, <1>2, IsASeq
<1> DEFINE r == Reverse(s)
<1> HIDE DEF r
<1>4. /\ SubSeq(r, 1, n) \in Seq(Bytes)
      /\ Len(SubSeq(r, 1, n)) = (IF 1 <= n THEN n - 1 + 1 ELSE 0)
      /\ \A i \in 1..(n - 1 + 1) : SubSeq(r, 1, n)[i] = r[1 + i - 1]
  <2>1. \A i \in 1..n : r[i] \in Bytes
    BY <1>1, <1>3, ElementOfSeq DEF r
  <2>2. 1 \in Int /\ n \in Int
    BY <1>1
  <2> QED
    BY <2>1, <2>2, SubSeqProperties
<1>5. /\ Len(SubSeq(r, 1, n)) = n
      /\ \A i \in 1..n : SubSeq(r, 1, n)[i] = r[i]
  BY <1>1, <1>4
<1> QED
  BY <1>1, <1>3, <1>4, <1>5 DEF r

LEMMA SuffixIs ==
  ASSUME NEW r \in Seq(Bytes), NEW t \in Seq(Bytes)
  PROVE  IsSuffix(r, t) <=> EndsWith(t, r)
<1> DEFINE n == Len(r)
           a == SubSeq(Reverse(r), 1, n)
           b == SubSeq(Reverse(t), 1, n)
<1>1. n \in Nat /\ Len(t) \in Nat
  BY LenProperties
<1>2. /\ a \in Seq(Bytes) /\ Len(a) = n /\ Len(Reverse(r)) = n
      /\ \A i \in 1..n : a[i] = r[n - i + 1]
  <2>1. n \in 0..Len(r)
    BY <1>1
  <2> QED
    BY <2>1, Reversed
<1>3. Len(Reverse(t)) = Len(t)
  <2>1. 0 \in 0..Len(t)
    BY <1>1
  <2> QED
    BY <2>1, Reversed
<1>4. IsSuffix(r, t) <=> n <= Len(t) /\ a = b
  BY <1>2, <1>3 DEF IsSuffix, IsPrefix
<1>5. ASSUME n <= Len(t)
      PROVE  a = b <=> \A i \in 1..n : r[i] = t[Len(t) - n + i]
  <2>1. /\ b \in Seq(Bytes) /\ Len(b) = n
        /\ \A i \in 1..n : b[i] = t[Len(t) - i + 1]
    <3>1. n \in 0..Len(t)
      BY <1>1, <1>5
    <3> QED
      BY <3>1, Reversed
  <2> HIDE DEF a, b, n
  <2>2. a = b <=> \A i \in 1..n : a[i] = b[i]
    <3>1. ASSUME \A i \in 1..n : a[i] = b[i]
          PROVE  a = b
      BY <1>2, <2>1, <3>1, SeqEqual
    <3> QED
      BY <3>1
  <2>3. (\A i \in 1..n : a[i] = b[i])
          <=> \A i \in 1..n : r[n - i + 1] = t[Len(t) - i + 1]
    <3>1. \A i \in 1..n : a[i] = r[n - i + 1] /\ b[i] = t[Len(t) - i + 1]
      BY <1>2, <2>1
    <3>2. ASSUME \A i \in 1..n : a[i] = b[i], NEW i \in 1..n
          PROVE  r[n - i + 1] = t[Len(t) - i + 1]
      BY <3>1, <3>2
    <3>3. ASSUME \A i \in 1..n : r[n - i + 1] = t[Len(t) - i + 1],
                 NEW i \in 1..n
          PROVE  a[i] = b[i]
      BY <3>1, <3>3
    <3> QED
      BY <3>2, <3>3
  <2>4. (\A i \in 1..n : r[n - i + 1] = t[Len(t) - i + 1])
          <=> \A i \in 1..n : r[i] = t[Len(t) - n + i]
    <3>1. ASSUME \A i \in 1..n : r[n - i + 1] = t[Len(t) - i + 1],
                 NEW i \in 1..n
          PROVE  r[i] = t[Len(t) - n + i]
      <4>1. /\ n - i + 1 \in 1..n /\ n - (n - i + 1) + 1 = i
            /\ Len(t) - (n - i + 1) + 1 = Len(t) - n + i
        BY <1>1
      <4>2. r[n - (n - i + 1) + 1] = t[Len(t) - (n - i + 1) + 1]
        BY <3>1, <4>1
      <4> QED
        BY <4>1, <4>2
    <3>2. ASSUME \A i \in 1..n : r[i] = t[Len(t) - n + i],
                 NEW i \in 1..n
          PROVE  r[n - i + 1] = t[Len(t) - i + 1]
      <4>1. /\ n - i + 1 \in 1..n /\ Len(t) - n + (n - i + 1) = Len(t) - i + 1
        BY <1>1
      <4>2. r[n - i + 1] = t[Len(t) - n + (n - i + 1)]
        BY <3>2, <4>1
      <4> QED
        BY <4>1, <4>2
    <3> QED
      BY <3>1, <3>2
  <2> QED
    BY <2>2, <2>3, <2>4
<1> QED
  BY <1>4, <1>5 DEF EndsWith

LEMMA EndsWithTrans ==
  ASSUME NEW r \in Seq(Bytes), NEW s \in Seq(Bytes), NEW t \in Seq(Bytes),
         EndsWith(s, r), EndsWith(t, s)
  PROVE  EndsWith(t, r)
<1>1. Len(r) \in Nat /\ Len(s) \in Nat /\ Len(t) \in Nat
  BY LenProperties
<1>2. Len(r) <= Len(s) /\ Len(s) <= Len(t)
  BY DEF EndsWith
<1>3. ASSUME NEW i \in 1..Len(r)
      PROVE  r[i] = t[Len(t) - Len(r) + i]
  <2>1. /\ Len(s) - Len(r) + i \in 1..Len(s)
        /\ Len(t) - Len(s) + (Len(s) - Len(r) + i) = Len(t) - Len(r) + i
    BY <1>1, <1>2
  <2>2. r[i] = s[Len(s) - Len(r) + i]
    BY DEF EndsWith
  <2>3. s[Len(s) - Len(r) + i] = t[Len(t) - Len(s) + (Len(s) - Len(r) + i)]
    BY <2>1 DEF EndsWith
  <2> QED
    BY <2>1, <2>2, <2>3
<1> QED
  BY <1>1, <1>2, <1>3 DEF EndsWith

(* Of two suffixes of a string the longer one ends with the other.         *)
LEMMA EndsWithShorter ==
  ASSUME NEW r \in Seq(Bytes), NEW s \in Seq(Bytes), NEW t \in Seq(Bytes),
         EndsWith(t, r), EndsWith(t, s), Len(r) <= Len(s)
  PROVE  EndsWith(s, r)
<1>1. Len(r) \in Nat /\ Len(s) \in Nat /\ Len(t) \in Nat
  BY LenProperties
<1>2. Len(r) <= Len(s) /\ Len(s) <= Len(t)
  BY DEF EndsWith
<1>3. ASSUME NEW i \in 1..Len(r)
      PROVE  r[i] = s[Len(s) - Len(r) + i]
  <2>1. /\ Len(s) - Len(r) + i \in 1..Len(s)
        /\ Len(t) - Len(s) + (Len(s) - Len(r) + i) = Len(t) - Len(r) + i
    BY <1>1, <1>2
  <2>2. r[i] = t[Len(t) - Len(r) + i]
    BY DEF EndsWith
  <2>3. s[Len(s) - Len(r) + i] = t[Len(t) - Len(s) + (Len(s) - Len(r) + i)]
    BY <2>1 DEF EndsWith
  <2> QED
    BY <2>1, <2>2, <2>3
<1> QED
  BY <1>1, <1>2, <1>3 DEF EndsWith

(* What follows both, follows both.                                        *)
LEMMA EndsWithBoth ==
  ASSUME NEW r \in Seq(Bytes), NEW t \in Seq(Bytes), NEW d \in Seq(Bytes),
         EndsWith(t, r)
  PROVE  EndsWith(t \o d, r \o d)
<1> DEFINE rd == r \o d
           td == t \o d
<1>1. Len(r) \in Nat /\ Len(t) \in Nat /\ Len(d) \in Nat /\ Len(r) <= Len(t)
  BY LenProperties DEF EndsWith
<1>2. /\ Len(rd) = Len(r) + Len(d)
      /\ \A i \in 1..(Len(r) + Len(d)) :
           rd[i] = IF i <= Len(r) THEN r[i] ELSE d[i - Len(r)]
  BY ConcatProperties
<1>3. /\ Len(td) = Len(t) + Len(d)
      /\ \A i \in 1..(Len(t) + Len(d)) :
           td[i] = IF i <= Len(t) THEN t[i] ELSE d[i - Len(t)]
  BY ConcatProperties
<1> HIDE DEF rd, td
<1>4. ASSUME NEW i \in 1..Len(rd)
      PROVE  rd[i] = td[Len(td) - Len(rd) + i]
  <2> DEFINE j == Len(t) - Len(r) + i
  <2>1. /\ j \in 1..(Len(t) + Len(d)) /\ Len(td) - Len(rd) + i = j
        /\ (j <= Len(t) <=> i <= Len(r)) /\ j - Len(t) = i - Len(r)
        /\ i \in 1..(Len(r) + Len(d))
    BY <1>1, <1>2, <1>3
  <2>2. i <= Len(r) => r[i] = t[j]
    BY <1>1, <2>1 DEF EndsWith
  <2> HIDE DEF j
  <2> QED
    BY <1>2, <1>3, <2>1, <2>2
<1> QED
  BY <1>1, <1>2, <1>3, <1>4 DEF EndsWith, rd, td

LEMMA SubSeqEnd ==
  ASSUME NEW s \in Seq(Bytes), NEW m \in 1..Len(s)
  PROVE  /\ SubSeq(s, m, Len(s)) \in Seq(Bytes)
         /\ Len(SubSeq(s, m, Len(s))) = Len(s) - m + 1
         /\ EndsWith(s, SubSeq(s, m, Len(s)))
<1> DEFINE r == SubSeq(s, m, Len(s))
<1>1. Len(s) \in Nat /\ m \in Int /\ m <= Len(s) /\ 1 <= m /\ Len(s) \in Int
  BY LenProperties
<1>2. /\ r \in Seq(Bytes) /\ Len(r) = (IF m <= Len(s) THEN Len(s) - m + 1 ELSE 0)
      /\ \A i \in 1..(Len(s) - m + 1) : r[i] = s[m + i - 1]
  <2>1. \A i \in m..Len(s) : s[i] \in Bytes
    BY <1>1, ElementOfSeq
  <2> QED
    BY <1>1, <2>1, SubSeqProperties
<1> HIDE DEF r
<1>3. Len(r) = Len(s) - m + 1 /\ Len(r) <= Len(s)
  BY <1>1, <1>2
<1>4. ASSUME NEW i \in 1..Len(r)
      PROVE  r[i] = s[Len(s) - Len(r) + i]
  <2>1. m + i - 1 = Len(s) - Len(r) + i
    BY <1>1, <1>3
  <2> QED
    BY <1>2, <1>3, <2>1
<1> QED
  BY <1>2, <1>3, <1>4 DEF EndsWith, r

LEMMA ReachIs ==
  ASSUME NEW s \in Seq(Bytes)
  PROVE  /\ Enc!Reach(s) \in Seq(Bytes) /\ EndsWith(s, Enc!Reach(s))
         /\ Len(Enc!Reach(s)) = IF Len(s) > W THEN W ELSE Len(s)
<1>1. Len(s) \in Nat /\ W \in Nat \ {0}
  BY LenProperties, StreamAssumption
<1>2. CASE Len(s) > W
  <2> DEFINE m == Len(s) - W + 1
  <2>1. m \in 1..Len(s) /\ Len(s) - m + 1 = W
    BY <1>1, <1>2
  <2>2. Enc!Reach(s) = SubSeq(s, m, Len(s))
    BY <1>2 DEF Enc!Reach
  <2> HIDE DEF m
  <2>3. /\ SubSeq(s, m, Len(s)) \in Seq(Bytes)
        /\ Len(SubSeq(s, m, Len(s))) = W
        /\ EndsWith(s, SubSeq(s, m, Len(s)))
    BY <2>1, SubSeqEnd
  <2> QED
    BY <1>2, <2>2, <2>3
<1>3. CASE ~(Len(s) > W)
  <2>1. EndsWith(s, s)
    BY <1>1 DEF EndsWith
  <2> QED
    BY <1>3, <2>1 DEF Enc!Reach
<1> QED
  BY <1>2, <1>3

LEMMA SavedIs ==
  ASSUME NEW s \in Seq(Bytes), NEW r \in Enc!Saved(s)
  PROVE  /\ r \in Seq(Bytes) /\ Len(r) \in Nat /\ Len(r) <= W
         /\ EndsWith(s, r)
<1> DEFINE q == Enc!Reach(s)
<1>1. /\ q \in Seq(Bytes) /\ EndsWith(s, q) /\ Len(q) <= W /\ Len(q) \in Nat
      /\ W \in Nat
  <2>1. Len(s) \in Nat /\ W \in Nat
    BY LenProperties, StreamAssumption
  <2> QED
    BY <2>1, ReachIs
<1>2. r \in {SubSeq(q, l, Len(q)) : l \in 1..Len(q)} \cup {<<>>}
  BY DEF Enc!Saved, Enc!Suffixes
<1> HIDE DEF q
<1>3. r \in Seq(Bytes) /\ Len(r) \in Nat /\ Len(r) <= Len(q) /\ EndsWith(q, r)
  <2>1. CASE r = <<>>
    BY <1>1, <2>1, EmptySeq DEF EndsWith
  <2>2. ASSUME NEW l \in 1..Len(q), r = SubSeq(q, l, Len(q))
        PROVE  r \in Seq(Bytes) /\ EndsWith(q, r)
    BY <1>1, <2>2, SubSeqEnd
  <2>3. r \in Seq(Bytes) /\ EndsWith(q, r)
    BY <1>2, <2>1, <2>2
  <2> QED
    BY <2>3, LenProperties DEF EndsWith
<1>4. EndsWith(s, r)
  BY <1>1, <1>3, EndsWithTrans
<1> QED
  BY <1>1, <1>3, <1>4

(* What LZ4 saves of s is in reach at the end of a longer string t.        *)
LEMMA SavedInReach ==
  ASSUME NEW s \in Seq(Bytes), NEW t \in Seq(Bytes), EndsWith(t, s),
         NEW r \in Enc!Saved(s)
  PROVE  EndsWith(Enc!Reach(t), r)
<1>1. r \in Seq(Bytes) /\ Len(r) \in Nat /\ Len(r) <= W /\ EndsWith(s, r)
  BY SavedIs
<1>2. EndsWith(t, r)
  BY <1>1, EndsWithTrans
<1>3. /\ Enc!Reach(t) \in Seq(Bytes) /\ EndsWith(t, Enc!Reach(t))
      /\ Len(r) <= Len(Enc!Reach(t))
  <2>1. Len(t) \in Nat /\ W \in Nat /\ Len(r) <= Len(t)
    BY <1>2, LenProperties, StreamAssumption DEF EndsWith
  <2> QED
    BY <1>1, <2>1, ReachIs
<1> QED
  BY <1>1, <1>2, <1>3, EndsWithShorter

-----------------------------------------------------------------------------
(* The decoder of the stream is the one the theorems of BlockDecoder are   *)
(* about.                                                                  *)
DecoderTyped == Dec!TypeOK /\ (pc # "copy" => dest = <<>>)

LEMMA SameDecoder ==
  /\ DecP!DecoderAssumption
  /\ DecoderTyped <=> DecP!Inductive
  /\ Dec!Window = DecP!Window
  /\ \A s, n : DecP!Sliding!Last(s, n) =
       IF Len(s) > n THEN SubSeq(s, Len(s) - n + 1, Len(s)) ELSE s
<1>1. DecP!DecoderAssumption
  BY StreamAssumption DEF DecP!DecoderAssumption
<1>2. DecoderTyped <=> DecP!Inductive
  BY DEF DecoderTyped, DecP!Inductive, Dec!TypeOK, DecP!TypeOK
<1>3. Dec!Window = DecP!Window
  BY DEF Dec!Window, DecP!Window
<1> QED
  BY <1>1, <1>2, <1>3 DEF DecP!Sliding!Last

LEMMA DecoderSteps ==
  ASSUME DecoderTyped,
         \/ \E d \in Inputs : Dec!blkdec_setup(d) \/ Dec!SetupFails(d)
         \/ Dec!blkdec_update \/ Dec!decompress_safe_continue
         \/ Dec!UpdateRaises \/ Dec!CopyPrefix
         \/ UNCHANGED decoder
  PROVE  DecoderTyped'
<1>1. DecP!Inductive
  BY SameDecoder
<1>2. [DecP!Next]_(DecP!vars)
  <2>1. CASE \E d \in Inputs : Dec!blkdec_setup(d) \/ Dec!SetupFails(d)
    BY <2>1 DEF Dec!blkdec_setup, Dec!SetupFails, DecP!blkdec_setup,
         DecP!SetupFails, DecP!blkdec_reset, DecP!Next, Dec!LoadDict,
         DecP!LoadDict, Dec!CopyIn, DecP!CopyIn, Dec!dict, DecP!dict
  <2>2. CASE Dec!blkdec_update
    BY <2>2 DEF Dec!blkdec_update, DecP!blkdec_update, DecP!Next, Dec!dict,
         DecP!dict
  <2>3. CASE Dec!decompress_safe_continue
    BY <2>3 DEF Dec!decompress_safe_continue, DecP!decompress_safe_continue,
         DecP!Next, Dec!dict, DecP!dict
  <2>4. CASE Dec!UpdateRaises
    BY <2>4 DEF Dec!UpdateRaises, DecP!UpdateRaises, DecP!Next, Dec!dict,
         DecP!dict
  <2>5. CASE Dec!CopyPrefix
    BY <2>5 DEF Dec!CopyPrefix, DecP!CopyPrefix, DecP!Next, Dec!SlideShort,
         DecP!SlideShort, Dec!SlideLong, DecP!SlideLong, Dec!CopyIn,
         DecP!CopyIn
  <2>6. CASE UNCHANGED decoder
    BY <2>6 DEF decoder, DecP!vars, DecP!dict
  <2> QED
    BY <2>1, <2>2, <2>3, <2>4, <2>5, <2>6
<1>3. DecP!Inductive'
  BY <1>1, <1>2, SameDecoder, DecP!StepSlides
<1> QED
  BY <1>3 DEF DecoderTyped, DecP!Inductive, Dec!TypeOK, DecP!TypeOK

(* What the decoder makes of its dictionary is what the encoder takes a    *)
(* match to reach.                                                         *)
LEMMA LoadedWindow ==
  ASSUME DecoderTyped, NEW d \in Inputs, Dec!blkdec_setup(d)
  PROVE  Dec!Window' = Enc!Reach(d)
<1>1. DecP!TypeOK /\ DecP!LoadDict(d)
  BY SameDecoder DEF DecP!Inductive, Dec!blkdec_setup, Dec!LoadDict,
     DecP!LoadDict, Dec!CopyIn, DecP!CopyIn
<1>2. DecP!Window' = DecP!Sliding!Last(d, W)
  BY <1>1, SameDecoder, DecP!LoadDictEffect
<1> QED
  BY <1>2, SameDecoder DEF Enc!Reach, Dec!Window, DecP!Window

LEMMA SlidWindow ==
  ASSUME DecoderTyped, Dec!CopyPrefix
  PROVE  Dec!Window' = Enc!Reach(Dec!Window \o dest)
<1>1. DecP!TypeOK
  BY SameDecoder DEF DecP!Inductive
<1>2. DecP!Window' = DecP!Sliding!Last(DecP!Window \o dest, W)
  <2>1. CASE Len(dest) < W
    <3>1. DecP!SlideShort
      BY <2>1 DEF Dec!CopyPrefix, Dec!SlideShort, DecP!SlideShort, Dec!CopyIn,
         DecP!CopyIn
    <3> QED
      BY <1>1, <2>1, <3>1, SameDecoder, DecP!ShortSlides
  <2>2. CASE ~(Len(dest) < W)
    <3>1. DecP!SlideLong
      BY <2>2 DEF Dec!CopyPrefix, Dec!SlideLong, DecP!SlideLong, Dec!CopyIn,
         DecP!CopyIn
    <3> QED
      BY <1>1, <2>2, <3>1, SameDecoder, DecP!LongSlides
  <2> QED
    BY <2>1, <2>2
<1> QED
  BY <1>2, SameDecoder DEF Enc!Reach, Dec!Window, DecP!Window

LEMMA WindowBytes ==
  ASSUME DecoderTyped
  PROVE  Dec!Window \in Seq(Bytes) /\ dPredict \in Inputs
<1>1. DecP!TypeOK
  BY SameDecoder DEF DecP!Inductive
<1> QED
  BY <1>1, SameDecoder, DecP!WindowBytes DEF DecP!TypeOK

-----------------------------------------------------------------------------
(* What is on its way, and what the decoder will have when it gets there:  *)
(* its dictionary and the preset it keeps.                                 *)
Blocks == [kind : {"block"}, data : Inputs, refers : Seq(Bytes), sound : BOOLEAN]
Resets == [kind : {"reset"}, arg : Arguments]
Have == [window : Seq(Bytes), predict : Inputs]

Unsound(b) == b.kind = "block" /\ ~b.sound

Leads(b, has, next) ==
  /\ b.kind = "block" =>
       /\ next.predict = has.predict
       /\ b.sound => /\ next.window = Enc!Reach(has.window \o b.data)
                     /\ EndsWith(has.window, b.refers)
  /\ b.kind = "reset" =>
       /\ next.predict = DecoderPredict(b.arg, has.predict)
       /\ next.window = Enc!Reach(next.predict)

(* h[i] is what the decoder has after the first i of bs.                   *)
Path(bs, has, h) ==
  /\ h \in [0..Len(bs) -> Have] /\ h[0] = has
  /\ \A i \in 1..Len(bs) : Leads(bs[i], h[i - 1], h[i])

(* After a block nobody vouches for there are only such blocks, up to a    *)
(* reset, or up to an encoder that has raised.                             *)
Ordered(bs, r) ==
  \A i \in 1..Len(bs) :
    Unsound(bs[i]) => IF i = Len(bs) THEN r
                      ELSE bs[i + 1].kind = "reset" \/ Unsound(bs[i + 1])

(* The encoder codes for a decoder that has e.                             *)
CodesFor(e) ==
  eContext => /\ EndsWith(Enc!Reach(e.predict), ePredict)
              /\ ~raised => EndsWith(e.window, stream)

Typed ==
  /\ TypeOK /\ DecoderTyped
  /\ blocks \in Seq(Blocks \cup Resets)
  /\ pc # "idle" => Arrives("block")

Has == [window |-> Dec!Window, predict |-> dPredict]

Linked ==
  /\ Typed /\ BlocksDecode
  /\ Ordered(blocks, raised)
  /\ eContext /\ ~raised => prefix = stream
  /\ \E h : Path(blocks, Has, h) /\ CodesFor(h[Len(blocks)])

-----------------------------------------------------------------------------
LEMMA HasTyped ==
  ASSUME DecoderTyped
  PROVE  Has \in Have
  BY WindowBytes DEF Has, Have

LEMMA ItemTyped ==
  ASSUME NEW b \in Blocks \cup Resets
  PROVE  /\ b.kind \in {"block", "reset"}
         /\ b.kind = "block" => /\ b.data \in Inputs /\ b.refers \in Seq(Bytes)
                               /\ b.sound \in BOOLEAN
         /\ b.kind = "reset" => b.arg \in Arguments
  BY DEF Blocks, Resets

LEMMA StringsOfBytes ==
  ASSUME NEW s \in Inputs
  PROVE  s \in Seq(Bytes) /\ Len(s) \in Nat
  BY StreamAssumption, LenProperties

(* One more on its way.                                                    *)
LEMMA PathAppend ==
  ASSUME NEW bs \in Seq(Blocks \cup Resets), NEW has, NEW h, Path(bs, has, h),
         NEW b \in Blocks \cup Resets, NEW e \in Have,
         Leads(b, h[Len(bs)], e)
  PROVE  \E g : Path(Append(bs, b), has, g) /\ g[Len(Append(bs, b))] = e
<1> DEFINE n == Len(bs)
           cs == Append(bs, b)
           g == [i \in 0..(n + 1) |-> IF i = n + 1 THEN e ELSE h[i]]
<1>1. /\ n \in Nat /\ Len(cs) = n + 1
      /\ \A i \in 1..(n + 1) : cs[i] = IF i = n + 1 THEN b ELSE bs[i]
  <2>1. n \in Nat
    BY LenProperties
  <2>2. Len(cs) = n + 1 /\ cs[n + 1] = b /\ \A i \in 1..n : cs[i] = bs[i]
    BY AppendProperties
  <2> HIDE DEF n, cs
  <2> QED
    BY <2>1, <2>2
<1>2. /\ h \in [0..n -> Have] /\ h[0] = has
      /\ \A i \in 1..n : Leads(bs[i], h[i - 1], h[i])
  BY DEF Path
<1> HIDE DEF cs
<1>3. g \in [0..(n + 1) -> Have]
  BY <1>1, <1>2
<1>4. g[0] = has /\ g[n + 1] = e /\ \A i \in 0..n : g[i] = h[i]
  BY <1>1, <1>2
<1> HIDE DEF g
<1>5. ASSUME NEW i \in 1..(n + 1)
      PROVE  Leads(cs[i], g[i - 1], g[i])
  <2>1. CASE i = n + 1
    <3>1. i - 1 = n /\ n \in 0..n
      BY <1>1, <2>1
    <3>2. g[i - 1] = h[n] /\ g[i] = e /\ cs[i] = b
      BY <1>1, <1>4, <2>1, <3>1
    <3> QED
      BY <3>2
  <2>2. CASE i # n + 1
    <3>1. i \in 1..n /\ i - 1 \in 0..n /\ i \in 0..n
      BY <1>1, <2>2
    <3>2. g[i - 1] = h[i - 1] /\ g[i] = h[i] /\ cs[i] = bs[i]
      BY <1>1, <1>4, <2>2, <3>1
    <3> QED
      BY <1>2, <3>1, <3>2
  <2> QED
    BY <2>1, <2>2
<1>6. Path(cs, has, g) /\ g[Len(cs)] = e
  BY <1>1, <1>3, <1>4, <1>5 DEF Path
<1> QED
  BY <1>6 DEF cs

(* The first one has arrived, and the decoder has e.                       *)
LEMMA PathTail ==
  ASSUME NEW bs \in Seq(Blocks \cup Resets), bs # <<>>,
         NEW has, NEW h, Path(bs, has, h), NEW e \in Have,
         Len(bs) > 1 => Leads(bs[2], e, h[2])
  PROVE  \E g : /\ Path(Tail(bs), e, g)
               /\ g[Len(Tail(bs))] = IF Len(bs) > 1 THEN h[Len(bs)] ELSE e
<1> DEFINE n == Len(bs) - 1
           cs == Tail(bs)
           g == [i \in 0..n |-> IF i = 0 THEN e ELSE h[i + 1]]
<1>1. n \in Nat /\ Len(bs) = n + 1
  BY LenProperties, EmptySeq
<1>2. Len(cs) = n /\ \A i \in 1..n : cs[i] = bs[i + 1]
  <2>1. Len(cs) = Len(bs) - 1 /\ \A i \in 1..Len(cs) : cs[i] = bs[i + 1]
    BY HeadTailProperties
  <2> HIDE DEF cs
  <2> QED
    BY <2>1
<1>3. /\ h \in [0..(n + 1) -> Have]
      /\ \A i \in 1..(n + 1) : Leads(bs[i], h[i - 1], h[i])
  BY <1>1 DEF Path
<1> HIDE DEF cs
<1>4. n > 0 => Leads(bs[2], e, h[2])
  BY <1>1
<1> HIDE DEF n
<1>5. g \in [0..n -> Have]
  BY <1>1, <1>3
<1>6. g[0] = e /\ \A i \in 1..n : g[i] = h[i + 1]
  BY <1>1
<1> HIDE DEF g
<1>7. ASSUME NEW i \in 1..n
      PROVE  Leads(cs[i], g[i - 1], g[i])
  <2>1. cs[i] = bs[i + 1] /\ g[i] = h[i + 1]
    BY <1>2, <1>6
  <2>2. CASE i = 1
    <3>1. n > 0 /\ i - 1 = 0 /\ i + 1 = 2
      BY <1>1, <2>2
    <3> QED
      BY <1>4, <1>6, <2>1, <3>1
  <2>3. CASE i # 1
    <3>1. i - 1 \in 1..n /\ (i - 1) + 1 = i /\ i + 1 \in 1..(n + 1) /\ (i + 1) - 1 = i
      BY <1>1, <2>3
    <3>2. g[i - 1] = h[(i + 1) - 1]
      BY <1>6, <3>1
    <3> QED
      BY <1>3, <2>1, <3>1, <3>2
  <2> QED
    BY <2>2, <2>3
<1>8. Path(cs, e, g)
  BY <1>2, <1>5, <1>6, <1>7 DEF Path
<1>9. g[Len(cs)] = IF Len(bs) > 1 THEN h[Len(bs)] ELSE e
  BY <1>1, <1>2, <1>6
<1> QED
  BY <1>8, <1>9 DEF cs

(* The decoder has something else, which makes no difference.              *)
LEMMA PathStart ==
  ASSUME NEW bs \in Seq(Blocks \cup Resets), bs # <<>>,
         NEW has, NEW h, Path(bs, has, h), NEW e \in Have, Leads(bs[1], e, h[1])
  PROVE  \E g : Path(bs, e, g) /\ g[Len(bs)] = h[Len(bs)]
<1> DEFINE n == Len(bs)
           g == [i \in 0..n |-> IF i = 0 THEN e ELSE h[i]]
<1>1. n \in Nat /\ n > 0
  BY LenProperties, EmptySeq
<1>2. /\ h \in [0..n -> Have]
      /\ \A i \in 1..n : Leads(bs[i], h[i - 1], h[i])
  BY DEF Path
<1> HIDE DEF n
<1>3. /\ g \in [0..n -> Have] /\ g[0] = e /\ \A i \in 1..n : g[i] = h[i]
  BY <1>1, <1>2
<1> HIDE DEF g
<1>4. ASSUME NEW i \in 1..n
      PROVE  Leads(bs[i], g[i - 1], g[i])
  <2>1. CASE i = 1
    BY <1>1, <1>3, <2>1
  <2>2. CASE i # 1
    <3>1. i - 1 \in 1..n
      BY <1>1, <2>2
    <3> QED
      BY <1>2, <1>3, <3>1
  <2> QED
    BY <2>1, <2>2
<1>5. Path(bs, e, g)
  BY <1>3, <1>4 DEF Path, n
<1>6. g[n] = h[n]
  BY <1>1, <1>3
<1> QED
  BY <1>5, <1>6 DEF n

LEMMA OrderedAppend ==
  ASSUME NEW bs \in Seq(Blocks \cup Resets), NEW r, NEW q, Ordered(bs, r),
         NEW b \in Blocks \cup Resets, Unsound(b) => q,
         r => b.kind = "reset" \/ Unsound(b)
  PROVE  Ordered(Append(bs, b), q)
<1> DEFINE n == Len(bs)
           cs == Append(bs, b)
<1>1. /\ n \in Nat /\ Len(cs) = n + 1 /\ cs[n + 1] = b
      /\ \A i \in 1..n : cs[i] = bs[i]
  <2>1. n \in Nat
    BY LenProperties
  <2>2. Len(cs) = n + 1 /\ cs[n + 1] = b /\ \A i \in 1..n : cs[i] = bs[i]
    BY AppendProperties
  <2> HIDE DEF n, cs
  <2> QED
    BY <2>1, <2>2
<1>2. \A i \in 1..n : Unsound(bs[i]) =>
        IF i = n THEN r ELSE bs[i + 1].kind = "reset" \/ Unsound(bs[i + 1])
  BY DEF Ordered
<1> HIDE DEF n, cs
<1>3. ASSUME NEW i \in 1..(n + 1), Unsound(cs[i])
      PROVE  IF i = n + 1 THEN q
             ELSE cs[i + 1].kind = "reset" \/ Unsound(cs[i + 1])
  <2>1. CASE i = n + 1
    BY <1>1, <1>3, <2>1
  <2>2. CASE i = n
    <3>1. i \in 1..n /\ i # n + 1 /\ cs[i] = bs[i] /\ cs[i + 1] = b
      BY <1>1, <2>2
    <3> QED
      BY <1>2, <1>3, <2>2, <3>1
  <2>3. CASE i # n /\ i # n + 1
    <3>1. i \in 1..n /\ i + 1 \in 1..n
      BY <1>1, <2>3
    <3> QED
      BY <1>1, <1>2, <1>3, <2>3, <3>1
  <2> QED
    BY <2>1, <2>2, <2>3
<1>4. Ordered(cs, q)
  BY <1>1, <1>3 DEF Ordered
<1> QED
  BY <1>4 DEF cs

LEMMA OrderedTail ==
  ASSUME NEW bs \in Seq(Blocks \cup Resets), bs # <<>>, NEW r, Ordered(bs, r)
  PROVE  Ordered(Tail(bs), r)
<1> DEFINE n == Len(bs) - 1
           cs == Tail(bs)
<1>1. n \in Nat /\ Len(bs) = n + 1
  BY LenProperties, EmptySeq
<1>2. Len(cs) = n /\ \A i \in 1..n : cs[i] = bs[i + 1]
  <2>1. Len(cs) = Len(bs) - 1 /\ \A i \in 1..Len(cs) : cs[i] = bs[i + 1]
    BY HeadTailProperties
  <2> HIDE DEF cs
  <2> QED
    BY <2>1
<1>3. \A i \in 1..(n + 1) : Unsound(bs[i]) =>
        IF i = n + 1 THEN r
        ELSE bs[i + 1].kind = "reset" \/ Unsound(bs[i + 1])
  BY <1>1 DEF Ordered
<1> HIDE DEF n, cs
<1>4. ASSUME NEW i \in 1..n, Unsound(cs[i])
      PROVE  IF i = n THEN r ELSE cs[i + 1].kind = "reset" \/ Unsound(cs[i + 1])
  <2>1. /\ i + 1 \in 1..(n + 1) /\ (i + 1 = n + 1 <=> i = n)
        /\ (i # n => i + 1 \in 1..n)
    BY <1>1
  <2>2. cs[i] = bs[i + 1] /\ (i # n => cs[i + 1] = bs[(i + 1) + 1])
    BY <1>2, <2>1
  <2> QED
    BY <1>3, <1>4, <2>1, <2>2
<1>5. Ordered(cs, r)
  BY <1>2, <1>4 DEF Ordered
<1> QED
  BY <1>5 DEF cs

-----------------------------------------------------------------------------
(* What both ends of a path have is typed.                                 *)
LEMMA PathEnd ==
  ASSUME NEW bs \in Seq(Blocks \cup Resets), NEW has, NEW h, Path(bs, has, h)
  PROVE  h[Len(bs)] \in Have
<1>1. Len(bs) \in 0..Len(bs) /\ h \in [0..Len(bs) -> Have]
  BY LenProperties DEF Path
<1> QED
  BY <1>1

LEMMA EncoderTyped ==
  ASSUME TypeOK
  PROVE  /\ ePredict \in Seq(Bytes) /\ stream \in Seq(Bytes)
         /\ prefix \in Seq(Bytes)
  BY DEF TypeOK

(* One more at the end does not change what is at the front.               *)
LEMMA FrontStays ==
  ASSUME blocks \in Seq(Blocks \cup Resets), Len(blocks) < MaxBlocks,
         NEW b \in Blocks \cup Resets, blocks' = Append(blocks, b)
  PROVE  /\ blocks' \in Seq(Blocks \cup Resets) /\ Len(blocks') <= MaxBlocks
         /\ blocks # <<>> => blocks' # <<>> /\ Head(blocks') = Head(blocks)
<1>1. Len(blocks) \in Nat /\ MaxBlocks \in Nat
  BY LenProperties, StreamAssumption
<1>2. /\ blocks' \in Seq(Blocks \cup Resets) /\ Len(blocks') = Len(blocks) + 1
      /\ \A i \in 1..Len(blocks) : blocks'[i] = blocks[i]
  BY AppendProperties
<1>3. ASSUME blocks # <<>>
      PROVE  blocks' # <<>> /\ Head(blocks') = Head(blocks)
  <2>1. Len(blocks) > 0 /\ 1 \in 1..Len(blocks) /\ Len(blocks') # 0
    BY <1>1, <1>2, <1>3, EmptySeq
  <2>2. Len(<<>>) = 0
    BY EmptySeq
  <2>3. blocks' # <<>>
    BY <2>1, <2>2
  <2>4. Head(blocks) = blocks[1] /\ Head(blocks') = blocks'[1]
    BY <1>2, <1>3, <2>3, HeadTailProperties
  <2> QED
    BY <1>2, <2>1, <2>3, <2>4
<1> QED
  BY <1>1, <1>2, <1>3

LEMMA LinkedInit == Init => Linked
<1> SUFFICES ASSUME Init PROVE Linked
  OBVIOUS
<1>1. DecoderTyped
  <2>1. DecP!Init
    BY DEF Init, Dec!Init, DecP!Init
  <2> QED
    BY <2>1, SameDecoder, DecP!InitInductive
<1>2. Len(<<>>) = 0 /\ <<>> \in Seq(Bytes) /\ <<>> \in Seq(Blocks \cup Resets)
  BY EmptySeq
<1>3. Typed
  <2>1. /\ ePredict = <<>> /\ stream = <<>> /\ prefix = <<>> /\ blocks = <<>>
        /\ eContext = FALSE /\ raised = FALSE /\ pc = "idle"
    BY DEF Init, Enc!Init, Dec!Init
  <2>2. 0 <= W /\ 0 <= MaxBlocks
    BY StreamAssumption
  <2>3. TypeOK
    BY <1>2, <2>1, <2>2 DEF TypeOK
  <2> QED
    BY <1>1, <1>2, <2>1, <2>3 DEF Typed
<1>4. BlocksDecode /\ ~eContext /\ blocks = <<>>
  BY DEF Init, Enc!Init, Dec!Init, BlocksDecode
<1>5. Ordered(blocks, raised)
  BY <1>2, <1>4 DEF Ordered
<1>6. Path(blocks, Has, [i \in {0} |-> Has])
  <2>1. 0..0 = {0} /\ 1..0 = {}
    OBVIOUS
  <2> QED
    BY <1>1, <1>2, <1>4, <2>1, HasTyped DEF Path
<1>7. \A e : CodesFor(e)
  BY <1>4 DEF CodesFor
<1> QED
  BY <1>3, <1>4, <1>5, <1>6, <1>7 DEF Linked

LEMMA SendLinks ==
  ASSUME Linked, NEW src \in Inputs, Send(src)
  PROVE  Linked'
<1> DEFINE b == [kind |-> "block", data |-> src, refers |-> stream,
                 sound |-> ~raised]
<1>1. /\ TypeOK /\ DecoderTyped /\ blocks \in Seq(Blocks \cup Resets)
      /\ (pc # "idle" => Arrives("block")) /\ BlocksDecode
      /\ Ordered(blocks, raised)
  BY DEF Linked, Typed
<1>2. /\ eContext /\ Len(blocks) < MaxBlocks /\ blocks' = Append(blocks, b)
      /\ stream' \in Enc!Saved(stream \o src) /\ prefix' = stream'
      /\ UNCHANGED <<eContext, ePredict, decoder, raised>>
  BY DEF Send, Room, Enc!blkenc_update
<1>3. /\ src \in Seq(Bytes) /\ stream \in Seq(Bytes) /\ stream \o src \in Seq(Bytes)
      /\ raised \in BOOLEAN
  BY <1>1, StringsOfBytes, EncoderTyped, ConcatProperties DEF TypeOK
<1>4. b \in Blocks /\ b.kind = "block" /\ b.data = src /\ b.refers = stream
      /\ (b.sound <=> ~raised)
  BY <1>3 DEF Blocks
<1> HIDE DEF b
<1>5. /\ blocks' \in Seq(Blocks \cup Resets) /\ Len(blocks') <= MaxBlocks
      /\ blocks # <<>> => blocks' # <<>> /\ Head(blocks') = Head(blocks)
  BY <1>1, <1>2, <1>4, FrontStays
<1>6. DecoderTyped' /\ Has' = Has /\ pc' = pc /\ dest' = dest
  <2>1. DecoderTyped'
    BY <1>1, <1>2, DecoderSteps
  <2>2. UNCHANGED <<dPredict, dictsize, dictbuf, pc, dest>>
    BY <1>2 DEF decoder
  <2> QED
    BY <2>1, <2>2 DEF Has, Dec!Window
<1>7. Typed'
  <2>1. TypeOK'
    <3>1. stream' \in Seq(Bytes) /\ Len(stream') <= W
      BY <1>2, <1>3, SavedIs
    <3> QED
      BY <1>1, <1>2, <1>5, <3>1 DEF TypeOK
  <2> QED
    BY <1>1, <1>5, <1>6, <2>1 DEF Typed, Arrives
<1>8. BlocksDecode'
  BY <1>1, <1>5, <1>6 DEF BlocksDecode, Arrives
<1>9. Ordered(blocks', raised')
  <2>1. Unsound(b) <=> raised
    BY <1>3, <1>4 DEF Unsound
  <2> QED
    BY <1>1, <1>2, <1>4, <2>1, OrderedAppend
<1>10. PICK k : Path(blocks, Has, k) /\ CodesFor(k[Len(blocks)])
  BY DEF Linked
<1>11. PICK f \in Have : f = k[Len(blocks)]
  BY <1>1, <1>10, PathEnd
<1>12. CodesFor(f)
  BY <1>10, <1>11
<1> DEFINE e == [window |-> Enc!Reach(f.window \o src), predict |-> f.predict]
<1>13. f.window \in Seq(Bytes) /\ f.predict \in Inputs
  BY DEF Have
<1>14. f.window \o src \in Seq(Bytes)
  BY <1>3, <1>13, ConcatProperties
<1>15. e \in Have
  BY <1>13, <1>14, ReachIs DEF Have
<1>16. Leads(b, f, e)
  BY <1>2, <1>3, <1>4, <1>12 DEF Leads, CodesFor
<1>17. CodesFor(e)'
  <2>1. ASSUME ~raised
        PROVE  EndsWith(Enc!Reach(f.window \o src), stream')
    <3>1. EndsWith(f.window \o src, stream \o src)
      BY <1>2, <1>3, <1>12, <1>13, <2>1, EndsWithBoth DEF CodesFor
    <3> QED
      BY <1>2, <1>3, <1>14, <3>1, SavedInReach
  <2>2. EndsWith(Enc!Reach(e.predict), ePredict)
    BY <1>2, <1>12 DEF CodesFor
  <2> QED
    BY <1>2, <2>1, <2>2 DEF CodesFor
<1> HIDE DEF e
<1>18. \E g : Path(Append(blocks, b), Has, g) /\ g[Len(Append(blocks, b))] = e
  BY <1>1, <1>4, <1>10, <1>11, <1>15, <1>16, PathAppend
<1>19. (\E h : Path(blocks, Has, h) /\ CodesFor(h[Len(blocks)]))'
  BY <1>2, <1>6, <1>17, <1>18 DEF CodesFor
<1>20. (eContext /\ ~raised => prefix = stream)'
  BY <1>2
<1> QED
  BY <1>7, <1>8, <1>9, <1>19, <1>20 DEF Linked

(* An encoder that raises or loses its context promises nothing.           *)
LEMMA EncoderStops ==
  ASSUME Linked, UNCHANGED <<decoder, blocks>>, TypeOK', raised => raised',
         ~(eContext' /\ ~raised'),
         eContext' => eContext /\ ePredict' = ePredict
  PROVE  Linked'
<1>1. /\ DecoderTyped /\ blocks \in Seq(Blocks \cup Resets)
      /\ (pc # "idle" => Arrives("block")) /\ BlocksDecode
      /\ Ordered(blocks, raised)
  BY DEF Linked, Typed
<1>2. DecoderTyped' /\ Has' = Has /\ pc' = pc /\ dest' = dest /\ blocks' = blocks
  <2>1. DecoderTyped'
    BY <1>1, DecoderSteps
  <2>2. UNCHANGED <<dPredict, dictsize, dictbuf, pc, dest>>
    BY DEF decoder
  <2> QED
    BY <2>1, <2>2 DEF Has, Dec!Window
<1>3. Typed' /\ BlocksDecode'
  BY <1>1, <1>2 DEF Typed, Arrives, BlocksDecode
<1>4. Ordered(blocks', raised')
  BY <1>1, <1>2 DEF Ordered
<1>5. PICK h : Path(blocks, Has, h) /\ CodesFor(h[Len(blocks)])
  BY DEF Linked
<1>6. PICK e : e = h[Len(blocks)]
  OBVIOUS
<1>7. CodesFor(e)'
  BY <1>5, <1>6 DEF CodesFor
<1>8. (\E g : Path(blocks, Has, g) /\ CodesFor(g[Len(blocks)]))'
  BY <1>2, <1>5, <1>6, <1>7 DEF CodesFor
<1> QED
  BY <1>3, <1>4, <1>8 DEF Linked

LEMMA SendRaisesLinks ==
  ASSUME Linked, NEW src \in Inputs, SendRaises(src)
  PROVE  Linked'
<1>1. /\ TypeOK /\ raised' = TRUE
      /\ UNCHANGED <<eContext, ePredict, prefix, decoder, blocks>>
      /\ stream' \in Enc!Saved(stream \o src) \cup {stream}
  BY DEF Linked, Typed, SendRaises, Enc!UpdateRaises
<1>2. stream' \in Seq(Bytes) /\ Len(stream') <= W
  <2>1. CASE stream' \in Enc!Saved(stream \o src)
    <3>1. stream \o src \in Seq(Bytes)
      BY <1>1, EncoderTyped, StringsOfBytes, ConcatProperties
    <3> QED
      BY <2>1, <3>1, SavedIs
  <2>2. CASE stream' = stream
    BY <1>1, <2>2 DEF TypeOK
  <2> QED
    BY <1>1, <2>1, <2>2
<1>3. TypeOK'
  BY <1>1, <1>2 DEF TypeOK
<1>4. eContext' => eContext
  BY <1>1
<1> QED
  BY <1>1, <1>3, <1>4, EncoderStops

LEMMA ReleaseLinks ==
  ASSUME Linked, ReleaseEncoder
  PROVE  Linked'
<1>1. /\ TypeOK /\ ~eContext' /\ eContext' \in BOOLEAN
      /\ UNCHANGED <<ePredict, decoder, blocks, raised>>
      /\ stream' = <<>> /\ prefix' = <<>>
  BY DEF Linked, Typed, ReleaseEncoder, Enc!blkenc_release
<1>2. TypeOK'
  <2>1. <<>> \in Seq(Bytes) /\ Len(<<>>) = 0 /\ 0 <= W
    BY EmptySeq, StreamAssumption
  <2> QED
    BY <1>1, <2>1 DEF TypeOK
<1> QED
  BY <1>1, <1>2, EncoderStops

(* The preset of an encoder that is made or reset: what a match reaches of *)
(* the dictionary given, or the one from before.                           *)
Preset(arg) == IF arg.given = "none" /\ eContext THEN ePredict
                                                 ELSE Enc!make_predict(arg.predict)

LEMMA PresetTyped ==
  ASSUME TypeOK, NEW arg \in Arguments
  PROVE  /\ Preset(arg) \in Seq(Bytes) /\ Len(Preset(arg)) <= W
         /\ arg.predict \in Inputs /\ arg.given \in {"none", "nil", "string"}
         /\ arg.given # "string" => arg.predict = <<>>
<1>1. /\ arg.predict \in Inputs /\ arg.given \in {"none", "nil", "string"}
      /\ arg.given # "string" => arg.predict = <<>>
  BY StreamAssumption DEF Arguments
<1>2. arg.predict \in Seq(Bytes) /\ Len(arg.predict) \in Nat /\ W \in Nat
  BY <1>1, StringsOfBytes, StreamAssumption
<1>3. /\ Enc!make_predict(arg.predict) \in Seq(Bytes)
      /\ Len(Enc!make_predict(arg.predict)) <= W
  BY <1>2, ReachIs DEF Enc!make_predict
<1> QED
  BY <1>1, <1>3 DEF Preset, TypeOK

LEMMA RestartFails ==
  ASSUME Linked, NEW arg \in Arguments, Enc!SetupFails(Preset(arg)),
         UNCHANGED <<blocks, raised, decoder>>
  PROVE  Linked'
<1>1. /\ TypeOK /\ ~eContext' /\ eContext' \in BOOLEAN
      /\ ePredict' = ePredict \/ ePredict' = Preset(arg)
      /\ stream' = <<>> /\ prefix' = prefix
  BY DEF Linked, Typed, Enc!SetupFails
<1>2. Preset(arg) \in Seq(Bytes) /\ Len(Preset(arg)) <= W
  BY <1>1, PresetTyped
<1>3. TypeOK'
  <2>1. <<>> \in Seq(Bytes) /\ Len(<<>>) = 0 /\ 0 <= W
    BY EmptySeq, StreamAssumption
  <2> QED
    BY <1>1, <1>2, <2>1 DEF TypeOK
<1> QED
  BY <1>1, <1>3, EncoderStops

(* An encoder starts with no more than the decoder is going to have.       *)
LEMMA PresetShared ==
  ASSUME TypeOK, NEW arg \in Arguments, NEW f \in Have, CodesFor(f)
  PROVE  /\ DecoderPredict(arg, f.predict) \in Inputs
         /\ EndsWith(Enc!Reach(DecoderPredict(arg, f.predict)), Preset(arg))
<1> DEFINE d == DecoderPredict(arg, f.predict)
<1>1. /\ arg.predict \in Inputs /\ arg.given \in {"none", "nil", "string"}
      /\ arg.given # "string" => arg.predict = <<>>
      /\ f.predict \in Inputs
  BY PresetTyped DEF Have
<1>2. d \in Inputs
  BY <1>1 DEF DecoderPredict
<1>3. Enc!Reach(d) \in Seq(Bytes) /\ Len(Enc!Reach(d)) \in Nat
  BY <1>2, StringsOfBytes, ReachIs, LenProperties
<1>4. CASE arg.given = "none" /\ eContext
  <2>1. d = f.predict /\ Preset(arg) = ePredict
    BY <1>4 DEF DecoderPredict, Preset
  <2> QED
    BY <1>2, <1>4, <2>1 DEF CodesFor
<1>5. CASE ~(arg.given = "none" /\ eContext)
  <2>1. Preset(arg) = Enc!Reach(arg.predict)
    BY <1>5 DEF Preset, Enc!make_predict
  <2>2. CASE arg.given = "string"
    <3>1. Preset(arg) = Enc!Reach(d)
      BY <2>1, <2>2 DEF DecoderPredict
    <3> QED
      BY <1>2, <1>3, <3>1 DEF EndsWith
  <2>3. CASE arg.given # "string"
    <3>1. Len(<<>>) = 0 /\ ~(0 > W)
      BY EmptySeq, StreamAssumption
    <3>2. Preset(arg) = <<>>
      BY <1>1, <2>1, <2>3, <3>1 DEF Enc!Reach
    <3>3. Len(Preset(arg)) = 0
      BY <3>1, <3>2
    <3> QED
      BY <1>2, <1>3, <3>3 DEF EndsWith
  <2> QED
    BY <2>2, <2>3
<1> QED
  BY <1>4, <1>5

LEMMA RestartLinks ==
  ASSUME Linked, NEW arg \in Arguments, Restart(arg)
  PROVE  Linked'
<1> DEFINE d == Preset(arg)
           b == [kind |-> "reset", arg |-> arg]
<1>1. /\ TypeOK /\ DecoderTyped /\ blocks \in Seq(Blocks \cup Resets)
      /\ (pc # "idle" => Arrives("block")) /\ BlocksDecode
      /\ Ordered(blocks, raised)
  BY DEF Linked, Typed
<1>2. CASE Enc!SetupFails(d) /\ UNCHANGED <<blocks, raised>>
  BY <1>2, RestartFails DEF Restart
<1>3. CASE ~(Enc!SetupFails(d) /\ UNCHANGED <<blocks, raised>>)
  <2>1. /\ Len(blocks) < MaxBlocks /\ eContext' /\ eContext' \in BOOLEAN
        /\ ePredict' = d
        /\ stream' \in Enc!Saved(d) /\ prefix' = stream'
        /\ blocks' = Append(blocks, b) /\ raised' = FALSE
        /\ UNCHANGED decoder
    BY <1>3 DEF Restart, Room, Preset, Enc!blkenc_init, Enc!blkenc_reset,
       Enc!blkenc_setup
  <2>2. b \in Resets /\ b.kind = "reset" /\ b.arg = arg
    BY DEF Resets
  <2> HIDE DEF b
  <2>3. d \in Seq(Bytes) /\ Len(d) <= W
    BY <1>1, PresetTyped
  <2>4. PICK h : Path(blocks, Has, h) /\ CodesFor(h[Len(blocks)])
    BY DEF Linked
  <2>5. PICK f \in Have : f = h[Len(blocks)]
    BY <1>1, <2>4, PathEnd
  <2> DEFINE n == DecoderPredict(arg, f.predict)
             e == [window |-> Enc!Reach(n), predict |-> n]
  <2>6. n \in Inputs /\ EndsWith(Enc!Reach(n), d)
    BY <1>1, <2>4, <2>5, PresetShared
  <2> HIDE DEF n
  <2>7. Enc!Reach(n) \in Seq(Bytes) /\ e \in Have
    BY <2>6, StringsOfBytes, ReachIs DEF Have
  <2>8. /\ blocks' \in Seq(Blocks \cup Resets) /\ Len(blocks') <= MaxBlocks
        /\ blocks # <<>> => blocks' # <<>> /\ Head(blocks') = Head(blocks)
    BY <1>1, <2>1, <2>2, FrontStays
  <2>9. DecoderTyped' /\ Has' = Has /\ pc' = pc /\ dest' = dest
    <3>1. DecoderTyped'
      BY <1>1, <2>1, DecoderSteps
    <3>2. UNCHANGED <<dPredict, dictsize, dictbuf, pc, dest>>
      BY <2>1 DEF decoder
    <3> QED
      BY <3>1, <3>2 DEF Has, Dec!Window
  <2>10. stream' \in Seq(Bytes) /\ Len(stream') <= W /\ EndsWith(d, stream')
    <3> HIDE DEF d
    <3> QED
      BY <2>1, <2>3, SavedIs
  <2>11. Typed'
    <3>1. TypeOK'
      <4> HIDE DEF d
      <4> QED
        BY <1>1, <2>1, <2>3, <2>8, <2>10 DEF TypeOK
    <3> QED
      BY <1>1, <2>8, <2>9, <3>1 DEF Typed, Arrives
  <2>12. BlocksDecode'
    BY <1>1, <2>8, <2>9 DEF BlocksDecode, Arrives
  <2>13. Ordered(blocks', raised')
    <3>1. ~Unsound(b)
      BY <2>2 DEF Unsound
    <3> QED
      BY <1>1, <2>1, <2>2, <3>1, OrderedAppend
  <2>14. CodesFor(e)'
    <3>1. EndsWith(Enc!Reach(n), stream')
      <4> HIDE DEF d
      <4> QED
        BY <2>3, <2>6, <2>7, <2>10, EndsWithTrans
    <3>2. EndsWith(Enc!Reach(n), ePredict')
      BY <2>1, <2>6
    <3> QED
      BY <3>1, <3>2 DEF CodesFor
  <2>15. Leads(b, f, e)
    BY <2>2 DEF Leads, n
  <2> HIDE DEF e
  <2>16. \E g : Path(Append(blocks, b), Has, g) /\ g[Len(Append(blocks, b))] = e
    BY <1>1, <2>2, <2>4, <2>5, <2>7, <2>15, PathAppend
  <2>17. (\E g : Path(blocks, Has, g) /\ CodesFor(g[Len(blocks)]))'
    BY <2>1, <2>9, <2>14, <2>16 DEF CodesFor
  <2> QED
    BY <2>1, <2>11, <2>12, <2>13, <2>17 DEF Linked
<1> QED
  BY <1>2, <1>3
-----------------------------------------------------------------------------
(* The decoder's side.  Between taking a block and copying what it decoded *)
(* to, the dictionary stays.                                               *)
LEMMA DecoderWaits ==
  ASSUME Linked, UNCHANGED <<encoder, blocks, raised>>,
         UNCHANGED <<dPredict, dictsize, dictbuf>>, DecoderTyped',
         pc' # "idle" => Arrives("block"), BlocksDecode'
  PROVE  Linked'
<1>1. /\ TypeOK /\ blocks \in Seq(Blocks \cup Resets) /\ Ordered(blocks, raised)
      /\ UNCHANGED <<eContext, ePredict, stream, prefix, blocks, raised>>
  BY DEF Linked, Typed, encoder
<1>2. Has' = Has
  BY DEF Has, Dec!Window
<1>3. Typed'
  BY <1>1 DEF Typed, TypeOK, Arrives
<1>4. (\E h : Path(blocks, Has, h) /\ CodesFor(h[Len(blocks)]))'
  BY <1>1, <1>2 DEF CodesFor, Linked
<1> QED
  BY <1>1, <1>3, <1>4 DEF Linked

LEMMA ReceiveLinks ==
  ASSUME Linked, Receive \/ ReceiveRaises
  PROVE  Linked'
<1>1. /\ DecoderTyped /\ (pc # "idle" => Arrives("block"))
      /\ UNCHANGED <<encoder, blocks, raised>>
      /\ UNCHANGED <<dPredict, dictsize, dictbuf>>
      /\ pc' # "copy" /\ (pc' # "idle" => Arrives("block"))
  BY DEF Linked, Typed, Receive, ReceiveRaises, Dec!blkdec_update,
     Dec!UpdateRaises, Dec!dict
<1>2. DecoderTyped'
  BY <1>1, DecoderSteps DEF Receive, ReceiveRaises
<1>3. BlocksDecode'
  BY <1>1 DEF BlocksDecode
<1> QED
  BY <1>1, <1>2, <1>3, DecoderWaits

(* The first on its way, and what it leads to.                             *)
LEMMA FirstOf ==
  ASSUME NEW bs \in Seq(Blocks \cup Resets), bs # <<>>,
         NEW has, NEW h, Path(bs, has, h)
  PROVE  /\ Head(bs) = bs[1] /\ Head(bs) \in Blocks \cup Resets
         /\ 1 \in 1..Len(bs) /\ Len(bs) \in Nat
         /\ Leads(Head(bs), has, h[1]) /\ h[1] \in Have
<1>1. Len(bs) \in Nat /\ 1 \in 1..Len(bs)
  BY LenProperties, EmptySeq
<1>2. Head(bs) = bs[1] /\ Head(bs) \in Blocks \cup Resets
  BY <1>1, HeadTailProperties, ElementOfSeq
<1>3. h[1 - 1] = has /\ Leads(bs[1], h[1 - 1], h[1]) /\ h[1] \in Have
  BY <1>1 DEF Path
<1> QED
  BY <1>1, <1>2, <1>3

LEMMA DecompressLinks ==
  ASSUME Linked, Decompress
  PROVE  Linked'
<1>1. /\ DecoderTyped /\ Arrives("block") /\ blocks \in Seq(Blocks \cup Resets)
      /\ UNCHANGED <<encoder, blocks, raised>>
      /\ UNCHANGED <<dPredict, dictsize, dictbuf>>
      /\ IsSuffix(Head(blocks).refers, Dec!Window) => dest' = Head(blocks).data
  BY DEF Linked, Typed, Decompress, Dec!decompress_safe_continue, Dec!dict
<1>2. DecoderTyped'
  BY <1>1, DecoderSteps DEF Decompress
<1>3. PICK h : Path(blocks, Has, h)
  BY DEF Linked
<1>4. Leads(Head(blocks), Has, h[1]) /\ Head(blocks) \in Blocks \cup Resets
  BY <1>1, <1>3, FirstOf DEF Arrives
<1>5. ASSUME Head(blocks).sound
      PROVE  dest' = Head(blocks).data
  <2>1. Head(blocks).kind = "block" /\ Head(blocks).refers \in Seq(Bytes)
    BY <1>1, <1>4, ItemTyped DEF Arrives
  <2>2. EndsWith(Dec!Window, Head(blocks).refers)
    BY <1>4, <1>5, <2>1 DEF Leads, Has
  <2>3. Dec!Window \in Seq(Bytes)
    BY <1>1, WindowBytes
  <2>4. IsSuffix(Head(blocks).refers, Dec!Window)
    BY <2>1, <2>2, <2>3, SuffixIs
  <2> QED
    BY <1>1, <2>4
<1>6. BlocksDecode'
  BY <1>1, <1>5 DEF BlocksDecode
<1> QED
  BY <1>1, <1>2, <1>6, DecoderWaits

LEMMA TailStays ==
  ASSUME TypeOK, blocks \in Seq(Blocks \cup Resets), blocks # <<>>,
         UNCHANGED <<encoder, raised>>, blocks' = Tail(blocks)
  PROVE  TypeOK' /\ blocks' \in Seq(Blocks \cup Resets)
<1>1. Len(blocks) \in Nat /\ MaxBlocks \in Nat
  BY LenProperties, StreamAssumption
<1>2. blocks' \in Seq(Blocks \cup Resets) /\ Len(blocks') = Len(blocks) - 1
  BY HeadTailProperties
<1>3. Len(blocks') <= MaxBlocks
  BY <1>1, <1>2 DEF TypeOK
<1> QED
  BY <1>2, <1>3 DEF TypeOK, encoder

LEMMA ResetLinks ==
  ASSUME Linked, ResetDecoder
  PROVE  Linked'
<1> DEFINE p == DecoderPredict(Head(blocks).arg, dPredict)
<1>1. /\ TypeOK /\ DecoderTyped /\ blocks \in Seq(Blocks \cup Resets)
      /\ Ordered(blocks, raised) /\ Arrives("reset") /\ blocks # <<>>
      /\ (eContext /\ ~raised => prefix = stream)
      /\ UNCHANGED <<encoder, raised>>
      /\ UNCHANGED <<eContext, ePredict, stream, prefix, raised>>
  BY DEF Linked, Typed, ResetDecoder, encoder, Arrives
<1>2. PICK h : Path(blocks, Has, h) /\ CodesFor(h[Len(blocks)])
  BY DEF Linked
<1>3. /\ Head(blocks) = blocks[1] /\ Head(blocks) \in Blocks \cup Resets
      /\ Leads(Head(blocks), Has, h[1]) /\ h[1] \in Have
      /\ Len(blocks) \in Nat /\ 1 \in 1..Len(blocks)
  BY <1>1, <1>2, FirstOf
<1>4. Head(blocks).kind = "reset" /\ Head(blocks).arg \in Arguments
  BY <1>1, <1>3, ItemTyped DEF Arrives
<1>5. /\ p \in Inputs /\ p = DecoderPredict(Head(blocks).arg, p)
      /\ h[1].predict = p /\ h[1].window = Enc!Reach(p)
  <2>1. dPredict \in Inputs
    BY <1>1, WindowBytes
  <2>2. Head(blocks).arg.predict \in Inputs
    BY <1>1, <1>4, PresetTyped
  <2> QED
    BY <1>3, <1>4, <2>1, <2>2 DEF DecoderPredict, Leads, Has
<1>6. /\ pc = "idle" /\ pc' = "idle" /\ dPredict' = p
      /\ \/ Dec!blkdec_setup(p) /\ blocks' = Tail(blocks)
         \/ Dec!SetupFails(p) /\ UNCHANGED blocks
  BY DEF ResetDecoder, Dec!blkdec_setup, Dec!SetupFails
<1> HIDE DEF p
<1>7. DecoderTyped'
  BY <1>1, <1>5, <1>6, DecoderSteps
<1>8. BlocksDecode'
  BY <1>6 DEF BlocksDecode
<1>9. CASE Dec!blkdec_setup(p) /\ blocks' = Tail(blocks)
  <2>1. Dec!Window' = Enc!Reach(p)
    BY <1>1, <1>5, <1>9, LoadedWindow
  <2>2. Has' = h[1]
    BY <1>3, <1>5, <1>6, <2>1 DEF Has, Have
  <2>3. Len(blocks) > 1 => Leads(blocks[2], h[1], h[2])
    <3>1. Len(blocks) > 1 => 2 \in 1..Len(blocks) /\ 2 - 1 = 1
      BY <1>3
    <3> QED
      BY <1>2, <3>1 DEF Path
  <2>4. \E g : /\ Path(Tail(blocks), h[1], g)
              /\ g[Len(Tail(blocks))] = IF Len(blocks) > 1 THEN h[Len(blocks)]
                                                           ELSE h[1]
    BY <1>1, <1>2, <1>3, <2>3, PathTail
  <2>5. (IF Len(blocks) > 1 THEN h[Len(blocks)] ELSE h[1]) = h[Len(blocks)]
    BY <1>3
  <2>6. PICK e : e = h[Len(blocks)]
    OBVIOUS
  <2>7. CodesFor(e)'
    BY <1>1, <1>2, <2>6 DEF CodesFor
  <2>8. (\E g : Path(blocks, Has, g) /\ CodesFor(g[Len(blocks)]))'
    BY <1>9, <2>2, <2>4, <2>5, <2>6, <2>7 DEF CodesFor
  <2>9. Ordered(blocks', raised')
    BY <1>1, <1>9, OrderedTail
  <2>10. Typed'
    BY <1>1, <1>6, <1>7, <1>9, TailStays DEF Typed
  <2> QED
    BY <1>1, <1>8, <2>8, <2>9, <2>10 DEF Linked
<1>10. CASE Dec!SetupFails(p) /\ UNCHANGED blocks
  <2>1. PICK q : q = Has'
    OBVIOUS
  <2>2. q = [window |-> Dec!Window, predict |-> p]
    BY <1>6, <1>10, <2>1 DEF Has, Dec!SetupFails, Dec!dict, Dec!Window
  <2>3. q \in Have
    BY <1>1, <1>5, <2>2, WindowBytes DEF Have
  <2>4. Leads(blocks[1], q, h[1])
    BY <1>3, <1>4, <1>5, <2>2 DEF Leads
  <2>5. \E g : Path(blocks, q, g) /\ g[Len(blocks)] = h[Len(blocks)]
    BY <1>1, <1>2, <2>3, <2>4, PathStart
  <2>6. (\E g : Path(blocks, Has, g) /\ CodesFor(g[Len(blocks)]))'
    <3>1. PICK e : e = h[Len(blocks)]
      OBVIOUS
    <3>2. CodesFor(e)'
      BY <1>1, <1>2, <3>1 DEF CodesFor
    <3> QED
      BY <1>10, <2>1, <2>5, <3>1, <3>2 DEF CodesFor
  <2>7. Typed'
    BY <1>1, <1>6, <1>7, <1>10 DEF Typed, TypeOK
  <2> QED
    BY <1>1, <1>8, <1>10, <2>6, <2>7 DEF Linked
<1> QED
  BY <1>6, <1>9, <1>10

LEMMA ReceivedLinks ==
  ASSUME Linked, Received
  PROVE  Linked'
<1>1. /\ TypeOK /\ DecoderTyped /\ blocks \in Seq(Blocks \cup Resets)
      /\ Ordered(blocks, raised) /\ BlocksDecode
      /\ (eContext /\ ~raised => prefix = stream)
      /\ pc = "copy" /\ pc' = "idle" /\ dPredict' = dPredict
      /\ Dec!CopyPrefix /\ blocks' = Tail(blocks)
      /\ UNCHANGED <<encoder, raised>>
      /\ UNCHANGED <<eContext, ePredict, stream, prefix, raised>>
  BY DEF Linked, Typed, Received, encoder, Dec!CopyPrefix
<1>2. blocks # <<>> /\ Head(blocks).kind = "block"
  BY <1>1 DEF Linked, Typed, Arrives
<1>3. PICK h : Path(blocks, Has, h) /\ CodesFor(h[Len(blocks)])
  BY DEF Linked
<1>4. /\ Head(blocks) = blocks[1] /\ Head(blocks) \in Blocks \cup Resets
      /\ Leads(Head(blocks), Has, h[1]) /\ h[1] \in Have
      /\ Len(blocks) \in Nat /\ 1 \in 1..Len(blocks)
  BY <1>1, <1>2, <1>3, FirstOf
<1>5. Len(blocks) > 1 <=> Len(blocks) # 1
  <2> DEFINE n == Len(blocks)
  <2>1. n \in Nat /\ 1 \in 1..n
    BY <1>4
  <2> HIDE DEF n
  <2>2. n > 1 <=> n # 1
    BY <2>1
  <2> QED
    BY <2>2 DEF n
<1>6. DecoderTyped'
  BY <1>1, DecoderSteps
<1>7. Typed' /\ BlocksDecode' /\ Ordered(blocks', raised')
  BY <1>1, <1>2, <1>6, TailStays, OrderedTail DEF Typed, BlocksDecode
<1>8. Dec!Window' = Enc!Reach(Dec!Window \o dest)
  BY <1>1, SlidWindow
<1>9. PICK q : q = Has'
  OBVIOUS
<1>10. q \in Have /\ q.predict = dPredict /\ q.window = Dec!Window'
  <2>1. q = [window |-> Dec!Window', predict |-> dPredict]
    BY <1>1, <1>9 DEF Has
  <2>2. Dec!Window' \in Seq(Bytes) /\ dPredict \in Inputs
    <3>1. Dec!Window \in Seq(Bytes) /\ dPredict \in Inputs
      BY <1>1, WindowBytes
    <3>2. dest \in Seq(Bytes)
      BY <1>1, StringsOfBytes DEF DecoderTyped, Dec!TypeOK
    <3>3. Dec!Window \o dest \in Seq(Bytes)
      BY <3>1, <3>2, ConcatProperties
    <3> QED
      BY <1>8, <3>1, <3>3, ReachIs
  <2> QED
    BY <2>1, <2>2 DEF Have

(* What is vouched for decoded to what was coded, as expected.             *)
<1>11. ASSUME Head(blocks).sound
       PROVE  q = h[1]
  <2>1. dest = Head(blocks).data
    BY <1>1, <1>11 DEF BlocksDecode
  <2>2. /\ h[1].predict = dPredict
        /\ h[1].window = Enc!Reach(Dec!Window \o Head(blocks).data)
    BY <1>2, <1>4, <1>11 DEF Leads, Has
  <2>3. q.window = h[1].window /\ q.predict = h[1].predict
    BY <1>8, <1>10, <2>1, <2>2
  <2> QED
    BY <1>4, <1>10, <2>3 DEF Have

(* Otherwise nobody relies on the dictionary until the next reset.         *)
<1>12. q.predict = h[1].predict
  BY <1>2, <1>4, <1>10 DEF Leads, Has
<1>13. Len(blocks) > 1 => Leads(blocks[2], q, h[2])
  <2>1. SUFFICES ASSUME Len(blocks) > 1
                 PROVE  Leads(blocks[2], q, h[2])
    OBVIOUS
  <2>2. 2 \in 1..Len(blocks) /\ 2 - 1 = 1
    BY <1>4, <2>1
  <2>3. Leads(blocks[2], h[1], h[2])
    BY <1>3, <2>2 DEF Path
  <2>4. CASE Head(blocks).sound
    BY <1>11, <2>3, <2>4
  <2>5. CASE ~Head(blocks).sound
    <3>1. Unsound(blocks[1])
      BY <1>2, <1>4, <2>5 DEF Unsound
    <3>2. 1 # Len(blocks)
      BY <1>5, <2>1
    <3>3. blocks[2].kind = "reset" \/ Unsound(blocks[2])
      BY <1>1, <1>4, <3>1, <3>2, 1 + 1 = 2 DEF Ordered
    <3> QED
      BY <1>12, <2>3, <3>3 DEF Leads, Unsound
  <2> QED
    BY <2>4, <2>5
<1>14. PICK g : /\ Path(Tail(blocks), q, g)
                /\ g[Len(Tail(blocks))] = IF Len(blocks) > 1 THEN h[Len(blocks)]
                                                             ELSE q
  BY <1>1, <1>2, <1>3, <1>10, <1>13, PathTail
<1>15. PICK e : e = g[Len(Tail(blocks))]
  OBVIOUS
<1>16. CodesFor(e)
  <2>1. CASE Len(blocks) > 1
    BY <1>3, <1>14, <1>15, <2>1 DEF CodesFor
  <2>2. CASE ~(Len(blocks) > 1)
    <3>1. Len(blocks) = 1 /\ e = q
      <4>1. Len(blocks) = 1
        BY <1>5, <2>2
      <4> QED
        BY <1>14, <1>15, <2>2, <4>1
    <3>2. CodesFor(h[1])
      BY <1>3, <3>1
    <3>3. CASE Head(blocks).sound
      BY <1>11, <3>1, <3>2, <3>3
    <3>4. CASE ~Head(blocks).sound
      <4>1. Unsound(blocks[1])
        BY <1>2, <1>4, <3>4 DEF Unsound
      <4>2. raised
        BY <1>1, <1>4, <3>1, <4>1 DEF Ordered
      <4> QED
        BY <1>12, <3>1, <3>2, <4>2 DEF CodesFor
    <3> QED
      BY <3>3, <3>4
  <2> QED
    BY <2>1, <2>2
<1>17. CodesFor(e)'
  BY <1>1, <1>16 DEF CodesFor
<1>18. (\E f : Path(blocks, Has, f) /\ CodesFor(f[Len(blocks)]))'
  BY <1>1, <1>9, <1>14, <1>15, <1>17 DEF CodesFor
<1> QED
  BY <1>1, <1>7, <1>18 DEF Linked

LEMMA StepLinks == Linked /\ [Next]_vars => Linked'
<1> SUFFICES ASSUME Linked, [Next]_vars
             PROVE  Linked'
  OBVIOUS
<1>1. ASSUME NEW src \in Inputs, Send(src) \/ SendRaises(src)
      PROVE  Linked'
  BY <1>1, SendLinks, SendRaisesLinks
<1>2. ASSUME NEW arg \in Arguments, Restart(arg)
      PROVE  Linked'
  BY <1>2, RestartLinks
<1>3. CASE ReleaseEncoder
  BY <1>3, ReleaseLinks
<1>4. CASE ResetDecoder
  BY <1>4, ResetLinks
<1>5. CASE Receive \/ ReceiveRaises
  BY <1>5, ReceiveLinks
<1>6. CASE Decompress
  BY <1>6, DecompressLinks
<1>7. CASE Received
  BY <1>7, ReceivedLinks
<1>8. CASE UNCHANGED vars
  <2>1. /\ DecoderTyped /\ (pc # "idle" => Arrives("block")) /\ BlocksDecode
    BY DEF Linked, Typed
  <2>2. DecoderTyped' /\ BlocksDecode'
    BY <1>8, <2>1, DecoderSteps DEF vars, decoder, BlocksDecode
  <2> QED
    BY <1>8, <2>1, <2>2, DecoderWaits DEF vars, decoder
<1> QED
  BY <1>1, <1>2, <1>3, <1>4, <1>5, <1>6, <1>7, <1>8 DEF Next

LEMMA AlwaysLinked == Spec => []Linked
  BY LinkedInit, StepLinks, PTL DEF Spec

-----------------------------------------------------------------------------
(* The dictionaries of the encoder stay strings no longer than what a      *)
(* match reaches, and the decoder falls no further behind than allowed.    *)
THEOREM StreamTypes == Spec => []TypeOK
<1>1. Linked => TypeOK
  BY DEF Linked, Typed
<1> QED
  BY <1>1, AlwaysLinked, PTL

(* Every block blkenc_update returns decodes in blkdec_update to what was  *)
(* coded, whatever else update raised in the decoder, and however the two  *)
(* sides were reset.                                                       *)
THEOREM LinkedBlocksDecode == Spec => []BlocksDecode
<1>1. Linked => BlocksDecode
  BY DEF Linked
<1> QED
  BY <1>1, AlwaysLinked, PTL

(* savedict of the encoder is the end of the dictionary of a decoder that  *)
(* has caught up.                                                          *)
THEOREM SavedictTakesOver == Spec => []SavedictIsShared
<1>1. Linked => SavedictIsShared
  <2>1. SUFFICES ASSUME Linked, eContext, ~raised, blocks = <<>>
                 PROVE  IsSuffix(prefix, Dec!Window)
    BY DEF SavedictIsShared
  <2>2. TypeOK /\ DecoderTyped /\ prefix = stream
    BY <2>1 DEF Linked, Typed
  <2>3. PICK h : Path(blocks, Has, h) /\ CodesFor(h[Len(blocks)])
    BY <2>1 DEF Linked
  <2>4. Len(blocks) = 0 /\ h[0] = Has
    BY <2>1, <2>3, EmptySeq DEF Path
  <2>5. EndsWith(Dec!Window, prefix)
    BY <2>1, <2>2, <2>3, <2>4 DEF CodesFor, Has
  <2> QED
    BY <2>2, <2>5, EncoderTyped, WindowBytes, SuffixIs
<1> QED
  BY <1>1, AlwaysLinked, PTL
=============================================================================
