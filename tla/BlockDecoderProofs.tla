------------------------- MODULE BlockDecoderProofs -------------------------
(* BlockDecoder implements SlidingWindow, for every size of the dictionary *)
(* and every sequence of resets, updates, failures and releases.           *)
EXTENDS BlockDecoder, SequenceTheorems, TLAPS

(* The last n bytes of a string, byte by byte.                             *)
LEMMA LastBytes ==
  ASSUME NEW s \in Seq(Bytes), NEW n \in Nat
  PROVE  /\ Sliding!Last(s, n) \in Seq(Bytes)
         /\ Len(Sliding!Last(s, n)) = IF Len(s) > n THEN n ELSE Len(s)
         /\ \A i \in 1..Len(Sliding!Last(s, n)) :
              Sliding!Last(s, n)[i] = s[Len(s) - Len(Sliding!Last(s, n)) + i]
<1>1. Len(s) \in Nat
  BY LenProperties
<1>2. CASE Len(s) > n
  <2> DEFINE m == Len(s) - n + 1
             r == SubSeq(s, m, Len(s))
  <2>1. m \in 1..(Len(s) + 1) /\ m \in Int /\ Len(s) \in Int
    BY <1>1, <1>2
  <2>2. \A i \in m..Len(s) : s[i] \in Bytes
    BY <2>1, ElementOfSeq
  <2>3. /\ r \in Seq(Bytes)
        /\ Len(r) = IF m <= Len(s) THEN Len(s) - m + 1 ELSE 0
        /\ \A i \in 1..(Len(s) - m + 1) : r[i] = s[m + i - 1]
    <3> HIDE DEF m
    <3> QED
      BY <2>1, <2>2, SubSeqProperties
  <2>4. Len(r) = n /\ \A i \in 1..n : r[i] = s[Len(s) - n + i]
    BY <1>1, <1>2, <2>3
  <2> QED
    BY <1>1, <1>2, <2>3, <2>4 DEF Sliding!Last
<1>3. CASE ~(Len(s) > n)
  BY <1>1, <1>3 DEF Sliding!Last
<1> QED
  BY <1>2, <1>3

(* The string in dictbuf.                                                  *)
LEMMA WindowBytes ==
  ASSUME TypeOK
  PROVE  /\ Window \in Seq(Bytes) /\ Len(Window) = dictsize
         /\ \A i \in 1..dictsize : Window[i] = dictbuf[i - 1]
<1>1. dictsize \in Nat /\ \A i \in 1..dictsize : dictbuf[i - 1] \in Bytes
  BY DecoderAssumption DEF TypeOK
<1> QED
  BY <1>1 DEF Window

(* Two strings are the same when their bytes are; used for the new window. *)
LEMMA SameWindow ==
  ASSUME dictsize' \in 0..W, dictbuf' \in [0..(W - 1) -> Bytes], NEW t \in Seq(Bytes), Len(t) = dictsize',
         \A i \in 1..dictsize' : dictbuf'[i - 1] = t[i]
  PROVE  Window' = t
<1>1. /\ Window' \in Seq(Bytes) /\ Len(Window') = dictsize'
      /\ \A i \in 1..dictsize' : Window'[i] = dictbuf'[i - 1]
  <2>1. dictsize' \in Nat /\ \A i \in 1..dictsize' : dictbuf'[i - 1] \in Bytes
    BY DecoderAssumption
  <2> QED
    BY <2>1 DEF Window
<1> QED
  BY <1>1, SeqEqual

-----------------------------------------------------------------------------
(* memcpy keeps an array of bytes one, if what it copies is inside s.      *)
LEMMA CopyInType ==
  ASSUME NEW buf \in [0..(W - 1) -> Bytes], NEW s \in Seq(Bytes),
         NEW at \in Nat, NEW skip \in Nat, NEW n \in Nat, skip + n <= Len(s)
  PROVE  CopyIn(buf, at, s, skip, n) \in [0..(W - 1) -> Bytes]
<1>1. ASSUME NEW i \in 0..(W - 1), i \in at..(at + n - 1)
      PROVE  s[skip + i - at + 1] \in Bytes
  <2>1. skip + i - at + 1 \in 1..Len(s)
    BY <1>1, LenProperties
  <2> QED
    BY <2>1, ElementOfSeq
<1> QED
  BY <1>1 DEF CopyIn

LEMMA StringsOfBytes ==
  ASSUME NEW s \in Inputs
  PROVE  s \in Seq(Bytes) /\ Len(s) \in Nat
  BY DecoderAssumption, LenProperties

(* memcpy, cell by cell.                                                   *)
LEMMA CopyInCells ==
  ASSUME NEW buf, NEW s, NEW at, NEW skip, NEW n, NEW j \in 0..(W - 1)
  PROVE  CopyIn(buf, at, s, skip, n)[j] =
           IF j \in at..(at + n - 1) THEN s[skip + j - at + 1] ELSE buf[j]
  BY DEF CopyIn

-----------------------------------------------------------------------------
(* Presetting: dictbuf gets the last W bytes of the dictionary.            *)
LEMMA LoadDictEffect ==
  ASSUME TypeOK, NEW d \in Inputs, LoadDict(d)
  PROVE  /\ dictsize' \in 0..W /\ dictbuf' \in [0..(W - 1) -> Bytes]
         /\ Window' = Sliding!Last(d, W)
<1> DEFINE n == IF Len(d) > W THEN W ELSE Len(d)
           t == Sliding!Last(d, W)
<1>1. d \in Seq(Bytes) /\ Len(d) \in Nat /\ W \in Nat
  BY StringsOfBytes, DecoderAssumption
<1>2. n \in Nat /\ Len(d) - n \in Nat /\ n <= W
  BY <1>1
<1>3. dictsize' = n /\ dictbuf' = CopyIn(dictbuf, 0, d, Len(d) - n, n)
  BY DEF LoadDict
<1>4. /\ t \in Seq(Bytes) /\ Len(t) = n
      /\ \A i \in 1..n : t[i] = d[Len(d) - n + i]
  <2>1. /\ t \in Seq(Bytes) /\ Len(t) = n
        /\ \A i \in 1..Len(t) : t[i] = d[Len(d) - Len(t) + i]
    BY <1>1, LastBytes
  <2> HIDE DEF n, t
  <2> QED
    BY <2>1
<1> HIDE DEF n, t
<1>5. dictbuf' \in [0..(W - 1) -> Bytes]
  BY <1>1, <1>2, <1>3, CopyInType DEF TypeOK
<1>6. \A i \in 1..n : dictbuf'[i - 1] = t[i]
  <2> TAKE i \in 1..n
  <2>1. i - 1 \in 0..(W - 1) /\ i - 1 \in 0..(0 + n - 1)
    BY <1>1, <1>2
  <2>2. dictbuf'[i - 1] = d[Len(d) - n + (i - 1) - 0 + 1]
    BY <1>3, <2>1, CopyInCells
  <2> QED
    BY <1>1, <1>2, <1>4, <2>2
<1>7. dictsize' \in 0..W /\ Len(t) = dictsize'
  BY <1>1, <1>2, <1>3, <1>4
<1>8. Window' = t
  <2>1. \A i \in 1..dictsize' : dictbuf'[i - 1] = t[i]
    BY <1>3, <1>6
  <2> QED
    BY <1>4, <1>5, <1>7, <2>1, SameWindow
<1> QED
  BY <1>5, <1>7, <1>8 DEF t

-----------------------------------------------------------------------------
(* The window followed by the block, byte by byte.                         *)
LEMMA Joined ==
  ASSUME TypeOK, NEW all, all = Window \o dest
  PROVE  /\ all \in Seq(Bytes) /\ Len(all) = dictsize + Len(dest)
         /\ \A i \in 1..dictsize : all[i] = dictbuf[i - 1]
         /\ \A i \in (dictsize + 1)..(dictsize + Len(dest)) :
              all[i] = dest[i - dictsize]
<1>1. /\ dest \in Seq(Bytes) /\ Len(dest) \in Nat
      /\ Window \in Seq(Bytes) /\ Len(Window) = dictsize
      /\ \A i \in 1..dictsize : Window[i] = dictbuf[i - 1]
      /\ dictsize \in Nat
  BY StringsOfBytes, WindowBytes, DecoderAssumption DEF TypeOK
<1>2. /\ all \in Seq(Bytes) /\ Len(all) = Len(Window) + Len(dest)
      /\ \A i \in 1..(Len(Window) + Len(dest)) :
           all[i] = IF i <= Len(Window) THEN Window[i] ELSE dest[i - Len(Window)]
  <2>1. all = Window \o dest
    OBVIOUS
  <2> QED
    BY ONLY <1>1, <2>1, ConcatProperties
<1>3. \A i \in 1..dictsize : all[i] = dictbuf[i - 1]
  BY <1>1, <1>2
<1>4. \A i \in (dictsize + 1)..(dictsize + Len(dest)) : all[i] = dest[i - dictsize]
  BY <1>1, <1>2
<1>5. all \in Seq(Bytes) /\ Len(all) = dictsize + Len(dest)
  BY <1>1, <1>2
<1> QED
  BY ONLY <1>3, <1>4, <1>5

(* What is shown of both ways to slide: where each byte of the new window  *)
(* comes from.                                                             *)
LEMMA SlidEqual ==
  ASSUME TypeOK, dictbuf' \in [0..(W - 1) -> Bytes],
         NEW cut \in Nat, cut <= dictsize + Len(dest),
         dictsize' = dictsize + Len(dest) - cut,
         cut = IF dictsize + Len(dest) > W THEN dictsize + Len(dest) - W ELSE 0,
         \A i \in 1..dictsize' :
           dictbuf'[i - 1] = IF cut + i <= dictsize THEN dictbuf[cut + i - 1]
                                                   ELSE dest[cut + i - dictsize]
  PROVE  dictsize' \in 0..W /\ Window' = Sliding!Last(Window \o dest, W)
<1> DEFINE all == Window \o dest
           t == Sliding!Last(all, W)
<1>1. /\ dictsize \in Nat /\ Len(dest) \in Nat /\ W \in Nat
  BY StringsOfBytes, DecoderAssumption DEF TypeOK
<1>2. /\ all \in Seq(Bytes) /\ Len(all) = dictsize + Len(dest)
      /\ \A i \in 1..dictsize : all[i] = dictbuf[i - 1]
      /\ \A i \in (dictsize + 1)..(dictsize + Len(dest)) :
           all[i] = dest[i - dictsize]
  BY Joined
<1>3. dictsize' \in 0..W
  BY <1>1
<1> HIDE DEF all
<1>4. /\ t \in Seq(Bytes) /\ Len(t) = dictsize'
      /\ \A i \in 1..Len(t) : t[i] = all[Len(all) - Len(t) + i]
  <2>1. /\ t \in Seq(Bytes) /\ Len(t) = IF Len(all) > W THEN W ELSE Len(all)
        /\ \A i \in 1..Len(t) : t[i] = all[Len(all) - Len(t) + i]
    BY <1>1, <1>2, LastBytes
  <2> HIDE DEF t
  <2>2. Len(t) = dictsize'
    BY <1>1, <1>2, <2>1
  <2> QED
    BY <2>1, <2>2
<1> HIDE DEF t
<1>5. /\ Len(t) = dictsize' /\ Len(all) = dictsize + Len(dest) /\ cut \in Nat
      /\ dictsize' = dictsize + Len(dest) - cut
  BY <1>2, <1>4
<1>6. ASSUME NEW i \in 1..dictsize'
      PROVE  dictbuf'[i - 1] = t[i]
  <2>1. /\ i \in 1..Len(t) /\ Len(all) - Len(t) + i = cut + i
        /\ cut + i \in 1..(dictsize + Len(dest))
    BY ONLY <1>1, <1>3, <1>5, i \in 1..dictsize', DecoderAssumption
  <2>2. t[i] = all[cut + i]
    <3>1. t[i] = all[Len(all) - Len(t) + i]
      BY ONLY <1>4, <2>1
    <3> QED
      BY ONLY <2>1, <3>1
  <2>3. CASE cut + i <= dictsize
    <3>1. cut + i \in 1..dictsize
      BY ONLY <1>1, <2>1, <2>3
    <3>2. all[cut + i] = dictbuf[cut + i - 1]
      BY ONLY <1>2, <3>1
    <3>3. dictbuf'[i - 1] = dictbuf[cut + i - 1]
      BY <2>3
    <3> QED
      BY ONLY <2>2, <3>2, <3>3
  <2>4. CASE ~(cut + i <= dictsize)
    <3>1. cut + i \in (dictsize + 1)..(dictsize + Len(dest))
      BY ONLY <1>1, <2>1, <2>4
    <3>2. \A j \in (dictsize + 1)..(dictsize + Len(dest)) : all[j] = dest[j - dictsize]
      BY ONLY <1>2
    <3> DEFINE j == cut + i
    <3>3. j \in (dictsize + 1)..(dictsize + Len(dest))
      BY ONLY <3>1
    <3> HIDE DEF j
    <3>4. all[j] = dest[j - dictsize]
      BY ONLY <3>2, <3>3
    <3>5. t[i] = all[j]
      BY ONLY <2>2 DEF j
    <3>6. dictbuf'[i - 1] = dest[cut + i - dictsize]
      BY <2>4
    <3>7. j - dictsize = cut + i - dictsize
      BY ONLY <1>1, <1>3, i \in 1..dictsize', cut \in Nat DEF j
    <3> QED
      BY ONLY <3>4, <3>5, <3>6, <3>7
  <2> QED
    BY <2>3, <2>4
<1>7. Window' = t
  BY <1>3, <1>4, <1>6, SameWindow
<1> QED
  BY <1>3, <1>7 DEF t, all

LEMMA ShortSlides ==
  ASSUME TypeOK, Len(dest) < W, SlideShort
  PROVE  /\ dictsize' \in 0..W /\ dictbuf' \in [0..(W - 1) -> Bytes]
         /\ Window' = Sliding!Last(Window \o dest, W)
<1> DEFINE discard == dictsize + Len(dest) - W
           cut == IF discard > 0 THEN discard ELSE 0
           remain == IF discard > 0 THEN dictsize - discard ELSE dictsize
           moved == IF discard > 0
                      THEN [i \in 0..(W - 1) |->
                              IF i < remain THEN dictbuf[i + discard]
                                            ELSE dictbuf[i]]
                      ELSE dictbuf
<1>1. /\ dictsize \in 0..W /\ W \in Nat \ {0} /\ Len(dest) \in Nat
      /\ dest \in Seq(Bytes) /\ dictbuf \in [0..(W - 1) -> Bytes]
  BY StringsOfBytes, DecoderAssumption DEF TypeOK
<1>2. /\ remain = dictsize - cut /\ cut \in 0..dictsize /\ remain \in Nat
      /\ remain + Len(dest) <= W
  BY <1>1
<1>3. /\ dictbuf' = CopyIn(moved, remain, dest, 0, Len(dest))
      /\ dictsize' = remain + Len(dest)
  BY DEF SlideShort
<1>4. /\ moved \in [0..(W - 1) -> Bytes]
      /\ \A j \in 0..(W - 1) : j < remain => moved[j] = dictbuf[j + cut]
  <2>1. CASE discard > 0
    <3>1. \A j \in 0..(W - 1) : j < remain => j + discard \in 0..(W - 1)
      BY <1>1, <1>2, <2>1
    <3> QED
      BY <1>1, <2>1, <3>1
  <2>2. CASE ~(discard > 0)
    BY <1>1, <2>2
  <2> QED
    BY <2>1, <2>2
<1>5. cut = IF dictsize + Len(dest) > W THEN dictsize + Len(dest) - W ELSE 0
  BY <1>1
<1> HIDE DEF discard, cut, remain, moved
<1>6. dictbuf' \in [0..(W - 1) -> Bytes]
  <2>1. 0 + Len(dest) <= Len(dest) /\ 0 \in Nat
    BY <1>1
  <2> QED
    BY <1>1, <1>2, <1>3, <1>4, <2>1, CopyInType
<1>7. ASSUME NEW i \in 1..dictsize'
      PROVE  dictbuf'[i - 1] = IF cut + i <= dictsize THEN dictbuf[cut + i - 1]
                                                     ELSE dest[cut + i - dictsize]
  <2>1. i - 1 \in 0..(W - 1) /\ i \in Nat
    BY <1>1, <1>2, <1>3
  <2>2. dictbuf'[i - 1] = IF i - 1 \in remain..(remain + Len(dest) - 1)
                            THEN dest[0 + (i - 1) - remain + 1] ELSE moved[i - 1]
    BY <1>3, <2>1, CopyInCells
  <2>3. CASE cut + i <= dictsize
    <3>1. i - 1 < remain /\ (i - 1) + cut = cut + i - 1
      BY <1>1, <1>2, <2>1, <2>3
    <3>2. moved[i - 1] = dictbuf[cut + i - 1]
      BY <1>4, <2>1, <3>1
    <3> QED
      BY <1>1, <1>2, <2>1, <2>2, <2>3, <3>1, <3>2
  <2>4. CASE ~(cut + i <= dictsize)
    <3>1. /\ i - 1 \in remain..(remain + Len(dest) - 1)
          /\ 0 + (i - 1) - remain + 1 = cut + i - dictsize
      BY <1>1, <1>2, <1>3, <2>1, <2>4
    <3> QED
      BY <2>2, <2>4, <3>1
  <2> QED
    BY <2>3, <2>4
<1>8. /\ cut \in Nat /\ cut <= dictsize + Len(dest)
      /\ dictsize' = dictsize + Len(dest) - cut
  BY <1>1, <1>2, <1>3
<1> QED
  BY <1>5, <1>6, <1>7, <1>8, SlidEqual

LEMMA LongSlides ==
  ASSUME TypeOK, ~(Len(dest) < W), SlideLong
  PROVE  /\ dictsize' \in 0..W /\ dictbuf' \in [0..(W - 1) -> Bytes]
         /\ Window' = Sliding!Last(Window \o dest, W)
<1> DEFINE cut == dictsize + Len(dest) - W
           skip == Len(dest) - W
<1>1. /\ dictsize \in 0..W /\ W \in Nat \ {0} /\ Len(dest) \in Nat
      /\ dest \in Seq(Bytes) /\ dictbuf \in [0..(W - 1) -> Bytes]
  BY StringsOfBytes, DecoderAssumption DEF TypeOK
<1>2. /\ skip \in Nat /\ skip + W <= Len(dest) /\ cut = dictsize + skip
      /\ cut \in Nat /\ cut <= dictsize + Len(dest) /\ 0 \in Nat /\ W \in Nat
      /\ cut = IF dictsize + Len(dest) > W THEN dictsize + Len(dest) - W ELSE 0
  BY <1>1
<1>3. dictbuf' = CopyIn(dictbuf, 0, dest, skip, W) /\ dictsize' = W
  BY DEF SlideLong
<1>4. dictsize' = dictsize + Len(dest) - cut
  BY <1>1, <1>3
<1> HIDE DEF cut, skip
<1>5. dictbuf' \in [0..(W - 1) -> Bytes]
  BY <1>1, <1>2, <1>3, CopyInType
<1>6. ASSUME NEW i \in 1..dictsize'
      PROVE  dictbuf'[i - 1] = IF cut + i <= dictsize THEN dictbuf[cut + i - 1]
                                                     ELSE dest[cut + i - dictsize]
  <2>1. i - 1 \in 0..(W - 1) /\ i - 1 \in 0..(0 + W - 1) /\ i \in Nat
    BY <1>1, <1>3
  <2>2. dictbuf'[i - 1] = dest[skip + (i - 1) - 0 + 1]
    BY <1>3, <2>1, CopyInCells
  <2>3. ~(cut + i <= dictsize) /\ skip + (i - 1) - 0 + 1 = cut + i - dictsize
    BY <1>1, <1>2, <1>3, <2>1
  <2> QED
    BY <2>2, <2>3
<1> QED
  BY <1>2, <1>4, <1>5, <1>6, SlidEqual

-----------------------------------------------------------------------------
(* A block waits in dest only between decoding it and copying it.          *)
Inductive == TypeOK /\ (pc # "copy" => dest = <<>>)

LEMMA InitInductive == Init => Inductive
<1> SUFFICES ASSUME Init PROVE Inductive
  OBVIOUS
<1>1. /\ predict \in Inputs /\ dest \in Inputs /\ dictsize \in 0..W
  BY DecoderAssumption DEF Init
<1>2. dictbuf \in [0..(W - 1) -> Bytes]
  BY DecoderAssumption DEF Init
<1> QED
  BY <1>1, <1>2 DEF Init, TypeOK, Inductive

(* Every step keeps the invariant and is a step of the window or none.     *)
LEMMA StepSlides ==
  ASSUME Inductive, [Next]_vars
  PROVE  Inductive' /\ [Sliding!Next]_(Sliding!vars)
<1>0. TypeOK /\ (pc # "copy" => dest = <<>>)
  BY DEF Inductive
<1> USE <1>0 DEF Sliding!vars, Sliding!Next, dict, Inductive
<1>1. CASE blkdec_reset
  <2>1. PICK d \in Inputs : blkdec_setup(d) \/ SetupFails(d)
    BY <1>1 DEF blkdec_reset, TypeOK
  <2>2. CASE blkdec_setup(d)
    <3>1. /\ dictsize' \in 0..W /\ dictbuf' \in [0..(W - 1) -> Bytes]
          /\ Window' = Sliding!Last(d, W)
      BY <2>2, LoadDictEffect DEF blkdec_setup
    <3>2. Inductive'
      BY <2>2, <3>1 DEF blkdec_setup, TypeOK
    <3>3. Sliding!Restart
      BY <2>2, <3>1 DEF blkdec_setup, Sliding!Restart
    <3> QED
      BY <3>2, <3>3
  <2>3. CASE SetupFails(d)
    BY <2>3 DEF SetupFails, TypeOK, Sliding!Keep, Window
  <2> QED
    BY <2>1, <2>2, <2>3
<1>2. CASE blkdec_release
  BY <1>2, DecoderAssumption DEF blkdec_release, TypeOK, Sliding!Keep, Window
<1>3. CASE blkdec_update
  BY <1>3 DEF blkdec_update, TypeOK, Window
<1>4. CASE decompress_safe_continue
  BY <1>4 DEF decompress_safe_continue, TypeOK, Sliding!Code, Window
<1>5. CASE UpdateRaises
  BY <1>5 DEF UpdateRaises, TypeOK, Window
<1>6. CASE CopyPrefix
  <2>1. /\ dictsize' \in 0..W /\ dictbuf' \in [0..(W - 1) -> Bytes]
        /\ Window' = Sliding!Last(Window \o dest, W)
    BY <1>6, ShortSlides, LongSlides DEF CopyPrefix
  <2>2. Inductive'
    BY <1>6, <2>1, DecoderAssumption DEF CopyPrefix, TypeOK
  <2>3. Sliding!Slide
    BY <1>6, <2>1 DEF CopyPrefix, Sliding!Slide
  <2> QED
    BY <2>2, <2>3
<1>7. CASE UNCHANGED vars
  BY <1>7 DEF vars, TypeOK, Window
<1> QED
  BY <1>1, <1>2, <1>3, <1>4, <1>5, <1>6, <1>7 DEF Next

(* Every variable keeps its type; in particular dictsize never exceeds the *)
(* size of dictbuf and no copy writes outside it.                          *)
THEOREM TypeCorrect == Spec => []TypeOK
<1>1. Inductive /\ [Next]_vars => Inductive'
  BY StepSlides
<1>2. Inductive => TypeOK
  BY DEF Inductive
<1> QED
  BY <1>1, <1>2, InitInductive, PTL DEF Spec

(* dictbuf holds the last W bytes of what was preset and decoded: the      *)
(* decoder implements SlidingWindow.                                       *)
THEOREM Implements == Spec => WindowSlides
<1>1. Init => Sliding!Init
  BY DEF Init, Window, Sliding!Init
<1>2. /\ Inductive /\ [Next]_vars => Inductive'
      /\ Inductive /\ [Next]_vars => [Sliding!Next]_(Sliding!vars)
  BY StepSlides
<1> QED
  BY <1>1, <1>2, InitInductive, PTL DEF Spec, WindowSlides, Sliding!Spec
=============================================================================
