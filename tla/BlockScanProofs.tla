-------------------------- MODULE BlockScanProofs --------------------------
(* The scanner stays within the string, whatever its bytes are, and finds   *)
(* what the block format says.                                              *)
EXTENDS BlockScan, SequenceTheorems, WellFoundedInduction, TLAPS
-----------------------------------------------------------------------------
(* Bounds of the numbers that are made of bytes.                           *)
LEMMA ByteBounds ==
  ASSUME NEW b \in 0..255
  PROVE  b \in Nat /\ b < 256
  BY SMT

LEMMA Nibbles ==
  ASSUME NEW b \in Nat, b < 256
  PROVE  b \div 16 \in Nat /\ b % 16 \in Nat
  BY SMT

LEMMA WordBounds ==
  ASSUME NEW a \in Nat, NEW b \in Nat, a < 256, b < 256
  PROVE  a + 256 * b \in Nat /\ a + 256 * b < 65536
  BY SMT

LEMMA BeyondBounds ==
  ASSUME NEW o \in Nat, NEW n \in Nat, NEW m \in Nat, o < 65536, m < 65536
  PROVE  /\ (IF o - n > m THEN o - n ELSE m) \in Nat
         /\ (IF o - n > m THEN o - n ELSE m) < 65536
  BY SMT

-----------------------------------------------------------------------------

PCs == {"token", "expandliterals", "literals", "offset", "expandmatch", "match",
        "done", "raised"}

\* The string is one of those given, which TypeOK does not look at.
IInv == TypeOK /\ str \in Blocks /\ pc \in PCs

LEMMA ByteType ==
  ASSUME str \in Blocks
  PROVE  /\ Len(str) \in Nat /\ End = Len(str) + 1
         /\ \A i \in 1..Len(str) : str[i] \in Nat /\ str[i] < 256
<1>1. str \in Seq(0..255)
  BY BlocksAssumption
<1>2. Len(str) \in Nat
  BY <1>1, LenProperties
<1>3. \A i \in 1..Len(str) : str[i] \in 0..255
  BY <1>1, ElementOfSeq
<1>4. \A i \in 1..Len(str) : str[i] \in Nat /\ str[i] < 256
  BY <1>3, ByteBounds
<1> QED BY <1>2, <1>4 DEF End

LEMMA ReadType ==
  ASSUME IInv, p < End
  PROVE  str[p] \in Nat /\ str[p] < 256 /\ p + 1 <= End
<1>1. p \in 1..Len(str)
  BY ByteType DEF IInv, TypeOK
<1>2. str[p] \in Nat /\ str[p] < 256
  BY <1>1, ByteType DEF IInv
<1> QED BY <1>1, <1>2, ByteType DEF IInv

LEMMA Initially == Init => IInv
<1> SUFFICES ASSUME Init PROVE IInv
  OBVIOUS
<1>1. str \in Blocks
  BY DEF Init
<1>2. Len(str) \in Nat /\ End = Len(str) + 1
  BY <1>1, ByteType
<1> QED BY <1>1, <1>2 DEF Init, IInv, TypeOK, PCs

\* The invariant of the step after, in terms of what the step sets.
LEMMA Stays ==
  ASSUME str \in Blocks, str' = str,
         p' \in Nat \ {0}, s' \in Nat, size' \in Nat,
         token' \in Nat, token' < 256, linksize' \in Nat, linksize' < 65536, pc' \in PCs,
         pc' = "offset" => p' + 1 < End,
         pc' # "raised" => p' <= End \/ pc' = "literals"
  PROVE  IInv'
<1>1. str' \in Blocks
  OBVIOUS
<1>2. End' = End
  BY DEF End
<1>3. TypeOK'
  BY <1>2 DEF TypeOK
<1>4. PCs' = PCs
  BY DEF PCs
<1> QED BY <1>1, <1>3, <1>4 DEF IInv

LEMMA TokenStep == IInv /\ Token => IInv'
<1> SUFFICES ASSUME IInv, Token PROVE IInv'
  OBVIOUS
<1>1. str[p] \in Nat /\ str[p] < 256 /\ p + 1 <= End
  BY ReadType DEF Token
<1>2. str[p] \div 16 \in Nat
  BY <1>1, Nibbles
<1>3. /\ token' \in Nat /\ token' < 256 /\ s' \in Nat
      /\ str' = str /\ size' = size /\ linksize' = linksize
  BY <1>1, <1>2 DEF Token
<1>4. p' = p + 1 /\ pc' \in {"expandliterals", "literals"}
  BY DEF Token
<1>5. p' \in Nat \ {0} /\ p' <= End
  BY <1>1, <1>4 DEF IInv, TypeOK
<1>6. str \in Blocks /\ size' \in Nat /\ linksize' \in Nat /\ linksize' < 65536
  BY <1>3 DEF IInv, TypeOK
<1>7. pc' \in PCs /\ pc' # "offset"
  BY <1>4 DEF PCs
<1> QED BY <1>3, <1>5, <1>6, <1>7, Stays

LEMMA ExpandStep == IInv /\ (ExpandLiterals \/ ExpandMatch) => IInv'
<1> SUFFICES ASSUME IInv, ExpandLiterals \/ ExpandMatch PROVE IInv'
  OBVIOUS
<1>1. str[p] \in Nat /\ p + 1 <= End
  BY ReadType DEF ExpandLiterals, ExpandMatch, expandsize
<1>2. /\ str' = str /\ token' = token /\ size' = size /\ linksize' = linksize
      /\ p' = p + 1 /\ s' = s + str[p]
      /\ pc' \in {"expandliterals", "literals", "expandmatch", "match"}
  BY DEF ExpandLiterals, ExpandMatch, expandsize
<1>3. s' \in Nat
  <2>1. s \in Nat
    BY DEF IInv, TypeOK
  <2> QED BY <1>1, <1>2, <2>1
<1>4. p' \in Nat \ {0} /\ p' <= End
  BY <1>1, <1>2 DEF IInv, TypeOK
<1>5. /\ str \in Blocks /\ str' = str /\ size' \in Nat /\ token' \in Nat /\ token' < 256
      /\ linksize' \in Nat /\ linksize' < 65536
  BY <1>2 DEF IInv, TypeOK
<1>6. pc' \in PCs /\ pc' # "offset"
  BY <1>2 DEF PCs
<1> QED BY <1>3, <1>4, <1>5, <1>6, Stays

LEMMA LiteralsStep == IInv /\ Literals => IInv'
<1> SUFFICES ASSUME IInv, Literals PROVE IInv'
  OBVIOUS
<1>1. /\ str' = str /\ token' = token /\ s' = s /\ linksize' = linksize
      /\ p' = p + s /\ size' = size + s
  BY DEF Literals
<1>2. p \in Nat \ {0} /\ s \in Nat /\ size \in Nat /\ str \in Blocks
  BY DEF IInv, TypeOK
<1>3. p' \in Nat \ {0} /\ size' \in Nat
  BY <1>1, <1>2
<1>4. \/ pc' = "offset" /\ ~(p + s + 2 >= End)
      \/ pc' = "done" /\ p' = End
      \/ pc' = "raised"
  BY DEF Literals, AtEnd
<1>5. End \in Nat
  BY <1>2, ByteType
<1>6. pc' = "offset" => p' + 1 < End
  BY <1>1, <1>2, <1>4, <1>5
<1>7. pc' # "raised" => p' <= End
  BY <1>1, <1>2, <1>4, <1>5
<1>8. pc' \in PCs
  BY <1>4 DEF PCs
<1>9. /\ str \in Blocks /\ str' = str /\ s' \in Nat /\ token' \in Nat /\ token' < 256
      /\ linksize' \in Nat /\ linksize' < 65536
  BY <1>1 DEF IInv, TypeOK
<1> QED BY <1>3, <1>6, <1>7, <1>8, <1>9, Stays

LEMMA OffsetStep == IInv /\ Offset => IInv'
<1> SUFFICES ASSUME IInv, Offset PROVE IInv'
  OBVIOUS
<1>1. p \in Nat \ {0} /\ str \in Blocks /\ p + 1 < End
  BY DEF IInv, TypeOK, Offset
<1>2. p \in 1..Len(str) /\ p + 1 \in 1..Len(str)
  BY <1>1, ByteType
<1>3. /\ str[p] \in Nat /\ str[p] < 256
      /\ str[p + 1] \in Nat /\ str[p + 1] < 256
  BY <1>1, <1>2, ByteType
<1> DEFINE offset == str[p] + 256 * str[p + 1]
<1>4. offset \in Nat /\ offset < 65536
  BY <1>3, WordBounds
<1>5. /\ str' = str /\ token' = token /\ size' = size /\ p' = p + 2 /\ s' = token % 16
      /\ pc' \in {"expandmatch", "match"}
      /\ linksize' = IF offset - size > linksize THEN offset - size ELSE linksize
  BY DEF Offset, Link
<1> HIDE DEF offset
<1>6. linksize' \in Nat /\ linksize' < 65536
  <2>1. size \in Nat /\ linksize \in Nat /\ linksize < 65536
    BY DEF IInv, TypeOK
  <2> QED BY <1>4, <1>5, <2>1, BeyondBounds
<1>7. p' \in Nat \ {0} /\ p' <= End
  BY <1>1, <1>5, ByteType
<1>8. s' \in Nat /\ token' \in Nat /\ token' < 256 /\ size' \in Nat
  BY <1>5, Nibbles DEF IInv, TypeOK
<1>9. pc' \in PCs /\ pc' # "offset"
  BY <1>5 DEF PCs
<1>10. str \in Blocks /\ str' = str
  BY <1>1, <1>5
<1> QED BY <1>6, <1>7, <1>8, <1>9, <1>10, Stays

LEMMA MatchStep == IInv /\ Match => IInv'
<1> SUFFICES ASSUME IInv, Match PROVE IInv'
  OBVIOUS
<1>1. /\ str' = str /\ token' = token /\ p' = p /\ s' = s /\ linksize' = linksize
      /\ size' = size + s + 4 /\ pc = "match" /\ pc' = "token"
  BY DEF Match
<1>2. str \in Blocks /\ str' = str /\ p' \in Nat \ {0} /\ p' <= End
  BY <1>1 DEF IInv, TypeOK
<1>3. /\ s' \in Nat /\ size' \in Nat /\ token' \in Nat /\ token' < 256
      /\ linksize' \in Nat /\ linksize' < 65536
  BY <1>1 DEF IInv, TypeOK
<1>4. pc' \in PCs /\ pc' # "offset"
  BY <1>1 DEF PCs
<1> QED BY <1>2, <1>3, <1>4, Stays

LEMMA EndStep == IInv /\ EndOfString => IInv'
<1> SUFFICES ASSUME IInv, EndOfString PROVE IInv'
  OBVIOUS
<1>1. UNCHANGED <<str, p, token, s, size, linksize>> /\ pc' = "raised"
  BY DEF EndOfString, rb_raise
<1>2. /\ str \in Blocks /\ str' = str /\ p' \in Nat \ {0} /\ s' \in Nat /\ size' \in Nat
      /\ token' \in Nat /\ token' < 256 /\ linksize' \in Nat /\ linksize' < 65536
  BY <1>1 DEF IInv, TypeOK
<1>3. pc' \in PCs /\ pc' = "raised"
  BY <1>1 DEF PCs
<1> QED BY <1>2, <1>3, Stays

LEMMA StutterStep == IInv /\ UNCHANGED vars => IInv'
<1> SUFFICES ASSUME IInv, UNCHANGED vars PROVE IInv'
  OBVIOUS
<1>1. UNCHANGED <<str, p, token, s, size, linksize, pc>>
  BY DEF vars
<1>2. /\ str \in Blocks /\ str' = str /\ p' \in Nat \ {0} /\ s' \in Nat /\ size' \in Nat
      /\ token' \in Nat /\ token' < 256 /\ linksize' \in Nat /\ linksize' < 65536
      /\ pc' \in PCs
  BY <1>1 DEF IInv, TypeOK
<1>3. pc' = "offset" => p' + 1 < End
  BY <1>1 DEF IInv, TypeOK
<1>4. pc' # "raised" => p' <= End \/ pc' = "literals"
  BY <1>1 DEF IInv, TypeOK
<1> QED BY <1>2, <1>3, <1>4, Stays

LEMMA Step == IInv /\ [Next]_vars => IInv'
BY TokenStep, ExpandStep, LiteralsStep, OffsetStep, MatchStep, EndStep, StutterStep, Zenon DEF Next

\* For every string: scansize and linksize read no byte behind its end, and
\* linksize fits in the offset of a match.
THEOREM TypeCorrect == Spec => []TypeOK
<1>1. IInv => TypeOK
  BY DEF IInv
<1> QED BY Initially, Step, <1>1, PTL DEF Spec

-----------------------------------------------------------------------------
(* Induction.  A set of numbers that is not empty has a least one.         *)
LEMMA LeastNumber ==
  ASSUME NEW T \in SUBSET Nat, T # {}
  PROVE  \E x \in T : \A y \in T : ~(y < x)
<1> DEFINE R == {ss \in Nat \X Nat : ss[1] < ss[2]}
<1>1. IsWellFoundedOn(R, Nat)
  BY NatLessThanWellFounded DEF OpToRel
<1>2. \A x, y \in Nat : y < x => <<y, x>> \in R
  OBVIOUS
<1> HIDE DEF R
<1>3. PICK x \in T : \A y \in T : ~(<<y, x>> \in R)
  BY <1>1, WFMin
<1> QED
  BY <1>2, <1>3

\* A set that holds 0 and with every number the next one holds them all.
LEMMA SetInduction ==
  ASSUME NEW T \in SUBSET Nat, 0 \in T, \A n \in T : n + 1 \in T
  PROVE  T = Nat
<1> SUFFICES ASSUME Nat \ T # {} PROVE FALSE
  OBVIOUS
<1>1. PICK x \in Nat \ T : \A y \in Nat \ T : ~(y < x)
  BY LeastNumber
<1>2. x - 1 \in Nat /\ x - 1 < x
  BY <1>1
<1>3. x - 1 \in T
  BY <1>1, <1>2
<1>4. x \in T
  BY <1>2, <1>3
<1> QED
  BY <1>1, <1>4

-----------------------------------------------------------------------------
(* Lengths.                                                                *)
Strings == Seq(0..255)

LEMMA StringBytes ==
  ASSUME NEW bs \in Strings
  PROVE  /\ Len(bs) \in Nat
         /\ \A i \in 1..Len(bs) : bs[i] \in Nat /\ bs[i] < 256
                                  /\ bs[i] \div 16 \in Nat /\ bs[i] \div 16 < 16
                                  /\ bs[i] % 16 \in Nat /\ bs[i] % 16 < 16
<1>1. Len(bs) \in Nat
  BY LenProperties DEF Strings
<1>2. \A i \in 1..Len(bs) : bs[i] \in 0..255
  BY ElementOfSeq DEF Strings
<1>3. \A b \in 0..255 : /\ b \in Nat /\ b < 256 /\ b \div 16 \in Nat /\ b \div 16 < 16
                        /\ b % 16 \in Nat /\ b % 16 < 16
  BY SMT
<1> QED BY <1>1, <1>2, <1>3

\* The bytes of a length end with the first that is not 255.
LEMMA LastExtraIs ==
  ASSUME NEW bs \in Strings, NEW i \in Nat \ {0}
  PROVE  /\ (\E k \in i..Len(bs) : bs[k] # 255) => \E k \in i..Len(bs) : LastExtra(bs, i, k)
         /\ \A k, l \in i..Len(bs) : LastExtra(bs, i, k) /\ LastExtra(bs, i, l) => k = l
<1>1. Len(bs) \in Nat
  BY StringBytes
<1>2. ASSUME NEW k \in i..Len(bs), bs[k] # 255
      PROVE  \E l \in i..Len(bs) : LastExtra(bs, i, l)
  <2> DEFINE T == {l \in i..Len(bs) : bs[l] # 255}
  <2>1. T \in SUBSET Nat /\ T # {}
    BY <1>1, <1>2
  <2> HIDE DEF T
  <2>2. PICK l \in T : \A m \in T : ~(m < l)
    BY <2>1, LeastNumber
  <2>3. \A j \in i..(l - 1) : bs[j] = 255
    BY <1>1, <2>2 DEF T
  <2> QED BY <2>2, <2>3 DEF LastExtra, T
<1>3. ASSUME NEW k \in i..Len(bs), NEW l \in i..Len(bs),
             LastExtra(bs, i, k), LastExtra(bs, i, l)
      PROVE  k = l
  <2>1. ~(k < l)
    BY <1>1, <1>3 DEF LastExtra
  <2>2. ~(l < k)
    BY <1>1, <1>3 DEF LastExtra
  <2> QED BY <1>1, <2>1, <2>2
<1> QED BY <1>2, <1>3

LEMMA LengthIs ==
  ASSUME NEW bs \in Strings, NEW i \in Nat \ {0}, NEW k \in i..Len(bs),
         LastExtra(bs, i, k), NEW nibble \in Nat, ~(nibble < 15)
  PROVE  /\ HasLength(bs, nibble, i)
         /\ LengthAt(bs, nibble, i) = [value |-> 15 + 255 * (k - i) + bs[k], next |-> k + 1]
<1>1. HasLength(bs, nibble, i)
  BY DEF HasLength, LastExtra
<1>2. (CHOOSE l \in i..Len(bs) : LastExtra(bs, i, l)) = k
  BY LastExtraIs
<1> QED BY <1>1, <1>2 DEF LengthAt

LEMMA LengthType ==
  ASSUME NEW bs \in Strings, NEW i \in Nat \ {0}, NEW nibble \in Nat,
         HasLength(bs, nibble, i)
  PROVE  /\ LengthAt(bs, nibble, i).value \in Nat
         /\ LengthAt(bs, nibble, i).next \in Nat /\ i <= LengthAt(bs, nibble, i).next
<1>1. CASE nibble < 15
  BY <1>1 DEF LengthAt
<1>2. CASE ~(nibble < 15)
  <2>1. PICK k \in i..Len(bs) : LastExtra(bs, i, k)
    BY <1>2, LastExtraIs DEF HasLength
  <2>2. LengthAt(bs, nibble, i) = [value |-> 15 + 255 * (k - i) + bs[k], next |-> k + 1]
    BY <1>2, <2>1, LengthIs
  <2>3. Len(bs) \in Nat
    BY StringBytes
  <2>4. k \in 1..Len(bs) /\ k \in Nat /\ i <= k
    BY <2>1, <2>3
  <2>5. bs[k] \in Nat
    BY <2>4, StringBytes
  <2> QED BY <2>2, <2>4, <2>5
<1> QED BY <1>1, <1>2

-----------------------------------------------------------------------------
(* The parse of a string.                                                  *)
Part == [lit : Nat, match : Nat, offset : Nat]

Parse == [ok : BOOLEAN, seqs : Seq(Part)]

ParsesFrom(bs, from, n) ==
  from = [i \in n..(Len(bs) + 1) |-> SequencesAt(bs, from, i)]

\* The lengths in the token at i.
LitAt(bs, i) == LengthAt(bs, bs[i] \div 16, i + 1)
OffAt(bs, i) == LitAt(bs, i).next + LitAt(bs, i).value
MatchAt(bs, i) == LengthAt(bs, bs[i] % 16, OffAt(bs, i) + 2)

PartAt(bs, i) ==
  [lit |-> LitAt(bs, i).value, match |-> MatchAt(bs, i).value + 4,
   offset |-> bs[OffAt(bs, i)] + 256 * bs[OffAt(bs, i) + 1]]

HasLit(bs, i) == HasLength(bs, bs[i] \div 16, i + 1)
HasMatch(bs, i) == HasLength(bs, bs[i] % 16, OffAt(bs, i) + 2)

\* Where things are.
LEMMA Places ==
  ASSUME NEW bs \in Strings, NEW i \in 1..Len(bs), HasLit(bs, i)
  PROVE  /\ LitAt(bs, i).value \in Nat /\ OffAt(bs, i) \in Nat /\ i + 1 <= OffAt(bs, i)
         /\ OffAt(bs, i) + 2 < Len(bs) + 1 /\ HasMatch(bs, i) =>
              /\ MatchAt(bs, i).value \in Nat
              /\ MatchAt(bs, i).next \in Nat /\ OffAt(bs, i) + 2 <= MatchAt(bs, i).next
              /\ PartAt(bs, i) \in Part
<1>1. Len(bs) \in Nat /\ i \in Nat /\ i + 1 \in Nat \ {0}
      /\ bs[i] \div 16 \in Nat /\ bs[i] % 16 \in Nat
  BY StringBytes
<1>2. LitAt(bs, i).value \in Nat /\ LitAt(bs, i).next \in Nat /\ i + 1 <= LitAt(bs, i).next
  BY <1>1, LengthType DEF HasLit, LitAt
<1>3. OffAt(bs, i) \in Nat /\ i + 1 <= OffAt(bs, i)
  BY <1>1, <1>2 DEF OffAt
<1>4. ASSUME OffAt(bs, i) + 2 < Len(bs) + 1, HasMatch(bs, i)
      PROVE  /\ MatchAt(bs, i).value \in Nat
             /\ MatchAt(bs, i).next \in Nat /\ OffAt(bs, i) + 2 <= MatchAt(bs, i).next
             /\ PartAt(bs, i) \in Part
  <2>1. OffAt(bs, i) + 2 \in Nat \ {0}
    BY <1>3
  <2>2. /\ MatchAt(bs, i).value \in Nat
        /\ MatchAt(bs, i).next \in Nat /\ OffAt(bs, i) + 2 <= MatchAt(bs, i).next
    BY <1>1, <1>4, <2>1, LengthType DEF HasMatch, MatchAt
  <2>3. OffAt(bs, i) \in 1..Len(bs) /\ OffAt(bs, i) + 1 \in 1..Len(bs)
    BY <1>1, <1>3, <1>4
  <2>4. bs[OffAt(bs, i)] \in Nat /\ bs[OffAt(bs, i) + 1] \in Nat
    BY <2>3, StringBytes
  <2>5. bs[OffAt(bs, i)] + 256 * bs[OffAt(bs, i) + 1] \in Nat
    BY <2>4
  <2> QED BY <1>2, <2>2, <2>5 DEF PartAt, Part
<1> QED BY <1>2, <1>3, <1>4

\* What is found at i, by cases.
LEMMA SequencesAtIs ==
  ASSUME NEW bs \in Strings, NEW i \in 1..(Len(bs) + 1), NEW from
  PROVE  /\ (i = Len(bs) + 1 \/ ~HasLit(bs, i)) => SequencesAt(bs, from, i) = Malformed
         /\ i # Len(bs) + 1 /\ HasLit(bs, i) =>
              /\ OffAt(bs, i) = Len(bs) + 1 =>
                   SequencesAt(bs, from, i) =
                     Parsed(<<[lit |-> LitAt(bs, i).value, match |-> 0, offset |-> 0]>>)
              /\ OffAt(bs, i) # Len(bs) + 1
                   /\ (OffAt(bs, i) + 2 >= Len(bs) + 1 \/ ~HasMatch(bs, i)) =>
                   SequencesAt(bs, from, i) = Malformed
              /\ OffAt(bs, i) # Len(bs) + 1
                   /\ ~(OffAt(bs, i) + 2 >= Len(bs) + 1) /\ HasMatch(bs, i) =>
                   SequencesAt(bs, from, i) =
                     IF MatchAt(bs, i).next >= Len(bs) + 1 \/ ~from[MatchAt(bs, i).next].ok
                       THEN Malformed
                       ELSE Parsed(<<PartAt(bs, i)>> \o from[MatchAt(bs, i).next].seqs)
BY DEF SequencesAt, HasLit, HasMatch, LitAt, OffAt, MatchAt, PartAt

\* It depends on what is found later only.
LEMMA SequencesAtLater ==
  ASSUME NEW bs \in Strings, NEW i \in 1..(Len(bs) + 1), NEW f, NEW g,
         \A j \in (i + 1)..(Len(bs) + 1) : f[j] = g[j]
  PROVE  SequencesAt(bs, f, i) = SequencesAt(bs, g, i)
<1>1. Len(bs) \in Nat
  BY StringBytes
<1>2. CASE i = Len(bs) + 1 \/ ~HasLit(bs, i)
  BY <1>2, SequencesAtIs
<1>3. CASE i # Len(bs) + 1 /\ HasLit(bs, i)
  <2>1. CASE OffAt(bs, i) = Len(bs) + 1
    BY <1>3, <2>1, SequencesAtIs
  <2>2. CASE OffAt(bs, i) # Len(bs) + 1
               /\ (OffAt(bs, i) + 2 >= Len(bs) + 1 \/ ~HasMatch(bs, i))
    BY <1>3, <2>2, SequencesAtIs
  <2>3. CASE OffAt(bs, i) # Len(bs) + 1
               /\ ~(OffAt(bs, i) + 2 >= Len(bs) + 1) /\ HasMatch(bs, i)
    <3> DEFINE next == MatchAt(bs, i).next
    <3>1. i \in 1..Len(bs)
      BY <1>1, <1>3
    <3>2. OffAt(bs, i) \in Nat /\ i + 1 <= OffAt(bs, i)
      BY <1>3, <3>1, Places
    <3>3. OffAt(bs, i) + 2 < Len(bs) + 1
      BY <1>1, <2>3, <3>2
    <3>4. next \in Nat /\ OffAt(bs, i) + 2 <= next
      BY <1>3, <2>3, <3>1, <3>3, Places
    <3>5. next >= Len(bs) + 1 \/ f[next] = g[next]
      BY <1>1, <3>2, <3>4
    <3> HIDE DEF next
    <3>6. \A h : SequencesAt(bs, h, i) =
                   IF next >= Len(bs) + 1 \/ ~h[next].ok THEN Malformed
                   ELSE Parsed(<<PartAt(bs, i)>> \o h[next].seqs)
      BY <1>3, <2>3, SequencesAtIs DEF next
    <3> QED BY <3>5, <3>6
  <2> QED BY <2>1, <2>2, <2>3
<1> QED BY <1>2, <1>3

LEMMA ParseExists ==
  ASSUME NEW bs \in Strings
  PROVE  \E from : ParsesFrom(bs, from, 1)
<1> DEFINE T == {n \in Nat : n <= Len(bs) => \E from : ParsesFrom(bs, from, Len(bs) + 1 - n)}
<1>1. Len(bs) \in Nat
  BY StringBytes
<1>2. 0 \in T
  <2> DEFINE f == [i \in (Len(bs) + 1)..(Len(bs) + 1) |-> Malformed]
  <2>1. \A i \in (Len(bs) + 1)..(Len(bs) + 1) : SequencesAt(bs, f, i) = Malformed
    BY <1>1 DEF SequencesAt
  <2>2. ParsesFrom(bs, f, Len(bs) + 1)
    BY <2>1 DEF ParsesFrom
  <2>3. Len(bs) + 1 - 0 = Len(bs) + 1
    BY <1>1
  <2> QED BY <2>2, <2>3
<1>3. ASSUME NEW n \in T PROVE n + 1 \in T
  <2> SUFFICES ASSUME n + 1 <= Len(bs)
               PROVE  \E from : ParsesFrom(bs, from, Len(bs) + 1 - (n + 1))
    OBVIOUS
  <2> DEFINE m == Len(bs) + 1 - (n + 1)
  <2>1. m \in 1..Len(bs) /\ Len(bs) + 1 - n = m + 1 /\ m \in Nat
    BY <1>1
  <2>2. PICK f : ParsesFrom(bs, f, m + 1)
    BY <1>1, <2>1
  <2> HIDE DEF m, T
  <2> DEFINE g == [i \in m..(Len(bs) + 1) |-> IF i = m THEN SequencesAt(bs, f, i) ELSE f[i]]
  <2>3. \A i \in (m + 1)..(Len(bs) + 1) : g[i] = f[i]
    BY <1>1, <2>1
  <2>4. ASSUME NEW i \in m..(Len(bs) + 1)
        PROVE  g[i] = SequencesAt(bs, g, i)
    <3>1. i \in 1..(Len(bs) + 1) /\ \A j \in (i + 1)..(Len(bs) + 1) : g[j] = f[j]
      BY <1>1, <2>1, <2>3
    <3> HIDE DEF g
    <3>2. SequencesAt(bs, g, i) = SequencesAt(bs, f, i)
      BY <3>1, SequencesAtLater
    <3>3. CASE i = m
      BY <3>2, <3>3 DEF g
    <3>4. CASE i # m
      <4>1. i \in (m + 1)..(Len(bs) + 1)
        BY <1>1, <2>1, <3>4
      <4>2. f[i] = SequencesAt(bs, f, i)
        BY <2>2, <4>1 DEF ParsesFrom
      <4> QED BY <3>2, <3>4, <4>2 DEF g
    <3> QED BY <3>3, <3>4
  <2>5. g = [i \in m..(Len(bs) + 1) |-> SequencesAt(bs, g, i)]
    BY <2>4
  <2>6. ParsesFrom(bs, g, m)
    BY <2>5 DEF ParsesFrom
  <2> HIDE DEF g
  <2> QED BY <2>6 DEF m
<1> HIDE DEF T
<1>4. T = Nat
  <2>1. T \in SUBSET Nat
    BY DEF T
  <2> QED BY <1>2, <1>3, <2>1, SetInduction
<1>5. Len(bs) \in T /\ Len(bs) + 1 - Len(bs) = 1
  BY <1>1, <1>4
<1> QED BY <1>1, <1>5 DEF T

From(bs) == CHOOSE from : ParsesFrom(bs, from, 1)

LEMMA FromIs ==
  ASSUME NEW bs \in Strings
  PROVE  /\ \A i \in 1..(Len(bs) + 1) : From(bs)[i] = SequencesAt(bs, From(bs), i)
         /\ Sequences(bs) = From(bs)[1]
<1>1. ParsesFrom(bs, From(bs), 1)
  BY ParseExists DEF From
<1>2. \A i \in 1..(Len(bs) + 1) : From(bs)[i] = SequencesAt(bs, From(bs), i)
  <2> DEFINE f == From(bs)
  <2> HIDE DEF f
  <2>1. ParsesFrom(bs, f, 1)
    BY <1>1 DEF f
  <2>2. \A i \in 1..(Len(bs) + 1) : f[i] = SequencesAt(bs, f, i)
    BY <2>1 DEF ParsesFrom
  <2> QED BY <2>2 DEF f
<1>3. Sequences(bs) = From(bs)[1]
  BY DEF Sequences, From, ParsesFrom
<1> QED BY <1>2, <1>3

LEMMA SequencesAtType ==
  ASSUME NEW bs \in Strings, NEW i \in 1..(Len(bs) + 1), NEW f,
         \A j \in (i + 1)..(Len(bs) + 1) : f[j] \in Parse
  PROVE  SequencesAt(bs, f, i) \in Parse
<1>1. Len(bs) \in Nat /\ Malformed \in Parse
  BY StringBytes DEF Malformed, Parse
<1>2. CASE i = Len(bs) + 1 \/ ~HasLit(bs, i)
  BY <1>1, <1>2, SequencesAtIs
<1>3. CASE i # Len(bs) + 1 /\ HasLit(bs, i)
  <2>1. i \in 1..Len(bs)
    BY <1>1, <1>3
  <2>2. LitAt(bs, i).value \in Nat /\ OffAt(bs, i) \in Nat /\ i + 1 <= OffAt(bs, i)
    BY <1>3, <2>1, Places
  <2>3. CASE OffAt(bs, i) = Len(bs) + 1
    <3>1. [lit |-> LitAt(bs, i).value, match |-> 0, offset |-> 0] \in Part
      BY <2>2 DEF Part
    <3> DEFINE last == [lit |-> LitAt(bs, i).value, match |-> 0, offset |-> 0]
    <3> HIDE DEF last
    <3>2. <<last>> \in Seq(Part)
      BY <3>1 DEF last
    <3>3. SequencesAt(bs, f, i) = Parsed(<<last>>)
      BY <1>3, <2>3, SequencesAtIs DEF last
    <3> QED BY <3>2, <3>3 DEF Parsed, Parse
  <2>4. CASE OffAt(bs, i) # Len(bs) + 1
               /\ (OffAt(bs, i) + 2 >= Len(bs) + 1 \/ ~HasMatch(bs, i))
    BY <1>1, <1>3, <2>4, SequencesAtIs
  <2>5. CASE OffAt(bs, i) # Len(bs) + 1
               /\ ~(OffAt(bs, i) + 2 >= Len(bs) + 1) /\ HasMatch(bs, i)
    <3> DEFINE next == MatchAt(bs, i).next
    <3>1. OffAt(bs, i) + 2 < Len(bs) + 1
      BY <1>1, <2>2, <2>5
    <3>2. next \in Nat /\ OffAt(bs, i) + 2 <= next /\ PartAt(bs, i) \in Part
      BY <1>3, <2>1, <2>5, <3>1, Places
    <3>3. next >= Len(bs) + 1 \/ f[next] \in Parse
      BY <1>1, <2>2, <3>2
    <3> HIDE DEF next
    <3>4. SequencesAt(bs, f, i) =
            IF next >= Len(bs) + 1 \/ ~f[next].ok THEN Malformed
            ELSE Parsed(<<PartAt(bs, i)>> \o f[next].seqs)
      BY <1>3, <2>5, SequencesAtIs DEF next
    <3>5. f[next] \in Parse => <<PartAt(bs, i)>> \o f[next].seqs \in Seq(Part)
      BY <3>2 DEF Parse
    <3> QED BY <1>1, <3>3, <3>4, <3>5 DEF Parsed, Parse
  <2> QED BY <2>3, <2>4, <2>5
<1> QED BY <1>2, <1>3

LEMMA FromType ==
  ASSUME NEW bs \in Strings
  PROVE  \A i \in 1..(Len(bs) + 1) : From(bs)[i] \in Parse
<1> DEFINE f == From(bs)
           T == {n \in Nat : \A i \in 1..(Len(bs) + 1) : Len(bs) + 1 - n <= i => f[i] \in Parse}
<1>1. Len(bs) \in Nat
  BY StringBytes
<1>2. \A i \in 1..(Len(bs) + 1) : f[i] = SequencesAt(bs, f, i)
  BY FromIs
<1> HIDE DEF f
<1>3. ASSUME NEW i \in 1..(Len(bs) + 1), \A j \in (i + 1)..(Len(bs) + 1) : f[j] \in Parse
      PROVE  f[i] \in Parse
  BY <1>2, <1>3, SequencesAtType
<1>4. 0 \in T
  <2>1. \A i \in 1..(Len(bs) + 1) : Len(bs) + 1 - 0 <= i => i = Len(bs) + 1
    BY <1>1
  <2>2. f[Len(bs) + 1] \in Parse
    BY <1>1, <1>3
  <2> QED BY <2>1, <2>2
<1>5. ASSUME NEW n \in T PROVE n + 1 \in T
  <2> SUFFICES ASSUME NEW i \in 1..(Len(bs) + 1), Len(bs) + 1 - (n + 1) <= i
               PROVE  f[i] \in Parse
    OBVIOUS
  <2>1. \A j \in (i + 1)..(Len(bs) + 1) : j \in 1..(Len(bs) + 1) /\ Len(bs) + 1 - n <= j
    BY <1>1
  <2> QED BY <1>3, <2>1
<1> HIDE DEF T
<1>6. T = Nat
  <2>1. T \in SUBSET Nat
    BY DEF T
  <2> QED BY <1>4, <1>5, <2>1, SetInduction
<1>7. Len(bs) \in T
  BY <1>1, <1>6
<1>8. \A i \in 1..(Len(bs) + 1) : Len(bs) + 1 - Len(bs) <= i
  BY <1>1
<1>9. \A i \in 1..(Len(bs) + 1) : f[i] \in Parse
  BY <1>7, <1>8 DEF T
<1> QED BY <1>9 DEF f

-----------------------------------------------------------------------------
(* How much sequences decode to.                                           *)
SizesTo(upto, seqs, n) ==
  upto = [m \in 0..n |-> IF m = 0 THEN 0 ELSE upto[m - 1] + seqs[m].lit + seqs[m].match]

LEMMA SizesExist ==
  ASSUME NEW seqs, NEW k \in Nat
  PROVE  \E c : SizesTo(c, seqs, k)
<1> DEFINE T == {n \in Nat : \E c : SizesTo(c, seqs, n)}
<1>1. 0 \in T
  <2>1. SizesTo([n \in 0..0 |-> 0], seqs, 0)
    BY DEF SizesTo
  <2> QED BY <2>1
<1>2. ASSUME NEW n \in T PROVE n + 1 \in T
  <2>1. PICK c : SizesTo(c, seqs, n)
    OBVIOUS
  <2> DEFINE d == [m \in 0..(n + 1) |->
                     IF m = n + 1 THEN c[n] + seqs[n + 1].lit + seqs[n + 1].match ELSE c[m]]
  <2>2. ASSUME NEW m \in 0..(n + 1)
        PROVE  d[m] = IF m = 0 THEN 0 ELSE d[m - 1] + seqs[m].lit + seqs[m].match
    BY <2>1 DEF SizesTo
  <2>3. d = [m \in 0..(n + 1) |-> IF m = 0 THEN 0 ELSE d[m - 1] + seqs[m].lit + seqs[m].match]
    BY <2>2
  <2>4. SizesTo(d, seqs, n + 1)
    BY <2>3 DEF SizesTo
  <2> QED BY <2>4
<1> HIDE DEF T
<1>3. T = Nat
  <2>1. T \in SUBSET Nat
    BY DEF T
  <2> QED BY <1>1, <1>2, <2>1, SetInduction
<1> QED BY <1>3 DEF T

LEMMA DecodedIs ==
  ASSUME NEW seqs \in Seq(Part)
  PROVE  /\ Decoded(seqs, 0) = 0
         /\ \A n \in 0..(Len(seqs) - 1) :
              Decoded(seqs, n + 1) = Decoded(seqs, n) + seqs[n + 1].lit + seqs[n + 1].match
<1> DEFINE c == CHOOSE c : SizesTo(c, seqs, Len(seqs))
<1>1. Len(seqs) \in Nat
  BY LenProperties
<1>2. \A n : Decoded(seqs, n) = c[n]
  BY DEF Decoded, SizesTo
<1>3. SizesTo(c, seqs, Len(seqs))
  BY <1>1, SizesExist
<1> HIDE DEF c
<1>4. c[0] = 0 /\ \A n \in 0..(Len(seqs) - 1) : c[n + 1] = c[n] + seqs[n + 1].lit + seqs[n + 1].match
  BY <1>1, <1>3 DEF SizesTo
<1> QED BY <1>2, <1>4

LEMMA DecodedType ==
  ASSUME NEW seqs \in Seq(Part)
  PROVE  \A n \in 0..Len(seqs) : Decoded(seqs, n) \in Nat
<1> DEFINE T == {n \in Nat : n <= Len(seqs) => Decoded(seqs, n) \in Nat}
<1>1. Len(seqs) \in Nat
  BY LenProperties
<1>2. 0 \in T
  BY DecodedIs
<1>3. ASSUME NEW n \in T PROVE n + 1 \in T
  <2> SUFFICES ASSUME n + 1 <= Len(seqs) PROVE Decoded(seqs, n + 1) \in Nat
    OBVIOUS
  <2>1. n \in 0..(Len(seqs) - 1) /\ n + 1 \in 1..Len(seqs) /\ Decoded(seqs, n) \in Nat
    BY <1>1
  <2>2. seqs[n + 1] \in Part
    BY <2>1, ElementOfSeq
  <2>3. Decoded(seqs, n + 1) = Decoded(seqs, n) + seqs[n + 1].lit + seqs[n + 1].match
    BY <2>1, DecodedIs
  <2> QED BY <2>1, <2>2, <2>3 DEF Part
<1> HIDE DEF T
<1>4. T = Nat
  <2>1. T \in SUBSET Nat
    BY DEF T
  <2> QED BY <1>2, <1>3, <2>1, SetInduction
<1> QED BY <1>1, <1>4 DEF T

\* What follows makes no difference.
LEMMA DecodedFront ==
  ASSUME NEW seqs \in Seq(Part), NEW more \in Seq(Part)
  PROVE  \A n \in 0..Len(seqs) : Decoded(seqs \o more, n) = Decoded(seqs, n)
<1> DEFINE all == seqs \o more
           T == {n \in Nat : n <= Len(seqs) => Decoded(all, n) = Decoded(seqs, n)}
<1>1. /\ Len(seqs) \in Nat /\ all \in Seq(Part) /\ Len(all) \in Nat /\ Len(seqs) <= Len(all)
      /\ \A n \in 1..Len(seqs) : all[n] = seqs[n]
  <2>1. Len(seqs) \in Nat /\ Len(more) \in Nat
    BY LenProperties
  <2> QED BY <2>1, ConcatProperties
<1> HIDE DEF all
<1>2. 0 \in T
  BY <1>1, DecodedIs
<1>3. ASSUME NEW n \in T PROVE n + 1 \in T
  <2> SUFFICES ASSUME n + 1 <= Len(seqs) PROVE Decoded(all, n + 1) = Decoded(seqs, n + 1)
    OBVIOUS
  <2>1. /\ n \in 0..(Len(seqs) - 1) /\ n \in 0..(Len(all) - 1) /\ n + 1 \in 1..Len(seqs)
        /\ Decoded(all, n) = Decoded(seqs, n)
    BY <1>1
  <2>2. Decoded(seqs, n + 1) = Decoded(seqs, n) + seqs[n + 1].lit + seqs[n + 1].match
    BY <2>1, DecodedIs
  <2>3. Decoded(all, n + 1) = Decoded(all, n) + all[n + 1].lit + all[n + 1].match
    BY <1>1, <2>1, DecodedIs
  <2> QED BY <1>1, <2>1, <2>2, <2>3
<1> HIDE DEF T
<1>4. T = Nat
  <2>1. T \in SUBSET Nat
    BY DEF T
  <2> QED BY <1>2, <1>3, <2>1, SetInduction
<1>5. \A n \in 0..Len(seqs) : Decoded(all, n) = Decoded(seqs, n)
  BY <1>1, <1>4 DEF T
<1> QED BY <1>5 DEF all

Total(seqs) == Decoded(seqs, Len(seqs))

\* With d bytes in front of it, the matches of seqs refer to what is there.
Reaches(seqs, d) ==
  \A n \in DOMAIN seqs : seqs[n].offset <= d + Decoded(seqs, n - 1) + seqs[n].lit

\* One more sequence.
LEMMA OneMore ==
  ASSUME NEW seqs \in Seq(Part), NEW part \in Part
  PROVE  /\ Append(seqs, part) \in Seq(Part)
         /\ Total(seqs) \in Nat
         /\ Total(Append(seqs, part)) = Total(seqs) + part.lit + part.match
         /\ \A d \in Nat : Reaches(Append(seqs, part), d) <=>
              Reaches(seqs, d) /\ part.offset <= d + Total(seqs) + part.lit
<1> DEFINE all == Append(seqs, part)
           m == Len(seqs)
<1>1. /\ m \in Nat /\ all \in Seq(Part) /\ Len(all) = m + 1 /\ all[m + 1] = part
      /\ \A n \in 1..m : all[n] = seqs[n]
      /\ DOMAIN seqs = 1..m /\ DOMAIN all = 1..(m + 1)
  BY LenProperties, AppendProperties
<1>2. \A n \in 0..m : Decoded(all, n) = Decoded(seqs, n) /\ Decoded(seqs, n) \in Nat
  <2>1. all = seqs \o <<part>> /\ <<part>> \in Seq(Part)
    BY AppendIsConcat
  <2> QED BY <2>1, DecodedFront, DecodedType
<1> HIDE DEF all, m
<1>3. Decoded(all, m + 1) = Decoded(seqs, m) + part.lit + part.match
  BY <1>1, <1>2, DecodedIs
<1>4. ASSUME NEW d \in Nat
      PROVE  Reaches(all, d) <=> Reaches(seqs, d) /\ part.offset <= d + Decoded(seqs, m) + part.lit
  <2>1. \A n \in 1..m : Decoded(all, n - 1) = Decoded(seqs, n - 1)
    BY <1>1, <1>2
  <2>2. Decoded(all, (m + 1) - 1) = Decoded(seqs, m)
    BY <1>1, <1>2
  <2>3. Reaches(all, d) <=>
          /\ \A n \in 1..m : all[n].offset <= d + Decoded(all, n - 1) + all[n].lit
          /\ all[m + 1].offset <= d + Decoded(all, (m + 1) - 1) + all[m + 1].lit
    BY <1>1 DEF Reaches
  <2>4. Reaches(seqs, d) <=>
          \A n \in 1..m : seqs[n].offset <= d + Decoded(seqs, n - 1) + seqs[n].lit
    BY <1>1 DEF Reaches
  <2> QED BY <1>1, <2>1, <2>2, <2>3, <2>4
<1>5. m \in 0..m
  BY <1>1
<1> QED BY <1>1, <1>2, <1>3, <1>4, <1>5 DEF Total, all, m

-----------------------------------------------------------------------------
(* What the scanner has found.                                             *)

\* The sequences before i are seqs, if the string is a block at all.
Found(seqs, i) ==
  /\ seqs \in Seq(Part) /\ i \in 1..End
  /\ Divides(str) <=> From(str)[i].ok
  /\ Divides(str) => Sequences(str).seqs = seqs \o From(str)[i].seqs

\* linksize is the least dictionary that seqs, and the match whose offset has
\* been read last, can be decoded with.
LinksOf(seqs) == \A d \in Nat : linksize <= d <=> Reaches(seqs, d)
LinksAlso(seqs, offset) ==
  \A d \in Nat : linksize <= d <=> Reaches(seqs, d) /\ offset <= d + size

\* A length whose bytes begin at i is read, or has been read.
Expands(nibble, i) ==
  /\ nibble = 15 /\ p \in i..End /\ s = 15 + 255 * (p - i)
  /\ \A j \in i..(p - 1) : str[j] = 255

HasRead(nibble, i) ==
  HasLength(str, nibble, i) /\ LengthAt(str, nibble, i) = [value |-> s, next |-> p]

AtToken == \E seqs : Found(seqs, p) /\ size = Total(seqs) /\ LinksOf(seqs)

InLiterals(seqs, i) ==
  /\ Found(seqs, i) /\ i \in 1..Len(str) /\ token = str[i]
  /\ size = Total(seqs) /\ LinksOf(seqs)
  /\ pc = "expandliterals" => Expands(str[i] \div 16, i + 1)
  /\ pc = "literals" => HasRead(str[i] \div 16, i + 1)

InMatch(seqs, i) ==
  /\ Found(seqs, i) /\ i \in 1..Len(str) /\ token = str[i]
  /\ HasLit(str, i) /\ OffAt(str, i) + 2 < End
  /\ size = Total(seqs) + LitAt(str, i).value
  /\ pc = "offset" => p = OffAt(str, i) /\ LinksOf(seqs)
  /\ pc # "offset" =>
       LinksAlso(seqs, str[OffAt(str, i)] + 256 * str[OffAt(str, i) + 1])
  /\ pc = "expandmatch" => Expands(str[i] % 16, OffAt(str, i) + 2)
  /\ pc = "match" => HasRead(str[i] % 16, OffAt(str, i) + 2)

\* What it reports.
Reported ==
  /\ Divides(str) /\ size = DecodedSize(str)
  /\ \A d \in Nat : linksize <= d <=> DecodesWith(str, d)

Scanned ==
  /\ IInv
  /\ pc = "token" => AtToken
  /\ pc \in {"expandliterals", "literals"} => \E seqs, i : InLiterals(seqs, i)
  /\ pc \in {"offset", "expandmatch", "match"} => \E seqs, i : InMatch(seqs, i)
  /\ pc = "done" => Reported
  /\ pc = "raised" => ~Divides(str)

\* The string is one.
LEMMA Str ==
  ASSUME IInv
  PROVE  /\ str \in Strings /\ Len(str) \in Nat /\ End = Len(str) + 1
         /\ p \in Nat \ {0} /\ s \in Nat /\ size \in Nat /\ linksize \in Nat
         /\ \A i \in 1..End : /\ From(str)[i] \in Parse
                              /\ From(str)[i] = SequencesAt(str, From(str), i)
         /\ Sequences(str) = From(str)[1]
<1>1. str \in Strings
  BY BlocksAssumption DEF IInv, Strings
<1>2. Len(str) \in Nat
  BY <1>1, StringBytes
<1> QED BY <1>1, <1>2, FromType, FromIs DEF IInv, TypeOK, End

LEMMA ScannedInit == Init => Scanned
<1> SUFFICES ASSUME Init PROVE Scanned
  OBVIOUS
<1>1. IInv
  BY Initially
<1>2. /\ str \in Strings /\ Len(str) \in Nat /\ End = Len(str) + 1
      /\ From(str)[1] \in Parse /\ Sequences(str) = From(str)[1]
  BY <1>1, Str
<1>3. <<>> \in Seq(Part) /\ Len(<<>>) = 0 /\ DOMAIN <<>> = {}
  BY EmptySeq
<1>4. Total(<<>>) = 0 /\ \A d : Reaches(<<>>, d)
  BY <1>3, DecodedIs DEF Total, Reaches
<1>5. From(str)[1].seqs = <<>> \o From(str)[1].seqs
  BY <1>2, ConcatEmptySeq DEF Parse
<1>6. Found(<<>>, 1)
  BY <1>2, <1>3, <1>5 DEF Found, Divides
<1>7. AtToken
  BY <1>4, <1>6 DEF Init, AtToken, LinksOf
<1> QED BY <1>1, <1>7 DEF Scanned, Init

\* What was found in the string stays found.
LEMMA FoundStays ==
  ASSUME NEW seqs, NEW i, Found(seqs, i), str' = str
  PROVE  Found(seqs, i)'
BY DEF Found, End

LEMMA TokenScans ==
  ASSUME Scanned, Token PROVE Scanned'
<1>1. IInv /\ IInv' /\ AtToken /\ pc = "token" /\ p < End
  BY TokenStep DEF Scanned, Token
<1>2. PICK seqs, i : i = p /\ Found(seqs, i) /\ size = Total(seqs) /\ LinksOf(seqs)
  BY <1>1 DEF AtToken
<1>3. /\ str' = str /\ size' = size /\ linksize' = linksize
      /\ token' = str[i] /\ p' = i + 1 /\ s' = str[i] \div 16
      /\ pc' = IF s' = 15 THEN "expandliterals" ELSE "literals"
  BY <1>2 DEF Token
<1>4. /\ i \in 1..Len(str) /\ End' = End /\ str[i] \div 16 \in Nat /\ str[i] \div 16 < 16
      /\ i + 1 <= End /\ End \in Nat
  BY <1>1, <1>2, <1>3, Str, StringBytes DEF End
<1> DEFINE n == str[i] \div 16
<1>5. CASE n = 15
  <2>1. Expands(n, i + 1)'
    BY <1>3, <1>4, <1>5 DEF Expands
  <2>2. pc' = "expandliterals"
    BY <1>3, <1>5
  <2>3. InLiterals(seqs, i)'
    BY <1>2, <1>3, <1>4, <2>1, <2>2, FoundStays DEF InLiterals, LinksOf
  <2> QED BY <1>1, <2>2, <2>3 DEF Scanned
<1>6. CASE n # 15
  <2>1. HasRead(n, i + 1)'
    BY <1>3, <1>4, <1>6 DEF HasRead, HasLength, LengthAt
  <2>2. pc' = "literals"
    BY <1>3, <1>6
  <2>3. InLiterals(seqs, i)'
    BY <1>2, <1>3, <1>4, <2>1, <2>2, FoundStays DEF InLiterals, LinksOf
  <2> QED BY <1>1, <2>2, <2>3 DEF Scanned
<1> QED BY <1>5, <1>6

\* One more byte of a length.
LEMMA Expanded ==
  ASSUME IInv, NEW nibble, NEW i \in Nat \ {0}, Expands(nibble, i), p < End,
         str' = str, p' = p + 1, s' = s + str[p]
  PROVE  IF str[p] = 255 THEN Expands(nibble, i)' ELSE HasRead(nibble, i)'
<1>1. /\ str \in Strings /\ Len(str) \in Nat /\ End = Len(str) + 1 /\ p \in Nat \ {0}
      /\ End' = End
  BY Str DEF End
<1>2. /\ nibble = 15 /\ p \in i..Len(str) /\ s = 15 + 255 * (p - i)
      /\ \A j \in i..(p - 1) : str[j] = 255
  BY <1>1 DEF Expands
<1>3. CASE str[p] = 255
  <2>1. p + 1 \in i..End /\ s + 255 = 15 + 255 * ((p + 1) - i)
    BY <1>1, <1>2
  <2>2. \A j \in i..((p + 1) - 1) : str[j] = 255
    BY <1>1, <1>2, <1>3
  <2> QED BY <1>1, <1>2, <1>3, <2>1, <2>2 DEF Expands
<1>4. CASE str[p] # 255
  <2>1. LastExtra(str, i, p)
    BY <1>2, <1>4 DEF LastExtra
  <2>2. /\ HasLength(str, nibble, i)
        /\ LengthAt(str, nibble, i) = [value |-> 15 + 255 * (p - i) + str[p], next |-> p + 1]
    BY <1>1, <1>2, <2>1, LengthIs
  <2> QED BY <1>2, <1>4, <2>2 DEF HasRead
<1> QED BY <1>3, <1>4

LEMMA ExpandLiteralsScans ==
  ASSUME Scanned, ExpandLiterals PROVE Scanned'
<1>1. IInv /\ IInv' /\ pc = "expandliterals" /\ p < End
  BY ExpandStep DEF Scanned, ExpandLiterals, expandsize
<1>2. PICK seqs, i : InLiterals(seqs, i)
  BY <1>1 DEF Scanned
<1>3. /\ str' = str /\ size' = size /\ linksize' = linksize /\ token' = token
      /\ p' = p + 1 /\ s' = s + str[p]
      /\ pc' = IF str[p] = 255 THEN "expandliterals" ELSE "literals"
  BY DEF ExpandLiterals, expandsize
<1>4. PICK n : n = str[i] \div 16
  OBVIOUS
<1>5. /\ Found(seqs, i) /\ i \in 1..Len(str) /\ token = str[i] /\ size = Total(seqs)
      /\ LinksOf(seqs) /\ Expands(n, i + 1) /\ i + 1 \in Nat \ {0}
  BY <1>1, <1>2, <1>4 DEF InLiterals
<1>6. IF str[p] = 255 THEN Expands(n, i + 1)' ELSE HasRead(n, i + 1)'
  BY <1>1, <1>3, <1>5, Expanded
<1>7. (str[i] \div 16)' = n
  BY <1>3, <1>4
<1>8. InLiterals(seqs, i)' /\ pc' \in {"expandliterals", "literals"}
  BY <1>3, <1>5, <1>6, <1>7, FoundStays DEF InLiterals, LinksOf
<1> QED BY <1>1, <1>8 DEF Scanned

LEMMA ExpandMatchScans ==
  ASSUME Scanned, ExpandMatch PROVE Scanned'
<1>1. IInv /\ IInv' /\ pc = "expandmatch" /\ p < End
  BY ExpandStep DEF Scanned, ExpandMatch, expandsize
<1>2. PICK seqs, i : InMatch(seqs, i)
  BY <1>1 DEF Scanned
<1>3. /\ str' = str /\ size' = size /\ linksize' = linksize /\ token' = token
      /\ p' = p + 1 /\ s' = s + str[p]
      /\ pc' = IF str[p] = 255 THEN "expandmatch" ELSE "match"
  BY DEF ExpandMatch, expandsize
<1>4. PICK n, off : n = str[i] % 16 /\ off = OffAt(str, i)
  OBVIOUS
<1>5. /\ Found(seqs, i) /\ i \in 1..Len(str) /\ token = str[i] /\ HasLit(str, i)
      /\ off + 2 < End /\ size = Total(seqs) + LitAt(str, i).value
      /\ LinksAlso(seqs, str[off] + 256 * str[off + 1]) /\ Expands(n, off + 2)
  BY <1>1, <1>2, <1>4 DEF InMatch
<1>6. off + 2 \in Nat \ {0}
  <2>1. str \in Strings
    BY <1>1, Str
  <2>2. off \in Nat
    BY <1>4, <1>5, <2>1, Places
  <2> QED BY <2>2
<1>7. IF str[p] = 255 THEN Expands(n, off + 2)' ELSE HasRead(n, off + 2)'
  BY <1>1, <1>3, <1>5, <1>6, Expanded
<1>8. (str[i] % 16)' = n /\ OffAt(str, i)' = off /\ End' = End
  BY <1>3, <1>4 DEF End
<1>9. LinksAlso(seqs, str[off] + 256 * str[off + 1])'
  BY <1>3, <1>5 DEF LinksAlso
<1>10. InMatch(seqs, i)' /\ pc' \in {"expandmatch", "match"}
  BY <1>3, <1>5, <1>7, <1>8, <1>9, FoundStays DEF InMatch
<1> QED BY <1>1, <1>10 DEF Scanned

LEMMA LiteralsScans ==
  ASSUME Scanned, Literals PROVE Scanned'
<1>1. IInv /\ IInv' /\ pc = "literals"
  BY LiteralsStep DEF Scanned, Literals
<1>2. PICK seqs, i : InLiterals(seqs, i)
  BY <1>1 DEF Scanned
<1>3. /\ str' = str /\ token' = token /\ s' = s /\ linksize' = linksize
      /\ size' = size + s /\ p' = p + s /\ End' = End
      /\ pc' = IF ~AtEnd THEN "offset" ELSE IF p' = End THEN "done" ELSE "raised"
  BY DEF Literals, End
<1>4. /\ Found(seqs, i) /\ seqs \in Seq(Part) /\ i \in 1..Len(str) /\ token = str[i]
      /\ size = Total(seqs) /\ LinksOf(seqs) /\ HasRead(str[i] \div 16, i + 1)
  BY <1>1, <1>2 DEF InLiterals, Found
<1>5. /\ str \in Strings /\ Len(str) \in Nat /\ End = Len(str) + 1
      /\ p \in Nat /\ s \in Nat /\ size \in Nat /\ linksize \in Nat
      /\ From(str)[i] = SequencesAt(str, From(str), i) /\ i # Len(str) + 1
      /\ i \in 1..(Len(str) + 1) /\ Sequences(str) = From(str)[1]
  BY <1>1, <1>4, Str
<1>6. HasLit(str, i) /\ LitAt(str, i) = [value |-> s, next |-> p] /\ OffAt(str, i) = p + s
  BY <1>4 DEF HasRead, HasLit, LitAt, OffAt
<1>7. CASE ~AtEnd
  <2>1. OffAt(str, i) + 2 < End
    BY <1>5, <1>6, <1>7 DEF AtEnd
  <2>2. InMatch(seqs, i)' /\ pc' = "offset"
    BY <1>3, <1>4, <1>6, <1>7, <2>1, FoundStays DEF InMatch, LinksOf
  <2> QED BY <1>1, <2>2 DEF Scanned
<1>8. CASE AtEnd /\ p' = End
  <2> DEFINE last == [lit |-> s, match |-> 0, offset |-> 0]
             all == Append(seqs, last)
  <2>1. last \in Part /\ last.lit = s /\ last.match = 0 /\ last.offset = 0
    BY <1>5 DEF Part
  <2>2. From(str)[i] = Parsed(<<last>>)
    <3>1. OffAt(str, i) = Len(str) + 1 /\ LitAt(str, i).value = s
      BY <1>3, <1>5, <1>6, <1>8
    <3>2. SequencesAt(str, From(str), i) =
            Parsed(<<[lit |-> LitAt(str, i).value, match |-> 0, offset |-> 0]>>)
      BY <1>5, <1>6, <3>1, SequencesAtIs
    <3> QED BY <1>5, <3>1, <3>2
  <2> HIDE DEF last
  <2>3. /\ Total(seqs) \in Nat /\ Total(all) = Total(seqs) + s + 0
        /\ \A d \in Nat : Reaches(all, d) <=> Reaches(seqs, d) /\ 0 <= d + Total(seqs) + s
    BY <1>4, <2>1, OneMore
  <2>4. Divides(str) /\ Sequences(str).seqs = all
    <3>1. seqs \o <<last>> = all
      BY <1>4, <2>1, AppendIsConcat
    <3> QED BY <1>4, <2>2, <3>1 DEF Found, Parsed
  <2>5. size' = DecodedSize(str)
    BY <1>3, <1>4, <1>5, <2>3, <2>4 DEF DecodedSize, Total
  <2>6. \A d \in Nat : linksize <= d <=> DecodesWith(str, d)
    <3>1. \A d \in Nat : DecodesWith(str, d) <=> Reaches(all, d)
      BY <2>4 DEF DecodesWith, Reaches
    <3>2. \A d \in Nat : 0 <= d + Total(seqs) + s
      BY <1>5, <2>3
    <3> QED BY <1>4, <2>3, <3>1, <3>2 DEF LinksOf
  <2>7. Reported' /\ pc' = "done"
    BY <1>3, <1>8, <2>4, <2>5, <2>6 DEF Reported
  <2> QED BY <1>1, <2>7 DEF Scanned
<1>9. CASE AtEnd /\ p' # End
  <2>1. OffAt(str, i) # Len(str) + 1 /\ OffAt(str, i) + 2 >= Len(str) + 1
    BY <1>3, <1>5, <1>6, <1>9 DEF AtEnd
  <2>2. From(str)[i] = Malformed
    BY <1>5, <1>6, <2>1, SequencesAtIs
  <2>3. ~Divides(str)
    BY <1>4, <2>2 DEF Found, Malformed
  <2> QED BY <1>1, <1>3, <1>9, <2>3 DEF Scanned
<1> QED BY <1>7, <1>8, <1>9

LEMMA OffsetScans ==
  ASSUME Scanned, Offset PROVE Scanned'
<1>1. IInv /\ IInv' /\ pc = "offset"
  BY OffsetStep DEF Scanned, Offset
<1>2. PICK seqs, i : InMatch(seqs, i)
  BY <1>1 DEF Scanned
<1>3. /\ str' = str /\ token' = token /\ size' = size /\ End' = End
      /\ linksize' = Link(str[p] + 256 * str[p + 1])
      /\ p' = p + 2 /\ s' = token % 16
      /\ pc' = IF s' = 15 THEN "expandmatch" ELSE "match"
  BY DEF Offset, End
<1>4. PICK n, off : n = str[i] % 16 /\ off = OffAt(str, i)
  OBVIOUS
<1>5. /\ Found(seqs, i) /\ seqs \in Seq(Part) /\ i \in 1..Len(str) /\ token = str[i]
      /\ HasLit(str, i) /\ p = off /\ off + 2 < End
      /\ size = Total(seqs) + LitAt(str, i).value /\ LinksOf(seqs)
  BY <1>1, <1>2, <1>4 DEF InMatch, Found
<1>6. /\ str \in Strings /\ Len(str) \in Nat /\ End = Len(str) + 1
      /\ p \in Nat \ {0} /\ size \in Nat /\ linksize \in Nat
      /\ n \in Nat /\ n < 16
  BY <1>1, <1>4, <1>5, Str, StringBytes
<1>7. PICK o \in Nat : o = str[p] + 256 * str[p + 1]
  <2>1. p \in 1..Len(str) /\ p + 1 \in 1..Len(str)
    BY <1>5, <1>6
  <2>2. str[p] \in Nat /\ str[p + 1] \in Nat
    BY <1>6, <2>1, StringBytes
  <2> QED BY <2>2
<1>8. /\ (str[i] % 16)' = n /\ OffAt(str, i)' = off
      /\ (str[OffAt(str, i)] + 256 * str[OffAt(str, i) + 1])' = o
  BY <1>3, <1>4, <1>5, <1>7
<1>9. linksize' = IF o - size > linksize THEN o - size ELSE linksize
  BY <1>3, <1>7 DEF Link
<1>10. LinksAlso(seqs, o)'
  <2>1. \A d \in Nat : linksize' <= d <=> linksize <= d /\ o <= d + size
    BY <1>6, <1>7, <1>9
  <2>2. \A d \in Nat : linksize <= d <=> Reaches(seqs, d)
    BY <1>5 DEF LinksOf
  <2> QED BY <1>3, <2>1, <2>2 DEF LinksAlso
<1>11. CASE n = 15
  <2>1. Expands(n, off + 2)'
    <3>1. p + 2 \in (off + 2)..End
      BY <1>5, <1>6
    <3>2. 15 + 255 * ((p + 2) - (off + 2)) = 15
      BY <1>5, <1>6
    <3>3. \A j \in (off + 2)..((p + 2) - 1) : FALSE
      BY <1>5, <1>6
    <3> QED BY <1>3, <1>4, <1>5, <1>11, <3>1, <3>2, <3>3 DEF Expands
  <2>2. pc' = "expandmatch"
    BY <1>3, <1>4, <1>5, <1>11
  <2>3. InMatch(seqs, i)'
    BY <1>3, <1>5, <1>8, <1>10, <2>1, <2>2, FoundStays DEF InMatch
  <2> QED BY <1>1, <2>2, <2>3 DEF Scanned
<1>12. CASE n # 15
  <2>1. n < 15
    BY <1>6, <1>12
  <2>2. HasRead(n, off + 2)'
    BY <1>3, <1>4, <1>5, <2>1 DEF HasRead, HasLength, LengthAt
  <2>3. pc' = "match"
    BY <1>3, <1>4, <1>5, <1>12
  <2>4. InMatch(seqs, i)'
    BY <1>3, <1>5, <1>8, <1>10, <2>2, <2>3, FoundStays DEF InMatch
  <2> QED BY <1>1, <2>3, <2>4 DEF Scanned
<1> QED BY <1>11, <1>12

LEMMA MatchScans ==
  ASSUME Scanned, Match PROVE Scanned'
<1>1. IInv /\ IInv' /\ pc = "match"
  BY MatchStep DEF Scanned, Match
<1>2. PICK seqs, i : InMatch(seqs, i)
  BY <1>1 DEF Scanned
<1>3. /\ str' = str /\ p' = p /\ linksize' = linksize /\ size' = size + s + 4
      /\ pc' = "token" /\ End' = End
  BY DEF Match, End
<1>4. /\ Found(seqs, i) /\ seqs \in Seq(Part) /\ i \in 1..Len(str)
      /\ HasLit(str, i) /\ OffAt(str, i) + 2 < End
      /\ size = Total(seqs) + LitAt(str, i).value
      /\ LinksAlso(seqs, PartAt(str, i).offset)
      /\ HasRead(str[i] % 16, OffAt(str, i) + 2)
  BY <1>1, <1>2 DEF InMatch, Found, PartAt
<1>5. /\ str \in Strings /\ Len(str) \in Nat /\ End = Len(str) + 1
      /\ s \in Nat /\ size \in Nat /\ linksize \in Nat
      /\ From(str)[i] = SequencesAt(str, From(str), i)
      /\ i # Len(str) + 1 /\ i \in 1..(Len(str) + 1)
  BY <1>1, <1>4, Str
<1>6. p \in 1..End /\ p \in Nat
  BY <1>1, <1>5 DEF IInv, TypeOK
<1>7. HasMatch(str, i) /\ MatchAt(str, i) = [value |-> s, next |-> p]
  BY <1>4 DEF HasRead, HasMatch, MatchAt
<1>16. PICK part, all : part = PartAt(str, i) /\ all = Append(seqs, part)
  OBVIOUS
<1>8. /\ part \in Part /\ part.lit = LitAt(str, i).value /\ part.match = s + 4
      /\ LitAt(str, i).value \in Nat /\ OffAt(str, i) \in Nat
  <2>1. MatchAt(str, i).value = s
    BY <1>7
  <2> QED BY <1>4, <1>5, <1>7, <1>16, <2>1, Places DEF PartAt
<1>9. From(str)[i] = IF p >= Len(str) + 1 \/ ~From(str)[p].ok THEN Malformed
                     ELSE Parsed(<<part>> \o From(str)[p].seqs)
  <2>1. OffAt(str, i) # Len(str) + 1 /\ ~(OffAt(str, i) + 2 >= Len(str) + 1)
    BY <1>4, <1>5, <1>8
  <2>2. MatchAt(str, i).next = p
    BY <1>7
  <2>3. SequencesAt(str, From(str), i) =
          IF MatchAt(str, i).next >= Len(str) + 1 \/ ~From(str)[MatchAt(str, i).next].ok
            THEN Malformed
            ELSE Parsed(<<PartAt(str, i)>> \o From(str)[MatchAt(str, i).next].seqs)
    BY <1>4, <1>5, <1>7, <2>1, SequencesAtIs
  <2> QED BY <1>5, <1>16, <2>2, <2>3
<1>10. From(str)[p] \in Parse /\ (p >= Len(str) + 1 => ~From(str)[p].ok)
  <2>1. From(str)[p] \in Parse /\ From(str)[p] = SequencesAt(str, From(str), p)
    BY <1>1, <1>6, Str
  <2>2. p >= Len(str) + 1 => p = Len(str) + 1
    BY <1>5, <1>6
  <2>3. p = Len(str) + 1 => From(str)[p] = Malformed
    BY <1>5, <1>6, <2>1, SequencesAtIs
  <2> QED BY <2>1, <2>2, <2>3 DEF Malformed
<1>11. /\ all \in Seq(Part) /\ Total(seqs) \in Nat
       /\ Total(all) = Total(seqs) + part.lit + part.match
       /\ \A d \in Nat : Reaches(all, d) <=>
            Reaches(seqs, d) /\ part.offset <= d + Total(seqs) + part.lit
  BY <1>4, <1>8, <1>16, OneMore
<1>12. Found(all, p)
  <2>1. Divides(str) <=> From(str)[p].ok
    BY <1>4, <1>9, <1>10 DEF Found, Malformed, Parsed
  <2>2. ASSUME Divides(str)
        PROVE  Sequences(str).seqs = all \o From(str)[p].seqs
    <3>1. From(str)[i].seqs = <<part>> \o From(str)[p].seqs
      BY <1>9, <1>10, <2>1, <2>2 DEF Parsed
    <3>2. Sequences(str).seqs = seqs \o (<<part>> \o From(str)[p].seqs)
      BY <1>4, <2>2, <3>1 DEF Found
    <3>3. /\ <<part>> \in Seq(Part) /\ From(str)[p].seqs \in Seq(Part)
          /\ all = seqs \o <<part>>
      BY <1>4, <1>8, <1>10, <1>16, AppendIsConcat DEF Parse
    <3>4. (seqs \o <<part>>) \o From(str)[p].seqs = seqs \o (<<part>> \o From(str)[p].seqs)
      <4> DEFINE one == <<part>>
                 rest == From(str)[p].seqs
      <4> HIDE DEF one, rest
      <4>1. seqs \in Seq(Part) /\ one \in Seq(Part) /\ rest \in Seq(Part)
        BY <1>4, <3>3 DEF one, rest
      <4>2. (seqs \o one) \o rest = seqs \o (one \o rest)
        BY <4>1, ConcatAssociative
      <4> QED BY <4>2 DEF one, rest
    <3> QED BY <3>2, <3>3, <3>4
  <2> QED BY <1>6, <1>11, <2>1, <2>2 DEF Found
<1>13. size' = Total(all)
  <2>1. size = Total(seqs) + part.lit /\ part.match = s + 4 /\ part.lit \in Nat
    BY <1>4, <1>8
  <2>2. Total(all) = Total(seqs) + part.lit + part.match /\ Total(seqs) \in Nat
    BY <1>11
  <2> QED BY <1>3, <1>5, <2>1, <2>2
<1>14. \A d \in Nat : linksize <= d <=> Reaches(all, d)
  <2>1. \A d \in Nat : d + size = d + Total(seqs) + part.lit
    BY <1>4, <1>8, <1>11
  <2>2. \A d \in Nat : linksize <= d <=> Reaches(seqs, d) /\ part.offset <= d + size
    BY <1>4, <1>16 DEF LinksAlso
  <2> QED BY <1>11, <2>1, <2>2
<1>15. AtToken'
  <2>1. Found(all, p)'
    BY <1>3, <1>12 DEF Found
  <2>2. LinksOf(all)'
    BY <1>3, <1>14 DEF LinksOf
  <2>3. (size = Total(all))'
    BY <1>3, <1>13
  <2> QED BY <1>3, <2>1, <2>2, <2>3 DEF AtToken
<1> QED BY <1>1, <1>3, <1>15 DEF Scanned

LEMMA EndScans ==
  ASSUME Scanned, EndOfString PROVE Scanned'
<1>1. /\ IInv /\ IInv' /\ pc \in {"token", "expandliterals", "expandmatch"}
      /\ p >= End /\ str' = str /\ pc' = "raised"
  BY EndStep DEF Scanned, EndOfString, rb_raise
<1>2. /\ str \in Strings /\ Len(str) \in Nat /\ End = Len(str) + 1 /\ p \in Nat
  BY <1>1, Str
<1>3. p = End
  BY <1>1, <1>2 DEF IInv, TypeOK
<1>4. \A n, i : i \in Nat /\ Expands(n, i) => ~HasLength(str, n, i)
  BY <1>2, <1>3 DEF Expands, HasLength
<1>5. \E i \in 1..End : From(str)[i] = Malformed /\ (Divides(str) <=> From(str)[i].ok)
  <2>1. CASE pc = "token"
    <3>1. \E seqs : Found(seqs, p)
      BY <2>1 DEF Scanned, AtToken
    <3>2. SequencesAt(str, From(str), End) = Malformed
      <4>1. End \in 1..(Len(str) + 1)
        BY <1>2
      <4> QED BY <1>2, <4>1, SequencesAtIs
    <3> QED BY <1>1, <1>3, <3>1, <3>2, Str DEF Found
  <2>2. CASE pc = "expandliterals"
    <3>1. PICK seqs, i : InLiterals(seqs, i)
      BY <2>2 DEF Scanned
    <3>2. Found(seqs, i) /\ i \in 1..End /\ i \in 1..Len(str) /\ i + 1 \in Nat
          /\ Expands(str[i] \div 16, i + 1)
      BY <2>2, <3>1, <1>2 DEF InLiterals, Found
    <3>3. SequencesAt(str, From(str), i) = Malformed
      BY <1>2, <1>4, <3>2, SequencesAtIs DEF HasLit
    <3> QED BY <1>1, <3>2, <3>3, Str DEF Found
  <2>3. CASE pc = "expandmatch"
    <3>1. PICK seqs, i : InMatch(seqs, i)
      BY <2>3 DEF Scanned
    <3>2. /\ Found(seqs, i) /\ i \in 1..End /\ i \in 1..Len(str) /\ HasLit(str, i)
          /\ OffAt(str, i) + 2 < End /\ Expands(str[i] % 16, OffAt(str, i) + 2)
      BY <2>3, <3>1, <1>2 DEF InMatch, Found
    <3>3. OffAt(str, i) \in Nat /\ i # Len(str) + 1
      BY <1>2, <3>2, Places
    <3>4. ~HasMatch(str, i) /\ OffAt(str, i) # Len(str) + 1
      BY <1>2, <1>4, <3>2, <3>3 DEF HasMatch
    <3>5. SequencesAt(str, From(str), i) = Malformed
      BY <1>2, <3>2, <3>3, <3>4, SequencesAtIs
    <3> QED BY <1>1, <3>2, <3>5, Str DEF Found
  <2> QED BY <1>1, <2>1, <2>2, <2>3
<1>6. ~Divides(str')
  BY <1>1, <1>5 DEF Malformed
<1> QED BY <1>1, <1>6 DEF Scanned

LEMMA StutterScans ==
  ASSUME Scanned, UNCHANGED vars PROVE Scanned'
<1>1. IInv'
  BY StutterStep DEF Scanned
<1>2. UNCHANGED <<str, p, token, s, size, linksize, pc>>
  BY DEF vars
<1>3. \A seqs, i : Found(seqs, i) => Found(seqs, i)'
  BY <1>2, FoundStays
<1>4. AtToken => AtToken'
  BY <1>2, <1>3 DEF AtToken, LinksOf
<1>5. \A seqs, i : InLiterals(seqs, i) => InLiterals(seqs, i)'
  BY <1>2, <1>3 DEF InLiterals, LinksOf, Expands, HasRead, End
<1>6. \A seqs, i : InMatch(seqs, i) => InMatch(seqs, i)'
  BY <1>2, <1>3 DEF InMatch, LinksOf, LinksAlso, Expands, HasRead, End
<1>7. Reported => Reported'
  BY <1>2 DEF Reported
<1>8. Divides(str') <=> Divides(str)
  BY <1>2
<1> QED BY <1>1, <1>2, <1>4, <1>5, <1>6, <1>7, <1>8 DEF Scanned

LEMMA StepScans == Scanned /\ [Next]_vars => Scanned'
BY TokenScans, ExpandLiteralsScans, ExpandMatchScans, LiteralsScans, OffsetScans,
   MatchScans, EndScans, StutterScans, Zenon DEF Next

LEMMA AlwaysScanned == Spec => []Scanned
BY ScannedInit, StepScans, PTL DEF Spec

-----------------------------------------------------------------------------
\* For every string: scansize returns if it is a well-formed block or one but
\* for match offsets of 0, and raises if it is neither.
THEOREM ScansBlocks == Spec => []ScansWellFormed
<1>1. Scanned => ScansWellFormed
  BY DEF Scanned, Reported, ScansWellFormed, WellFormed
<1> QED BY <1>1, AlwaysScanned, PTL

\* For every string: scansize returns the size of what the block decodes to.
THEOREM SizeIsRight == Spec => []SizeIsDecoded
<1>1. Scanned => SizeIsDecoded
  BY DEF Scanned, Reported, SizeIsDecoded
<1> QED BY <1>1, AlwaysScanned, PTL

\* For every string: linksize is a dictionary that suffices to decode the
\* block, and no smaller one does.
THEOREM LinkIsRight == Spec => []LinkIsLeast
<1>1. Scanned => LinkIsLeast
  <2> SUFFICES ASSUME Scanned, pc = "done"
               PROVE  /\ DecodesWith(str, linksize)
                      /\ linksize > 0 => ~DecodesWith(str, linksize - 1)
    BY DEF LinkIsLeast
  <2>1. \A d \in Nat : linksize <= d <=> DecodesWith(str, d)
    BY DEF Scanned, Reported
  <2>2. linksize \in Nat
    BY DEF Scanned, IInv, TypeOK
  <2>3. linksize <= linksize /\ (linksize > 0 => linksize - 1 \in Nat /\ ~(linksize <= linksize - 1))
    BY <2>2
  <2> QED BY <2>1, <2>2, <2>3
<1> QED BY <1>1, AlwaysScanned, PTL
=============================================================================
