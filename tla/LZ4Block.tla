------------------------------ MODULE LZ4Block ------------------------------
(***************************************************************************)
(* The block format: a block is a list of sequences, each some literals    *)
(* and a match, of which the last has literals only.  Neither the format   *)
(* nor the library that decodes it is part of the repository.  What the    *)
(* format asks of a compressor only, such as the last five bytes being      *)
(* literals, is left out.                                                  *)
(***************************************************************************)
EXTENDS Integers, SequencesExt

\* A length in four bits and, from 15 on, the bytes from i: k is the last of
\* them, the first that is not 255.
LastExtra(bs, i, k) == bs[k] # 255 /\ \A j \in i..(k - 1) : bs[j] = 255

HasLength(bs, nibble, i) == nibble < 15 \/ \E k \in i..Len(bs) : bs[k] # 255

LengthAt(bs, nibble, i) ==
  IF nibble < 15 THEN [value |-> nibble, next |-> i]
  ELSE LET k == CHOOSE k \in i..Len(bs) : LastExtra(bs, i, k)
       IN  [value |-> 15 + 255 * (k - i) + bs[k], next |-> k + 1]

Malformed == [ok |-> FALSE, seqs |-> <<>>]
Parsed(seqs) == [ok |-> TRUE, seqs |-> seqs]

\* How bs divides into sequences from i to its end, when from says how it does
\* from any later place.  What the offsets are is WellFormed's to judge.
SequencesAt(bs, from, i) ==
  LET end == Len(bs) + 1
      lit == LengthAt(bs, bs[i] \div 16, i + 1)
      off == lit.next + lit.value
      match == LengthAt(bs, bs[i] % 16, off + 2)
  IN
  IF i = end \/ ~HasLength(bs, bs[i] \div 16, i + 1) THEN Malformed
  ELSE IF off = end
    THEN Parsed(<<[lit |-> lit.value, match |-> 0, offset |-> 0]>>)
  ELSE IF off + 2 >= end \/ ~HasLength(bs, bs[i] % 16, off + 2) THEN Malformed
  ELSE IF match.next >= end \/ ~from[match.next].ok THEN Malformed
  ELSE Parsed(<<[lit |-> lit.value, match |-> match.value + 4,
                     offset |-> bs[off] + 256 * bs[off + 1]]>>
                  \o from[match.next].seqs)

\* How bs divides into sequences, found from its end to its beginning.
Sequences(bs) ==
  LET from[i \in 1..(Len(bs) + 1)] == SequencesAt(bs, from, i) IN from[1]

Divides(bs) == Sequences(bs).ok

\* A match that repeats what is not there yet.
ZeroOffset(bs) ==
  LET seqs == Sequences(bs).seqs
  IN  \E n \in DOMAIN seqs : seqs[n].match > 0 /\ seqs[n].offset = 0

WellFormed(bs) == Divides(bs) /\ ~ZeroOffset(bs)

\* What the first n sequences decode to, in bytes.
Decoded(seqs, n) ==
  LET size[m \in 0..Len(seqs)] ==
        IF m = 0 THEN 0 ELSE size[m - 1] + seqs[m].lit + seqs[m].match
  IN  size[n]

DecodedSize(bs) == Decoded(Sequences(bs).seqs, Len(Sequences(bs).seqs))

\* With d bytes in front of it, every match refers to something that is there.
DecodesWith(bs, d) ==
  LET seqs == Sequences(bs).seqs
  IN  \A n \in DOMAIN seqs : seqs[n].offset <= d + Decoded(seqs, n - 1) + seqs[n].lit
=============================================================================
