---------------------------- MODULE MCBlockScan ----------------------------
(* All short strings of some bytes, and blocks with lengths around 15 and  *)
(* around 15 + 255, of which the end may be missing.                       *)
EXTENDS BlockScan

Extra(n) == IF n < 15 THEN <<>>
            ELSE [i \in 1..((n - 15) \div 255 + 1) |->
                    IF i <= (n - 15) \div 255 THEN 255 ELSE (n - 15) % 255]
Nibble(n) == IF n < 15 THEN n ELSE 15
Zeros(n) == [i \in 1..n |-> 0]

Block(lit, match, offset, tail) ==
  <<16 * Nibble(lit) + Nibble(match)>> \o Extra(lit) \o Zeros(lit)
  \o <<offset % 256, offset \div 256>> \o Extra(match) \o <<16 * tail>> \o Zeros(tail)

Bytes == {0, 1, 16, 31, 240, 255}

SmallBlocks ==
  UNION {[1..n -> Bytes] : n \in 0..5} \cup
  {LET b == Block(lit, match, offset, tail) IN SubSeq(b, 1, Len(b) - cut) :
     lit \in {0, 14, 15, 269, 270}, match \in {0, 14, 15, 270}, offset \in {1, 300, 65535},
     tail \in {0, 2}, cut \in 0..3}
=============================================================================
