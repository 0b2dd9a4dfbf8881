----------------------------- MODULE BlockScan -----------------------------
(***************************************************************************)
(* aux_lz4_scanseq of ext/blockapi.c, which finds out how long a block is  *)
(* when it is decoded, and how much of a dictionary it needs, from bytes   *)
(* that may be anything.                                                   *)
(***************************************************************************)
EXTENDS LZ4Block

CONSTANT Blocks  \* the strings given to scansize and linksize

ASSUME BlocksAssumption == Blocks \subseteq Seq(0..255)

VARIABLES
  str,      \* the string
  p,        \* the next byte
  token, s, \* the locals of the loop
  size, linksize,
  pc        \* token, literals (and their length), offset, match, done, raised

vars == <<str, p, token, s, size, linksize, pc>>

End == Len(str) + 1

Init ==
  /\ str \in Blocks
  /\ p = 1 /\ token = 0 /\ s = 0 /\ size = 0 /\ linksize = 0
  /\ pc = "token"

rb_raise == pc' = "raised" /\ UNCHANGED <<str, p, token, s, size, linksize>>

Token ==
  /\ pc = "token" /\ p < End
  /\ token' = str[p] /\ p' = p + 1 /\ s' = str[p] \div 16
  /\ pc' = IF s' = 15 THEN "expandliterals" ELSE "literals"
  /\ UNCHANGED <<str, size, linksize>>

\* Mutant: the nibble is forgotten.
expandsize_Only(next) ==
  /\ p < End
  /\ p' = p + 1 /\ s' = IF s = 15 THEN str[p] ELSE s + str[p]
  /\ pc' = IF str[p] = 255 THEN pc ELSE next
  /\ UNCHANGED <<str, token, size, linksize>>

\* One round of aux_lz4_expandsize.
expandsize(next) ==
  /\ p < End
  /\ p' = p + 1 /\ s' = s + str[p]
  /\ pc' = IF str[p] = 255 THEN pc ELSE next
  /\ UNCHANGED <<str, token, size, linksize>>

ExpandLiterals == pc = "expandliterals" /\ expandsize("literals")
ExpandMatch == pc = "expandmatch" /\ expandsize("match")

\* Mutant: it is enough that there is one more byte.
AtEnd_One == p + s >= End

AtEnd == p + s + 2 >= End

\* Mutant: the literals may be cut short.
Literals_Cut ==
  /\ pc = "literals"
  /\ size' = size + s /\ p' = p + s
  /\ pc' = IF ~AtEnd THEN "offset" ELSE IF p' >= End THEN "done" ELSE "raised"
  /\ UNCHANGED <<str, token, s, linksize>>

Literals ==
  /\ pc = "literals"
  /\ size' = size + s /\ p' = p + s
  /\ pc' = IF ~AtEnd THEN "offset" ELSE IF p' = End THEN "done" ELSE "raised"
  /\ UNCHANGED <<str, token, s, linksize>>

\* Mutant: matches that begin in the block count.
Link_Inside(offset) == IF offset > linksize THEN offset ELSE linksize

\* How far before the block the match begins, if it does.
Link(offset) == IF offset - size > linksize THEN offset - size ELSE linksize

Offset ==
  /\ pc = "offset"
  /\ linksize' = Link(str[p] + 256 * str[p + 1])
  /\ p' = p + 2 /\ s' = token % 16
  /\ pc' = IF s' = 15 THEN "expandmatch" ELSE "match"
  /\ UNCHANGED <<str, token, size>>

Match ==
  /\ pc = "match"
  /\ size' = size + s + 4
  /\ pc' = "token"
  /\ UNCHANGED <<str, p, token, s, linksize>>

\* The string ends where it must not.
EndOfString == pc \in {"token", "expandliterals", "expandmatch"} /\ p >= End /\ rb_raise

Next == Token \/ ExpandLiterals \/ ExpandMatch \/ Literals \/ Offset \/ Match \/ EndOfString

Spec == Init /\ [][Next]_vars

-----------------------------------------------------------------------------
\* No byte behind the string is read: where the code reads one without
\* looking for the end, it is there.
TypeOK ==
  /\ p \in Nat \ {0} /\ s \in Nat /\ size \in Nat
  /\ token \in Nat /\ token < 256
  /\ linksize \in Nat /\ linksize < 65536
  /\ pc = "offset" => p + 1 < End
  /\ pc \notin {"raised"} => p <= End \/ pc = "literals"

\* scansize returns for the blocks that are well formed, however they came
\* about, and raises for all strings that are not, but for one thing: it does
\* not mind a match offset of 0, which the format forbids (blockapi.c:133
\* would raise, but is left out of the build).
ScansWellFormed ==
  /\ pc = "done" => WellFormed(str) \/ (Divides(str) /\ ZeroOffset(str))
  /\ pc = "raised" => ~Divides(str)

\* What it returns is the size that a destination for the block must have.
SizeIsDecoded == pc = "done" /\ Divides(str) => size = DecodedSize(str)

\* linksize is the least dictionary the block can be decoded with.
LinkIsLeast ==
  pc = "done" /\ Divides(str) =>
    /\ DecodesWith(str, linksize)
    /\ linksize > 0 => ~DecodesWith(str, linksize - 1)
=============================================================================
