---------------------------- MODULE BlockDecoder ----------------------------
(***************************************************************************)
(* LZ4::BlockDecoder of ext/blockapi.c: decodes a stream of linked LZ4     *)
(* blocks.  Matches of a block reach back into what the blocks before it   *)
(* decoded to, so the decoder keeps the last bytes of that in dictbuf, a C *)
(* array it shifts and fills by hand.                                      *)
(*                                                                         *)
(* LZ4_decompress_safe_continue is outside the repository: it may produce  *)
(* any string, or fail.                                                    *)
(***************************************************************************)
EXTENDS Integers, Sequences

CONSTANTS
  W,       \* sizeof(dictbuf), 64 KiB
  Bytes,   \* the values of a byte
  Zero,    \* the value of zeroed memory
  Inputs,  \* preset dictionaries, and what blocks decode to
  Faults   \* a subset of {"corrupt", "interrupt", "memory"}

ASSUME DecoderAssumption ==
  /\ W \in Nat \ {0}
  /\ Zero \in Bytes
  /\ Inputs \subseteq Seq(Bytes)
  /\ <<>> \in Inputs
  /\ Faults \subseteq {"corrupt", "interrupt", "memory"}

VARIABLES
  context,   \* context is not NULL
  predict,   \* predict; <<>> stands for nil as well, they act the same
  dictsize,  \* dictsize
  dictbuf,   \* dictbuf
  pc,        \* idle, decode (without the interpreter's lock) or copy
  dest       \* what the update in progress decoded

dict == <<dictsize, dictbuf>>
vars == <<context, predict, dictsize, dictbuf, pc, dest>>

Init ==
  /\ context = FALSE /\ predict = <<>>
  /\ dictsize = 0 /\ dictbuf = [i \in 0..(W - 1) |-> Zero]
  /\ pc = "idle" /\ dest = <<>>

\* memcpy(dictbuf + at, s + skip, n)
CopyIn(buf, at, s, skip, n) ==
  [i \in 0..(W - 1) |-> IF i \in at..(at + n - 1) THEN s[skip + i - at + 1]
                                                  ELSE buf[i]]

-----------------------------------------------------------------------------
\* The second half of blkdec_setup: the last bytes of the dictionary.
LoadDict(d) ==
  LET n == IF Len(d) > W THEN W ELSE Len(d)
  IN  dictsize' = n /\ dictbuf' = CopyIn(dictbuf, 0, d, Len(d) - n, n)

\* blkdec_setup with the dictionary that results from the arguments.
blkdec_setup(d) ==
  /\ pc = "idle"
  /\ predict' = d
  /\ context' = TRUE
  /\ LoadDict(d)
  /\ UNCHANGED <<pc, dest>>

\* There is no memory for a context: predict is the new one already.
SetupFails(d) ==
  /\ pc = "idle" /\ ~context /\ "memory" \in Faults
  /\ predict' = d
  /\ UNCHANGED <<context, dict, pc, dest>>

\* A new preset dictionary, or, without one, the one from before.
blkdec_reset ==
  \E d \in Inputs \cup {predict} : blkdec_setup(d) \/ SetupFails(d)

blkdec_release ==
  /\ pc = "idle"
  /\ context' = FALSE /\ predict' = <<>>
  /\ UNCHANGED <<dict, pc, dest>>

-----------------------------------------------------------------------------
\* update raises without a context, and otherwise gives up the lock.
blkdec_update ==
  /\ pc = "idle" /\ context
  /\ pc' = "decode"
  /\ UNCHANGED <<context, predict, dict, dest>>

decompress_safe_continue ==
  /\ pc = "decode"
  /\ \E s \in Inputs : dest' = s
  /\ pc' = "copy"
  /\ UNCHANGED <<context, predict, dict>>

\* The block is corrupt, or an interrupt is raised with the lock taken back.
UpdateRaises ==
  /\ pc = "decode"
  /\ Faults \cap {"corrupt", "interrupt"} # {}
  /\ pc' = "idle"
  /\ UNCHANGED <<context, predict, dict, dest>>

\* Mutants: nothing is discarded; the rest is not moved to the front.
SlideShort_KeepsAll ==
  /\ dictbuf' = CopyIn(dictbuf, dictsize, dest, 0, Len(dest))
  /\ dictsize' = dictsize + Len(dest)

SlideShort_Unmoved ==
  LET discard == dictsize + Len(dest) - W
      remain == IF discard > 0 THEN dictsize - discard ELSE dictsize
  IN  /\ dictbuf' = CopyIn(dictbuf, remain, dest, 0, Len(dest))
      /\ dictsize' = remain + Len(dest)

\* A short block: shift out what no longer fits and append it.
SlideShort ==
  LET discard == dictsize + Len(dest) - W
      remain == IF discard > 0 THEN dictsize - discard ELSE dictsize
      moved == IF discard > 0
                 THEN [i \in 0..(W - 1) |-> IF i < remain THEN dictbuf[i + discard]
                                                         ELSE dictbuf[i]]
                 ELSE dictbuf
  IN  /\ dictbuf' = CopyIn(moved, remain, dest, 0, Len(dest))
      /\ dictsize' = remain + Len(dest)

\* A long block: its last W bytes are all of the dictionary.
SlideLong ==
  /\ dictbuf' = CopyIn(dictbuf, 0, dest, Len(dest) - W, W)
  /\ dictsize' = W

CopyPrefix ==
  /\ pc = "copy"
  /\ IF Len(dest) < W THEN SlideShort ELSE SlideLong
  /\ pc' = "idle" /\ dest' = <<>>
  /\ UNCHANGED <<context, predict>>

Next ==
  \/ blkdec_reset \/ blkdec_release
  \/ blkdec_update \/ decompress_safe_continue \/ UpdateRaises \/ CopyPrefix

Spec == Init /\ [][Next]_vars

-----------------------------------------------------------------------------
\* Every variable keeps its type, and the dictionary never outgrows dictbuf.
TypeOK ==
  /\ context \in BOOLEAN /\ predict \in Inputs
  /\ dictsize \in 0..W /\ dictbuf \in [0..(W - 1) -> Bytes]
  /\ pc \in {"idle", "decode", "copy"} /\ dest \in Inputs

\* What dictbuf holds, as a string.
Window == [i \in 1..dictsize |-> dictbuf[i - 1]]

Sliding == INSTANCE SlidingWindow WITH
  window <- Window, preset <- predict, coded <- dest

\* The shifting and filling of dictbuf amounts to this: it holds the last W
\* bytes of the dictionary that was set and of all that was decoded since, in
\* order.  An update that raises, and a release, leave it alone.
WindowSlides == Sliding!Spec
=============================================================================
