---------------------------- MODULE StreamFixer ----------------------------
(***************************************************************************)
(* LZ4::StreamFixerForBug_0_1 of lib/extlz4/fix-0.1bug.rb, which copies a  *)
(* stream written by extlz4-0.1.  There the size of a literal block was    *)
(* that of the coded block, which is not shorter.                          *)
(***************************************************************************)
EXTENDS Integers, SequencesExt

CONSTANT BlockMaximum  \* @blockmaximum, in bytes

VARIABLES
  fin,     \* what is left of the input, as items
  fixed,   \* what was written
  fheader, \* what the header of the input says
  fpc      \* off, header, blocks, streamsum, done, or lost

fixer == <<fin, fixed, fheader, fpc>>

NoOptions == [linked |-> FALSE, blocksum |-> FALSE, streamsum |-> FALSE]

Init == fin = <<>> /\ fixed = <<>> /\ fheader = NoOptions /\ fpc = "off"

Word == 4

\* The bytes of items; @io.size - @io.pos for those that are left.
Bytes(items) ==
  LET upto[i \in 0..Len(items)] ==
        IF i = 0 THEN 0
        ELSE upto[i - 1] + (IF items[i].item = "payload" THEN items[i].block.n ELSE Word)
  IN  upto[Len(items)]

Fix(file) ==
  /\ fpc = "off"
  /\ fin' = Tail(file) /\ fheader' = Head(file).opts
  /\ fpc' = "header"
  /\ UNCHANGED fixed

\* The bit for independent blocks is written if they are not.
export_header ==
  /\ fpc = "header"
  /\ fixed' = <<[item |-> "header", opts |-> [fheader EXCEPT !.linked = ~@]]>>
  /\ fpc' = "blocks"
  /\ UNCHANGED <<fin, fheader>>

\* Where the last block ends, from where the block begins.
EndOfBlock ==
  Bytes(Tail(fin)) - Word - (IF fheader.blocksum THEN Word ELSE 0)
                          - (IF fheader.streamsum THEN Word ELSE 0)

\* Mutant: the block may reach up to the end mark of the stream.
CorrectSize_ToTheEnd(n) ==
  LET end == Bytes(Tail(fin)) - Word
      most == IF end > BlockMaximum THEN BlockMaximum ELSE end
  IN  IF n > most THEN most ELSE n

CorrectSize(n) ==
  LET most == IF EndOfBlock > BlockMaximum THEN BlockMaximum ELSE EndOfBlock
  IN  IF n > most THEN most ELSE n

export_fixedblock ==
  LET size == Head(fin)
      n == IF size.literal THEN CorrectSize(size.n) ELSE size.n
      block == SubSeq(fin, 2, IF fheader.blocksum THEN 3 ELSE 2)
  IN
  /\ fpc = "blocks" /\ fin # <<>> /\ size.item = "size" /\ size.n > 0
  /\ IF block # <<>> /\ block[1].item = "payload" /\ block[1].block.n = n
       THEN /\ fixed' = fixed \o <<[size EXCEPT !.n = n]>> \o block
            /\ fin' = SubSeq(fin, Len(block) + 2, Len(fin))
            /\ UNCHANGED fpc
       ELSE fpc' = "lost" /\ UNCHANGED <<fixed, fin>>
  /\ UNCHANGED fheader

\* The end mark is copied.
EndOfBlocks ==
  /\ fpc = "blocks" /\ fin # <<>> /\ Head(fin).item = "size" /\ Head(fin).n = 0
  /\ fixed' = Append(fixed, Head(fin))
  /\ fin' = Tail(fin)
  /\ fpc' = IF fheader.streamsum THEN "streamsum" ELSE "done"
  /\ UNCHANGED fheader

export_streamsum ==
  /\ fpc = "streamsum"
  /\ fixed' = fixed \o fin
  /\ fin' = <<>> /\ fpc' = "done"
  /\ UNCHANGED fheader

FixerStep == export_header \/ export_fixedblock \/ EndOfBlocks \/ export_streamsum
=============================================================================
