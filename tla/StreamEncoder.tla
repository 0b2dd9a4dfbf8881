--------------------------- MODULE StreamEncoder ---------------------------
(***************************************************************************)
(* LZ4::StreamEncoder of lib/extlz4/oldstream.rb, the frame format written *)
(* in Ruby.  A byte of the content is its offset in it; what is pushed to  *)
(* io is a sequence of items: header, size words, payloads, checksums.     *)
(* The block coder of linked streams is BlockEncoder.                      *)
(***************************************************************************)
EXTENDS Integers, SequencesExt

CONSTANTS
  BlockSize,   \* @blocksize, in bytes
  W,           \* the reach of a match in linked blocks
  Options,     \* @block_dependency, @block_checksum, @stream_checksum
  WriteSizes,  \* the sizes of the strings written
  MaxWritten,  \* a bound on the content
  MaxRaises,   \* a bound on the calls that raise
  EncoderFaults \* a subset of {"coder", "port"}

VARIABLES
  opts,      \* the options
  buf,       \* @buf
  inputproxy,\* what is left of the string written
  w,         \* the block that export_block has coded
  io,        \* what was pushed
  summed,    \* what @stream_checksum was updated with
  epc,       \* idle, slice (in the loop of write), code, size, payload, sum,
             \* end, streamsum, flush
  eop,       \* write or close
  closed,    \* @io is nil
  given,     \* the number of content bytes given to write
  context, predict, stream, prefix,  \* the BlockEncoder of a linked stream
  taken,     \* history: the bytes that have got into @buf
  raised     \* history: what made calls end early, "coder" or "port"

coder == <<context, predict, stream, prefix>>
hist == <<taken, raised>>

Coder == INSTANCE BlockEncoder WITH Faults <- {"interrupt"}

Header(o) == [item |-> "header", opts |-> o]
SizeWord(literal, n) == [item |-> "size", literal |-> literal, n |-> n]
Payload(b) == [item |-> "payload", block |-> b]
BlockSum(b) == [item |-> "sum", block |-> b]
Checksum(of) == [item |-> "sum", of |-> of]
EndMark == SizeWord(FALSE, 0)

\* A coded block: how long it is, what it decodes to, and what it refers to.
Coded(n, s, refers) == [literal |-> FALSE, n |-> n, data |-> s, refers |-> refers]
Literal(s) == [literal |-> TRUE, n |-> Len(s), data |-> s, refers |-> <<>>]

Init ==
  /\ opts \in Options
  /\ buf = <<>> /\ inputproxy = <<>> /\ w = Literal(<<>>)
  /\ io = <<Header(opts)>>
  /\ summed = <<>> /\ epc = "idle" /\ eop = "none" /\ closed = FALSE /\ given = 0
  /\ context = opts.linked /\ predict = <<>> /\ stream = <<>> /\ prefix = <<>>
  /\ taken = <<>> /\ raised = <<>>

-----------------------------------------------------------------------------
Ready == epc = "idle" /\ Len(raised) < MaxRaises

write(n) ==
  /\ Ready /\ given + n <= MaxWritten
  /\ given' = given + n
  /\ inputproxy' = [i \in 1..n |-> given + i]
  /\ epc' = "slice" /\ eop' = "write"
  /\ UNCHANGED <<opts, buf, w, io, summed, closed, coder, hist>>

\* Mutant: what already waits in @buf is not counted.
TakeSlice_Whole ==
  LET n == IF BlockSize < Len(inputproxy) THEN BlockSize ELSE Len(inputproxy)
      slice == SubSeq(inputproxy, 1, n)
  IN
  /\ epc = "slice" /\ inputproxy # <<>>
  /\ buf' = buf \o slice
  /\ taken' = taken \o slice
  /\ inputproxy' = SubSeq(inputproxy, n + 1, Len(inputproxy))
  /\ epc' = IF Len(buf') >= BlockSize THEN "code" ELSE "slice"
  /\ UNCHANGED <<opts, w, io, summed, eop, closed, given, coder, raised>>

\* As much as fits in the block, which is nothing after an export that failed.
TakeSlice ==
  LET room == BlockSize - Len(buf)
      n == IF room < Len(inputproxy) THEN room ELSE Len(inputproxy)
      slice == SubSeq(inputproxy, 1, n)
  IN
  /\ epc = "slice" /\ inputproxy # <<>>
  /\ buf' = buf \o slice
  /\ taken' = taken \o slice
  /\ inputproxy' = SubSeq(inputproxy, n + 1, Len(inputproxy))
  /\ epc' = IF Len(buf') >= BlockSize THEN "code" ELSE "slice"
  /\ UNCHANGED <<opts, w, io, summed, eop, closed, given, coder, raised>>

WriteReturns ==
  /\ epc = "slice" /\ inputproxy = <<>>
  /\ epc' = "idle"
  /\ UNCHANGED <<opts, buf, inputproxy, w, io, summed, eop, closed, given, coder, hist>>

close ==
  /\ Ready
  /\ epc' = IF buf = <<>> THEN "end" ELSE "code"
  /\ eop' = "close"
  /\ UNCHANGED <<opts, buf, inputproxy, w, io, summed, closed, given, coder, hist>>

-----------------------------------------------------------------------------
(* export_block.                                                           *)

\* What is pushed for s, which may get shorter when it is coded, or not.
Blocks(s) ==
  {Coded(n, s, IF opts.linked THEN stream ELSE <<>>) : n \in 1..(Len(s) - 1)} \cup {Literal(s)}

\* The coder runs, whether or not its block is used, and the checksum is
\* updated.
CodeBlock ==
  /\ epc = "code"
  /\ IF opts.linked THEN Coder!blkenc_update(buf) ELSE UNCHANGED coder
  /\ w' \in Blocks(buf)
  /\ summed' = IF opts.streamsum THEN summed \o buf ELSE summed
  /\ epc' = "size"
  /\ UNCHANGED <<opts, buf, inputproxy, io, eop, closed, given, hist>>

\* Mutant: @buf is cleared whatever happens.
CodeRaises_Cleared ==
  /\ epc = "code" /\ "coder" \in EncoderFaults
  /\ IF opts.linked THEN Coder!UpdateRaises(buf) ELSE UNCHANGED coder
  /\ epc' = "idle" /\ inputproxy' = <<>> /\ buf' = <<>>
  /\ raised' = Append(raised, "coder")
  /\ UNCHANGED <<opts, w, io, summed, eop, closed, given, taken>>

\* Mutant: the checksum is updated before the coder runs.
CodeRaises_Summed ==
  /\ epc = "code" /\ "coder" \in EncoderFaults
  /\ IF opts.linked THEN Coder!UpdateRaises(buf) ELSE UNCHANGED coder
  /\ summed' = IF opts.streamsum THEN summed \o buf ELSE summed
  /\ epc' = "idle" /\ inputproxy' = <<>>
  /\ raised' = Append(raised, "coder")
  /\ UNCHANGED <<opts, buf, w, io, eop, closed, given, taken>>

\* No memory, or an interrupt: @buf stays, and is coded again by the next call.
CodeRaises ==
  /\ epc = "code" /\ "coder" \in EncoderFaults
  /\ IF opts.linked THEN Coder!UpdateRaises(buf) ELSE UNCHANGED coder
  /\ epc' = "idle" /\ inputproxy' = <<>>
  /\ raised' = Append(raised, "coder")
  /\ UNCHANGED <<opts, buf, w, io, summed, eop, closed, given, taken>>

\* @io << item, after which the call goes on at next.
Push(pc, item, next) ==
  /\ epc = pc /\ ~closed
  /\ io' = Append(io, item)
  /\ epc' = next
  /\ UNCHANGED <<opts, inputproxy, w, summed, eop, closed, given, coder, hist>>

AfterBlock == IF eop = "close" THEN "end" ELSE "slice"

PushSize == Push("size", SizeWord(w.literal, w.n), "payload") /\ UNCHANGED buf

PushPayload ==
  /\ Push("payload", Payload(w), IF opts.blocksum THEN "sum" ELSE AfterBlock)
  /\ buf' = IF opts.blocksum THEN buf ELSE <<>>

PushSum == Push("sum", BlockSum(w), AfterBlock) /\ buf' = <<>>

PushEnd == Push("end", EndMark, IF opts.streamsum THEN "streamsum" ELSE "flush") /\ UNCHANGED buf

PushStreamSum == Push("streamsum", Checksum(summed), "flush") /\ UNCHANGED buf

Flush ==
  /\ epc = "flush"
  /\ epc' = "idle" /\ closed' = TRUE
  /\ UNCHANGED <<opts, buf, inputproxy, w, io, summed, eop, given, coder, hist>>

\* The port raises, or there is none any more.
PortRaises ==
  /\ epc \in {"size", "payload", "sum", "end", "streamsum", "flush"}
  /\ closed \/ "port" \in EncoderFaults
  /\ epc' = "idle" /\ inputproxy' = <<>>
  /\ raised' = Append(raised, "port")
  /\ UNCHANGED <<opts, buf, w, io, summed, eop, closed, given, coder, taken>>

-----------------------------------------------------------------------------
EncoderStep ==
  \/ TakeSlice \/ WriteReturns
  \/ CodeBlock \/ CodeRaises
  \/ PushSize \/ PushPayload \/ PushSum
  \/ PushEnd \/ PushStreamSum \/ Flush \/ PortRaises

Encode == (\E n \in WriteSizes : write(n)) \/ close \/ EncoderStep
=============================================================================
