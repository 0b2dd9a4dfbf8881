--------------------------- MODULE StreamDecoder ---------------------------
(***************************************************************************)
(* LZ4::StreamDecoder of lib/extlz4/oldstream.rb.  It reads the items that *)
(* StreamEncoder pushes, or other programs have written.  The two Strings  *)
(* it keeps to read into and to decode into are also what its StringIO,    *)
(* @buf, stands on.                                                        *)
(***************************************************************************)
EXTENDS Integers, SequencesExt

CONSTANTS
  BlockMaximum, \* @blockmaximum, in bytes
  W,            \* the reach of a match in linked blocks
  ReadSizes,    \* the sizes asked for
  MaxFailed,    \* a bound on the calls that raise
  DecoderFaults,\* a subset of {"corrupt", "port"}
  Packed,       \* a byte of a coded block
  Junk          \* a byte that nobody has written

VARIABLES
  rest,      \* what is left of the stream, as items
  header,    \* what the header says, and whether it is the legacy one
  ended,     \* @pos is nil
  sbuf,      \* @buf: the String it stands on, if any, and its position
  readbuf,   \* @readbuf
  decodebuf, \* @decodebuf
  window,    \* the dictionary of the BlockDecoder
  flags,     \* the size word just read
  dpc,       \* new, idle, loop (of read_part), flags, body, decode, sum
  dop,       \* the method in progress: read_all or read_part
  size,      \* what is left of the size asked for
  dest,      \* dest
  got,       \* history: what calls have returned
  failed     \* history: how many calls have raised

bufs == <<sbuf, readbuf, decodebuf>>

NoHeader == [legacy |-> FALSE, opts |-> [linked |-> FALSE, blocksum |-> FALSE, streamsum |-> FALSE]]

Init ==
  /\ rest = <<>> /\ header = NoHeader
  /\ ended = FALSE /\ sbuf = [of |-> "none", at |-> 0]
  /\ readbuf = <<>> /\ decodebuf = <<>> /\ window = <<>>
  /\ flags = [literal |-> FALSE, n |-> 0]
  /\ dpc = "new" /\ dop = "none" /\ size = 0 /\ dest = <<>>
  /\ got = <<>> /\ failed = 0

\* The bytes of a String by its name.
StringOf(name) == IF name = "readbuf" THEN readbuf ELSE decodebuf

\* What @buf has not yet given.
Buffered ==
  IF sbuf.of = "none" THEN <<>>
  ELSE SubSeq(StringOf(sbuf.of), sbuf.at + 1, Len(StringOf(sbuf.of)))

-----------------------------------------------------------------------------
\* initialize reads the header; the stream has one.
Open(file) ==
  /\ dpc = "new" /\ file # <<>>
  /\ header' = [legacy |-> Head(file).item = "legacy", opts |-> Head(file).opts]
  /\ rest' = Tail(file)
  /\ dpc' = "idle"
  /\ UNCHANGED <<ended, bufs, window, flags, dop, size, dest, got, failed>>

Ready == dpc = "idle" /\ failed < MaxFailed

read_all ==
  /\ Ready
  /\ dpc' = "flags" /\ dop' = "read_all"
  /\ dest' = Buffered /\ sbuf' = [of |-> "none", at |-> 0]
  /\ UNCHANGED <<rest, header, ended, readbuf, decodebuf, window, flags, size, got, failed>>

\* At the end, nil is returned at once.  getbyte is read_part(1).
read_part(n) ==
  /\ Ready /\ ~ended
  /\ dpc' = "loop" /\ dop' = "read_part" /\ size' = n /\ dest' = <<>>
  /\ UNCHANGED <<rest, header, ended, bufs, window, flags, got, failed>>

Return(bytes) ==
  /\ dpc' = "idle" /\ got' = got \o bytes /\ dest' = <<>>
  /\ UNCHANGED failed

Raise ==
  /\ dpc' = "idle" /\ dest' = <<>>
  /\ failed' = failed + 1
  /\ UNCHANGED got

TakeBuffered ==
  LET n == IF size < Len(Buffered) THEN size ELSE Len(Buffered)
      bytes == dest \o SubSeq(Buffered, 1, n)
  IN
  /\ dpc = "loop" /\ Buffered # <<>>
  /\ sbuf' = [sbuf EXCEPT !.at = @ + n]
  /\ size' = size - n
  /\ IF size' = 0 THEN Return(bytes)
                  ELSE dest' = bytes /\ UNCHANGED <<dpc, got, failed>>
  /\ UNCHANGED <<rest, header, ended, readbuf, decodebuf, window, flags, dop>>

NeedBlock ==
  /\ dpc = "loop" /\ Buffered = <<>>
  /\ dpc' = "flags"
  /\ UNCHANGED <<rest, header, ended, bufs, window, flags, dop, size, dest, got, failed>>

-----------------------------------------------------------------------------
(* getnextblock.                                                           *)

\* Mutant: a read_part that has bytes goes on until it has all of them.
NoBlock_GoesOn ==
  /\ ended' = TRUE
  /\ IF dop = "read_part" /\ dest # <<>>
       THEN dpc' = "loop" /\ UNCHANGED <<dest, got, failed>>
       ELSE Return(dest)
  /\ UNCHANGED <<header, bufs, window, flags, dop, size>>

\* It returns nil, and the call what it has.
NoBlock ==
  /\ ended' = TRUE
  /\ Return(dest)
  /\ UNCHANGED <<header, bufs, window, flags, dop, size>>

\* Legacy streams end with the file.
LegacyEnd ==
  /\ dpc = "flags" /\ header.legacy /\ rest = <<>>
  /\ NoBlock /\ UNCHANGED rest

Next4 == Head(rest).item

\* Mutant: the end of the file is the end of the stream.
ReadFlags_End ==
  /\ dpc = "flags" /\ (rest # <<>> => Next4 = "size")
  /\ rest' = IF rest = <<>> THEN rest ELSE Tail(rest)
  /\ IF rest = <<>> \/ Head(rest).n = 0
       THEN NoBlock
       ELSE /\ flags' = [literal |-> Head(rest).literal, n |-> Head(rest).n]
            /\ dpc' = "body"
            /\ UNCHANGED <<header, ended, bufs, window, dop, size, dest, got, failed>>

ReadFlags ==
  /\ dpc = "flags" /\ rest # <<>> /\ Next4 = "size" /\ Head(rest).n <= BlockMaximum
  /\ rest' = Tail(rest)
  /\ IF Head(rest).n = 0
       THEN NoBlock
       ELSE /\ flags' = [literal |-> Head(rest).literal, n |-> Head(rest).n]
            /\ dpc' = "body"
            /\ UNCHANGED <<header, ended, bufs, window, dop, size, dest, got, failed>>

\* Four bytes of something else are taken for a size.  It may be zero, no
\* block of that size may follow, or something that is none.
ReadWrongFlags ==
  /\ dpc = "flags" /\ rest # <<>> /\ Next4 # "size"
  /\ rest' = <<>>
  /\ \/ NoBlock
     \/ Raise /\ UNCHANGED <<header, ended, bufs, window, flags, dop, size>>
     \/ /\ Len(rest) > 1
        /\ flags' = [literal |-> TRUE, n |-> 1] /\ readbuf' = <<Junk>> /\ dpc' = "sum"
        /\ UNCHANGED <<header, ended, sbuf, decodebuf, window, dop, size, dest, got, failed>>

\* The file ends before a size, or the size is too big.
NoFlags ==
  /\ dpc = "flags"
  /\ IF rest = <<>> THEN ~header.legacy ELSE Next4 = "size" /\ Head(rest).n > BlockMaximum
  /\ rest' = IF rest = <<>> THEN rest ELSE Tail(rest)
  /\ Raise
  /\ UNCHANGED <<header, ended, bufs, window, flags, dop, size>>

\* @io.read(blocksize, @readbuf).  A coded block is so many packed bytes.
Bytes(block) == IF block.literal THEN block.data ELSE [i \in 1..block.n |-> Packed]

ReadBody ==
  /\ dpc = "body" /\ rest # <<>> /\ Next4 = "payload"
  /\ readbuf' = Bytes(Head(rest).block)
  /\ dpc' = IF flags.literal THEN "sum" ELSE "decode"
  /\ UNCHANGED <<rest, header, ended, sbuf, decodebuf, window, flags, dop, size, dest, got, failed>>

\* The file ends within the block, or before it, which leaves readbuf empty.
ShortBody ==
  /\ dpc = "body" /\ (rest # <<>> => Next4 = "cut")
  /\ readbuf' = IF rest = <<>> THEN <<>> ELSE Bytes(Head(rest).block)
  /\ rest' = <<>>
  /\ Raise
  /\ UNCHANGED <<header, ended, sbuf, decodebuf, window, flags, dop, size>>

\* The dictionary a block is decoded with, none unless the header says linked.
Dictionary == IF header.opts.linked THEN window ELSE <<>>

\* No match of the block reaches further back than the dictionary does.
InReach(block) == Len(block.refers) <= Len(Dictionary)

\* A block that refers to other bytes than those in the dictionary decodes to
\* something else.
DecodeBody ==
  LET block == Head(rest).block IN
  /\ dpc = "decode" /\ Len(block.data) <= BlockMaximum /\ InReach(block)
  /\ decodebuf' = IF IsSuffix(block.refers, Dictionary)
                    THEN block.data ELSE [i \in DOMAIN block.data |-> Junk]
  /\ window' = LET all == window \o decodebuf'
               IN  IF header.opts.linked
                     THEN SubSeq(all, IF Len(all) > W THEN Len(all) - W + 1 ELSE 1, Len(all))
                     ELSE window
  /\ dpc' = "sum"
  /\ UNCHANGED <<rest, header, ended, sbuf, readbuf, flags, dop, size, dest, got, failed>>

\* The length of decodebuf stays when LZ4 fails, what is in it need not;
\* block_decode has emptied it before.
DecodeRaises ==
  /\ dpc = "decode"
  /\ \/ "corrupt" \in DecoderFaults
     \/ Len(Head(rest).block.data) > BlockMaximum
     \/ ~InReach(Head(rest).block)
  /\ rest' = Tail(rest)
  /\ decodebuf' \in IF header.opts.linked
                      THEN {decodebuf, [i \in DOMAIN decodebuf |-> Junk]} ELSE {<<>>}
  /\ Raise
  /\ UNCHANGED <<header, ended, sbuf, readbuf, window, flags, dop, size>>

\* Mutant: the new @buf is what was decoded last.
TakeBlock_Decoded ==
  /\ dpc = "sum"
  /\ rest' = SubSeq(rest, IF header.opts.blocksum THEN 3 ELSE 2, Len(rest))
  /\ IF dop = "read_part"
       THEN sbuf' = [of |-> "decodebuf", at |-> 0] /\ dpc' = "loop" /\ UNCHANGED dest
       ELSE dest' = dest \o decodebuf /\ dpc' = "flags" /\ UNCHANGED sbuf
  /\ UNCHANGED <<header, ended, readbuf, decodebuf, window, flags, dop, size, got, failed>>

\* The block checksum is read and not compared; the block is the new @buf, or
\* joins dest.  A StringIO with no bytes reads nil, and dest << nil raises.
TakeBlock ==
  LET name == IF flags.literal THEN "readbuf" ELSE "decodebuf" IN
  /\ dpc = "sum"
  /\ rest' = SubSeq(rest, IF header.opts.blocksum THEN 3 ELSE 2, Len(rest))
  /\ IF dop = "read_part"
       THEN /\ sbuf' = [of |-> name, at |-> 0]
            /\ IF StringOf(name) = <<>> THEN Raise
               ELSE dpc' = "loop" /\ UNCHANGED <<dest, got, failed>>
       ELSE /\ dest' = dest \o StringOf(name) /\ dpc' = "flags"
            /\ UNCHANGED <<sbuf, got, failed>>
  /\ UNCHANGED <<header, ended, readbuf, decodebuf, window, flags, dop, size>>

\* @io.read raises.  The block a size announced is still to be read.
ReadRaises ==
  /\ "port" \in DecoderFaults
  /\ dpc \in {"flags", "body"} \/ (dpc = "sum" /\ header.opts.blocksum)
  /\ rest' = IF dpc = "sum" THEN SubSeq(rest, 2, Len(rest)) ELSE rest
  /\ Raise
  /\ UNCHANGED <<header, ended, bufs, window, flags, dop, size>>

-----------------------------------------------------------------------------
DecoderStep ==
  \/ TakeBuffered \/ NeedBlock
  \/ LegacyEnd \/ ReadFlags \/ ReadWrongFlags \/ NoFlags
  \/ ReadBody \/ ShortBody \/ DecodeBody \/ DecodeRaises \/ TakeBlock \/ ReadRaises

Decode == read_all \/ (\E n \in ReadSizes : read_part(n)) \/ DecoderStep
=============================================================================
