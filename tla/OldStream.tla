----------------------------- MODULE OldStream -----------------------------
(***************************************************************************)
(* A StreamEncoder writes a stream and a StreamDecoder reads it, whole or  *)
(* cut off somewhere; or the encoder is that of extlz4-0.1, and a          *)
(* StreamFixer repairs the stream first; or the decoder reads what another *)
(* program has written.                                                    *)
(***************************************************************************)
EXTENDS Integers, SequencesExt

CONSTANTS
  BlockSize, W, Options, WriteSizes, MaxWritten, MaxRaises, EncoderFaults,
  ReadSizes, MaxFailed, DecoderFaults, Packed, Junk,
  Files  \* streams written by other programs, as sequences of items

VARIABLES
  opts, buf, inputproxy, w, io, summed, epc, eop, closed, given, context,
  predict, stream, prefix,
  taken, raised,
  rest, header, ended, sbuf, readbuf, decodebuf, window, flags, dpc, dop, size,
  dest, got, failed,
  fin, fixed, fheader, fpc,
  file  \* the stream the decoder reads

Enc == INSTANCE StreamEncoder
Dec == INSTANCE StreamDecoder WITH BlockMaximum <- BlockSize
Fixer == INSTANCE StreamFixer WITH BlockMaximum <- BlockSize

evars == <<opts, buf, inputproxy, w, io, summed, epc, eop, closed, given, context,
           predict, stream, prefix, taken, raised>>
dvars == <<rest, header, ended, sbuf, readbuf, decodebuf, window, flags, dpc, dop,
           size, dest, got, failed>>
fvars == <<fin, fixed, fheader, fpc>>
vars == <<evars, dvars, fvars, file>>

-----------------------------------------------------------------------------
(* Streams.                                                                *)
Option == [linked : BOOLEAN, blocksum : BOOLEAN, streamsum : BOOLEAN]

Block ==
  {b \in [literal : BOOLEAN, n : Nat, data : Seq(Nat), refers : Seq(Nat)] :
     b.literal => Len(b.data) = b.n /\ b.refers = <<>>}

Item ==
  [item : {"header", "legacy"}, opts : Option] \cup
  [item : {"size"}, literal : BOOLEAN, n : Nat] \cup
  [item : {"payload", "cut", "sum"}, block : Block] \cup
  [item : {"sum"}, of : Seq(Nat)]

\* The block b is what the size word x announces, or a part of it.
Announces(x, b) == b.literal = x.literal /\ b.n = x.n
AnnouncesMore(x, b) == b.literal = x.literal /\ b.n < x.n

\* Item i + 1 of the stream f can follow item i.
Follows(f, i) ==
  \/ f[i].item \in {"header", "legacy"} /\ f[i + 1].item = "size"
  \/ f[i].item = "size" /\ f[i].n = 0 /\ f[i + 1].item = "sum"
  \/ f[i].item = "size" /\ f[i].n > 0 /\ f[i + 1].item = "payload" /\ Announces(f[i], f[i + 1].block)
  \/ f[i].item = "size" /\ f[i].n > 0 /\ f[i + 1].item = "cut" /\ AnnouncesMore(f[i], f[i + 1].block)
  \/ f[i].item = "payload" /\ f[i + 1].item = IF f[1].opts.blocksum THEN "sum" ELSE "size"
  \/ i > 1 /\ f[i - 1].item = "payload" /\ f[i].item = "sum" /\ f[i + 1].item = "size"

\* A stream, which may end anywhere.
Formed(f) ==
  /\ f \in Seq(Item) /\ f # <<>> /\ f[1].item \in {"header", "legacy"}
  /\ \A i \in 1..(Len(f) - 1) : Follows(f, i)

\* What the first n items of f hold, and what f says it holds.
Data(x) == IF x.item = "payload" THEN x.block.data ELSE <<>>
ContentTo(f, n) ==
  LET held[i \in 0..Len(f)] == IF i = 0 THEN <<>> ELSE held[i - 1] \o Data(f[i])
  IN  held[n]
Content(f) == ContentTo(f, Len(f))

\* Blocks refer to nothing but the end of what precedes them, and only in linked
\* streams.
InReach(f) ==
  \A i \in DOMAIN f : f[i].item = "payload" /\ f[i].block.refers # <<>> =>
    f[1].opts.linked /\ IsSuffix(f[i].block.refers, Enc!Coder!Reach(ContentTo(f, i - 1)))

ASSUME OldStreamAssumption ==
  /\ BlockSize \in Nat \ {0} /\ W \in Nat \ {0}
  /\ Options \subseteq Option
  /\ WriteSizes \subseteq Nat /\ MaxWritten \in Nat /\ MaxRaises \in Nat
  /\ EncoderFaults \subseteq {"coder", "port"}
  /\ ReadSizes \subseteq Nat \ {0} /\ MaxFailed \in Nat
  /\ DecoderFaults \subseteq {"corrupt", "port"}
  /\ \A f \in Files : Formed(f) /\ InReach(f)

-----------------------------------------------------------------------------
Init == Enc!Init /\ Dec!Init /\ Fixer!Init /\ file = <<>>

CutPayload(b, n) ==
  [item |-> "cut",
   block |-> IF b.literal THEN Enc!Literal(SubSeq(b.data, 1, n)) ELSE [b EXCEPT !.n = n]]

\* The stream f, and what is left of it when the file ends too early.
Cuts(f) ==
  {SubSeq(f, 1, n) : n \in 1..Len(f)} \cup
  UNION {{Append(SubSeq(f, 1, i - 1), CutPayload(f[i].block, n)) : n \in 1..(f[i].block.n - 1)} :
           i \in {i \in DOMAIN f : f[i].item = "payload"}}

\* What extlz4-0.1 has written where the encoder of today writes f.
Broken(f) ==
  {[i \in DOMAIN f |-> IF f[i].item = "size" /\ f[i].literal
                         THEN [f[i] EXCEPT !.n = @ + more] ELSE f[i]] : more \in 0..2}

\* The stream is finished, though calls may have raised before they pushed
\* anything.
Finished == closed /\ ~Contains(raised, "port")

Fix ==
  /\ Finished /\ dpc = "new" /\ \E f \in Broken(io) : Fixer!Fix(f)
  /\ UNCHANGED <<evars, dvars, file>>

\* The stream just written, or repaired, or what was there.
OpenWritten == fpc = "off" /\ Finished /\ file' \in Cuts(io)
OpenFixed == fpc = "done" /\ file' = fixed
OpenForeign ==
  fpc = "off" /\ taken = <<>> /\ epc = "idle" /\ ~closed /\ file' \in Files

Open ==
  /\ OpenWritten \/ OpenFixed \/ OpenForeign
  /\ Dec!Open(file')
  /\ UNCHANGED <<evars, fvars>>

Next ==
  \/ dpc = "new" /\ fpc = "off" /\ Enc!Encode /\ UNCHANGED <<dvars, fvars, file>>
  \/ Fix
  \/ Fixer!FixerStep /\ UNCHANGED <<evars, dvars, file>>
  \/ Open
  \/ Dec!Decode /\ UNCHANGED <<evars, fvars, file>>

Spec == Init /\ [][Next]_vars

\* A call of the decoder goes on: it waits for nothing but its port, which
\* returns or raises.
FairSpec ==
  Spec /\ WF_vars(Dec!DecoderStep /\ UNCHANGED <<evars, fvars, file>>)

-----------------------------------------------------------------------------
TypeOK ==
  /\ Len(buf) <= BlockSize /\ given <= MaxWritten
  /\ Len(stream) <= W /\ Len(prefix) <= W
  /\ sbuf.of \in {"none", "readbuf", "decodebuf"}
  /\ failed <= MaxFailed
  /\ Len(readbuf) <= BlockSize /\ Len(decodebuf) <= BlockSize /\ Len(window) <= W

\* However the content is cut into writes, and though a block could not be
\* coded at first: what was pushed and what waits in @buf is what has got into
\* @buf, each byte once and in order.
EveryByteOnce ==
  ~Contains(raised, "port") /\ epc # "sum" => Content(io) \o buf = taken

\* The checksum at the end of a stream is that of its content, also after a
\* block that could not be coded and was coded again.
SumMatches ==
  closed /\ opts.streamsum /\ ~Contains(raised, "port") => Last(io).of = Content(io)

\* A literal block is not shown to the decoder's dictionary, a block whose
\* coding was interrupted not to the decoder, and a repaired stream no longer
\* says that it is linked.
Followed ==
  (\E i \in DOMAIN file : file[i].item = "payload" /\ file[i].block.refers # <<>>) =>
    /\ fpc = "off" /\ ~Contains(raised, "coder")
    /\ \A i, j \in DOMAIN file :
         i < j /\ file[i].item = "payload" /\ file[j].item = "payload" => ~file[i].block.literal

Delivers == failed = 0 => /\ IsPrefix(got \o dest, Content(file))
                          /\ ended => got = Content(file)

\* What is read, in portions of any size, is what was written, and all of it
\* when the end is reported, as long as no call raises, if the stream is not
\* linked or has no literal block but the last.  This goes for repaired streams
\* too.
ReadIsWritten == Followed => Delivers

\* The class "decodes LZ4 streams" (oldstream.rb:346), those with linked blocks
\* and literal ones among them too: what is read is what was written.
LinkedReadIsWritten == fpc = "off" /\ ~Contains(raised, "coder") => Delivers

\* A call of the decoder returns or raises, whatever the stream is: its loops
\* look for the end in different places, and a legacy stream has none.
ReadReturns == dpc \notin {"new", "idle"} ~> dpc = "idle"

\* A stream of extlz4-0.1 is repaired to one that holds what was written, each
\* size being that of its block.
Repaired ==
  /\ fpc # "lost"
  /\ fpc = "done" => /\ Content(fixed) = Content(io) /\ Contains(fixed, Enc!EndMark)
                     /\ \A i \in 1..(Len(fixed) - 1) :
                          fixed[i + 1].item = "payload" => fixed[i].n = fixed[i + 1].block.n

\* A repaired stream is "a correct lz4 stream" (README.md:49): if no block is
\* literal and no coder or port fails, no call raises before the end.
LinkedRepairedIsRead ==
  fpc = "done" /\ ~Contains(raised, "coder") /\ DecoderFaults = {} /\ ~ended
  /\ (\A i \in DOMAIN file : file[i].item = "payload" => ~file[i].block.literal)
    => failed = 0

\* The end is not reported for a stream whose end mark is missing.
NilIsTheEnd ==
  ended /\ failed = 0 /\ ~header.legacy =>
    \E i \in DOMAIN file : file[i].item = "size" /\ file[i].n = 0
=============================================================================
