---------------------------- MODULE FrameEncoder ----------------------------
(***************************************************************************)
(* LZ4::Encoder of ext/frameapi.c: compresses what is written to it and    *)
(* pushes the LZ4 frame to an outport, piece by piece, with outport << .   *)
(*                                                                         *)
(* A frame is a sequence of pieces: the header, blocks and the end mark    *)
(* (with the content checksum, if there is one).  A block is the run of    *)
(* content bytes it holds, identified by the offset of the first and the   *)
(* number of them; offsets count from 1.                                   *)
(*                                                                         *)
(* The LZ4F library is outside the repository and modelled as the code     *)
(* uses it: it collects input until a block is full, flushes what it has   *)
(* collected on demand, and refuses input once the frame was ended.        *)
(***************************************************************************)
EXTENDS Integers, Sequences, SequencesExt, FiniteSetsExt, KeywordArgs

CONSTANTS
  BlockSizes,  \* 64 KiB, 256 KiB, 1 MiB and 4 MiB, scaled down
  IntMax,      \* INT_MAX, scaled down
  SizeMod,     \* SIZE_MAX + 1, scaled down
  Options,     \* Hashes of keyword arguments, empty if there are none
  WriteSizes,  \* lengths of the strings the caller writes
  Ports,       \* objects with a << method
  Arrays,      \* those of them that keep the very String they are given
  Faults,      \* a subset of {"port", "interrupt"}
  MaxWritten,  \* bound on the bytes written in all
  MaxPushes    \* bound: flush and close are called before so many pushes and
               \* pieces lost

ASSUME EncoderAssumption ==
  /\ BlockSizes \in [1..4 -> Nat \ {0}]
  /\ \A i \in 1..3 : BlockSizes[i] < BlockSizes[i + 1]
  /\ IntMax \in Nat /\ BlockSizes[4] <= IntMax
  /\ SizeMod \in Nat /\ 2 * (IntMax + 1) <= SizeMod
  /\ Options \subseteq Seq(Pairs)
  /\ WriteSizes \subseteq Nat
  /\ Arrays \subseteq Ports
  /\ Faults \subseteq {"port", "interrupt"}
  /\ MaxWritten \in Nat /\ MaxPushes \in Nat

VARIABLES
  opts,     \* the keyword arguments of new, until they are read
  prefs,    \* prefs.frameInfo: blockSizeID, linked blocks, content checksum
  stage,    \* the LZ4F context: none, begun, ended
  fed,      \* content bytes LZ4F has taken in
  held,     \* those of them it still collects for the next block
  workbuf,  \* workbuf: the pieces last written to it
  outport,  \* outport
  pc,       \* new, idle, update (in the loop of fenc_update), push, failed
  op,       \* the method in progress
  rest,     \* srctail - srcp
  out,      \* history: what was pushed, in order, to whichever port
  pushed,   \* history: the number of << calls each port has seen
  gaps      \* history: the pieces that calls that raised did not push

lib == <<stage, fed, held>>
frame == <<opts, prefs>>
vars == <<opts, prefs, stage, fed, held, workbuf, outport, pc, op, rest, out,
          pushed, gaps>>

\* The blockSizeID of LZ4F_default; 1 to 4 are those of BlockSizes.
LZ4F_default == 0

\* The library takes the default for the smallest.
BlockSize == BlockSizes[IF prefs.id = LZ4F_default THEN 1 ELSE prefs.id]

\* AUX_LZ4F_BLOCK_SIZE_MAX: most bytes handed over in one call.
ChunkMax == BlockSizes[4]

Header == [kind |-> "header", from |-> 0, len |-> 0]
EndMark == [kind |-> "end", from |-> 0, len |-> 0]
Block(from, len) == [kind |-> "block", from |-> from, len |-> len]

-----------------------------------------------------------------------------
(* The arguments of new.                                                   *)

\* The least block that holds size, the largest if none does.  A negative
\* number has become a large one.
fenc_init_args_blocksize(size) ==
  IF size = 0 THEN LZ4F_default
  ELSE Min({id \in 1..4 : id = 4 \/ size <= BlockSizes[id]})

Defaults == [blocksize |-> Nil, blocklink |-> False, checksum |-> True]

\* NUM2INT takes no object but a number, and no number that is not an int.
NUM2INT(v) == v.kind = "number" /\ v.val \in -(IntMax + 1)..IntMax

\* The preferences, or Raised.  The int is converted to a size_t.
fenc_init_args(hash) ==
  LET a == rbx_scanhash(hash, Defaults)
      asked == a["blocksize"]
  IN  IF a = Raised \/ ~(asked = Nil \/ NUM2INT(asked))
        THEN Raised
        ELSE [id |-> IF asked = Nil THEN LZ4F_default
                     ELSE fenc_init_args_blocksize(asked.val % SizeMod),
              linked |-> RTEST(a["blocklink"]),
              checksum |-> RTEST(a["checksum"])]

-----------------------------------------------------------------------------
(* The external compressor, as far as the calls below see it.              *)

\* LZ4F_compressUpdate makes blocks of BlockSize and keeps the rest.
FullBlocks(n) ==
  [i \in 1..((held + n) \div BlockSize) |->
     Block(fed - held + (i - 1) * BlockSize + 1, BlockSize)]

\* LZ4F_flush writes what was kept as a block of its own, or nothing.
TailBlock == IF held = 0 THEN <<>> ELSE <<Block(fed - held + 1, held)>>

-----------------------------------------------------------------------------
Init ==
  /\ opts \in Options /\ prefs = Raised
  /\ stage = "none" /\ fed = 0 /\ held = 0
  /\ workbuf = <<>> /\ outport \in Ports
  /\ pc = "new" /\ op = "none" /\ rest = 0
  /\ out = <<>> /\ pushed = [p \in Ports |-> 0] /\ gaps = <<>>

\* LZ4F_compressBegin writes the frame header, unless the arguments are wrong.
fenc_init ==
  /\ pc = "new"
  /\ opts' = <<>> /\ prefs' = fenc_init_args(opts)
  /\ IF prefs' = Raised
       THEN pc' = "failed" /\ UNCHANGED <<stage, workbuf, op>>
       ELSE /\ stage' = "begun" /\ workbuf' = <<Header>>
            /\ pc' = "push" /\ op' = "new"
  /\ UNCHANGED <<fed, held, outport, rest, out, pushed, gaps>>

fenc_write(n) ==
  /\ pc = "idle" /\ fed + n <= MaxWritten
  /\ pc' = "update" /\ op' = "write" /\ rest' = n
  /\ UNCHANGED <<frame, lib, workbuf, outport, out, pushed, gaps>>

\* The bytes of one round of the loop.
Chunk == IF rest > ChunkMax THEN ChunkMax ELSE rest

\* Mutant: what is left of the source is counted down by a whole chunk.
compressUpdate_WholeChunk ==
  /\ pc = "update" /\ rest > 0 /\ stage = "begun"
  /\ workbuf' = FullBlocks(Chunk)
  /\ fed' = fed + Chunk
  /\ held' = (held + Chunk) % BlockSize
  /\ rest' = rest - ChunkMax
  /\ pc' = "push"
  /\ UNCHANGED <<frame, stage, outport, op, out, pushed, gaps>>

\* Mutant: what is in workbuf already stays in front of what is written to it.
compressUpdate_Appends ==
  /\ pc = "update" /\ rest > 0 /\ stage = "begun"
  /\ workbuf' = workbuf \o FullBlocks(Chunk)
  /\ fed' = fed + Chunk
  /\ held' = (held + Chunk) % BlockSize
  /\ rest' = rest - Chunk
  /\ pc' = "push"
  /\ UNCHANGED <<frame, stage, outport, op, out, pushed, gaps>>

compressUpdate ==
  /\ pc = "update" /\ rest > 0 /\ stage = "begun"
  /\ workbuf' = FullBlocks(Chunk)
  /\ fed' = fed + Chunk
  /\ held' = (held + Chunk) % BlockSize
  /\ rest' = rest - Chunk
  /\ pc' = "push"
  /\ UNCHANGED <<frame, stage, outport, op, out, pushed, gaps>>

\* The thread is interrupted when it has the lock back: LZ4F has taken in the
\* chunk, and the blocks it made of it are never pushed.
UpdateInterrupted ==
  /\ pc = "update" /\ rest > 0 /\ stage = "begun"
  /\ "interrupt" \in Faults
  /\ gaps' = gaps \o FullBlocks(Chunk)
  /\ fed' = fed + Chunk
  /\ held' = (held + Chunk) % BlockSize
  /\ rest' = 0
  /\ pc' = "idle" /\ op' = "none"
  /\ UNCHANGED <<frame, stage, workbuf, outport, out, pushed>>

\* A frame that was ended takes no more input: write raises.
UpdateRefused ==
  /\ pc = "update" /\ rest > 0 /\ stage = "ended"
  /\ pc' = "idle" /\ op' = "none" /\ rest' = 0
  /\ UNCHANGED <<frame, lib, workbuf, outport, out, pushed, gaps>>

UpdateDone ==
  /\ pc = "update" /\ rest = 0
  /\ pc' = "idle" /\ op' = "none"
  /\ UNCHANGED <<frame, lib, workbuf, outport, rest, out, pushed, gaps>>

\* Mutant: lets LZ4F look for full blocks only.
fenc_flush_FullOnly ==
  /\ pc = "idle"
  /\ workbuf' = FullBlocks(0)
  /\ pc' = "push" /\ op' = "flush"
  /\ UNCHANGED <<frame, stage, fed, held, outport, rest, out, pushed, gaps>>

fenc_flush ==
  /\ pc = "idle"
  /\ workbuf' = TailBlock
  /\ held' = 0
  /\ pc' = "push" /\ op' = "flush"
  /\ UNCHANGED <<frame, stage, fed, outport, rest, out, pushed, gaps>>

\* Mutant: the context stays open for input.
fenc_close_StaysOpen ==
  /\ pc = "idle"
  /\ workbuf' = Append(TailBlock, EndMark)
  /\ held' = 0
  /\ pc' = "push" /\ op' = "close"
  /\ UNCHANGED <<frame, stage, fed, outport, rest, out, pushed, gaps>>

\* Nothing keeps the caller from closing twice: LZ4F_compressEnd then writes
\* another end mark.
fenc_close ==
  /\ pc = "idle"
  /\ workbuf' = Append(TailBlock, EndMark)
  /\ held' = 0 /\ stage' = "ended"
  /\ pc' = "push" /\ op' = "close"
  /\ UNCHANGED <<frame, fed, outport, rest, out, pushed, gaps>>

fenc_setoutport(p) ==
  /\ pc = "idle"
  /\ outport' = p
  /\ UNCHANGED <<frame, lib, workbuf, pc, op, rest, out, pushed, gaps>>

\* outport << workbuf returns.
Push ==
  /\ pc = "push"
  /\ out' = out \o [i \in DOMAIN workbuf |->
                     [port |-> outport, piece |-> workbuf[i]]]
  /\ pushed' = [pushed EXCEPT ![outport] = @ + 1]
  /\ IF op = "write" THEN pc' = "update" /\ UNCHANGED op
                     ELSE pc' = "idle" /\ op' = "none"
  /\ UNCHANGED <<frame, lib, workbuf, outport, rest, gaps>>

\* It raises: the pieces are gone, what is left of the source was not fed, and
\* a constructor that raises leaves no object.
PushRaises ==
  /\ pc = "push" /\ "port" \in Faults
  /\ gaps' = gaps \o workbuf
  /\ rest' = 0
  /\ pc' = IF op = "new" THEN "failed" ELSE "idle"
  /\ op' = "none"
  /\ UNCHANGED <<frame, lib, workbuf, outport, out, pushed>>

Caller ==
  \/ \E n \in WriteSizes : fenc_write(n)
  \/ /\ MapThenSumSet(LAMBDA p : pushed[p], Ports) + Len(gaps) < MaxPushes
     /\ fenc_flush \/ fenc_close
  \/ \E p \in Ports : fenc_setoutport(p)

Running ==
  \/ fenc_init \/ compressUpdate \/ UpdateInterrupted \/ UpdateRefused \/ UpdateDone
  \/ Push \/ PushRaises

Next == Caller \/ Running

Spec == Init /\ [][Next]_vars

-----------------------------------------------------------------------------
(* Properties.                                                             *)

Pieces ==
  [kind : {"block"}, from : Nat \ {0}, len : Nat] \cup {Header, EndMark}

\* Every variable keeps its type.
TypeOK ==
  /\ opts \in Options \cup {<<>>}
  /\ prefs = Raised \/ prefs \in [id : 0..4, linked : BOOLEAN, checksum : BOOLEAN]
  /\ stage \in {"none", "begun", "ended"}
  /\ fed \in Nat /\ held \in Nat /\ held < (IF stage = "none" THEN 1 ELSE BlockSize)
  /\ workbuf \in Seq(Pieces) /\ outport \in Ports
  /\ pc \in {"new", "idle", "update", "push", "failed"}
  /\ op \in {"none", "new", "write", "flush", "close"}
  /\ rest \in Nat
  /\ out \in Seq([port : Ports, piece : Pieces])
  /\ pushed \in [Ports -> Nat]
  /\ gaps \in Seq(Pieces)

\* What a Hash says of a keyword, if anything: the last value given.
Says(hash, name) ==
  LET at == {i \in DOMAIN hash : hash[i].name = name}
  IN  IF at = {} THEN {} ELSE {hash[Max(at)].value}

\* The frame is what new was asked for: the keyword given last counts, as a
\* Symbol or as a String; blocks are not linked and the content has a checksum
\* if nothing else is said; the blocks hold what blocksize asks for, if there
\* are such blocks, and are no larger than they must be, and those for a
\* negative number are the largest.  A keyword new does not know, or a block
\* size that is no int, keeps it from beginning a frame.  How large blocks are
\* when no size is asked (nil or 0) is left to the library: bin/extlz4:58 and
\* the encoder's getter (frameapi.c:69) speak of 4 MiB, where it takes 64 KiB.
OptionsHonoured ==
  [][pc = "new" =>
       LET asked == Says(opts, "blocksize")
           known == /\ \A i \in DOMAIN opts : opts[i].name \in DOMAIN Defaults
                    /\ \A v \in asked \ {Nil} :
                         v.kind = "number" /\ v.val \in -(IntMax + 1)..IntMax
       IN  IF ~known THEN pc' = "failed" /\ stage' = "none"
           ELSE /\ pc' = "push" /\ stage' = "begun"
                /\ prefs'.linked = \E v \in Says(opts, "blocklink") : RTEST(v)
                /\ prefs'.checksum = \A v \in Says(opts, "checksum") : RTEST(v)
                /\ \A n \in -(IntMax + 1)..IntMax :
                     asked = {Num(n)} =>
                       /\ n \in 1..BlockSizes[4] =>
                            /\ n <= BlockSize'
                            /\ \A b \in Range(BlockSizes) : n <= b => BlockSize' <= b
                       /\ n \notin 0..BlockSizes[4] => BlockSize' = BlockSizes[4]]_vars

\* b may stand right behind a in a frame: blocks in the order of the content
\* without a hole or an overlap, and nothing but another end mark behind an
\* end mark.
Follows(a, b) ==
  \/ a = Header  /\ b.kind = "block" /\ b.from = 1
  \/ a = Header  /\ b = EndMark
  \/ a.kind = "block" /\ b.kind = "block" /\ b.from = a.from + a.len
  \/ a.kind # "header" /\ b = EndMark

\* What the ports received is an LZ4 frame as far as it goes, in however many
\* pieces it was written and wherever it was flushed, and even if the caller
\* goes on after close, as long as no call lost pieces by raising.
FrameInOrder ==
  gaps = <<>> =>
    /\ out # <<>> => out[1].piece = Header
    /\ \A i \in 1..(Len(out) - 1) : Follows(out[i].piece, out[i + 1].piece)

Content(b) == b.from..(b.from + b.len - 1)

\* Every piece LZ4F has made, at as many places as there are of it: pushed,
\* lost by a call that raised, or about to be pushed.
Accounted ==
  [i \in DOMAIN out |-> out[i].piece] \o gaps
    \o (IF pc = "push" THEN workbuf ELSE <<>>)

\* Every byte taken in is in a block that was pushed, is about to be, or was
\* lost by a call that raised, or it is still being collected; and it is in
\* one block only, at one place only: no block is pushed twice, or pushed and
\* lost as well, also when calls that raised are followed by others.
EveryByteOnce ==
  /\ UNION {Content(Accounted[i]) : i \in DOMAIN Accounted} = 1..(fed - held)
  /\ \A i, j \in DOMAIN Accounted :
       i # j => Content(Accounted[i]) \cap Content(Accounted[j]) = {}

\* When flush or close has returned nothing is kept back: all the bytes
\* written so far are with the ports, or were lost by a call that raised.
FlushDelivers ==
  [][pc = "push" /\ op \in {"flush", "close"} /\ pc' = "idle" =>
       \A n \in 1..fed :
         \E i \in DOMAIN Accounted' : n \in Content(Accounted'[i])]_vars

Given(p) == SelectSeq(out, LAMBDA o : o.port = p)

\* What a port has to show: what it was given, or, if it keeps the Strings
\* themselves, as many times what the one String has in it now.
Shows(p) ==
  IF p \in Arrays
    THEN FlattenSeq([i \in 1..pushed[p] |-> workbuf])
    ELSE [i \in DOMAIN Given(p) |-> Given(p)[i].piece]

\* "for example IO, StringIO and Array instances" (lib/extlz4.rb:162-164): an
\* Array is as good an outport as an IO, what was pushed to it stays there.
PortsKeepTheFrame ==
  pc = "idle" =>
    \A p \in Ports : Shows(p) = [i \in DOMAIN Given(p) |-> Given(p)[i].piece]
=============================================================================
