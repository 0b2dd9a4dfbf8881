---------------------------- MODULE FrameDecoder ----------------------------
(***************************************************************************)
(* LZ4::Decoder of ext/frameapi.c: a reader that pulls an LZ4 frame from   *)
(* an IO-like object (inport) and hands its content out in the pieces the  *)
(* caller asks for, through read, getc and getbyte.                        *)
(*                                                                         *)
(* A byte of the content is identified by its offset in it, counted from   *)
(* 1, so that "the right bytes in the right order" is a statement about    *)
(* numbers.  Of its value only the top bit matters, to getbyte.            *)
(*                                                                         *)
(* The LZ4F library and the inport are outside the repository and are      *)
(* modelled as the code uses them: LZ4F_decompress returns the number of   *)
(* input bytes it wants next, 0 at the end of the frame.  It wants a block *)
(* together with the header that follows it, so one call consumes one      *)
(* "segment": a block and the next header, or the content checksum.        *)
(* fdec_read_fetch hands it what it asked for, or less if the decoder was  *)
(* closed while it read, by the inport or by another thread.               *)
(***************************************************************************)
EXTENDS Integers, Sequences

CONSTANTS
  Frames,      \* the frames that may be on the inport, see FrameAssumption
  HeaderSize,  \* bytes of a block header, and of the content checksum
  TmpSize,     \* capacity of the temporary buffer of a read without size
  ReadSizes,   \* the sizes a caller passes to read(size)
  Faults       \* which faults occur: a subset of FaultKinds

FaultKinds == {"port", "corrupt", "interrupt", "close"}

\* A frame has blocks, each with its compressed and its content size, and
\* possibly a content checksum.  A frame with neither has no segment at all:
\* LZ4F_getFrameInfo refuses it and no decoder for it exists.
ASSUME FrameAssumption ==
  \A f \in Frames :
    /\ f.blocks \in Seq([packed : Nat \ {0}, size : Nat \ {0}])
    /\ f.checksum \in BOOLEAN
    /\ f.blocks # <<>> \/ f.checksum

ASSUME SizeAssumption ==
  /\ HeaderSize \in Nat \ {0}
  /\ TmpSize \in Nat \ {0}
  /\ ReadSizes \subseteq Nat
ASSUME FaultAssumption == Faults \subseteq FaultKinds

VARIABLES
  frame,    \* the frame on the inport
  seg,      \* the segment LZ4F_decompress consumes next
  taken,    \* how many bytes of it LZ4F_decompress has consumed already
  emitted,  \* content bytes LZ4F_decompress has produced so far
  ctx,      \* decoder: the native decompression context
  status,   \* status: the last result of LZ4F_decompress
  inlen,    \* RSTRING_LEN(inbuf)
  outbuf,   \* outbuf: content offsets of the bytes it holds
  outoff,   \* outoff: how many bytes of outbuf have been handed out
  pc,       \* where the call in progress is
  op,       \* the method in progress
  size,     \* size: bytes still wanted by fdec_read_decode
  mark,     \* length of dst when fdec_read_decode was entered
  dst,      \* bytes copied for the call in progress
  got,      \* history: every byte returned to the caller, in order
  lost,     \* history: number of bytes dropped by calls that raised
  closed,   \* history: close was called, and no call has gone on after it
  ret       \* outcome of the last call

port == <<frame, seg, taken, emitted>>
struct == <<ctx, status, inlen, outbuf, outoff>>
call == <<op, size, mark, dst>>
hist == <<got, lost, closed>>
vars == <<frame, seg, taken, emitted, ctx, status, inlen, outbuf, outoff,
          pc, op, size, mark, dst, got, lost, closed, ret>>

-----------------------------------------------------------------------------
(* The external decompressor.                                              *)

NumSegs(f) == IF f.checksum THEN Len(f.blocks) + 1 ELSE Len(f.blocks)

\* Input bytes of a segment: what LZ4F_decompress asks for before it.
SegIn(f, k) ==
  IF k > NumSegs(f) THEN 0
  ELSE HeaderSize + (IF k <= Len(f.blocks) THEN f.blocks[k].packed ELSE 0)

\* Content bytes a segment produces when the t-th to the u-th byte of it are
\* taken: a block is decompressed when it is there as a whole.
SegOut(f, k, t, u) ==
  IF k <= Len(f.blocks) /\ t < f.blocks[k].packed /\ f.blocks[k].packed <= u
    THEN f.blocks[k].size ELSE 0

\* What the first n blocks hold.
SizeTo(f, n) ==
  LET upto[i \in 0..Len(f.blocks)] == IF i = 0 THEN 0 ELSE upto[i - 1] + f.blocks[i].size
  IN  upto[n]

Total(f) == SizeTo(f, Len(f.blocks))

\* An error code is a size_t close to 2^64: as ssize_t it is negative.
ErrStatus == -1

\* p->status > 0, where status is unsigned.
Unsigned_gt0(s) == s # 0

\* (ssize_t)p->status < 1
Signed_lt1(s) == s < 1

-----------------------------------------------------------------------------
(* Construction and the end of the object.                                 *)

Init ==
  /\ frame \in Frames
  /\ seg = 1 /\ taken = 0 /\ emitted = 0
  /\ ctx = "none" /\ status = 0 /\ inlen = 0
  /\ outbuf = <<>> /\ outoff = 0
  /\ pc = "new" /\ op = "none" /\ size = 0 /\ mark = 0 /\ dst = <<>>
  /\ got = <<>> /\ lost = 0 /\ closed = FALSE
  /\ ret = [kind |-> "none", len |-> 0]

\* One of the two reads of the loop in fdec_init: the magic number, then the
\* frame descriptor with the first block header.
InitRead ==
  /\ pc \in {"new", "magic"}
  /\ ctx' = "live"
  /\ IF pc = "new"
       THEN pc' = "magic" /\ UNCHANGED status
       ELSE pc' = "idle"  /\ status' = SegIn(frame, 1)
  /\ UNCHANGED <<port, inlen, outbuf, outoff, call, hist, ret>>

\* A short or failed read, or a header LZ4F refuses: the constructor raises
\* and the caller never has the object.
InitFails ==
  /\ pc \in {"new", "magic"}
  /\ Faults # {}
  /\ ctx' = "live"
  /\ pc' = "dropped"
  /\ UNCHANGED <<port, status, inlen, outbuf, outoff, call, hist, ret>>

\* The caller drops its last reference.
Drop ==
  /\ pc = "idle"
  /\ pc' = "dropped"
  /\ UNCHANGED <<port, struct, call, hist, ret>>

\* The collector runs decoder_free on a dropped object.
decoder_free ==
  /\ pc = "dropped" /\ ctx = "live"
  /\ ctx' = "none"
  /\ UNCHANGED <<port, status, inlen, outbuf, outoff, pc, call, hist, ret>>

-----------------------------------------------------------------------------
(* Entering and leaving a call.                                            *)

Enter(o, n) ==
  /\ pc' = "decode" /\ op' = o
  /\ size' = n /\ mark' = 0 /\ dst' = <<>>
  /\ UNCHANGED <<port, struct, hist, ret>>

\* The call returns nil at once.
Nothing ==
  /\ ret' = [kind |-> "nil", len |-> 0]
  /\ UNCHANGED <<port, struct, pc, call, hist>>

\* The call raises: what it had copied is dropped, since the length of the
\* destination string is only set after fdec_read_decode returns.
Raise ==
  /\ pc' = "idle" /\ op' = "none"
  /\ size' = 0 /\ mark' = 0 /\ dst' = <<>>
  /\ lost' = lost + Len(dst)
  /\ ret' = [kind |-> "raise", len |-> 0]
  /\ UNCHANGED got

fdec_read(n) ==
  /\ pc = "idle"
  /\ \/ /\ n = 0
        /\ ret' = [kind |-> "data", len |-> 0]
        /\ UNCHANGED <<port, struct, pc, call, hist>>
     \/ n > 0 /\ status = 0 /\ Nothing
     \/ n > 0 /\ status # 0 /\ Enter("read", n)

fdec_read_all ==
  /\ pc = "idle"
  /\ IF status = 0 THEN Nothing ELSE Enter("read_all", TmpSize)

fdec_getc ==
  /\ pc = "idle"
  /\ IF status = 0 THEN Nothing ELSE Enter("getc", 1)

\* Unlike getc, getbyte does not look at status before it decodes.
fdec_getbyte == pc = "idle" /\ Enter("getbyte", 1)

fdec_close ==
  /\ pc = "idle"
  /\ status' = 0
  /\ closed' = TRUE
  /\ UNCHANGED <<port, ctx, inlen, outbuf, outoff, pc, call, got, lost, ret>>

-----------------------------------------------------------------------------
(* fdec_read_decode: the copy loop.                                        *)

\* Mutants of LoopEnds: the error code taken for an unsigned number; an empty
\* outbuf alone taken for the end; no way out but a full destination.
LoopEnds_Unsigned == size = 0 \/ (status = 0 /\ outbuf = <<>>)
LoopEnds_Empty == size = 0 \/ Signed_lt1(status) \/ outbuf = <<>>
LoopEnds_Full == size = 0

\* The two ways out at the head of the loop.
LoopEnds == size = 0 \/ (Signed_lt1(status) /\ outbuf = <<>>)

\* Mutant: fetches although outbuf is not drained.
NeedFetch_Early == Unsigned_gt0(status)

NeedFetch == Unsigned_gt0(status) /\ outoff >= Len(outbuf)

LeaveLoop ==
  /\ pc = "decode" /\ LoopEnds
  /\ pc' = "return"
  /\ UNCHANGED <<port, struct, call, hist, ret>>

EnterFetch ==
  /\ pc = "decode" /\ ~LoopEnds /\ NeedFetch
  /\ pc' = "fetch"
  /\ UNCHANGED <<port, struct, call, hist, ret>>

\* The request is smaller than what outbuf holds: copy that much and break.
CopyPart ==
  /\ size < Len(outbuf) - outoff
  /\ dst' = dst \o SubSeq(outbuf, outoff + 1, outoff + size)
  /\ outoff' = outoff + size
  /\ size' = 0
  /\ pc' = "return"
  /\ UNCHANGED outbuf

\* Mutants: outbuf keeps its length; size is not counted down.
CopyRest_Keeps ==
  /\ size >= Len(outbuf) - outoff
  /\ dst' = dst \o SubSeq(outbuf, outoff + 1, Len(outbuf))
  /\ outoff' = 0 /\ UNCHANGED outbuf
  /\ size' = size - (Len(outbuf) - outoff)
  /\ pc' = "decode"

CopyRest_SameSize ==
  /\ size >= Len(outbuf) - outoff
  /\ dst' = dst \o SubSeq(outbuf, outoff + 1, Len(outbuf))
  /\ outbuf' = <<>> /\ outoff' = 0 /\ UNCHANGED size
  /\ pc' = "decode"

\* Otherwise empty outbuf and go round the loop.
CopyRest ==
  /\ size >= Len(outbuf) - outoff
  /\ dst' = dst \o SubSeq(outbuf, outoff + 1, Len(outbuf))
  /\ outbuf' = <<>> /\ outoff' = 0
  /\ size' = size - (Len(outbuf) - outoff)
  /\ pc' = "decode"

CopyOut ==
  /\ \/ pc = "decode" /\ ~LoopEnds /\ ~NeedFetch
     \/ pc = "copy"
  /\ CopyPart \/ CopyRest
  /\ UNCHANGED <<port, ctx, status, inlen, op, mark, hist, ret>>

-----------------------------------------------------------------------------
(* fdec_read_fetch: one more segment from the inport.                      *)

\* While inport.read runs, it or another thread may close the decoder.
Meanwhile ==
  \/ UNCHANGED <<status, closed>>
  \/ "close" \in Faults /\ status' = 0 /\ closed' = TRUE

\* inport.read returns some of the bytes asked for.
FetchMore ==
  /\ pc = "fetch" /\ inlen < status
  /\ \E k \in 1..(status - inlen) : inlen' = inlen + k
  /\ Meanwhile
  /\ UNCHANGED <<port, ctx, outbuf, outoff, pc, call, got, lost, ret>>

\* inport.read returns nil or raises.
FetchFails ==
  /\ pc = "fetch" /\ inlen < status
  /\ "port" \in Faults
  /\ Raise
  /\ Meanwhile
  /\ UNCHANGED <<port, ctx, inlen, outbuf, outoff>>

\* The output of LZ4F_decompress replaces outbuf, and its result the status,
\* also that of a decoder closed in the meantime.
Produce(n) ==
  /\ outbuf' = [i \in 1..n |-> emitted + i] /\ outoff' = 0
  /\ emitted' = emitted + n
  /\ pc' = "copy" /\ closed' = FALSE
  /\ UNCHANGED <<frame, ctx, call, got, lost, ret>>

\* Mutant: the input is compacted by the new status, not by what was taken.
Decompress_NewStatus ==
  /\ pc = "fetch" /\ inlen >= status /\ taken + inlen = SegIn(frame, seg)
  /\ Produce(SegOut(frame, seg, taken, taken + inlen))
  /\ seg' = seg + 1 /\ taken' = 0
  /\ status' = SegIn(frame, seg + 1)
  /\ inlen' = inlen - status'

\* LZ4F_decompress takes the rest of the segment.
Decompress ==
  /\ pc = "fetch" /\ inlen >= status /\ taken + inlen = SegIn(frame, seg)
  /\ Produce(SegOut(frame, seg, taken, taken + inlen))
  /\ seg' = seg + 1 /\ taken' = 0
  /\ status' = SegIn(frame, seg + 1)
  /\ inlen' = 0

\* With the status at 0 the loop ends too early: LZ4F_decompress takes what
\* is there and asks for the rest.
DecompressPart ==
  /\ pc = "fetch" /\ inlen >= status /\ taken + inlen < SegIn(frame, seg)
  /\ Produce(SegOut(frame, seg, taken, taken + inlen))
  /\ taken' = taken + inlen
  /\ status' = SegIn(frame, seg) - taken'
  /\ inlen' = 0
  /\ UNCHANGED seg

\* LZ4F_decompress refuses the segment: the error code stays in status.
DecompressFails ==
  /\ pc = "fetch" /\ inlen >= status
  /\ "corrupt" \in Faults
  /\ status' = ErrStatus /\ closed' = FALSE
  /\ Raise
  /\ UNCHANGED <<port, ctx, inlen, outbuf, outoff>>

\* rb_thread_check_ints at the end of fdec_read_fetch raises.
Interrupted ==
  /\ pc = "copy"
  /\ "interrupt" \in Faults
  /\ Raise
  /\ UNCHANGED <<port, struct, closed>>

-----------------------------------------------------------------------------
(* Back in the method that called fdec_read_decode.                        *)

\* Mutant: a read without size is over after one temporary buffer.
Again_Once == FALSE

\* A read without size asks again as long as it was given something.
Again == op = "read_all" /\ Len(dst) > mark

ReadAllAgain ==
  /\ pc = "return" /\ Again
  /\ size' = TmpSize /\ mark' = Len(dst)
  /\ pc' = "decode"
  /\ UNCHANGED <<port, struct, op, dst, hist, ret>>

Return ==
  /\ pc = "return" /\ ~Again
  /\ got' = got \o dst
  /\ ret' = [kind |-> IF dst = <<>> THEN "nil" ELSE "data",
             len |-> Len(dst)]
  /\ pc' = "idle" /\ op' = "none"
  /\ size' = 0 /\ mark' = 0 /\ dst' = <<>>
  /\ UNCHANGED <<port, struct, lost, closed>>

-----------------------------------------------------------------------------
\* What the caller decides to do.
Caller ==
  \/ \E n \in ReadSizes : fdec_read(n)
  \/ fdec_read_all \/ fdec_getc \/ fdec_getbyte
  \/ fdec_close
  \/ Drop

\* What the extension, the library and the inport do by themselves.
Running ==
  \/ InitRead \/ InitFails
  \/ LeaveLoop \/ EnterFetch \/ CopyOut
  \/ FetchMore \/ FetchFails
  \/ Decompress \/ DecompressPart \/ DecompressFails \/ Interrupted
  \/ ReadAllAgain \/ Return

Next == Caller \/ Running \/ decoder_free

Spec == Init /\ [][Next]_vars

\* A call that has begun keeps running and the inport answers.  Nothing makes
\* the caller call, or the collector run.
FairSpec == Spec /\ WF_vars(Running)
-----------------------------------------------------------------------------
(* Properties.                                                             *)

\* Every variable keeps its type.
TypeOK ==
  /\ frame \in Frames /\ seg \in Nat \ {0} /\ taken \in Nat /\ emitted \in Nat
  /\ ctx \in {"none", "live"} /\ status \in Nat \cup {ErrStatus}
  /\ inlen \in Nat /\ outbuf \in Seq(Nat) /\ outoff \in Nat
  /\ pc \in {"new", "magic", "idle", "decode", "fetch", "copy", "return",
             "dropped"}
  /\ op \in {"none", "read", "read_all", "getc", "getbyte"}
  /\ size \in Nat /\ mark \in Nat /\ dst \in Seq(Nat)
  /\ got \in Seq(Nat) /\ lost \in Nat /\ closed \in BOOLEAN
  /\ ret \in [kind : {"none", "data", "nil", "raise"}, len : Nat]

\* Whatever LZ4F_decompress produced is somewhere: returned, copied for the
\* call in progress, still in outbuf beyond outoff, or dropped by a call that
\* raised.  A fetch while outbuf is not drained, or an outoff that is not
\* reset with it, breaks this.
Conservation ==
  Len(got) + Len(dst) + (Len(outbuf) - outoff) + lost = emitted

\* The bytes that reach the caller are the content in order: byte i of what
\* was returned is byte i of the content, shifted by no more than what calls
\* that raised have dropped.
InOrder ==
  /\ \A i \in 1..Len(got) : got[i] \in i..(i + lost)
  /\ \A i, j \in 1..Len(got) : i < j => got[i] < got[j]

\* nil means the end: "read rest bytes as string" (README.md:95).  When a
\* method has returned nil on a frame with a content checksum, the decoder was
\* not closed and no decompression failed, then the whole frame was consumed
\* and all that came out of it has been handed out (or dropped by a raise).
NothingLeftBehind ==
  frame.checksum /\ ret.kind = "nil" /\ ~closed /\ status # ErrStatus =>
    /\ seg > NumSegs(frame)
    /\ Len(got) + lost = emitted

\* A read without size that returns anything returns all there is, of frames
\* without a checksum too, and though the decoder was closed meanwhile.
\* LZ4.decode(string) is such a read (lib/extlz4.rb:285).
ReadAllIsAll ==
  [][pc = "return" /\ op = "read_all" /\ got' # got =>
       Len(got') + lost = Total(frame)]_vars

\* A decoder whose decompression failed never again asks the inport for the
\* 2^64 or so bytes its status now says, and hands out no byte any more.
NoByteAfterError ==
  [][status = ErrStatus => pc' # "fetch" /\ got' = got]_vars

\* Every call returns to its caller, whatever the inport delivers.
CallReturns == pc \notin {"idle", "dropped"} ~> pc \in {"idle", "dropped"}

-----------------------------------------------------------------------------
(* The decoder implements the sequential reader of ContentReader.          *)

\* The request in progress: size counts down as dst grows.
Asked ==
  CASE op = "none"     -> [kind |-> "none", len |-> 0]
    [] op = "read_all" -> [kind |-> "all", len |-> 0]
    [] OTHER           -> [kind |-> "some", len |-> size + Len(dst)]

Reader == INSTANCE ContentReader WITH
  total   <- Total(frame),
  pos     <- Len(got) + lost,
  asked   <- Asked,
  answer  <- [kind |-> ret.kind, len |-> ret.len],
  shut    <- closed,
  damaged <- status = ErrStatus

\* Cut into whatever pieces, a frame with a content checksum is read as one
\* sequence of bytes: every request gets the bytes that follow those of the
\* request before it, all that it asked for or all that there are, and nil is
\* never an answer while there are any.
ReaderSpec ==
  /\ frame.checksum => Reader!Init
  /\ [][frame.checksum => Reader!Next]_(Reader!vars)
=============================================================================
