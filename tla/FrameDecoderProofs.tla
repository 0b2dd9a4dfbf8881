------------------------ MODULE FrameDecoderProofs ------------------------
(* Theorems about FrameDecoder, for every frame, every size of a read and  *)
(* every fault.                                                            *)
EXTENDS FrameDecoder, SequenceTheorems, WellFoundedInduction, TLAPS

(* What the decompressor asks for and produces are numbers of bytes.       *)
LEMMA SegSizes ==
  ASSUME NEW f \in Frames, NEW k \in Nat \ {0}
  PROVE  /\ SegIn(f, k) \in Nat /\ NumSegs(f) \in Nat
         /\ \A t, u \in Nat : SegOut(f, k, t, u) \in Nat
<1> DEFINE B == [packed : Nat \ {0}, size : Nat \ {0}]
<1>1. /\ Len(f.blocks) \in Nat
      /\ \A i \in 1..Len(f.blocks) :
           f.blocks[i].packed \in Nat /\ f.blocks[i].size \in Nat
  <2>1. f.blocks \in Seq(B)
    BY FrameAssumption
  <2>2. \A i \in 1..Len(f.blocks) : f.blocks[i] \in B
    BY <2>1, ElementOfSeq
  <2> QED
    BY <2>1, <2>2, LenProperties
<1>2. NumSegs(f) \in Nat /\ HeaderSize \in Nat
  BY <1>1, SizeAssumption DEF NumSegs
<1>3. \A t, u \in Nat : SegOut(f, k, t, u) \in Nat
  BY <1>1 DEF SegOut
<1>4. SegIn(f, k) \in Nat
  BY <1>1, <1>2 DEF SegIn
<1> QED
  BY <1>2, <1>3, <1>4

(* The segment's output, as Produce puts it into outbuf.                   *)
LEMMA Fresh ==
  ASSUME NEW n \in Nat, NEW e \in Nat
  PROVE  /\ [i \in 1..n |-> e + i] \in Seq(Nat)
         /\ Len([i \in 1..n |-> e + i]) = n
  OBVIOUS

(* r is t followed by the k bytes of s behind offset o.                    *)
AppendedBytes(s, t, o, k, r) ==
  /\ r \in Seq(Nat)
  /\ Len(r) = Len(t) + k
  /\ \A i \in 1..Len(t) : r[i] = t[i]
  /\ \A i \in (Len(t) + 1)..(Len(t) + k) : r[i] = s[o + (i - Len(t))]

LEMMA Appended ==
  ASSUME NEW s \in Seq(Nat), NEW t \in Seq(Nat), NEW o \in Nat, NEW k \in Nat,
         o + k <= Len(s)
  PROVE  AppendedBytes(s, t, o, k, t \o SubSeq(s, o + 1, o + k))
<1> DEFINE u == SubSeq(s, o + 1, o + k)
<1>1. u \in Seq(Nat) /\ Len(u) = k /\ \A i \in 1..k : u[i] = s[o + i]
  <2>1. \A i \in (o + 1)..(o + k) : s[i] \in Nat
    BY ElementOfSeq
  <2> QED
    BY <2>1, SubSeqProperties
<1> HIDE DEF u
<1>2. t \o u \in Seq(Nat) /\ Len(t \o u) = Len(t) + Len(u)
      /\ \A i \in 1..Len(t) + Len(u) :
           (t \o u)[i] = IF i <= Len(t) THEN t[i] ELSE u[i - Len(t)]
  <2>1. u \in Seq(Nat)
    BY <1>1
  <2> QED
    BY ONLY <2>1, t \in Seq(Nat), ConcatProperties
<1>3. Len(t) \in Nat
  BY LenProperties
<1> QED
  BY <1>1, <1>2, <1>3 DEF u, AppendedBytes

-----------------------------------------------------------------------------
(* The buffer is drained before a fetch, and nothing is left in it or      *)
(* copied once decompression has failed.                                   *)
Drained ==
  /\ outbuf = <<>> => outoff = 0
  /\ outbuf # <<>> => outoff < Len(outbuf)
  /\ pc = "fetch" => outbuf = <<>>
  /\ status = ErrStatus => outbuf = <<>> /\ dst = <<>>
                           /\ pc \notin {"fetch", "copy"}
  /\ pc \in {"new", "magic"} => status = 0
  /\ pc \notin {"decode", "fetch", "copy", "return"} => dst = <<>>

Inductive == TypeOK /\ Drained

LEMMA InductiveInit == Init => Inductive
<1> SUFFICES ASSUME Init PROVE Inductive
  OBVIOUS
<1>1. TypeOK
  <2>1. outbuf \in Seq(Nat) /\ dst \in Seq(Nat) /\ got \in Seq(Nat)
    BY EmptySeq DEF Init
  <2>2. ret \in [kind : {"none", "data", "nil", "raise"}, len : Nat]
    BY DEF Init
  <2>3. /\ frame \in Frames /\ seg \in Nat \ {0} /\ taken \in Nat
        /\ emitted \in Nat /\ ctx \in {"none", "live"} /\ status \in Nat
        /\ inlen \in Nat /\ outoff \in Nat /\ size \in Nat
        /\ mark \in Nat /\ lost \in Nat /\ pc = "new" /\ op = "none"
    BY DEF Init
  <2>4. closed \in BOOLEAN
    BY DEF Init
  <2> QED
    BY <2>1, <2>2, <2>3, <2>4 DEF TypeOK
<1>2. Drained
  BY DEF Init, Drained, ErrStatus
<1> QED
  BY <1>1, <1>2 DEF Inductive

(* Entering a method, and leaving it at once with nil.                     *)
LEMMA EnterKeeps ==
  ASSUME Inductive, pc = "idle",
         NEW o \in {"read", "read_all", "getc", "getbyte"}, NEW n \in Nat,
         Enter(o, n)
  PROVE  Inductive'
<1>1. TypeOK'
  BY EmptySeq DEF Inductive, TypeOK, Enter, port, struct, hist
<1>2. Drained'
  BY DEF Inductive, Drained, Enter, port, struct, hist
<1> QED
  BY <1>1, <1>2 DEF Inductive

LEMMA NothingKeeps ==
  ASSUME Inductive, Nothing
  PROVE  Inductive'
<1>1. TypeOK'
  BY DEF Inductive, TypeOK, Nothing, port, struct, call, hist
<1>2. Drained'
  BY DEF Inductive, Drained, Nothing, port, struct, call, hist
<1> QED
  BY <1>1, <1>2 DEF Inductive

(* What one copy does: k bytes go from outbuf to dst, and outbuf is either *)
(* left with the others or emptied.                                        *)
LEMMA CopyEffect ==
  ASSUME Inductive, CopyOut
  PROVE  \E k \in 0..(Len(outbuf) - outoff) :
           /\ AppendedBytes(outbuf, dst, outoff, k, dst')
           /\ \/ outbuf' = outbuf /\ outoff' = outoff + k
                 /\ outoff' < Len(outbuf)
              \/ outbuf' = <<>> /\ outoff' = 0 /\ k = Len(outbuf) - outoff
           /\ size' \in Nat
           /\ \/ pc' = "decode" /\ size' = size - k
              \/ pc' = "return" /\ k = size
<1> DEFINE held == Len(outbuf) - outoff
<1>1. /\ outbuf \in Seq(Nat) /\ dst \in Seq(Nat) /\ Len(outbuf) \in Nat
      /\ outoff \in Nat /\ held \in Nat /\ size \in Nat
  BY DEF Inductive, TypeOK, Drained
<1>2. CASE CopyPart
  <2>1. size \in 0..held /\ outoff + size <= Len(outbuf)
    BY <1>1, <1>2 DEF CopyPart
  <2>2. AppendedBytes(outbuf, dst, outoff, size,
                      dst \o SubSeq(outbuf, outoff + 1, outoff + size))
    BY <1>1, <2>1, Appended
  <2>3. AppendedBytes(outbuf, dst, outoff, size, dst')
    BY <1>2, <2>2 DEF CopyPart
  <2> QED
    BY <1>1, <1>2, <2>1, <2>3 DEF CopyPart
<1>3. CASE CopyRest
  <2>1. outoff + held <= Len(outbuf) /\ outoff + held = Len(outbuf)
    BY <1>1
  <2>2. AppendedBytes(outbuf, dst, outoff, held,
                      dst \o SubSeq(outbuf, outoff + 1, outoff + held))
    <3> HIDE DEF held
    <3> QED
      BY <1>1, <2>1, Appended
  <2>3. dst' = dst \o SubSeq(outbuf, outoff + 1, outoff + held)
    BY <1>3, <2>1 DEF CopyRest
  <2>4. AppendedBytes(outbuf, dst, outoff, held, dst')
    BY <2>2, <2>3
  <2> QED
    BY <1>1, <1>3, <2>4 DEF CopyRest
<1> QED
  BY <1>2, <1>3 DEF CopyOut

LEMMA InductiveNext == Inductive /\ [Next]_vars => Inductive'
<1> SUFFICES ASSUME Inductive, [Next]_vars
             PROVE  Inductive'
  OBVIOUS
<1> USE DEF ErrStatus, Inductive
<1>1. CASE InitRead
  <2>1. SegIn(frame, 1) \in Nat
    BY SegSizes DEF TypeOK
  <2> QED
    BY <1>1, <2>1 DEF InitRead, TypeOK, Drained, port, call, hist
<1>2. CASE InitFails
  BY <1>2 DEF InitFails, TypeOK, Drained, port, call, hist
<1>3. CASE Drop
  BY <1>3 DEF Drop, TypeOK, Drained, port, struct, call, hist
<1>4. CASE decoder_free
  BY <1>4 DEF decoder_free, TypeOK, Drained, port, call, hist
<1>5. ASSUME NEW n \in ReadSizes, fdec_read(n)
      PROVE  Inductive'
  <2>1. n \in Nat
    BY SizeAssumption
  <2>2. CASE n = 0 /\ UNCHANGED <<port, struct, pc, call, hist>>
             /\ ret' = [kind |-> "data", len |-> 0]
    BY <2>2 DEF Inductive, TypeOK, Drained, port, struct, call, hist
  <2> QED
    BY <1>5, <2>1, <2>2, EnterKeeps, NothingKeeps DEF fdec_read
<1>6. CASE fdec_read_all
  BY <1>6, SizeAssumption, EnterKeeps, NothingKeeps DEF fdec_read_all
<1>7. CASE fdec_getc
  BY <1>7, EnterKeeps, NothingKeeps DEF fdec_getc
<1>8. CASE fdec_getbyte
  BY <1>8, EnterKeeps DEF fdec_getbyte
<1>9. CASE fdec_close
  BY <1>9 DEF fdec_close, TypeOK, Drained, port, call
<1>10. CASE LeaveLoop
  BY <1>10 DEF LeaveLoop, TypeOK, Drained, port, struct, call, hist
<1>11. CASE EnterFetch
  <2>1. outbuf = <<>> /\ status # 0 /\ status # ErrStatus
    BY <1>11 DEF EnterFetch, NeedFetch, LoopEnds, Unsigned_gt0, Signed_lt1,
                 TypeOK, Drained
  <2> QED
    BY <1>11, <2>1 DEF EnterFetch, TypeOK, Drained, port, struct, call, hist
<1>12. CASE CopyOut
  <2>1. /\ frame' = frame /\ seg' = seg /\ taken' = taken
        /\ emitted' = emitted /\ ctx' = ctx
        /\ status' = status /\ inlen' = inlen /\ op' = op /\ mark' = mark
        /\ got' = got /\ lost' = lost /\ closed' = closed /\ ret' = ret
        /\ status # ErrStatus
    BY <1>12 DEF CopyOut, LoopEnds, Signed_lt1, Drained, port, hist
  <2>2. PICK k \in 0..(Len(outbuf) - outoff) :
           /\ AppendedBytes(outbuf, dst, outoff, k, dst')
           /\ \/ outbuf' = outbuf /\ outoff' = outoff + k
                 /\ outoff' < Len(outbuf)
              \/ outbuf' = <<>> /\ outoff' = 0 /\ k = Len(outbuf) - outoff
           /\ size' \in Nat /\ pc' \in {"decode", "return"}
    BY <1>12, CopyEffect
  <2>3. TypeOK'
    <3>1. dst' \in Seq(Nat)
      BY <2>2 DEF AppendedBytes
    <3>2. outbuf' \in Seq(Nat) /\ outoff' \in Nat
      <4>1. outoff \in Nat /\ outbuf \in Seq(Nat) /\ k \in Nat
        BY <2>2, LenProperties DEF TypeOK
      <4>2. CASE outbuf' = outbuf /\ outoff' = outoff + k
        BY <4>1, <4>2
      <4>3. CASE outbuf' = <<>> /\ outoff' = 0
        BY <4>3, EmptySeq
      <4> QED
        BY <2>2, <4>2, <4>3
    <3> QED
      BY <2>1, <2>2, <3>1, <3>2 DEF TypeOK
  <2>4. Drained'
    BY <2>1, <2>2 DEF TypeOK, Drained
  <2> QED
    BY <2>3, <2>4
<1>13. CASE FetchMore
  <2>1. TypeOK'
    <3>1. status' \in Nat \cup {ErrStatus}
      BY <1>13 DEF FetchMore, Meanwhile, TypeOK
    <3>0. closed' \in BOOLEAN
      BY <1>13 DEF FetchMore, Meanwhile, TypeOK
    <3>2. inlen' \in Nat
      BY <1>13 DEF FetchMore, TypeOK
    <3> QED
      BY <1>13, <3>0, <3>1, <3>2 DEF FetchMore, TypeOK, port, call
  <2>2. Drained'
    BY <1>13 DEF FetchMore, Meanwhile, Drained, call
  <2> QED
    BY <2>1, <2>2
<1>14. CASE FetchFails
  <2>1. TypeOK'
    <3>1. status' \in Nat \cup {ErrStatus}
      BY <1>14 DEF FetchFails, Meanwhile, TypeOK
    <3>0. closed' \in BOOLEAN
      BY <1>14 DEF FetchFails, Meanwhile, TypeOK
    <3> QED
      BY <1>14, <3>0, <3>1 DEF FetchFails, Raise, TypeOK, port
  <2>2. Drained'
    BY <1>14 DEF FetchFails, Meanwhile, Raise, Drained
  <2> QED
    BY <2>1, <2>2
<1>15. CASE Decompress \/ DecompressPart
  <2> DEFINE n == SegOut(frame, seg, taken, taken + inlen)
  <2>1. /\ n \in Nat /\ SegIn(frame, seg + 1) \in Nat
        /\ SegIn(frame, seg) \in Nat /\ taken \in Nat /\ inlen \in Nat
    <3>1. /\ frame \in Frames /\ seg \in Nat \ {0} /\ taken \in Nat
          /\ inlen \in Nat /\ seg + 1 \in Nat \ {0} /\ taken + inlen \in Nat
      BY DEF TypeOK
    <3> QED
      BY <3>1, SegSizes
  <2>2. Produce(n)
    BY <1>15 DEF Decompress, DecompressPart
  <2>3. status' \in Nat /\ inlen' = 0 /\ taken' \in Nat /\ seg' \in Nat \ {0}
    <3>1. CASE Decompress
      BY <2>1, <3>1 DEF Decompress, TypeOK
    <3>2. CASE DecompressPart
      BY <2>1, <3>2 DEF DecompressPart, TypeOK
    <3> QED
      BY <1>15, <3>1, <3>2
  <2> HIDE DEF n
  <2>4. outbuf' \in Seq(Nat) /\ Len(outbuf') = n
    BY <2>1, <2>2, Fresh DEF Produce, TypeOK
  <2>5. TypeOK'
    <3>1. emitted' \in Nat
      BY <2>1, <2>2 DEF Produce, TypeOK
    <3>2. closed' \in BOOLEAN
      BY <2>2 DEF Produce
    <3> QED
      BY <2>2, <2>3, <2>4, <3>1, <3>2 DEF Produce, TypeOK, call
  <2>6. Drained'
    BY <2>1, <2>2, <2>3, <2>4 DEF Produce, TypeOK, Drained, call
  <2> QED
    BY <2>5, <2>6
<1>16. CASE DecompressFails
  <2>1. TypeOK'
    <3>1. status' \in Nat \cup {ErrStatus} /\ closed' \in BOOLEAN
      BY <1>16 DEF DecompressFails
    <3> QED
      BY <1>16, <3>1 DEF DecompressFails, Raise, TypeOK, port
  <2>2. Drained'
    BY <1>16 DEF DecompressFails, Raise, Drained
  <2> QED
    BY <2>1, <2>2
<1>17. CASE Interrupted
  BY <1>17 DEF Interrupted, Raise, TypeOK, Drained, port, struct
<1>18. CASE ReadAllAgain
  BY <1>18, SizeAssumption
     DEF ReadAllAgain, Again, TypeOK, Drained, port, struct, hist
<1>19. CASE Return
  <2>1. got' \in Seq(Nat)
    BY <1>19, ConcatProperties DEF Return, TypeOK
  <2>2. ret' \in [kind : {"none", "data", "nil", "raise"}, len : Nat]
    BY <1>19 DEF Return, TypeOK
  <2> QED
    BY <1>19, <2>1, <2>2 DEF Return, TypeOK, Drained, port, struct
<1>20. CASE UNCHANGED vars
  BY <1>20 DEF vars, TypeOK, Drained
<1> QED
  BY <1>1, <1>2, <1>3, <1>4, <1>5, <1>6, <1>7, <1>8, <1>9, <1>10, <1>11,
     <1>12, <1>13, <1>14, <1>15, <1>16, <1>17, <1>18, <1>19, <1>20
     DEF Next, Caller, Running

LEMMA InductiveInvariant == Spec => []Inductive
  BY InductiveInit, InductiveNext, PTL DEF Spec

(* Every variable keeps its type.                                          *)
THEOREM TypeCorrect == Spec => []TypeOK
<1>1. Inductive => TypeOK
  BY DEF Inductive
<1> QED
  BY <1>1, InductiveInvariant, PTL

-----------------------------------------------------------------------------
(* Where the bytes are: those in outbuf are the last that were produced,   *)
(* those copied for the call in progress follow those returned or dropped. *)
Placed ==
  /\ Conservation
  /\ \A i \in 1..Len(outbuf) : outbuf[i] = emitted - Len(outbuf) + i
  /\ \A i \in 1..Len(dst) : dst[i] = Len(got) + lost + i
  /\ InOrder

LEMMA PlacedInit == Init => Placed
  BY DEF Init, Placed, Conservation, InOrder

(* Steps that touch none of these.                                         *)
LEMMA PlacedKept ==
  ASSUME Placed, UNCHANGED <<emitted, outbuf, outoff, dst, got, lost>>
  PROVE  Placed'
  BY DEF Placed, Conservation, InOrder

(* A call begins: nothing is copied for it yet.                            *)
LEMMA PlacedEntered ==
  ASSUME Placed, Inductive, pc = "idle", NEW o, NEW n, Enter(o, n)
  PROVE  Placed'
<1>1. dst = <<>>
  BY DEF Inductive, Drained
<1> QED
  BY <1>1, PlacedKept DEF Enter, port, struct, hist

(* A call raises: what it had copied is dropped, the rest stays in order.  *)
LEMMA PlacedRaised ==
  ASSUME Placed, Inductive, Raise, UNCHANGED <<emitted, outbuf, outoff>>
  PROVE  Placed'
<1>1. /\ lost' = lost + Len(dst) /\ got' = got /\ dst' = <<>>
      /\ Len(got) \in Nat /\ Len(dst) \in Nat /\ Len(outbuf) \in Nat
      /\ lost \in Nat /\ outoff \in Nat /\ emitted \in Nat
      /\ \A i \in 1..Len(got) : got[i] \in Nat
  BY DEF Raise, Inductive, TypeOK
<1>2. Conservation'
  BY <1>1 DEF Placed, Conservation
<1>3. InOrder'
  BY <1>1 DEF Placed, InOrder
<1> QED
  BY <1>1, <1>2, <1>3 DEF Placed

(* A copy moves the next bytes from outbuf to dst.                         *)
LEMMA PlacedCopied ==
  ASSUME Placed, Inductive, CopyOut
  PROVE  Placed'
<1>1. /\ Len(got) \in Nat /\ Len(dst) \in Nat /\ Len(outbuf) \in Nat
      /\ lost \in Nat /\ outoff \in Nat /\ emitted \in Nat
  BY DEF Inductive, TypeOK
<1>2. got' = got /\ lost' = lost /\ emitted' = emitted
  BY DEF CopyOut, port, hist
<1>3. PICK k \in 0..(Len(outbuf) - outoff) :
         /\ AppendedBytes(outbuf, dst, outoff, k, dst')
         /\ \/ outbuf' = outbuf /\ outoff' = outoff + k
               /\ outoff' < Len(outbuf)
            \/ outbuf' = <<>> /\ outoff' = 0 /\ k = Len(outbuf) - outoff
         /\ size' \in Nat /\ pc' \in {"decode", "return"}
  BY CopyEffect
<1>4. InOrder'
  BY <1>2 DEF Placed, InOrder
<1>5. Conservation'
  <2>1. Len(dst') = Len(dst) + k
    BY <1>3 DEF AppendedBytes
  <2>2. CASE outbuf' = outbuf /\ outoff' = outoff + k
    BY <1>1, <1>2, <2>1, <2>2 DEF Placed, Conservation
  <2>3. CASE outbuf' = <<>> /\ outoff' = 0 /\ k = Len(outbuf) - outoff
    <3>1. Len(outbuf') = 0
      BY <2>3
    <3> QED
      BY <1>1, <1>2, <2>1, <2>3, <3>1 DEF Placed, Conservation
  <2> QED
    BY <1>3, <2>2, <2>3
<1>6. \A i \in 1..Len(dst') : dst'[i] = Len(got) + lost + i
  <2> TAKE i \in 1..Len(dst')
  <2>1. CASE i <= Len(dst)
    BY <1>1, <1>3, <2>1 DEF Placed, AppendedBytes
  <2>2. CASE i > Len(dst)
    <3>0. i \in (Len(dst) + 1)..(Len(dst) + k) /\ k <= Len(outbuf) - outoff
      BY <1>1, <1>3, <2>2 DEF AppendedBytes
    <3>1. outoff + (i - Len(dst)) \in 1..Len(outbuf)
      BY <1>1, <3>0
    <3>2. dst'[i] = outbuf[outoff + (i - Len(dst))]
      BY <1>3, <3>0 DEF AppendedBytes
    <3>3. dst'[i] = emitted - Len(outbuf) + (outoff + (i - Len(dst)))
      BY <3>1, <3>2 DEF Placed
    <3> QED
      BY <1>1, <3>0, <3>3 DEF Placed, Conservation
  <2> QED
    BY <1>1, <2>1, <2>2
<1>7. \A i \in 1..Len(outbuf') : outbuf'[i] = emitted - Len(outbuf') + i
  BY <1>3 DEF Placed
<1> QED
  BY <1>2, <1>4, <1>5, <1>6, <1>7 DEF Placed

(* A fetch finds outbuf drained and fills it with what comes next.         *)
LEMMA PlacedFetched ==
  ASSUME Placed, Inductive, Decompress \/ DecompressPart
  PROVE  Placed'
<1> DEFINE n == SegOut(frame, seg, taken, taken + inlen)
<1>1. Produce(n) /\ pc = "fetch"
  BY DEF Decompress, DecompressPart
<1>2. /\ Len(got) \in Nat /\ Len(dst) \in Nat /\ lost \in Nat
      /\ emitted \in Nat /\ n \in Nat
      /\ outbuf = <<>> /\ outoff = 0
  <2>1. frame \in Frames /\ seg \in Nat \ {0}
    BY DEF Inductive, TypeOK
  <2>2. outbuf = <<>> /\ outoff = 0
    BY <1>1 DEF Inductive, Drained
  <2> QED
    <3>1. taken \in Nat /\ taken + inlen \in Nat
      BY DEF Inductive, TypeOK
    <3>2. n \in Nat
      BY <2>1, <3>1, SegSizes
    <3> QED
      BY <2>2, <3>2 DEF Inductive, TypeOK
<1> HIDE DEF n
<1>3. /\ got' = got /\ lost' = lost /\ dst' = dst /\ outoff' = 0
      /\ emitted' = emitted + n /\ Len(outbuf') = n
      /\ \A i \in 1..Len(outbuf') : outbuf'[i] = emitted + i
  BY <1>1, <1>2, Fresh DEF Produce, call
<1>4. Conservation'
  BY <1>2, <1>3 DEF Placed, Conservation
<1>5. InOrder'
  BY <1>3 DEF Placed, InOrder
<1> QED
  BY <1>2, <1>3, <1>4, <1>5 DEF Placed

(* A call returns: its bytes follow those returned before.                 *)
LEMMA PlacedReturned ==
  ASSUME Placed, Inductive, Return
  PROVE  Placed'
<1>1. /\ Len(got) \in Nat /\ Len(dst) \in Nat /\ Len(outbuf) \in Nat
      /\ lost \in Nat /\ outoff \in Nat /\ emitted \in Nat
      /\ got \in Seq(Nat) /\ dst \in Seq(Nat)
  BY DEF Inductive, TypeOK
<1>2. /\ lost' = lost /\ emitted' = emitted /\ outbuf' = outbuf
      /\ outoff' = outoff /\ dst' = <<>> /\ got' = got \o dst
  BY DEF Return, port, struct
<1>3. /\ Len(got') = Len(got) + Len(dst)
      /\ \A i \in 1..(Len(got) + Len(dst)) :
           got'[i] = IF i <= Len(got) THEN got[i] ELSE dst[i - Len(got)]
  BY <1>1, <1>2, ConcatProperties
<1>4. Conservation'
  BY <1>1, <1>2, <1>3 DEF Placed, Conservation
<1>5. \A i \in 1..Len(got) : got'[i] = got[i] /\ got[i] \in i..(i + lost)
  BY <1>1, <1>3 DEF Placed, InOrder
<1>6. \A i \in (Len(got) + 1)..(Len(got) + Len(dst)) : got'[i] = i + lost
  BY <1>1, <1>3 DEF Placed
<1>7. InOrder'
  <2>1. \A i \in 1..Len(got') : got'[i] \in i..(i + lost)
    <3> TAKE i \in 1..Len(got')
    <3>1. CASE i <= Len(got)
      BY <1>1, <1>3, <1>5, <3>1
    <3>2. CASE i > Len(got)
      <4>1. i \in (Len(got) + 1)..(Len(got) + Len(dst))
        BY <1>1, <1>3, <3>2
      <4> QED
        BY <1>1, <1>6, <4>1
    <3> QED
      BY <1>1, <1>3, <3>1, <3>2
  <2>2. ASSUME NEW i \in 1..Len(got'), NEW j \in 1..Len(got'), i < j
        PROVE  got'[i] < got'[j]
    <3>1. CASE j <= Len(got)
      BY <1>1, <1>3, <1>5, <2>2, <3>1 DEF Placed, InOrder
    <3>2. CASE j > Len(got)
      <4>1. got'[j] = j + lost /\ j \in Nat /\ i \in Nat
        <5>1. j \in (Len(got) + 1)..(Len(got) + Len(dst)) /\ i \in Nat
          BY <1>1, <1>3, <2>2, <3>2
        <5> QED
          BY <1>1, <1>6, <5>1
      <4>2. got'[i] \in i..(i + lost)
        BY <2>1
      <4> QED
        BY <1>1, <2>2, <4>1, <4>2
    <3> QED
      BY <1>1, <1>3, <3>1, <3>2
  <2> QED
    BY <1>2, <2>1, <2>2 DEF InOrder
<1> QED
  BY <1>2, <1>4, <1>7 DEF Placed

LEMMA PlacedNext == Placed /\ Inductive /\ [Next]_vars => Placed'
<1> SUFFICES ASSUME Placed, Inductive, [Next]_vars
             PROVE  Placed'
  OBVIOUS
<1> USE DEF port, struct, call, hist
<1>1. CASE InitRead \/ InitFails \/ Drop \/ decoder_free
  BY <1>1, PlacedKept DEF InitRead, InitFails, Drop, decoder_free
<1>2. ASSUME NEW n \in ReadSizes, fdec_read(n)
      PROVE  Placed'
  BY <1>2, PlacedKept, PlacedEntered DEF fdec_read, Nothing
<1>3. CASE fdec_read_all \/ fdec_getc \/ fdec_getbyte
  BY <1>3, PlacedKept, PlacedEntered
     DEF fdec_read_all, fdec_getc, fdec_getbyte, Nothing
<1>4. CASE fdec_close \/ LeaveLoop \/ EnterFetch \/ FetchMore \/ ReadAllAgain
  BY <1>4, PlacedKept
     DEF fdec_close, LeaveLoop, EnterFetch, FetchMore, ReadAllAgain
<1>5. CASE FetchFails \/ DecompressFails \/ Interrupted
  BY <1>5, PlacedRaised DEF FetchFails, DecompressFails, Interrupted
<1>6. CASE UNCHANGED vars
  BY <1>6, PlacedKept DEF vars
<1> QED
  BY <1>1, <1>2, <1>3, <1>4, <1>5, <1>6,
     PlacedCopied, PlacedFetched, PlacedReturned DEF Next, Caller, Running

(* Nothing the library produced is lost but by a call that raises, for     *)
(* every frame and every sequence of reads.                                *)
THEOREM Delivered == Spec => []Conservation
<1>1. Placed => Conservation
  BY DEF Placed
<1> QED
  BY <1>1, PlacedInit, PlacedNext, InductiveInvariant, PTL DEF Spec

(* What the caller gets is the content in order, for every frame and every *)
(* sequence of reads.                                                      *)
THEOREM ContentOrder == Spec => []InOrder
<1>1. Placed => InOrder
  BY DEF Placed
<1> QED
  BY <1>1, PlacedInit, PlacedNext, InductiveInvariant, PTL DEF Spec

-----------------------------------------------------------------------------
(* After an error there is no fetch and no byte: outbuf is empty and stays *)
(* so.                                                                     *)
THEOREM ErrorIsFinal == Spec => NoByteAfterError
<1>1. Inductive /\ [Next]_vars =>
        [status = ErrStatus => pc' # "fetch" /\ got' = got]_vars
  <2> SUFFICES ASSUME Inductive, Next, status = ErrStatus
               PROVE  pc' # "fetch" /\ got' = got
    OBVIOUS
  <2>1. /\ outbuf = <<>> /\ dst = <<>> /\ pc # "fetch" /\ pc # "copy"
        /\ got \in Seq(Nat) /\ LoopEnds
    BY DEF Inductive, Drained, TypeOK, LoopEnds, Signed_lt1, ErrStatus
  <2>2. CASE Caller \/ decoder_free
    BY <2>1, <2>2 DEF Caller, decoder_free, fdec_read, fdec_read_all,
         fdec_getc, fdec_getbyte, fdec_close, Drop, Enter, Nothing, hist
  <2>3. CASE Return
    <3>1. got \o <<>> = got
      BY <2>1, ConcatEmptySeq
    <3> QED
      BY <2>1, <2>3, <3>1 DEF Return
  <2>4. CASE InitRead \/ InitFails \/ LeaveLoop \/ ReadAllAgain
    BY <2>1, <2>4 DEF InitRead, InitFails, LeaveLoop, ReadAllAgain, hist
  <2>5. ~(EnterFetch \/ CopyOut \/ FetchMore \/ FetchFails \/ Decompress
          \/ DecompressPart \/ DecompressFails \/ Interrupted)
    BY <2>1 DEF EnterFetch, CopyOut, FetchMore, FetchFails, Decompress,
                DecompressPart, DecompressFails, Interrupted
  <2> QED
    BY <2>2, <2>3, <2>4, <2>5 DEF Next, Running
<1> QED
  BY <1>1, InductiveInvariant, PTL DEF Spec, NoByteAfterError

-----------------------------------------------------------------------------
(* With a content checksum the last segment has no content, so that status *)
(* is 0 only when outbuf is empty as well: what nil stands for.            *)
InCall == pc \in {"decode", "fetch", "copy", "return"}

Finished ==
  /\ pc \in {"fetch", "copy"} => size > 0
  /\ pc = "decode" => size > 0 \/ dst # <<>>
  /\ pc = "return" => dst # <<>> \/ (Signed_lt1(status) /\ outbuf = <<>>)
  /\ closed => status = 0 /\ pc \notin {"new", "magic"}
  /\ ret.kind = "nil" => /\ status \in {0, ErrStatus}
                         /\ pc \notin {"new", "magic", "fetch", "copy"}
  /\ frame.checksum /\ status = 0 /\ ~closed /\ (InCall \/ pc = "idle") =>
       seg > NumSegs(frame) /\ outbuf = <<>>
  /\ frame.checksum /\ ret.kind = "nil" /\ ~closed /\ status = 0 =>
       seg > NumSegs(frame) /\ outbuf = <<>> /\ dst = <<>>

LEMMA LastSegment ==
  ASSUME NEW f \in Frames, f.checksum, NEW k \in Nat \ {0}, NEW t, NEW u
  PROVE  /\ SegIn(f, k) = 0 => k > NumSegs(f)
         /\ k + 1 > NumSegs(f) => SegOut(f, k, t, u) = 0
         /\ NumSegs(f) \in Nat \ {0}
<1>1. NumSegs(f) = Len(f.blocks) + 1
  BY DEF NumSegs
<1>2. Len(f.blocks) \in Nat
  <2>1. f.blocks \in Seq([packed : Nat \ {0}, size : Nat \ {0}])
    BY FrameAssumption
  <2> QED
    BY <2>1, LenProperties
<1>3. k <= NumSegs(f) => SegIn(f, k) # 0
  <2> SUFFICES ASSUME k <= NumSegs(f) PROVE SegIn(f, k) # 0
    OBVIOUS
  <2>1. CASE k <= Len(f.blocks)
    <3>1. f.blocks \in Seq([packed : Nat \ {0}, size : Nat \ {0}])
      BY FrameAssumption
    <3>2. f.blocks[k] \in [packed : Nat \ {0}, size : Nat \ {0}]
      <4>1. k \in 1..Len(f.blocks)
        BY <1>2, <2>1
      <4> QED
        BY <3>1, <4>1, ElementOfSeq
    <3>3. f.blocks[k].packed \in Nat
      BY <3>2
    <3> QED
      BY <1>1, <1>2, <2>1, <3>3, SizeAssumption DEF SegIn
  <2>2. CASE ~(k <= Len(f.blocks))
    BY <1>1, <1>2, <2>2, SizeAssumption DEF SegIn
  <2> QED
    BY <2>1, <2>2
<1> QED
  BY <1>1, <1>2, <1>3 DEF SegOut

LEMMA FinishedNext == Finished /\ Inductive /\ [Next]_vars => Finished'
<1> SUFFICES ASSUME Finished, Inductive, [Next]_vars
             PROVE  Finished'
  OBVIOUS
<1> USE DEF ErrStatus, InCall, Signed_lt1
<1>1. CASE InitRead
  <2>1. /\ frame \in Frames /\ 1 \in Nat \ {0}
        /\ UNCHANGED <<frame, seg, outbuf, dst, closed, ret>>
        /\ dst = <<>> /\ ~closed /\ ret.kind # "nil"
    BY <1>1 DEF InitRead, Inductive, TypeOK, Drained, Finished,
                port, call, hist
  <2>2. frame.checksum => SegIn(frame, 1) # 0
    BY <2>1, LastSegment
  <2> QED
    BY <1>1, <2>1, <2>2 DEF InitRead, Finished
<1>2. CASE InitFails \/ Drop \/ decoder_free
  BY <1>2 DEF InitFails, Drop, decoder_free, Finished, Inductive, Drained,
              port, struct, call, hist
<1>3. ASSUME NEW n \in ReadSizes, fdec_read(n)
      PROVE  Finished'
  BY <1>3, SizeAssumption DEF fdec_read, Enter, Nothing, Finished, Inductive,
              Drained, port, struct, call, hist
<1>4. CASE fdec_read_all
  BY <1>4, SizeAssumption DEF fdec_read_all, Enter, Nothing, Finished,
              Inductive, Drained, port, struct, call, hist
<1>5. CASE fdec_getc \/ fdec_getbyte
  BY <1>5 DEF fdec_getc, fdec_getbyte, Enter, Nothing, Finished, Inductive,
              Drained, port, struct, call, hist
<1>6. CASE fdec_close
  BY <1>6 DEF fdec_close, Finished, Inductive, Drained, port, call
<1>7. CASE LeaveLoop
  BY <1>7 DEF LeaveLoop, LoopEnds, Finished, port, struct, call, hist
<1>8. CASE EnterFetch
  BY <1>8 DEF EnterFetch, LoopEnds, NeedFetch, Unsigned_gt0, Finished,
              Inductive, Drained, TypeOK, port, struct, call, hist
<1>9. CASE CopyOut
  <2>1. /\ size > 0 /\ size \in Nat /\ Len(dst) \in Nat /\ Len(outbuf) \in Nat
        /\ status' = status /\ closed' = closed /\ ret' = ret /\ seg' = seg
        /\ frame' = frame /\ outoff \in Nat /\ outoff <= Len(outbuf)
    BY <1>9 DEF CopyOut, LoopEnds, Finished, Inductive, TypeOK, Drained,
                port, hist
  <2>2. PICK k \in 0..(Len(outbuf) - outoff) :
           /\ AppendedBytes(outbuf, dst, outoff, k, dst')
           /\ outbuf' = outbuf \/ outbuf' = <<>>
           /\ \/ pc' = "decode" /\ size' = size - k
              \/ pc' = "return" /\ k = size
    BY <1>9, CopyEffect
  <2>3. /\ pc' = "decode" => size' > 0 \/ dst' # <<>>
        /\ pc' = "return" => dst' # <<>>
        /\ pc' \in {"decode", "return"}
    <3>1. k > 0 => Len(dst') > 0
      BY <2>1, <2>2 DEF AppendedBytes
    <3> QED
      BY <2>1, <2>2, <3>1
  <2>4. ~(frame.checksum /\ ret.kind = "nil" /\ ~closed /\ status = 0)
    BY <1>9 DEF CopyOut, LoopEnds, Finished
  <2>5. frame.checksum /\ status = 0 /\ ~closed =>
          seg > NumSegs(frame) /\ outbuf = <<>>
    BY <1>9 DEF CopyOut, Finished
  <2>6. ret.kind = "nil" => status \in {0, ErrStatus}
    BY DEF Finished
  <2>7. closed => status = 0
    BY DEF Finished
  <2> QED
    BY <2>1, <2>2, <2>3, <2>4, <2>5, <2>6, <2>7 DEF Finished
<1>10. CASE FetchMore
  BY <1>10 DEF FetchMore, Meanwhile, Finished, port, call
<1>11. CASE FetchFails \/ DecompressFails \/ Interrupted
  BY <1>11 DEF FetchFails, Meanwhile, DecompressFails, Interrupted, Raise,
               Finished, port, struct
<1>12. CASE Decompress \/ DecompressPart
  <2> DEFINE n == SegOut(frame, seg, taken, taken + inlen)
  <2>1. /\ frame \in Frames /\ seg \in Nat \ {0} /\ seg + 1 \in Nat \ {0}
        /\ SegIn(frame, seg) \in Nat /\ taken \in Nat /\ inlen \in Nat
    <3>1. frame \in Frames /\ seg \in Nat \ {0} /\ taken \in Nat /\ inlen \in Nat
      BY DEF Inductive, TypeOK
    <3> QED
      BY <3>1, SegSizes
  <2>2. pc = "fetch" /\ Produce(n)
    BY <1>12 DEF Decompress, DecompressPart
  <2>3. frame.checksum /\ status' = 0 => seg' > NumSegs(frame) /\ outbuf' = <<>>
    <3>1. CASE Decompress
      <4>1. frame.checksum /\ status' = 0 => seg + 1 > NumSegs(frame) /\ n = 0
        BY <2>1, <3>1, LastSegment DEF Decompress
      <4> HIDE DEF n
      <4> QED
        BY <2>2, <3>1, <4>1 DEF Decompress, Produce
    <3>2. CASE DecompressPart
      BY <2>1, <3>2 DEF DecompressPart
    <3> QED
      BY <1>12, <3>1, <3>2
  <2> HIDE DEF n
  <2> QED
    BY <2>2, <2>3 DEF Produce, Finished, call
<1>13. CASE ReadAllAgain
  BY <1>13, SizeAssumption DEF ReadAllAgain, Again, Finished, Inductive, TypeOK,
               port, struct, hist
<1>14. CASE Return
  <2>1. status \in Nat \cup {ErrStatus}
    BY DEF Inductive, TypeOK
  <2>2. /\ pc' = "idle" /\ dst' = <<>> /\ status' = status /\ seg' = seg
        /\ frame' = frame /\ outbuf' = outbuf /\ closed' = closed
        /\ pc = "return"
    BY <1>14 DEF Return, port, struct
  <2>3. ret'.kind = "nil" => dst = <<>>
    BY <1>14 DEF Return
  <2>4. ret'.kind = "nil" => status \in {0, ErrStatus}
    BY <2>1, <2>2, <2>3 DEF Finished
  <2> QED
    BY <2>2, <2>3, <2>4 DEF Finished
<1>15. CASE UNCHANGED vars
  BY <1>15 DEF vars, Finished
<1> QED
  BY <1>1, <1>2, <1>3, <1>4, <1>5, <1>6, <1>7, <1>8, <1>9, <1>10, <1>11,
     <1>12, <1>13, <1>14, <1>15 DEF Next, Caller, Running

(* nil is the end: a method that returns nil on a frame with a content     *)
(* checksum leaves nothing behind, though the decoder was closed while it  *)
(* fetched.                                                                *)
THEOREM NilIsTheEnd == Spec => []NothingLeftBehind
<1>1. Init => Finished
  BY DEF Init, Finished, InCall
<1>2. Finished /\ Inductive /\ Placed => NothingLeftBehind
  <2> SUFFICES ASSUME Finished, Inductive, Placed, frame.checksum,
                      ret.kind = "nil", ~closed, status # ErrStatus
               PROVE  seg > NumSegs(frame) /\ Len(got) + lost = emitted
    BY DEF NothingLeftBehind
  <2>1. seg > NumSegs(frame) /\ outbuf = <<>> /\ dst = <<>> /\ outoff = 0
    BY DEF Finished, Inductive, Drained
  <2>2. Len(got) \in Nat /\ lost \in Nat /\ Len(outbuf) = 0 /\ Len(dst) = 0
    BY <2>1 DEF Inductive, TypeOK
  <2> QED
    BY <2>1, <2>2 DEF Placed, Conservation
<1>3. Finished /\ Inductive /\ [Next]_vars => Finished'
  BY FinishedNext
<1> QED
  BY <1>1, <1>2, <1>3, PlacedInit, PlacedNext, InductiveInvariant, PTL DEF Spec

-----------------------------------------------------------------------------
(* Induction.  A set of numbers that is not empty has a least one.         *)
LEMMA LeastNumber ==
  ASSUME NEW T \in SUBSET Nat, T # {}
  PROVE  \E x \in T : \A y \in T : ~(y < x)
<1> DEFINE R == {ss \in Nat \X Nat : ss[1] < ss[2]}
<1>1. IsWellFoundedOn(R, Nat)
  BY NatLessThanWellFounded DEF OpToRel
<1>2. \A x, y \in Nat : y < x => <<y, x>> \in R
  OBVIOUS
<1> HIDE DEF R
<1>3. PICK x \in T : \A y \in T : ~(<<y, x>> \in R)
  BY <1>1, WFMin
<1> QED
  BY <1>2, <1>3

\* A set that holds 0 and with every number the next one holds them all.
LEMMA SetInduction ==
  ASSUME NEW T \in SUBSET Nat, 0 \in T, \A n \in T : n + 1 \in T
  PROVE  T = Nat
<1> SUFFICES ASSUME Nat \ T # {} PROVE FALSE
  OBVIOUS
<1>1. PICK x \in Nat \ T : \A y \in Nat \ T : ~(y < x)
  BY LeastNumber
<1>2. x - 1 \in Nat /\ x - 1 < x
  BY <1>1
<1>3. x - 1 \in T
  BY <1>1, <1>2
<1>4. x \in T
  BY <1>2, <1>3
<1> QED
  BY <1>1, <1>4

-----------------------------------------------------------------------------
(* What the blocks of a frame hold.                                        *)
Summed(c, f, m) ==
  c = [i \in 0..m |-> IF i = 0 THEN 0 ELSE c[i - 1] + f.blocks[i].size]

LEMMA SummedExists ==
  ASSUME NEW f, NEW m \in Nat
  PROVE  \E c : Summed(c, f, m)
<1> DEFINE T == {n \in Nat : \E c : Summed(c, f, n)}
<1>1. 0 \in T
  <2>1. Summed([n \in 0..0 |-> 0], f, 0)
    BY DEF Summed
  <2> QED
    BY <2>1
<1>2. ASSUME NEW n \in T PROVE n + 1 \in T
  <2>1. PICK c : Summed(c, f, n)
    OBVIOUS
  <2> DEFINE d == [i \in 0..(n + 1) |-> IF i = n + 1 THEN c[n] + f.blocks[n + 1].size ELSE c[i]]
  <2>2. ASSUME NEW i \in 0..(n + 1)
        PROVE  d[i] = IF i = 0 THEN 0 ELSE d[i - 1] + f.blocks[i].size
    BY <2>1 DEF Summed
  <2>3. d = [i \in 0..(n + 1) |-> IF i = 0 THEN 0 ELSE d[i - 1] + f.blocks[i].size]
    BY <2>2
  <2>4. Summed(d, f, n + 1)
    BY <2>3 DEF Summed
  <2> QED
    BY <2>4
<1> HIDE DEF T
<1>3. T = Nat
  <2>1. T \in SUBSET Nat
    BY DEF T
  <2> QED
    BY <1>1, <1>2, <2>1, SetInduction
<1> QED
  BY <1>3 DEF T

LEMMA BlocksAre ==
  ASSUME NEW f \in Frames
  PROVE  /\ Len(f.blocks) \in Nat /\ f.checksum \in BOOLEAN
         /\ \A i \in 1..Len(f.blocks) : f.blocks[i].packed \in Nat \ {0} /\ f.blocks[i].size \in Nat \ {0}
         /\ Len(f.blocks) # 0 \/ f.checksum
<1> DEFINE B == [packed : Nat \ {0}, size : Nat \ {0}]
<1>1. f.blocks \in Seq(B) /\ f.checksum \in BOOLEAN /\ (f.blocks # <<>> \/ f.checksum)
  BY FrameAssumption
<1>2. \A i \in 1..Len(f.blocks) : f.blocks[i] \in B
  BY <1>1, ElementOfSeq
<1>3. Len(f.blocks) \in Nat /\ (f.blocks # <<>> => Len(f.blocks) # 0)
  BY <1>1, EmptySeq
<1> QED
  BY <1>1, <1>2, <1>3

LEMMA SizeStep ==
  ASSUME NEW f \in Frames
  PROVE  /\ SizeTo(f, 0) = 0
         /\ \A n \in 0..(Len(f.blocks) - 1) : SizeTo(f, n + 1) = SizeTo(f, n) + f.blocks[n + 1].size
<1> DEFINE m == Len(f.blocks)
           r == CHOOSE c : Summed(c, f, m)
<1>1. m \in Nat
  BY BlocksAre
<1>2. \A n : SizeTo(f, n) = r[n]
  BY DEF SizeTo, Summed
<1> HIDE DEF r, m
<1>3. Summed(r, f, m)
  <2>1. \E c : Summed(c, f, m)
    BY <1>1, SummedExists
  <2> QED
    BY <2>1 DEF r
<1>4. r[0] = 0 /\ \A n \in 0..(m - 1) : r[n + 1] = r[n] + f.blocks[n + 1].size
  BY <1>1, <1>3 DEF Summed
<1> QED
  BY <1>2, <1>4 DEF m

\* No block holds nothing, so what the first blocks hold is no more than all.
LEMMA SizeType ==
  ASSUME NEW f \in Frames, NEW k \in 0..Len(f.blocks)
  PROVE  SizeTo(f, k) \in Nat
<1> DEFINE T == {n \in Nat : n <= Len(f.blocks) => SizeTo(f, n) \in Nat}
<1>0. Len(f.blocks) \in Nat /\ \A i \in 1..Len(f.blocks) : f.blocks[i].size \in Nat
  BY BlocksAre
<1>1. 0 \in T
  BY SizeStep
<1>2. ASSUME NEW n \in T PROVE n + 1 \in T
  <2> SUFFICES ASSUME n + 1 <= Len(f.blocks) PROVE SizeTo(f, n + 1) \in Nat
    OBVIOUS
  <2>1. n \in 0..(Len(f.blocks) - 1) /\ n + 1 \in 1..Len(f.blocks) /\ n <= Len(f.blocks)
    BY <1>0
  <2>2. SizeTo(f, n + 1) = SizeTo(f, n) + f.blocks[n + 1].size
    BY <2>1, SizeStep
  <2>3. SizeTo(f, n) \in Nat /\ f.blocks[n + 1].size \in Nat
    BY <1>0, <2>1
  <2> QED
    BY <2>2, <2>3
<1> HIDE DEF T
<1>3. T = Nat
  <2>1. T \in SUBSET Nat
    BY DEF T
  <2> QED
    BY <1>1, <1>2, <2>1, SetInduction
<1> QED
  BY <1>0, <1>3 DEF T

LEMMA SizeGrows ==
  ASSUME NEW f \in Frames, NEW k \in 0..Len(f.blocks)
  PROVE  SizeTo(f, k) <= Total(f) /\ Total(f) \in Nat /\ SizeTo(f, k) \in Nat
<1> DEFINE m == Len(f.blocks)
           T == {n \in Nat : k + n <= m => SizeTo(f, k) <= SizeTo(f, k + n)}
<1>0. m \in Nat /\ k \in Nat /\ k <= m /\ SizeTo(f, k) \in Nat
      /\ \A i \in 1..Len(f.blocks) : f.blocks[i].size \in Nat
  BY BlocksAre, SizeType
<1>1. 0 \in T
  BY <1>0
<1>2. ASSUME NEW n \in T PROVE n + 1 \in T
  <2> SUFFICES ASSUME k + (n + 1) <= m PROVE SizeTo(f, k) <= SizeTo(f, k + (n + 1))
    OBVIOUS
  <2> DEFINE j == k + n
  <2>1. j \in 0..(m - 1) /\ j + 1 \in 1..m /\ j \in 0..m /\ k + (n + 1) = j + 1 /\ k + n <= m
    BY <1>0
  <2>2. SizeTo(f, k) <= SizeTo(f, j)
    BY <2>1
  <2> HIDE DEF j, T
  <2>3. SizeTo(f, j + 1) = SizeTo(f, j) + f.blocks[j + 1].size /\ SizeTo(f, j) \in Nat
    BY <2>1, SizeStep, SizeType
  <2>4. f.blocks[j + 1].size \in Nat
    BY <1>0, <2>1
  <2> QED
    BY <1>0, <2>1, <2>2, <2>3, <2>4
<1> HIDE DEF T
<1>3. T = Nat
  <2>1. T \in SUBSET Nat
    BY DEF T
  <2> QED
    BY <1>1, <1>2, <2>1, SetInduction
<1>4. m - k \in T /\ k + (m - k) = m /\ m - k \in Nat
  BY <1>0, <1>3
<1>5. SizeTo(f, k) <= SizeTo(f, m)
  BY <1>0, <1>4 DEF T
<1>6. m \in 0..m
  BY <1>0
<1> HIDE DEF m
<1>7. SizeTo(f, m) \in Nat
  BY <1>6, SizeType DEF m
<1> QED
  BY <1>0, <1>5, <1>7 DEF m, Total

-----------------------------------------------------------------------------
(* How far the decompressor is, and the call in progress.                  *)
\* A block is decompressed when it is there as a whole.
Blocks == IF seg > Len(frame.blocks) THEN Len(frame.blocks)
          ELSE IF taken < frame.blocks[seg].packed THEN seg - 1 ELSE seg

\* A call that the decoder was closed in goes on only with a fetch, except
\* getbyte, which does not look at status.  What was copied and what is wanted
\* are together what was asked for.
Going ==
  /\ op # "none" <=> InCall
  /\ closed /\ InCall => pc = "fetch" \/ op = "getbyte"
  /\ op = "read_all" => Len(dst) + size = mark + TmpSize
  /\ op = "getbyte" => Len(dst) + size = 1
  /\ pc = "return" => size = 0 \/ (Signed_lt1(status) /\ outbuf = <<>>)
  /\ status = 0 /\ ~closed /\ (InCall \/ pc = "idle") => seg > NumSegs(frame)
  /\ emitted = SizeTo(frame, Blocks)

LEMMA BlocksType ==
  ASSUME Inductive
  PROVE  Blocks \in 0..Len(frame.blocks) /\ frame \in Frames
<1>1. frame \in Frames /\ seg \in Nat \ {0} /\ Len(frame.blocks) \in Nat
  BY BlocksAre DEF Inductive, TypeOK
<1> QED
  BY <1>1 DEF Blocks

LEMMA GoingInit == Init => Going
<1> SUFFICES ASSUME Init PROVE Going
  OBVIOUS
<1>1. /\ frame \in Frames /\ seg = 1 /\ taken = 0 /\ emitted = 0 /\ closed = FALSE
      /\ pc = "new" /\ op = "none"
  BY DEF Init
<1>2. Blocks = 0
  <2>1. /\ Len(frame.blocks) \in Nat
        /\ \A i \in 1..Len(frame.blocks) : frame.blocks[i].packed \in Nat \ {0}
    BY <1>1, BlocksAre
  <2>2. CASE seg > Len(frame.blocks)
    BY <1>1, <2>1, <2>2 DEF Blocks
  <2>3. CASE ~(seg > Len(frame.blocks))
    <3>1. frame.blocks[1].packed \in Nat \ {0}
      BY <1>1, <2>1, <2>3
    <3> QED
      BY <1>1, <2>3, <3>1 DEF Blocks
  <2> QED
    BY <2>2, <2>3
<1>3. SizeTo(frame, 0) = 0
  BY <1>1, SizeStep
<1> QED
  BY <1>1, <1>2, <1>3 DEF Going, InCall

\* Steps that touch none of these.
LEMMA BlocksKept ==
  ASSUME UNCHANGED <<frame, seg, taken, emitted>>
  PROVE  /\ (emitted = SizeTo(frame, Blocks)) => (emitted = SizeTo(frame, Blocks))'
         /\ NumSegs(frame)' = NumSegs(frame)
<1>1. Blocks' = Blocks
  BY DEF Blocks
<1> QED
  BY <1>1

\* A segment that needs no input is none.
LEMMA SegEnds ==
  ASSUME NEW f \in Frames, NEW k \in Nat \ {0}
  PROVE  SegIn(f, k) = 0 => k > NumSegs(f)
<1>1. /\ Len(f.blocks) \in Nat /\ NumSegs(f) \in Nat /\ HeaderSize \in Nat \ {0}
      /\ \A i \in 1..Len(f.blocks) : f.blocks[i].packed \in Nat
  BY BlocksAre, SegSizes, SizeAssumption
<1> SUFFICES ASSUME ~(k > NumSegs(f)) PROVE SegIn(f, k) # 0
  OBVIOUS
<1>2. CASE k <= Len(f.blocks)
  <2>1. f.blocks[k].packed \in Nat
    BY <1>1, <1>2
  <2> QED
    BY <1>1, <1>2, <2>1 DEF SegIn
<1>3. CASE ~(k <= Len(f.blocks))
  BY <1>1, <1>3 DEF SegIn
<1> QED
  BY <1>2, <1>3

\* A copy does not change what was asked for.
LEMMA CopiedSize ==
  ASSUME Inductive, CopyOut
  PROVE  /\ size' + Len(dst') = size + Len(dst)
         /\ size' \in Nat /\ Len(dst') \in Nat /\ size \in Nat /\ Len(dst) \in Nat
<1>1. size \in Nat /\ Len(dst) \in Nat /\ outoff \in Nat /\ Len(outbuf) \in Nat
  BY DEF Inductive, TypeOK
<1>2. PICK k \in 0..(Len(outbuf) - outoff) :
         /\ AppendedBytes(outbuf, dst, outoff, k, dst')
         /\ size' \in Nat
         /\ \/ pc' = "decode" /\ size' = size - k
            \/ pc' = "return" /\ k = size
  BY CopyEffect
<1>3. pc' = "return" => size' = 0
  BY DEF CopyOut, CopyPart, CopyRest
<1>4. Len(dst') = Len(dst) + k /\ k \in Nat
  BY <1>1, <1>2 DEF AppendedBytes
<1> QED
  BY <1>1, <1>2, <1>3, <1>4

\* What LZ4F_decompress takes and what comes of it.
LEMMA Decompressed ==
  ASSUME Inductive, Going, Decompress \/ DecompressPart
  PROVE  /\ emitted' = SizeTo(frame', Blocks')
         /\ status' = 0 => seg' > NumSegs(frame')
<1> DEFINE f == frame
           n == SegOut(f, seg, taken, taken + inlen)
           m == Len(f.blocks)
<1>1. /\ f \in Frames /\ seg \in Nat \ {0} /\ taken \in Nat /\ inlen \in Nat /\ m \in Nat
      /\ SegIn(f, seg) \in Nat /\ NumSegs(f) \in Nat /\ HeaderSize \in Nat \ {0}
      /\ seg \in 1..m => f.blocks[seg].packed \in Nat \ {0}
      /\ seg + 1 \in 1..m => f.blocks[seg + 1].packed \in Nat \ {0}
      /\ NumSegs(f) >= m
  <2>1. /\ f \in Frames /\ seg \in Nat \ {0} /\ taken \in Nat /\ inlen \in Nat
        /\ HeaderSize \in Nat \ {0}
    BY SizeAssumption DEF Inductive, TypeOK
  <2>2. m \in Nat /\ \A i \in 1..m : f.blocks[i].packed \in Nat \ {0}
    BY <2>1, BlocksAre
  <2>3. SegIn(f, seg) \in Nat /\ NumSegs(f) \in Nat
    BY <2>1, SegSizes
  <2>4. NumSegs(f) >= m
    BY <2>2 DEF NumSegs
  <2> QED
    BY <2>1, <2>2, <2>3, <2>4
<1>2. frame' = f /\ emitted' = emitted + n
  BY DEF Decompress, DecompressPart, Produce
<1>3. emitted = SizeTo(f, Blocks)
  BY DEF Going
<1>4. seg <= m => SegIn(f, seg) = HeaderSize + f.blocks[seg].packed
  BY <1>1 DEF SegIn
<1>5. n = IF seg <= m /\ taken < f.blocks[seg].packed /\ f.blocks[seg].packed <= taken + inlen
            THEN f.blocks[seg].size ELSE 0
  BY DEF SegOut
<1>6. Blocks = IF seg > m THEN m ELSE IF taken < f.blocks[seg].packed THEN seg - 1 ELSE seg
  BY DEF Blocks
<1>7. Blocks' = IF seg' > m THEN m ELSE IF taken' < f.blocks[seg'].packed THEN seg' - 1 ELSE seg'
  BY <1>2 DEF Blocks
<1>8. ASSUME seg <= m
      PROVE  SizeTo(f, seg) = SizeTo(f, seg - 1) + f.blocks[seg].size
  <2>1. seg - 1 \in 0..(m - 1) /\ (seg - 1) + 1 = seg
    BY <1>1, <1>8
  <2>2. SizeTo(f, (seg - 1) + 1) = SizeTo(f, seg - 1) + f.blocks[(seg - 1) + 1].size
    BY <1>1, <2>1, SizeStep
  <2> QED
    BY <2>1, <2>2
<1>9. SizeTo(f, Blocks) \in Nat
  BY BlocksType, SizeType
<1> HIDE DEF n, m, f
<1>10. CASE Decompress
  <2>1. taken + inlen = SegIn(f, seg) /\ seg' = seg + 1 /\ taken' = 0 /\ status' = SegIn(f, seg + 1)
    BY <1>10 DEF Decompress, f
  <2>2. Blocks' = IF seg > m THEN m ELSE seg
    BY <1>1, <1>7, <2>1
  <2>3. emitted' = SizeTo(f, Blocks')
    <3>1. CASE seg > m
      BY <1>1, <1>2, <1>3, <1>5, <1>6, <1>9, <2>2, <3>1
    <3>2. CASE ~(seg > m) /\ taken < f.blocks[seg].packed
      <4>1. n = f.blocks[seg].size
        BY <1>1, <1>4, <1>5, <2>1, <3>2
      <4> QED
        BY <1>1, <1>2, <1>3, <1>6, <1>8, <2>2, <3>2, <4>1
    <3>3. CASE ~(seg > m) /\ ~(taken < f.blocks[seg].packed)
      BY <1>1, <1>2, <1>3, <1>5, <1>6, <1>9, <2>2, <3>3
    <3> QED
      BY <3>1, <3>2, <3>3
  <2>4. status' = 0 => seg + 1 > NumSegs(f)
    <3>1. seg + 1 \in Nat \ {0}
      BY <1>1
    <3> QED
      BY <1>1, <2>1, <3>1, SegEnds
  <2> QED
    BY <1>2, <2>1, <2>3, <2>4
<1>11. CASE DecompressPart
  <2>1. /\ taken + inlen < SegIn(f, seg) /\ seg' = seg /\ taken' = taken + inlen
        /\ status' = SegIn(f, seg) - taken'
    BY <1>11 DEF DecompressPart, f
  <2>2. Blocks' = IF seg > m THEN m ELSE IF taken + inlen < f.blocks[seg].packed THEN seg - 1 ELSE seg
    BY <1>1, <1>7, <2>1
  <2>3. emitted' = SizeTo(f, Blocks')
    <3>1. CASE seg > m
      BY <1>1, <1>2, <1>3, <1>5, <1>6, <1>9, <2>2, <3>1
    <3>2. CASE ~(seg > m) /\ taken < f.blocks[seg].packed /\ f.blocks[seg].packed <= taken + inlen
      <4>1. n = f.blocks[seg].size
        BY <1>1, <1>5, <3>2
      <4>2. Blocks' = seg /\ Blocks = seg - 1
        BY <1>1, <1>6, <2>2, <3>2
      <4> QED
        BY <1>1, <1>2, <1>3, <1>8, <3>2, <4>1, <4>2
    <3>3. CASE ~(seg > m) /\ ~(taken < f.blocks[seg].packed /\ f.blocks[seg].packed <= taken + inlen)
      <4>1. n = 0
        BY <1>5, <3>3
      <4>2. Blocks' = Blocks
        BY <1>1, <1>6, <2>2, <3>3
      <4> QED
        BY <1>2, <1>3, <1>9, <4>1, <4>2
    <3> QED
      BY <3>1, <3>2, <3>3
  <2>4. status' # 0
    BY <1>1, <2>1
  <2> QED
    BY <1>2, <2>3, <2>4
<1> QED
  BY <1>10, <1>11 DEF f

LEMMA GoingNext == Going /\ Finished /\ Inductive /\ [Next]_vars => Going'
<1> SUFFICES ASSUME Going, Finished, Inductive, [Next]_vars
             PROVE  Going'
  OBVIOUS
<1> USE DEF InCall, ErrStatus
<1>0. Inductive'
  BY InductiveNext
<1>1. CASE InitRead
  <2>1. /\ UNCHANGED <<frame, seg, taken, emitted, outbuf, op, size, mark, dst, closed>>
        /\ pc \in {"new", "magic"} /\ pc' \in {"magic", "idle"}
        /\ pc' = "idle" => status' = SegIn(frame, 1)
    BY <1>1 DEF InitRead, port, call, hist
  <2>2. emitted' = SizeTo(frame', Blocks') /\ NumSegs(frame)' = NumSegs(frame)
    BY <2>1, BlocksKept DEF Going
  <2>3. pc' = "idle" => status' # 0
    <3>1. NumSegs(frame) \in Nat \ {0} /\ 1 \in Nat \ {0} /\ frame \in Frames
      <4>1. frame \in Frames
        BY DEF Inductive, TypeOK
      <4> QED
        BY <4>1, BlocksAre DEF NumSegs
    <3>2. SegIn(frame, 1) # 0
      BY <3>1, SegEnds
    <3> QED
      BY <2>1, <3>2
  <2> QED
    BY <2>1, <2>2, <2>3 DEF Going
<1>2. CASE InitFails \/ Drop \/ decoder_free \/ LeaveLoop \/ EnterFetch \/ FetchMore
  <2>1. UNCHANGED <<frame, seg, taken, emitted, outbuf, op, size, mark, dst>>
    BY <1>2 DEF InitFails, Drop, decoder_free, LeaveLoop, EnterFetch, FetchMore, port, struct, call, hist
  <2>2. emitted' = SizeTo(frame', Blocks') /\ NumSegs(frame)' = NumSegs(frame)
    BY <2>1, BlocksKept DEF Going
  <2>3. CASE InitFails \/ Drop \/ decoder_free
    BY <2>1, <2>2, <2>3 DEF InitFails, Drop, decoder_free, struct, hist, Going
  <2>4. CASE LeaveLoop
    BY <2>1, <2>2, <2>4 DEF LeaveLoop, LoopEnds, struct, hist, Going
  <2>5. CASE EnterFetch
    BY <2>1, <2>2, <2>5 DEF EnterFetch, struct, hist, Going
  <2>6. CASE FetchMore
    BY <2>1, <2>2, <2>6 DEF FetchMore, Meanwhile, Going
  <2> QED
    BY <1>2, <2>3, <2>4, <2>5, <2>6
<1>3. ASSUME NEW o \in {"read", "read_all", "getc", "getbyte"}, NEW n \in Nat, pc = "idle", Enter(o, n),
             o = "read_all" => n = TmpSize, o = "getbyte" => n = 1, closed => o = "getbyte"
      PROVE  Going'
  <2>1. /\ UNCHANGED <<frame, seg, taken, emitted, outbuf, status, closed>>
        /\ pc' = "decode" /\ op' = o /\ size' = n /\ mark' = 0 /\ dst' = <<>>
    BY <1>3 DEF Enter, port, struct, hist
  <2>2. emitted' = SizeTo(frame', Blocks') /\ NumSegs(frame)' = NumSegs(frame)
    BY <2>1, BlocksKept DEF Going
  <2>3. Len(dst') = 0 /\ TmpSize \in Nat
    BY <2>1, EmptySeq, SizeAssumption
  <2> QED
    BY <1>3, <2>1, <2>2, <2>3 DEF Going
<1>4. CASE UNCHANGED <<port, struct, pc, call, hist>>
  <2>1. UNCHANGED <<frame, seg, taken, emitted, outbuf, op, size, mark, dst, pc, status, closed>>
    BY <1>4 DEF port, struct, call, hist
  <2>2. emitted' = SizeTo(frame', Blocks') /\ NumSegs(frame)' = NumSegs(frame)
    BY <2>1, BlocksKept DEF Going
  <2> QED
    BY <2>1, <2>2 DEF Going
<1>5. ASSUME NEW n \in ReadSizes, fdec_read(n) PROVE Going'
  <2>1. n \in Nat
    BY SizeAssumption
  <2> QED
    BY <1>3, <1>4, <1>5, <2>1 DEF fdec_read, Nothing, Finished
<1>6. CASE fdec_read_all \/ fdec_getc \/ fdec_getbyte
  <2>1. TmpSize \in Nat /\ 1 \in Nat
    BY SizeAssumption
  <2> QED
    BY <1>3, <1>4, <1>6, <2>1 DEF fdec_read_all, fdec_getc, fdec_getbyte, Nothing, Finished
<1>7. CASE fdec_close
  <2>1. UNCHANGED <<frame, seg, taken, emitted, outbuf, op, size, mark, dst, pc>> /\ closed' /\ pc = "idle"
    BY <1>7 DEF fdec_close, port, call
  <2>2. emitted' = SizeTo(frame', Blocks')
    BY <2>1, BlocksKept DEF Going
  <2> QED
    BY <2>1, <2>2 DEF Going
<1>8. CASE CopyOut
  <2>1. UNCHANGED <<frame, seg, taken, emitted, status, op, mark, closed>> /\ pc \in {"decode", "copy"}
    BY <1>8 DEF CopyOut, port, hist
  <2>2. emitted' = SizeTo(frame', Blocks') /\ NumSegs(frame)' = NumSegs(frame)
    BY <2>1, BlocksKept DEF Going
  <2>3. pc' \in {"decode", "return"} /\ (pc' = "return" => size' = 0)
    BY <1>8 DEF CopyOut, CopyPart, CopyRest
  <2>4. size' + Len(dst') = size + Len(dst) /\ size' \in Nat /\ Len(dst') \in Nat /\ size \in Nat /\ Len(dst) \in Nat
    BY <1>8, CopiedSize
  <2>5. closed /\ InCall => op = "getbyte" \/ pc = "fetch"
    BY DEF Going
  <2>6. /\ op = "read_all" => Len(dst') + size' = mark + TmpSize
        /\ op = "getbyte" => Len(dst') + size' = 1
    <3>1. Len(dst') + size' = Len(dst) + size
      BY <2>4
    <3> QED
      BY <3>1 DEF Going
  <2> QED
    BY <2>1, <2>2, <2>3, <2>5, <2>6 DEF Going
<1>9. CASE FetchFails \/ DecompressFails \/ Interrupted
  <2>1. /\ UNCHANGED <<frame, seg, taken, emitted>> /\ pc' = "idle" /\ op' = "none"
        /\ pc \in {"fetch", "copy"}
    BY <1>9 DEF FetchFails, DecompressFails, Interrupted, Raise, port, struct
  <2>2. emitted' = SizeTo(frame', Blocks') /\ NumSegs(frame)' = NumSegs(frame)
    BY <2>1, BlocksKept DEF Going
  <2>3. status' = 0 /\ ~closed' => seg' > NumSegs(frame)'
    BY <1>9, <2>1, <2>2 DEF FetchFails, DecompressFails, Interrupted, Meanwhile, Going, struct
  <2> QED
    BY <2>1, <2>2, <2>3 DEF Going
<1>10. CASE Decompress \/ DecompressPart
  <2>1. emitted' = SizeTo(frame', Blocks') /\ (status' = 0 => seg' > NumSegs(frame'))
    BY <1>10, Decompressed
  <2>2. pc = "fetch" /\ pc' = "copy" /\ closed' = FALSE /\ UNCHANGED <<op, size, mark, dst>>
    BY <1>10 DEF Decompress, DecompressPart, Produce, call
  <2> QED
    BY <2>1, <2>2 DEF Going
<1>11. CASE ReadAllAgain
  <2>1. /\ UNCHANGED <<frame, seg, taken, emitted, outbuf, status, op, dst, closed>>
        /\ pc = "return" /\ op = "read_all" /\ size' = TmpSize /\ mark' = Len(dst) /\ pc' = "decode"
    BY <1>11 DEF ReadAllAgain, Again, port, struct, hist
  <2>2. emitted' = SizeTo(frame', Blocks') /\ NumSegs(frame)' = NumSegs(frame)
    BY <2>1, BlocksKept DEF Going
  <2> QED
    BY <2>1, <2>2 DEF Going
<1>12. CASE Return
  <2>1. /\ UNCHANGED <<frame, seg, taken, emitted, status, closed>>
        /\ pc = "return" /\ op' = "none" /\ pc' = "idle"
    BY <1>12 DEF Return, port, struct
  <2>2. emitted' = SizeTo(frame', Blocks') /\ NumSegs(frame)' = NumSegs(frame)
    BY <2>1, BlocksKept DEF Going
  <2> QED
    BY <2>1, <2>2 DEF Going
<1>13. CASE UNCHANGED vars
  BY <1>4, <1>13 DEF vars, port, struct, call, hist
<1> QED
  BY <1>1, <1>2, <1>5, <1>6, <1>7, <1>8, <1>9, <1>10, <1>11, <1>12, <1>13 DEF Next, Caller, Running

-----------------------------------------------------------------------------
(* The decoder implements the sequential reader.                           *)

\* What was handed out, copied or dropped is no more than the content.
LEMMA Accounted ==
  ASSUME Inductive, Placed, Going
  PROVE  /\ Len(got) \in Nat /\ Len(dst) \in Nat /\ lost \in Nat /\ size \in Nat
         /\ Total(frame) \in Nat /\ Len(got) + lost + Len(dst) <= Total(frame)
         /\ seg > NumSegs(frame) /\ outbuf = <<>> => Len(got) + lost + Len(dst) = Total(frame)
<1>1. /\ Len(got) \in Nat /\ Len(dst) \in Nat /\ lost \in Nat /\ size \in Nat
      /\ Len(outbuf) \in Nat /\ outoff \in Nat /\ outoff <= Len(outbuf)
      /\ outbuf = <<>> => outoff = 0 /\ Len(outbuf) = 0
  BY DEF Inductive, TypeOK, Drained
<1>2. /\ Blocks \in 0..Len(frame.blocks) /\ frame \in Frames /\ Len(frame.blocks) \in Nat
      /\ seg \in Nat
  BY BlocksType, BlocksAre DEF Inductive, TypeOK
<1>3. emitted = SizeTo(frame, Blocks) /\ Len(got) + Len(dst) + (Len(outbuf) - outoff) + lost = emitted
  BY DEF Going, Placed, Conservation
<1>4. emitted <= Total(frame) /\ Total(frame) \in Nat /\ emitted \in Nat
  BY <1>2, <1>3, SizeGrows
<1>5. seg > NumSegs(frame) => emitted = Total(frame)
  <2>1. NumSegs(frame) >= Len(frame.blocks) /\ NumSegs(frame) \in Nat
    BY <1>2 DEF NumSegs
  <2>2. seg > NumSegs(frame) => Blocks = Len(frame.blocks)
    BY <1>2, <2>1 DEF Blocks
  <2> QED
    BY <1>3, <2>2 DEF Total
<1> QED
  BY <1>1, <1>3, <1>4, <1>5

\* A call in progress may be answered with what it has copied.
LEMMA DueIsThere ==
  ASSUME Inductive, Placed, Going, InCall
  PROVE  /\ Asked # Reader!Nobody
         /\ Reader!Due \in Nat /\ Len(dst) \in 0..Reader!Due
<1>1. /\ Len(got) \in Nat /\ Len(dst) \in Nat /\ lost \in Nat /\ size \in Nat
      /\ Total(frame) \in Nat /\ Len(got) + lost + Len(dst) <= Total(frame)
  BY Accounted
<1>2. op # "none"
  BY DEF Going
<1>3. CASE op = "read_all"
  <2>1. Asked = Reader!Everything
    BY <1>3 DEF Asked, Reader!Everything
  <2>2. Reader!Due = Total(frame) - (Len(got) + lost)
    BY <2>1 DEF Reader!Due, Reader!Left
  <2>3. Asked # Reader!Nobody
    BY <2>1 DEF Reader!Everything, Reader!Nobody
  <2> QED
    BY <1>1, <2>2, <2>3
<1>4. CASE op # "read_all"
  <2>1. Asked = [kind |-> "some", len |-> size + Len(dst)]
    BY <1>2, <1>4 DEF Asked
  <2>2. Asked # Reader!Everything /\ Asked # Reader!Nobody /\ Asked.len = size + Len(dst)
    BY <2>1 DEF Reader!Everything, Reader!Nobody
  <2>3. Reader!Due = IF size + Len(dst) > Total(frame) - (Len(got) + lost)
                       THEN Total(frame) - (Len(got) + lost) ELSE size + Len(dst)
    BY <2>2 DEF Reader!Due, Reader!Left
  <2> QED
    BY <1>1, <2>2, <2>3
<1> QED
  BY <1>3, <1>4

\* Steps the caller does not see.
LEMMA Unseen ==
  ASSUME UNCHANGED <<frame, got, lost, closed, ret>>, Asked' = Asked,
         status' = ErrStatus <=> status = ErrStatus
  PROVE  UNCHANGED Reader!vars
  BY DEF Reader!vars

\* What a call returns: the whole of what is due, of a decoder that is neither
\* damaged nor closed.
LEMMA ReturnedDue ==
  ASSUME Inductive, Placed, Going, Return
  PROVE  \/ dst = <<>> /\ (status = ErrStatus \/ closed)
         \/ status # ErrStatus /\ Len(dst) = Reader!Due
<1>1. /\ Len(got) \in Nat /\ Len(dst) \in Nat /\ lost \in Nat /\ size \in Nat
      /\ Total(frame) \in Nat /\ Len(got) + lost + Len(dst) <= Total(frame)
      /\ seg > NumSegs(frame) /\ outbuf = <<>> => Len(got) + lost + Len(dst) = Total(frame)
  BY Accounted
<1>2. pc = "return" /\ ~Again /\ InCall /\ mark \in Nat /\ TmpSize \in Nat \ {0}
  BY SizeAssumption DEF Return, InCall, Inductive, TypeOK
<1>3. op # "none" /\ (size = 0 \/ (Signed_lt1(status) /\ outbuf = <<>>))
  BY <1>2 DEF Going
<1>4. status = ErrStatus => dst = <<>>
  BY DEF Inductive, Drained
<1>5. CASE status # ErrStatus /\ ~(dst = <<>> /\ closed)
  <2>1. size # 0 => status = 0 /\ outbuf = <<>>
    BY <1>3, <1>5 DEF Inductive, TypeOK, Signed_lt1, ErrStatus
  <2>2. size # 0 => ~closed
    <3>1. closed => Len(dst) + size = 1 /\ op = "getbyte"
      BY <1>2 DEF Going
    <3>2. Len(dst) = 0 => dst = <<>>
      BY DEF Inductive, TypeOK
    <3> QED
      BY <1>1, <1>5, <3>1, <3>2
  <2>3. size # 0 => Len(got) + lost + Len(dst) = Total(frame)
    BY <1>1, <1>2, <2>1, <2>2 DEF Going
  <2>4. CASE op = "read_all"
    <3>1. Asked = Reader!Everything
      BY <2>4 DEF Asked, Reader!Everything
    <3>2. Reader!Due = Total(frame) - (Len(got) + lost)
      BY <3>1 DEF Reader!Due, Reader!Left
    <3>3. size # 0
      <4>1. Len(dst) <= mark
        BY <1>1, <1>2, <2>4 DEF Again
      <4>2. Len(dst) + size = mark + TmpSize
        BY <2>4 DEF Going
      <4> QED
        BY <1>1, <1>2, <4>1, <4>2
    <3> QED
      BY <1>1, <1>5, <2>3, <3>2, <3>3
  <2>5. CASE op # "read_all"
    <3>1. Asked = [kind |-> "some", len |-> size + Len(dst)]
      BY <1>3, <2>5 DEF Asked
    <3>2. Asked # Reader!Everything /\ Asked.len = size + Len(dst)
      BY <3>1 DEF Reader!Everything
    <3>3. Reader!Due = IF size + Len(dst) > Total(frame) - (Len(got) + lost)
                         THEN Total(frame) - (Len(got) + lost) ELSE size + Len(dst)
      BY <3>2 DEF Reader!Due, Reader!Left
    <3> QED
      BY <1>1, <1>5, <2>3, <3>3
  <2> QED
    BY <2>4, <2>5
<1> QED
  BY <1>4, <1>5

\* A read without size that returns something has read everything.
THEOREM ReadAllIsWhole == Spec => ReadAllIsAll
<1>1. Init => Finished
  BY DEF Init, Finished, InCall
<1>2. Inductive /\ Placed /\ Going /\ [Next]_vars =>
        [pc = "return" /\ op = "read_all" /\ got' # got => Len(got') + lost = Total(frame)]_vars
  <2> SUFFICES ASSUME Inductive, Placed, Going, Next,
                      pc = "return", op = "read_all", got' # got
               PROVE  Len(got') + lost = Total(frame)
    OBVIOUS
  <2>1. Return
    BY DEF Next, Caller, Running, fdec_read, fdec_read_all, fdec_getc, fdec_getbyte, fdec_close,
           Drop, InitRead, InitFails, LeaveLoop, EnterFetch, CopyOut, FetchMore, FetchFails,
           Decompress, DecompressPart, DecompressFails, Interrupted, ReadAllAgain, decoder_free,
           hist
  <2>2. got \in Seq(Nat) /\ dst \in Seq(Nat) /\ got' = got \o dst
    BY <2>1 DEF Return, Inductive, TypeOK
  <2>3. dst # <<>>
    BY <2>2, ConcatEmptySeq
  <2>4. Len(dst) = Reader!Due
    BY <2>1, <2>3, ReturnedDue
  <2>5. Reader!Due = Total(frame) - (Len(got) + lost)
    BY DEF Reader!Due, Reader!Left, Asked, Reader!Everything
  <2>6. Len(got') = Len(got) + Len(dst)
    BY <2>2, ConcatProperties
  <2>7. Len(got) \in Nat /\ Len(dst) \in Nat /\ lost \in Nat /\ Total(frame) \in Nat
    BY Accounted
  <2> QED
    BY <2>4, <2>5, <2>6, <2>7
<1> QED
  BY <1>1, <1>2, FinishedNext, GoingInit, GoingNext, PlacedInit, PlacedNext, InductiveInvariant, PTL
     DEF Spec, ReadAllIsAll

\* The bytes a call copied are the ones that come next.
LEMMA ReturnedBytes ==
  ASSUME Inductive, Placed, Return, Len(dst) = Reader!Due
  PROVE  got' = got \o [i \in 1..Reader!Due |-> Len(got) + lost + i]
<1> DEFINE n == Reader!Due
           base == Len(got) + lost
<1>1. dst \in Seq(Nat) /\ got' = got \o dst /\ Len(dst) = n /\ Len(dst) \in Nat
  BY DEF Inductive, TypeOK, Return
<1>2. \A i \in 1..Len(dst) : dst[i] = base + i
  BY DEF Placed
<1>3. dst = [i \in 1..Len(dst) |-> dst[i]]
  BY <1>1
<1> HIDE DEF n, base
<1>4. dst = [i \in 1..n |-> base + i]
  BY <1>1, <1>2, <1>3
<1> QED
  BY <1>1, <1>4 DEF n, base

LEMMA StepReturn ==
  ASSUME Inductive, Placed, Going, Return
  PROVE  Reader!Answer \/ Reader!Refuse
<1>1. /\ Len(got) \in Nat /\ Len(dst) \in Nat /\ lost \in Nat /\ got \in Seq(Nat) /\ dst \in Seq(Nat)
  BY DEF Inductive, TypeOK
<1>2. /\ frame' = frame /\ lost' = lost /\ closed' = closed /\ status' = status
      /\ got' = got \o dst /\ Asked' = Reader!Nobody /\ pc = "return"
      /\ ret'.kind = (IF dst = <<>> THEN "nil" ELSE "data") /\ ret'.len = Len(dst)
  BY DEF Return, port, struct, Asked, Reader!Nobody
<1>3. CASE dst = <<>> /\ (status = ErrStatus \/ closed)
  <2>1. got' = got /\ Len(dst) = 0
    BY <1>1, <1>2, <1>3, ConcatEmptySeq
  <2>2. [kind |-> ret.kind, len |-> ret.len]' = [kind |-> "nil", len |-> 0]
    BY <1>2, <1>3, <2>1
  <2> QED
    BY <1>2, <1>3, <2>1, <2>2 DEF Reader!Refuse
<1>4. CASE status # ErrStatus /\ Len(dst) = Reader!Due
  <2>1. Asked # Reader!Nobody
    BY <1>2, DueIsThere DEF InCall
  <2>2. got' = got \o [i \in 1..Reader!Due |-> Len(got) + lost + i]
    BY <1>4, ReturnedBytes
  <2>3. Len(got') + lost' = (Len(got) + lost) + Reader!Due
    <3>1. Len(got') = Len(got) + Len(dst)
      BY <1>1, <1>2, ConcatProperties
    <3> HIDE DEF Reader!Due
    <3> QED
      BY <1>1, <1>2, <1>4, <3>1
  <2>4. dst = <<>> <=> Reader!Due = 0
    BY <1>1, <1>4
  <2>5. [kind |-> ret.kind, len |-> ret.len]'
          = [kind |-> IF Reader!Due = 0 THEN "nil" ELSE "data", len |-> Reader!Due]
    BY <1>2, <1>4, <2>4
  <2> QED
    BY <1>2, <1>4, <2>1, <2>2, <2>3, <2>5 DEF Reader!Answer
<1> QED
  BY <1>3, <1>4, ReturnedDue

LEMMA StepFail ==
  ASSUME Inductive, Placed, Going, FetchFails \/ DecompressFails \/ Interrupted
  PROVE  Reader!Fail
<1>1. /\ Len(got) \in Nat /\ Len(dst) \in Nat /\ lost \in Nat
  BY DEF Inductive, TypeOK
<1>2. /\ pc \in {"fetch", "copy"} /\ frame' = frame /\ lost' = lost + Len(dst) /\ got' = got
      /\ op' = "none" /\ ret' = [kind |-> "raise", len |-> 0] /\ closed \in BOOLEAN
  BY DEF FetchFails, DecompressFails, Interrupted, Raise, port, Inductive, TypeOK
<1>3. closed' \in BOOLEAN /\ status # ErrStatus
  BY <1>2 DEF FetchFails, DecompressFails, Interrupted, Meanwhile, Inductive, TypeOK, Drained
<1>4. Asked # Reader!Nobody /\ Len(dst) \in 0..Reader!Due
  BY <1>2, DueIsThere DEF InCall
<1>5. Len(got') + lost' = (Len(got) + lost) + Len(dst)
  BY <1>1, <1>2
<1>6. \E k \in 0..Reader!Due : Len(got') + lost' = (Len(got) + lost) + k
  BY <1>4, <1>5
<1>7. Asked' = Reader!Nobody
  BY <1>2 DEF Asked, Reader!Nobody
<1>8. (status = ErrStatus)' \in {status = ErrStatus, TRUE}
  BY <1>3
<1> QED
  BY <1>2, <1>3, <1>4, <1>6, <1>7, <1>8 DEF Reader!Fail

LEMMA StepEnter ==
  ASSUME Inductive, NEW o \in {"read", "read_all", "getc", "getbyte"}, NEW n \in Nat \ {0},
         pc = "idle", Enter(o, n), op = "none", closed => o = "getbyte" /\ n = 1
  PROVE  Reader!Ask
<1>1. /\ UNCHANGED <<frame, status, got, lost, closed, ret>>
      /\ op' = o /\ size' = n /\ dst' = <<>> /\ Len(dst') = 0
  BY EmptySeq DEF Enter, port, struct, hist
<1>2. Asked = Reader!Nobody
  BY DEF Asked, Reader!Nobody
<1>3. CASE o = "read_all"
  <2>1. Asked' = Reader!Everything
    BY <1>1, <1>3 DEF Asked, Reader!Everything
  <2> QED
    BY <1>1, <1>2, <1>3, <2>1 DEF Reader!Ask
<1>4. CASE o # "read_all"
  <2>1. Asked' = [kind |-> "some", len |-> n]
    BY <1>1, <1>4 DEF Asked
  <2>2. Asked'.len = n
    BY <2>1
  <2>3. Asked' = Reader!Bytes(Asked'.len) /\ (closed => Asked' = Reader!Bytes(1))
    BY <2>1, <2>2 DEF Reader!Bytes
  <2> QED
    BY <1>1, <1>2, <2>2, <2>3 DEF Reader!Ask
<1> QED
  BY <1>3, <1>4

LEMMA StepNothing ==
  ASSUME Inductive, Placed, Finished, Going, frame.checksum,
         pc = "idle", op = "none", status = 0, Nothing
  PROVE  Reader!Refuse
<1>1. /\ UNCHANGED <<frame, status, got, lost, closed, op, size, dst>>
      /\ ret' = [kind |-> "nil", len |-> 0]
  BY DEF Nothing, port, struct, call, hist
<1>2. Asked = Reader!Nobody /\ Asked' = Reader!Nobody
  BY <1>1 DEF Asked, Reader!Nobody
<1>3. ~closed => Reader!Left = 0
  <2>1. ~closed => seg > NumSegs(frame) /\ outbuf = <<>>
    BY DEF Finished
  <2>2. dst = <<>> /\ Len(dst) = 0
    BY EmptySeq DEF Inductive, Drained
  <2>3. ~closed => Len(got) + lost + Len(dst) = Total(frame)
    BY <2>1, Accounted
  <2>4. Len(got) \in Nat /\ lost \in Nat
    BY Accounted
  <2> QED
    BY <2>2, <2>3, <2>4 DEF Reader!Left
<1> QED
  BY <1>1, <1>2, <1>3 DEF Reader!Refuse

\* What the caller begins.
LEMMA StepCaller ==
  ASSUME Inductive, Placed, Finished, Going, frame.checksum, Caller
  PROVE  Reader!Next \/ UNCHANGED Reader!vars
<1>1. pc = "idle" /\ op = "none" /\ (closed => status = 0)
  BY DEF Caller, fdec_read, fdec_read_all, fdec_getc, fdec_getbyte, fdec_close, Drop,
         Going, InCall, Finished
<1>2. TmpSize \in Nat \ {0} /\ 1 \in Nat \ {0} /\ ReadSizes \subseteq Nat
  BY SizeAssumption
<1>3. ASSUME NEW n \in ReadSizes, fdec_read(n)
      PROVE  Reader!Next
  <2>1. CASE n = 0 /\ ret' = [kind |-> "data", len |-> 0]
             /\ UNCHANGED <<port, struct, pc, call, hist>>
    <3>1. UNCHANGED <<frame, status, got, lost, closed, op, size, dst>>
      BY <2>1 DEF port, struct, call, hist
    <3>2. Asked = Reader!Nobody /\ Asked' = Asked
      BY <1>1, <3>1 DEF Asked, Reader!Nobody
    <3> QED
      BY <2>1, <3>1, <3>2 DEF Reader!Next, Reader!AnswerEmpty
  <2>2. CASE status = 0 /\ Nothing
    BY <1>1, <2>2, StepNothing DEF Reader!Next
  <2>3. CASE n > 0 /\ status # 0 /\ Enter("read", n)
    <3>1. n \in Nat \ {0} /\ ~closed
      BY <1>1, <1>2, <2>3
    <3> QED
      BY <1>1, <2>3, <3>1, StepEnter DEF Reader!Next
  <2> QED
    BY <1>3, <2>1, <2>2, <2>3 DEF fdec_read
<1>4. CASE fdec_read_all \/ fdec_getc \/ fdec_getbyte
  BY <1>1, <1>2, <1>4, StepNothing, StepEnter DEF fdec_read_all, fdec_getc, fdec_getbyte, Reader!Next
<1>5. CASE fdec_close
  <2>1. /\ UNCHANGED <<frame, got, lost, op, size, dst, ret>> /\ status' # ErrStatus /\ closed' = TRUE
    BY <1>5 DEF fdec_close, port, call, ErrStatus
  <2>2. Asked' = Asked
    BY <2>1 DEF Asked
  <2> QED
    BY <2>1, <2>2 DEF Reader!Next, Reader!Close
<1>6. CASE Drop
  <2>1. UNCHANGED <<frame, got, lost, op, size, dst, ret, closed, status>>
    BY <1>6 DEF Drop, port, struct, call, hist
  <2>2. Asked' = Asked
    BY <2>1 DEF Asked
  <2> QED
    BY <2>1, <2>2, Unseen
<1> QED
  BY <1>3, <1>4, <1>5, <1>6 DEF Caller

\* What goes on in a call.
LEMMA StepRunning ==
  ASSUME Inductive, Placed, Finished, Going, Running \/ decoder_free
  PROVE  Reader!Next \/ UNCHANGED Reader!vars
<1>1. CASE InitRead \/ InitFails \/ decoder_free \/ LeaveLoop \/ EnterFetch
  <2>1. UNCHANGED <<frame, got, lost, op, size, dst, ret, closed>>
    BY <1>1 DEF InitRead, InitFails, decoder_free, LeaveLoop, EnterFetch, port, struct, call, hist
  <2>2. status' = ErrStatus <=> status = ErrStatus
    <3>1. CASE InitRead
      <4>1. frame \in Frames /\ 1 \in Nat \ {0} /\ pc \in {"new", "magic"}
        BY <3>1 DEF Inductive, TypeOK, InitRead
      <4>2. SegIn(frame, 1) \in Nat
        BY <4>1, SegSizes
      <4> QED
        BY <3>1, <4>1, <4>2 DEF InitRead, Inductive, Drained, ErrStatus
    <3>2. CASE InitFails \/ decoder_free \/ LeaveLoop \/ EnterFetch
      BY <3>2 DEF InitFails, decoder_free, LeaveLoop, EnterFetch, struct
    <3> QED
      BY <1>1, <3>1, <3>2
  <2>3. Asked' = Asked
    BY <2>1 DEF Asked
  <2> QED
    BY <2>1, <2>2, <2>3, Unseen
<1>2. CASE CopyOut
  <2>1. UNCHANGED <<frame, got, lost, op, ret, closed, status>>
    BY <1>2 DEF CopyOut, port, hist
  <2>2. size' + Len(dst') = size + Len(dst)
    BY <1>2, CopiedSize
  <2>3. Asked' = Asked
    BY <2>1, <2>2 DEF Asked
  <2> QED
    BY <2>1, <2>3, Unseen
<1>3. CASE FetchMore
  <2>1. /\ UNCHANGED <<frame, got, lost, op, size, dst, ret>>
        /\ status # ErrStatus
        /\ UNCHANGED <<status, closed>> \/ (status' = 0 /\ closed' = TRUE)
    BY <1>3 DEF FetchMore, Meanwhile, port, call, Inductive, Drained
  <2>2. Asked' = Asked
    BY <2>1 DEF Asked
  <2>3. CASE UNCHANGED <<status, closed>>
    BY <2>1, <2>2, <2>3, Unseen
  <2>4. CASE status' = 0 /\ closed' = TRUE
    BY <2>1, <2>2, <2>4 DEF Reader!Next, Reader!Close, ErrStatus
  <2> QED
    BY <2>1, <2>3, <2>4
<1>4. CASE Decompress \/ DecompressPart
  <2>1. /\ UNCHANGED <<frame, got, lost, op, size, dst, ret>> /\ closed' = FALSE
        /\ pc = "fetch" /\ status # ErrStatus
    BY <1>4 DEF Decompress, DecompressPart, Produce, call, Inductive, Drained
  <2>2. status' # ErrStatus
    <3>1. frame \in Frames /\ seg \in Nat \ {0} /\ seg + 1 \in Nat \ {0} /\ taken \in Nat /\ inlen \in Nat
      BY DEF Inductive, TypeOK
    <3>2. SegIn(frame, seg) \in Nat /\ SegIn(frame, seg + 1) \in Nat
      BY <3>1, SegSizes
    <3> QED
      BY <1>4, <3>1, <3>2 DEF Decompress, DecompressPart, ErrStatus
  <2>3. Asked' = Asked
    BY <2>1 DEF Asked
  <2>4. Asked # Reader!Nobody
    BY <2>1, DueIsThere DEF InCall
  <2>5. CASE closed
    BY <2>1, <2>2, <2>3, <2>4, <2>5 DEF Reader!Next, Reader!Reopen
  <2>6. CASE ~closed
    <3>1. closed' = closed
      BY <2>1, <2>6 DEF Inductive, TypeOK
    <3> QED
      BY <2>1, <2>2, <2>3, <3>1, Unseen
  <2> QED
    BY <2>5, <2>6
<1>5. CASE FetchFails \/ DecompressFails \/ Interrupted
  BY <1>5, StepFail DEF Reader!Next
<1>6. CASE ReadAllAgain
  <2>1. UNCHANGED <<frame, got, lost, op, dst, ret, closed, status>> /\ op = "read_all"
    BY <1>6 DEF ReadAllAgain, Again, port, struct, hist
  <2>2. Asked' = Asked
    BY <2>1 DEF Asked
  <2> QED
    BY <2>1, <2>2, Unseen
<1>7. CASE Return
  BY <1>7, StepReturn DEF Reader!Next
<1> QED
  BY <1>1, <1>2, <1>3, <1>4, <1>5, <1>6, <1>7 DEF Running

\* The decoder is a sequential reader of the content, for every frame with a
\* content checksum, however it is cut into blocks, reads and pieces of input,
\* and whatever fails: each of its steps is one of the reader, or is not seen.
THEOREM ReadsInSequence == Spec => ReaderSpec
<1>1. Init => Finished
  BY DEF Init, Finished, InCall
<1>2. Init => (frame.checksum => Reader!Init)
  <2> SUFFICES ASSUME Init PROVE Reader!Init
    OBVIOUS
  <2>1. /\ frame \in Frames /\ got = <<>> /\ Len(got) = 0 /\ lost = 0 /\ op = "none"
        /\ ret = [kind |-> "none", len |-> 0] /\ closed = FALSE /\ status = 0
    BY EmptySeq DEF Init
  <2>2. Total(frame) \in Nat
    <3>1. 0 \in 0..Len(frame.blocks)
      BY <2>1, BlocksAre
    <3> QED
      BY <2>1, <3>1, SizeGrows
  <2>3. Asked = Reader!Nobody
    BY <2>1 DEF Asked, Reader!Nobody
  <2> QED
    BY <2>1, <2>2, <2>3 DEF Reader!Init, ErrStatus
<1>3. Inductive /\ Placed /\ Finished /\ Going /\ [Next]_vars =>
        [frame.checksum => Reader!Next]_(Reader!vars)
  <2> SUFFICES ASSUME Inductive, Placed, Finished, Going, [Next]_vars, frame.checksum
               PROVE  Reader!Next \/ UNCHANGED Reader!vars
    OBVIOUS
  <2>1. CASE UNCHANGED vars
    <3>1. UNCHANGED <<frame, got, lost, op, size, dst, ret, closed, status>>
      BY <2>1 DEF vars
    <3>2. Asked' = Asked
      BY <3>1 DEF Asked
    <3> QED
      BY <3>1, <3>2, Unseen
  <2> QED
    BY <2>1, StepCaller, StepRunning DEF Next
<1> QED
  BY <1>1, <1>2, <1>3, FinishedNext, GoingInit, GoingNext, PlacedInit, PlacedNext, InductiveInvariant, PTL
     DEF Spec, ReaderSpec
=============================================================================
