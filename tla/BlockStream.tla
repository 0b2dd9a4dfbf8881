---------------------------- MODULE BlockStream ----------------------------
(***************************************************************************)
(* A stream of linked blocks from a BlockEncoder to a BlockDecoder.  The   *)
(* application carries the blocks in order, and resets the decoder where   *)
(* it has reset the encoder, with the same dictionary argument.  It does   *)
(* not lose a block when the decoder raises, and gives it again.           *)
(***************************************************************************)
EXTENDS Integers, SequencesExt

CONSTANTS
  W, Bytes, Zero, Inputs,        \* as in BlockEncoder and BlockDecoder
  EncoderFaults, DecoderFaults,
  MaxBlocks  \* how far the decoder falls behind

ASSUME StreamAssumption ==
  /\ W \in Nat \ {0}
  /\ Zero \in Bytes
  /\ Inputs \subseteq Seq(Bytes) /\ <<>> \in Inputs
  /\ EncoderFaults \subseteq {"argument", "memory", "small", "interrupt"}
  /\ DecoderFaults \subseteq {"corrupt", "interrupt", "memory"}
  /\ MaxBlocks \in Nat \ {0}

VARIABLES
  eContext, ePredict, stream, prefix,              \* BlockEncoder
  dContext, dPredict, dictsize, dictbuf, pc, dest, \* BlockDecoder
  blocks,  \* what is on its way: blocks and resets
  raised   \* an update of the encoder has raised since it was reset

Enc == INSTANCE BlockEncoder WITH
  context <- eContext, predict <- ePredict, Faults <- EncoderFaults

Dec == INSTANCE BlockDecoder WITH
  context <- dContext, predict <- dPredict, Faults <- DecoderFaults

encoder == <<eContext, ePredict, stream, prefix>>
decoder == <<dContext, dPredict, dictsize, dictbuf, pc, dest>>
vars == <<encoder, decoder, blocks, raised>>

\* The dictionary argument: none, nil, or a string.
Arguments ==
  {[given |-> g, predict |-> <<>>] : g \in {"none", "nil"}} \cup
  {[given |-> "string", predict |-> d] : d \in Inputs}

Init == Enc!Init /\ Dec!Init /\ blocks = <<>> /\ raised = FALSE

-----------------------------------------------------------------------------
Room == Len(blocks) < MaxBlocks

Send(src) ==
  /\ Room
  /\ Enc!blkenc_update(src)
  /\ blocks' = Append(blocks, [kind |-> "block", data |-> src, refers |-> stream,
                               sound |-> ~raised])
  /\ UNCHANGED <<decoder, raised>>

SendRaises(src) ==
  /\ Enc!UpdateRaises(src)
  /\ raised' = TRUE
  /\ UNCHANGED <<decoder, blocks>>

\* Only reset() keeps the dictionary that was preset; a new encoder has none.
Restart(arg) ==
  LET d == IF arg.given = "none" /\ eContext THEN ePredict
                                             ELSE Enc!make_predict(arg.predict)
  IN  /\ Room
      /\ \/ /\ Enc!blkenc_init(d) \/ Enc!blkenc_reset(d)
            /\ blocks' = Append(blocks, [kind |-> "reset", arg |-> arg])
            /\ raised' = FALSE
         \/ Enc!SetupFails(d) /\ UNCHANGED <<blocks, raised>>
      /\ UNCHANGED decoder

ReleaseEncoder == Enc!blkenc_release /\ UNCHANGED <<decoder, blocks, raised>>

-----------------------------------------------------------------------------
Arrives(kind) == blocks # <<>> /\ Head(blocks).kind = kind

\* Without an argument, and with nil, the decoder keeps what it has.
DecoderPredict(arg, predict) ==
  IF arg.given = "string" THEN arg.predict ELSE predict

ResetDecoder ==
  /\ Arrives("reset")
  /\ LET d == DecoderPredict(Head(blocks).arg, dPredict)
     IN  \/ Dec!blkdec_setup(d) /\ blocks' = Tail(blocks)
         \/ Dec!SetupFails(d) /\ UNCHANGED blocks
  /\ UNCHANGED <<encoder, raised>>

Receive ==
  /\ Arrives("block")
  /\ Dec!blkdec_update
  /\ UNCHANGED <<encoder, blocks, raised>>

\* A block decodes if all it refers to is there.  Otherwise LZ4 may fail or
\* return anything.
Decompress ==
  /\ Dec!decompress_safe_continue
  /\ IsSuffix(Head(blocks).refers, Dec!Window) => dest' = Head(blocks).data
  /\ UNCHANGED <<encoder, blocks, raised>>

ReceiveRaises == Dec!UpdateRaises /\ UNCHANGED <<encoder, blocks, raised>>

Received ==
  /\ Dec!CopyPrefix
  /\ blocks' = Tail(blocks)
  /\ UNCHANGED <<encoder, raised>>

Next ==
  \/ \E src \in Inputs : Send(src) \/ SendRaises(src)
  \/ \E arg \in Arguments : Restart(arg)
  \/ ReleaseEncoder
  \/ ResetDecoder \/ Receive \/ Decompress \/ ReceiveRaises \/ Received

Spec == Init /\ [][Next]_vars

-----------------------------------------------------------------------------
\* The encoder's side keeps its types: its dictionaries are never longer than
\* what a match reaches.
TypeOK ==
  /\ eContext \in BOOLEAN /\ raised \in BOOLEAN
  /\ \A s \in {ePredict, stream, prefix} : s \in Seq(Bytes) /\ Len(s) <= W
  /\ Len(blocks) <= MaxBlocks

\* Every block that update returns decodes to what was coded, whatever update
\* raised in the decoder before, however far the decoder is behind, and after
\* every reset on both sides, though reset(nil) drops the preset dictionary of
\* the encoder and not the decoder's.  Of the blocks an encoder makes after
\* one of its updates raised, and before it is reset, nothing is said: LZ4
\* may refer to a block that nobody got.
BlocksDecode ==
  pc = "copy" /\ Head(blocks).sound => dest = Head(blocks).data

\* What savedict returns, and so what the next block may refer to, is the end
\* of the dictionary of a decoder that has caught up: a decoder that is given
\* it as its preset dictionary can take over the stream.
SavedictIsShared ==
  eContext /\ ~raised /\ blocks = <<>> => IsSuffix(prefix, Dec!Window)
=============================================================================
