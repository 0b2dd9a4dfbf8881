--------------------------- MODULE EncodeFunction ---------------------------
(***************************************************************************)
(* LZ4.encode of lib/extlz4.rb: an encoder for the caller, for a block, or *)
(* for one string, and what becomes of its frame.                          *)
(***************************************************************************)
EXTENDS FrameEncoder

VARIABLE
  encode  \* object: no encode, or it has returned the encoder;
          \* block: in the block; string, coding: before and after << obj;
          \* returning, raising: how the block was left, before close;
          \* returned, raised: encode has ended; lost: so has its string

encodeVars == <<encode, vars>>

\* The outport of a string is a new String.
EncodeInit ==
  /\ Init
  /\ encode \in {"object", "block", "string"}
  /\ encode = "string" => outport \notin Arrays

\* The caller, or the block, goes on calling as it likes.
Calls == encode \in {"object", "block"} /\ Caller /\ UNCHANGED encode

\* lz4 << obj
WriteString ==
  /\ encode = "string" /\ encode' = "coding"
  /\ \E n \in WriteSizes : fenc_write(n)

\* Mutant: there is no ensure.
LeaveBlock_NoEnsure ==
  /\ encode = "block" /\ pc = "idle"
  /\ encode' \in {"returning", "raised"}
  /\ UNCHANGED vars

\* The block ends, normally or not; it may have closed the encoder.
LeaveBlock ==
  /\ encode = "block" /\ pc = "idle"
  /\ encode' \in {"returning", "raising"}
  /\ UNCHANGED vars

\* lz4.close, at the end of both forms.
Close ==
  /\ encode \in {"returning", "raising", "coding"}
  /\ fenc_close
  /\ UNCHANGED encode

\* What a call of the encoder that has raised leads to: the block may rescue it.
AfterRaise ==
  CASE encode \in {"object", "block"} -> encode' = encode
    [] encode \in {"returning", "raising"} -> encode' = "raised"
    [] OTHER -> encode' = "lost"

\* What one that goes well leads to: the last one is the close.
AfterReturn ==
  encode' = IF op # "close" THEN encode
            ELSE CASE encode \in {"returning", "coding"} -> "returned"
                   [] encode = "raising" -> "raised"
                   [] OTHER -> encode

New ==
  /\ fenc_init
  /\ encode' = IF pc' = "failed" /\ encode # "object" THEN "lost" ELSE encode

Step == (compressUpdate \/ UpdateDone) /\ UNCHANGED encode

Raising ==
  /\ UpdateInterrupted \/ UpdateRefused \/ PushRaises
  /\ IF pc' = "failed" THEN encode' = "lost" ELSE AfterRaise

EncodeNext ==
  \/ Calls \/ WriteString \/ LeaveBlock \/ Close
  \/ New \/ Step \/ Raising
  \/ Push /\ AfterReturn

EncodeSpec == EncodeInit /\ [][EncodeNext]_encodeVars

-----------------------------------------------------------------------------
(* Properties.                                                             *)

\* Whatever a block does with its encoder, and however it is left, the frame
\* is ended when encode is over, if its close was not kept from it; and an
\* encode that returns has left a frame of all that was written to it, unless
\* a call inside it raised.  (A block that raises so leaves a frame that
\* nothing tells from a finished one.)
EncodeEnds ==
  /\ encode \in {"returned", "raised"} =>
       EndMark \in Range(gaps) \cup {out[i].piece : i \in DOMAIN out}
  /\ encode = "returned" =>
       /\ out[Len(out)].piece = EndMark
       /\ gaps = <<>> =>
            \A n \in 1..fed :
              \E i \in DOMAIN out : n \in Content(out[i].piece)
=============================================================================
