--------------------------- MODULE MCBlockDecoder ---------------------------
(* A dictionary of three bytes; strings of up to five.                     *)
EXTENDS BlockDecoder

Strings == UNION {[1..n -> Bytes] : n \in 0..5}
=============================================================================
