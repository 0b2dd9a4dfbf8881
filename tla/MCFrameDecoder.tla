--------------------------- MODULE MCFrameDecoder ---------------------------
(* Small frames for TLC: up to three blocks, content of up to four bytes.  *)
EXTENDS FrameDecoder

Block(p, s) == [packed |-> p, size |-> s]

Layouts == {<<>>, <<Block(1, 1)>>, <<Block(1, 3)>>, <<Block(1, 2), Block(2, 1)>>,
            <<Block(1, 1), Block(1, 2), Block(1, 1)>>}

\* Frames written with checksum: true, the default of LZ4::Encoder.
Checked == [blocks : Layouts, checksum : {TRUE}]

\* Frames written with checksum: false.
Unchecked == [blocks : Layouts \ {<<>>}, checksum : {FALSE}]

Anything == Checked \cup Unchecked
=============================================================================
