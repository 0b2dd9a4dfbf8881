--------------------------- MODULE MCFrameEncoder ---------------------------
(* An encoder with blocks of two to five bytes, and new with all kinds of  *)
(* keyword arguments: unknown ones, ones given twice, odd block sizes.     *)
EXTENDS EncodeFunction, TLC

CONSTANTS io, file, array

Sizes == <<2, 3, 4, 5>>

Sym(name, value) == Pair("symbol", name, value)
Text(name, value) == Pair("string", name, value)

Hashes ==
  {<<>>, <<Sym("blocksize", Num(3)), Sym("blocklink", True)>>,
   <<Sym("blocksize", Num(5)), Sym("checksum", Nil)>>,
   <<Sym("blocksize", Num(4)), Text("blocksize", Num(3)), Text("blocklink", Num(0))>>,
   <<Text("checksum", True), Sym("checksum", False), Sym("blocksize", Num(-1))>>,
   <<Sym("blocksize", Nil), Text("blocksize", True)>>,
   <<Sym("blocksize", True), Text("blocksize", Nil)>>,
   <<Sym("blocksize", Num(0)), Sym("level", Num(9))>>,
   <<Sym("blocksize", Num(1)), Sym("blocklink", True), Text("blocklink", Nil)>>,
   <<Sym("blocksize", Num(8))>>, <<Text("blocksize", Num(-9))>>, <<Sym("blocksize", Num(7))>>}

NoOptions == {<<>>}
=============================================================================
