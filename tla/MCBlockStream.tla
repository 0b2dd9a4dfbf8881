--------------------------- MODULE MCBlockStream ---------------------------
(* A dictionary of two bytes; strings that fit in it, fill it and overflow *)
(* it.                                                                     *)
EXTENDS BlockStream

Strings == {<<>>, <<0>>, <<0, 1>>, <<1, 1, 0>>}
=============================================================================
