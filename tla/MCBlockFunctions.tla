------------------------- MODULE MCBlockFunctions -------------------------
(* Two strings, texts of up to four bytes where LZ4 takes one, and all     *)
(* argument lists of strings and sizes, with and without a level.          *)
EXTENDS BlockFunctions

SmallTexts == {Nothing, Text(1, 1), Text(2, 2), Text(4, 3)}

Sizes == {Num(n) : n \in {1, 2, 4, 5}}
Strings == {Str(s) : s \in Names}

Forms ==
  {<<s>> : s \in Strings} \cup (Strings \X (Strings \cup Sizes)) \cup
  (Strings \X Sizes \X Strings)

Lists ==
  Forms \cup {<<Nil>> \o f : f \in Strings \X Sizes} \cup
  {<<>>, <<Num(1)>>, <<Num(1), Str("b")>>, <<Str("a"), Other>>, <<Str("a"), Str("b"), Str("b"), Nil>>}
=============================================================================
