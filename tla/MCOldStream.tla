---------------------------- MODULE MCOldStream ----------------------------
(* Blocks of two bytes, a dictionary as long.                             *)
EXTENDS OldStream

Given(l, b, s) == [linked |-> l, blocksum |-> b, streamsum |-> s]

AllOptions == {Given(FALSE, FALSE, TRUE), Given(FALSE, TRUE, FALSE),
               Given(TRUE, TRUE, TRUE)}
LinkedOptions == {Given(TRUE, FALSE, TRUE)}

Size(b) == Enc!SizeWord(b.literal, b.n)
Stream(kind, blocks, tail) ==
  <<[item |-> kind, opts |-> Given(FALSE, FALSE, FALSE)]>> \o
  FlattenSeq([i \in DOMAIN blocks |-> <<Size(blocks[i]), Enc!Payload(blocks[i])>>]) \o tail

\* Blocks of all sizes, which only other programs write, an empty one too; a
\* legacy stream; a size that is too big, and a block that decodes to too much.
ForeignFiles == {
  Stream("header", <<Enc!Literal(<<1>>), Enc!Coded(1, <<2, 3>>, <<>>)>>, <<Enc!EndMark>>),
  Stream("header", <<Enc!Coded(1, <<1, 2>>, <<>>), Enc!Literal(<<3>>)>>, <<Enc!EndMark>>),
  Stream("legacy", <<Enc!Coded(1, <<1, 2>>, <<>>), Enc!Literal(<<3, 4>>)>>, <<>>),
  Stream("header", <<Enc!Coded(1, <<>>, <<>>), Enc!Literal(<<1>>)>>, <<Enc!EndMark>>),
  Stream("header", <<Enc!Coded(1, <<1, 2, 3>>, <<>>)>>, <<Enc!EndMark>>),
  Stream("header", <<>>, <<Enc!SizeWord(FALSE, 9)>>)}
=============================================================================
