--------------------------- MODULE ContentReader ---------------------------
(***************************************************************************)
(* What LZ4::Decoder promises its caller, whatever the frame's layout, the *)
(* sizes of the buffers and the pieces the inport delivers: a sequential   *)
(* reader of a content of a known length.  A request for n bytes is        *)
(* answered with exactly n of them, or with all that is left if that is    *)
(* less; nil is the answer at the end, of a closed reader and of one whose *)
(* input turned out to be damaged, and of no other.                        *)
(***************************************************************************)
EXTENDS Integers, Sequences

VARIABLES
  total,    \* length of the content
  pos,      \* how much of it has been handed out or dropped
  got,      \* content offsets handed out
  asked,    \* the request in progress: Nobody's, Everything or Bytes(n)
  answer,   \* the last answer
  shut,     \* close was called
  damaged   \* the input was found to be damaged

vars == <<total, pos, got, asked, answer, shut, damaged>>

Nobody == [kind |-> "none", len |-> 0]
Everything == [kind |-> "all", len |-> 0]
Bytes(n) == [kind |-> "some", len |-> n]

Left == total - pos

\* How many bytes a request is answered with.
Due == IF asked = Everything \/ asked.len > Left THEN Left ELSE asked.len

Init ==
  /\ total \in Nat
  /\ pos = 0 /\ got = <<>> /\ asked = Nobody
  /\ answer = [kind |-> "none", len |-> 0]
  /\ shut = FALSE /\ damaged = FALSE

\* A closed reader still lets through requests for one byte: getbyte does not
\* look whether it was closed.
Ask ==
  /\ asked = Nobody
  /\ \/ asked' = Everything
     \/ asked'.len \in Nat \ {0} /\ asked' = Bytes(asked'.len)
  /\ shut => asked' = Bytes(1)
  /\ UNCHANGED <<total, pos, got, answer, shut, damaged>>

\* The bytes asked for, or the end.
Answer ==
  /\ asked # Nobody /\ ~damaged
  /\ got' = got \o [i \in 1..Due |-> pos + i]
  /\ pos' = pos + Due
  /\ answer' = [kind |-> IF Due = 0 THEN "nil" ELSE "data", len |-> Due]
  /\ asked' = Nobody
  /\ UNCHANGED <<total, shut, damaged>>

\* nil, of a reader that will not read on.
Refuse ==
  /\ shut \/ damaged \/ (asked = Nobody /\ Left = 0)
  /\ asked' = Nobody
  /\ answer' = [kind |-> "nil", len |-> 0]
  /\ UNCHANGED <<total, pos, got, shut, damaged>>

\* A request for no bytes.
AnswerEmpty ==
  /\ asked = Nobody
  /\ answer' = [kind |-> "data", len |-> 0]
  /\ UNCHANGED <<total, pos, got, asked, shut, damaged>>

\* The request raises.  Bytes read for it are gone, never more than it asked
\* for, and the reader goes on behind them unless the input is damaged, or
\* was closed meanwhile.
Fail ==
  /\ asked # Nobody
  /\ \E k \in 0..Due : pos' = pos + k
  /\ damaged' \in {damaged, TRUE} /\ shut' \in BOOLEAN
  /\ asked' = Nobody
  /\ answer' = [kind |-> "raise", len |-> 0]
  /\ UNCHANGED <<total, got>>

\* Closing also forgets that the input was damaged.
Close ==
  /\ shut' = TRUE /\ damaged' = FALSE
  /\ UNCHANGED <<total, pos, got, asked, answer>>

\* A request in progress does not notice that the reader was closed, and
\* opens it again when it goes on.
Reopen ==
  /\ shut /\ asked # Nobody
  /\ shut' = FALSE
  /\ UNCHANGED <<total, pos, got, asked, answer, damaged>>

Next == Ask \/ Answer \/ Refuse \/ AnswerEmpty \/ Fail \/ Close \/ Reopen

Spec == Init /\ [][Next]_vars
=============================================================================
