---------------------------- MODULE KeywordArgs ----------------------------
(***************************************************************************)
(* rbx_scanhash of ext/hashargs.c: keyword arguments, from a Hash to the   *)
(* variables of a C function.  It is used once (fenc_init_args): without a *)
(* Hash for the rest, with a variable and a default for every name.        *)
(*                                                                         *)
(* A Hash is the sequence of its pairs, in the order they were put in.  A  *)
(* key is the Symbol or the String of a name, which are two keys.          *)
(***************************************************************************)
EXTENDS Integers, Sequences, SequencesExt

Nil == [kind |-> "nil"]
True == [kind |-> "true"]
False == [kind |-> "false"]
Num(n) == [kind |-> "number", val |-> n]

RTEST(v) == v.kind \notin {"nil", "false"}

Pair(class, name, value) == [class |-> class, name |-> name, value |-> value]

\* Of objects that are neither, only that they count as true matters.
Values == [kind : {"nil", "true", "false", "other"}] \cup [kind : {"number"}, val : Int]
Pairs == [class : {"symbol", "string"}, name : STRING, value : Values]

\* What the variables are when it has raised.
Raised == <<>>

\* The ID of a key: one for the Symbol and the String.
rbx_scanhash_intern(key) == key.name

\* One pair: its value goes to the variable of its name; a name that is not
\* scanned for raises, and so the variables have no names any more.
rbx_scanhash_foreach(dests, pair) ==
  LET id == rbx_scanhash_intern(pair)
  IN  IF id \in DOMAIN dests THEN [dests EXCEPT ![id] = pair.value] ELSE Raised

\* Mutant: goes through the pairs from the end, so that the first of two wins.
rbx_scanhash_Backwards(hash, defaults) ==
  FoldRight(LAMBDA pair, dests : rbx_scanhash_foreach(dests, pair), hash,
            defaults)

\* The variables for the names of defaults, or Raised: pair after pair.
rbx_scanhash(hash, defaults) ==
  LET after[n \in 0..Len(hash)] ==
        IF n = 0 THEN defaults ELSE rbx_scanhash_foreach(after[n - 1], hash[n])
  IN  after[Len(hash)]
=============================================================================
