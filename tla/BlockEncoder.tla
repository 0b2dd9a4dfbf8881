---------------------------- MODULE BlockEncoder ----------------------------
(***************************************************************************)
(* LZ4::BlockEncoder of ext/blockapi.c: codes a stream of linked LZ4       *)
(* blocks.  The LZ4 stream it drives is outside the repository; of it, the *)
(* model keeps only the bytes a match of the next block may refer to.      *)
(* BlockStream says when an application takes which of the actions.        *)
(***************************************************************************)
EXTENDS Integers, SequencesExt

CONSTANTS
  W,       \* sizeof(prefix), 64 KiB, and the reach of a match
  Faults   \* a subset of {"argument", "memory", "small", "interrupt"}

VARIABLES
  context,  \* context is not NULL
  predict,  \* predict; <<>> stands for nil, make_predict makes it that
  stream,   \* the bytes that matches of the next block may refer to
  prefix    \* the prefixsize bytes of prefix that are in use

Init == context = FALSE /\ predict = <<>> /\ stream = <<>> /\ prefix = <<>>

\* All a match can reach of s.
Reach(s) == IF Len(s) > W THEN SubSeq(s, Len(s) - W + 1, Len(s)) ELSE s

\* Mutant: the first bytes of a long dictionary.
make_predict_First(s) == IF Len(s) > W THEN SubSeq(s, 1, W) ELSE s

make_predict(s) == Reach(s)

\* Mutant: more than prefix has room for.
Saved_All(s) == Suffixes(s)

\* What LZ4_saveDict copies after LZ4 has loaded or coded s: the end of it.
\* How much is LZ4's choice, it forgets a dictionary too short to be of use
\* and what a block that is not next to it in memory leaves behind.
Saved(s) == Suffixes(Reach(s))

-----------------------------------------------------------------------------
\* blkenc_setup, d being what becomes of predict.
blkenc_setup(d) ==
  /\ context' = TRUE
  /\ predict' = d
  /\ stream' \in Saved(d)
  /\ prefix' = stream'

\* The context is freed first, so a level or a predict of the wrong type and
\* a failed allocation leave none.
SetupFails(d) ==
  /\ context' = FALSE
  /\ \/ "argument" \in Faults /\ UNCHANGED predict
     \/ "memory" \in Faults /\ predict' = d
  /\ stream' = <<>>
  /\ UNCHANGED prefix

blkenc_init(d) == ~context /\ blkenc_setup(d)

blkenc_reset(d) == context /\ blkenc_setup(d)

blkenc_release ==
  /\ context' = FALSE
  /\ stream' = <<>> /\ prefix' = <<>>
  /\ UNCHANGED predict

-----------------------------------------------------------------------------
\* Mutant: the stream is not told what it coded.
blkenc_update_NoSave(src) ==
  /\ context
  /\ stream' \in Saved(stream \o src)
  /\ UNCHANGED <<context, predict, prefix>>

\* The block is coded and the end of what it leaves is saved in prefix,
\* where LZ4 looks for it from now on.
blkenc_update(src) ==
  /\ context
  /\ stream' \in Saved(stream \o src)
  /\ prefix' = stream'
  /\ UNCHANGED <<context, predict>>

\* The block does not fit in dest, or an interrupt is raised when the lock is
\* taken back: LZ4 may have taken src in, but nobody gets the block.
UpdateRaises(src) ==
  /\ context
  /\ Faults \cap {"small", "interrupt"} # {}
  /\ stream' \in Saved(stream \o src) \cup {stream}
  /\ UNCHANGED <<context, predict, prefix>>
=============================================================================
