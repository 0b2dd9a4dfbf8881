-------------------------- MODULE MCFileOperation --------------------------
(* One name in two directories, with up to two suffixes.                   *)
EXTENDS FileOperation

Path(d, k) == [dir |-> d, name |-> "a", k |-> k]
Plain == Path("src", 0)
Packed == Path("src", 1)

Content(of, n) == [i \in 1..n |-> Slice(of, i)]

Frame(d) == Framed(d, 1)
File(path, holds) == [path |-> path, holds |-> holds]

SmallDisks == {
  <<File(Plain, Content("v", 2))>>,
  <<File(Packed, Frame(Content("v", 2)))>>,
  <<File(Plain, Content("v", 0))>>,
  <<File(Packed, Frame(Content("v", 0)))>>,
  <<File(Plain, Frame(Content("v", 1)))>>,                  \* a frame without suffix
  <<File(Packed, Framed(Content("v", 1), 2))>>,             \* a frame in a frame
  <<File(Packed, <<Head0, Deeper(Slice("v", 1), 1)>>)>>,    \* a frame that breaks off
  <<File(Packed, Frame(Content("v", 1)) \o Frame(<<>>))>>,  \* two frames
  <<File(Packed, Content("v", 1))>>,                        \* no frame at all
  <<File(Plain, Content("v", 2)), File(Packed, Frame(Content("w", 1)))>>,
  <<File(Plain, Content("v", 2)), File(Path("etc", 0), Content("w", 1))>>}

Command(mode, files, force, keep, stdout, outdir) ==
  [mode |-> mode, files |-> files, force |-> force, keep |-> keep,
   stdout |-> stdout, outdir |-> outdir]

AllCommands ==
  {Command(mode, files, force, keep, FALSE, outdir) :
     mode \in {"none", "decode"}, force \in BOOLEAN, keep \in {FALSE}, outdir \in {"", "out"},
     files \in {<<Plain>>, <<Packed>>, <<Packed, Plain>>, <<Plain, Path("etc", 0)>>}}
  \cup {Command("encode", <<Packed>>, FALSE, FALSE, FALSE, ""),
        Command("none", <<Plain, Packed>>, FALSE, FALSE, TRUE, ""),
        Command("none", <<Plain>>, FALSE, TRUE, FALSE, "")}

\* Frames of up to four slices, in blocks of two.
FrameDisk == {<<File(Packed, Frame(Content("v", n)))>> : n \in 1..4}
FrameCommand == {Command("none", <<Packed>>, FALSE, keep, stdout, "") :
                   keep \in BOOLEAN, stdout \in BOOLEAN}
=============================================================================
