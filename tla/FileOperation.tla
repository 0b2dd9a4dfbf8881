--------------------------- MODULE FileOperation ---------------------------
(***************************************************************************)
(* bin/extlz4 and the functions of lib/extlz4.rb it calls: a program that  *)
(* replaces files by their encoded or decoded form, and so removes what    *)
(* may be the only copy of something.  It is run again and again, by one   *)
(* user, may fail anywhere and may be killed anywhere.                     *)
(*                                                                         *)
(* A file is a sequence of units.  Plain content comes in slices of 1 MiB; *)
(* a frame is a head, a block for each unit it holds, and an end mark.  A  *)
(* file may be put into a frame more than once; the depth of a unit says   *)
(* how many blocks there are around it.                                    *)
(***************************************************************************)
EXTENDS Integers, SequencesExt

CONSTANTS
  Disks,        \* the files there may be at first: sequences of paths and
                \* what is held there
  Commands,     \* command lines
  MaxRuns,      \* how often the program is started
  Checked,      \* frames have a content checksum (no -Sx)
  BlockSlices,  \* how many slices fit in a block of a frame (-B#)
  Faults        \* a subset of {"system", "corrupt", "kill"}

\* k is how often a path has the suffix .lz4.
Paths == [dir : STRING, name : STRING, k : Nat]
Slices == [unit : {"slice"}, of : STRING, i : Nat, depth : Nat]
Marks == [unit : {"head", "end"}, of : {""}, i : {0}, depth : Nat]
Units == Slices \cup Marks
Options == [mode : {"none", "encode", "decode"}, files : Seq(Paths), force : BOOLEAN,
            keep : BOOLEAN, stdout : BOOLEAN, outdir : STRING]

ASSUME FileAssumption ==
  /\ \A disk \in Disks :
       /\ disk \in Seq([path : Paths, holds : Seq(Units)])
       /\ \A i, j \in DOMAIN disk : disk[i].path = disk[j].path => i = j
  /\ Commands \subseteq Options
  /\ MaxRuns \in Nat /\ Checked \in BOOLEAN
  /\ BlockSlices \in Nat \ {0}
  /\ Faults \subseteq {"system", "corrupt", "kill"}

VARIABLES
  dir,   \* the directories: a function from paths to indices of data
  data,  \* the contents of all files there are or were
  prog,  \* the state of the process, if there is one
  runs,  \* how often the program was started
  orig,  \* history: the contents at first
  given  \* history: those of orig that -f has overwritten

vars == <<dir, data, prog, runs, orig, given>>

-----------------------------------------------------------------------------
Unit(unit, of, i) == [unit |-> unit, of |-> of, i |-> i, depth |-> 0]
Slice(of, i) == Unit("slice", of, i)
Head0 == Unit("head", "", 0)
End == Unit("end", "", 0)

Deeper(u, n) == [u EXCEPT !.depth = @ + n]

\* d in n frames, one in the other.
Framed(d, n) ==
  [i \in 1..(Len(d) + 2 * n) |->
     IF i <= n THEN Deeper(Head0, i - 1)
     ELSE IF i <= n + Len(d) THEN Deeper(d[i - n], n)
     ELSE Deeper(End, Len(d) + 2 * n - i)]

IsFramed(d, e) ==
  \E n \in 0..Len(e) : Len(e) = Len(d) + 2 * n /\ e = Framed(d, n)

\* One holds what the other holds, as such or in frames.
Same(a, b) == IsFramed(a, b) \/ IsFramed(b, a)

\* There is something behind the end of a frame, in the file or in the frame
\* it holds, such as another frame.  The decoder stops at the first.
Trails(d) == \E i \in DOMAIN d : d[i].unit = "end" /\ i + d[i].depth < Len(d)

\* A write at a position of its own.
Put(d, at, u) == [j \in DOMAIN d \cup {at} |-> IF j = at THEN u ELSE d[j]]

NoPath == [dir |-> "", name |-> "", k |-> 0]

Off ==
  [pc |-> "off", todo |-> <<>>, in |-> NoPath, out |-> [to |-> "nil", path |-> NoPath],
   opts |-> [mode |-> "none", files |-> <<>>, force |-> FALSE, keep |-> FALSE,
             stdout |-> FALSE, outdir |-> ""],
   fin |-> 0, pos |-> 0, fout |-> 0, at |-> 0]

Init ==
  \E disk \in Disks :
    /\ data = [i \in DOMAIN disk |-> disk[i].holds]
    /\ dir = [path \in {disk[i].path : i \in DOMAIN disk} |->
                CHOOSE i \in DOMAIN disk : disk[i].path = path]
    /\ prog = Off
    /\ runs = 0 /\ orig = data /\ given = {}

\* The process goes on with the next of its files.
NextFile(todo) ==
  prog' = [Off EXCEPT !.pc = "next", !.opts = prog.opts, !.todo = todo]

At(pc) == prog.pc = pc

-----------------------------------------------------------------------------
Begin(cmd) ==
  /\ At("off") /\ runs < MaxRuns
  /\ runs' = runs + 1
  /\ prog' = [Off EXCEPT !.pc = "next", !.opts = cmd, !.todo = cmd.files]
  /\ UNCHANGED <<dir, data, orig, given>>

\* What becomes of a file: the suffix .lz4, of which a path has k, decides
\* unless there is an option.
Decodes(opts, path) == opts.mode = "decode" \/ (opts.mode = "none" /\ path.k > 0)

Decoding == Decodes(prog.opts, prog.in)

DefaultOutfile(opts, path) ==
  IF Decodes(opts, path) THEN [path EXCEPT !.k = IF @ > 0 THEN @ - 1 ELSE 0]
                         ELSE [path EXCEPT !.k = @ + 1]

\* Where the output goes.  A file that would replace itself is reported, but
\* the operation goes on with nil for a port.
Outfile(opts, path) ==
  LET default == DefaultOutfile(opts, path)
  IN  IF opts.stdout THEN [to |-> "stdout", path |-> path]
      ELSE IF path = default THEN [to |-> "nil", path |-> path]
      ELSE [to |-> "file", path |-> IF opts.outdir = "" THEN default
                                    ELSE [default EXCEPT !.dir = opts.outdir]]

\* Mutant: an existing file is never in the way.
Refuses_Never(opts, out) == FALSE

Refuses(opts, out) == out.to = "file" /\ ~opts.force /\ out.path \in DOMAIN dir

\* file_operation up to its yield, for the next of the files.
file_operation ==
  /\ At("next") /\ prog.todo # <<>>
  /\ LET path == Head(prog.todo)
         out == Outfile(prog.opts, path)
         rest == Tail(prog.todo)
     IN  IF Refuses(prog.opts, out)
           THEN NextFile(rest)
           ELSE prog' = [prog EXCEPT !.pc = "open", !.todo = rest, !.in = path,
                                     !.out = out]
  /\ UNCHANGED <<dir, data, runs, orig, given>>

Exit ==
  /\ At("next") /\ prog.todo = <<>>
  /\ prog' = Off
  /\ UNCHANGED <<dir, data, runs, orig, given>>

-----------------------------------------------------------------------------
(* decode_file and encode_file.                                            *)

\* Mutant: the error is rescued before file_operation has seen it.
Raise_Rescued(error) ==
  IF error = "LZ4::Error" THEN prog' = [prog EXCEPT !.pc = "finish"] ELSE prog' = Off

\* An LZ4::Error is reported and the next file is taken.  Everything else
\* ends the program.
Raise(error) ==
  IF error = "LZ4::Error" THEN NextFile(prog.todo) ELSE prog' = Off

OpenInput ==
  /\ At("open")
  /\ IF prog.in \in DOMAIN dir
       THEN prog' = [prog EXCEPT !.pc = IF Decoding THEN "header" ELSE "output",
                                 !.fin = dir[prog.in], !.pos = 1]
       ELSE Raise("Errno::ENOENT")
  /\ UNCHANGED <<dir, data, runs, orig, given>>

\* The decoder reads the header before the output is opened.
ReadHeader ==
  /\ At("header")
  /\ LET d == data[prog.fin]
     IN  IF d # <<>> /\ d[1] = Head0
           THEN prog' = [prog EXCEPT !.pc = "output", !.pos = 2]
           ELSE Raise("LZ4::Error")
  /\ UNCHANGED <<dir, data, runs, orig, given>>

\* What nobody has any more once file i is empty.
LostWith(i) ==
  {o \in DOMAIN orig : /\ Same(data[i], orig[o])
                       /\ \A path \in DOMAIN dir : dir[path] # i => ~Same(data[dir[path]], orig[o])}

\* The output is open, and the copying begins.
Opens(fout) ==
  prog' = [prog EXCEPT !.pc = IF Decoding THEN "copy" ELSE "begin",
                       !.fout = fout, !.at = 1]

\* A file that was not there.
Creates(path) ==
  /\ Opens(Len(data) + 1)
  /\ data' = Append(data, <<>>)
  /\ dir' = [p \in DOMAIN dir \cup {path} |-> IF p = path THEN Len(data) + 1 ELSE dir[p]]

\* Mutant: an existing file is opened as it is.
OpenOutput_Update ==
  LET out == prog.out IN
  /\ At("output")
  /\ \/ out.to # "file" /\ Opens(0) /\ UNCHANGED <<dir, data>>
     \/ /\ out.to = "file" /\ out.path \in DOMAIN dir
        /\ Opens(dir[out.path])
        /\ UNCHANGED <<dir, data>>
     \/ out.to = "file" /\ out.path \notin DOMAIN dir /\ Creates(out.path)
  /\ UNCHANGED <<runs, orig, given>>

\* open(outpath, "wb") creates the file or empties it.
OpenOutput ==
  LET out == prog.out IN
  /\ At("output")
  /\ \/ out.to # "file" /\ Opens(0) /\ UNCHANGED <<dir, data, given>>
     \/ /\ out.to = "file" /\ out.path \in DOMAIN dir
        /\ Opens(dir[out.path])
        /\ data' = [data EXCEPT ![dir[out.path]] = <<>>]
        /\ given' = IF prog.opts.force THEN given \cup LostWith(dir[out.path]) ELSE given
        /\ UNCHANGED dir
     \/ out.to = "file" /\ out.path \notin DOMAIN dir /\ Creates(out.path) /\ UNCHANGED given
  /\ UNCHANGED <<runs, orig>>

\* outfile << u; nothing is kept of what goes to the standard output.
Write(u) ==
  data' = IF prog.fout = 0 THEN data
          ELSE [data EXCEPT ![prog.fout] = Put(@, prog.at, u)]

\* The encoder writes the header.
WriteHeader ==
  /\ At("begin")
  /\ Write(Head0)
  /\ prog' = [prog EXCEPT !.pc = "copy", !.at = 2]
  /\ UNCHANGED <<dir, runs, orig, given>>

Input == data[prog.fin]

\* Mutant: the end of the input is taken for the end of the frame.
StatusZero_Truncated == prog.pos > Len(Input)

\* Without a content checksum the decoder takes the frame for read when it
\* has delivered the first slice of its last block.
StatusZero ==
  /\ ~Checked /\ prog.pos > 2
  /\ \E end \in prog.pos..Len(Input) :
       /\ Input[end] = End /\ \A i \in prog.pos..(end - 1) : Input[i] # End
       /\ (prog.pos - 3) \div BlockSlices = (end - 3) \div BlockSlices

\* A slice is read and written.  nil has no <<.
CopySlice ==
  LET pos == prog.pos IN
  /\ At("copy") /\ pos <= Len(Input)
  /\ Decoding => Input[pos].depth > 0 /\ ~StatusZero
  /\ IF prog.out.to = "nil"
       THEN Raise("NoMethodError") /\ UNCHANGED data
       ELSE /\ Write(Deeper(Input[pos], IF Decoding THEN -1 ELSE 1))
            /\ prog' = [prog EXCEPT !.pos = @ + 1, !.at = @ + 1]
  /\ UNCHANGED <<dir, runs, orig, given>>

\* The decoder returns nil, or the input has ended and the encoder is closed.
EndOfInput ==
  /\ At("copy")
  /\ IF Decoding
       THEN /\ StatusZero \/ (prog.pos <= Len(Input) /\ Input[prog.pos] = End)
            /\ UNCHANGED data
       ELSE prog.pos > Len(Input) /\ Write(End)
  /\ prog' = [prog EXCEPT !.pc = "finish"]
  /\ UNCHANGED <<dir, runs, orig, given>>

\* A frame that breaks off, or has something in it that is none.
Malformed ==
  LET pos == prog.pos IN
  /\ At("copy") /\ Decoding /\ ~StatusZero
  /\ \/ pos > Len(Input) /\ Raise("RuntimeError")
     \/ /\ pos <= Len(Input) /\ Input[pos].depth = 0 /\ Input[pos] # End
        /\ Raise("LZ4::Error")
  /\ UNCHANGED <<dir, data, runs, orig, given>>

\* A system call fails or a signal arrives, or a block is corrupt.  The block
\* given to encode is left, so the encoder is closed: if that can still be
\* written, what is there becomes a complete frame.
Fails ==
  /\ \/ /\ "system" \in Faults
        /\ prog.pc \in {"open", "header", "output", "begin", "copy", "finish"}
        /\ Raise("SystemCallError")
     \/ /\ "corrupt" \in Faults /\ At("copy") /\ Decoding
        /\ Raise("LZ4::Error")
  /\ \/ UNCHANGED data
     \/ At("copy") /\ ~Decoding /\ Write(End)
  /\ UNCHANGED <<dir, runs, orig, given>>

-----------------------------------------------------------------------------
(* The rest of file_operation.                                             *)

\* The output gets the time of the input, both found by their names.
CopyTime ==
  /\ At("finish")
  /\ IF prog.out.to = "stdout" THEN NextFile(prog.todo)
     ELSE IF prog.out.to = "nil" THEN Raise("TypeError")
     ELSE IF ~({prog.in, prog.out.path} \subseteq DOMAIN dir) THEN Raise("Errno::ENOENT")
     ELSE IF prog.opts.keep THEN NextFile(prog.todo)
     ELSE prog' = [prog EXCEPT !.pc = "unlink"]
  /\ UNCHANGED <<dir, data, runs, orig, given>>

Unlink ==
  /\ At("unlink")
  /\ IF prog.in \in DOMAIN dir
       THEN /\ dir' = [path \in DOMAIN dir \ {prog.in} |-> dir[path]]
            /\ NextFile(prog.todo)
       ELSE Raise("Errno::ENOENT") /\ UNCHANGED dir
  /\ UNCHANGED <<data, runs, orig, given>>

\* The process is killed: nothing is cleaned up.
Kill ==
  /\ "kill" \in Faults /\ ~At("off")
  /\ prog' = Off
  /\ UNCHANGED <<dir, data, runs, orig, given>>

Run ==
  \/ file_operation \/ Exit
  \/ OpenInput \/ ReadHeader \/ OpenOutput \/ WriteHeader
  \/ CopySlice \/ EndOfInput \/ Malformed \/ Fails
  \/ CopyTime \/ Unlink \/ Kill

Next == Run \/ \E cmd \in Commands : Begin(cmd)

Spec == Init /\ [][Next]_vars

-----------------------------------------------------------------------------
\* The directories list files there are, a process works on files there are
\* or were, reads no further than to the end, and writes without a gap.
TypeOK ==
  /\ dir \in [DOMAIN dir -> DOMAIN data]
  /\ given \subseteq DOMAIN orig /\ runs \in 0..MaxRuns
  /\ prog.pc = "copy" =>
       /\ prog.pos \in 1..(Len(Input) + 1)
       /\ \/ prog.fout = 0
          \/ prog.fout \in DOMAIN data /\ prog.at = Len(data[prog.fout]) + 1

\* Whatever fails, and whenever the program is killed and started again: what
\* was in a file at first is in some file, as such or in frames, unless -f was
\* given and overwrote the last copy, or there was something behind the end of
\* a frame.
ContentSafe ==
  \A i \in DOMAIN orig :
    \/ i \in given \/ Trails(orig[i])
    \/ \E path \in DOMAIN dir : Same(data[dir[path]], orig[i])

\* out is a frame of the whole of in, or all that is in the frame in begins
\* with.
Replaces(out, in) ==
  IF Decoding THEN IsPrefix(Framed(out, 1), in) ELSE out = Framed(in, 1)

\* An input is removed only when the whole of it is in the output, up to the
\* end of the frame that was decoded.
RemovedWhenWhole ==
  [][\A path \in DOMAIN dir : path \notin DOMAIN dir' =>
       /\ prog.pc = "unlink" /\ prog.in = path
       /\ prog.out.path \in DOMAIN dir
       /\ Replaces(data[dir[prog.out.path]], data[dir[path]])]_vars

\* Without -f a program never empties a file that was there.
NothingOverwritten ==
  [][\A i \in DOMAIN data : Len(data'[i]) < Len(data[i]) =>
       prog.pc = "output" /\ prog.opts.force]_vars
=============================================================================
