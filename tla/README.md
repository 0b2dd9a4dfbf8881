# extlz4 in TLA+

extlz4 binds LZ4 to Ruby: the LZ4 frame format as an `Encoder` that pushes to a
port and a `Decoder` that pulls from one (`ext/frameapi.c`), linked blocks
without a frame as a `BlockEncoder` and a `BlockDecoder` (`ext/blockapi.c`), and
around them module functions, an older frame implementation in Ruby, a repair
tool and a command line program. The LZ4 library is a git submodule and not
part of the repository.

This directory holds specifications of the parts that keep state, the TLC
configurations that check them and proofs of what matters most. `PROJECT.json`
maps every definition to the lines it stands for, and lists runs, mutants (a
plausible bug for every property, which TLC must find), hazards and findings.

## Components

| component | state | operations | hard | correct when |
|---|---|---|---|---|
| `LZ4::Decoder` | `status`, `inbuf`, `outbuf`, `outoff`, native context | `read` (size, no size), `getc`, `getbyte`, `close`, `eof` | any mix of sizes over blocks of any size; port, data and interrupts fail in the middle of a call; the port closes the decoder while it is read; error codes as unsigned numbers | the bytes handed out are the content, in order, each once, and nil means the end |
| `LZ4::Encoder` | native context, preferences, `workbuf`, `outport` | `new` with keywords, `write`, `flush`, `close`, `outport=` | what LZ4F holds back; failing ports; interrupts after LZ4F took the input; calls after `close` | what was pushed is the frame of what was written, of the kind that was asked for |
| `LZ4::BlockDecoder` | context, `predict`, `dictsize`, `dictbuf` | `reset`, `update`, `release` | in-place arithmetic on a 64 KiB array | `dictbuf` is the end of all that was decoded |
| `LZ4::BlockEncoder` | context, `predict`, `prefix`, LZ4's own dictionary | `reset`, `update`, `savedict`, `release` | an update or a reset that raises half way | a block refers only to what the decoder has |
| stream of linked blocks (`BlockStream`) | both, and the blocks between them | all of the above | resets on both sides, retries, failures on either | every block decodes to what was coded |
| `scansize`, `linksize` | none | | pointers that follow sizes read from any bytes | well formed blocks are accepted and no others (but for match offsets of 0), and the size is that of what they decode to |
| one-shot block functions | the strings they are given | `BlockEncoder.encode`, `BlockDecoder.decode` | shapes of arguments; strings that share a buffer; sizes in int, long and size_t | `dest` holds the result, and no other string changes |
| `rbx_scanhash` | none | | unknown and repeated keys, Symbols and Strings | the value given last, or the default |
| module functions (`lib/extlz4.rb`) | none of their own | `encode`, `decode`, `*_file`, `block_stream_*` | exceptions in the caller's block | the object is closed or released on every path |
| old stream (`oldstream.rb`) | `@buf`, `@pos`, block coder | `write`, `close`, `read`, `getbyte`, `eof` | literal blocks in linked streams; errors between coding and writing a block | what is read is what was written |
| repair tool (`fix-0.1bug.rb`) | position in two files | `fix` | header bits, sizes near the end of the file | the repaired stream holds what was written |
| program (`bin/extlz4`) | files | encode, decode, test | it removes its input | the input is removed only when the output is complete |
| `compat.rb`, `extlz4.c`, build files | constants | | | |

The encoder calls its port with `<<` (a callback into arbitrary Ruby code), the
decoder calls its port with `read`. Both may raise or run other threads.
`LZ4F_compressUpdate`, `LZ4_compress_*_continue` and
`LZ4_decompress_safe_continue` run without the interpreter's lock; taking it
back may raise an interrupt (`ext/extlz4.h:33-42`). The module functions are
short sequences of calls on these objects, the old stream uses the block coders
and the program the module functions.

## Modules

### FrameDecoder, ContentReader, FrameDecoderProofs

`FrameDecoder` is `LZ4::Decoder`, statement by statement where a statement may
fail or call out: entering a method (`fdec_read`, `fdec_read_all`, `fdec_getc`,
`fdec_getbyte`), the head of the loop in `fdec_read_decode` (`LoopEnds`,
`NeedFetch`), its two ways to copy (`CopyPart`, `CopyRest`), the reads of
`fdec_read_fetch` (`FetchMore`, `FetchFails`), `Decompress`, its failure and the
check for interrupts at its end, and the return. The variables have the names
of the C structure's members; `size`, `mark` and `dst` are the locals of a call,
`pc` and `op` say where it is. A content byte is its offset in the content, so
that order and loss can be stated; buffers are sequences of offsets.

While the port reads, anything may run: `FetchMore` may find that the decoder was
closed meanwhile (`Meanwhile`), which sets `status` to 0. The loop of
`fdec_read_fetch` then ends with less input than LZ4F asked for
(`DecompressPart`), and LZ4F's answer overwrites that 0, so that the decoder is
open again.

LZ4F is external. It is modelled by what the code can see: it returns how much
input it wants next, an error, or 0 at the end of the frame; a block is consumed
together with the header behind it, so the call that delivers the last block of
a frame without content checksum also returns 0. The port returns at least one
byte, nil, or raises; a `read` that returns an empty String is not a case
`IO#read` has.

`ContentReader` is what a reader promises: requests are answered with the bytes
that follow those of the request before, as many as were asked for or as there
are, and nil only at the end. `ReaderSpec` says that `FrameDecoder` implements
it, with the position `Len(got) + lost`.

### KeywordArgs, FrameEncoder, EncodeFunction, EncoderProofs

`KeywordArgs` is `rbx_scanhash`: pair after pair of a Hash, in which a
Symbol and a String of one name are two keys and one keyword. Whether Ruby lets
String keys through as keywords depends on its version; the C code takes them.

`FrameEncoder` is `LZ4::Encoder`. `new` reads its keywords (`fenc_init_args`) and
begins the frame, or raises. A frame is a sequence of pieces (header, blocks, end
mark) and a block a run of content offsets. One action per round of the loop in
`fenc_update` and one for `outport << workbuf`, because the port may raise
between them. `out` is all that was pushed, `gaps` the pieces that calls that
raised have lost, both as sequences, so that `EveryByteOnce` can ask of each place
in them, and in the work buffer that is about to be pushed, that no other holds
the same byte. `NUM2INT` refuses what is no int (`IntMax`), and the int then
becomes a `size_t` (`SizeMod`). Of the preferences the block size decides how the content is cut;
linked blocks and the checksum are what the header announces and nothing else
here; the level is left out. Automatic flushing is never turned on by the code
(`frameapi.c:170`).

`EncodeFunction` is `LZ4.encode` around it: the encoder itself, an encoder for a
block, which is closed however the block is left, or one for a string, which is
not closed when `<<` raises. `encode` says how far it has come.

### SlidingWindow, BlockDecoder, BlockDecoderProofs

`BlockDecoder` keeps `dictbuf` as the C array it is, with `memcpy` and `memmove`
as functions on it (`CopyIn`, `SlideShort`, `SlideLong`). `SlidingWindow` is what
the linked block format requires: the last W bytes of the preset dictionary and
all that came after. `WindowSlides` is the refinement.

### BlockEncoder, BlockStream, BlockStreamProofs

`BlockEncoder` holds the actions of `LZ4::BlockEncoder`; `BlockStream` composes
it with `BlockDecoder` and the blocks on their way. Of LZ4's own state only the
bytes a match may refer to are kept, `stream`. How much of what it has seen LZ4
keeps is its choice (it forgets short dictionaries, and a block that is not next
to the one before in memory replaces it), so `stream` becomes any suffix of the
old `stream` and the new block, which is then saved in `prefix`. A block carries
what it refers to, and decodes correctly if that is a suffix of the decoder's
window; otherwise the decoder may return anything. The application carries
blocks and resets in order, gives a block again when `update` raised, and passes
the same dictionary argument to both sides, where the two treat nil differently.
`SavedictIsShared` speaks of the moments when nothing is on its way: while a block
is, the decoder has not yet what `prefix` already holds, and what it will have is
what `BlocksDecode` is about.

### BlockFunctions, BlockFunctionsProofs

`BlockEncoder.encode` and `BlockDecoder.decode`, the functions that work on
strings instead of a stream. The state is a heap: strings with a length, a flag
for frozen and a buffer, which duplicates share until one of them is modified, as
Ruby does it. What a buffer holds is a text, the block of a text or junk. An
action reads the arguments (`blockprocess_args`), reserves the destination
(`aux_str_reserve`), empties it and calls LZ4, in the order of the code, which
matters when source and destination are one string or share a buffer. Numbers are
scaled down in their order: LZ4's largest input, `INT_MAX`, `LONG_MAX`. `call`
keeps how the last call ended, so that the properties can relate it to the heap
before and after. The program encodes texts only and decodes anything.

### LZ4Block, BlockScan, BlockScanProofs

`BlockScan` is `aux_lz4_scanseq`: a step for the token, for each round of
`aux_lz4_expandsize`, for the literals with the test for the end, for the offset
and for the match. The string is a sequence of bytes and `p` an index, so that a
read behind the end would be an index out of its domain. `scansize` and
`linksize` differ only in whether a place for `linksize` is passed; both results
are kept. `LZ4Block` is the reference, written from the format and not from the
scanner: a recursive function from the end of the string to its beginning that
finds the sequences, with lengths defined by the first byte that is not 255.
`Divides` says that a string is made of sequences, `WellFormed` that also no match
has an offset of 0, which the format forbids. The scanner's check for that is
disabled (`blockapi.c:131`), so `ScansWellFormed` says what it accepts besides well
formed blocks. The size and `linksize` are right for everything that `Divides`.
`LinkIsLeast` compares the offsets with what had been decoded when each match
begins. Sizes are unbounded; on a 64-bit machine no string can overflow them.

### FileOperation, FileOperationProofs

`bin/extlz4` with `encode_file`, `decode_file` and `open_file`: for each file the
check for an existing output, opening, the header, a step per slice of 1 MiB, the
copied times and the removal. `dir` maps paths to files and `data` holds what is
in them, also when no path leads to a file any more. A file is a sequence of units;
a frame is a head, a block for each unit it holds and an end mark, and as files are
put into frames more than once, the `depth` of a unit says how many blocks there are
around it (`Framed`). What the decoder of a frame returns is what
`FrameDecoder` establishes: with a content checksum everything, without one nil
after the first slice of the last block (`StatusZero`). Any step may fail, an
`LZ4::Error` goes on with the next file, and the program may be killed and
started again with other options. `ContentSafe` is the promise a user relies on. It
excepts what `Trails`, a frame with something behind its end: the decoder stops at
the first end mark. `RemovedWhenWhole` does not: what is removed must begin with
the frame of what the output holds (`Replaces`).
`Kill` ends the process and nothing else; what the system has not yet written to a
disk when the machine stops is not modelled. The files given are those the search
in directories has found; `-t` and the standard input remove nothing, and are left
out, as is `--fix-extlz4-0.1-bug`, which goes through `file_operation` with the
repair tool in place of the codec.

### StreamEncoder, StreamDecoder, StreamFixer, OldStream, OldStreamProofs

The frame format written in Ruby. `StreamEncoder` has a step for each round of
the loop in `write`, for the coder and for each `@io <<`; the coder of a linked
stream is an instance of `BlockEncoder`. `StreamDecoder` keeps the two Strings
`@readbuf` and `@decodebuf`, one of which the `StringIO` in `@buf` shares
(`sbuf.of`): the block being handed out and the one being read may be the same
memory. What a coded block looks like is left out; a block knows what it decodes
to and what it refers to. A block that decodes to nothing, which only other
programs write, makes `read` with a size raise (`oldstream.rb:505`).
`StreamFixer` is `fix` of `fix-0.1bug.rb`. `OldStream`
composes them: a stream is written, perhaps as extlz4-0.1 wrote it and then
repaired, perhaps cut off anywhere, or comes from another program, and is read.
A stream is a sequence of items (header, size word, block, checksum). Those of
other programs follow the format (`Formed`): a size is that of its block, a block
is followed by a checksum where the header says so, and the file may end anywhere.
A size may be larger than the header allows and a block decode to more, at which
the decoder raises. Their blocks refer to what precedes them, if the header says
that they are linked (`OldStream`'s `InReach`). LZ4 refuses a block that refers to
more than the decoder's dictionary has, and `update` or `block_decode` raises
(`StreamDecoder`'s `InReach`, `DecodeRaises`); one that is in reach and finds other
bytes there decodes to `Junk` (`DecodeBody`). Both happen with the streams of this
encoder, whose literal blocks its decoder does not see.

### Conventions

`MC*.tla` modules only define constants for TLC. Definitions called
`<Definition>_<What>` are mutated forms; nothing uses them but the mutants.

## Runs

| run | instance | shows |
|---|---|---|
| `decoder_safety` | frames of up to three blocks and four bytes, with and without checksum; requests of 0 to 3 bytes; all faults, a close during a fetch among them; fairness | `TypeOK`, `Conservation`, `InOrder`, `NoByteAfterError`, `NothingLeftBehind`, `CallReturns`, `ReadAllIsAll`, refinement of `ContentReader` |
| `encoder_safety` | twelve Hashes of keywords, sizes of two to five bytes, writes of 1 and 6, two ports, failing ports and interrupts, all forms of `encode` | `FrameInOrder`, `EveryByteOnce`, `FlushDelivers`, `OptionsHonoured`, `EncodeEnds` |
| `encoder_array` | an IO and an Array | violation of `PortsKeepTheFrame` |
| `block_decoder` | W = 3, all strings of up to five bytes over two values | `TypeOK`, `WindowSlides` |
| `block_stream` | W = 2, strings shorter, as long and longer, the decoder up to two messages behind, all faults | `TypeOK`, `BlocksDecode`, `SavedictIsShared` |
| `block_functions` | two strings, four texts around LZ4's largest input and `INT_MAX`, all shapes of arguments, no memory | `RoomIsThere`, `CalcSuffices`, `OthersKept`, `ResultOrNothing` |
| `block_scan` | all strings of up to five bytes over six values; blocks with lengths around 0, 15 and 270 in both places, whole and with up to three bytes missing | `TypeOK`, `ScansWellFormed`, `SizeIsDecoded`, `LinkIsLeast` |
| `file_safety` | eleven disks, three starts of the program with any of the options, all faults, checked frames | `TypeOK`, `ContentSafe`, `RemovedWhenWhole`, `NothingOverwritten` |
| `file_unchecked` | frames without checksum of up to four slices, two to a block, no faults | violation of `RemovedWhenWhole` |
| `old_stream` | blocks of two bytes, W = 2, writes and reads of 1 and 3, three sets of options, two calls that raise on either side, every cut, six foreign streams; fairness | `TypeOK`, `EveryByteOnce`, `SumMatches`, `ReadIsWritten`, `Repaired`, `NilIsTheEnd`, `ReadReturns` |
| `old_linked` | linked streams of three blocks, no faults | violation of `LinkedReadIsWritten` |
| `old_repair` | linked streams of two blocks, repaired, no faults | violation of `LinkedRepairedIsRead` |

Bounds. The frames of the decoder are small, but every relation of a request to
what `outbuf` holds (less, equal, more, over several blocks) and every position
of a fault occurs; the request sizes and the buffer of a read without size are
smaller and larger than the blocks. `encoder_safety` stops writing at
`MaxWritten` bytes and calling `flush` and `close` at `MaxPushes` pushes in all
(the `close` of `encode` is not bounded); a write is shorter than a block, several
blocks long and longer than a chunk, so that bytes are held back. Its Hashes have
every keyword missing, given, given twice as Symbol and String, unknown and of a
wrong class, and block sizes below, at, between and above the legal ones, negative
and no int. In
`block_functions` a size fits exactly, is too small by one, and passes each of
the limits, and two strings are the same, duplicates or apart. W = 3 and W = 2 with strings up to five
and three bytes let a block fit, fill and overflow the array, at every fill
level. `block_stream` has no bound on the length of the stream, only on how far
the decoder falls behind. The strings of `block_scan` put the end at every place
relative to what the scanner reads next, and its lengths need no, one and two
more bytes. Three starts of the program (`MaxRuns`) are one that leaves something
half done, one that tries again and one after it. `old_stream` writes three bytes
(`MaxWritten`), a full block and a part of one, in every cut into writes, and
retries a call that raised once (`MaxRaises`, `MaxFailed`). `old_linked` writes six
bytes, since silent corruption takes three blocks: a coded one that fills the
decoder's dictionary, a literal one that the decoder does not see, and a coded one
that refers to it. Names decide nothing
but equality in the file runs, so one name, in two directories and with up to
two suffixes, meets every collision of paths. The disks hold plain files, empty ones,
frames with and without the suffix, a frame in a frame, one that breaks off, two in
one file, and two files that may take each other's place.

Deadlock. `CHECK_DEADLOCK FALSE` is set where the system stops: a decoder that
was dropped and collected, an encoder that has reached `MaxWritten` and
`MaxPushes` or whose constructor raised, a scanner that has returned or raised, a
program started `MaxRuns` times, an old stream whose bounds are reached.

Fairness. `FairSpec` of `FrameDecoder` has weak fairness of `Running`, the steps
the extension, LZ4F and the port take within a call, and `FairSpec` of
`OldStream` of the steps of the old decoder. It is the execution of straight-line
code, and a port whose `read` returns or raises. Nothing makes the caller call or
the collector run.

## Findings

* On frames written with `checksum: false`, `read` and `getc` return nil after a
  read that ended inside the last block (`frameapi.c:589`, `:629`), and the rest
  is lost. `NothingLeftBehind` is therefore stated, and proved, for frames with a
  checksum. It reaches the program: `decode_file`, which reads slices of 1 MiB,
  cuts the output short, and the input is then removed (`file_unchecked`).
* An Array, which `lib/extlz4.rb:164` names as a possible output, ends up with
  many references to one String (`frameapi.c:231`, `encoder_array`).
* A linked old stream with a literal block before its last block cannot be read
  back: the decoder hands the block out without showing it to its dictionary
  (`oldstream.rb:524`). The next block is refused, or, if earlier blocks have filled
  the dictionary, decodes to something else without an error (`old_linked`).
* The repair tool inverts the bit for linked blocks (`fix-0.1bug.rb:21`): a repaired
  linked stream is decoded without a dictionary, and reading it raises
  (`old_repair`).

Seen while modelling, without a run of their own: if no block size is
asked, blocks have 64 KiB, which is what LZ4F makes of `LZ4F_default`
(`frameapi.c:138`), where the program's help says 7, 4 MiB (`bin/extlz4:58`), and so
does the encoder's getter (`frameapi.c:69`). `scansize` accepts match offsets of 0
(`blockapi.c:131`), though it is meant for verifying a block before it is decoded
(`blockapi.c:926`). `getbyte` returns negative
numbers where `char` is signed (`frameapi.c:657`). `close` of a decoder does not
release it (`frameapi.c:667`, against `lib/extlz4.rb:246`). Whether the output
exists is looked at before it is opened (`bin/extlz4:109`), which two programs at
once can fall between. `read` without size at the end of an old stream raises
when it is called again (`oldstream.rb:462`). After a block that failed to decode,
`read` with a size hands out bytes of it if the `StringIO` shares the buffer it
was read or decoded into (`oldstream.rb:499`); `ReadIsWritten` therefore ends with the first
failure. A write to a closed old encoder is buffered without an error as long as
the block is not full (`oldstream.rb:283`). A file of several frames, as `cat` makes it, is
decoded up to the end of the first frame and then removed (`lib/extlz4.rb:40`,
`bin/extlz4:120`); no document of the repository speaks of such files.
`block_stream_decode` releases its
decoder only when an exception passes (`lib/extlz4.rb:311`). `encode` with a block
returns the port, and its documentation says the value of the block
(`lib/extlz4.rb:171`); when the block raises, the port has a whole and valid
frame all the same (`:203`). `decode(s, s)` empties `s` before LZ4 reads it, and
loses it (`blockapi.c:968`). A negative `blocksize` is taken for a large one
(`frameapi.c:171`).

## Proofs

`tlapm` checks these modules to the last leaf.

`FrameDecoderProofs`, for all frames, buffer and request sizes and faults:
`TypeCorrect` (`[]TypeOK`), `Delivered` (`[]Conservation`), `ContentOrder`
(`[]InOrder`), `ErrorIsFinal` (`NoByteAfterError`), `NilIsTheEnd`
(`[]NothingLeftBehind`, which speaks of frames with a content checksum),
`ReadAllIsWhole` (`ReadAllIsAll`, of all frames) and `ReadsInSequence`
(`ReaderSpec`: the decoder implements `ContentReader`, for frames with a content
checksum). The assumptions are those of the constants in `FrameDecoder`.

`TypeOK` is not inductive: `outoff` must stay within `outbuf`, and a fetch happens
only when `outbuf` is drained (`Drained`). For the order, `Placed` says where the
bytes of `got`, `dst` and `outbuf` stand in the content: `outbuf` ends at
`emitted`, and what was lost only shifts. `Finished` relates `status` to the
segment LZ4F is at, from which nil follows to be the end: with a checksum the
segment that makes `status` 0 has no content.

For the refinement `Going` relates the request in progress to what has been
copied, says which calls can still run in a decoder that was closed (one that is
fetching, and `getbyte`), and that `emitted` is what the blocks taken so far hold
(`SizeTo`), so that no request is answered with more than there is (`Accounted`)
and a call that returns less than it was asked for returns all of it
(`ReturnedDue`). Then `Init` maps to the reader's, what the caller begins is
`Ask`, `Refuse`, `AnswerEmpty` or `Close` (`StepCaller`), and of what happens
within a call only the return, a raise and a close are seen (`StepRunning`).

`BlockDecoderProofs`, for every size of the array, every set of strings and all
faults: `TypeCorrect` (no copy leaves `dictbuf`) and `Implements`
(`Spec => WindowSlides`). The lemmas say, byte by byte, what `CopyIn` writes and
what the end of a concatenation is, `SlidEqual` joins them, `ShortSlides` and
`LongSlides` apply it to the two ways the code slides. The invariant adds to
`TypeOK` that `dest` is empty unless a block waits to be copied, without which a
step of `decompress_safe_continue` would not be one of `SlidingWindow`.

`BlockScanProofs`, for every string: `TypeCorrect`, whose `TypeOK` says that the
two bytes of an offset, which the code reads without looking for the end, are
there, and that `linksize` fits in 16 bits. The strings are arbitrary sequences
of bytes (`BlocksAssumption`), not blocks. The invariant adds that the string
is one of them; the test `p + 2 >= end` before an offset is what carries it.
`ScansBlocks` (`[]ScansWellFormed`: accepted are the well formed blocks, and what
lacks nothing of one but an offset other than 0), `SizeIsRight` (`[]SizeIsDecoded`) and
`LinkIsRight` (`[]LinkIsLeast`) say that the results are those of `LZ4Block`. Its
functions are recursive and a string may have any length, so these rest on
induction over data: `LeastNumber` and `SetInduction` are proved from the
well-foundedness of `<` and speak of sets, which the provers can take instances
of. From them follow that the recursive functions exist and what one step of them
is. The invariant then says, at every point of the scan, that the sequences found
so far and those the reference finds from `p` on are those of the whole string
or, if it finds none, that the string has none.

`EncoderProofs`, for all Hashes of keywords, sizes of LZ4F's chunks, writes, ports
and faults, and both for a program that does what it likes (`Spec`) and for
`LZ4.encode` (`EncodeSpec`): `EncoderTypes` (`[]TypeOK`), `ByteAccount`
(`[]EveryByteOnce`), `FlushKeepsNothing`
(`FlushDelivers`), `FrameOrder` (`[]FrameInOrder`), `EncodeIsEnded`
(`[]EncodeEnds`) and `OptionsAreHonoured` (`OptionsHonoured`). `AnyStep` is a step of either caller. None of the invariants is
inductive. `Inductive` adds that what waits in the work buffer is a run of pieces
that follow each other (`Tiles`, `Chained`) up to what LZ4F holds. `Once` says of a
sequence of pieces that every offset is in one of them and no two places share one.
It is kept by cutting a run of offsets into blocks behind all others (`EvenTiles`,
`OnceGrows`) and by moving pieces from the work buffer to `out` or to `gaps`, which
only changes the order of the places (`OnceSwapped`).
`Unbroken` relates the last piece pushed to the first that waits as long as no
call has raised, from which the order of the frame follows; `Ending` says for
every step of `encode` whether the end mark has been made. For the options,
`LastGiven` says what the variables are after any number of pairs, as long as all
names are known, and `Scanned` goes through the pairs one by one.

`BlockStreamProofs`, for every reach of a match, every string, any number of
blocks and resets on their way and all faults: `StreamTypes` (`[]TypeOK`),
`LinkedBlocksDecode` (`[]BlocksDecode`) and `SavedictTakesOver`
(`[]SavedictIsShared`). What makes a block decode is a fact about the future: the
window the decoder will have when it gets there. The invariant `Linked` therefore
says that there is a course `h` of what the decoder will have after each thing on
its way (`Path`), that every block refers to the end of what precedes it on that
course, and that the encoder codes for its last point (`CodesFor`). A block sent
extends the course, a message received drops its first point, and a decoder that
fails leaves blocks nobody vouches for up to the next reset (`Ordered`). That the
decoder's window is what `SlidingWindow` says is `BlockDecoderProofs`, of which
this module uses an instance.

`BlockFunctionsProofs`, for any number of strings, all texts, argument lists and
limits: `StringTypes` (`[]TypeOK`), `NothingOverrun` (`[]RoomIsThere`),
`RoomSuffices` (`[]CalcSuffices`), `OnlyDestChanges` (`OthersKept`) and
`NoJunkIsSeen` (`ResultOrNothing`). The invariant is `Sound`: a string that is not
empty is as long as what its buffer holds, and two strings have one buffer only if
both are marked as sharing it. That a buffer is always to be had (`UnusedIsFree`)
is the pigeonhole principle for `Names` and one buffer more. `Ready` is what
`aux_str_reserve` and `rb_str_buf_new` establish, whatever the string was before:
a buffer of its own with the room, and nothing else to be seen of it; `Clear`
what is handed to LZ4; the lemma `CodeIs` follows both functions to their end.

`FileOperationProofs`, for all disks, command lines, frames in frames, numbers of
starts and faults: `FileTypes` (`[]TypeOK`), `NoOverwrite` (`NothingOverwritten`)
and, where frames have a checksum, `NothingIsLost` (`[]ContentSafe`) and
`RemovedIsWhole` (`RemovedWhenWhole`, also of inputs with something behind their
frame); without one they are false (`file_unchecked`). `Same` is an equivalence (`SameTransitive`), since frames around
frames add up (`FramedAdds`) and can be taken off (`FramedInjective`). The invariant
`Inv` says what its paths have to do with a process: `fin` and `fout` are what they
lead to and never the same data (`OutputIs`, from `OutfileDiffers`), without `-f` the
output was not there, and the output is the input so far, a block more or less deep
(`DecodedTo`, `EncodedTo`). `ContentSafe` is not inductive: a file that is being
written is the same as another only by accident and does not stay so. `Held` asks for
a copy in a file other than that one.

`OldStreamProofs`, for all options, sizes of writes and reads, faults and foreign
streams: `TypeCorrect` (`[]TypeOK`), `ByteAccount` (`[]EveryByteOnce`), `SumIsRight`
(`[]SumMatches`), `ReadBack` (`[]ReadIsWritten`), `EndIsMarked` (`[]NilIsTheEnd`) and
`RepairIsRight` (`[]Repaired`). The assumptions on the constants are those of
`OldStream`, `Files` being well formed as said above; nothing is assumed of the
streams of the encoder, for which it is proved. The invariant has three parts.

* `EncoderIs`, as long as the port has not raised: the bytes (`Accounted`), what may
  be pushed next (`Shaped`), that only the last block may be short if it is literal
  (`Sized`), and, if the coder has not raised either, that blocks refer to what
  precedes them and the coder's dictionary is the end of it (`Linked`).
* `FixerIs`: what is left of the input are the items that were not copied, with
  lengthened sizes (`Uncopied`), and what was written are those of the encoder
  (`Copies`). The repair knows the size of the last block only from the distance to
  the end of the file. `GapIs` says that this distance is the size of a literal block
  if it is less than the largest one, and is not less than it; it adds up the bytes of
  what follows, and needs `Sized`: a short literal block before the last one would
  get a wrong size.
* `DecoderIs`: what is left is an end of the file (`Placed`); which item is next at
  each point of a call (`Reading`, `Ends`); and that what was returned, what the call
  has so far and what `@buf` still has are together what the items read so far hold
  (`Delivering`). Before the first literal block of a linked stream its dictionary is
  the end of that, and `Followed`, the condition of `ReadIsWritten`, says that if any
  block refers to anything only the last one is literal.
  `DictionarySuffices` joins this with `InReach`. After a call that raised, `Ends`
  and `Delivering` need not hold, but `Placed` and `Reading` do, on which the bounds of
  the buffers rest: what is read as a block is what follows the size of one.

`ContentTo` and `Bytes` are recursive functions on sequences, for which `LeastNumber`
and `SetInduction` are used as in `BlockScanProofs`.

Only model-checked: `CallReturns` of `FrameDecoder` and `ReadReturns` of `OldStream`.
Liveness is out of the prover's reach, as is `ENABLED`. The library's induction
theorems and the facts about folds take an operator and cannot be cited either;
where an induction is needed, `LeastNumber` gives the least element of a set from
`WFMin`, and `SetInduction` makes an induction of it.

## Not modelled

Several threads on one object: the code releases the interpreter's lock with
pointers into shared buffers, so most such interleavings are undefined; the
hazard at `blockapi.c:874` names them. A port that changes the string the C code
holds a pointer into across the call (`frameapi.c:220`, `:594`). Getters and
`inspect`. Compression levels. What `rbx_scanhash` can do and nothing here asks
of it: missing keywords and a Hash for the rest. Two programs at once on the same
files, where a check and an open are apart. `decode` for a string or a block and
`block_stream_*`, fixed sequences of calls on the objects above.
The components marked `not_modelled` in `PROJECT.json`, each with its reason.

## Plan

In the order of what matters most; all are done.

1. `FrameDecoder` against `ContentReader`; proofs of what is lost or repeated.
2. `FrameEncoder`, with `KeywordArgs` and `EncodeFunction`.
3. `BlockDecoder` against `SlidingWindow`; proof of the refinement.
4. `BlockEncoder`, `BlockStream`.
5. `StreamEncoder`, `StreamDecoder`, `StreamFixer`, `OldStream`.
6. `FileOperation`.
7. `BlockScan` against `LZ4Block`; proofs of both sizes.
8. `BlockFunctions`.
9. Proofs: the frame encoder, the stream of linked blocks, the one-shot functions.
10. Proofs: the program loses nothing.
11. Proofs: the old stream.
12. Proofs: the refinement of `ContentReader`, the keyword arguments.
