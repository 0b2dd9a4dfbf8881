-------------------------- MODULE BlockFunctions --------------------------
(***************************************************************************)
(* LZ4::BlockEncoder.encode and LZ4::BlockDecoder.decode of                *)
(* ext/blockapi.c: how they read their arguments, and what they do to the  *)
(* strings they are given.                                                 *)
(*                                                                         *)
(* A string has a buffer, which it shares with its duplicates until one of *)
(* them is modified.  What a buffer holds is a text, the block of a text,  *)
(* or junk; junk is taken to be no block.  Numbers are scaled down: the    *)
(* largest int is IntMax, the largest input of LZ4 MaxInput.  The level    *)
(* picks the compressor and is taken to fit an int.                        *)
(*                                                                         *)
(* The compressors are outside the repository: they fit any text into      *)
(* LZ4_compressBound bytes, or into the room they are told of, or fail.    *)
(***************************************************************************)
EXTENDS Integers, FiniteSets, Sequences

CONSTANTS
  Names,      \* the variables of the program that hold strings
  Texts,      \* what the program codes: records of a length and an id
  Arguments,  \* the argument lists it calls with
  MaxInput,   \* LZ4_MAX_INPUT_SIZE
  IntMax,     \* INT_MAX
  LongMax,    \* LONG_MAX, more bytes than a string can have
  Faults      \* a subset of {"memory"}

Text(n, i) == [kind |-> "text", len |-> n, id |-> i]
Nothing == Text(0, 0)
Junk(n) == [kind |-> "junk", len |-> n]
Block(t, n) == [kind |-> "block", len |-> n, of |-> t]

Nil == [kind |-> "nil"]
Other == [kind |-> "other"]
Num(n) == [kind |-> "number", val |-> n]
Str(s) == [kind |-> "string", val |-> s]

\* The string a call without dest makes, and the size it works out itself.
New == "new"
Calc == -1

ASSUME FunctionsAssumption ==
  /\ IsFiniteSet(Names) /\ New \notin Names
  /\ Texts \subseteq [kind : {"text"}, len : Nat, id : Nat] /\ Nothing \in Texts
  /\ Arguments \subseteq
       Seq({Nil, Other} \cup {Num(n) : n \in 0..(2 * LongMax)}
                        \cup {Str(s) : s \in Names})
  /\ MaxInput \in Nat /\ IntMax \in Nat /\ LongMax \in Nat
  /\ MaxInput < IntMax /\ IntMax < LongMax
  /\ Faults \subseteq {"memory"}

VARIABLES
  heap,  \* the strings and their buffers
  call   \* the call that has just ended, and how, or none

vars == <<heap, call>>

Object(b, n) == [buf |-> b, len |-> n, frozen |-> FALSE, shared |-> FALSE]

\* As many buffers as there can be strings.
Buffers == Names \cup {New}
Free == [cap |-> 0, holds |-> Nothing]

Cap(h, s) == IF h.obj[s].shared THEN h.obj[s].len ELSE h.mem[h.obj[s].buf].cap

Value(h, s) ==
  IF h.obj[s].len = 0 THEN Nothing ELSE h.mem[h.obj[s].buf].holds

Unused(h) == CHOOSE b \in Buffers : \A s \in DOMAIN h.obj : h.obj[s].buf # b

-----------------------------------------------------------------------------
(* Strings of Ruby.                                                        *)

rb_str_buf_new(h, size) ==
  LET b == Unused(h)
  IN  [obj |-> [s \in DOMAIN h.obj \cup {New} |->
                  IF s = New THEN Object(b, 0) ELSE h.obj[s]],
       mem |-> [h.mem EXCEPT ![b] = [cap |-> size, holds |-> Nothing]]]

\* rb_str_modify, rb_str_modify_expand: a buffer that nobody else has.
Private(h, s, cap) ==
  LET b == IF h.obj[s].shared THEN Unused(h) ELSE h.obj[s].buf
  IN  [obj |-> [h.obj EXCEPT ![s].buf = b, ![s].shared = FALSE],
       mem |-> [h.mem EXCEPT ![b] = [cap |-> cap, holds |-> Value(h, s)]]]

set_len(h, s, n) == [h EXCEPT !.obj[s].len = n]

Written(h, s, v) == [h EXCEPT !.mem[h.obj[s].buf].holds = v]

\* Buffers no variable of the program leads to are gone, and the others are
\* called after a variable that leads to them.
Collected(obj, mem) ==
  LET owner(s) == CHOOSE t \in Names : obj[t].buf = obj[s].buf
      owners == {owner(s) : s \in Names}
  IN  [obj |-> [s \in Names |-> [obj[s] EXCEPT !.buf = owner(s)]],
       mem |-> [b \in Buffers |-> IF b \in owners THEN mem[obj[b].buf] ELSE Free]]

\* Mutants: a string with room enough is written to as it is; what is missing
\* is counted from the capacity.
aux_str_reserve_AsItIs(h, s, size) ==
  IF Cap(h, s) < size THEN Private(h, s, size) ELSE h

aux_str_reserve_FromCap(h, s, size) ==
  IF Cap(h, s) < size
    THEN Private(h, s, h.obj[s].len + size - Cap(h, s))
    ELSE Private(h, s, Cap(h, s))

aux_str_reserve(h, s, size) ==
  IF Cap(h, s) < size THEN Private(h, s, size) ELSE Private(h, s, Cap(h, s))

-----------------------------------------------------------------------------
(* blockprocess_args.                                                      *)

\* A number or nil before the others is the level of encode.
Unlevelled(argv) ==
  IF Len(argv) > 1 /\ argv[1].kind \in {"nil", "number"} THEN Tail(argv)
                                                         ELSE argv

Wrong == [src |-> New, dest |-> New, max |-> 0]

\* The source, the destination and the size the arguments stand for, unless
\* they are too few, too many or of a wrong class.
blockprocess_args(argv) ==
  LET kinds == [i \in DOMAIN argv |-> argv[i].kind]
      n == Len(argv)
  IN  IF kinds \notin {<<"string">>, <<"string", "string">>, <<"string", "number">>,
                       <<"string", "number", "string">>}
        THEN Wrong
        ELSE [src |-> argv[1].val,
              dest |-> IF n > 1 /\ kinds[n] = "string" THEN argv[n].val ELSE New,
              max |-> IF n > 1 /\ kinds[2] = "number" THEN argv[2].val ELSE Calc]

\* The destination, with a buffer of the size.
WithRoom(h, dest, size) ==
  IF dest = New THEN rb_str_buf_new(h, size) ELSE aux_str_reserve(h, dest, size)

-----------------------------------------------------------------------------
(* The compressors.                                                        *)

Failed == [kind |-> "failed"]

\* Scaled down: one byte more than the text.
LZ4_compressBound(n) == IF n > MaxInput THEN 0 ELSE n + 1

\* Mutant: a block is taken to be no longer than its text.
aux_lz4_compressbound_Length(n) == IF n > IntMax THEN 2 * LongMax ELSE n

\* The length must fit an int; more than a string can have stands for an error.
aux_lz4_compressbound(n) ==
  IF n > IntMax THEN 2 * LongMax ELSE LZ4_compressBound(n)

\* A source and a destination in one buffer: anything may come out.
Compressed(v, room, same) ==
  LET worst == v.len + 1
  IN  IF same THEN {Junk(n) : n \in 1..room} \cup {Failed}
      ELSE {Block(v, n) : n \in {k \in 1..worst : k <= room}} \cup
           (IF room < worst THEN {Failed} ELSE {})

\* The block must be there as a whole, and its text must fit.
Decompressed(v, n, room) ==
  IF v.kind = "block" /\ n = v.len /\ v.of.len <= room THEN v.of ELSE Failed

-----------------------------------------------------------------------------
(* The functions.                                                          *)

Frozen(s) == s # New /\ heap.obj[s].frozen

\* The call ends: to is the name of what it returned, and fits says whether
\* the room LZ4 was told of was there.
Ends(fn, a, why, to, fits) ==
  call' = [fn |-> fn, src |-> a.src, dest |-> a.dest, calc |-> a.max = Calc,
           why |-> why, to |-> to, fits |-> fits]

Raises(h) == heap' = Collected([s \in Names |-> h.obj[s]], h.mem)

\* A string the call has made is given the name r.
Returns(h, r) ==
  heap' = Collected([s \in Names |-> IF s = r /\ New \in DOMAIN h.obj
                                       THEN h.obj[New] ELSE h.obj[s]], h.mem)

\* Mutants: the length of dest is not set to 0 before it is written to; it is
\* set to the room, not to what came out.
Emptied_Not(h, dest) == h
Filled_Room(h, dest, v, room) == set_len(Written(h, dest, v), dest, room)

Emptied(h, dest) == set_len(h, dest, 0)
Filled(h, dest, v, room) == set_len(Written(h, dest, v), dest, v.len)

\* The common end of both functions, with the destination in h: LZ4 is called
\* and one of the results comes out of it.
Code(fn, a, h, room, results, r) ==
  LET cap == h.mem[h.obj[a.dest].buf].cap
  IN  \E v \in results :
        IF v = Failed
          THEN Raises(Written(h, a.dest, Junk(0)))
               /\ Ends(fn, a, "lz4", New, room <= cap)
          ELSE Returns(Filled(h, a.dest, v, room), r)
               /\ Ends(fn, a, "returned", r, room <= cap)

\* Everything that is wrong before a string is touched, the allocation of the
\* destination included.
Refused(fn, a, room) ==
  /\ \/ a = Wrong
     \/ a # Wrong /\ (room > LongMax \/ Frozen(a.dest))
     \/ /\ a # Wrong /\ "memory" \in Faults
        /\ WithRoom(heap, a.dest, room) # heap
  /\ UNCHANGED heap
  /\ Ends(fn, a, "refused", New, TRUE)

Accepted(a, room) == a # Wrong /\ room <= LongMax /\ ~Frozen(a.dest)

blkenc_s_encode(argv, r) ==
  LET a == blockprocess_args(Unlevelled(argv))
      n == heap.obj[a.src].len
      room == IF a.max = Calc THEN aux_lz4_compressbound(n) ELSE a.max
      h == aux_str_reserve(WithRoom(heap, a.dest, room), a.dest, room)
  IN  \/ Refused("encode", a, room)
      \/ /\ Accepted(a, room) /\ n > MaxInput
         /\ Raises(h) /\ Ends("encode", a, "oversize", New, TRUE)
      \/ /\ Accepted(a, room) /\ n <= MaxInput /\ room > IntMax
         /\ Raises(Emptied(h, a.dest)) /\ Ends("encode", a, "range", New, TRUE)
      \/ /\ Accepted(a, room) /\ n <= MaxInput /\ room <= IntMax
         /\ Code("encode", a, Emptied(h, a.dest), room,
                 Compressed(Value(heap, a.src), room, a.src = a.dest), r)

\* aux_lz4_scansize refuses what is no block.
scansize(v) == IF v.kind = "block" THEN v.of.len ELSE 2 * LongMax

\* The length of the source is read when dest has been emptied.
blkdec_s_decode(argv, r) ==
  LET a == blockprocess_args(argv)
      room == IF a.max = Calc THEN scansize(Value(heap, a.src)) ELSE a.max
      h == Emptied(aux_str_reserve(WithRoom(heap, a.dest, room), a.dest, room),
                   a.dest)
      n == h.obj[a.src].len
  IN  \/ Refused("decode", a, room)
      \/ /\ Accepted(a, room) /\ (n > IntMax \/ room > IntMax)
         /\ Raises(h) /\ Ends("decode", a, "range", New, TRUE)
      \/ /\ Accepted(a, room) /\ n <= IntMax /\ room <= IntMax
         /\ Code("decode", a, h, room, {Decompressed(Value(h, a.src), n, room)}, r)

-----------------------------------------------------------------------------
(* What the program does otherwise.                                        *)

NoCall == [fn |-> "none", src |-> New, dest |-> New, calc |-> FALSE,
           why |-> "none", to |-> New, fits |-> TRUE]

Init ==
  /\ heap = [obj |-> [s \in Names |-> Object(s, 0)],
             mem |-> [b \in Buffers |-> Free]]
  /\ call = NoCall

Assign(s, t) ==
  LET b == Unused(heap)
  IN  /\ heap' = Collected([heap.obj EXCEPT ![s] = Object(b, t.len)],
                   [heap.mem EXCEPT ![b] = [cap |-> t.len, holds |-> t]])

Dup(s, d) ==
  /\ s # d
  /\ heap' = Collected(
       [heap.obj EXCEPT ![s].shared = TRUE,
          ![d] = [heap.obj[s] EXCEPT !.shared = TRUE, !.frozen = FALSE]],
       heap.mem)

Freeze(s) == heap' = [heap EXCEPT !.obj[s].frozen = TRUE]

Program ==
  /\ call = NoCall
  /\ \E s \in Names :
       \/ \E t \in Texts : Assign(s, t)
       \/ \E d \in Names : Dup(s, d)
       \/ Freeze(s)
  /\ UNCHANGED call

\* The program has seen how the call ended and goes on.
Continue == call # NoCall /\ call' = NoCall /\ UNCHANGED heap

\* The program encodes texts; it decodes anything.
Encodes(argv, r) ==
  LET a == blockprocess_args(Unlevelled(argv))
  IN  a # Wrong => Value(heap, a.src).kind = "text" /\ a.dest \in {New, r}

Decodes(argv, r) ==
  LET a == blockprocess_args(argv) IN a # Wrong => a.dest \in {New, r}

Next ==
  \/ Program \/ Continue
  \/ /\ call = NoCall
     /\ \E argv \in Arguments, r \in Names :
          \/ Encodes(argv, r) /\ blkenc_s_encode(argv, r)
          \/ Decodes(argv, r) /\ blkdec_s_decode(argv, r)

Spec == Init /\ [][Next]_vars

-----------------------------------------------------------------------------
(* Properties.                                                             *)

\* Every variable keeps its type; a string is as long as what it holds, and its
\* buffer is not shorter.
TypeOK ==
  /\ \A s \in Names :
       /\ heap.obj[s].buf \in Buffers
       /\ heap.obj[s].len = Value(heap, s).len /\ heap.obj[s].len <= Cap(heap, s)
       /\ heap.obj[s].frozen \in BOOLEAN /\ heap.obj[s].shared \in BOOLEAN
  /\ call.fn \in {"none", "encode", "decode"} /\ call.fits \in BOOLEAN
  /\ {call.src, call.dest, call.to} \subseteq Names \cup {New}
  /\ call.why \in {"none", "refused", "oversize", "range", "lz4", "returned"}

\* LZ4 is never told of more room than the buffer of dest has, whatever that
\* string was before, with whom it shared its buffer and however it is named
\* among the arguments.
RoomIsThere == call.fits

\* A call changes no string but dest: not one that shares its buffer, not the
\* source, and not a dest that is frozen.
OthersKept ==
  [][call' # NoCall =>
       /\ \A s \in Names \ {call'.dest, call'.to} : Value(heap', s) = Value(heap, s)
       /\ Frozen(call'.dest) => UNCHANGED heap]_vars

\* A call returns the block of the source, or the text of it; or it raises and
\* dest is as it was, or empty.  What a failed compressor has left in the
\* buffer is never to be seen.  (With one string for both nothing is promised:
\* decode loses the block.)
ResultOrNothing ==
  [][call' # NoCall /\ call'.src # call'.dest =>
       LET u == Value(heap, call'.src)
           v == Value(heap', call'.to)
       IN  IF call'.why # "returned"
             THEN call'.dest # New =>
                    Value(heap', call'.dest) \in {Value(heap, call'.dest), Nothing}
           ELSE IF call'.fn = "encode" THEN v.kind = "block" /\ v.of = u
                                       ELSE u.kind = "block" /\ v = u.of]_vars

\* Without a size, LZ4 does not fail for want of room: "calculated from the
\* length of src for the worst case ... no exception is raised during
\* compression" (blockapi.c:632-634), and decode finds the size in the block.
CalcSuffices == call.why = "lz4" => ~call.calc \/ call.src = call.dest
=============================================================================
