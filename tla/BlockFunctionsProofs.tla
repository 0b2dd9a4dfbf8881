------------------------ MODULE BlockFunctionsProofs ------------------------
(* The one-shot functions write into a buffer of dest's own that is large  *)
(* enough, whatever the strings, the sizes and the arguments are.          *)
EXTENDS BlockFunctions, FiniteSetTheorems, SequenceTheorems, TLAPS

\* A text as it is seen: an empty string is like any other.
Shown == {t \in [kind : {"text"}, len : Nat, id : Nat] : t.len = 0 => t = Nothing}

Contents ==
  [kind : {"text"}, len : Nat, id : Nat] \cup [kind : {"junk"}, len : Nat] \cup
  [kind : {"block"}, len : Nat, of : Shown]

Objects == [buf : Buffers, len : Nat, frozen : BOOLEAN, shared : BOOLEAN]
Cells == [cap : Nat, holds : Contents]

\* A string is as long as what its buffer holds, or empty, and no longer than
\* the buffer, if it is its own.
Fits(o, c) == /\ o.len = 0 \/ o.len = c.holds.len
              /\ ~o.shared => o.len <= c.cap

\* The strings of D are sound: two of them have one buffer only if both say so.
Sound(h, D) ==
  /\ h \in [obj : [D -> Objects], mem : [Buffers -> Cells]]
  /\ \A s \in D : Fits(h.obj[s], h.mem[h.obj[s].buf])
  /\ \A s \in D, t \in D : s # t /\ h.obj[s].buf = h.obj[t].buf => h.obj[s].shared

\* g is h with a buffer of the capacity for s alone; nothing else is to be seen
\* of it.
Ready(h, g, D, s, cap) ==
  /\ Sound(g, D)
  /\ ~g.obj[s].shared /\ g.mem[g.obj[s].buf].cap >= cap
  /\ \A t \in Names : /\ Value(g, t) = Value(h, t)
                      /\ g.obj[t].len = h.obj[t].len
                      /\ g.obj[t].frozen = h.obj[t].frozen

-----------------------------------------------------------------------------
(* There is always a buffer to be had.                                     *)
LEMMA UnusedIsFree ==
  ASSUME NEW h, Sound(h, Names)
  PROVE  Unused(h) \in Buffers /\ \A s \in Names : h.obj[s].buf # Unused(h)
<1> DEFINE f == [s \in Names |-> h.obj[s].buf]
           used == {f[s] : s \in Names}
<1>1. h.obj \in [Names -> Objects]
  BY DEF Sound
<1>2. IsFiniteSet(Names) /\ New \notin Names
  BY FunctionsAssumption
<1>3. IsFiniteSet(used) /\ Cardinality(used) <= Cardinality(Names)
  <2>1. f \in Surjection(Names, used)
    BY DEF Surjection
  <2> HIDE DEF f, used
  <2> QED
    BY <1>2, <2>1, FS_Surjection
<1>4. /\ Cardinality(Buffers) = Cardinality(Names) + 1
      /\ IsFiniteSet(Buffers) /\ Cardinality(Names) \in Nat
  <2>1. Cardinality(Names) \in Nat
    BY <1>2, FS_CardinalityType
  <2> QED
    BY <1>2, <2>1, FS_AddElement DEF Buffers
<1>5. \E b \in Buffers : b \notin used
  <2>1. SUFFICES ASSUME Buffers \subseteq used
                 PROVE  FALSE
    OBVIOUS
  <2>2. Cardinality(Buffers) <= Cardinality(used)
    BY <1>3, <2>1, FS_Subset
  <2>3. Cardinality(used) \in Nat
    BY <1>3, FS_CardinalityType
  <2> QED
    BY <1>3, <1>4, <2>2, <2>3
<1>6. DOMAIN h.obj = Names
  BY <1>1
<1>7. \E b \in Buffers : \A s \in DOMAIN h.obj : h.obj[s].buf # b
  BY <1>5, <1>6
<1> QED
  BY <1>6, <1>7 DEF Unused

(* What a string shows is typed.                                           *)
LEMMA Shows ==
  ASSUME NEW h, NEW D, Sound(h, D), NEW s \in D
  PROVE  /\ Value(h, s) \in Contents /\ Value(h, s).len = h.obj[s].len
         /\ Value(h, s).kind = "text" => Value(h, s) \in Shown
         /\ h.obj[s] \in Objects /\ h.mem[h.obj[s].buf] \in Cells
         /\ Cap(h, s) \in Nat /\ h.obj[s].len <= Cap(h, s)
<1>1. h.obj[s] \in Objects /\ Fits(h.obj[s], h.mem[h.obj[s].buf])
  BY DEF Sound
<1>2. h.obj[s].buf \in Buffers /\ h.mem \in [Buffers -> Cells]
  BY <1>1 DEF Sound, Objects
<1>3. h.mem[h.obj[s].buf] \in Cells
  BY <1>2
<1>4. Nothing \in Shown /\ Nothing \in Contents /\ Nothing.len = 0
  BY DEF Nothing, Text, Shown, Contents
<1>5. Cap(h, s) \in Nat /\ h.obj[s].len <= Cap(h, s)
  BY <1>1, <1>3 DEF Cap, Fits, Objects, Cells
<1>6. CASE h.obj[s].len = 0
  BY <1>1, <1>3, <1>4, <1>5, <1>6 DEF Value
<1>7. CASE h.obj[s].len # 0
  <2> DEFINE v == h.mem[h.obj[s].buf].holds
  <2>1. Value(h, s) = v /\ v.len = h.obj[s].len
    BY <1>1, <1>7 DEF Value, Fits
  <2>2. v \in Contents
    BY <1>3 DEF Cells
  <2>3. v.kind = "text" => v \in Shown
    BY <1>7, <2>1, <2>2 DEF Contents, Shown
  <2> QED
    BY <1>1, <1>3, <1>5, <2>1, <2>2, <2>3
<1> QED
  BY <1>6, <1>7

-----------------------------------------------------------------------------
(* Strings of Ruby.                                                        *)
LEMMA Made ==
  ASSUME NEW h, Sound(h, Names), NEW size \in Nat
  PROVE  Ready(h, rb_str_buf_new(h, size), Buffers, New, size)
<1> DEFINE b == Unused(h)
           obj == [s \in DOMAIN h.obj \cup {New} |->
                     IF s = New THEN Object(b, 0) ELSE h.obj[s]]
           mem == [h.mem EXCEPT ![b] = [cap |-> size, holds |-> Nothing]]
           g == [obj |-> obj, mem |-> mem]
<1>1. b \in Buffers /\ \A s \in Names : h.obj[s].buf # b
  BY UnusedIsFree
<1>2. h.obj \in [Names -> Objects] /\ h.mem \in [Buffers -> Cells] /\ New \notin Names
  BY FunctionsAssumption DEF Sound
<1>3. g = rb_str_buf_new(h, size)
  BY DEF rb_str_buf_new
<1> HIDE DEF b
<1>4. Object(b, 0) \in Objects /\ Nothing \in Contents
  BY <1>1 DEF Object, Objects, Nothing, Text, Contents
<1>5. obj \in [Buffers -> Objects] /\ mem \in [Buffers -> Cells]
  BY <1>2, <1>4 DEF Buffers, Cells
<1>6. /\ obj[New] = Object(b, 0) /\ mem[b] = [cap |-> size, holds |-> Nothing]
      /\ \A s \in Names : /\ obj[s] = h.obj[s]
                          /\ mem[obj[s].buf] = h.mem[h.obj[s].buf]
  <2>1. \A s \in Names : h.obj[s].buf \in Buffers
    BY <1>2 DEF Objects
  <2> QED
    BY <1>1, <1>2, <2>1
<1> HIDE DEF obj, mem
<1>7. Sound(g, Buffers)
  <2>1. \A s \in Buffers : Fits(obj[s], mem[obj[s].buf])
    <3>1. Fits(obj[New], mem[obj[New].buf])
      BY <1>6 DEF Fits, Object
    <3> QED
      BY <1>6, <3>1 DEF Sound, Buffers
  <2>2. \A s \in Buffers, t \in Buffers :
          s # t /\ obj[s].buf = obj[t].buf => obj[s].shared
    <3>1. obj[New].buf = b
      BY <1>6 DEF Object
    <3> QED
      BY <1>1, <1>6, <3>1 DEF Sound, Buffers
  <2> QED
    BY <1>5, <2>1, <2>2 DEF Sound
<1>8. ~g.obj[New].shared /\ g.mem[g.obj[New].buf].cap >= size
  BY <1>6 DEF Object
<1>9. \A t \in Names : /\ Value(g, t) = Value(h, t)
                      /\ g.obj[t].len = h.obj[t].len
                      /\ g.obj[t].frozen = h.obj[t].frozen
  BY <1>6 DEF Value
<1> QED
  BY <1>3, <1>7, <1>8, <1>9 DEF Ready

(* rb_str_modify_expand gives s a buffer that it does not share.           *)
LEMMA PrivateIs ==
  ASSUME NEW h, NEW D, D = Names \/ D = Buffers, Sound(h, D), NEW s \in D,
         D = Names \/ ~h.obj[s].shared,
         NEW cap \in Nat, h.obj[s].len <= cap
  PROVE  Ready(h, Private(h, s, cap), D, s, cap)
<1> DEFINE b == IF h.obj[s].shared THEN Unused(h) ELSE h.obj[s].buf
           obj == [h.obj EXCEPT ![s].buf = b, ![s].shared = FALSE]
           mem == [h.mem EXCEPT ![b] = [cap |-> cap, holds |-> Value(h, s)]]
           g == [obj |-> obj, mem |-> mem]
<1>1. /\ h.obj \in [D -> Objects] /\ h.mem \in [Buffers -> Cells]
      /\ h.obj[s] \in Objects
      /\ Value(h, s) \in Contents /\ Value(h, s).len = h.obj[s].len
  BY Shows DEF Sound
<1>2. b \in Buffers /\ \A t \in D : t # s => h.obj[t].buf # b
  <2>1. CASE h.obj[s].shared
    BY <2>1, UnusedIsFree
  <2>2. CASE ~h.obj[s].shared
    BY <1>1, <2>2 DEF Sound, Objects
  <2> QED
    BY <2>1, <2>2
<1>3. g = Private(h, s, cap)
  BY DEF Private
<1> HIDE DEF b
<1>4. [cap |-> cap, holds |-> Value(h, s)] \in Cells
  BY <1>1 DEF Cells
<1>5. /\ obj[s].buf = b /\ obj[s].shared = FALSE
      /\ obj[s].len = h.obj[s].len /\ obj[s].frozen = h.obj[s].frozen
      /\ obj \in [D -> Objects]
      /\ \A t \in D : t # s => obj[t] = h.obj[t]
  BY <1>1, <1>2 DEF Objects
<1>6. /\ mem[b] = [cap |-> cap, holds |-> Value(h, s)]
      /\ mem \in [Buffers -> Cells]
      /\ \A t \in D : t # s => mem[obj[t].buf] = h.mem[h.obj[t].buf]
  <2>1. \A t \in D : h.obj[t].buf \in Buffers
    BY <1>1 DEF Objects
  <2> HIDE DEF obj
  <2> QED
    BY <1>1, <1>2, <1>4, <1>5, <2>1
<1> HIDE DEF obj, mem
<1>7. Sound(g, D)
  <2>1. ASSUME NEW t \in D
        PROVE  Fits(obj[t], mem[obj[t].buf])
    <3>1. CASE t = s
      BY <1>1, <1>5, <1>6, <3>1 DEF Fits
    <3>2. CASE t # s
      BY <1>5, <1>6, <3>2 DEF Sound
    <3> QED
      BY <3>1, <3>2
  <2>2. ASSUME NEW t \in D, NEW u \in D, t # u, obj[t].buf = obj[u].buf
        PROVE  obj[t].shared
    <3>1. t # s /\ u # s
      BY <1>2, <1>5, <2>2
    <3> QED
      BY <1>5, <2>2, <3>1 DEF Sound
  <2> QED
    BY <1>5, <1>6, <2>1, <2>2 DEF Sound
<1>8. ~g.obj[s].shared /\ g.mem[g.obj[s].buf].cap >= cap
  BY <1>5, <1>6
<1>9. ASSUME NEW t \in Names
      PROVE  /\ Value(g, t) = Value(h, t)
             /\ g.obj[t].len = h.obj[t].len
             /\ g.obj[t].frozen = h.obj[t].frozen
  <2>1. CASE t = s
    <3>1. Value(g, s) = IF h.obj[s].len = 0 THEN Nothing ELSE Value(h, s)
      BY <1>5, <1>6 DEF Value
    <3> QED
      BY <1>5, <2>1, <3>1 DEF Value
  <2>2. CASE t # s
    BY <1>5, <1>6, <2>2 DEF Value, Buffers
  <2> QED
    BY <2>1, <2>2
<1> QED
  BY <1>3, <1>7, <1>8, <1>9 DEF Ready

LEMMA Reserved ==
  ASSUME NEW h, NEW D, D = Names \/ D = Buffers, Sound(h, D), NEW s \in D,
         D = Names \/ ~h.obj[s].shared, NEW size \in Nat
  PROVE  Ready(h, aux_str_reserve(h, s, size), D, s, size)
<1>1. Cap(h, s) \in Nat /\ h.obj[s].len <= Cap(h, s) /\ h.obj[s].len \in Nat
  BY Shows DEF Objects
<1>2. CASE Cap(h, s) < size
  <2>1. h.obj[s].len <= size
    BY <1>1, <1>2
  <2> QED
    BY <1>2, <2>1, PrivateIs DEF aux_str_reserve
<1>3. CASE ~(Cap(h, s) < size)
  <2>1. Ready(h, Private(h, s, Cap(h, s)), D, s, Cap(h, s))
    BY <1>1, PrivateIs
  <2> DEFINE g == Private(h, s, Cap(h, s))
             cell == g.mem[g.obj[s].buf]
  <2>2. aux_str_reserve(h, s, size) = g
    BY <1>3 DEF aux_str_reserve
  <2>3. cell \in Cells
    BY <2>1, Shows DEF Ready
  <2>4. cell.cap >= Cap(h, s) /\ cell.cap \in Nat
    BY <2>1, <2>3 DEF Ready, Cells
  <2>5. cell.cap >= size
    <3> HIDE DEF cell
    <3> QED
      BY <1>1, <1>3, <2>4
  <2> QED
    BY <2>1, <2>2, <2>5 DEF Ready
<1> QED
  BY <1>2, <1>3

(* The strings of a call: those of the program, and dest if it is new.     *)
With(dest) == IF dest = New THEN Buffers ELSE Names

LEMMA WithIs ==
  ASSUME NEW dest \in Buffers
  PROVE  /\ With(dest) = Names \/ With(dest) = Buffers
         /\ dest \in With(dest) /\ \A s \in Names : s \in With(dest)
  BY DEF With, Buffers

\* What both functions do to dest before they call LZ4.
Reserve(h, dest, room) ==
  aux_str_reserve(WithRoom(h, dest, room), dest, room)

LEMMA ReserveIsReady ==
  ASSUME NEW h, Sound(h, Names), NEW dest \in Buffers, NEW room \in Nat
  PROVE  Ready(h, Reserve(h, dest, room), With(dest), dest, room)
<1> DEFINE D == With(dest)
           g == WithRoom(h, dest, room)
           k == aux_str_reserve(g, dest, room)
<1>1. Ready(h, g, D, dest, room)
  <2>1. CASE dest = New
    BY <2>1, Made DEF WithRoom, With
  <2>2. CASE dest # New
    <3>1. dest \in Names
      BY <2>2 DEF Buffers
    <3>2. Ready(h, aux_str_reserve(h, dest, room), Names, dest, room)
      BY <3>1, Reserved
    <3> QED
      BY <2>2, <3>2 DEF WithRoom, With
  <2> QED
    BY <2>1, <2>2
<1>2. D = Names \/ D = Buffers
  BY WithIs
<1>3. dest \in D
  BY WithIs
<1> HIDE DEF D, g
<1>4. Ready(g, k, D, dest, room)
  BY <1>1, <1>2, <1>3, Reserved DEF Ready
<1>5. Ready(h, k, D, dest, room)
  BY <1>1, <1>4 DEF Ready
<1> QED
  BY <1>5 DEF Reserve, D, g

\* The length of s and what its own buffer holds are changed.
Put(h, s, v, n) == [obj |-> [h.obj EXCEPT ![s].len = n],
                    mem |-> [h.mem EXCEPT ![h.obj[s].buf].holds = v]]

(* They may be changed to a whole text or block that fits, or to anything  *)
(* nothing is to be seen of.                                               *)
LEMMA PutIs ==
  ASSUME NEW h, NEW D, Sound(h, D), NEW s \in D, ~h.obj[s].shared,
         NEW v \in Contents, NEW n \in Nat,
         n = 0 \/ (n = v.len /\ n <= h.mem[h.obj[s].buf].cap)
  PROVE  LET g == Put(h, s, v, n)
         IN  /\ Sound(g, D) /\ Value(g, s) = IF n = 0 THEN Nothing ELSE v
             /\ g.obj[s] \in Objects /\ g.obj[s].frozen = h.obj[s].frozen
             /\ ~g.obj[s].shared /\ g.obj[s].len = n
             /\ g.mem[g.obj[s].buf].cap = h.mem[h.obj[s].buf].cap
             /\ \A t \in D : t # s => Value(g, t) = Value(h, t) /\ g.obj[t] = h.obj[t]
<1> DEFINE b == h.obj[s].buf
           obj == [h.obj EXCEPT ![s].len = n]
           mem == [h.mem EXCEPT ![b].holds = v]
           g == Put(h, s, v, n)
<1>1. /\ h.obj \in [D -> Objects] /\ h.mem \in [Buffers -> Cells]
      /\ h.obj[s] \in Objects
  BY DEF Sound
<1>2. b \in Buffers /\ \A t \in D : t # s => h.obj[t].buf # b
  BY <1>1 DEF Sound, Objects
<1>3. h.mem[b] \in Cells
  BY <1>1, <1>2
<1>4. /\ obj[s].buf = b /\ obj[s].shared = FALSE
      /\ obj[s].len = n /\ obj[s].frozen = h.obj[s].frozen
      /\ obj \in [D -> Objects] /\ obj[s] \in Objects
      /\ \A t \in D : t # s => obj[t] = h.obj[t]
  BY <1>1 DEF Objects
<1>5. mem[b] = [h.mem[b] EXCEPT !.holds = v]
  BY <1>1, <1>2
<1>6. mem[b].cap = h.mem[b].cap /\ mem[b].holds = v /\ mem[b] \in Cells
  BY <1>3, <1>5 DEF Cells
<1>7. mem \in [Buffers -> Cells]
  <2>1. \A c \in Buffers : c # b => mem[c] = h.mem[c]
    BY <1>1
  <2>2. \A c \in Buffers : mem[c] \in Cells
    BY <1>1, <1>6, <2>1
  <2>3. mem = [c \in Buffers |-> mem[c]]
    BY <1>1
  <2> QED
    BY <2>2, <2>3
<1>8. \A t \in D : t # s => mem[obj[t].buf] = h.mem[h.obj[t].buf]
  <2>1. \A t \in D : h.obj[t].buf \in Buffers
    BY <1>1 DEF Objects
  <2> QED
    BY <1>1, <1>2, <1>4, <2>1
<1>9. g = [obj |-> obj, mem |-> mem]
  BY DEF Put
<1> HIDE DEF obj, mem, g
<1>10. Sound(g, D)
  <2>1. ASSUME NEW t \in D
        PROVE  Fits(obj[t], mem[obj[t].buf])
    <3>1. CASE t = s
      <4>1. h.mem[b].cap \in Nat
        BY <1>3 DEF Cells
      <4> QED
        BY <1>4, <1>6, <3>1, <4>1 DEF Fits
    <3>2. CASE t # s
      BY <1>4, <1>8, <3>2 DEF Sound
    <3> QED
      BY <3>1, <3>2
  <2>2. ASSUME NEW t \in D, NEW u \in D, t # u, obj[t].buf = obj[u].buf
        PROVE  obj[t].shared
    <3>1. t # s /\ u # s
      BY <1>2, <1>4, <2>2
    <3> QED
      BY <1>4, <2>2, <3>1 DEF Sound
  <2> QED
    BY <1>4, <1>7, <1>9, <2>1, <2>2 DEF Sound
<1>11. Value(g, s) = IF n = 0 THEN Nothing ELSE v
  BY <1>4, <1>6, <1>9 DEF Value
<1>12. \A t \in D : t # s => Value(g, t) = Value(h, t) /\ g.obj[t] = h.obj[t]
  BY <1>4, <1>8, <1>9 DEF Value
<1> QED
  BY <1>4, <1>6, <1>9, <1>10, <1>11, <1>12 DEF g, b

\* g is h with an empty dest that has a buffer of its own with the room.
Clear(h, g, dest, room) ==
  /\ Sound(g, With(dest)) /\ ~g.obj[dest].shared
  /\ g.obj[dest].len = 0 /\ g.mem[g.obj[dest].buf].cap >= room
  /\ Value(g, dest) = Nothing
  /\ \A t \in Names : /\ t # dest => /\ Value(g, t) = Value(h, t)
                                     /\ g.obj[t].len = h.obj[t].len
                       /\ g.obj[t].frozen = h.obj[t].frozen

LEMMA EmptiedIs ==
  ASSUME NEW h, NEW k, NEW dest \in Buffers, NEW room \in Nat,
         Ready(h, k, With(dest), dest, room)
  PROVE  Clear(h, Emptied(k, dest), dest, room)
<1> DEFINE D == With(dest)
           b == k.obj[dest].buf
           v == k.mem[b].holds
           g == Put(k, dest, v, 0)
<1>1. /\ Sound(k, D) /\ ~k.obj[dest].shared /\ k.mem[b].cap >= room
      /\ \A t \in Names : /\ Value(k, t) = Value(h, t)
                          /\ k.obj[t].len = h.obj[t].len
                          /\ k.obj[t].frozen = h.obj[t].frozen
  BY DEF Ready
<1>2. dest \in D /\ \A t \in Names : t \in D
  BY WithIs
<1>3. k \in [obj : [D -> Objects], mem : [Buffers -> Cells]]
  BY <1>1 DEF Sound
<1> HIDE DEF D
<1>4. k.mem[b] \in Cells
  BY <1>1, <1>2, Shows
<1>5. v \in Contents /\ k.mem[b] = [k.mem[b] EXCEPT !.holds = v]
  BY <1>4 DEF Cells
<1>6. k.mem = [k.mem EXCEPT ![b].holds = v]
  BY <1>3, <1>5
<1>7. Emptied(k, dest) = g
  BY <1>3, <1>6 DEF Emptied, set_len, Put
<1>8. /\ Sound(g, D) /\ Value(g, dest) = Nothing
      /\ g.obj[dest].frozen = k.obj[dest].frozen
      /\ ~g.obj[dest].shared /\ g.obj[dest].len = 0
      /\ g.mem[g.obj[dest].buf].cap = k.mem[b].cap
      /\ \A t \in D : t # dest => Value(g, t) = Value(k, t) /\ g.obj[t] = k.obj[t]
  <2>1. Sound(k, D) /\ dest \in D /\ ~k.obj[dest].shared
    BY <1>1, <1>2
  <2>2. v \in Contents
    BY <1>5
  <2> HIDE DEF v
  <2> QED
    BY <2>1, <2>2, PutIs
<1> HIDE DEF g, v, b
<1>9. \A t \in Names : /\ t # dest => /\ Value(g, t) = Value(h, t)
                                     /\ g.obj[t].len = h.obj[t].len
                       /\ g.obj[t].frozen = h.obj[t].frozen
  BY <1>1, <1>2, <1>8
<1> QED
  BY <1>1, <1>7, <1>8, <1>9 DEF D, Clear

(* Writing to a buffer of dest's own: n bytes of it, a block, or junk that *)
(* is not to be seen.                                                      *)
LEMMA WriteIs ==
  ASSUME NEW h, NEW D, Sound(h, D), NEW s \in D, ~h.obj[s].shared,
         NEW v \in Contents, NEW n \in Nat,
         n = 0 \/ (n = v.len /\ n <= h.mem[h.obj[s].buf].cap)
  PROVE  LET g == set_len(Written(h, s, v), s, n)
         IN  /\ Sound(g, D) /\ Value(g, s) = IF n = 0 THEN Nothing ELSE v
             /\ g.obj[s].frozen = h.obj[s].frozen
             /\ \A t \in D : t # s => Value(g, t) = Value(h, t) /\ g.obj[t] = h.obj[t]
<1> DEFINE mem == [h.mem EXCEPT ![h.obj[s].buf].holds = v]
           w == Written(h, s, v)
<1>1. h \in [obj : [D -> Objects], mem : [Buffers -> Cells]]
  BY DEF Sound
<1>2. w = [obj |-> h.obj, mem |-> mem]
  BY <1>1 DEF Written
<1>3. set_len(w, s, n) = Put(h, s, v, n)
  <2> HIDE DEF mem, w
  <2>1. set_len(w, s, n) = [obj |-> [h.obj EXCEPT ![s].len = n], mem |-> mem]
    BY <1>2 DEF set_len
  <2> QED
    BY <2>1 DEF Put, mem
<1> QED
  BY <1>3, PutIs

(* What is collected is not to be seen.                                    *)
LEMMA CollectedIs ==
  ASSUME NEW obj, NEW mem, Sound([obj |-> obj, mem |-> mem], Names)
  PROVE  /\ Sound(Collected(obj, mem), Names)
         /\ \A s \in Names :
              /\ Value(Collected(obj, mem), s) = Value([obj |-> obj, mem |-> mem], s)
              /\ Collected(obj, mem).obj[s].frozen = obj[s].frozen
<1> DEFINE owner(s) == CHOOSE t \in Names : obj[t].buf = obj[s].buf
           owners == {owner(s) : s \in Names}
           h == [obj |-> obj, mem |-> mem]
           g == [obj |-> [s \in Names |-> [obj[s] EXCEPT !.buf = owner(s)]],
                 mem |-> [b \in Buffers |-> IF b \in owners THEN mem[obj[b].buf]
                                                           ELSE Free]]
<1>1. g = Collected(obj, mem)
  BY DEF Collected
<1>2. /\ obj \in [Names -> Objects] /\ mem \in [Buffers -> Cells]
      /\ \A s \in Names : Fits(obj[s], mem[obj[s].buf])
      /\ \A s \in Names, t \in Names : s # t /\ obj[s].buf = obj[t].buf => obj[s].shared
  <2>1. h.obj = obj /\ h.mem = mem
    OBVIOUS
  <2> HIDE DEF h
  <2> QED
    BY <2>1 DEF Sound, h
<1>3. \A s \in Names : /\ owner(s) \in Names /\ obj[owner(s)].buf = obj[s].buf
                       /\ owner(s) \in owners /\ owner(s) \in Buffers
  BY DEF Buffers
<1>4. \A s \in Names : obj[s] \in Objects /\ obj[s].buf \in Buffers
  BY <1>2 DEF Objects
<1>5. Free \in Cells
  BY DEF Free, Cells, Nothing, Text, Contents
<1>6. /\ \A s \in Names : /\ g.obj[s].buf = owner(s) /\ g.obj[s].len = obj[s].len
                          /\ g.obj[s].frozen = obj[s].frozen
                          /\ g.obj[s].shared = obj[s].shared
                          /\ g.obj[s] \in Objects
      /\ DOMAIN g.obj = Names
  <2> HIDE DEF owner
  <2> QED
    BY <1>3, <1>4 DEF Objects
<1>7. \A s \in Names : g.mem[g.obj[s].buf] = mem[obj[s].buf]
  <2> HIDE DEF owner, owners
  <2> QED
    BY <1>3, <1>6
<1>8. g.mem \in [Buffers -> Cells]
  <2>1. \A b \in owners : b \in Names
    BY <1>3
  <2> HIDE DEF owners
  <2> QED
    BY <1>2, <1>4, <1>5, <2>1
<1>9. g.obj \in [Names -> Objects] /\ g \in [obj : [Names -> Objects], mem : [Buffers -> Cells]]
  <2> DEFINE f == g.obj
  <2>1. f = [s \in Names |-> [obj[s] EXCEPT !.buf = owner(s)]]
    OBVIOUS
  <2>2. \A s \in Names : f[s] \in Objects
    BY <1>6
  <2>3. f \in [Names -> Objects]
    <3> HIDE DEF owner
    <3>1. f = [s \in Names |-> f[s]]
      BY <2>1
    <3> HIDE DEF f
    <3> QED
      BY <2>2, <3>1
  <2> QED
    BY <1>8, <2>3
<1> HIDE DEF g
<1>10. Sound(g, Names)
  <2>1. \A s \in Names : Fits(g.obj[s], g.mem[g.obj[s].buf])
    BY <1>2, <1>6, <1>7 DEF Fits
  <2>2. ASSUME NEW s \in Names, NEW t \in Names, s # t, g.obj[s].buf = g.obj[t].buf
        PROVE  g.obj[s].shared
    <3>1. owner(s) = owner(t)
      BY <1>6, <2>2
    <3> HIDE DEF owner
    <3>2. obj[s].buf = obj[t].buf
      BY <1>3, <3>1
    <3> QED
      BY <1>2, <1>6, <2>2, <3>2
  <2> QED
    BY <1>9, <2>1, <2>2 DEF Sound
<1>11. \A s \in Names : Value(g, s) = Value(h, s)
  BY <1>6, <1>7 DEF Value
<1> QED
  BY <1>1, <1>6, <1>10, <1>11

(* The strings the program has after a call: each was one of the call's, by *)
(* a name of its own.                                                      *)
LEMMA KeptIs ==
  ASSUME NEW h, NEW D, Sound(h, D), NEW e \in [Names -> D],
         \A s \in Names, t \in Names : s # t => e[s] # e[t]
  PROVE  LET g == Collected([s \in Names |-> h.obj[e[s]]], h.mem)
         IN  /\ Sound(g, Names)
             /\ \A s \in Names : Value(g, s) = Value(h, e[s])
<1> DEFINE obj == [s \in Names |-> h.obj[e[s]]]
           k == [obj |-> obj, mem |-> h.mem]
<1>1. /\ h.obj \in [D -> Objects] /\ h.mem \in [Buffers -> Cells]
      /\ \A s \in D : Fits(h.obj[s], h.mem[h.obj[s].buf])
      /\ \A s \in D, t \in D : s # t /\ h.obj[s].buf = h.obj[t].buf => h.obj[s].shared
  BY DEF Sound
<1>2. obj \in [Names -> Objects] /\ \A s \in Names : obj[s] = h.obj[e[s]] /\ e[s] \in D
  BY <1>1
<1> HIDE DEF obj
<1>3. Sound(k, Names)
  BY <1>1, <1>2 DEF Sound
<1>4. \A s \in Names : Value(k, s) = Value(h, e[s])
  BY <1>2 DEF Value
<1> QED
  BY <1>3, <1>4, CollectedIs DEF obj

-----------------------------------------------------------------------------
(* The arguments.                                                          *)
Values == {Nil, Other} \cup {Num(n) : n \in 0..(2 * LongMax)}
                       \cup {Str(s) : s \in Names}

\* The strings a call is about, and the size it was given or is to work out.
Called(a) == /\ a.src \in Names /\ a.dest \in Buffers
             /\ a.max \in Nat \cup {Calc}

LEMMA ValuesAre ==
  ASSUME NEW x \in Values
  PROVE  /\ x.kind = "string" => x.val \in Names
         /\ x.kind = "number" => x.val \in Nat
<1>1. LongMax \in Nat
  BY FunctionsAssumption
<1>2. CASE x \in {Nil, Other}
  BY <1>2 DEF Nil, Other
<1>3. CASE x \in {Num(n) : n \in 0..(2 * LongMax)}
  BY <1>1, <1>3 DEF Num
<1>4. CASE x \in {Str(s) : s \in Names}
  BY <1>4 DEF Str
<1> QED
  BY <1>2, <1>3, <1>4 DEF Values

LEMMA ArgumentsAre ==
  ASSUME NEW argv \in Seq(Values), blockprocess_args(argv) # Wrong
  PROVE  Called(blockprocess_args(argv))
<1> DEFINE kinds == [i \in DOMAIN argv |-> argv[i].kind]
           n == Len(argv)
           a == blockprocess_args(argv)
<1>1. /\ kinds \in {<<"string">>, <<"string", "string">>, <<"string", "number">>,
                    <<"string", "number", "string">>}
      /\ a.src = argv[1].val
      /\ a.dest = IF n > 1 /\ kinds[n] = "string" THEN argv[n].val ELSE New
      /\ a.max = IF n > 1 /\ kinds[2] = "number" THEN argv[2].val ELSE Calc
  BY DEF blockprocess_args
<1>2. /\ DOMAIN argv = 1..n /\ n \in Nat /\ DOMAIN kinds = 1..n
      /\ \A i \in 1..n : argv[i] \in Values /\ kinds[i] = argv[i].kind
  BY SeqDef
<1>3. n >= 1 /\ kinds[1] = "string"
  <2> HIDE DEF kinds, n
  <2>1. 1 \in DOMAIN kinds /\ kinds[1] = "string"
    BY <1>1
  <2> QED
    BY <1>2, <2>1
<1> HIDE DEF kinds, n, a
<1>4. \A i \in 1..n : /\ kinds[i] = "string" => argv[i].val \in Names
                      /\ kinds[i] = "number" => argv[i].val \in Nat
  BY <1>2, ValuesAre
<1>5. a.src \in Names
  BY <1>1, <1>2, <1>3, <1>4
<1>6. a.dest \in Buffers
  BY <1>1, <1>2, <1>3, <1>4 DEF Buffers
<1>7. a.max \in Nat \cup {Calc}
  BY <1>1, <1>2, <1>3, <1>4
<1> QED
  BY <1>5, <1>6, <1>7 DEF Called, a

LEMMA ListsAre ==
  ASSUME NEW argv \in Arguments
  PROVE  argv \in Seq(Values) /\ Unlevelled(argv) \in Seq(Values)
<1>1. argv \in Seq(Values)
  BY FunctionsAssumption DEF Values
<1>2. CASE Len(argv) > 1
  <2>1. argv # <<>>
    BY <1>1, <1>2
  <2>2. Tail(argv) \in Seq(Values)
    BY <1>1, <2>1
  <2> QED
    BY <1>1, <2>2 DEF Unlevelled
<1> QED
  BY <1>1, <1>2 DEF Unlevelled

-----------------------------------------------------------------------------
(* The end of a call.                                                      *)

\* The strings the program had before are not touched but for those named.
Kept(h, g, names) == \A s \in Names \ names : Value(g, s) = Value(h, s)

LEMMA RaisesIs ==
  ASSUME NEW h, NEW D, Sound(h, D), \A s \in Names : s \in D, Raises(h)
  PROVE  Sound(heap', Names) /\ \A s \in Names : Value(heap', s) = Value(h, s)
<1> DEFINE e == [s \in Names |-> s]
<1>1. e \in [Names -> D] /\ \A s \in Names : e[s] = s
  OBVIOUS
<1>2. [s \in Names |-> h.obj[s]] = [s \in Names |-> h.obj[e[s]]]
  OBVIOUS
<1> HIDE DEF e
<1>3. LET g == Collected([s \in Names |-> h.obj[e[s]]], h.mem)
      IN  Sound(g, Names) /\ \A s \in Names : Value(g, s) = Value(h, e[s])
  BY <1>1, KeptIs
<1>4. heap' = Collected([s \in Names |-> h.obj[e[s]]], h.mem)
  BY <1>2 DEF Raises
<1> QED
  BY <1>1, <1>3, <1>4

LEMMA ReturnsIs ==
  ASSUME NEW h, NEW dest \in Buffers, Sound(h, With(dest)), NEW r \in Names,
         dest \in {New, r}, Returns(h, r)
  PROVE  /\ Sound(heap', Names) /\ Value(heap', r) = Value(h, dest)
         /\ \A s \in Names \ {r} : Value(heap', s) = Value(h, s)
<1> DEFINE e == [s \in Names |-> IF s = r THEN dest ELSE s]
<1>1. /\ e \in [Names -> With(dest)] /\ e[r] = dest
      /\ \A s \in Names \ {r} : e[s] = s
      /\ \A s \in Names, t \in Names : s # t => e[s] # e[t]
  BY FunctionsAssumption, WithIs
<1>2. DOMAIN h.obj = With(dest)
  BY DEF Sound
<1>3. [s \in Names |-> IF s = r /\ New \in DOMAIN h.obj THEN h.obj[New] ELSE h.obj[s]]
        = [s \in Names |-> h.obj[e[s]]]
  BY <1>2, FunctionsAssumption DEF With, Buffers
<1> HIDE DEF e
<1>4. LET g == Collected([s \in Names |-> h.obj[e[s]]], h.mem)
      IN  Sound(g, Names) /\ \A s \in Names : Value(g, s) = Value(h, e[s])
  BY <1>1, KeptIs
<1>5. heap' = Collected([s \in Names |-> h.obj[e[s]]], h.mem)
  BY <1>3 DEF Returns
<1> QED
  BY <1>1, <1>4, <1>5

\* The call about a has ended with call' and has returned the name to.
Ended(fn, a, why, to) ==
  call' = [fn |-> fn, src |-> a.src, dest |-> a.dest, calc |-> a.max = Calc,
           why |-> why, to |-> to, fits |-> TRUE]

\* The results of LZ4 are whole and fit the room it was told of.
FitRoom(results, room) ==
  \A v \in results : v # Failed => v \in Contents /\ v.len <= room

\* One of the results is in the string of the name r, or LZ4 has failed and
\* nothing is to be seen of it.
Coded(fn, a, results, r) ==
  \/ /\ Failed \in results /\ Ended(fn, a, "lz4", New)
     /\ Kept(heap, heap', {a.dest})
     /\ a.dest # New => Value(heap', a.dest) = Nothing
  \/ \E v \in results :
       /\ v # Failed /\ Ended(fn, a, "returned", r)
       /\ Kept(heap, heap', {r})
       /\ Value(heap', r) = IF v.len = 0 THEN Nothing ELSE v

LEMMA CodeIs ==
  ASSUME NEW fn, NEW a, Called(a), NEW g, NEW room \in Nat,
         Clear(heap, g, a.dest, room), NEW results, NEW r \in Names,
         FitRoom(results, room),
         a.dest \in {New, r}, Code(fn, a, g, room, results, r)
  PROVE  Sound(heap', Names) /\ Coded(fn, a, results, r)
<1> DEFINE D == With(a.dest)
           cap == g.mem[g.obj[a.dest].buf].cap
<1>1. /\ Sound(g, D) /\ ~g.obj[a.dest].shared /\ g.obj[a.dest].len = 0
      /\ cap >= room /\ a.dest \in Buffers
      /\ \A t \in Names : t # a.dest => Value(g, t) = Value(heap, t)
  BY DEF Clear, Called
<1>2. a.dest \in D /\ \A t \in Names : t \in D
  BY <1>1, WithIs
<1>3. cap \in Nat
  BY <1>1, <1>2, Shows DEF Cells
<1>4. PICK v \in results :
        IF v = Failed
          THEN Raises(Written(g, a.dest, Junk(0))) /\ Ended(fn, a, "lz4", New)
          ELSE Returns(Filled(g, a.dest, v, room), r) /\ Ended(fn, a, "returned", r)
  BY <1>1 DEF Code, Ends, Ended
<1> HIDE DEF D, cap
<1>5. CASE v = Failed
  <2> DEFINE w == Written(g, a.dest, Junk(0))
  <2>1. Junk(0) \in Contents
    BY DEF Junk, Contents
  <2>2. w = set_len(w, a.dest, 0)
    <3>1. g \in [obj : [D -> Objects], mem : [Buffers -> Cells]]
      BY <1>1 DEF Sound
    <3>2. w.obj = g.obj /\ w = [obj |-> w.obj, mem |-> w.mem]
      BY <3>1 DEF Written
    <3>3. [w.obj EXCEPT ![a.dest].len = 0] = g.obj
      <4>1. g.obj[a.dest] \in Objects /\ g.obj[a.dest].len = 0
        BY <1>1, <1>2, <3>1
      <4>2. [g.obj[a.dest] EXCEPT !.len = 0] = g.obj[a.dest]
        BY <4>1 DEF Objects
      <4> QED
        BY <3>1, <3>2, <4>2
    <3> HIDE DEF w
    <3> QED
      BY <3>2, <3>3 DEF set_len
  <2> HIDE DEF w
  <2>3. /\ Sound(w, D) /\ Value(w, a.dest) = Nothing
        /\ \A t \in D : t # a.dest => Value(w, t) = Value(g, t)
    <3>1. LET k == set_len(w, a.dest, 0)
          IN  /\ Sound(k, D) /\ Value(k, a.dest) = Nothing
              /\ \A t \in D : t # a.dest => Value(k, t) = Value(g, t)
      BY <1>1, <1>2, <2>1, WriteIs DEF w
    <3> QED
      BY <2>2, <3>1
  <2>4. Raises(w) /\ Ended(fn, a, "lz4", New)
    BY <1>4, <1>5 DEF w
  <2>5. Sound(heap', Names) /\ \A s \in Names : Value(heap', s) = Value(w, s)
    BY <1>2, <2>3, <2>4, RaisesIs
  <2>6. a.dest # New => a.dest \in Names
    BY <1>1 DEF Buffers
  <2> QED
    BY <1>1, <1>2, <1>4, <1>5, <2>3, <2>4, <2>5, <2>6 DEF Kept, Coded
<1>6. CASE v # Failed
  <2> DEFINE w == Filled(g, a.dest, v, room)
  <2>1. v \in Contents /\ v.len <= room
    BY <1>6 DEF FitRoom
  <2>2. v.len \in Nat
    BY <2>1 DEF Contents
  <2>3. v.len <= cap
    BY <1>1, <1>3, <2>1, <2>2
  <2>4. /\ Sound(w, D) /\ Value(w, a.dest) = IF v.len = 0 THEN Nothing ELSE v
        /\ \A t \in D : t # a.dest => Value(w, t) = Value(g, t)
    BY <1>1, <1>2, <2>1, <2>2, <2>3, WriteIs DEF Filled, cap
  <2> HIDE DEF w
  <2>5. Returns(w, r) /\ Ended(fn, a, "returned", r)
    BY <1>4, <1>6 DEF w
  <2>6. /\ Sound(heap', Names) /\ Value(heap', r) = Value(w, a.dest)
        /\ \A s \in Names \ {r} : Value(heap', s) = Value(w, s)
    BY <1>1, <2>4, <2>5, ReturnsIs DEF D
  <2>7. \A s \in Names \ {r} : s # a.dest
    BY FunctionsAssumption
  <2> QED
    BY <1>1, <1>2, <1>4, <1>6, <2>4, <2>5, <2>6, <2>7 DEF Kept, Coded
<1> QED
  BY <1>5, <1>6

-----------------------------------------------------------------------------
(* The functions.                                                          *)
CallTyped ==
  /\ call.fn \in {"none", "encode", "decode"} /\ call.fits \in BOOLEAN
  /\ {call.src, call.dest, call.to} \subseteq Names \cup {New}
  /\ call.why \in {"none", "refused", "oversize", "range", "lz4", "returned"}

\* What OthersKept and ResultOrNothing say of a step.
Others ==
  /\ \A s \in Names \ {call'.dest, call'.to} : Value(heap', s) = Value(heap, s)
  /\ Frozen(call'.dest) => UNCHANGED heap

Result ==
  call'.src # call'.dest =>
    LET u == Value(heap, call'.src)
        v == Value(heap', call'.to)
    IN  IF call'.why # "returned"
          THEN call'.dest # New =>
                 Value(heap', call'.dest) \in {Value(heap, call'.dest), Nothing}
        ELSE IF call'.fn = "encode" THEN v.kind = "block" /\ v.of = u
                                    ELSE u.kind = "block" /\ v = u.of

\* What holds between the calls, and what a call does.
Inv == Sound(heap, Names) /\ CallTyped /\ RoomIsThere /\ CalcSuffices

Answered == Inv' /\ Others /\ Result

(* A call that raises has left the strings alone or emptied dest.          *)
LEMMA RaisedIs ==
  ASSUME NEW fn \in {"encode", "decode"}, NEW a, a = Wrong \/ Called(a),
         NEW why \in {"refused", "oversize", "range", "lz4"}, Ended(fn, a, why, New),
         why = "lz4" => a.max # Calc \/ a.src = a.dest,
         Sound(heap', Names), Frozen(a.dest) => UNCHANGED heap,
         Kept(heap, heap', {a.dest}),
         a.dest # New => Value(heap', a.dest) \in {Value(heap, a.dest), Nothing}
  PROVE  Answered
<1>1. a.src \in Buffers /\ a.dest \in Buffers
  BY DEF Called, Wrong, Buffers
<1>2. /\ call'.fn = fn /\ call'.src = a.src /\ call'.dest = a.dest
      /\ call'.calc = (a.max = Calc) /\ call'.why = why /\ call'.to = New
      /\ call'.fits = TRUE
  BY DEF Ended
<1>3. CallTyped' /\ RoomIsThere'
  BY <1>1, <1>2 DEF CallTyped, RoomIsThere, Buffers
<1>4. CalcSuffices'
  BY <1>2 DEF CalcSuffices
<1>5. Others
  BY <1>2 DEF Others, Kept
<1>6. Result
  BY <1>2 DEF Result
<1> QED
  BY <1>3, <1>4, <1>5, <1>6 DEF Answered, Inv

LEMMA RefusedIs ==
  ASSUME Sound(heap, Names), NEW fn \in {"encode", "decode"}, NEW a,
         a = Wrong \/ Called(a), NEW room, Refused(fn, a, room)
  PROVE  Answered
<1>1. UNCHANGED heap /\ Ended(fn, a, "refused", New)
  BY DEF Refused, Ends, Ended
<1>2. Sound(heap', Names) /\ Kept(heap, heap', {a.dest})
  BY <1>1 DEF Kept
<1>3. Value(heap', a.dest) = Value(heap, a.dest)
  BY <1>1
<1> QED
  BY <1>1, <1>2, <1>3, RaisedIs

(* A call that returns has changed the string r only.                      *)
LEMMA ReturnedIs ==
  ASSUME NEW fn \in {"encode", "decode"}, NEW a, Called(a), NEW r \in Names,
         Ended(fn, a, "returned", r), Sound(heap', Names), ~Frozen(a.dest),
         Kept(heap, heap', {r}),
         a.src # a.dest =>
           LET u == Value(heap, a.src)
               v == Value(heap', r)
           IN  IF fn = "encode" THEN v.kind = "block" /\ v.of = u
                                ELSE u.kind = "block" /\ v = u.of
  PROVE  Answered
<1>1. a.src \in Buffers /\ a.dest \in Buffers /\ r \in Buffers
  BY DEF Called, Buffers
<1>2. /\ call'.fn = fn /\ call'.src = a.src /\ call'.dest = a.dest
      /\ call'.why = "returned" /\ call'.to = r /\ call'.fits = TRUE
  BY DEF Ended
<1>3. CallTyped' /\ RoomIsThere'
  BY <1>1, <1>2 DEF CallTyped, RoomIsThere, Buffers
<1>4. CalcSuffices'
  BY <1>2 DEF CalcSuffices
<1>5. Others
  BY <1>2 DEF Others, Kept
<1>6. Result
  BY <1>2 DEF Result
<1> QED
  BY <1>3, <1>4, <1>5, <1>6 DEF Answered, Inv

LEMMA EncodeIs ==
  ASSUME Sound(heap, Names), NEW argv \in Arguments, NEW r \in Names,
         Encodes(argv, r), blkenc_s_encode(argv, r)
  PROVE  Answered
<1> DEFINE a == blockprocess_args(Unlevelled(argv))
           n == heap.obj[a.src].len
           room == IF a.max = Calc THEN aux_lz4_compressbound(n) ELSE a.max
           h == Reserve(heap, a.dest, room)
           u == Value(heap, a.src)
           results == Compressed(u, room, a.src = a.dest)
<1>1. a = Wrong \/ Called(a)
  BY ListsAre, ArgumentsAre
<1>2. a # Wrong => u.kind = "text" /\ a.dest \in {New, r}
  BY DEF Encodes
<1>3. \/ Refused("encode", a, room)
      \/ /\ Accepted(a, room)
         /\ \/ n > MaxInput /\ Raises(h) /\ Ends("encode", a, "oversize", New, TRUE)
            \/ Raises(Emptied(h, a.dest)) /\ Ends("encode", a, "range", New, TRUE)
            \/ /\ n <= MaxInput
               /\ Code("encode", a, Emptied(h, a.dest), room, results, r)
  BY DEF blkenc_s_encode, Reserve
<1>4. CASE Refused("encode", a, room)
  BY <1>1, <1>4, RefusedIs
<1> HIDE DEF a
<1>5. ASSUME Accepted(a, room)
      PROVE  /\ Called(a) /\ ~Frozen(a.dest) /\ room \in Nat
             /\ u \in Shown /\ u.len = n /\ n \in Nat
             /\ n <= MaxInput /\ a.max = Calc => room = n + 1
  <2>1. Called(a) /\ ~Frozen(a.dest) /\ a # Wrong
    BY <1>1, <1>5 DEF Accepted
  <2>2. u \in Shown /\ u.len = n /\ n \in Nat
    BY <1>2, <2>1, Shows DEF Called, Objects
  <2>3. MaxInput \in Nat /\ IntMax \in Nat /\ LongMax \in Nat /\ MaxInput < IntMax
    BY FunctionsAssumption
  <2> HIDE DEF n, u
  <2>4. aux_lz4_compressbound(n) \in Nat
    BY <2>2, <2>3 DEF aux_lz4_compressbound, LZ4_compressBound
  <2>5. n <= MaxInput => aux_lz4_compressbound(n) = n + 1
    BY <2>2, <2>3 DEF aux_lz4_compressbound, LZ4_compressBound
  <2>6. a.max \in Nat \cup {Calc}
    BY <2>1 DEF Called
  <2> QED
    BY <2>1, <2>2, <2>4, <2>5, <2>6
<1> HIDE DEF n, room, u
<1>6. ASSUME Accepted(a, room)
      PROVE  /\ Ready(heap, h, With(a.dest), a.dest, room)
             /\ Clear(heap, Emptied(h, a.dest), a.dest, room)
             /\ \A s \in Names : s \in With(a.dest)
             /\ a.dest # New => a.dest \in Names
             /\ "encode" \in {"encode", "decode"}
  BY <1>5, <1>6, ReserveIsReady, EmptiedIs, WithIs DEF Called, Buffers
<1> HIDE DEF h
<1>7. CASE Accepted(a, room) /\ Raises(h) /\ Ends("encode", a, "oversize", New, TRUE)
  <2>1. Sound(heap', Names) /\ \A s \in Names : Value(heap', s) = Value(heap, s)
    BY <1>6, <1>7, RaisesIs DEF Ready
  <2>2. Ended("encode", a, "oversize", New)
    BY <1>7 DEF Ends, Ended
  <2> QED
    BY <1>5, <1>6, <1>7, <2>1, <2>2, RaisedIs DEF Kept
<1>8. CASE Accepted(a, room) /\ Raises(Emptied(h, a.dest))
             /\ Ends("encode", a, "range", New, TRUE)
  <2>1. /\ Sound(heap', Names)
        /\ \A s \in Names : Value(heap', s) = Value(Emptied(h, a.dest), s)
    BY <1>6, <1>8, RaisesIs DEF Clear
  <2>2. Kept(heap, heap', {a.dest}) /\ (a.dest # New => Value(heap', a.dest) = Nothing)
    BY <1>6, <1>8, <2>1 DEF Clear, Kept
  <2>3. Ended("encode", a, "range", New)
    BY <1>8 DEF Ends, Ended
  <2> QED
    BY <1>5, <1>8, <2>1, <2>2, <2>3, RaisedIs
<1>9. CASE /\ Accepted(a, room) /\ n <= MaxInput
           /\ Code("encode", a, Emptied(h, a.dest), room, results, r)
  <2>1. \A v \in results :
          v # Failed => /\ v \in Contents /\ v.len \in 1..room
                        /\ a.src # a.dest => v.kind = "block" /\ v.of = u
    <3>1. ASSUME NEW v \in results, v # Failed
          PROVE  /\ v \in Contents /\ v.len \in 1..room
                 /\ a.src # a.dest => v.kind = "block" /\ v.of = u
      <4>1. CASE a.src = a.dest
        BY <1>5, <1>9, <3>1, <4>1 DEF Compressed, Junk, Contents
      <4>2. CASE a.src # a.dest
        <5>1. \E k \in 1..(u.len + 1) : k <= room /\ v = Block(u, k)
          BY <3>1, <4>2 DEF Compressed
        <5> QED
          BY <1>5, <1>9, <4>2, <5>1 DEF Block, Contents
      <4> QED
        BY <4>1, <4>2
    <3> QED
      BY <3>1
  <2>2. Failed \in results => a.max # Calc \/ a.src = a.dest
    <3>1. SUFFICES ASSUME Failed \in results, a.max = Calc, a.src # a.dest
                   PROVE  FALSE
      OBVIOUS
    <3>2. room = u.len + 1 /\ room \in Nat
      BY <1>5, <1>9, <3>1
    <3>3. \E k \in 1..room : Failed = Block(u, k)
      BY <3>1, <3>2 DEF Compressed
    <3> QED
      BY <3>3 DEF Failed, Block
  <2> HIDE DEF results
  <2>3. \A v \in results : v # Failed => v \in Contents /\ v.len <= room /\ v.len # 0
    BY <1>5, <1>9, <2>1
  <2>4. a.dest \in {New, r}
    BY <1>2, <1>9 DEF Accepted
  <2>5. Sound(heap', Names) /\ Coded("encode", a, results, r)
    <3> DEFINE g == Emptied(h, a.dest)
    <3>1. /\ Called(a) /\ room \in Nat /\ Clear(heap, g, a.dest, room)
          /\ Code("encode", a, g, room, results, r)
      BY <1>5, <1>6, <1>9
    <3>2. FitRoom(results, room)
      BY <2>3 DEF FitRoom
    <3> HIDE DEF g
    <3> QED
      BY <2>4, <3>1, <3>2, CodeIs
  <2>6. CASE Failed \in results /\ Ended("encode", a, "lz4", New)
               /\ Kept(heap, heap', {a.dest})
               /\ (a.dest # New => Value(heap', a.dest) = Nothing)
    BY <1>5, <1>9, <2>2, <2>5, <2>6, RaisedIs
  <2>7. CASE \E v \in results :
               /\ v # Failed /\ Ended("encode", a, "returned", r)
               /\ Kept(heap, heap', {r})
               /\ Value(heap', r) = IF v.len = 0 THEN Nothing ELSE v
    <3>1. a.src # a.dest => Value(heap', r).kind = "block" /\ Value(heap', r).of = u
      BY <2>1, <2>3, <2>7
    <3> QED
      BY <1>5, <1>9, <2>5, <2>7, <3>1, ReturnedIs DEF u
  <2> QED
    BY <2>5, <2>6, <2>7 DEF Coded
<1> QED
  BY <1>3, <1>4, <1>7, <1>8, <1>9

LEMMA DecodeIs ==
  ASSUME Sound(heap, Names), NEW argv \in Arguments, NEW r \in Names,
         Decodes(argv, r), blkdec_s_decode(argv, r)
  PROVE  Answered
<1> DEFINE a == blockprocess_args(argv)
           u == Value(heap, a.src)
           room == IF a.max = Calc THEN scansize(u) ELSE a.max
           h == Reserve(heap, a.dest, room)
           g == Emptied(h, a.dest)
           n == g.obj[a.src].len
           results == {Decompressed(Value(g, a.src), n, room)}
<1>1. a = Wrong \/ Called(a)
  BY ListsAre, ArgumentsAre
<1>2. a # Wrong => a.dest \in {New, r}
  BY DEF Decodes
<1>3. \/ Refused("decode", a, room)
      \/ /\ Accepted(a, room)
         /\ \/ Raises(g) /\ Ends("decode", a, "range", New, TRUE)
            \/ Code("decode", a, g, room, results, r)
  BY DEF blkdec_s_decode, Reserve
<1>4. CASE Refused("decode", a, room)
  BY <1>1, <1>4, RefusedIs
<1> HIDE DEF a
<1>5. ASSUME Accepted(a, room)
      PROVE  /\ Called(a) /\ ~Frozen(a.dest) /\ room \in Nat
             /\ u \in Contents /\ u.len = heap.obj[a.src].len
             /\ u.kind = "block" => u.of \in Shown /\ u.of.len \in Nat
             /\ a.max = Calc => u.kind = "block" /\ room = u.of.len
  <2>1. Called(a) /\ ~Frozen(a.dest) /\ a # Wrong
    BY <1>1, <1>5 DEF Accepted
  <2>2. u \in Contents /\ u.len = heap.obj[a.src].len
    BY <2>1, Shows DEF Called
  <2>3. /\ MaxInput \in Nat /\ IntMax \in Nat /\ LongMax \in Nat
        /\ MaxInput < IntMax /\ IntMax < LongMax
    BY FunctionsAssumption
  <2> HIDE DEF u
  <2>4. u.kind = "block" => u.of \in Shown
    BY <2>2 DEF Contents
  <2>5. u.kind = "block" => u.of.len \in Nat
    BY <2>4 DEF Shown
  <2>6. room <= LongMax /\ a.max \in Nat \cup {Calc}
    BY <1>5, <2>1 DEF Accepted, Called
  <2>7. a.max = Calc => u.kind = "block" /\ room = u.of.len
    BY <2>3, <2>6 DEF scansize
  <2>8. room \in Nat
    BY <2>5, <2>6, <2>7
  <2> QED
    BY <2>1, <2>2, <2>4, <2>5, <2>7, <2>8
<1> HIDE DEF room, u
<1>6. ASSUME Accepted(a, room)
      PROVE  /\ Clear(heap, g, a.dest, room)
             /\ \A s \in Names : s \in With(a.dest)
             /\ a.dest # New => a.dest \in Names
  BY <1>5, <1>6, ReserveIsReady, EmptiedIs, WithIs DEF Called, Buffers
<1>7. "decode" \in {"encode", "decode"}
  OBVIOUS
<1> HIDE DEF h, g
<1>8. CASE Accepted(a, room) /\ Raises(g) /\ Ends("decode", a, "range", New, TRUE)
  <2>1. Sound(heap', Names) /\ \A s \in Names : Value(heap', s) = Value(g, s)
    BY <1>6, <1>8, RaisesIs DEF Clear
  <2>2. Kept(heap, heap', {a.dest}) /\ (a.dest # New => Value(heap', a.dest) = Nothing)
    BY <1>6, <1>8, <2>1 DEF Clear, Kept
  <2>3. Ended("decode", a, "range", New)
    BY <1>8 DEF Ends, Ended
  <2> QED
    BY <1>5, <1>7, <1>8, <2>1, <2>2, <2>3, RaisedIs
<1>9. CASE Accepted(a, room) /\ Code("decode", a, g, room, results, r)
  <2> DEFINE w == Value(g, a.src)
  <2>1. Called(a) /\ room \in Nat /\ Clear(heap, g, a.dest, room)
    BY <1>5, <1>6, <1>9
  <2>2. a.src # a.dest => w = u /\ n = u.len
    BY <1>5, <1>9, <2>1 DEF Clear, Called, u
  <2>3. a.src = a.dest => w = Nothing
    BY <2>1 DEF Clear
  <2>4. \A v \in results :
          v = Failed \/ /\ w.kind = "block" /\ n = w.len /\ w.of.len <= room
                        /\ v = w.of
    BY DEF Decompressed
  <2>5. w.kind # "block" => results = {Failed}
    BY DEF Decompressed
  <2>6. w.kind = "block" /\ n = w.len /\ w.of.len <= room => results = {w.of}
    BY DEF Decompressed
  <2> HIDE DEF results, w, n
  <2>7. \A v \in results :
          v # Failed => a.src # a.dest /\ u.kind = "block" /\ v = u.of /\ v.len <= room
    BY <2>2, <2>3, <2>4 DEF Nothing, Text
  <2>8. FitRoom(results, room)
    BY <1>5, <1>9, <2>7 DEF FitRoom, Shown, Contents
  <2>9. Failed \in results => a.max # Calc \/ a.src = a.dest
    <3>1. SUFFICES ASSUME Failed \in results, a.max = Calc, a.src # a.dest
                   PROVE  FALSE
      OBVIOUS
    <3>2. u.kind = "block" /\ room = u.of.len /\ room \in Nat /\ u.of \in Shown
      BY <1>5, <1>9, <3>1
    <3>3. results = {u.of}
      BY <2>2, <2>6, <3>1, <3>2
    <3> QED
      BY <3>1, <3>2, <3>3 DEF Shown, Failed
  <2>10. a.dest \in {New, r}
    BY <1>2, <1>9 DEF Accepted
  <2>11. Sound(heap', Names) /\ Coded("decode", a, results, r)
    BY <1>9, <2>1, <2>8, <2>10, CodeIs
  <2>12. CASE Failed \in results /\ Ended("decode", a, "lz4", New)
                /\ Kept(heap, heap', {a.dest})
                /\ (a.dest # New => Value(heap', a.dest) = Nothing)
    BY <1>5, <1>7, <1>9, <2>9, <2>11, <2>12, RaisedIs
  <2>13. CASE \E v \in results :
                /\ v # Failed /\ Ended("decode", a, "returned", r)
                /\ Kept(heap, heap', {r})
                /\ Value(heap', r) = IF v.len = 0 THEN Nothing ELSE v
    <3>1. u.kind = "block" /\ Value(heap', r) = u.of
      BY <1>5, <1>9, <2>7, <2>13 DEF Shown
    <3> QED
      BY <1>5, <1>7, <1>9, <2>11, <2>13, <3>1, ReturnedIs DEF u
  <2> QED
    BY <2>11, <2>12, <2>13 DEF Coded
<1> QED
  BY <1>3, <1>4, <1>8, <1>9

-----------------------------------------------------------------------------
(* What the program does otherwise.                                        *)
LEMMA ProgramIs ==
  ASSUME Sound(heap, Names), Program
  PROVE  Sound(heap', Names)
<1>1. /\ heap.obj \in [Names -> Objects] /\ heap.mem \in [Buffers -> Cells]
      /\ heap = [obj |-> heap.obj, mem |-> heap.mem]
      /\ \A s \in Names : /\ Fits(heap.obj[s], heap.mem[heap.obj[s].buf])
                          /\ heap.obj[s] \in Objects
      /\ \A s \in Names, t \in Names :
           s # t /\ heap.obj[s].buf = heap.obj[t].buf => heap.obj[s].shared
  BY DEF Sound
<1>2. ASSUME NEW s \in Names, NEW t \in Texts, Assign(s, t)
      PROVE  Sound(heap', Names)
  <2> DEFINE b == Unused(heap)
             obj == [heap.obj EXCEPT ![s] = Object(b, t.len)]
             mem == [heap.mem EXCEPT ![b] = [cap |-> t.len, holds |-> t]]
  <2>1. b \in Buffers /\ \A u \in Names : heap.obj[u].buf # b
    BY UnusedIsFree
  <2> HIDE DEF b
  <2>2. t \in Contents /\ t.len \in Nat
    BY FunctionsAssumption DEF Contents
  <2>3. Object(b, t.len) \in Objects /\ [cap |-> t.len, holds |-> t] \in Cells
    BY <2>1, <2>2 DEF Object, Objects, Cells
  <2>4. /\ obj \in [Names -> Objects] /\ obj[s] = Object(b, t.len)
        /\ \A u \in Names : u # s => obj[u] = heap.obj[u]
    BY <1>1, <2>3
  <2>5. \A u \in Names : heap.obj[u].buf \in Buffers
    BY <1>1 DEF Objects
  <2>6. /\ mem \in [Buffers -> Cells] /\ mem[b] = [cap |-> t.len, holds |-> t]
        /\ \A u \in Names : mem[heap.obj[u].buf] = heap.mem[heap.obj[u].buf]
    BY <1>1, <2>1, <2>3, <2>5
  <2> HIDE DEF obj, mem
  <2>7. \A u \in Names : Fits(obj[u], mem[obj[u].buf])
    <3>1. Fits(obj[s], mem[obj[s].buf])
      BY <2>2, <2>4, <2>6 DEF Fits, Object
    <3> QED
      BY <1>1, <2>4, <2>6, <3>1
  <2>8. \A u \in Names, w \in Names : u # w /\ obj[u].buf = obj[w].buf => obj[u].shared
    <3>1. obj[s].buf = b
      BY <2>4 DEF Object
    <3> QED
      BY <1>1, <2>1, <2>4, <3>1
  <2>9. Sound([obj |-> obj, mem |-> mem], Names)
    BY <2>4, <2>6, <2>7, <2>8 DEF Sound
  <2> QED
    BY <1>2, <2>9, CollectedIs DEF Assign, obj, mem, b
<1>3. ASSUME NEW s \in Names, NEW d \in Names, Dup(s, d)
      PROVE  Sound(heap', Names)
  <2> DEFINE o == [heap.obj[s] EXCEPT !.shared = TRUE, !.frozen = FALSE]
             obj == [heap.obj EXCEPT ![s].shared = TRUE, ![d] = o]
  <2>1. s # d
    BY <1>3 DEF Dup
  <2>2. /\ o \in Objects /\ o.buf = heap.obj[s].buf
        /\ o.len = heap.obj[s].len /\ o.shared = TRUE
    BY <1>1 DEF Objects
  <2>3. [heap.obj[s] EXCEPT !.shared = TRUE] \in Objects
    BY <1>1 DEF Objects
  <2> HIDE DEF o
  <2>4. /\ obj \in [Names -> Objects] /\ obj[d] = o
        /\ obj[s] = [heap.obj[s] EXCEPT !.shared = TRUE]
        /\ \A u \in Names : u # s /\ u # d => obj[u] = heap.obj[u]
    BY <1>1, <2>1, <2>2, <2>3
  <2>5. /\ obj[s].buf = heap.obj[s].buf /\ obj[s].len = heap.obj[s].len
        /\ obj[s].shared = TRUE
    BY <1>1, <2>4 DEF Objects
  <2> HIDE DEF obj
  <2>6. \A u \in Names : Fits(obj[u], heap.mem[obj[u].buf])
    <3>1. Fits(obj[s], heap.mem[obj[s].buf]) /\ Fits(obj[d], heap.mem[obj[d].buf])
      BY <1>1, <2>2, <2>4, <2>5 DEF Fits
    <3> QED
      BY <1>1, <2>4, <3>1
  <2>7. ASSUME NEW u \in Names, NEW w \in Names, u # w, obj[u].buf = obj[w].buf
        PROVE  obj[u].shared
    <3>1. CASE u = s \/ u = d
      BY <2>2, <2>4, <2>5, <3>1
    <3>2. CASE u # s /\ u # d
      <4> DEFINE x == IF w = d THEN s ELSE w
      <4>1. x \in Names /\ x # u /\ heap.obj[x].buf = obj[w].buf
        BY <2>2, <2>4, <2>5, <2>7, <3>2
      <4> HIDE DEF x
      <4>2. obj[u] = heap.obj[u]
        BY <2>4, <3>2
      <4>3. heap.obj[u].buf = heap.obj[x].buf
        BY <2>7, <4>1, <4>2
      <4> QED
        BY <1>1, <4>1, <4>2, <4>3
    <3> QED
      BY <3>1, <3>2
  <2>8. Sound([obj |-> obj, mem |-> heap.mem], Names)
    BY <1>1, <2>4, <2>6, <2>7 DEF Sound
  <2> QED
    BY <1>3, <2>8, CollectedIs DEF Dup, obj, o
<1>4. ASSUME NEW s \in Names, Freeze(s)
      PROVE  Sound(heap', Names)
  <2> DEFINE obj == [heap.obj EXCEPT ![s].frozen = TRUE]
  <2>1. heap' = [obj |-> obj, mem |-> heap.mem]
    BY <1>1, <1>4 DEF Freeze
  <2>2. /\ obj \in [Names -> Objects]
        /\ \A u \in Names : /\ obj[u].buf = heap.obj[u].buf
                            /\ obj[u].len = heap.obj[u].len
                            /\ obj[u].shared = heap.obj[u].shared
    BY <1>1 DEF Objects
  <2> HIDE DEF obj
  <2>3. \A u \in Names : Fits(obj[u], heap.mem[obj[u].buf])
    BY <1>1, <2>2 DEF Fits
  <2>4. \A u \in Names, w \in Names : u # w /\ obj[u].buf = obj[w].buf => obj[u].shared
    BY <1>1, <2>2
  <2>5. Sound([obj |-> obj, mem |-> heap.mem], Names)
    BY <1>1, <2>2, <2>3, <2>4 DEF Sound
  <2> QED
    BY <2>1, <2>5
<1> QED
  BY <1>2, <1>3, <1>4 DEF Program

-----------------------------------------------------------------------------
(* The theorems.                                                           *)
LEMMA Starts == Init => Inv
<1> SUFFICES ASSUME Init PROVE Inv
  OBVIOUS
<1>1. Free \in Cells /\ Free.cap = 0 /\ Free.holds.len = 0
  BY DEF Free, Cells, Nothing, Text, Contents
<1>2. \A s \in Names : /\ Object(s, 0) \in Objects /\ Object(s, 0).buf = s
                       /\ Object(s, 0).len = 0
  BY DEF Object, Objects, Buffers
<1>3. /\ heap = [obj |-> heap.obj, mem |-> heap.mem]
      /\ heap.obj = [s \in Names |-> Object(s, 0)]
      /\ heap.mem = [b \in Buffers |-> Free]
  BY DEF Init
<1>4. Sound(heap, Names)
  <2>1. \A s \in Names : /\ heap.obj[s] = Object(s, 0)
                         /\ heap.mem[heap.obj[s].buf] = Free
    BY <1>2, <1>3 DEF Buffers
  <2>2. heap.obj \in [Names -> Objects] /\ heap.mem \in [Buffers -> Cells]
    BY <1>1, <1>2, <1>3
  <2> QED
    BY <1>1, <1>2, <1>3, <2>1, <2>2 DEF Sound, Fits
<1>5. CallTyped /\ RoomIsThere /\ CalcSuffices
  BY DEF Init, NoCall, CallTyped, RoomIsThere, CalcSuffices
<1> QED
  BY <1>4, <1>5 DEF Inv

\* A step is a call, or it is none and keeps the invariant.
LEMMA Steps ==
  ASSUME Inv, [Next]_vars
  PROVE  Inv' /\ (call' # NoCall => UNCHANGED vars \/ (Others /\ Result))
<1>1. CASE UNCHANGED vars
  <2>1. heap' = heap /\ call' = call
    BY <1>1 DEF vars
  <2>2. Sound(heap', Names)
    BY <2>1 DEF Inv
  <2>3. CallTyped'
    BY <2>1 DEF Inv, CallTyped
  <2>4. RoomIsThere'
    BY <2>1 DEF Inv, RoomIsThere
  <2>5. CalcSuffices'
    BY <2>1 DEF Inv, CalcSuffices
  <2>6. Inv'
    BY <2>2, <2>3, <2>4, <2>5 DEF Inv
  <2> QED
    BY <1>1, <2>6
<1>2. CASE Program
  BY <1>2, ProgramIs DEF Program, Inv, CallTyped, RoomIsThere, CalcSuffices
<1>3. CASE Continue
  BY <1>3 DEF Continue, NoCall, Inv, CallTyped, RoomIsThere, CalcSuffices
<1>4. CASE \E argv \in Arguments, r \in Names :
              \/ Encodes(argv, r) /\ blkenc_s_encode(argv, r)
              \/ Decodes(argv, r) /\ blkdec_s_decode(argv, r)
  <2>1. Answered
    BY <1>4, EncodeIs, DecodeIs DEF Inv
  <2> QED
    BY <2>1 DEF Answered
<1> QED
  BY <1>1, <1>2, <1>3, <1>4 DEF Next

LEMMA Always == Spec => []Inv
<1>1. Inv /\ [Next]_vars => Inv'
  BY Steps
<1> QED
  BY Starts, <1>1, PTL DEF Spec

\* Strings are as long as what they show, and fit their buffers.
THEOREM StringTypes == Spec => []TypeOK
<1>1. Inv => TypeOK
  <2> SUFFICES ASSUME Inv PROVE TypeOK
    OBVIOUS
  <2>1. \A s \in Names :
          /\ heap.obj[s] \in Objects /\ Value(heap, s).len = heap.obj[s].len
          /\ heap.obj[s].len <= Cap(heap, s)
    BY Shows DEF Inv
  <2>2. \A s \in Names :
          /\ heap.obj[s].buf \in Buffers
          /\ heap.obj[s].frozen \in BOOLEAN /\ heap.obj[s].shared \in BOOLEAN
    BY <2>1 DEF Objects
  <2>3. CallTyped
    BY DEF Inv
  <2> QED
    BY <2>1, <2>2, <2>3 DEF TypeOK, CallTyped
<1> QED
  BY Always, <1>1, PTL

\* LZ4 is told of no more room than there is, whatever dest was before: the
\* buffer that aux_str_reserve (extlz4.h:38) leaves is dest's own and as large.
THEOREM NothingOverrun == Spec => []RoomIsThere
<1>1. Inv => RoomIsThere
  BY DEF Inv
<1> QED
  BY Always, <1>1, PTL

\* LZ4 never lacks room when the functions have worked it out themselves.
THEOREM RoomSuffices == Spec => []CalcSuffices
<1>1. Inv => CalcSuffices
  BY DEF Inv
<1> QED
  BY Always, <1>1, PTL

\* A call changes no string but its dest, and no frozen one.
THEOREM OnlyDestChanges == Spec => OthersKept
<1>1. Inv /\ [Next]_vars =>
        [call' # NoCall =>
           /\ \A s \in Names \ {call'.dest, call'.to} : Value(heap', s) = Value(heap, s)
           /\ Frozen(call'.dest) => UNCHANGED heap]_vars
  BY Steps DEF Others
<1> QED
  BY Always, <1>1, PTL DEF Spec, OthersKept

\* A call leaves the whole result, or dest as it was or empty.
THEOREM NoJunkIsSeen == Spec => ResultOrNothing
<1>1. Inv /\ [Next]_vars => [call' # NoCall => Result]_vars
  BY Steps
<1> QED
  BY Always, <1>1, PTL DEF Spec, ResultOrNothing, Result
=============================================================================
