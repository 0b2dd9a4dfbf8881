------------------------ MODULE FileOperationProofs ------------------------
(* The program loses nothing, for all files, command lines and faults, and *)
(* however often it is started.                                            *)
EXTENDS FileOperation, SequenceTheorems, TLAPS

-----------------------------------------------------------------------------
(* Units and frames.                                                       *)

LEMMA UnitTypes ==
  /\ Head0 \in Units /\ End \in Units
  /\ Head0.unit = "head" /\ Head0.depth = 0 /\ End.unit = "end" /\ End.depth = 0
BY DEF Head0, End, Unit, Units, Marks

LEMMA UnitFields ==
  ASSUME NEW u \in Units
  PROVE  /\ u = [unit |-> u.unit, of |-> u.of, i |-> u.i, depth |-> u.depth]
         /\ u.depth \in Nat
<1>1. CASE u \in Slices
  BY <1>1 DEF Slices
<1>2. CASE u \in Marks
  BY <1>2 DEF Marks
<1> QED
  BY <1>1, <1>2 DEF Units

LEMMA DeeperIs ==
  ASSUME NEW u \in Units, NEW n \in Int
  PROVE  Deeper(u, n) =
           [unit |-> u.unit, of |-> u.of, i |-> u.i, depth |-> u.depth + n]
<1> DEFINE Rec(x) == [unit |-> u.unit, of |-> u.of, i |-> u.i, depth |-> x]
<1>1. u = Rec(u.depth)
  BY UnitFields
<1>2. \A x : Deeper(Rec(x), n) = Rec(x + n)
  BY DEF Deeper
<1> HIDE DEF Rec
<1>3. Deeper(u, n) = Rec(u.depth + n)
  BY <1>1, <1>2
<1> QED
  BY <1>3 DEF Rec

LEMMA DeeperType ==
  ASSUME NEW u \in Units, NEW n \in Int, u.depth + n >= 0
  PROVE  /\ Deeper(u, n) \in Units
         /\ Deeper(u, n).unit = u.unit /\ Deeper(u, n).depth = u.depth + n
<1>1. /\ Deeper(u, n) =
            [unit |-> u.unit, of |-> u.of, i |-> u.i, depth |-> u.depth + n]
      /\ u.depth + n \in Nat
  BY DeeperIs, UnitFields
<1>2. CASE u \in Slices
  <2>1. u.unit = "slice" /\ u.of \in STRING /\ u.i \in Nat
    BY <1>2 DEF Slices
  <2>2. Deeper(u, n) \in Slices
    BY <1>1, <2>1 DEF Slices
  <2> QED
    BY <1>1, <2>2 DEF Units
<1>3. CASE u \in Marks
  <2>1. u.unit \in {"head", "end"} /\ u.of = "" /\ u.i = 0
    BY <1>3 DEF Marks
  <2>2. \A a \in {"head", "end"}, x \in Nat :
          [unit |-> a, of |-> "", i |-> 0, depth |-> x] \in Marks
    BY DEF Marks
  <2>3. Deeper(u, n) \in Marks
    BY <1>1, <2>1, <2>2
  <2> QED
    BY <1>1, <2>3 DEF Units
<1> QED
  BY <1>2, <1>3 DEF Units

LEMMA DeeperTwice ==
  ASSUME NEW u \in Units, NEW m \in Int, NEW n \in Int
  PROVE  Deeper(Deeper(u, m), n) = Deeper(u, m + n) /\ Deeper(u, 0) = u
<1> DEFINE Rec(x) == [unit |-> u.unit, of |-> u.of, i |-> u.i, depth |-> x]
<1>1. u = Rec(u.depth) /\ u.depth \in Nat
  BY UnitFields
<1>2. \A x, k : Deeper(Rec(x), k) = Rec(x + k)
  BY DEF Deeper
<1> HIDE DEF Rec
<1>3. /\ Deeper(u, m) = Rec(u.depth + m) /\ Deeper(u, 0) = Rec(u.depth + 0)
      /\ Deeper(u, m + n) = Rec(u.depth + (m + n))
  BY <1>1, <1>2
<1>4. Deeper(Deeper(u, m), n) = Rec((u.depth + m) + n)
  BY <1>2, <1>3
<1>5. (u.depth + m) + n = u.depth + (m + n) /\ u.depth + 0 = u.depth
  BY <1>1
<1> QED
  BY <1>1, <1>3, <1>4, <1>5

LEMMA DeeperInjective ==
  ASSUME NEW u \in Units, NEW v \in Units, NEW n \in Int, Deeper(u, n) = Deeper(v, n)
  PROVE  u = v
<1>1. Deeper(Deeper(u, n), -n) = Deeper(Deeper(v, n), -n)
  OBVIOUS
<1>2. -n \in Int /\ n + (-n) = 0
  OBVIOUS
<1> QED
  BY <1>1, <1>2, DeeperTwice

LEMMA FramedIs ==
  ASSUME NEW d \in Seq(Units), NEW n \in Nat
  PROVE  /\ Framed(d, n) \in Seq(Units) /\ Len(Framed(d, n)) = Len(d) + 2 * n
         /\ \A i \in 1..n : Framed(d, n)[i] = Deeper(Head0, i - 1)
         /\ \A i \in 1..Len(d) : Framed(d, n)[n + i] = Deeper(d[i], n)
         /\ \A i \in (n + Len(d) + 1)..(Len(d) + 2 * n) :
              Framed(d, n)[i] = Deeper(End, Len(d) + 2 * n - i)
<1> DEFINE N == Len(d) + 2 * n
           f(i) == IF i <= n THEN Deeper(Head0, i - 1)
                   ELSE IF i <= n + Len(d) THEN Deeper(d[i - n], n)
                   ELSE Deeper(End, N - i)
<1>1. Len(d) \in Nat /\ N \in Nat /\ \A i \in 1..Len(d) : d[i] \in Units
  BY ElementOfSeq
<1>2. ASSUME NEW i \in 1..N PROVE f(i) \in Units
  <2>1. CASE i <= n
    <3>1. i - 1 \in Int /\ Head0.depth + (i - 1) >= 0
      BY <1>1, UnitTypes
    <3> QED
      BY <2>1, <3>1, UnitTypes, DeeperType
  <2>2. CASE n < i /\ i <= n + Len(d)
    <3>1. d[i - n] \in Units
      BY <1>1, <2>2
    <3>2. d[i - n].depth + n >= 0
      BY <3>1, UnitFields
    <3> QED
      BY <2>2, <3>1, <3>2, <1>1, DeeperType
  <2>3. CASE n + Len(d) < i
    <3>1. N - i \in Int /\ End.depth + (N - i) >= 0 /\ ~(i <= n) /\ ~(i <= n + Len(d))
      BY <1>1, <2>3, UnitTypes
    <3> QED
      BY <3>1, UnitTypes, DeeperType
  <2> QED
    BY <1>1, <2>1, <2>2, <2>3
<1>3. Framed(d, n) = [i \in 1..N |-> f(i)]
  BY DEF Framed
<1> HIDE DEF f
<1>4. /\ Framed(d, n) \in Seq(Units) /\ Len(Framed(d, n)) = N
      /\ \A i \in 1..N : Framed(d, n)[i] = f(i)
  BY <1>1, <1>2, <1>3, IsASeq
<1>5. ASSUME NEW i \in 1..n PROVE Framed(d, n)[i] = Deeper(Head0, i - 1)
  <2>1. i \in 1..N /\ i <= n
    BY <1>1
  <2> QED
    BY <2>1, <1>4 DEF f
<1>6. ASSUME NEW i \in 1..Len(d) PROVE Framed(d, n)[n + i] = Deeper(d[i], n)
  <2>1. n + i \in 1..N /\ ~(n + i <= n) /\ n + i <= n + Len(d) /\ (n + i) - n = i
    BY <1>1
  <2> QED
    BY <2>1, <1>4 DEF f
<1>7. ASSUME NEW i \in (n + Len(d) + 1)..N PROVE Framed(d, n)[i] = Deeper(End, N - i)
  <2>1. i \in 1..N /\ ~(i <= n) /\ ~(i <= n + Len(d))
    BY <1>1
  <2> QED
    BY <2>1, <1>4 DEF f
<1> QED
  BY <1>4, <1>5, <1>6, <1>7

LEMMA FramedZero ==
  ASSUME NEW d \in Seq(Units)
  PROVE  Framed(d, 0) = d
<1>1. Len(d) \in Nat /\ \A i \in 1..Len(d) : d[i] \in Units
  BY ElementOfSeq
<1>2. /\ Framed(d, 0) \in Seq(Units) /\ Len(Framed(d, 0)) = Len(d) + 2 * 0
      /\ \A i \in 1..Len(d) : Framed(d, 0)[0 + i] = Deeper(d[i], 0)
  BY FramedIs
<1>3. \A i \in 1..Len(d) : Framed(d, 0)[i] = d[i]
  <2> SUFFICES ASSUME NEW i \in 1..Len(d) PROVE Framed(d, 0)[i] = d[i]
    OBVIOUS
  <2>1. 0 + i = i
    OBVIOUS
  <2> QED
    BY <1>1, <1>2, <2>1, DeeperTwice
<1>4. Len(Framed(d, 0)) = Len(d)
  BY <1>1, <1>2
<1> QED
  BY <1>2, <1>3, <1>4, SeqEqual

\* One frame around d.
LEMMA FramedOnce ==
  ASSUME NEW d \in Seq(Units)
  PROVE  /\ Framed(d, 1) \in Seq(Units) /\ Len(Framed(d, 1)) = Len(d) + 2
         /\ Framed(d, 1)[1] = Head0 /\ Framed(d, 1)[Len(d) + 2] = End
         /\ \A i \in 1..Len(d) : Framed(d, 1)[1 + i] = Deeper(d[i], 1)
<1>1. /\ Framed(d, 1) \in Seq(Units) /\ Len(Framed(d, 1)) = Len(d) + 2 * 1
      /\ \A i \in 1..1 : Framed(d, 1)[i] = Deeper(Head0, i - 1)
      /\ \A i \in 1..Len(d) : Framed(d, 1)[1 + i] = Deeper(d[i], 1)
      /\ \A i \in (1 + Len(d) + 1)..(Len(d) + 2 * 1) :
           Framed(d, 1)[i] = Deeper(End, Len(d) + 2 * 1 - i)
  BY FramedIs
<1>2. Len(d) \in Nat
  OBVIOUS
<1>3. Framed(d, 1)[1] = Deeper(Head0, 0) /\ Framed(d, 1)[Len(d) + 2] = Deeper(End, 0)
  BY <1>1, <1>2
<1>4. Deeper(Head0, 0) = Head0 /\ Deeper(End, 0) = End
  BY UnitTypes, DeeperTwice
<1> QED
  BY <1>1, <1>2, <1>3, <1>4

LEMMA FramedAdds ==
  ASSUME NEW d \in Seq(Units), NEW m \in Nat, NEW n \in Nat
  PROVE  Framed(Framed(d, m), n) = Framed(d, m + n)
<1> DEFINE e == Framed(d, m)
           L == Len(d)
           N == L + 2 * (m + n)
<1>1. L \in Nat /\ \A i \in 1..L : d[i] \in Units
  BY ElementOfSeq
<1>2. /\ e \in Seq(Units) /\ Len(e) = L + 2 * m
      /\ \A i \in 1..m : e[i] = Deeper(Head0, i - 1)
      /\ \A i \in 1..L : e[m + i] = Deeper(d[i], m)
      /\ \A i \in (m + L + 1)..(L + 2 * m) : e[i] = Deeper(End, L + 2 * m - i)
  BY FramedIs
<1> HIDE DEF e
<1>3. /\ Framed(e, n) \in Seq(Units) /\ Len(Framed(e, n)) = Len(e) + 2 * n
      /\ \A i \in 1..n : Framed(e, n)[i] = Deeper(Head0, i - 1)
      /\ \A i \in 1..Len(e) : Framed(e, n)[n + i] = Deeper(e[i], n)
      /\ \A i \in (n + Len(e) + 1)..(Len(e) + 2 * n) :
           Framed(e, n)[i] = Deeper(End, Len(e) + 2 * n - i)
  BY <1>2, FramedIs
<1>4. m + n \in Nat /\ N \in Nat
  BY <1>1
<1>5. /\ Framed(d, m + n) \in Seq(Units) /\ Len(Framed(d, m + n)) = N
      /\ \A i \in 1..(m + n) : Framed(d, m + n)[i] = Deeper(Head0, i - 1)
      /\ \A i \in 1..L : Framed(d, m + n)[m + n + i] = Deeper(d[i], m + n)
      /\ \A i \in (m + n + L + 1)..N : Framed(d, m + n)[i] = Deeper(End, N - i)
  <2>1. ASSUME NEW k \in Nat
        PROVE  /\ Framed(d, k) \in Seq(Units) /\ Len(Framed(d, k)) = L + 2 * k
               /\ \A i \in 1..k : Framed(d, k)[i] = Deeper(Head0, i - 1)
               /\ \A i \in 1..L : Framed(d, k)[k + i] = Deeper(d[i], k)
               /\ \A i \in (k + L + 1)..(L + 2 * k) :
                    Framed(d, k)[i] = Deeper(End, L + 2 * k - i)
    BY FramedIs
  <2> DEFINE k == m + n
  <2>2. k \in Nat /\ \A i : m + n + i = k + i
    BY <1>4
  <2> HIDE DEF k
  <2>3. /\ Framed(d, k) \in Seq(Units) /\ Len(Framed(d, k)) = L + 2 * k
        /\ \A i \in 1..k : Framed(d, k)[i] = Deeper(Head0, i - 1)
        /\ \A i \in 1..L : Framed(d, k)[k + i] = Deeper(d[i], k)
        /\ \A i \in (k + L + 1)..(L + 2 * k) :
             Framed(d, k)[i] = Deeper(End, L + 2 * k - i)
    BY <2>1, <2>2
  <2> QED
    BY <2>3 DEF k
<1>6. ASSUME NEW i \in 1..N PROVE Framed(e, n)[i] = Framed(d, m + n)[i]
  <2>1. CASE i <= n
    <3>1. i \in 1..n /\ i \in 1..(m + n)
      BY <2>1, <1>4
    <3> QED
      BY <3>1, <1>3, <1>5
  <2>2. CASE n < i /\ i <= n + m
    <3>1. /\ i - n \in 1..m /\ i - n \in 1..Len(e) /\ n + (i - n) = i
          /\ i \in 1..(m + n) /\ (i - n) - 1 \in Int /\ ((i - n) - 1) + n = i - 1
      BY <1>1, <1>2, <2>2
    <3>2. Framed(e, n)[i] = Deeper(Deeper(Head0, (i - n) - 1), n)
      BY <3>1, <1>2, <1>3
    <3>3. \A k \in Int : Deeper(Deeper(Head0, k), n) = Deeper(Head0, k + n)
      BY UnitTypes, DeeperTwice
    <3>4. Framed(e, n)[i] = Deeper(Head0, i - 1)
      BY <3>1, <3>2, <3>3
    <3> QED
      BY <3>1, <3>4, <1>5
  <2>3. CASE n + m < i /\ i <= n + m + L
    <3> DEFINE j == i - (n + m)
    <3>1. /\ j \in 1..L /\ m + j \in 1..Len(e) /\ n + (m + j) = i /\ m + n + j = i
      BY <1>1, <1>2, <2>3
    <3> HIDE DEF j
    <3>2. Framed(e, n)[n + (m + j)] = Deeper(Deeper(d[j], m), n)
      BY <3>1, <1>2, <1>3
    <3>3. Framed(d, m + n)[m + n + j] = Deeper(d[j], m + n)
      BY <3>1, <1>5
    <3>4. Deeper(Deeper(d[j], m), n) = Deeper(d[j], m + n)
      BY <3>1, <1>1, DeeperTwice
    <3> QED
      BY <3>1, <3>2, <3>3, <3>4
  <2>4. CASE n + m + L < i /\ i <= n + Len(e)
    <3> DEFINE j == i - n
    <3>1. /\ j \in (m + L + 1)..(L + 2 * m) /\ j \in 1..Len(e) /\ n + j = i
          /\ L + 2 * m - j \in Int /\ (L + 2 * m - j) + n = N - i
          /\ i \in (m + n + L + 1)..N
      BY <1>1, <1>2, <2>4
    <3> HIDE DEF j
    <3>2. Framed(e, n)[n + j] = Deeper(Deeper(End, L + 2 * m - j), n)
      BY <3>1, <1>2, <1>3
    <3>3. \A k \in Int : Deeper(Deeper(End, k), n) = Deeper(End, k + n)
      BY UnitTypes, DeeperTwice
    <3>4. Framed(e, n)[i] = Deeper(End, N - i)
      BY <3>1, <3>2, <3>3
    <3> QED
      BY <3>1, <3>4, <1>5
  <2>5. CASE n + Len(e) < i
    <3>1. /\ i \in (n + Len(e) + 1)..(Len(e) + 2 * n) /\ i \in (m + n + L + 1)..N
          /\ Len(e) + 2 * n - i = N - i
      BY <1>1, <1>2, <2>5
    <3> QED
      BY <3>1, <1>3, <1>5
  <2> QED
    BY <1>1, <1>2, <2>1, <2>2, <2>3, <2>4, <2>5
<1>7. Len(Framed(e, n)) = N
  BY <1>1, <1>2, <1>3
<1>8. Framed(e, n) = Framed(d, m + n)
  BY <1>3, <1>5, <1>6, <1>7, SeqEqual
<1> QED
  BY <1>8 DEF e

LEMMA FramedInjective ==
  ASSUME NEW d \in Seq(Units), NEW e \in Seq(Units), NEW n \in Nat,
         Framed(d, n) = Framed(e, n)
  PROVE  d = e
<1>1. /\ Len(d) \in Nat /\ Len(e) \in Nat
      /\ \A i \in 1..Len(d) : d[i] \in Units
      /\ \A i \in 1..Len(e) : e[i] \in Units
  BY ElementOfSeq
<1>2. /\ Len(Framed(d, n)) = Len(d) + 2 * n /\ Len(Framed(e, n)) = Len(e) + 2 * n
      /\ \A i \in 1..Len(d) : Framed(d, n)[n + i] = Deeper(d[i], n)
      /\ \A i \in 1..Len(e) : Framed(e, n)[n + i] = Deeper(e[i], n)
  BY FramedIs
<1>3. Len(d) = Len(e)
  BY <1>1, <1>2
<1>4. ASSUME NEW i \in 1..Len(d) PROVE d[i] = e[i]
  BY <1>1, <1>2, <1>3, DeeperInjective
<1> QED
  BY <1>3, <1>4, SeqEqual

-----------------------------------------------------------------------------
(* What is the same, and what trails.                                      *)

LEMMA IsFramedIs ==
  ASSUME NEW d \in Seq(Units), NEW e \in Seq(Units)
  PROVE  IsFramed(d, e) <=> \E n \in Nat : e = Framed(d, n)
<1>1. Len(d) \in Nat /\ Len(e) \in Nat
  OBVIOUS
<1>2. ASSUME NEW n \in Nat, e = Framed(d, n) PROVE IsFramed(d, e)
  <2>1. Len(e) = Len(d) + 2 * n
    BY <1>2, FramedIs
  <2>2. n \in 0..Len(e)
    BY <1>1, <2>1
  <2> QED
    BY <1>2, <2>1, <2>2 DEF IsFramed
<1>3. ASSUME IsFramed(d, e) PROVE \E n \in Nat : e = Framed(d, n)
  BY <1>1, <1>3 DEF IsFramed
<1> QED
  BY <1>2, <1>3

LEMMA SameReflexive ==
  ASSUME NEW d \in Seq(Units)
  PROVE  Same(d, d)
BY FramedZero, IsFramedIs DEF Same

LEMMA SameSymmetric ==
  ASSUME NEW a, NEW b, Same(a, b)
  PROVE  Same(b, a)
BY DEF Same

\* Of two things with a third in common, one is the other in frames.
LEMMA FramesOfOne ==
  ASSUME NEW a \in Seq(Units), NEW m \in Nat, NEW n \in Nat
  PROVE  Same(Framed(a, m), Framed(a, n))
<1>1. Framed(a, m) \in Seq(Units) /\ Framed(a, n) \in Seq(Units)
  BY FramedIs
<1>2. CASE m <= n
  <2>1. n - m \in Nat /\ m + (n - m) = n
    BY <1>2
  <2>2. Framed(a, n) = Framed(Framed(a, m), n - m)
    BY <2>1, FramedAdds
  <2> QED
    BY <1>1, <2>1, <2>2, IsFramedIs DEF Same
<1>3. CASE n <= m
  <2>1. m - n \in Nat /\ n + (m - n) = m
    BY <1>3
  <2>2. Framed(a, m) = Framed(Framed(a, n), m - n)
    BY <2>1, FramedAdds
  <2> QED
    BY <1>1, <2>1, <2>2, IsFramedIs DEF Same
<1> QED
  BY <1>2, <1>3

LEMMA OneInFrames ==
  ASSUME NEW a \in Seq(Units), NEW b \in Seq(Units), NEW m \in Nat, NEW n \in Nat,
         Framed(a, m) = Framed(b, n), m <= n
  PROVE  Same(a, b)
<1>1. n - m \in Nat /\ (n - m) + m = n
  OBVIOUS
<1>2. Framed(b, n - m) \in Seq(Units) /\ Framed(Framed(b, n - m), m) = Framed(a, m)
  <2>1. \A k \in Nat : Framed(b, k) \in Seq(Units) /\ Framed(Framed(b, k), m) = Framed(b, k + m)
    BY FramedAdds, FramedIs
  <2> QED
    BY <1>1, <2>1
<1>3. a = Framed(b, n - m)
  BY <1>2, FramedInjective
<1> QED
  BY <1>1, <1>3, IsFramedIs DEF Same

LEMMA SameTransitive ==
  ASSUME NEW a \in Seq(Units), NEW b \in Seq(Units), NEW c \in Seq(Units),
         Same(a, b), Same(b, c)
  PROVE  Same(a, c)
<1>1. CASE IsFramed(a, b) /\ IsFramed(b, c)
  <2>1. PICK m \in Nat, n \in Nat : b = Framed(a, m) /\ c = Framed(b, n)
    BY <1>1, IsFramedIs
  <2>2. m + n \in Nat /\ c = Framed(a, m + n)
    BY <2>1, FramedAdds
  <2> QED
    BY <2>2, IsFramedIs DEF Same
<1>2. CASE IsFramed(b, a) /\ IsFramed(c, b)
  <2>1. PICK m \in Nat, n \in Nat : a = Framed(b, m) /\ b = Framed(c, n)
    BY <1>2, IsFramedIs
  <2>2. n + m \in Nat /\ a = Framed(c, n + m)
    BY <2>1, FramedAdds
  <2> QED
    BY <2>2, IsFramedIs DEF Same
<1>3. CASE IsFramed(b, a) /\ IsFramed(b, c)
  BY <1>3, IsFramedIs, FramesOfOne
<1>4. CASE IsFramed(a, b) /\ IsFramed(c, b)
  <2>1. PICK m \in Nat, n \in Nat : b = Framed(a, m) /\ b = Framed(c, n)
    BY <1>4, IsFramedIs
  <2>2. CASE m <= n
    BY <2>1, <2>2, OneInFrames
  <2>3. CASE n <= m
    BY <2>1, <2>3, OneInFrames, SameSymmetric
  <2> QED
    BY <2>2, <2>3
<1> QED
  BY <1>1, <1>2, <1>3, <1>4 DEF Same

LEMMA FramedTrails ==
  ASSUME NEW d \in Seq(Units), NEW n \in Nat
  PROVE  Trails(Framed(d, n)) <=> Trails(d)
<1> DEFINE e == Framed(d, n)
           L == Len(d)
<1>1. L \in Nat /\ DOMAIN d = 1..L /\ \A i \in 1..L : d[i] \in Units
  BY ElementOfSeq
<1>2. /\ e \in Seq(Units) /\ Len(e) = L + 2 * n
      /\ \A i \in 1..n : e[i] = Deeper(Head0, i - 1)
      /\ \A i \in 1..L : e[n + i] = Deeper(d[i], n)
      /\ \A i \in (n + L + 1)..(L + 2 * n) : e[i] = Deeper(End, L + 2 * n - i)
  BY FramedIs
<1>3. DOMAIN e = 1..Len(e)
  BY <1>2
<1> HIDE DEF e
<1>4. ASSUME NEW i \in 1..L
      PROVE  e[n + i].unit = d[i].unit /\ e[n + i].depth = d[i].depth + n
             /\ d[i].depth \in Nat
  <2>1. d[i] \in Units /\ d[i].depth \in Nat /\ d[i].depth + n >= 0
    BY <1>1, UnitFields
  <2> QED
    BY <2>1, <1>2, DeeperType
<1>5. ASSUME Trails(d) PROVE Trails(e)
  <2>1. PICK i \in 1..L : d[i].unit = "end" /\ i + d[i].depth < L
    BY <1>1, <1>5 DEF Trails
  <2>2. n + i \in 1..Len(e) /\ (n + i) + e[n + i].depth < Len(e)
    BY <1>1, <1>2, <1>4, <2>1
  <2> QED
    BY <1>3, <1>4, <2>1, <2>2 DEF Trails
<1>6. ASSUME Trails(e) PROVE Trails(d)
  <2>1. PICK i \in 1..Len(e) : e[i].unit = "end" /\ i + e[i].depth < Len(e)
    BY <1>3, <1>6 DEF Trails
  <2>2. CASE i <= n
    <3>1. i \in 1..n /\ i - 1 \in Int /\ Head0.depth + (i - 1) >= 0
      BY <2>2, UnitTypes
    <3>2. e[i].unit = "head"
      BY <3>1, <1>2, UnitTypes, DeeperType
    <3> QED
      BY <2>1, <3>2
  <2>3. CASE n < i /\ i <= n + L
    <3> DEFINE j == i - n
    <3>1. j \in 1..L /\ n + j = i
      BY <1>1, <2>3
    <3> HIDE DEF j
    <3>2. e[i].unit = d[j].unit /\ e[i].depth = d[j].depth + n /\ d[j].depth \in Nat
      BY <1>4, <3>1
    <3>3. d[j].unit = "end" /\ j + d[j].depth < L
      BY <1>1, <1>2, <2>1, <3>1, <3>2
    <3> QED
      BY <1>1, <3>1, <3>3 DEF Trails
  <2>4. CASE n + L < i
    <3>1. /\ i \in (n + L + 1)..(L + 2 * n)
          /\ L + 2 * n - i \in Int /\ End.depth + (L + 2 * n - i) >= 0
      BY <1>1, <1>2, <2>4, UnitTypes
    <3>2. e[i].depth = L + 2 * n - i
      BY <3>1, <1>1, <1>2, UnitTypes, DeeperType
    <3> QED
      BY <3>1, <3>2, <2>1, <1>1, <1>2
  <2> QED
    BY <1>1, <1>2, <2>2, <2>3, <2>4
<1> QED
  BY <1>5, <1>6 DEF e

LEMMA SameTrails ==
  ASSUME NEW a \in Seq(Units), NEW b \in Seq(Units), Same(a, b)
  PROVE  Trails(a) <=> Trails(b)
BY IsFramedIs, FramedTrails DEF Same

-----------------------------------------------------------------------------
(* Where an output goes, and what is written to it.                        *)

LEMMA OutfileDiffers ==
  ASSUME NEW opts, NEW path \in Paths, Outfile(opts, path).to = "file"
  PROVE  Outfile(opts, path).path # path
<1> DEFINE default == DefaultOutfile(opts, path)
<1>1. path.k \in Nat /\ [path EXCEPT !.k = path.k] = path
  BY DEF Paths
<1>2. default.k \in Int /\ (default # path => default.k # path.k)
  <2>1. CASE Decodes(opts, path) /\ path.k > 0
    <3>1. default = [path EXCEPT !.k = path.k - 1]
      BY <2>1 DEF DefaultOutfile
    <3> QED
      BY <1>1, <3>1 DEF Paths
  <2>2. CASE Decodes(opts, path) /\ ~(path.k > 0)
    <3>1. default = [path EXCEPT !.k = 0] /\ path.k = 0
      BY <1>1, <2>2 DEF DefaultOutfile
    <3> QED
      BY <1>1, <3>1
  <2>3. CASE ~Decodes(opts, path)
    <3>1. default = [path EXCEPT !.k = path.k + 1]
      BY <2>3 DEF DefaultOutfile
    <3> QED
      BY <1>1, <3>1 DEF Paths
  <2> QED
    BY <2>1, <2>2, <2>3
<1> HIDE DEF default
<1>3. /\ default # path
      /\ \/ Outfile(opts, path).path = default
         \/ Outfile(opts, path).path = [default EXCEPT !.dir = opts.outdir]
  BY DEF Outfile, default
<1>4. [default EXCEPT !.dir = opts.outdir].k = default.k
  OBVIOUS
<1> QED
  BY <1>2, <1>3, <1>4

LEMMA OutfileTo ==
  ASSUME NEW opts, NEW path
  PROVE  Outfile(opts, path).to \in {"stdout", "nil", "file"}
<1>1. CASE opts.stdout
  BY <1>1 DEF Outfile
<1>2. CASE ~opts.stdout /\ path = DefaultOutfile(opts, path)
  BY <1>2 DEF Outfile
<1>3. CASE ~opts.stdout /\ path # DefaultOutfile(opts, path)
  BY <1>3 DEF Outfile
<1> QED
  BY <1>1, <1>2, <1>3

LEMMA PutIs ==
  ASSUME NEW d \in Seq(Units), NEW u \in Units
  PROVE  /\ Put(d, Len(d) + 1, u) \in Seq(Units)
         /\ Len(Put(d, Len(d) + 1, u)) = Len(d) + 1
         /\ \A i \in 1..Len(d) : Put(d, Len(d) + 1, u)[i] = d[i]
         /\ Put(d, Len(d) + 1, u)[Len(d) + 1] = u
<1> DEFINE n == Len(d) + 1
           f(i) == IF i = n THEN u ELSE d[i]
<1>1. /\ n \in Nat /\ DOMAIN d = 1..Len(d) /\ DOMAIN d \cup {n} = 1..n
      /\ \A i \in 1..Len(d) : d[i] \in Units /\ i # n
  BY ElementOfSeq
<1>2. Put(d, n, u) = [i \in 1..n |-> f(i)]
  BY <1>1 DEF Put
<1>3. \A i \in 1..n : f(i) \in Units
  BY <1>1
<1>4. /\ Put(d, n, u) \in Seq(Units) /\ Len(Put(d, n, u)) = n
      /\ \A i \in 1..n : Put(d, n, u)[i] = f(i)
  BY <1>1, <1>2, <1>3, IsASeq
<1> QED
  BY <1>1, <1>4

\* The first pos - 2 blocks of a frame are in out, and the encoder has put the
\* first pos - 1 units into blocks.
DecodedTo(in, out, pos) ==
  /\ in[1] = Head0
  /\ Len(out) = pos - 2
  /\ \A j \in 1..(pos - 2) : in[j + 1].depth > 0 /\ out[j] = Deeper(in[j + 1], -1)

EncodedTo(in, out, pos) ==
  /\ Len(out) = pos /\ out[1] = Head0
  /\ \A j \in 1..(pos - 1) : out[j + 1] = Deeper(in[j], 1)

LEMMA DecodedMore ==
  ASSUME NEW in \in Seq(Units), NEW out \in Seq(Units), NEW pos \in 2..Len(in),
         DecodedTo(in, out, pos), in[pos].depth > 0
  PROVE  DecodedTo(in, Put(out, pos - 1, Deeper(in[pos], -1)), pos + 1)
<1> DEFINE u == Deeper(in[pos], -1)
           new == Put(out, pos - 1, u)
<1>1. in[pos] \in Units
  BY ElementOfSeq
<1>2. u \in Units
  <2>1. in[pos].depth + (-1) >= 0
    BY <1>1, UnitFields
  <2> QED
    BY <1>1, <2>1, DeeperType
<1> HIDE DEF u
<1>3. Len(out) + 1 = pos - 1 /\ Len(out) = pos - 2
  BY DEF DecodedTo
<1>4. /\ Len(new) = pos - 1 /\ new[pos - 1] = u
      /\ \A i \in 1..(pos - 2) : new[i] = out[i]
  <2>1. /\ Len(Put(out, Len(out) + 1, u)) = Len(out) + 1
        /\ \A i \in 1..Len(out) : Put(out, Len(out) + 1, u)[i] = out[i]
        /\ Put(out, Len(out) + 1, u)[Len(out) + 1] = u
    BY <1>2, PutIs
  <2> QED
    BY <1>3, <2>1
<1>5. ASSUME NEW j \in 1..(pos - 1)
      PROVE  in[j + 1].depth > 0 /\ new[j] = Deeper(in[j + 1], -1)
  <2>1. CASE j = pos - 1
    <3>1. j + 1 = pos
      BY <2>1
    <3> QED
      BY <1>4, <2>1, <3>1 DEF u
  <2>2. CASE j \in 1..(pos - 2)
    BY <1>4, <2>2 DEF DecodedTo
  <2> QED
    BY <2>1, <2>2
<1>6. (pos + 1) - 2 = pos - 1
  OBVIOUS
<1> HIDE DEF new
<1>7. in[1] = Head0
  BY DEF DecodedTo
<1> QED
  BY <1>4, <1>5, <1>6, <1>7 DEF DecodedTo, new, u

\* The whole of the first frame of in is in out, and the whole of in in a frame.
HasFirst(in, out) == IsPrefix(Framed(out, 1), in)
HasFrame(in, out) == out = Framed(in, 1)

LEMMA DecodedAll ==
  ASSUME NEW in \in Seq(Units), NEW out \in Seq(Units), NEW pos \in 2..Len(in),
         DecodedTo(in, out, pos), in[pos] = End
  PROVE  HasFirst(in, out)
<1>1. /\ Len(out) \in Nat /\ pos = Len(out) + 2 /\ pos <= Len(in) /\ Len(in) \in Nat
      /\ \A i \in 1..Len(in) : in[i] \in Units
  BY ElementOfSeq DEF DecodedTo
<1> DEFINE e == Framed(out, 1)
<1>2. /\ e \in Seq(Units) /\ Len(e) = Len(out) + 2
      /\ e[1] = Head0 /\ e[Len(out) + 2] = End
      /\ \A i \in 1..Len(out) : e[1 + i] = Deeper(out[i], 1)
  BY FramedOnce
<1> HIDE DEF e
<1>3. ASSUME NEW i \in 1..pos PROVE in[i] = e[i]
  <2>1. CASE i = 1
    BY <1>2, <2>1 DEF DecodedTo
  <2>2. CASE i \in 2..(pos - 1)
    <3> DEFINE j == i - 1
    <3>1. j \in 1..Len(out) /\ j + 1 = i /\ 1 + j = i /\ j \in 1..(pos - 2) /\ i \in 1..Len(in)
      BY <1>1, <2>2
    <3> HIDE DEF j
    <3>2. out[j] = Deeper(in[i], -1) /\ e[i] = Deeper(out[j], 1) /\ in[i] \in Units
      BY <1>1, <1>2, <3>1 DEF DecodedTo
    <3>3. \A u \in Units : Deeper(Deeper(u, -1), 1) = Deeper(u, -1 + 1)
                           /\ Deeper(u, 0) = u
      BY DeeperTwice
    <3> QED
      BY <3>2, <3>3
  <2>3. CASE i = pos
    <3>1. i = Len(out) + 2
      BY <1>1, <2>3
    <3> QED
      BY <1>2, <2>3, <3>1
  <2> QED
    BY <1>1, <2>1, <2>2, <2>3
<1>4. IsPrefix(e, in)
  <2>1. Len(e) = pos /\ e \in Seq(Units)
    BY <1>1, <1>2
  <2> QED
    BY <1>1, <1>3, <2>1 DEF IsPrefix
<1> QED
  BY <1>4 DEF HasFirst, e

\* Nothing but what stands behind the frame is missing then.
LEMMA FirstIsSame ==
  ASSUME NEW in \in Seq(Units), NEW out \in Seq(Units), HasFirst(in, out)
  PROVE  Same(out, in) \/ Trails(in)
<1> DEFINE e == Framed(out, 1)
           n == Len(e)
<1>1. /\ e \in Seq(Units) /\ n = Len(out) + 2 /\ e[Len(out) + 2] = End
      /\ Len(out) \in Nat /\ Len(in) \in Nat
  BY FramedOnce
<1>2. IsPrefix(e, in)
  BY DEF HasFirst
<1> HIDE DEF e
<1>3. n <= Len(in) /\ \A i \in 1..n : in[i] = e[i]
  BY <1>1, <1>2 DEF IsPrefix
<1>4. CASE n < Len(in)
  <2>1. in[n] = End /\ n \in 1..Len(in)
    BY <1>1, <1>3, <1>4
  <2>2. End.unit = "end" /\ End.depth = 0
    BY UnitTypes
  <2> QED
    BY <1>1, <1>4, <2>1, <2>2 DEF Trails
<1>5. CASE n = Len(in)
  <2>1. in = e
    BY <1>1, <1>3, <1>5, SeqEqual
  <2> QED
    BY <2>1, IsFramedIs DEF Same, e
<1> QED
  BY <1>1, <1>3, <1>4, <1>5

LEMMA FrameIsSame ==
  ASSUME NEW in \in Seq(Units), NEW out \in Seq(Units), HasFrame(in, out)
  PROVE  Same(out, in)
BY IsFramedIs DEF HasFrame, Same

LEMMA EncodedMore ==
  ASSUME NEW in \in Seq(Units), NEW out \in Seq(Units), NEW pos \in 1..Len(in),
         EncodedTo(in, out, pos)
  PROVE  EncodedTo(in, Put(out, pos + 1, Deeper(in[pos], 1)), pos + 1)
<1> DEFINE u == Deeper(in[pos], 1)
           new == Put(out, pos + 1, u)
<1>1. in[pos] \in Units
  BY ElementOfSeq
<1>2. u \in Units
  <2>1. in[pos].depth + (1) >= 0
    BY <1>1, UnitFields
  <2> QED
    BY <1>1, <2>1, DeeperType
<1> HIDE DEF u
<1>3. Len(out) = pos
  BY DEF EncodedTo
<1>4. /\ Len(new) = pos + 1 /\ new[pos + 1] = u
      /\ \A i \in 1..pos : new[i] = out[i]
  BY <1>2, <1>3, PutIs
<1>5. ASSUME NEW j \in 1..pos PROVE new[j + 1] = Deeper(in[j], 1)
  <2>1. CASE j = pos
    BY <1>4, <2>1 DEF u
  <2>2. CASE j \in 1..(pos - 1)
    BY <1>4, <2>2 DEF EncodedTo
  <2> QED
    BY <2>1, <2>2
<1>6. (pos + 1) - 1 = pos
  OBVIOUS
<1> HIDE DEF new
<1>7. new[1] = Head0
  BY <1>4 DEF EncodedTo
<1> QED
  BY <1>4, <1>5, <1>6, <1>7 DEF EncodedTo, new, u

LEMMA EncodedAll ==
  ASSUME NEW in \in Seq(Units), NEW out \in Seq(Units), NEW pos \in Nat,
         EncodedTo(in, out, pos), pos = Len(in) + 1
  PROVE  HasFrame(in, Put(out, pos + 1, End))
<1> DEFINE new == Put(out, pos + 1, End)
           e == Framed(in, 1)
<1>1. Len(in) \in Nat /\ Len(out) = pos /\ \A i \in 1..Len(in) : in[i] \in Units
  BY ElementOfSeq DEF EncodedTo
<1>2. /\ new \in Seq(Units) /\ Len(new) = pos + 1 /\ new[pos + 1] = End
      /\ \A i \in 1..pos : new[i] = out[i]
  <2>1. End \in Units
    BY UnitTypes
  <2>2. /\ Put(out, Len(out) + 1, End) \in Seq(Units)
        /\ Len(Put(out, Len(out) + 1, End)) = Len(out) + 1
        /\ \A i \in 1..Len(out) : Put(out, Len(out) + 1, End)[i] = out[i]
        /\ Put(out, Len(out) + 1, End)[Len(out) + 1] = End
    BY <2>1, PutIs
  <2> QED
    BY <1>1, <2>2
<1>3. /\ e \in Seq(Units) /\ Len(e) = Len(in) + 2
      /\ e[1] = Head0 /\ e[Len(in) + 2] = End
      /\ \A i \in 1..Len(in) : e[1 + i] = Deeper(in[i], 1)
  BY FramedOnce
<1> HIDE DEF e, new
<1>4. ASSUME NEW i \in 1..Len(new) PROVE new[i] = e[i]
  <2>1. CASE i = 1
    BY <1>1, <1>2, <1>3, <2>1 DEF EncodedTo
  <2>2. CASE i \in 2..pos
    <3> DEFINE j == i - 1
    <3>1. j \in 1..Len(in) /\ j + 1 = i /\ 1 + j = i /\ j \in 1..(pos - 1) /\ i \in 1..pos
      BY <1>1, <2>2
    <3> HIDE DEF j
    <3>2. new[i] = Deeper(in[j], 1) /\ e[i] = Deeper(in[j], 1)
      BY <1>2, <1>3, <3>1 DEF EncodedTo
    <3> QED
      BY <3>2
  <2>3. CASE i = pos + 1
    BY <1>1, <1>2, <1>3, <2>3
  <2> QED
    BY <1>1, <1>2, <2>1, <2>2, <2>3
<1>5. new = e
  <2>1. Len(new) = Len(e)
    BY <1>1, <1>2, <1>3
  <2> QED
    BY <1>2, <1>3, <1>4, <2>1, SeqEqual
<1> QED
  BY <1>5 DEF HasFrame, e, new

-----------------------------------------------------------------------------
(* The invariant.                                                          *)

Before == prog.pc \in {"open", "header", "output"}
Writing == prog.pc \in {"begin", "copy"}
Opened == prog.pc \in {"begin", "copy", "finish", "unlink"}
Reading == prog.pc \in {"header", "output"} \/ Opened

Output == data[prog.fout]

\* Every path leads to data of its own.
Listed ==
  /\ data \in Seq(Seq(Units)) /\ orig \in Seq(Seq(Units))
  /\ dir \in [DOMAIN dir -> DOMAIN data]
  /\ \A p, q \in DOMAIN dir : dir[p] = dir[q] => p = q
  /\ given \subseteq DOMAIN orig /\ runs \in 0..MaxRuns

Formed ==
  /\ DOMAIN prog = DOMAIN Off /\ prog.todo \in Seq(Paths)
  /\ Before \/ Opened => prog.in \in Paths

\* The input and the output are what their paths lead to, and without -f the
\* output was not there.
Target ==
  /\ Before \/ Opened => prog.out = Outfile(prog.opts, prog.in)
  /\ (Before /\ prog.out.to = "file" /\ ~prog.opts.force) => prog.out.path \notin DOMAIN dir
  /\ Reading => prog.in \in DOMAIN dir /\ prog.fin = dir[prog.in]
  /\ Opened => IF prog.out.to = "file"
                 THEN prog.out.path \in DOMAIN dir /\ prog.fout = dir[prog.out.path]
                 ELSE prog.fout = 0

\* How far the input has been read, and what is in the output for it.
Started ==
  IF Decoding THEN prog.pos = 2 /\ Input # <<>> /\ Input[1] = Head0 ELSE prog.pos = 1

Copying ==
  IF Decoding
    THEN /\ prog.pos \in 2..(Len(Input) + 1) /\ prog.at = prog.pos - 1
         /\ prog.fout # 0 => DecodedTo(Input, Output, prog.pos)
    ELSE /\ prog.pos \in 1..(Len(Input) + 1) /\ prog.at = prog.pos + 1
         /\ prog.fout # 0 => EncodedTo(Input, Output, prog.pos)

Whole == IF Decoding THEN HasFirst(Input, Output) ELSE HasFrame(Input, Output)

Copied ==
  /\ prog.pc = "header" => Decoding
  /\ prog.pc = "output" => Started
  /\ prog.pc = "begin" => /\ ~Decoding /\ prog.pos = 1 /\ prog.at = 1
                          /\ prog.fout # 0 => Output = <<>>
  /\ prog.pc = "copy" => Copying
  /\ (prog.pc \in {"finish", "unlink"} /\ Checked /\ prog.out.to = "file") => Whole
  /\ prog.pc = "unlink" => prog.out.to = "file"

Inv == Listed /\ Formed /\ Target /\ Copied

LEMMA InputIs ==
  ASSUME Inv, Reading
  PROVE  prog.fin \in 1..Len(data) /\ Input \in Seq(Units)
<1>1. prog.in \in DOMAIN dir /\ prog.fin = dir[prog.in] /\ DOMAIN data = 1..Len(data)
  BY DEF Inv, Target, Listed
<1>2. prog.fin \in 1..Len(data)
  BY <1>1 DEF Inv, Listed
<1> QED
  BY <1>2, ElementOfSeq DEF Inv, Listed, Input

LEMMA OutputIs ==
  ASSUME Inv, Opened
  PROVE  /\ prog.out.to = "file" <=> prog.fout # 0
         /\ prog.fout # 0 => /\ prog.out.path \in DOMAIN dir
                            /\ prog.fout = dir[prog.out.path] /\ prog.fout # prog.fin
                            /\ prog.fout \in 1..Len(data) /\ Output \in Seq(Units)
<1>1. DOMAIN data = 1..Len(data) /\ 0 \notin 1..Len(data)
  BY DEF Inv, Listed
<1>2. ASSUME prog.out.to = "file"
      PROVE  /\ prog.out.path \in DOMAIN dir /\ prog.fout = dir[prog.out.path]
             /\ prog.fout # prog.fin /\ prog.fout \in 1..Len(data)
  <2>1. prog.out.path \in DOMAIN dir /\ prog.fout = dir[prog.out.path]
    BY <1>2 DEF Inv, Target
  <2>2. prog.in \in DOMAIN dir /\ prog.fin = dir[prog.in] /\ prog.in \in Paths
        /\ prog.out = Outfile(prog.opts, prog.in)
    BY DEF Inv, Target, Formed, Reading
  <2>3. prog.out.path # prog.in
    BY <1>2, <2>2, OutfileDiffers
  <2> QED
    BY <1>1, <2>1, <2>2, <2>3 DEF Inv, Listed
<1>3. prog.out.to # "file" => prog.fout = 0
  BY DEF Inv, Target
<1>4. prog.fout \in 1..Len(data) => Output \in Seq(Units)
  BY ElementOfSeq DEF Inv, Listed, Output
<1> QED
  BY <1>1, <1>2, <1>3, <1>4

-----------------------------------------------------------------------------
(* Steps that change no file.                                              *)

NoFile == UNCHANGED <<dir, data, orig, given>> /\ runs' \in 0..MaxRuns

Leaves == prog' = Off \/ \E todo \in Seq(Paths) : NextFile(todo)

\* The process is where it was, with the same file.
Moves ==
  /\ DOMAIN prog' = DOMAIN prog
  /\ prog'.todo = prog.todo /\ prog'.in = prog.in
  /\ prog'.out = prog.out /\ prog'.opts = prog.opts

LEMMA ListedKept ==
  ASSUME Listed, NoFile
  PROVE  Listed'
BY DEF Listed, NoFile

LEMMA RaiseLeaves ==
  ASSUME Formed, NEW error, Raise(error)
  PROVE  Leaves
BY DEF Formed, Raise, Leaves

LEMMA LeftIs ==
  ASSUME Leaves
  PROVE  prog'.pc \in {"off", "next"} /\ (Formed /\ Target /\ Copied)'
<1>1. DOMAIN prog' = DOMAIN Off /\ prog'.todo \in Seq(Paths) /\ prog'.pc \in {"off", "next"}
  <2>1. CASE prog' = Off
    BY <2>1, EmptySeq DEF Off
  <2>2. ASSUME NEW todo \in Seq(Paths), NextFile(todo)
        PROVE  DOMAIN prog' = DOMAIN Off /\ prog'.todo \in Seq(Paths) /\ prog'.pc = "next"
    BY <2>2 DEF NextFile, Off
  <2> QED
    BY <2>1, <2>2 DEF Leaves
<1>2. ~Before' /\ ~Opened' /\ ~Reading'
  BY <1>1 DEF Before, Opened, Reading
<1>3. Formed' /\ Target'
  BY <1>1, <1>2 DEF Formed, Target
<1>4. Copied'
  BY <1>1 DEF Copied
<1> QED
  BY <1>1, <1>3, <1>4

LEMMA MovedIs ==
  ASSUME Formed, Moves, Before \/ Opened
  PROVE  Formed' /\ (Decoding' <=> Decoding)
BY DEF Formed, Moves, Decoding

LEMMA InvBegin ==
  ASSUME FileAssumption, Inv, NEW cmd \in Commands, Begin(cmd)
  PROVE  Inv'
<1>1. NoFile
  BY DEF Begin, NoFile, Inv, Listed, FileAssumption
<1>2. cmd.files \in Seq(Paths)
  BY DEF FileAssumption, Options
<1>3. DOMAIN prog' = DOMAIN Off /\ prog'.todo = cmd.files /\ prog'.pc = "next"
  BY DEF Begin, Off
<1>4. ~Before' /\ ~Opened' /\ ~Reading'
  BY <1>3 DEF Before, Opened, Reading
<1>5. Formed' /\ Target' /\ Copied'
  BY <1>2, <1>3, <1>4 DEF Formed, Target, Copied
<1> QED
  BY <1>1, <1>5, ListedKept DEF Inv

LEMMA InvLeaves ==
  ASSUME Inv, NoFile, Leaves
  PROVE  Inv'
BY ListedKept, LeftIs DEF Inv

LEMMA InvFileOperation ==
  ASSUME Inv, file_operation
  PROVE  Inv'
<1> DEFINE path == Head(prog.todo)
           out == Outfile(prog.opts, path)
           rest == Tail(prog.todo)
<1>1. NoFile
  BY DEF file_operation, NoFile, Inv, Listed
<1>2. path \in Paths /\ rest \in Seq(Paths)
  BY HeadTailProperties DEF Inv, Formed, file_operation
<1>3. CASE Refuses(prog.opts, out)
  <2>1. NextFile(rest)
    BY <1>3 DEF file_operation
  <2> QED
    BY <1>1, <1>2, <2>1, InvLeaves DEF Leaves
<1>4. CASE ~Refuses(prog.opts, out)
  <2>1. prog' = [prog EXCEPT !.pc = "open", !.todo = rest, !.in = path, !.out = out]
    BY <1>4 DEF file_operation
  <2> HIDE DEF path, out, rest
  <2>2. /\ DOMAIN prog' = DOMAIN prog /\ prog'.pc = "open" /\ prog'.todo = rest
        /\ prog'.in = path /\ prog'.out = out /\ prog'.opts = prog.opts
    BY <2>1 DEF Inv, Formed, Off
  <2>3. Before' /\ ~Opened' /\ ~Reading'
    BY <2>2 DEF Before, Opened, Reading
  <2>4. Formed' /\ Copied'
    BY <1>2, <2>2 DEF Formed, Copied, Inv
  <2>5. Target'
    <3>1. out.to = "file" /\ ~prog.opts.force => out.path \notin DOMAIN dir
      BY <1>4 DEF Refuses
    <3>2. dir' = dir /\ out = Outfile(prog.opts, path)
      BY DEF file_operation, out
    <3> QED
      BY <2>2, <2>3, <3>1, <3>2 DEF Target
  <2> QED
    BY <1>1, <2>4, <2>5, ListedKept DEF Inv
<1> QED
  BY <1>3, <1>4

LEMMA InvOpenInput ==
  ASSUME Inv, OpenInput
  PROVE  Inv'
<1>1. NoFile /\ prog.pc = "open" /\ Before
  BY DEF OpenInput, NoFile, Inv, Listed, At, Before
<1>2. CASE prog.in \notin DOMAIN dir
  BY <1>1, <1>2, RaiseLeaves, InvLeaves DEF OpenInput, Inv
<1>3. CASE prog.in \in DOMAIN dir
  <2>1. prog' = [prog EXCEPT !.pc = IF Decoding THEN "header" ELSE "output",
                             !.fin = dir[prog.in], !.pos = 1]
    BY <1>3 DEF OpenInput
  <2>2. /\ Moves /\ prog'.pc = IF Decoding THEN "header" ELSE "output"
        /\ prog'.fin = dir[prog.in] /\ prog'.pos = 1
    BY <2>1 DEF Inv, Formed, Off, Moves
  <2>3. Formed' /\ (Decoding' <=> Decoding)
    BY <1>1, <2>2, MovedIs DEF Inv
  <2>4. Copied'
    BY <2>2, <2>3 DEF Copied, Started
  <2>5. Target'
    BY <1>1, <1>3, <2>2 DEF Target, Inv, Moves, NoFile, Before, Opened, Reading
  <2> QED
    BY <1>1, <2>3, <2>4, <2>5, ListedKept DEF Inv
<1> QED
  BY <1>2, <1>3

LEMMA InvReadHeader ==
  ASSUME Inv, ReadHeader
  PROVE  Inv'
<1>1. NoFile /\ prog.pc = "header" /\ Before /\ Reading /\ Decoding
  BY DEF ReadHeader, NoFile, Inv, Listed, At, Before, Reading, Copied
<1>2. CASE ~(Input # <<>> /\ Input[1] = Head0)
  BY <1>1, <1>2, RaiseLeaves, InvLeaves DEF ReadHeader, Inv, Input
<1>3. CASE Input # <<>> /\ Input[1] = Head0
  <2>1. prog' = [prog EXCEPT !.pc = "output", !.pos = 2]
    BY <1>3 DEF ReadHeader, Input
  <2>2. Moves /\ prog'.pc = "output" /\ prog'.fin = prog.fin /\ prog'.pos = 2
    BY <2>1 DEF Inv, Formed, Off, Moves
  <2>3. Formed' /\ (Decoding' <=> Decoding)
    BY <1>1, <2>2, MovedIs DEF Inv
  <2>4. Input' = Input
    BY <1>1, <2>2 DEF Input, NoFile
  <2>5. Copied'
    BY <1>1, <1>3, <2>2, <2>3, <2>4 DEF Copied, Started
  <2>6. Target'
    BY <1>1, <2>2 DEF Target, Inv, Moves, NoFile, Before, Opened, Reading
  <2> QED
    BY <1>1, <2>3, <2>5, <2>6, ListedKept DEF Inv
<1> QED
  BY <1>2, <1>3

LEMMA InvCopyTime ==
  ASSUME Inv, CopyTime
  PROVE  Inv'
<1>1. NoFile /\ prog.pc = "finish" /\ Opened
  BY DEF CopyTime, NoFile, Inv, Listed, At, Opened
<1>2. CASE Leaves
  BY <1>1, <1>2, InvLeaves
<1>3. CASE prog.out.to \notin {"stdout", "nil"} /\ prog' = [prog EXCEPT !.pc = "unlink"]
  <2>1. /\ Moves /\ prog'.pc = "unlink" /\ prog'.fin = prog.fin /\ prog'.fout = prog.fout
    BY <1>3 DEF Inv, Formed, Off, Moves
  <2>2. Formed' /\ (Decoding' <=> Decoding)
    BY <1>1, <2>1, MovedIs DEF Inv
  <2>3. Input' = Input /\ Output' = Output
    BY <1>1, <2>1 DEF Input, Output, NoFile
  <2>4. prog.out.to = "file"
    <3>1. prog.out = Outfile(prog.opts, prog.in)
      BY <1>1 DEF Inv, Target
    <3> QED
      BY <1>3, <3>1, OutfileTo
  <2>5. Copied'
    <3>1. Checked => Whole
      BY <1>1, <2>4 DEF Inv, Copied
    <3>2. Checked => Whole'
      BY <2>2, <2>3, <3>1 DEF Whole
    <3> QED
      BY <2>1, <2>4, <3>2 DEF Copied, Moves
  <2>6. Target'
    BY <1>1, <2>1 DEF Target, Inv, Moves, NoFile, Before, Opened, Reading
  <2> QED
    BY <1>1, <2>2, <2>5, <2>6, ListedKept DEF Inv
<1> QED
  <2>1. NextFile(prog.todo) => Leaves
    BY DEF Leaves, Inv, Formed
  <2> QED
    BY <1>2, <1>3, <2>1, RaiseLeaves DEF CopyTime, Inv

-----------------------------------------------------------------------------
(* Steps that write.                                                       *)

LEMMA WriteIs ==
  ASSUME Listed, NEW u \in Units, Write(u),
         prog.fout # 0 => /\ prog.fout \in 1..Len(data)
                         /\ Output \in Seq(Units) /\ prog.at = Len(Output) + 1
  PROVE  /\ data' \in Seq(Seq(Units)) /\ Len(data') = Len(data)
         /\ DOMAIN data' = DOMAIN data
         /\ \A i \in 1..Len(data) : i # prog.fout => data'[i] = data[i]
         /\ prog.fout # 0 => data'[prog.fout] = Put(Output, prog.at, u)
<1>1. data \in Seq(Seq(Units)) /\ DOMAIN data = 1..Len(data) /\ Len(data) \in Nat
  BY DEF Listed
<1>2. CASE prog.fout = 0
  BY <1>1, <1>2 DEF Write
<1>3. CASE prog.fout # 0
  <2>1. data' = [data EXCEPT ![prog.fout] = Put(Output, prog.at, u)]
    BY <1>3 DEF Write, Output
  <2>2. Put(Output, prog.at, u) \in Seq(Units)
    BY <1>3, PutIs
  <2> QED
    BY <1>1, <1>3, <2>1, <2>2, ExceptSeq
<1> QED
  BY <1>2, <1>3

LEMMA ListedWritten ==
  ASSUME Listed, data' \in Seq(Seq(Units)), DOMAIN data' = DOMAIN data,
         UNCHANGED <<dir, runs, orig, given>>
  PROVE  Listed'
BY DEF Listed

\* The output of a process that copies is written to at its end.
LEMMA AtItsEnd ==
  ASSUME Inv, Writing
  PROVE  prog.fout # 0 => /\ prog.fout \in 1..Len(data)
                         /\ Output \in Seq(Units) /\ prog.at = Len(Output) + 1
<1>1. Opened /\ Reading
  BY DEF Writing, Opened, Reading
<1>2. prog.fout # 0 => prog.fout \in 1..Len(data) /\ Output \in Seq(Units)
  BY <1>1, OutputIs
<1>3. CASE prog.pc = "begin"
  BY <1>2, <1>3 DEF Inv, Copied
<1>4. CASE prog.pc = "copy" /\ Decoding
  <2>1. prog.pos \in Nat /\ prog.at = prog.pos - 1
    BY <1>1, <1>4, InputIs DEF Inv, Copied, Copying
  <2>2. prog.fout # 0 => Len(Output) = prog.pos - 2
    BY <1>4 DEF Inv, Copied, Copying, DecodedTo
  <2> QED
    BY <1>2, <2>1, <2>2
<1>5. CASE prog.pc = "copy" /\ ~Decoding
  <2>1. prog.pos \in Nat /\ prog.at = prog.pos + 1
    BY <1>1, <1>5, InputIs DEF Inv, Copied, Copying
  <2>2. prog.fout # 0 => Len(Output) = prog.pos
    BY <1>5 DEF Inv, Copied, Copying, EncodedTo
  <2> QED
    BY <1>2, <2>1, <2>2
<1> QED
  BY <1>3, <1>4, <1>5 DEF Writing

\* The process goes on with the same files, and writes.
Continues == Moves /\ prog'.fin = prog.fin /\ prog'.fout = prog.fout

LEMMA WrittenIs ==
  ASSUME Inv, Writing, NEW u \in Units, Write(u), UNCHANGED <<dir, runs, orig, given>>
  PROVE  /\ Listed' /\ Len(data') = Len(data) /\ DOMAIN data' = DOMAIN data
         /\ \A i \in 1..Len(data) : i # prog.fout => data'[i] = data[i]
         /\ prog.fout # 0 => data'[prog.fout] = Put(Output, prog.at, u)
BY AtItsEnd, WriteIs, ListedWritten DEF Inv

LEMMA ContinuesIs ==
  ASSUME Inv, Writing, NEW u \in Units, Write(u), Continues, Opened',
         UNCHANGED <<dir, runs, orig, given>>
  PROVE  /\ Listed' /\ Formed' /\ Target' /\ (Decoding' <=> Decoding) /\ Input' = Input
         /\ prog.fout # 0 => Output' = Put(Output, prog.at, u)
<1>1. Opened /\ Reading /\ Reading' /\ ~Before'
  BY DEF Writing, Opened, Reading, Before
<1>2. /\ Listed' /\ Len(data') = Len(data)
      /\ \A i \in 1..Len(data) : i # prog.fout => data'[i] = data[i]
      /\ prog.fout # 0 => data'[prog.fout] = Put(Output, prog.at, u)
  BY WrittenIs
<1>3. Formed' /\ (Decoding' <=> Decoding)
  BY <1>1, MovedIs DEF Inv, Continues
<1>4. Input' = Input
  <2>1. prog.fin \in 1..Len(data) /\ prog.fin # prog.fout
    <3>1. prog.fin \in 1..Len(data) /\ Len(data) \in Nat
      BY <1>1, InputIs DEF Inv, Listed
    <3>2. prog.fout # 0 => prog.fout # prog.fin
      BY <1>1, OutputIs
    <3> QED
      BY <3>1, <3>2
  <2> QED
    BY <1>2, <2>1 DEF Input, Continues
<1>5. prog.fout # 0 => Output' = Put(Output, prog.at, u)
  BY <1>2 DEF Output, Continues
<1>6. Target'
  BY <1>1 DEF Target, Inv, Continues, Moves
<1> QED
  BY <1>2, <1>3, <1>4, <1>5, <1>6

LEMMA InvWriteHeader ==
  ASSUME Inv, WriteHeader
  PROVE  Inv'
<1>1. /\ prog.pc = "begin" /\ Writing /\ Opened /\ Reading /\ Head0 \in Units /\ Write(Head0)
      /\ UNCHANGED <<dir, runs, orig, given>>
  BY UnitTypes DEF WriteHeader, At, Writing, Opened, Reading
<1>2. prog' = [prog EXCEPT !.pc = "copy", !.at = 2]
  BY DEF WriteHeader
<1>3. Continues /\ prog'.pc = "copy" /\ prog'.at = 2 /\ prog'.pos = prog.pos
  BY <1>2 DEF Inv, Formed, Off, Moves, Continues
<1>4. Opened'
  BY <1>3 DEF Opened
<1>5. /\ Listed' /\ Formed' /\ Target' /\ (Decoding' <=> Decoding) /\ Input' = Input
      /\ prog.fout # 0 => Output' = Put(Output, prog.at, Head0)
  BY <1>1, <1>3, <1>4, ContinuesIs
<1>6. /\ ~Decoding /\ prog.pos = 1 /\ prog.at = 1
      /\ prog.fout # 0 => Output = <<>>
  BY <1>1 DEF Inv, Copied
<1>7. Input \in Seq(Units) /\ Len(Input) \in Nat
  BY <1>1, InputIs
<1>8. prog.fout # 0 => EncodedTo(Input, Output', 1)
  <2> SUFFICES ASSUME prog.fout # 0 PROVE EncodedTo(Input, Output', 1)
    OBVIOUS
  <2>1. Output \in Seq(Units) /\ Len(Output) = 0
    BY <1>6, EmptySeq
  <2>2. /\ Len(Put(Output, Len(Output) + 1, Head0)) = Len(Output) + 1
        /\ Put(Output, Len(Output) + 1, Head0)[Len(Output) + 1] = Head0
    BY <2>1, UnitTypes, PutIs
  <2>3. Len(Output') = 1 /\ Output'[1] = Head0
    BY <1>5, <1>6, <2>1, <2>2
  <2> QED
    BY <2>3 DEF EncodedTo
<1>9. Copying'
  BY <1>3, <1>5, <1>6, <1>7, <1>8 DEF Copying, Continues
<1> QED
  BY <1>3, <1>5, <1>9 DEF Inv, Copied

LEMMA SliceType ==
  ASSUME Inv, CopySlice
  PROVE  Deeper(Input[prog.pos], IF Decoding THEN -1 ELSE 1) \in Units
<1> DEFINE u == Deeper(Input[prog.pos], IF Decoding THEN -1 ELSE 1)
<1>1. /\ Reading /\ Copying /\ prog.pos <= Len(Input)
      /\ Decoding => Input[prog.pos].depth > 0
  BY DEF CopySlice, At, Opened, Reading, Inv, Copied
<1>2. Input \in Seq(Units) /\ Len(Input) \in Nat
  BY <1>1, InputIs
<1>3. prog.pos \in 1..Len(Input)
  BY <1>1, <1>2 DEF Copying
<1>4. Input[prog.pos] \in Units /\ Input[prog.pos].depth \in Nat
  BY <1>2, <1>3, ElementOfSeq, UnitFields
<1>5. CASE Decoding
  <2>1. -1 \in Int /\ Input[prog.pos].depth + (-1) >= 0
    BY <1>1, <1>4, <1>5
  <2> QED
    BY <1>4, <1>5, <2>1, DeeperType
<1>6. CASE ~Decoding
  <2>1. 1 \in Int /\ Input[prog.pos].depth + 1 >= 0
    BY <1>4
  <2> QED
    BY <1>4, <1>6, <2>1, DeeperType
<1> QED
  BY <1>5, <1>6

LEMMA InvCopySlice ==
  ASSUME Inv, CopySlice
  PROVE  Inv'
<1>1. /\ prog.pc = "copy" /\ Writing /\ Opened /\ Reading /\ Copying
      /\ prog.pos <= Len(Input) /\ (Decoding => Input[prog.pos].depth > 0)
      /\ UNCHANGED <<dir, runs, orig, given>>
  BY DEF CopySlice, At, Writing, Opened, Reading, Inv, Copied
<1>2. Input \in Seq(Units) /\ Len(Input) \in Nat
  BY <1>1, InputIs
<1>3. CASE prog.out.to = "nil"
  <2>1. NoFile /\ Raise("NoMethodError")
    BY <1>1, <1>3 DEF CopySlice, NoFile, Inv, Listed
  <2> QED
    BY <2>1, RaiseLeaves, InvLeaves DEF Inv
<1>4. CASE prog.out.to # "nil"
  <2> DEFINE u == Deeper(Input[prog.pos], IF Decoding THEN -1 ELSE 1)
  <2>1. Write(u) /\ prog' = [prog EXCEPT !.pos = prog.pos + 1, !.at = prog.at + 1]
    BY <1>4 DEF CopySlice
  <2>2. u \in Units
    BY SliceType
  <2>3. /\ Continues /\ prog'.pc = "copy"
        /\ prog'.pos = prog.pos + 1 /\ prog'.at = prog.at + 1
    BY <1>1, <2>1 DEF Inv, Formed, Off, Moves, Continues
  <2>5. Opened'
    BY <2>3 DEF Opened
  <2> HIDE DEF u
  <2>6. /\ Listed' /\ Formed' /\ Target' /\ (Decoding' <=> Decoding) /\ Input' = Input
        /\ prog.fout # 0 => Output' = Put(Output, prog.at, u)
    BY <1>1, <2>1, <2>2, <2>3, <2>5, ContinuesIs
  <2>7. prog.fout # 0 => Output \in Seq(Units)
    BY <1>1, OutputIs
  <2>8. CASE Decoding
    <3>1. prog.pos \in 2..Len(Input) /\ prog.at = prog.pos - 1
      BY <1>1, <1>2, <2>8 DEF Copying
    <3>2. u = Deeper(Input[prog.pos], -1)
      BY <2>8 DEF u
    <3>3. prog.fout # 0 => DecodedTo(Input, Output', prog.pos + 1)
      BY <1>1, <1>2, <2>6, <2>7, <2>8, <3>1, <3>2, DecodedMore DEF Copying
    <3> QED
      BY <1>2, <2>3, <2>6, <2>8, <3>1, <3>3 DEF Inv, Copied, Copying, Continues
  <2>9. CASE ~Decoding
    <3>1. prog.pos \in 1..Len(Input) /\ prog.at = prog.pos + 1
      BY <1>1, <1>2, <2>9 DEF Copying
    <3>2. u = Deeper(Input[prog.pos], 1)
      BY <2>9 DEF u
    <3>3. prog.fout # 0 => EncodedTo(Input, Output', prog.pos + 1)
      BY <1>1, <1>2, <2>6, <2>7, <2>9, <3>1, <3>2, EncodedMore DEF Copying
    <3> QED
      BY <1>2, <2>3, <2>6, <2>9, <3>1, <3>3 DEF Inv, Copied, Copying, Continues
  <2> QED
    BY <2>8, <2>9
<1> QED
  BY <1>3, <1>4

LEMMA StaysIs ==
  ASSUME Inv, NoFile, Opened, Continues, Opened'
  PROVE  /\ Listed' /\ Formed' /\ Target'
         /\ (Decoding' <=> Decoding) /\ Input' = Input /\ Output' = Output
<1>1. Reading /\ Reading' /\ ~Before'
  BY DEF Opened, Reading, Before
<1>2. Formed' /\ (Decoding' <=> Decoding)
  BY MovedIs DEF Inv, Continues
<1>3. Input' = Input /\ Output' = Output
  BY DEF Input, Output, NoFile, Continues
<1>4. Target'
  BY <1>1 DEF Target, Inv, Continues, Moves, NoFile
<1> QED
  BY <1>2, <1>3, <1>4, ListedKept DEF Inv

LEMMA InvEndOfInput ==
  ASSUME Inv, EndOfInput
  PROVE  Inv'
<1>1. /\ prog.pc = "copy" /\ Writing /\ Opened /\ Reading /\ Copying
      /\ UNCHANGED <<dir, runs, orig, given>>
      /\ prog' = [prog EXCEPT !.pc = "finish"]
  BY DEF EndOfInput, At, Writing, Opened, Reading, Inv, Copied
<1>2. Input \in Seq(Units) /\ Len(Input) \in Nat
  BY <1>1, InputIs
<1>3. Continues /\ prog'.pc = "finish" /\ prog'.pos = prog.pos
  BY <1>1 DEF Inv, Formed, Off, Moves, Continues
<1>4. Opened'
  BY <1>3 DEF Opened
<1>5. prog.out.to = "file" => prog.fout # 0 /\ Output \in Seq(Units)
  BY <1>1, OutputIs
<1>6. CASE Decoding
  <2>1. NoFile /\ (StatusZero \/ (prog.pos <= Len(Input) /\ Input[prog.pos] = End))
    BY <1>1, <1>6 DEF EndOfInput, NoFile, Inv, Listed
  <2>2. /\ Listed' /\ Formed' /\ Target'
        /\ (Decoding' <=> Decoding) /\ Input' = Input /\ Output' = Output
    BY <1>1, <1>3, <1>4, <2>1, StaysIs
  <2>3. ASSUME Checked, prog.out.to = "file" PROVE Whole
    <3>1. prog.pos <= Len(Input) /\ Input[prog.pos] = End
      BY <2>1, <2>3 DEF StatusZero
    <3>2. prog.pos \in 2..Len(Input) /\ DecodedTo(Input, Output, prog.pos)
      BY <1>1, <1>2, <1>5, <1>6, <2>3, <3>1 DEF Copying
    <3> QED
      BY <1>2, <1>5, <1>6, <2>3, <3>1, <3>2, DecodedAll DEF Whole
  <2>4. Checked /\ prog.out.to = "file" => Whole'
    BY <2>2, <2>3 DEF Whole
  <2>5. Copied'
    BY <1>3, <2>4 DEF Copied, Continues, Moves
  <2> QED
    BY <2>2, <2>5 DEF Inv
<1>7. CASE ~Decoding
  <2>1. prog.pos > Len(Input) /\ Write(End) /\ End \in Units
    BY <1>7, UnitTypes DEF EndOfInput
  <2>2. /\ Listed' /\ Formed' /\ Target' /\ (Decoding' <=> Decoding) /\ Input' = Input
        /\ prog.fout # 0 => Output' = Put(Output, prog.at, End)
    BY <1>1, <1>3, <1>4, <2>1, ContinuesIs
  <2>3. ASSUME prog.out.to = "file" PROVE Whole'
    <3>1. /\ prog.pos \in Nat /\ prog.pos = Len(Input) + 1 /\ prog.at = prog.pos + 1
          /\ EncodedTo(Input, Output, prog.pos)
      BY <1>1, <1>2, <1>5, <1>7, <2>1, <2>3 DEF Copying
    <3>2. HasFrame(Input, Put(Output, prog.pos + 1, End))
      BY <1>2, <1>5, <2>3, <3>1, EncodedAll
    <3>3. Output' = Put(Output, prog.pos + 1, End)
      BY <1>5, <2>2, <2>3, <3>1
    <3>4. HasFrame(Input, Output')
      BY <3>2, <3>3
    <3>5. HasFrame(Input, Output)'
      BY <2>2, <3>4 DEF HasFrame
    <3> QED
      BY <1>7, <2>2, <3>5 DEF Whole
  <2>4. Copied'
    BY <1>3, <2>3 DEF Copied, Continues, Moves
  <2> QED
    BY <2>2, <2>4 DEF Inv
<1> QED
  BY <1>6, <1>7

LEMMA InvFails ==
  ASSUME Inv, Fails
  PROVE  Inv'
<1>1. Leaves
  BY RaiseLeaves DEF Fails, Inv
<1>2. CASE UNCHANGED data
  <2>1. NoFile
    BY <1>2 DEF Fails, NoFile, Inv, Listed
  <2> QED
    BY <1>1, <2>1, InvLeaves
<1>3. CASE At("copy") /\ Write(End)
  <2>1. Writing /\ End \in Units /\ UNCHANGED <<dir, runs, orig, given>>
    BY <1>3, UnitTypes DEF At, Writing, Fails
  <2>2. Listed'
    BY <1>3, <2>1, WrittenIs
  <2> QED
    BY <1>1, <2>2, LeftIs DEF Inv
<1> QED
  BY <1>2, <1>3 DEF Fails

LEMMA OpensIs ==
  ASSUME Inv, prog.pc = "output", NEW fout, Opens(fout), Input' = Input,
         prog.in \in DOMAIN dir', dir'[prog.in] = dir[prog.in],
         IF prog.out.to = "file"
           THEN /\ prog.out.path \in DOMAIN dir' /\ fout = dir'[prog.out.path]
                /\ data'[fout] = <<>>
           ELSE fout = 0
  PROVE  (Formed /\ Target /\ Copied)'
<1>1. Before /\ Reading /\ Started
  BY DEF Before, Reading, Inv, Copied
<1>2. prog' = [prog EXCEPT !.pc = IF Decoding THEN "copy" ELSE "begin",
                           !.fout = fout, !.at = 1]
  BY DEF Opens
<1>3. /\ Moves /\ prog'.pc = IF Decoding THEN "copy" ELSE "begin"
      /\ prog'.fin = prog.fin /\ prog'.pos = prog.pos
      /\ prog'.fout = fout /\ prog'.at = 1
  BY <1>2 DEF Inv, Formed, Off, Moves
<1>4. Opened' /\ Reading' /\ ~Before'
  BY <1>3 DEF Opened, Reading, Before
<1>5. Formed' /\ (Decoding' <=> Decoding)
  BY <1>1, <1>3, MovedIs DEF Inv
<1>6. Target'
  BY <1>1, <1>3, <1>4 DEF Target, Inv, Moves
<1>7. fout # 0 => Output' = <<>>
  BY <1>3 DEF Output
<1>8. CASE Decoding
  <2>1. prog.pos = 2 /\ Input # <<>> /\ Input[1] = Head0 /\ Input \in Seq(Units)
    BY <1>1, <1>8, InputIs DEF Started
  <2>2. Len(Input) \in Nat /\ Len(Input) # 0
    BY <2>1, EmptySeq
  <2>3. 2 \in 2..(Len(Input) + 1)
    BY <2>2
  <2>4. Len(<<>>) = 0
    OBVIOUS
  <2>5. DecodedTo(Input, <<>>, 2)
    BY <2>1, <2>4 DEF DecodedTo
  <2>6. Copying'
    BY <1>3, <1>5, <1>7, <1>8, <2>1, <2>3, <2>5 DEF Copying
  <2> QED
    BY <1>3, <1>5, <1>6, <1>8, <2>6 DEF Copied
<1>9. CASE ~Decoding
  <2>1. prog.pos = 1
    BY <1>1, <1>9 DEF Started
  <2> QED
    BY <1>3, <1>5, <1>6, <1>7, <1>9, <2>1 DEF Copied
<1> QED
  BY <1>8, <1>9

\* What happens to the files when the output is opened.
Untouched == prog.out.to # "file" /\ Opens(0) /\ UNCHANGED <<dir, data, given>>

Emptied ==
  /\ prog.out.to = "file" /\ prog.out.path \in DOMAIN dir
  /\ prog.opts.force /\ Opens(dir[prog.out.path])
  /\ data' = [data EXCEPT ![dir[prog.out.path]] = <<>>]
  /\ given' = given \cup LostWith(dir[prog.out.path])
  /\ UNCHANGED dir

Created ==
  /\ prog.out.to = "file" /\ prog.out.path \notin DOMAIN dir
  /\ Creates(prog.out.path) /\ UNCHANGED given

LEMMA OpenOutputIs ==
  ASSUME Inv, OpenOutput
  PROVE  /\ prog.pc = "output" /\ Before /\ Reading /\ UNCHANGED <<runs, orig>>
         /\ Untouched \/ Emptied \/ Created
<1>1. prog.pc = "output" /\ Before /\ Reading /\ UNCHANGED <<runs, orig>>
  BY DEF OpenOutput, At, Before, Reading
<1>2. prog.out.to = "file" /\ prog.out.path \in DOMAIN dir => prog.opts.force
  BY <1>1 DEF Inv, Target
<1> QED
  BY <1>1, <1>2 DEF OpenOutput, Untouched, Emptied, Created

LEMMA EmptiedIs ==
  ASSUME Inv, Emptied, Before, Reading
  PROVE  LET fout == dir[prog.out.path]
         IN  /\ fout \in 1..Len(data) /\ fout # prog.fin
             /\ data' \in Seq(Seq(Units)) /\ DOMAIN data' = DOMAIN data
             /\ data'[fout] = <<>> /\ \A i \in 1..Len(data) : i # fout => data'[i] = data[i]
<1> DEFINE fout == dir[prog.out.path]
<1>1. data \in Seq(Seq(Units)) /\ DOMAIN data = 1..Len(data) /\ Len(data) \in Nat
  BY DEF Inv, Listed
<1>2. /\ prog.out.to = "file" /\ prog.out.path \in DOMAIN dir
      /\ data' = [data EXCEPT ![fout] = <<>>]
  BY DEF Emptied
<1>3. fout \in 1..Len(data)
  BY <1>1, <1>2 DEF Inv, Listed
<1>4. prog.out.path # prog.in /\ prog.in \in DOMAIN dir /\ prog.fin = dir[prog.in]
  BY <1>2, OutfileDiffers DEF Inv, Target, Formed
<1>5. fout # prog.fin
  BY <1>2, <1>4 DEF Inv, Listed
<1>6. <<>> \in Seq(Units)
  BY EmptySeq
<1> HIDE DEF fout
<1>7. /\ data' \in Seq(Seq(Units)) /\ DOMAIN data' = DOMAIN data /\ data'[fout] = <<>>
      /\ \A i \in 1..Len(data) : i # fout => data'[i] = data[i]
  BY <1>1, <1>2, <1>3, <1>6, ExceptSeq
<1> QED
  BY <1>3, <1>5, <1>7 DEF fout

LEMMA CreatedIs ==
  ASSUME Inv, Created
  PROVE  LET fout == Len(data) + 1
         IN  /\ Opens(fout) /\ data' \in Seq(Seq(Units)) /\ DOMAIN data' = 1..fout
             /\ data'[fout] = <<>> /\ \A i \in 1..Len(data) : data'[i] = data[i]
             /\ DOMAIN dir' = DOMAIN dir \cup {prog.out.path}
             /\ dir' \in [DOMAIN dir' -> 1..fout]
             /\ dir'[prog.out.path] = fout
             /\ \A p \in DOMAIN dir : dir'[p] = dir[p] /\ dir[p] \in 1..Len(data)
<1> DEFINE fout == Len(data) + 1
           path == prog.out.path
<1>1. data \in Seq(Seq(Units)) /\ Len(data) \in Nat /\ DOMAIN data = 1..Len(data)
  BY DEF Inv, Listed
<1>2. /\ Opens(fout) /\ data' = Append(data, <<>>) /\ path \notin DOMAIN dir
      /\ dir' = [p \in DOMAIN dir \cup {path} |-> IF p = path THEN fout ELSE dir[p]]
  BY DEF Created, Creates
<1>3. <<>> \in Seq(Units)
  BY EmptySeq
<1>4. /\ data' \in Seq(Seq(Units)) /\ Len(data') = fout /\ data'[fout] = <<>>
      /\ \A i \in 1..Len(data) : data'[i] = data[i]
  BY <1>1, <1>2, <1>3, AppendProperties
<1>5. \A p \in DOMAIN dir : dir[p] \in 1..Len(data)
  BY <1>1 DEF Inv, Listed
<1> HIDE DEF path
<1>6. /\ DOMAIN dir' = DOMAIN dir \cup {path} /\ dir'[path] = fout
      /\ \A p \in DOMAIN dir : dir'[p] = dir[p]
  BY <1>2
<1>7. dir' \in [DOMAIN dir' -> 1..fout]
  BY <1>1, <1>2, <1>5, <1>6
<1> QED
  BY <1>1, <1>2, <1>4, <1>5, <1>6, <1>7 DEF path

LEMMA InvOpenOutput ==
  ASSUME Inv, OpenOutput
  PROVE  Inv'
<1>1. /\ prog.pc = "output" /\ Before /\ Reading /\ UNCHANGED <<runs, orig>>
      /\ Untouched \/ Emptied \/ Created
  BY OpenOutputIs
<1>2. prog.in \in DOMAIN dir /\ prog.fin = dir[prog.in] /\ prog.fin \in 1..Len(data)
  BY <1>1, InputIs DEF Inv, Target
<1>3. prog'.fin = prog.fin
  <2>1. \E fout : Opens(fout)
    BY <1>1 DEF Untouched, Emptied, Created, Creates
  <2> QED
    BY <2>1 DEF Opens, Inv, Formed, Off
<1>4. CASE Untouched
  <2>1. NoFile /\ Input' = Input /\ Opens(0) /\ prog.out.to # "file"
    BY <1>1, <1>3, <1>4 DEF Untouched, NoFile, Input, Inv, Listed
  <2>2. (Formed /\ Target /\ Copied)'
    BY <1>1, <1>2, <2>1, OpensIs DEF NoFile
  <2> QED
    BY <2>1, <2>2, ListedKept DEF Inv
<1>5. CASE Emptied
  <2> DEFINE fout == dir[prog.out.path]
  <2>1. /\ fout \in 1..Len(data) /\ fout # prog.fin
        /\ data' \in Seq(Seq(Units)) /\ DOMAIN data' = DOMAIN data
        /\ data'[fout] = <<>> /\ \A i \in 1..Len(data) : i # fout => data'[i] = data[i]
    BY <1>1, <1>5, EmptiedIs
  <2>2. Input' = Input
    BY <1>2, <1>3, <2>1 DEF Input
  <2>3. /\ prog.out.to = "file" /\ prog.out.path \in DOMAIN dir /\ Opens(fout)
        /\ dir' = dir
    BY <1>5 DEF Emptied
  <2>4. (Formed /\ Target /\ Copied)'
    BY <1>1, <1>2, <2>1, <2>2, <2>3, OpensIs
  <2>5. given' \subseteq DOMAIN orig
    BY <1>5 DEF Emptied, LostWith, Inv, Listed
  <2>6. Listed'
    BY <1>1, <2>1, <2>3, <2>5 DEF Inv, Listed
  <2> QED
    BY <2>4, <2>6 DEF Inv
<1>6. CASE Created
  <2> DEFINE fout == Len(data) + 1
  <2>1. /\ Opens(fout) /\ data' \in Seq(Seq(Units)) /\ DOMAIN data' = 1..fout
        /\ data'[fout] = <<>> /\ \A i \in 1..Len(data) : data'[i] = data[i]
        /\ DOMAIN dir' = DOMAIN dir \cup {prog.out.path}
        /\ dir' \in [DOMAIN dir' -> 1..fout]
        /\ dir'[prog.out.path] = fout
        /\ \A p \in DOMAIN dir : dir'[p] = dir[p] /\ dir[p] \in 1..Len(data)
    BY <1>6, CreatedIs
  <2>2. Input' = Input
    BY <1>2, <1>3, <2>1 DEF Input
  <2>3. prog.out.to = "file"
    BY <1>6 DEF Created
  <2>4. (Formed /\ Target /\ Copied)'
    BY <1>1, <1>2, <2>1, <2>2, <2>3, OpensIs
  <2>5. ASSUME NEW p \in DOMAIN dir', NEW q \in DOMAIN dir', dir'[p] = dir'[q]
        PROVE  p = q
    <3>1. \A r \in DOMAIN dir : dir'[r] # fout
      <4>1. Len(data) \in Nat
        BY DEF Inv, Listed
      <4> QED
        BY <2>1, <4>1
    <3> QED
      BY <2>1, <2>5, <3>1 DEF Inv, Listed
  <2>6. Listed'
    BY <1>1, <1>6, <2>1, <2>5 DEF Inv, Listed, Created
  <2> QED
    BY <2>4, <2>6 DEF Inv
<1> QED
  BY <1>1, <1>4, <1>5, <1>6

LEMMA InvUnlink ==
  ASSUME Inv, Unlink
  PROVE  Inv'
<1>1. UNCHANGED <<data, runs, orig, given>>
  BY DEF Unlink
<1>2. CASE prog.in \notin DOMAIN dir
  <2>1. NoFile /\ Raise("Errno::ENOENT")
    BY <1>2 DEF Unlink, NoFile, Inv, Listed
  <2> QED
    BY <2>1, RaiseLeaves, InvLeaves DEF Inv
<1>3. CASE prog.in \in DOMAIN dir
  <2>1. /\ dir' = [path \in DOMAIN dir \ {prog.in} |-> dir[path]]
        /\ Leaves
    BY <1>3 DEF Unlink, Leaves, Inv, Formed
  <2>2. Listed'
    BY <1>1, <2>1 DEF Inv, Listed
  <2> QED
    BY <2>1, <2>2, LeftIs DEF Inv
<1> QED
  BY <1>2, <1>3

-----------------------------------------------------------------------------
(* The invariant holds.                                                    *)

\* The first files are listed, each under a path of its own.
LEMMA InitIs ==
  ASSUME FileAssumption, Init
  PROVE  /\ Inv /\ orig = data /\ prog = Off
         /\ \A i \in DOMAIN data : \E path \in DOMAIN dir : dir[path] = i
<1>1. PICK disk \in Disks :
        /\ data = [i \in DOMAIN disk |-> disk[i].holds]
        /\ dir = [path \in {disk[i].path : i \in DOMAIN disk} |->
                    CHOOSE i \in DOMAIN disk : disk[i].path = path]
        /\ prog = Off /\ runs = 0 /\ orig = data /\ given = {}
  BY DEF Init
<1>2. /\ DOMAIN disk = 1..Len(disk) /\ Len(disk) \in Nat
      /\ \A i \in 1..Len(disk) : disk[i].holds \in Seq(Units)
      /\ \A i, j \in 1..Len(disk) : disk[i].path = disk[j].path => i = j
  <2>1. disk \in Seq([path : Paths, holds : Seq(Units)])
    BY DEF FileAssumption
  <2>2. \A i \in 1..Len(disk) : disk[i] \in [path : Paths, holds : Seq(Units)]
    BY <2>1, ElementOfSeq
  <2> QED
    BY <2>1, <2>2 DEF FileAssumption
<1>3. data \in Seq(Seq(Units)) /\ DOMAIN data = 1..Len(disk)
  <2> DEFINE f(i) == disk[i].holds
  <2>1. data = [i \in 1..Len(disk) |-> f(i)] /\ \A i \in 1..Len(disk) : f(i) \in Seq(Units)
    BY <1>1, <1>2
  <2> HIDE DEF f
  <2> QED
    BY <1>2, <2>1, IsASeq
<1>4. ASSUME NEW path \in DOMAIN dir
      PROVE  dir[path] \in 1..Len(disk) /\ disk[dir[path]].path = path
  <2>1. dir[path] = CHOOSE i \in 1..Len(disk) : disk[i].path = path
    BY <1>1, <1>2
  <2>2. \E i \in 1..Len(disk) : disk[i].path = path
    BY <1>1, <1>2
  <2> QED
    BY <2>1, <2>2
<1>5. ASSUME NEW i \in DOMAIN data PROVE \E path \in DOMAIN dir : dir[path] = i
  <2>1. disk[i].path \in DOMAIN dir /\ i \in 1..Len(disk)
    BY <1>1, <1>2, <1>3
  <2>2. dir[disk[i].path] = i
    BY <1>2, <1>4, <2>1
  <2> QED
    BY <2>1, <2>2
<1>6. Listed
  <2>1. dir \in [DOMAIN dir -> DOMAIN data]
    BY <1>1, <1>3, <1>4
  <2>2. 0 \in 0..MaxRuns
    BY DEF FileAssumption
  <2> QED
    BY <1>1, <1>3, <1>4, <2>1, <2>2 DEF Listed
<1>7. prog.pc = "off" /\ prog.todo = <<>>
  BY <1>1 DEF Off
<1>8. Formed /\ Target /\ Copied
  BY <1>1, <1>7, EmptySeq DEF Formed, Target, Copied, Before, Opened, Reading
<1> QED
  BY <1>1, <1>5, <1>6, <1>8 DEF Inv

LEMMA InvStutter ==
  ASSUME Inv, UNCHANGED vars
  PROVE  Inv'
<1>1. /\ Listed' /\ Formed'
  BY DEF vars, Inv, Listed, Formed, Before, Opened
<1>2. Target'
  BY DEF vars, Inv, Target, Before, Opened, Reading
<1>3. Copied'
  BY DEF vars, Inv, Copied, Started, Copying, Whole, Decoding, Input, Output
<1> QED
  BY <1>1, <1>2, <1>3 DEF Inv

\* Exit, Malformed and Kill.
LEMMA InvStops ==
  ASSUME Inv, Exit \/ Malformed \/ Kill
  PROVE  Inv'
<1>1. NoFile
  BY DEF Exit, Malformed, Kill, NoFile, Inv, Listed
<1>2. Leaves
  BY RaiseLeaves DEF Exit, Malformed, Kill, Leaves, Inv
<1> QED
  BY <1>1, <1>2, InvLeaves

LEMMA InvStep ==
  ASSUME FileAssumption, Inv, [Next]_vars
  PROVE  Inv'
<1>1. CASE Run
  BY <1>1, InvFileOperation, InvOpenInput, InvReadHeader, InvOpenOutput, InvWriteHeader,
     InvCopySlice, InvEndOfInput, InvFails, InvCopyTime, InvUnlink, InvStops DEF Run
<1> QED
  BY <1>1, InvBegin, InvStutter DEF Next

LEMMA InvHolds == Spec => []Inv
<1>1. Init => Inv
  BY FileAssumption, InitIs
<1>2. Inv /\ [Next]_vars => Inv'
  BY FileAssumption, InvStep
<1> QED
  BY <1>1, <1>2, PTL DEF Spec

\* TypeOK: while it copies, the program works on files that are there or were,
\* does not read past the end of its input and leaves no gap in its output.
THEOREM FileTypes == Spec => []TypeOK
<1>1. ASSUME Inv PROVE TypeOK
  <2>1. ASSUME prog.pc = "copy"
        PROVE  /\ prog.pos \in 1..(Len(Input) + 1)
               /\ prog.fout = 0 \/ (prog.fout \in DOMAIN data
                                    /\ prog.at = Len(data[prog.fout]) + 1)
    <3>1. Writing /\ Opened /\ Reading /\ Copying
      BY <1>1, <2>1 DEF Writing, Opened, Reading, Inv, Copied
    <3>2. Len(Input) \in Nat
      BY <1>1, <3>1, InputIs
    <3>3. DOMAIN data = 1..Len(data)
      BY <1>1 DEF Inv, Listed
    <3> QED
      BY <1>1, <3>1, <3>2, <3>3, AtItsEnd DEF Copying, Output
  <2> QED
    BY <1>1, <2>1 DEF Inv, Listed, TypeOK
<1> QED
  BY <1>1, InvHolds, PTL

-----------------------------------------------------------------------------
(* Nothing is lost.                                                        *)

\* What was there at first is in a file other than the one being written.
Held ==
  \A o \in DOMAIN orig :
    \/ o \in given \/ Trails(orig[o])
    \/ \E path \in DOMAIN dir : /\ Same(data[dir[path]], orig[o])
                                /\ Writing => dir[path] # prog.fout

LEMMA HeldInit ==
  ASSUME FileAssumption, Init
  PROVE  Held
<1>1. /\ Inv /\ orig = data /\ prog = Off
      /\ \A i \in DOMAIN data : \E path \in DOMAIN dir : dir[path] = i
  BY InitIs
<1>2. ~Writing
  BY <1>1 DEF Writing, Off
<1>3. \A i \in DOMAIN data : Same(data[i], data[i])
  BY <1>1, ElementOfSeq, SameReflexive DEF Inv, Listed
<1> QED
  BY <1>1, <1>2, <1>3 DEF Held

\* Every file but the one being written stays as it is.
Stay ==
  /\ orig' = orig /\ given \subseteq given'
  /\ \A path \in DOMAIN dir :
       (Writing => dir[path] # prog.fout) =>
         /\ path \in DOMAIN dir' /\ dir'[path] = dir[path]
         /\ data'[dir[path]] = data[dir[path]]
         /\ Writing' => dir[path] # prog'.fout

LEMMA HeldKept ==
  ASSUME Held, Stay
  PROVE  Held'
<1> SUFFICES ASSUME NEW o \in DOMAIN orig, o \notin given, ~Trails(orig[o])
             PROVE  \E path \in DOMAIN dir' : /\ Same(data'[dir'[path]], orig[o])
                                              /\ Writing' => dir'[path] # prog'.fout
  BY DEF Held, Stay
<1>1. PICK path \in DOMAIN dir : /\ Same(data[dir[path]], orig[o])
                                 /\ Writing => dir[path] # prog.fout
  BY DEF Held
<1> QED
  BY <1>1 DEF Stay

LEMMA HeldIdle ==
  ASSUME Held, NoFile, ~Writing'
  PROVE  Held'
<1>1. Stay
  BY DEF Stay, NoFile
<1> QED
  BY <1>1, HeldKept

LEMMA HeldLeaves ==
  ASSUME Held, NoFile, Leaves
  PROVE  Held'
<1>1. ~Writing'
  BY LeftIs DEF Writing
<1> QED
  BY <1>1, HeldIdle

LEMMA HeldMoves ==
  ASSUME FileAssumption, Inv, Held,
         \/ \E cmd \in Commands : Begin(cmd)
         \/ file_operation \/ OpenInput \/ ReadHeader \/ CopyTime
         \/ Exit \/ Malformed \/ Kill
  PROVE  Held'
<1>1. NoFile
  <2>1. runs \in 0..MaxRuns
    BY DEF Inv, Listed
  <2>2. ASSUME NEW cmd \in Commands, Begin(cmd) PROVE NoFile
    <3>1. MaxRuns \in Nat
      BY DEF FileAssumption
    <3>2. runs < MaxRuns /\ runs' = runs + 1 /\ UNCHANGED <<dir, data, orig, given>>
      BY <2>2 DEF Begin
    <3>3. runs' \in 0..MaxRuns
      BY <2>1, <3>1, <3>2
    <3> QED
      BY <3>2, <3>3 DEF NoFile
  <2>3. ASSUME file_operation \/ OpenInput \/ ReadHeader \/ CopyTime PROVE NoFile
    BY <2>1, <2>3 DEF NoFile, file_operation, OpenInput, ReadHeader, CopyTime
  <2>4. ASSUME Exit \/ Malformed \/ Kill PROVE NoFile
    BY <2>1, <2>4 DEF NoFile, Exit, Malformed, Kill
  <2> QED
    BY <2>2, <2>3, <2>4
<1>2. CASE Leaves
  BY <1>1, <1>2, HeldLeaves
<1>3. CASE ~Leaves
  <2>1. ASSUME NEW cmd \in Commands, Begin(cmd) PROVE prog'.pc = "next"
    BY <2>1 DEF Begin, Off
  <2>2. ASSUME file_operation PROVE prog'.pc = "open"
    <3>1. Tail(prog.todo) \in Seq(Paths)
      BY <2>2, HeadTailProperties DEF Inv, Formed, file_operation
    <3>2. ~NextFile(Tail(prog.todo))
      BY <1>3, <3>1 DEF Leaves
    <3> QED
      BY <2>2, <3>2 DEF file_operation, Inv, Formed, Off
  <2>3. ASSUME OpenInput PROVE prog'.pc \in {"header", "output"}
    BY <1>3, <2>3, RaiseLeaves DEF OpenInput, Inv, Formed, Off
  <2>4. ASSUME ReadHeader PROVE prog'.pc = "output"
    BY <1>3, <2>4, RaiseLeaves DEF ReadHeader, Inv, Formed, Off
  <2>5. ASSUME CopyTime PROVE prog'.pc = "unlink"
    <3>1. NextFile(prog.todo) => Leaves
      BY DEF Leaves, Inv, Formed
    <3> QED
      BY <1>3, <2>5, <3>1, RaiseLeaves DEF CopyTime, Inv, Formed, Off
  <2>6. ~Exit /\ ~Malformed /\ ~Kill
    BY <1>3, RaiseLeaves DEF Exit, Malformed, Kill, Leaves, Inv
  <2>7. ~Writing'
    BY <2>1, <2>2, <2>3, <2>4, <2>5, <2>6 DEF Writing
  <2> QED
    BY <1>1, <2>7, HeldIdle
<1> QED
  BY <1>2, <1>3

LEMMA HeldWritten ==
  ASSUME Inv, Held, Writing, NEW u \in Units, Write(u), UNCHANGED <<dir, runs, orig, given>>,
         Writing' => prog'.fout = prog.fout
  PROVE  Held'
<1>1. \A i \in 1..Len(data) : i # prog.fout => data'[i] = data[i]
  BY WrittenIs
<1>2. \A path \in DOMAIN dir : dir[path] \in 1..Len(data)
  BY DEF Inv, Listed
<1>3. Stay
  BY <1>1, <1>2 DEF Stay
<1> QED
  BY <1>3, HeldKept

LEMMA HeldWrites ==
  ASSUME Inv, Held, WriteHeader \/ CopySlice \/ EndOfInput \/ Fails
  PROVE  Held'
<1>1. CASE WriteHeader
  <2>1. Writing /\ Head0 \in Units /\ Write(Head0) /\ UNCHANGED <<dir, runs, orig, given>>
    BY <1>1, UnitTypes DEF WriteHeader, At, Writing
  <2>2. prog'.fout = prog.fout
    BY <1>1 DEF WriteHeader, Inv, Formed, Off
  <2> QED
    BY <2>1, <2>2, HeldWritten
<1>2. CASE CopySlice
  <2>1. Writing /\ UNCHANGED <<dir, runs, orig, given>>
    BY <1>2 DEF CopySlice, At, Writing
  <2>2. CASE prog.out.to = "nil"
    <3>1. NoFile /\ Raise("NoMethodError")
      BY <1>2, <2>2 DEF CopySlice, NoFile, Inv, Listed
    <3> QED
      BY <3>1, RaiseLeaves, HeldLeaves DEF Inv
  <2>3. CASE prog.out.to # "nil"
    <3>1. PICK u : u = Deeper(Input[prog.pos], IF Decoding THEN -1 ELSE 1) /\ Write(u)
      BY <1>2, <2>3 DEF CopySlice
    <3>2. u \in Units
      BY <1>2, <3>1, SliceType
    <3>3. prog'.fout = prog.fout
      BY <1>2, <2>3 DEF CopySlice, Inv, Formed, Off
    <3> QED
      BY <2>1, <3>1, <3>2, <3>3, HeldWritten
  <2> QED
    BY <2>2, <2>3
<1>3. CASE EndOfInput
  <2>1. /\ Writing /\ End \in Units /\ UNCHANGED <<dir, runs, orig, given>>
        /\ ~Writing'
    BY <1>3, UnitTypes DEF EndOfInput, At, Writing, Inv, Formed, Off
  <2>2. CASE Decoding
    <3>1. NoFile
      BY <1>3, <2>2 DEF EndOfInput, NoFile, Inv, Listed
    <3> QED
      BY <2>1, <3>1, HeldIdle
  <2>3. CASE ~Decoding
    <3>1. Write(End)
      BY <1>3, <2>3 DEF EndOfInput
    <3> QED
      BY <2>1, <3>1, HeldWritten
  <2> QED
    BY <2>2, <2>3
<1>4. CASE Fails
  <2>1. Leaves /\ UNCHANGED <<dir, runs, orig, given>>
    BY <1>4, RaiseLeaves DEF Fails, Inv
  <2>2. ~Writing'
    BY <2>1, LeftIs DEF Writing
  <2>3. CASE UNCHANGED data
    <3>1. NoFile
      BY <2>1, <2>3 DEF NoFile, Inv, Listed
    <3> QED
      BY <2>1, <3>1, HeldLeaves
  <2>4. CASE At("copy") /\ Write(End)
    <3>1. Writing /\ End \in Units
      BY <2>4, UnitTypes DEF At, Writing
    <3> QED
      BY <2>1, <2>2, <2>4, <3>1, HeldWritten
  <2> QED
    BY <1>4, <2>3, <2>4 DEF Fails
<1> QED
  BY <1>1, <1>2, <1>3, <1>4

LEMMA HeldOpens ==
  ASSUME Inv, Held, OpenOutput
  PROVE  Held'
<1>1. /\ prog.pc = "output" /\ Before /\ Reading /\ UNCHANGED <<runs, orig>>
      /\ Untouched \/ Emptied \/ Created
  BY OpenOutputIs
<1>2. /\ \A fout : Opens(fout) => prog'.fout = fout
      /\ \A path \in DOMAIN dir : dir[path] \in 1..Len(data)
      /\ Len(data) \in Nat /\ ~Writing
  <2>1. ASSUME NEW fout, Opens(fout) PROVE prog'.fout = fout
    BY <2>1 DEF Opens, Inv, Formed, Off
  <2>2. ~Writing
    BY <1>1 DEF Writing
  <2>3. (\A path \in DOMAIN dir : dir[path] \in 1..Len(data)) /\ Len(data) \in Nat
    BY DEF Inv, Listed
  <2> QED
    BY <2>1, <2>2, <2>3
<1>3. CASE Untouched
  <2>1. Stay
    BY <1>1, <1>2, <1>3 DEF Untouched, Stay
  <2> QED
    BY <2>1, HeldKept
<1>4. CASE Emptied
  <2> DEFINE fout == dir[prog.out.path]
  <2>1. \A i \in 1..Len(data) : i # fout => data'[i] = data[i]
    BY <1>1, <1>4, EmptiedIs
  <2>2. dir' = dir /\ prog'.fout = fout /\ given' = given \cup LostWith(fout)
    BY <1>2, <1>4 DEF Emptied
  <2> HIDE DEF fout
  <2> SUFFICES ASSUME NEW o \in DOMAIN orig, o \notin given', ~Trails(orig[o])
               PROVE  \E path \in DOMAIN dir' : /\ Same(data'[dir'[path]], orig[o])
                                                /\ Writing' => dir'[path] # prog'.fout
    BY <1>1 DEF Held
  <2>3. PICK path \in DOMAIN dir : Same(data[dir[path]], orig[o])
    BY <2>2 DEF Held
  <2>4. \E q \in DOMAIN dir : dir[q] # fout /\ Same(data[dir[q]], orig[o])
    <3>1. CASE dir[path] # fout
      BY <2>3, <3>1
    <3>2. CASE dir[path] = fout
      <4>1. o \notin LostWith(fout) /\ Same(data[fout], orig[o])
        BY <2>2, <2>3, <3>2
      <4> QED
        BY <4>1 DEF LostWith
    <3> QED
      BY <3>1, <3>2
  <2> QED
    BY <1>2, <2>1, <2>2, <2>4
<1>5. CASE Created
  <2>1. /\ Opens(Len(data) + 1) /\ \A i \in 1..Len(data) : data'[i] = data[i]
        /\ DOMAIN dir' = DOMAIN dir \cup {prog.out.path}
        /\ \A p \in DOMAIN dir : dir'[p] = dir[p]
    BY <1>5, CreatedIs
  <2>2. prog'.fout = Len(data) + 1 /\ given' = given
    BY <1>2, <1>5, <2>1 DEF Created
  <2>3. Stay
    BY <1>1, <1>2, <2>1, <2>2 DEF Stay
  <2> QED
    BY <2>3, HeldKept
<1> QED
  BY <1>1, <1>3, <1>4, <1>5

LEMMA HeldUnlink ==
  ASSUME Inv, Held, Checked, Unlink
  PROVE  Held'
<1>1. UNCHANGED <<data, runs, orig, given>> /\ prog.pc = "unlink" /\ Opened /\ Reading
  BY DEF Unlink, At, Opened, Reading
<1>2. /\ Input \in Seq(Units) /\ Output \in Seq(Units)
      /\ prog.in \in DOMAIN dir /\ prog.fin = dir[prog.in]
      /\ prog.out.path \in DOMAIN dir /\ prog.fout = dir[prog.out.path]
      /\ prog.fout # prog.fin /\ Whole
  <2>1. prog.out.to = "file" /\ Whole
    BY <1>1 DEF Inv, Copied
  <2> QED
    BY <1>1, <2>1, InputIs, OutputIs DEF Inv, Target
<1>3. dir' = [path \in DOMAIN dir \ {prog.in} |-> dir[path]] /\ NextFile(prog.todo)
  BY <1>2 DEF Unlink
<1>4. ~Writing'
  BY <1>3, LeftIs DEF Leaves, Inv, Formed, Writing
<1> SUFFICES ASSUME NEW o \in DOMAIN orig, o \notin given, ~Trails(orig[o])
             PROVE  \E path \in DOMAIN dir' : Same(data[dir'[path]], orig[o])
  BY <1>1, <1>4 DEF Held
<1>5. PICK path \in DOMAIN dir : Same(data[dir[path]], orig[o])
  BY DEF Held
<1>6. orig[o] \in Seq(Units)
  BY ElementOfSeq DEF Inv, Listed
<1>7. CASE path # prog.in
  BY <1>3, <1>5, <1>7
<1>8. CASE path = prog.in
  <2>1. Same(Input, orig[o])
    BY <1>2, <1>5, <1>8 DEF Input
  <2>2. ~Trails(Input)
    BY <1>2, <1>6, <2>1, SameTrails
  <2>3. Same(Output, orig[o])
    <3>1. Same(Output, Input)
      BY <1>2, <2>2, FirstIsSame, FrameIsSame DEF Whole
    <3> QED
      BY <1>2, <1>6, <2>1, <3>1, SameTransitive
  <2>4. prog.out.path # prog.in
    BY <1>2
  <2> QED
    BY <1>2, <1>3, <2>3, <2>4 DEF Output
<1> QED
  BY <1>7, <1>8

LEMMA HeldStep ==
  ASSUME FileAssumption, Inv, Held, Checked, [Next]_vars
  PROVE  Held'
<1>1. CASE Run
  BY <1>1, HeldMoves, HeldOpens, HeldWrites, HeldUnlink DEF Run
<1>2. CASE \E cmd \in Commands : Begin(cmd)
  BY <1>2, HeldMoves
<1>3. CASE UNCHANGED vars
  <2>1. Stay
    BY <1>3 DEF vars, Stay, Writing
  <2> QED
    BY <2>1, HeldKept
<1> QED
  BY <1>1, <1>2, <1>3 DEF Next

\* ContentSafe: with frames that have a checksum, whatever fails and whenever
\* the program is killed, what was in a file at first is in some file.
THEOREM NothingIsLost ==
  ASSUME Checked
  PROVE  Spec => []ContentSafe
<1>1. Init => Held
  BY FileAssumption, HeldInit
<1>2. Inv /\ Held /\ [Next]_vars => Held'
  BY FileAssumption, HeldStep
<1>3. Held => ContentSafe
  BY DEF Held, ContentSafe
<1> QED
  BY <1>1, <1>2, <1>3, InvHolds, PTL DEF Spec

-----------------------------------------------------------------------------
(* What a step may do to the files.                                        *)

\* Paths are removed by Unlink alone.
LEMMA PathsStay ==
  ASSUME FileAssumption, Inv, [Next]_vars, ~Unlink
  PROVE  DOMAIN dir \subseteq DOMAIN dir'
<1>1. CASE OpenOutput
  <2>1. CASE Untouched \/ Emptied
    BY <2>1 DEF Untouched, Emptied
  <2>2. CASE Created
    BY <2>2, CreatedIs
  <2> QED
    BY <1>1, <2>1, <2>2, OpenOutputIs
<1>2. CASE file_operation \/ Exit \/ OpenInput \/ ReadHeader \/ WriteHeader
  BY <1>2 DEF file_operation, Exit, OpenInput, ReadHeader, WriteHeader
<1>3. CASE CopySlice \/ EndOfInput \/ Malformed \/ Fails \/ CopyTime \/ Kill
  BY <1>3 DEF CopySlice, EndOfInput, Malformed, Fails, CopyTime, Kill
<1>4. CASE (\E cmd \in Commands : Begin(cmd)) \/ UNCHANGED vars
  BY <1>4 DEF Begin, vars
<1> QED
  BY <1>1, <1>2, <1>3, <1>4 DEF Next, Run

\* RemovedWhenWhole: with frames that have a checksum an input is removed only
\* when the whole of it is in the output.
THEOREM RemovedIsWhole ==
  ASSUME Checked
  PROVE  Spec => RemovedWhenWhole
<1> DEFINE Removal(path) ==
             /\ prog.pc = "unlink" /\ prog.in = path
             /\ prog.out.path \in DOMAIN dir
             /\ Replaces(data[dir[prog.out.path]], data[dir[path]])
<1>1. ASSUME Inv, [Next]_vars, NEW path \in DOMAIN dir, path \notin DOMAIN dir'
      PROVE  Removal(path)
  <2>1. Unlink
    BY <1>1, FileAssumption, PathsStay
  <2>2. prog.pc = "unlink" /\ Opened /\ Reading
    BY <2>1 DEF Unlink, At, Opened, Reading
  <2>3. Whole /\ prog.out.to = "file"
    BY <1>1, <2>2 DEF Inv, Copied
  <2>4. /\ prog.in \in DOMAIN dir /\ prog.fin = dir[prog.in]
        /\ prog.out.path \in DOMAIN dir /\ prog.fout = dir[prog.out.path]
    BY <1>1, <2>2, <2>3 DEF Inv, Target
  <2>5. path = prog.in
    BY <1>1, <2>1, <2>4 DEF Unlink
  <2> QED
    BY <2>2, <2>3, <2>4, <2>5 DEF Whole, HasFirst, HasFrame, Replaces, Input, Output
<1>2. Inv /\ [Next]_vars =>
        [\A path \in DOMAIN dir : path \notin DOMAIN dir' => Removal(path)]_vars
  BY <1>1
<1> QED
  BY <1>2, InvHolds, PTL DEF Spec, RemovedWhenWhole

\* What is written makes a file longer.
LEMMA Longer ==
  ASSUME Inv, Writing, NEW u \in Units, Write(u), UNCHANGED <<dir, runs, orig, given>>,
         NEW i \in DOMAIN data
  PROVE  Len(data'[i]) >= Len(data[i])
<1>1. /\ DOMAIN data = 1..Len(data) /\ data[i] \in Seq(Units) /\ Len(data[i]) \in Nat
  BY ElementOfSeq DEF Inv, Listed
<1>2. CASE i # prog.fout
  BY <1>1, <1>2, WrittenIs
<1>3. CASE i = prog.fout
  <2>1. prog.fout # 0
    BY <1>1, <1>3
  <2>2. Output = data[i] /\ prog.at = Len(Output) + 1 /\ data'[i] = Put(Output, prog.at, u)
    BY <1>3, <2>1, AtItsEnd, WrittenIs DEF Output
  <2>3. Len(Put(Output, Len(Output) + 1, u)) = Len(Output) + 1
    BY <1>1, <2>2, PutIs
  <2> QED
    BY <1>1, <2>2, <2>3
<1> QED
  BY <1>2, <1>3

LEMMA Shorter ==
  ASSUME FileAssumption, Inv, [Next]_vars, NEW i \in DOMAIN data,
         Len(data'[i]) < Len(data[i])
  PROVE  prog.pc = "output" /\ prog.opts.force
<1>1. /\ DOMAIN data = 1..Len(data) /\ Len(data[i]) \in Nat
  BY ElementOfSeq DEF Inv, Listed
<1>2. data'[i] # data[i] /\ ~(Len(data'[i]) >= Len(data[i]))
  BY <1>1
<1>3. ASSUME NEW u \in Units, Writing, UNCHANGED <<dir, runs, orig, given>>
      PROVE  ~Write(u)
  BY <1>2, <1>3, Longer
<1>4. CASE OpenOutput
  <2>1. ~Untouched
    BY <1>2 DEF Untouched
  <2>2. ~Created
    BY <1>1, <1>2, CreatedIs
  <2>3. prog.pc = "output" /\ Emptied
    BY <1>4, <2>1, <2>2, OpenOutputIs
  <2> QED
    BY <2>3 DEF Emptied
<1>5. CASE WriteHeader
  BY <1>3, <1>5, UnitTypes DEF WriteHeader, Writing, At
<1>6. CASE CopySlice
  <2>1. data' # data /\ Writing /\ UNCHANGED <<dir, runs, orig, given>>
    BY <1>2, <1>6 DEF CopySlice, Writing, At
  <2>2. Write(Deeper(Input[prog.pos], IF Decoding THEN -1 ELSE 1))
    BY <1>6, <2>1 DEF CopySlice
  <2> QED
    BY <1>3, <1>6, <2>1, <2>2, SliceType
<1>7. CASE EndOfInput \/ Fails
  BY <1>2, <1>3, <1>7, UnitTypes DEF EndOfInput, Fails, Writing, At
<1>8. CASE file_operation \/ Exit \/ OpenInput \/ ReadHeader \/ Malformed
  BY <1>2, <1>8 DEF file_operation, Exit, OpenInput, ReadHeader, Malformed
<1>9. CASE CopyTime \/ Unlink \/ Kill \/ (\E cmd \in Commands : Begin(cmd)) \/ UNCHANGED vars
  BY <1>2, <1>9 DEF CopyTime, Unlink, Kill, Begin, vars
<1> QED
  BY <1>4, <1>5, <1>6, <1>7, <1>8, <1>9 DEF Next, Run

\* NothingOverwritten: without -f a file that was there is never emptied.
THEOREM NoOverwrite == Spec => NothingOverwritten
<1>1. Inv /\ [Next]_vars =>
        [\A i \in DOMAIN data : Len(data'[i]) < Len(data[i]) =>
           prog.pc = "output" /\ prog.opts.force]_vars
  BY FileAssumption, Shorter
<1> QED
  BY <1>1, InvHolds, PTL DEF Spec, NothingOverwritten
=============================================================================
