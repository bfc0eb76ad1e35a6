---------------------------- MODULE LayoutProofs ----------------------------
(***************************************************************************)
(* What holds of the layout of every struct, with any number of fields of  *)
(* any size and alignment.  Aligned and Packed are recursive: their        *)
(* equations are first shown to have a solution.  Then each is the only    *)
(* layout of its kind, so that a layout that is written down needs only be *)
(* shown aligned, or packed, to be the one the compiler or Go uses.        *)
(***************************************************************************)
EXTENDS StructLayout, WellFoundedInduction, TLAPS

\* A field as the types of C and Go have them.
IsStruct(fields) ==
  /\ Len(fields) \in Nat
  /\ \A i \in 1..Len(fields) :
       fields[i].size \in Nat /\ fields[i].align \in Nat \ {0}

LEMMA Minimal ==
  ASSUME NEW S, S \subseteq Nat, S # {}, NEW R, IsWellFoundedOn(R, Nat)
  PROVE  \E x \in S : \A y \in S : ~(<<y, x>> \in R)
  BY WFMin, ZenonT(60)

\* Induction up to n, for a set of numbers.
LEMMA UpTo ==
  ASSUME NEW n \in Nat, NEW S, 0 \in S,
         \A i \in 0..n : i # n /\ i \in S => i + 1 \in S
  PROVE  \A i \in 0..n : i \in S
<1> DEFINE R == OpToRel(<, Nat)
           B == {i \in 0..n : i \notin S}
<1>1. \A x, y \in Nat : x < y => <<x, y>> \in R
  BY DEF OpToRel
<1> SUFFICES ASSUME B # {} PROVE FALSE
  OBVIOUS
<1>2. B \subseteq Nat
  OBVIOUS
<1> HIDE DEF B, R
<1>3. PICK x \in B : \A y \in B : ~(<<y, x>> \in R)
  <2>1. IsWellFoundedOn(R, Nat)
    BY NatLessThanWellFounded DEF R
  <2>2. \E x \in B : \A y \in B : ~(<<y, x>> \in R)
    BY <1>2, <2>1, Minimal, Zenon
  <2> QED
    BY <2>2
<1>4. /\ x \in Nat /\ x # 0 /\ x - 1 \in Nat /\ x - 1 < x
      /\ x - 1 \in 0..n /\ x - 1 # n
  BY <1>2 DEF B
<1>5. x - 1 \notin B
  BY <1>1, <1>3, <1>4, Zenon
<1>6. x - 1 \in S
  BY <1>4, <1>5 DEF B
<1>7. (x - 1) + 1 \in S
  BY <1>4, <1>6
<1> QED
  BY <1>4, <1>7 DEF B

\* The same, from 1 on.
LEMMA FromOne ==
  ASSUME NEW n \in Nat, NEW S, 1 <= n => 1 \in S,
         \A i \in 2..n : i - 1 \in S => i \in S
  PROVE  \A i \in 1..n : i \in S
<1> DEFINE T == S \cup {0}
<1>1. ASSUME NEW i \in 0..n, i # n, i \in T PROVE i + 1 \in T
  BY <1>1
<1>2. 0 \in T
  OBVIOUS
<1> HIDE DEF T
<1>3. \A i \in 0..n : i \in T
  BY <1>1, <1>2, UpTo, Zenon
<1> QED
  BY <1>3 DEF T
-----------------------------------------------------------------------------
(* Rounding up. *)

LEMMA RoundUpBounds ==
  ASSUME NEW n \in Nat, NEW a \in Nat \ {0}
  PROVE  /\ RoundUp(n, a) \in Nat
         /\ n <= RoundUp(n, a) /\ RoundUp(n, a) < n + a
         /\ \E q \in Nat : RoundUp(n, a) = q * a
<1> DEFINE q == (n + a - 1) \div a
<1>1. q \in Nat
  OBVIOUS
<1>2. q * a <= n + a - 1 /\ n + a - 1 < q * a + a
  OBVIOUS
<1>3. RoundUp(n, a) = q * a
  BY DEF RoundUp
<1> HIDE DEF q
<1>4. q * a \in Nat /\ n <= q * a /\ q * a < n + a
  BY <1>1, <1>2
<1> QED
  BY <1>1, <1>3, <1>4, Zenon

LEMMA MultipleMod ==
  ASSUME NEW a \in Nat \ {0}, NEW q \in Nat
  PROVE  (q * a) % a = 0
  OBVIOUS

LEMMA OneMultiple ==
  ASSUME NEW a \in Nat \ {0}, NEW p \in Nat, NEW q \in Nat,
         p * a < q * a + a, q * a < p * a + a
  PROVE  p = q
<1>1. ASSUME NEW x \in Nat, NEW y \in Nat, x >= y + 1 PROVE x * a >= y * a + a
  <2>1. x * a = y * a + a + (x - y - 1) * a
    OBVIOUS
  <2>2. (x - y - 1) * a \in Nat
    BY <1>1
  <2> QED
    BY <2>1, <2>2
<1> QED
  BY <1>1

\* RoundUp(n, a) is the only multiple of a among n, ..., n + a - 1.
LEMMA RoundUpIs ==
  ASSUME NEW n \in Nat, NEW a \in Nat \ {0}, NEW x \in Nat,
         x % a = 0, n <= x, x < n + a
  PROVE  RoundUp(n, a) = x
<1>1. PICK q \in Nat : RoundUp(n, a) = q * a
  BY RoundUpBounds, Zenon
<1> DEFINE p == x \div a
<1>2. p \in Nat /\ x = p * a
  OBVIOUS
<1> HIDE DEF p
<1>3. p * a < q * a + a /\ q * a < p * a + a
  <2>1. n <= RoundUp(n, a) /\ RoundUp(n, a) < n + a
    BY RoundUpBounds, Zenon
  <2>2. q * a \in Nat /\ n <= q * a /\ q * a < n + a
    BY <1>1, <2>1
  <2>3. p * a \in Nat /\ n <= p * a /\ p * a < n + a
    BY <1>2
  <2> HIDE DEF p
  <2> QED
    BY <2>2, <2>3
<1>4. p = q
  BY <1>2, <1>3, OneMultiple
<1> QED
  BY <1>1, <1>2, <1>4
-----------------------------------------------------------------------------
(* The recursive definitions. *)

\* The recursion of Aligned has a solution, whatever the struct, so Aligned
\* satisfies it.
LEMMA AlignedRecursion ==
  ASSUME NEW fields, Len(fields) \in Nat
  PROVE  Aligned(fields) =
           [i \in 1..Len(fields) |->
              IF i = 1 THEN 0
              ELSE RoundUp(Aligned(fields)[i - 1] + fields[i - 1].size,
                           fields[i].align)]
<1> DEFINE Step(g, i) == IF i = 1 THEN 0
                         ELSE RoundUp(g[i - 1] + fields[i - 1].size,
                                      fields[i].align)
           Eq(g, n) == g = [i \in 1..n |-> Step(g, i)]
           S == {n \in Nat : \E g : Eq(g, n)}
<1>0. \A g, h, i : (i # 1 => g[i - 1] = h[i - 1]) => Step(g, i) = Step(h, i)
  BY Zenon
<1> HIDE DEF Step
<1>1. \E g : Eq(g, 0)
  <2>1. Eq([i \in 1..0 |-> 0], 0)
    OBVIOUS
  <2> QED
    BY <2>1, Zenon
<1>2. ASSUME NEW n \in Nat, NEW g, Eq(g, n) PROVE \E h : Eq(h, n + 1)
  <2> DEFINE h == [i \in 1..(n + 1) |-> Step(g, i)]
  <2>1. \A i \in 1..(n + 1) : i # 1 => g[i - 1] = h[i - 1]
    BY <1>2
  <2>2. \A i \in 1..(n + 1) : Step(g, i) = Step(h, i)
    <3> HIDE DEF h
    <3> QED
      BY <1>0, <2>1, Zenon
  <2>3. Eq(h, n + 1)
    BY <2>2, Zenon
  <2> QED
    BY <2>3, Zenon
<1>3. \E g : Eq(g, Len(fields))
  <2> HIDE DEF Eq
  <2>1. 0 \in S
    BY <1>1
  <2>2. ASSUME NEW n \in 0..Len(fields), n \in S PROVE n + 1 \in S
    BY <1>2, <2>2
  <2> HIDE DEF S
  <2>3. \A n \in 0..Len(fields) : n \in S
    BY <2>1, <2>2, UpTo, Zenon
  <2>4. Len(fields) \in S
    BY <2>3
  <2> QED
    BY <2>4 DEF S
<1>4. Aligned(fields) = CHOOSE g : Eq(g, Len(fields))
  BY Zenon DEF Aligned, Step
<1>5. Eq(Aligned(fields), Len(fields))
  <2> HIDE DEF Eq
  <2> QED
    BY <1>3, <1>4, Zenon
<1> QED
  BY <1>5, Zenon DEF Step

LEMMA AlignedStarts ==
  ASSUME NEW fields, Len(fields) \in Nat
  PROVE  /\ 1 <= Len(fields) => Aligned(fields)[1] = 0
         /\ \A i \in 2..Len(fields) :
              Aligned(fields)[i] =
                RoundUp(Aligned(fields)[i - 1] + fields[i - 1].size,
                        fields[i].align)
<1> DEFINE A == Aligned(fields)
<1>1. A = [i \in 1..Len(fields) |->
             IF i = 1 THEN 0
             ELSE RoundUp(A[i - 1] + fields[i - 1].size, fields[i].align)]
  BY AlignedRecursion, Zenon
<1> HIDE DEF A
<1>2. 1 <= Len(fields) => A[1] = 0
  BY <1>1
<1>3. ASSUME NEW i \in 2..Len(fields)
      PROVE  A[i] = RoundUp(A[i - 1] + fields[i - 1].size, fields[i].align)
  <2>1. i \in 1..Len(fields) /\ i # 1
    OBVIOUS
  <2> QED
    BY <1>1, <2>1, Zenon
<1> QED
  BY <1>2, <1>3, Zenon DEF A
\* The same for Packed.
LEMMA PackedRecursion ==
  ASSUME NEW fields, Len(fields) \in Nat
  PROVE  Packed(fields) =
           [i \in 1..Len(fields) |->
              IF i = 1 THEN 0
              ELSE Packed(fields)[i - 1] + fields[i - 1].size]
<1> DEFINE Step(g, i) == IF i = 1 THEN 0
                         ELSE g[i - 1] + fields[i - 1].size
           Eq(g, n) == g = [i \in 1..n |-> Step(g, i)]
           S == {n \in Nat : \E g : Eq(g, n)}
<1>0. \A g, h, i : (i # 1 => g[i - 1] = h[i - 1]) => Step(g, i) = Step(h, i)
  BY Zenon
<1> HIDE DEF Step
<1>1. \E g : Eq(g, 0)
  <2>1. Eq([i \in 1..0 |-> 0], 0)
    OBVIOUS
  <2> QED
    BY <2>1, Zenon
<1>2. ASSUME NEW n \in Nat, NEW g, Eq(g, n) PROVE \E h : Eq(h, n + 1)
  <2> DEFINE h == [i \in 1..(n + 1) |-> Step(g, i)]
  <2>1. \A i \in 1..(n + 1) : i # 1 => g[i - 1] = h[i - 1]
    BY <1>2
  <2>2. \A i \in 1..(n + 1) : Step(g, i) = Step(h, i)
    <3> HIDE DEF h
    <3> QED
      BY <1>0, <2>1, Zenon
  <2>3. Eq(h, n + 1)
    BY <2>2, Zenon
  <2> QED
    BY <2>3, Zenon
<1>3. \E g : Eq(g, Len(fields))
  <2> HIDE DEF Eq
  <2>1. 0 \in S
    BY <1>1
  <2>2. ASSUME NEW n \in 0..Len(fields), n \in S PROVE n + 1 \in S
    BY <1>2, <2>2
  <2> HIDE DEF S
  <2>3. \A n \in 0..Len(fields) : n \in S
    BY <2>1, <2>2, UpTo, Zenon
  <2>4. Len(fields) \in S
    BY <2>3
  <2> QED
    BY <2>4 DEF S
<1>4. Packed(fields) = CHOOSE g : Eq(g, Len(fields))
  BY Zenon DEF Packed, Step
<1>5. Eq(Packed(fields), Len(fields))
  <2> HIDE DEF Eq
  <2> QED
    BY <1>3, <1>4, Zenon
<1> QED
  BY <1>5, Zenon DEF Step

LEMMA PackedStarts ==
  ASSUME NEW fields, Len(fields) \in Nat
  PROVE  /\ 1 <= Len(fields) => Packed(fields)[1] = 0
         /\ \A i \in 2..Len(fields) :
              Packed(fields)[i] = Packed(fields)[i - 1] + fields[i - 1].size
<1> DEFINE A == Packed(fields)
<1>1. A = [i \in 1..Len(fields) |->
             IF i = 1 THEN 0
             ELSE A[i - 1] + fields[i - 1].size]
  BY PackedRecursion, Zenon
<1> HIDE DEF A
<1>2. 1 <= Len(fields) => A[1] = 0
  BY <1>1
<1>3. ASSUME NEW i \in 2..Len(fields)
      PROVE  A[i] = A[i - 1] + fields[i - 1].size
  <2>1. i \in 1..Len(fields) /\ i # 1
    OBVIOUS
  <2> QED
    BY <1>1, <2>1, Zenon
<1> QED
  BY <1>2, <1>3, Zenon DEF A
-----------------------------------------------------------------------------
(* What a layout is, of every struct. *)

LEMMA AlignedTyped ==
  ASSUME NEW fields, IsStruct(fields)
  PROVE  \A i \in 1..Len(fields) : Aligned(fields)[i] \in Nat
<1> DEFINE A == Aligned(fields)
           S == {i \in 1..Len(fields) : A[i] \in Nat}
<1>1. Len(fields) \in Nat /\ (1 <= Len(fields) => A[1] = 0)
  BY AlignedStarts DEF IsStruct
<1>2. ASSUME NEW i \in 2..Len(fields), i - 1 \in S PROVE i \in S
  <2>1. A[i] = RoundUp(A[i - 1] + fields[i - 1].size, fields[i].align)
    BY <1>1, AlignedStarts, Zenon
  <2>2. /\ A[i - 1] + fields[i - 1].size \in Nat /\ fields[i].align \in Nat \ {0}
        /\ i \in 1..Len(fields)
    BY <1>2 DEF IsStruct
  <2>3. A[i] \in Nat
    BY <2>1, <2>2, RoundUpBounds, Zenon
  <2> QED
    BY <2>2, <2>3, Zenon
<1>3. 1 <= Len(fields) => 1 \in S
  BY <1>1
<1> HIDE DEF S
<1>4. \A i \in 1..Len(fields) : i \in S
  BY <1>1, <1>2, <1>3, FromOne, Zenon
<1> QED
  BY <1>4, Zenon DEF S
LEMMA PackedTyped ==
  ASSUME NEW fields, IsStruct(fields)
  PROVE  \A i \in 1..Len(fields) : Packed(fields)[i] \in Nat
<1> DEFINE A == Packed(fields)
           S == {i \in 1..Len(fields) : A[i] \in Nat}
<1>1. Len(fields) \in Nat /\ (1 <= Len(fields) => A[1] = 0)
  BY PackedStarts DEF IsStruct
<1>2. ASSUME NEW i \in 2..Len(fields), i - 1 \in S PROVE i \in S
  <2>1. A[i] = A[i - 1] + fields[i - 1].size
    BY <1>1, PackedStarts, Zenon
  <2>2. A[i - 1] + fields[i - 1].size \in Nat /\ i \in 1..Len(fields)
    BY <1>2 DEF IsStruct
  <2>3. A[i] \in Nat
    BY <2>1, <2>2, Zenon
  <2> QED
    BY <2>2, <2>3, Zenon
<1>3. 1 <= Len(fields) => 1 \in S
  BY <1>1
<1> HIDE DEF S
<1>4. \A i \in 1..Len(fields) : i \in S
  BY <1>1, <1>2, <1>3, FromOne, Zenon
<1> QED
  BY <1>4, Zenon DEF S

\* Each field ends where the next one starts, or before.
Successive(fields, start) ==
  /\ \A i \in 1..Len(fields) : start[i] \in Nat
  /\ \A i \in 2..Len(fields) : start[i - 1] + fields[i - 1].size <= start[i]

LEMMA Apart ==
  ASSUME NEW fields, IsStruct(fields), NEW start, Successive(fields, start)
  PROVE  \A i, j \in 1..Len(fields) : i < j => start[i] + fields[i].size <= start[j]
<1> TAKE i \in 1..Len(fields)
<1> DEFINE end == start[i] + fields[i].size
           S == {j \in 1..Len(fields) : i < j => end <= start[j]}
<1>1. Len(fields) \in Nat
  BY DEF IsStruct
<1>2. end \in Nat
  <2>1. start[i] \in Nat /\ fields[i].size \in Nat
    BY Zenon DEF IsStruct, Successive
  <2> QED
    BY <2>1
<1>3. ASSUME NEW j \in 2..Len(fields), j - 1 \in S PROVE j \in S
  <2>1. j \in 1..Len(fields) /\ j - 1 \in 1..Len(fields)
    BY <1>1
  <2>2. /\ start[j] \in Nat /\ start[j - 1] \in Nat /\ fields[j - 1].size \in Nat
        /\ start[j - 1] + fields[j - 1].size <= start[j]
    BY <2>1, Zenon DEF IsStruct, Successive
  <2>3. i = j - 1 => end <= start[j]
    BY <2>2, Zenon
  <2>4. i < j - 1 => end <= start[j - 1]
    BY <1>3, Zenon
  <2>5. i < j => i = j - 1 \/ i < j - 1
    BY <2>1
  <2> HIDE DEF end
  <2>6. end <= start[j - 1] => end <= start[j]
    BY <1>2, <2>2
  <2> QED
    BY <2>1, <2>3, <2>4, <2>5, <2>6, Zenon
<1>4. 1 <= Len(fields) => 1 \in S
  BY <1>1
<1> HIDE DEF S
<1>5. \A j \in 1..Len(fields) : j \in S
  BY <1>1, <1>3, <1>4, FromOne, Zenon
<1> QED
  BY <1>5, Zenon DEF S

\* What an aligned layout is: it starts at 0, each field is at a multiple of
\* what its type asks, and less than that after the end of the field before it.
IsAligned(fields, start) ==
  /\ 1 <= Len(fields) => start[1] = 0
  /\ \A i \in 1..Len(fields) :
       start[i] \in Nat /\ start[i] % fields[i].align = 0
  /\ \A i \in 2..Len(fields) :
       /\ start[i - 1] + fields[i - 1].size <= start[i]
       /\ start[i] < start[i - 1] + fields[i - 1].size + fields[i].align

LEMMA AlignedIsAligned ==
  ASSUME NEW fields, IsStruct(fields)
  PROVE  IsAligned(fields, Aligned(fields))
<1> DEFINE A == Aligned(fields)
<1>1. /\ \A i \in 1..Len(fields) : A[i] \in Nat
      /\ Len(fields) \in Nat
  BY AlignedTyped, Zenon DEF IsStruct
<1>2. /\ 1 <= Len(fields) => A[1] = 0
      /\ \A i \in 2..Len(fields) :
           A[i] = RoundUp(A[i - 1] + fields[i - 1].size, fields[i].align)
  BY <1>1, AlignedStarts, Zenon
<1> HIDE DEF A
<1>3. ASSUME NEW i \in 2..Len(fields)
      PROVE  /\ A[i - 1] + fields[i - 1].size <= A[i]
             /\ A[i] < A[i - 1] + fields[i - 1].size + fields[i].align
             /\ A[i] % fields[i].align = 0
  <2> DEFINE n == A[i - 1] + fields[i - 1].size
             a == fields[i].align
  <2>1. i \in 1..Len(fields) /\ i - 1 \in 1..Len(fields)
    BY <1>1
  <2>2. A[i - 1] \in Nat /\ fields[i - 1].size \in Nat /\ a \in Nat \ {0}
    BY <1>1, <2>1, Zenon DEF IsStruct
  <2>3. n \in Nat
    BY <2>2, SMTT(30), Z3T(30)
  <2>4. A[i] = RoundUp(n, a)
    BY <1>2, Zenon
  <2> HIDE DEF n, a
  <2>5. n <= A[i] /\ A[i] < n + a /\ \E q \in Nat : A[i] = q * a
    BY <2>2, <2>3, <2>4, RoundUpBounds, Zenon
  <2>6. A[i] % a = 0
    BY <2>2, <2>5, MultipleMod, Zenon
  <2> QED
    BY <2>5, <2>6, Zenon DEF n, a
<1>4. ASSUME NEW i \in 1..Len(fields) PROVE A[i] % fields[i].align = 0
  <2>1. CASE i = 1
    <3>1. A[i] = 0 /\ fields[i].align \in Nat \ {0}
      BY <1>1, <1>2, <2>1 DEF IsStruct
    <3> QED
      BY <3>1
  <2>2. CASE i # 1
    <3>1. i \in 2..Len(fields)
      BY <1>1, <2>2
    <3> QED
      BY <1>3, <3>1, Zenon
  <2> QED
    BY <2>1, <2>2, Zenon
<1> QED
  BY <1>1, <1>2, <1>3, <1>4, Zenon DEF A, IsAligned

\* There is one such layout: to know Aligned, exhibit one.
LEMMA AlignedIs ==
  ASSUME NEW fields, IsStruct(fields), NEW f, IsAligned(fields, f)
  PROVE  \A i \in 1..Len(fields) : Aligned(fields)[i] = f[i]
<1> DEFINE A == Aligned(fields)
           S == {i \in 1..Len(fields) : A[i] = f[i]}
<1>1. Len(fields) \in Nat
  BY DEF IsStruct
<1>2. /\ 1 <= Len(fields) => A[1] = 0
      /\ \A i \in 2..Len(fields) :
           A[i] = RoundUp(A[i - 1] + fields[i - 1].size, fields[i].align)
  BY <1>1, AlignedStarts, Zenon
<1> HIDE DEF A
<1>3. 1 <= Len(fields) => 1 \in S
  BY <1>1, <1>2 DEF IsAligned
<1>4. ASSUME NEW i \in 2..Len(fields), i - 1 \in S PROVE i \in S
  <2> DEFINE n == f[i - 1] + fields[i - 1].size
             a == fields[i].align
  <2>1. i \in 1..Len(fields) /\ i - 1 \in 1..Len(fields)
    BY <1>1
  <2>2. f[i - 1] \in Nat /\ fields[i - 1].size \in Nat /\ a \in Nat \ {0}
    BY <2>1, Zenon DEF IsStruct, IsAligned
  <2>3. n \in Nat
    BY <2>2, SMTT(30), Z3T(30)
  <2>4. f[i] \in Nat /\ f[i] % a = 0 /\ n <= f[i] /\ f[i] < n + a
    BY <2>1, Zenon DEF IsAligned
  <2>5. A[i] = RoundUp(n, a)
    BY <1>2, <1>4, Zenon
  <2> HIDE DEF n, a
  <2>6. A[i] = f[i]
    BY <2>2, <2>3, <2>4, <2>5, RoundUpIs, Zenon
  <2> QED
    BY <2>1, <2>6, Zenon
<1> HIDE DEF S
<1>5. \A i \in 1..Len(fields) : i \in S
  BY <1>1, <1>3, <1>4, FromOne, Zenon
<1> QED
  BY <1>5, Zenon DEF S, A

\* However a struct is declared, Aligned is the one aligned layout of it, and
\* in it no field reaches into a later one.
THEOREM AlignedLayout ==
  ASSUME NEW fields, IsStruct(fields)
  PROVE  /\ IsAligned(fields, Aligned(fields))
         /\ \A f : IsAligned(fields, f) =>
              \A i \in 1..Len(fields) : f[i] = Aligned(fields)[i]
         /\ \A i, j \in 1..Len(fields) :
              i < j => Aligned(fields)[i] + fields[i].size <= Aligned(fields)[j]
<1>1. IsAligned(fields, Aligned(fields))
  BY AlignedIsAligned, Zenon
<1>2. \A f : IsAligned(fields, f) =>
        \A i \in 1..Len(fields) : f[i] = Aligned(fields)[i]
  BY AlignedIs, Zenon
<1>3. Successive(fields, Aligned(fields))
  BY <1>1, Zenon DEF IsAligned, Successive
<1>4. \A i, j \in 1..Len(fields) :
        i < j => Aligned(fields)[i] + fields[i].size <= Aligned(fields)[j]
  BY <1>3, Apart, Zenon
<1> QED
  BY <1>1, <1>2, <1>4, Zenon

\* The same for a packed layout, which leaves no gap.
IsPacked(fields, start) ==
  /\ 1 <= Len(fields) => start[1] = 0
  /\ \A i \in 2..Len(fields) : start[i] = start[i - 1] + fields[i - 1].size

LEMMA PackedIs ==
  ASSUME NEW fields, IsStruct(fields), NEW f, IsPacked(fields, f)
  PROVE  \A i \in 1..Len(fields) : Packed(fields)[i] = f[i]
<1> DEFINE A == Packed(fields)
           S == {i \in 1..Len(fields) : A[i] = f[i]}
<1>1. Len(fields) \in Nat
  BY DEF IsStruct
<1>2. /\ 1 <= Len(fields) => A[1] = 0
      /\ \A i \in 2..Len(fields) : A[i] = A[i - 1] + fields[i - 1].size
  BY <1>1, PackedStarts, Zenon
<1> HIDE DEF A
<1>3. 1 <= Len(fields) => 1 \in S
  BY <1>1, <1>2 DEF IsPacked
<1>4. ASSUME NEW i \in 2..Len(fields), i - 1 \in S PROVE i \in S
  <2>1. i \in 1..Len(fields)
    BY <1>1
  <2>2. A[i] = f[i]
    BY <1>2, <1>4, Zenon DEF IsPacked
  <2> QED
    BY <2>1, <2>2, Zenon
<1> HIDE DEF S
<1>5. \A i \in 1..Len(fields) : i \in S
  BY <1>1, <1>3, <1>4, FromOne, Zenon
<1> QED
  BY <1>5, Zenon DEF S, A

LEMMA PackedSuccessive ==
  ASSUME NEW fields, IsStruct(fields)
  PROVE  IsPacked(fields, Packed(fields)) /\ Successive(fields, Packed(fields))
<1> DEFINE A == Packed(fields)
<1>1. /\ Len(fields) \in Nat
      /\ \A i \in 1..Len(fields) : A[i] \in Nat /\ fields[i].size \in Nat
  BY PackedTyped, Zenon DEF IsStruct
<1>2. IsPacked(fields, A)
  BY <1>1, PackedStarts, Zenon DEF IsPacked
<1> HIDE DEF A
<1>3. \A i \in 2..Len(fields) : A[i - 1] + fields[i - 1].size <= A[i]
  <2> TAKE i \in 2..Len(fields)
  <2>1. i \in 1..Len(fields)
    BY <1>1
  <2>2. A[i] \in Nat /\ A[i - 1] + fields[i - 1].size = A[i]
    BY <1>1, <1>2, <2>1, Zenon DEF IsPacked
  <2> QED
    BY <2>2
<1> QED
  BY <1>1, <1>2, <1>3, Zenon DEF A, Successive

\* However a struct is declared, Packed is the one layout of it without gaps,
\* and in it no field reaches into a later one.
THEOREM PackedLayout ==
  ASSUME NEW fields, IsStruct(fields)
  PROVE  /\ IsPacked(fields, Packed(fields))
         /\ \A f : IsPacked(fields, f) =>
              \A i \in 1..Len(fields) : f[i] = Packed(fields)[i]
         /\ \A i, j \in 1..Len(fields) :
              i < j => Packed(fields)[i] + fields[i].size <= Packed(fields)[j]
<1>1. IsPacked(fields, Packed(fields)) /\ Successive(fields, Packed(fields))
  BY PackedSuccessive, Zenon
<1>2. \A f : IsPacked(fields, f) =>
        \A i \in 1..Len(fields) : f[i] = Packed(fields)[i]
  BY PackedIs, Zenon
<1>3. \A i, j \in 1..Len(fields) :
        i < j => Packed(fields)[i] + fields[i].size <= Packed(fields)[j]
  BY <1>1, Apart, Zenon
<1> QED
  BY <1>1, <1>2, <1>3, Zenon
-----------------------------------------------------------------------------
(* Places. *)

\* Every named field of struct c, laid out as a, is in struct g, laid out as p.
PlacedIn(c, a, g, p) ==
  \A i \in 1..Len(c) : c[i].name # "pad" =>
    \E j \in 1..Len(g) :
      g[j].name = c[i].name /\ g[j].size = c[i].size /\ p[j] = a[i]

LEMMA PlacesWithin ==
  ASSUME NEW c, NEW a, NEW g, NEW p, PlacedIn(c, a, g, p)
  PROVE  Places(c, a) \subseteq Places(g, p)
<1> SUFFICES ASSUME NEW x \in Places(c, a) PROVE x \in Places(g, p)
  BY Zenon
<1>1. PICK i \in 1..Len(c) : c[i].name # "pad" /\ x = <<c[i].name, a[i], c[i].size>>
  BY Zenon DEF Places
<1>2. PICK j \in 1..Len(g) : /\ g[j].name = c[i].name
                             /\ g[j].size = c[i].size /\ p[j] = a[i]
  BY <1>1, Zenon DEF PlacedIn
<1>3. g[j].name # "pad" /\ x = <<g[j].name, p[j], g[j].size>>
  BY <1>1, <1>2, Zenon
<1> QED
  BY <1>3, Zenon DEF Places

\* Two structs have their fields at the same places, whatever padding they have.
LEMMA SamePlaces ==
  ASSUME NEW c, NEW a, NEW g, NEW p, PlacedIn(c, a, g, p), PlacedIn(g, p, c, a)
  PROVE  Places(c, a) = Places(g, p)
<1>1. Places(c, a) \subseteq Places(g, p) /\ Places(g, p) \subseteq Places(c, a)
  BY PlacesWithin, Zenon
<1> QED
  BY <1>1

\* The byte a field starts at is that field's and no other's.
LEMMA OnePlace ==
  ASSUME NEW fields, IsStruct(fields), NEW start, Successive(fields, start),
         NEW i \in 1..Len(fields), fields[i].name # "pad", fields[i].size # 0
  PROVE  {p \in Places(fields, start) : start[i] \in p[2] .. (p[2] + p[3] - 1)}
           = {<<fields[i].name, start[i], fields[i].size>>}
<1> DEFINE q == <<fields[i].name, start[i], fields[i].size>>
           Here(p) == start[i] \in p[2] .. (p[2] + p[3] - 1)
<1>1. \A j \in 1..Len(fields) : j \in Int /\ start[j] \in Nat /\ fields[j].size \in Nat
  BY DEF IsStruct, Successive
<1>2. q \in Places(fields, start)
  BY Zenon DEF Places
<1>3. q[2] = start[i] /\ q[3] = fields[i].size
  OBVIOUS
<1>4. Here(q)
  <2> HIDE DEF q
  <2>1. start[i] \in Nat /\ fields[i].size \in Nat /\ fields[i].size # 0
    BY <1>1
  <2> QED
    BY <1>3, <2>1, SMTT(30), Z3T(30)
<1>5. ASSUME NEW p \in Places(fields, start), Here(p) PROVE p = q
  <2>1. PICK j \in 1..Len(fields) : p = <<fields[j].name, start[j], fields[j].size>>
    BY Zenon DEF Places
  <2>2. p[2] = start[j] /\ p[3] = fields[j].size
    BY <2>1
  <2>3. /\ j \in Int /\ start[j] \in Nat /\ fields[j].size \in Nat
        /\ i \in Int /\ start[i] \in Nat /\ fields[i].size \in Nat
    BY <1>1, Zenon
  <2>4. start[i] \in start[j] .. (start[j] + fields[j].size - 1)
    BY <1>5, <2>2, Zenon
  <2>5. start[j] <= start[i] /\ start[i] < start[j] + fields[j].size
    BY <2>3, <2>4
  <2>6. ~(j < i)
    <3>1. j < i => start[j] + fields[j].size <= start[i]
      BY Apart, Zenon
    <3> QED
      BY <2>3, <2>5, <3>1
  <2>7. ~(i < j)
    <3>1. i < j => start[i] + fields[i].size <= start[j]
      BY Apart, Zenon
    <3> QED
      BY <2>3, <2>5, <3>1
  <2>8. j = i
    BY <2>3, <2>6, <2>7
  <2> QED
    BY <2>1, <2>8, Zenon
<1> HIDE DEF q, Here
<1>6. {p \in Places(fields, start) : Here(p)} = {q}
  BY <1>2, <1>4, <1>5, Zenon
<1> QED
  BY <1>6, Zenon DEF q, Here
=============================================================================
