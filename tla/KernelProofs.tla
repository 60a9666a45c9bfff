---------------------------- MODULE KernelProofs ----------------------------
(***************************************************************************)
(* The vector kernels compute the dot products of their definition         *)
(* (PieKernels), the sums of an attention row stay within 32 bits          *)
(* (AttnBounds), and no task switch spoils a row (PieGuard), for every     *)
(* size, operand, length and boot test their assumptions admit.            *)
(*                                                                         *)
(* A sum over a set is a fold, a function defined by recursion over the    *)
(* subsets.  That the recursion has a solution, and that any member may be *)
(* taken out of a sum first (SumTakes), is shown with the set of sizes, or *)
(* of subsets, a fact holds of or fails for, which is what induction needs *)
(* of it (NatInd, Minimal).  From there on a sum is a Window of the        *)
(* products of a row, and a kernel adds one window after the other.        *)
(***************************************************************************)
EXTENDS PieKernels, AttnBounds, PieGuard, FiniteSetTheorems, WellFoundedInduction, TLAPS

-----------------------------------------------------------------------------
(* Sums.                                                                   *)

(* The element of s a fold takes first.                                    *)
First(s) == CHOOSE x \in s : TRUE

(* g sums f over each set of C, one First after the other.                 *)
Sums(g, f, C) ==
  g = [s \in C |-> IF s = {} THEN 0 ELSE f[First(s)] + g[s \ {First(s)}]]

(* A sum as its definition by recursion over the sets gives it.            *)
LEMMA FoldIsChoice ==
  ASSUME NEW f, NEW D
  PROVE  SumFunctionOnSet(f, D) = (CHOOSE g : Sums(g, f, SUBSET D))[D]
BY DEF SumFunctionOnSet, FoldFunctionOnSet, MapThenFoldSet, Sums, First

(* A collection of subsets of a finite set has a smallest member.          *)
LEMMA Minimal ==
  ASSUME NEW D, IsFiniteSet(D), NEW T, T \subseteq SUBSET D, T # {}
  PROVE  \E s \in T : \A t \in T : ~ (t \subseteq s /\ t # s)
<1>1. IsWellFoundedOn(StrictSubsetOrdering(D), SUBSET D)
  BY FS_StrictSubsetOrderingWellFounded, FS_FiniteSubsetsOfFinite
<1>2. \E s \in T : \A t \in T : ~ (<<t, s>> \in StrictSubsetOrdering(D))
  BY <1>1, WFMin
<1> QED
  BY <1>2 DEF StrictSubsetOrdering

(* A set of natural numbers has a least member.                            *)
LEMMA NatLeast ==
  ASSUME NEW T, T \subseteq Nat, T # {}
  PROVE  \E m \in T : \A n \in T : ~ (n < m)
<1> DEFINE R == {p \in Nat \X Nat : p[1] < p[2]}
<1>1. IsWellFoundedOn(R, Nat)
  BY NatLessThanWellFounded DEF OpToRel
<1>2. \A p, q \in Nat : p < q => <<p, q>> \in R
  OBVIOUS
<1> HIDE DEF R
<1>3. \E m \in T : \A n \in T : ~ (<<n, m>> \in R)
  BY <1>1, WFMin
<1> QED
  BY <1>2, <1>3

(* Induction, with the numbers a fact holds of as a set.                   *)
LEMMA NatInd ==
  ASSUME NEW T, 0 \in T, \A n \in Nat : n \in T => n + 1 \in T
  PROVE  Nat \subseteq T
<1> SUFFICES ASSUME Nat \ T # {} PROVE FALSE
  OBVIOUS
<1>1. PICK m \in Nat \ T : \A n \in Nat \ T : ~ (n < m)
  BY NatLeast
<1>2. m - 1 \in Nat /\ m - 1 \in T
  BY <1>1
<1> QED
  BY <1>1, <1>2
(* What a recursion over the subsets of a set says of a subset of it.      *)
LEMMA FoldUnique ==
  ASSUME NEW f, NEW D, NEW T, IsFiniteSet(D), T \subseteq D, NEW g, NEW h,
         Sums(g, f, SUBSET D), Sums(h, f, SUBSET T)
  PROVE  g[T] = h[T]
<1> DEFINE B == {s \in SUBSET T : g[s] # h[s]}
<1> SUFFICES ASSUME B # {} PROVE FALSE
  OBVIOUS
<1>1. IsFiniteSet(T)
  BY FS_Subset
<1>2. PICK s \in B : \A t \in B : ~ (t \subseteq s /\ t # s)
  <2>1. B \subseteq SUBSET T
    OBVIOUS
  <2> HIDE DEF B
  <2> QED
    BY <1>1, <2>1, Minimal
<1>3. s \in SUBSET D /\ s \in SUBSET T
  OBVIOUS
<1>4. s # {} 
  BY <1>3 DEF Sums
<1> DEFINE u == s \ {First(s)}
<1>5. First(s) \in s
  BY <1>4 DEF First
<1>6. u \in SUBSET T /\ u \subseteq s /\ u # s
  BY <1>3, <1>5
<1>7. g[u] = h[u]
  BY <1>2, <1>6
<1>8. g[s] = f[First(s)] + g[u] /\ h[s] = f[First(s)] + h[u]
  BY <1>3, <1>4 DEF Sums
<1> QED
  BY <1>7, <1>8

(* The recursion defines a function: by induction on how many are summed.  *)
LEMMA FoldExists ==
  ASSUME NEW f, NEW D, IsFiniteSet(D)
  PROVE  \E g : Sums(g, f, SUBSET D)
<1> DEFINE UpTo(k) == {s \in SUBSET D : Cardinality(s) <= k}
           K == {k \in Nat : \E g : Sums(g, f, UpTo(k))}
<1>1. \A s \in SUBSET D : IsFiniteSet(s) /\ Cardinality(s) \in Nat
                         /\ (Cardinality(s) = 0 <=> s = {})
  BY FS_Subset, FS_CardinalityType, FS_EmptySet
<1>2. 0 \in K
  <2> DEFINE g == [s \in UpTo(0) |-> 0]
  <2>1. \A s \in UpTo(0) : s = {}
    BY <1>1
  <2>2. Sums(g, f, UpTo(0))
    BY <2>1 DEF Sums
  <2> QED
    BY <2>2
<1>3. ASSUME NEW k \in Nat, k \in K
      PROVE  k + 1 \in K
  <2>1. PICK g : Sums(g, f, UpTo(k))
    BY <1>3
  <2> DEFINE h == [s \in UpTo(k + 1) |->
                     IF s = {} THEN 0 ELSE f[First(s)] + g[s \ {First(s)}]]
  <2>2. \A s \in UpTo(k) : s \in UpTo(k + 1) /\ h[s] = g[s]
    <3>1. \A s \in UpTo(k) : s \in UpTo(k + 1)
      BY <1>1
    <3> QED
      BY <2>1, <3>1 DEF Sums
  <2>3. \A s \in UpTo(k + 1) : s # {} => s \ {First(s)} \in UpTo(k)
    <3> TAKE s \in UpTo(k + 1)
    <3> HAVE s # {}
    <3>1. First(s) \in s
      BY DEF First
    <3>2. Cardinality(s \ {First(s)}) = Cardinality(s) - 1
      BY <1>1, <3>1, FS_RemoveElement
    <3> QED
      BY <1>1, <3>1, <3>2
  <2>4. \A s \in UpTo(k + 1) : s # {} => h[s \ {First(s)}] = g[s \ {First(s)}]
    BY <2>2, <2>3
  <2>5. Sums(h, f, UpTo(k + 1))
    <3> HIDE DEF UpTo
    <3> QED
      BY <2>4 DEF Sums
  <2> HIDE DEF h, UpTo
  <2> QED
    BY <2>5
<1>4. Cardinality(D) \in K
  <2> HIDE DEF K
  <2>1. Nat \subseteq K
    BY <1>2, <1>3, NatInd
  <2> QED
    BY <1>1, <2>1
<1>5. UpTo(Cardinality(D)) = SUBSET D
  BY FS_Subset, <1>1
<1> QED
  BY <1>4, <1>5

(* A sum is one of its members and the sum of the rest, whichever it is.   *)
LEMMA SumTakes ==
  ASSUME NEW f, NEW D, IsFiniteSet(D), \A i \in D : f[i] \in Int
  PROVE  /\ SumFunctionOnSet(f, D) \in Int
         /\ SumFunctionOnSet(f, {}) = 0
         /\ \A i \in D : SumFunctionOnSet(f, D) = f[i] + SumFunctionOnSet(f, D \ {i})
<1>1. PICK g : Sums(g, f, SUBSET D)
  BY FoldExists
<1>2. \A s \in SUBSET D : SumFunctionOnSet(f, s) = g[s]
  <2> TAKE s \in SUBSET D
  <2>1. IsFiniteSet(s)
    BY FS_Subset
  <2>2. \E h : Sums(h, f, SUBSET s)
    BY <2>1, FoldExists
  <2> DEFINE h == CHOOSE h : Sums(h, f, SUBSET s)
  <2>3. Sums(h, f, SUBSET s)
    BY <2>2
  <2>4. SumFunctionOnSet(f, s) = h[s]
    BY FoldIsChoice
  <2> HIDE DEF h
  <2>5. g[s] = h[s]
    <3>1. s \subseteq D
      OBVIOUS
    <3> QED
      BY <1>1, <2>3, <3>1, FoldUnique
  <2> QED
    BY <2>4, <2>5
<1>3. g[{}] = 0
  BY <1>1 DEF Sums
<1>4. \A s \in SUBSET D : s # {} =>
        First(s) \in s /\ g[s] = f[First(s)] + g[s \ {First(s)}]
  <2> TAKE s \in SUBSET D
  <2> HAVE s # {}
  <2>1. First(s) \in s
    BY DEF First
  <2> QED
    BY <1>1, <2>1 DEF Sums
<1>5. \A s \in SUBSET D : g[s] \in Int
  <2> DEFINE B == {s \in SUBSET D : g[s] \notin Int}
  <2> SUFFICES ASSUME B # {} PROVE FALSE
    OBVIOUS
  <2>1. PICK s \in B : \A t \in B : ~ (t \subseteq s /\ t # s)
    <3>1. B \subseteq SUBSET D
      OBVIOUS
    <3> HIDE DEF B
    <3> QED
      BY <3>1, Minimal
  <2>2. s # {}
    BY <1>3
  <2>3. s \ {First(s)} \in SUBSET D /\ s \ {First(s)} # s
    BY <1>4, <2>2
  <2>4. g[s \ {First(s)}] \in Int
    BY <2>1, <2>3
  <2>5. f[First(s)] \in Int
    BY <1>4, <2>2
  <2>6. g[s] = f[First(s)] + g[s \ {First(s)}]
    BY <1>4, <2>2
  <2>7. f[First(s)] + g[s \ {First(s)}] \in Int
    BY <2>4, <2>5
  <2> QED
    BY <2>1, <2>6, <2>7
<1>6. \A s \in SUBSET D : \A i \in s : g[s] = f[i] + g[s \ {i}]
  <2> DEFINE B == {s \in SUBSET D : \E i \in s : g[s] # f[i] + g[s \ {i}]}
  <2> SUFFICES ASSUME B # {} PROVE FALSE
    OBVIOUS
  <2>1. PICK s \in B : \A t \in B : ~ (t \subseteq s /\ t # s)
    <3>1. B \subseteq SUBSET D
      OBVIOUS
    <3> HIDE DEF B
    <3> QED
      BY <3>1, Minimal
  <2>2. PICK i \in s : g[s] # f[i] + g[s \ {i}]
    OBVIOUS
  <2> DEFINE c == First(s)
             u == s \ {c}
             v == s \ {i}
             r == u \ {i}
  <2>3. c \in s /\ g[s] = f[c] + g[u]
    BY <1>4
  <2>4. c # i
    BY <2>2, <2>3
  <2>5. /\ u \in SUBSET D /\ u # s /\ i \in u
        /\ v \in SUBSET D /\ v # s /\ c \in v
        /\ r = v \ {c} /\ r \in SUBSET D
    BY <2>3, <2>4
  <2>6. g[u] = f[i] + g[r]
    BY <2>1, <2>5
  <2>7. g[v] = f[c] + g[r]
    BY <2>1, <2>5
  <2>8. f[i] \in Int /\ f[c] \in Int /\ g[r] \in Int
    BY <1>5, <2>3, <2>5
  <2> HIDE DEF c, u, v, r
  <2> QED
    BY <2>2, <2>3, <2>6, <2>7, <2>8 DEF v
<1> QED
  BY <1>2, <1>3, <1>5, <1>6

(* The n elements of f from m on.                                          *)
Window(f, m, n) == SumFunctionOnSet(f, m .. (m + n) - 1)

(* They are integers.                                                      *)
Whole(f, m, n) == \A i \in m .. (m + n) - 1 : f[i] \in Int

(* One element more.                                                       *)
LEMMA WindowStep ==
  ASSUME NEW f, NEW m \in Int, NEW n \in Nat, Whole(f, m, n + 1)
  PROVE  /\ Window(f, m, 0) = 0
         /\ Window(f, m, n) \in Int /\ Window(f, m, n + 1) \in Int
         /\ Window(f, m, n + 1) = f[m + n] + Window(f, m, n)
<1>1. m .. (m + 0) - 1 = {}
  OBVIOUS
<1>2. /\ IsFiniteSet(m .. (m + (n + 1)) - 1) /\ IsFiniteSet(m .. (m + n) - 1)
      /\ \A i \in m .. (m + (n + 1)) - 1 : f[i] \in Int
      /\ \A i \in m .. (m + n) - 1 : f[i] \in Int
  BY FS_Interval DEF Whole
<1>3. /\ m + n \in m .. (m + (n + 1)) - 1
      /\ (m .. (m + (n + 1)) - 1) \ {m + n} = m .. (m + n) - 1
  OBVIOUS
<1>4. /\ SumFunctionOnSet(f, m .. (m + n) - 1) \in Int
      /\ SumFunctionOnSet(f, {}) = 0
  BY <1>2, SumTakes
<1>5. /\ SumFunctionOnSet(f, m .. (m + (n + 1)) - 1) \in Int
      /\ \A i \in m .. (m + (n + 1)) - 1 :
           SumFunctionOnSet(f, m .. (m + (n + 1)) - 1)
             = f[i] + SumFunctionOnSet(f, (m .. (m + (n + 1)) - 1) \ {i})
  BY <1>2, SumTakes
<1> QED
  BY <1>1, <1>3, <1>4, <1>5 DEF Window

(* Two windows with the same elements, wherever they lie.                  *)
LEMMA WindowMoves ==
  ASSUME NEW f, NEW g, NEW m \in Int, NEW q \in Int, NEW n \in Nat, Whole(f, m, n),
         \A i \in 0 .. n - 1 : g[q + i] = f[m + i]
  PROVE  Window(g, q, n) = Window(f, m, n) /\ Window(f, m, n) \in Int
<1> DEFINE K == {k \in Nat : k <= n => /\ Window(g, q, k) = Window(f, m, k)
                                       /\ Window(f, m, k) \in Int}
<1>1. 0 \in K
  <2>1. m .. (m + 0) - 1 = {} /\ q .. (q + 0) - 1 = {}
    OBVIOUS
  <2>2. SumFunctionOnSet(f, {}) = 0 /\ SumFunctionOnSet(g, {}) = 0
    BY FS_EmptySet, SumTakes
  <2> QED
    BY <2>1, <2>2 DEF Window
<1>2. ASSUME NEW k \in Nat, k \in K
      PROVE  k + 1 \in K
  <2> SUFFICES ASSUME k + 1 <= n
               PROVE  /\ Window(g, q, k + 1) = Window(f, m, k + 1)
                      /\ Window(f, m, k + 1) \in Int
    OBVIOUS
  <2>1. Whole(f, m, k + 1)
    BY DEF Whole
  <2>2. Whole(g, q, k + 1)
    <3> SUFFICES ASSUME NEW i \in q .. (q + (k + 1)) - 1 PROVE g[i] \in Int
      BY DEF Whole
    <3>1. i - q \in 0 .. n - 1 /\ q + (i - q) = i /\ m + (i - q) \in m .. (m + n) - 1
      OBVIOUS
    <3> QED
      BY <3>1 DEF Whole
  <2>3. Window(f, m, k + 1) = f[m + k] + Window(f, m, k) /\ Window(f, m, k + 1) \in Int
    BY <2>1, WindowStep
  <2>4. Window(g, q, k + 1) = g[q + k] + Window(g, q, k)
    BY <2>2, WindowStep
  <2>5. g[q + k] = f[m + k] /\ Window(g, q, k) = Window(f, m, k)
    BY <1>2
  <2> QED
    BY <2>3, <2>4, <2>5
<1>3. n \in K
  <2> HIDE DEF K
  <2> QED
    BY <1>1, <1>2, NatInd
<1> QED
  BY <1>3

(* A window, and the one behind it.                                        *)
LEMMA WindowSplits ==
  ASSUME NEW f, NEW m \in Int, NEW p \in Nat, NEW n \in Nat, Whole(f, m, p + n)
  PROVE  /\ Window(f, m, p) \in Int /\ Window(f, m + p, n) \in Int
         /\ Window(f, m, p + n) = Window(f, m, p) + Window(f, m + p, n)
<1> DEFINE K == {k \in Nat : k <= n =>
                   /\ Window(f, m, p) \in Int /\ Window(f, m + p, k) \in Int
                   /\ Window(f, m, p + k) = Window(f, m, p) + Window(f, m + p, k)}
<1>1. 0 \in K
  <2>1. Whole(f, m, p)
    BY DEF Whole
  <2>2. Window(f, m, p) \in Int
    BY <2>1, WindowMoves
  <2>3. (m + p) .. ((m + p) + 0) - 1 = {} /\ p + 0 = p
    OBVIOUS
  <2>4. Window(f, m + p, 0) = 0
    BY <2>3, FS_EmptySet, SumTakes DEF Window
  <2> QED
    BY <2>2, <2>3, <2>4
<1>2. ASSUME NEW k \in Nat, k \in K
      PROVE  k + 1 \in K
  <2> SUFFICES ASSUME k + 1 <= n
               PROVE  /\ Window(f, m, p) \in Int /\ Window(f, m + p, k + 1) \in Int
                      /\ Window(f, m, p + (k + 1)) = Window(f, m, p) + Window(f, m + p, k + 1)
    OBVIOUS
  <2>1. Whole(f, m, (p + k) + 1) /\ Whole(f, m + p, k + 1)
    BY DEF Whole
  <2>2. Window(f, m, (p + k) + 1) = f[m + (p + k)] + Window(f, m, p + k)
    BY <2>1, WindowStep
  <2>3. /\ Window(f, m + p, k + 1) = f[(m + p) + k] + Window(f, m + p, k)
        /\ Window(f, m + p, k + 1) \in Int
    BY <2>1, WindowStep
  <2>4. (p + k) + 1 = p + (k + 1) /\ (m + p) + k = m + (p + k)
    OBVIOUS
  <2>5. f[m + (p + k)] \in Int
    BY <2>1 DEF Whole
  <2> QED
    BY <1>2, <2>2, <2>3, <2>4, <2>5
<1>3. n \in K
  <2> HIDE DEF K
  <2> QED
    BY <1>1, <1>2, NatInd
<1> QED
  BY <1>3

-----------------------------------------------------------------------------
(* Nibbles.                                                                *)

(* Quotient and remainder of a number written as such.                     *)
LEMMA DivMod ==
  ASSUME NEW d \in Nat \ {0}, NEW q \in Int, NEW r \in 0 .. d - 1
  PROVE  (q * d + r) \div d = q /\ (q * d + r) % d = r
OBVIOUS

(* A multiple divided by its factor.                                       *)
LEMMA Divides ==
  ASSUME NEW d \in Nat \ {0}, NEW q \in Int, NEW x, x = q * d
  PROVE  x \div d = q
<1>1. q * d = q * d + 0 /\ 0 \in 0 .. d - 1
  OBVIOUS
<1>2. (q * d + 0) \div d = q
  BY <1>1, DivMod
<1> QED
  BY <1>1, <1>2

(* The packed nibbles of a byte, taken out again (engine.c:315).            *)
LEMMA NibblesUnpack ==
  ASSUME NEW x \in Nibbles, NEW y \in Nibbles
  PROVE  /\ XorSub(((x % N) + N * (y % N)) % N) = x
         /\ Signed(((x % N) + N * (y % N)) % N) = x
         /\ ((x % N) + N * (y % N)) \div N = y % N
         /\ Signed(y % N) = y
<1>1. CASE N = 4
  BY <1>1 DEF Nibbles, XorSub, Signed
<1>2. CASE N = 8
  BY <1>2 DEF Nibbles, XorSub, Signed
<1>3. CASE N = 16
  BY <1>3 DEF Nibbles, XorSub, Signed
<1> QED
  BY <1>1, <1>2, <1>3, KernelAssumption

(* Bits of the neighbour that a shift brought in above do not matter       *)
(* (pie_rows.S:69-75).                                                     *)
LEMMA NibbleMasked ==
  ASSUME NEW y \in Nibbles, NEW z \in Int
  PROVE  XorSub(((y % N) + N * z) % N) = y
<1>1. CASE N = 4
  BY <1>1 DEF Nibbles, XorSub
<1>2. CASE N = 8
  BY <1>2 DEF Nibbles, XorSub
<1>3. CASE N = 16
  BY <1>3 DEF Nibbles, XorSub
<1> QED
  BY <1>1, <1>2, <1>3, KernelAssumption

-----------------------------------------------------------------------------
(* The operands.                                                           *)

(* What a kernel is called with: whole chunks, or whole blocks for dots; a *)
(* vector of anything behind the activation; weights that fit their width. *)
Span == IF kind = "dots" THEN DU * L ELSE Pack

Shape ==
  /\ kind \in Kind
  /\ rows \in Nat \ {0} /\ (kind # "dots" => rows = 1)
  /\ \E b \in Nat \ {0} : len = b * Span
  /\ a \in [0 .. (len + L) - 1 -> Int]
  /\ w \in [0 .. len * rows - 1 -> IF kind \in Packed THEN Nibbles ELSE Int]

Vectors == len \div L
Chunks == len \div Pack

(* A row is a whole number of vectors.                                     *)
LEMMA ShapeFacts ==
  ASSUME Shape
  PROVE  /\ Vectors \in Nat \ {0} /\ Vectors * L = len /\ len \in Nat \ {0}
         /\ kind = "dots" => \E b \in Nat \ {0} : Vectors = DU * b
         /\ kind # "dots" => /\ Chunks \in Nat \ {0} /\ Chunks * Pack = len
                             /\ Vectors = 2 * Chunks
<1> USE KernelAssumption
<1>1. PICK b \in Nat \ {0} : len = b * Span
  BY DEF Shape
<1>2. CASE kind = "dots"
  <2>1. len = b * (DU * L) /\ L \in Nat \ {0} /\ DU * b \in Nat \ {0} /\ b * (DU * L) = (DU * b) * L
    BY <1>1, <1>2 DEF Span
  <2>2. Vectors = DU * b
    BY <2>1, Divides DEF Vectors
  <2> QED
    BY <1>2, <2>1, <2>2
<1>3. CASE kind # "dots"
  <2>1. /\ len = b * Pack /\ len = (2 * b) * L /\ 2 * b \in Int
        /\ L \in Nat \ {0} /\ Pack \in Nat \ {0}
    BY <1>1, <1>3 DEF Span, Pack
  <2>2. Vectors = 2 * b
    BY <2>1, Divides DEF Vectors
  <2>3. Chunks = b
    BY <2>1, Divides DEF Chunks
  <2> QED
    BY <1>3, <2>1, <2>2, <2>3
<1> QED
  BY <1>2, <1>3

(* The sizes are numbers.                                                  *)
LEMMA Sizes ==
  ASSUME Shape
  PROVE  /\ Vectors \in Nat \ {0} /\ Vectors * L = len /\ L \in Nat \ {0} /\ len \in Nat
         /\ rows \in Nat
<1>1. rows \in Nat
  BY DEF Shape
<1>2. L \in Nat \ {0}
  BY KernelAssumption
<1> QED
  BY <1>1, <1>2, ShapeFacts

(* Products are monotonic.                                                 *)
LEMMA Monotonic ==
  ASSUME NEW x \in Int, NEW y \in Int, NEW d \in Nat, x <= y
  PROVE  x * d <= y * d
<1>1. (y - x) * d >= 0
  OBVIOUS
<1> QED
  BY <1>1

(* A vector of the activation.                                             *)
LEMMA VecAIs ==
  ASSUME Shape, NEW p \in 0 .. Vectors
  PROVE  /\ p * L + L <= len + L
         /\ VecA(p) \in [0 .. L - 1 -> Int]
         /\ \A i \in 0 .. L - 1 : VecA(p)[i] = a[p * L + i] 
<1>1. Vectors \in Nat /\ Vectors * L = len /\ L \in Nat \ {0} /\ len \in Nat
  BY ShapeFacts, KernelAssumption
<1>2. p * L <= len /\ p * L \in Nat
  BY <1>1, Monotonic
<1>3. \A i \in 0 .. L - 1 : p * L + i \in 0 .. (len + L) - 1
  BY <1>1, <1>2
<1>4. a \in [0 .. (len + L) - 1 -> Int]
  BY DEF Shape
<1>5. \A i \in 0 .. L - 1 : At(a, p * L + i) = a[p * L + i] /\ a[p * L + i] \in Int
  BY <1>3, <1>4 DEF At
<1> QED
  BY <1>1, <1>2, <1>5 DEF VecA

(* Where a vector of a row of weights lies.                                *)
LEMMA RowVector ==
  ASSUME Shape, NEW r \in 0 .. rows - 1, NEW p \in 0 .. Vectors - 1
  PROVE  /\ (r * Vectors + p) * L = r * len + p * L
         /\ \A i \in 0 .. L - 1 : r * len + p * L + i \in 0 .. len * rows - 1
         /\ p * L + L <= len
<1>1. /\ Vectors \in Nat /\ Vectors * L = len /\ L \in Nat \ {0} /\ len \in Nat
      /\ rows \in Nat
  BY ShapeFacts, KernelAssumption DEF Shape
<1>2. (p + 1) * L <= Vectors * L /\ (r + 1) * len <= rows * len
  BY <1>1, Monotonic
<1>3. (p + 1) * L = p * L + L /\ (r + 1) * len = r * len + len /\ rows * len = len * rows
  BY <1>1
<1>4. p * L \in Nat /\ r * len \in Nat /\ len * rows \in Nat
  BY <1>1
<1>5. (r * Vectors + p) * L = r * (Vectors * L) + p * L
  BY <1>1
<1> QED
  BY <1>1, <1>2, <1>3, <1>4, <1>5

(* A byte of packed weights holds two elements of its chunk, L apart.      *)
LEMMA ByteIs ==
  ASSUME Shape, kind \in Packed, NEW c \in 0 .. Chunks - 1, NEW j \in 0 .. L - 1
  PROVE  /\ w[c * Pack + j] \in Nibbles /\ w[(c * Pack + j) + L] \in Nibbles
         /\ Byte(c * L + j) = (w[c * Pack + j] % N) + N * (w[(c * Pack + j) + L] % N)
<1> USE KernelAssumption
<1>1. /\ Chunks \in Nat /\ Chunks * Pack = len /\ len \in Nat /\ rows = 1
      /\ Pack = 2 * L /\ Pack \in Nat
  <2>1. kind # "dots"
    BY DEF Packed
  <2>2. rows = 1
    BY <2>1 DEF Shape
  <2> QED
    BY <2>1, <2>2, ShapeFacts DEF Pack
<1>2. (c + 1) * Pack <= Chunks * Pack
  BY <1>1, Monotonic
<1>3. (c + 1) * Pack = c * Pack + Pack /\ c * Pack \in Nat
  BY <1>1
<1>4. c * Pack + j \in 0 .. len * rows - 1 /\ (c * Pack + j) + L \in 0 .. len * rows - 1
  BY <1>1, <1>2, <1>3
<1>5. w \in [0 .. len * rows - 1 -> Nibbles]
  BY DEF Shape
<1>6. (c * L + j) \div L = c /\ (c * L + j) % L = j
  <2>1. L \in Nat \ {0} /\ c \in Int
    BY <1>1
  <2> QED
    BY <2>1, DivMod
<1> QED
  BY <1>4, <1>5, <1>6 DEF Byte, At

(* A nibble is an integer, and so is what is left of it.                   *)
LEMMA NibbleType ==
  ASSUME NEW x \in Nibbles, NEW y \in Nibbles
  PROVE  x \in Int /\ x % N \in Int /\ (x % N) + N * (y % N) \in Int
         /\ ((x % N) + N * (y % N)) % N \in Int
<1>1. CASE N = 4
  BY <1>1 DEF Nibbles
<1>2. CASE N = 8
  BY <1>2 DEF Nibbles
<1>3. CASE N = 16
  BY <1>3 DEF Nibbles
<1> QED
  BY <1>1, <1>2, <1>3, KernelAssumption

(* Unpacked in registers, a vector of bytes is two vectors of weights.     *)
LEMMA LowHighAre ==
  ASSUME Shape, kind \in Packed, NEW c \in 0 .. Chunks - 1, NEW i \in 0 .. L - 1
  PROVE  Low(c)[i] = w[c * Pack + i] /\ High(c)[i] = w[(c * Pack + i) + L]
<1> DEFINE x == w[c * Pack + i]
           y == w[(c * Pack + i) + L]
           b == (x % N) + N * (y % N)
           z == IF i < L - 1 THEN Byte(c * L + i + 1) % N ELSE 0
<1>1. x \in Nibbles /\ y \in Nibbles /\ Byte(c * L + i) = b
  BY ByteIs
<1>2. z \in Int
  <2>1. CASE i < L - 1
    <3>1. i + 1 \in 0 .. L - 1 /\ c * L + i + 1 = c * L + (i + 1)
      BY <2>1, KernelAssumption
    <3>2. /\ w[c * Pack + (i + 1)] \in Nibbles /\ w[(c * Pack + (i + 1)) + L] \in Nibbles
          /\ Byte(c * L + (i + 1)) = (w[c * Pack + (i + 1)] % N)
                                       + N * (w[(c * Pack + (i + 1)) + L] % N)
      BY <3>1, ByteIs
    <3>3. Byte(c * L + (i + 1)) % N \in Int
      BY <3>2, NibbleType
    <3> QED
      BY <2>1, <3>1, <3>3
  <2>2. CASE ~ (i < L - 1)
    BY <2>2
  <2> QED
    BY <2>1, <2>2
<1>3. Low(c)[i] = XorSub(Byte(c * L + i) % N)
  BY DEF Low
<1>4. High(c)[i] = XorSub(((Byte(c * L + i) \div N) + N * z) % N)
  BY DEF High, Shifted
<1> HIDE DEF x, y, z
<1>5. XorSub(b % N) = x /\ b \div N = y % N /\ XorSub(((y % N) + N * z) % N) = y
  BY <1>1, <1>2, NibblesUnpack, NibbleMasked
<1> QED
  BY <1>1, <1>3, <1>4, <1>5 DEF x, y

(* So does the engine's buffer of unpacked weights: any element.           *)
LEMMA UnpackedIs ==
  ASSUME Shape, kind \in Packed, NEW p \in 0 .. Vectors - 1, NEW i \in 0 .. L - 1
  PROVE  Unpacked(p * L + i) = w[p * L + i]
<1> USE KernelAssumption
<1>1. /\ Chunks \in Nat /\ Vectors = 2 * Chunks /\ Pack = 2 * L /\ Pack \in Nat \ {0}
      /\ L \in Nat \ {0}
  BY ShapeFacts DEF Packed, Pack
<1>2. PICK c \in 0 .. Chunks - 1 : p = 2 * c \/ p = 2 * c + 1
  <2> DEFINE c == p \div 2
  <2>1. c \in 0 .. Chunks - 1 /\ (p = 2 * c \/ p = 2 * c + 1)
    BY <1>1
  <2> QED
    BY <2>1
<1> DEFINE x == w[c * Pack + i]
           y == w[(c * Pack + i) + L]
           b == (x % N) + N * (y % N)
<1>3. x \in Nibbles /\ y \in Nibbles /\ Byte(c * L + i) = b
  BY ByteIs
<1>4. Signed(b % N) = x /\ b \div N = y % N /\ Signed(y % N) = y
  <2> HIDE DEF x, y
  <2> QED
    BY <1>3, NibblesUnpack
<1>5. (p * L + i) % L = i
  BY <1>1, DivMod
<1>6. CASE p = 2 * c
  <2>1. i \in 0 .. Pack - 1 /\ p * L + i = c * Pack + i
    <3>1. (2 * c) * L = c * (2 * L) /\ i \in 0 .. 2 * L - 1
      OBVIOUS
    <3> QED
      BY <1>1, <1>6, <3>1
  <2>2. (c * Pack + i) \div Pack = c /\ (c * Pack + i) % Pack = i
    <3>1. Pack \in Nat \ {0} /\ c \in Int
      BY <1>1
    <3> QED
      BY <2>1, <3>1, DivMod
  <2>3. Unpacked(p * L + i) = Signed(Byte(c * L + i) % N)
    BY <1>5, <2>1, <2>2 DEF Unpacked
  <2> QED
    BY <1>3, <1>4, <2>1, <2>3
<1>7. CASE p = 2 * c + 1
  <2>1. i + L \in 0 .. Pack - 1 /\ p * L + i = c * Pack + (i + L) /\ ~ (i + L < L)
        /\ p * L + i = (c * Pack + i) + L
    BY <1>1, <1>7
  <2>2. (c * Pack + (i + L)) \div Pack = c /\ (c * Pack + (i + L)) % Pack = i + L
    <3> DEFINE k == i + L
    <3>1. k \in 0 .. Pack - 1
      BY <2>1
    <3> HIDE DEF k
    <3>2. (c * Pack + k) \div Pack = c /\ (c * Pack + k) % Pack = k
      BY <1>1, <3>1, DivMod
    <3> QED
      BY <3>2 DEF k
  <2>3. Unpacked(p * L + i) = Signed(Byte(c * L + i) \div N)
    BY <1>5, <2>1, <2>2 DEF Unpacked
  <2> QED
    BY <1>3, <1>4, <2>1, <2>3
<1> QED
  BY <1>2, <1>6, <1>7

-----------------------------------------------------------------------------
(* Dot products.                                                           *)

(* The products of row r of n elements, of any two operands; of the call.  *)
Products(x, y, n, r) == [i \in 0 .. n - 1 |-> x[i] * y[r * n + i]]
Term(r) == Products(a, w, len, r)

(* They are integers.                                                      *)
LEMMA TermType ==
  ASSUME Shape, NEW r \in 0 .. rows - 1
  PROVE  /\ \A i \in 0 .. len - 1 : a[i] \in Int /\ w[r * len + i] \in Int /\ Term(r)[i] \in Int
         /\ \A i \in 0 .. len - 1 : Term(r)[i] = a[i] * w[r * len + i]
<1>1. len \in Nat /\ rows \in Nat /\ L \in Nat \ {0}
  BY ShapeFacts, KernelAssumption DEF Shape
<1>2. (r + 1) * len <= rows * len
  BY <1>1, Monotonic
<1>3. (r + 1) * len = r * len + len /\ rows * len = len * rows /\ r * len \in Nat
  BY <1>1
<1>4. \A i \in 0 .. len - 1 : r * len + i \in 0 .. len * rows - 1 /\ i \in 0 .. (len + L) - 1
  BY <1>1, <1>2, <1>3
<1>5. \A v \in Nibbles : v \in Int
  BY NibbleType
<1>6. w \in [0 .. len * rows - 1 -> Int]
  BY <1>5 DEF Shape
<1>7. a \in [0 .. (len + L) - 1 -> Int]
  BY DEF Shape
<1>8. \A i \in 0 .. len - 1 : a[i] \in Int /\ w[r * len + i] \in Int
  BY <1>4, <1>6, <1>7
<1> QED
  BY <1>8 DEF Term, Products

(* A stretch of a row lies within it.                                      *)
LEMMA TermWhole ==
  ASSUME Shape, NEW r \in 0 .. rows - 1, NEW m \in Nat, NEW n \in Nat, m + n <= len
  PROVE  Whole(Term(r), m, n)
<1>1. \A i \in m .. (m + n) - 1 : i \in 0 .. len - 1
  BY ShapeFacts
<1> QED
  BY <1>1, TermType DEF Whole

(* The definition, over a stretch of a row.                                *)
LEMMA DotIs ==
  ASSUME Shape, NEW r \in 0 .. rows - 1, NEW m \in Nat, NEW n \in Nat, m + n <= len
  PROVE  Dot(r, m .. (m + n) - 1) = Window(Term(r), m, n)
<1> DEFINE g == [i \in m .. (m + n) - 1 |-> a[i] * w[r * len + i]]
<1>1. Whole(Term(r), m, n) /\ len \in Nat
  BY TermWhole, ShapeFacts
<1>2. Dot(r, m .. (m + n) - 1) = Window(g, m, n)
  BY DEF Dot, SumFunction, Window
<1>3. \A i \in 0 .. n - 1 : m + i \in m .. (m + n) - 1 /\ m + i \in 0 .. len - 1
  BY <1>1
<1>4. \A i \in 0 .. n - 1 : g[m + i] = Term(r)[m + i]
  BY <1>3 DEF Term, Products
<1> HIDE DEF g
<1>5. Window(g, m, n) = Window(Term(r), m, n)
  BY <1>1, <1>4, WindowMoves
<1> QED
  BY <1>2, <1>5

(* One multiply-accumulate of two vectors that hold a stretch of the row.  *)
LEMMA MacIs ==
  ASSUME Shape, NEW r \in 0 .. rows - 1, NEW m \in Nat, m + L <= len, NEW x, NEW y,
         \A i \in 0 .. L - 1 : x[i] = a[m + i] /\ y[i] = w[r * len + (m + i)]
  PROVE  Mac(x, y) = Window(Term(r), m, L) /\ Mac(x, y) \in Int
<1> DEFINE g == [i \in 0 .. L - 1 |-> x[i] * y[i]]
<1>1. Whole(Term(r), m, L) /\ len \in Nat /\ L \in Nat
  BY TermWhole, ShapeFacts, KernelAssumption
<1>2. Mac(x, y) = Window(g, 0, L)
  <2>1. 0 .. (0 + L) - 1 = 0 .. L - 1
    BY <1>1
  <2>2. Mac(x, y) = SumFunctionOnSet(g, 0 .. L - 1)
    BY DEF Mac, SumFunction
  <2> HIDE DEF g
  <2> QED
    BY <2>1, <2>2 DEF Window
<1>3. \A i \in 0 .. L - 1 : m + i \in 0 .. len - 1 /\ 0 + i = i
  BY <1>1
<1>4. \A i \in 0 .. L - 1 : g[0 + i] = Term(r)[m + i]
  BY <1>3, TermType
<1> HIDE DEF g
<1>5. Window(g, 0, L) = Window(Term(r), m, L) /\ Window(Term(r), m, L) \in Int
  BY <1>1, <1>4, WindowMoves
<1> QED
  BY <1>2, <1>5

(* The kernels that read their weights a vector at a time.                 *)
Nibblewise == {"row_i4", "rowsum_i4"}

(* A vector of weights, unpacked to a buffer or never packed.              *)
LEMMA VecWIs ==
  ASSUME Shape, kind \notin Nibblewise, NEW r \in 0 .. rows - 1, NEW p \in 0 .. Vectors - 1,
         NEW i \in 0 .. L - 1
  PROVE  VecW(r * Vectors + p)[i] = w[r * len + (p * L + i)]
<1>1. /\ (r * Vectors + p) * L = r * len + p * L
      /\ r * len + p * L + i \in 0 .. len * rows - 1
  BY RowVector
<1>2. /\ L \in Nat \ {0} /\ len \in Nat /\ Vectors \in Nat /\ rows \in Nat
  BY ShapeFacts, KernelAssumption DEF Shape
<1>3. (r * Vectors + p) * L + i = r * len + (p * L + i)
      /\ r * len + p * L + i = r * len + (p * L + i)
  BY <1>1, <1>2
<1>4. CASE kind = "gemm"
  <2>1. rows = 1 /\ kind \in Packed
    BY <1>4 DEF Shape, Packed
  <2>2. r = 0
    BY <2>1
  <2>3. r * Vectors + p = p /\ r * len + (p * L + i) = p * L + i
    BY <1>2, <2>2
  <2>4. Unpacked(p * L + i) = w[p * L + i]
    BY <2>1, UnpackedIs
  <2> QED
    BY <1>4, <2>3, <2>4 DEF VecW
<1>5. CASE kind # "gemm"
  <2>1. VecW(r * Vectors + p)[i] = At(w, r * len + (p * L + i))
    BY <1>3, <1>5 DEF VecW
  <2>2. r * len + (p * L + i) \in DOMAIN w
    BY <1>1, <1>3 DEF Shape
  <2> QED
    BY <2>1, <2>2 DEF At
<1> QED
  BY <1>4, <1>5

(* What one step of the fused loop, or half a chunk, adds.                 *)
LEMMA VectorAdds ==
  ASSUME Shape, kind \notin Nibblewise, NEW r \in 0 .. rows - 1, NEW p \in 0 .. Vectors - 1
  PROVE  /\ Mac(VecA(p), VecW(r * Vectors + p)) = Window(Term(r), p * L, L)
         /\ Mac(VecA(p), VecW(r * Vectors + p)) \in Int
<1>1. p * L + L <= len /\ p * L \in Nat /\ p \in 0 .. Vectors
  BY RowVector, ShapeFacts, KernelAssumption
<1>2. \A i \in 0 .. L - 1 : VecA(p)[i] = a[p * L + i]
  BY <1>1, VecAIs
<1>3. \A i \in 0 .. L - 1 : VecW(r * Vectors + p)[i] = w[r * len + (p * L + i)]
  BY VecWIs
<1> QED
  BY <1>1, <1>2, <1>3, MacIs

(* What a chunk adds, its weights unpacked in registers or not.            *)
LEMMA ChunkAdds ==
  ASSUME Shape, kind # "dots", NEW c \in 0 .. Chunks - 1, pa = 2 * c,
         pb = IF kind \in Nibblewise THEN c ELSE 2 * c
  PROVE  ChunkSum = Window(Term(0), c * Pack, Pack) /\ ChunkSum \in Int
<1> DEFINE p == 2 * c
<1>1. /\ Chunks \in Nat /\ Chunks * Pack = len /\ Vectors = 2 * Chunks /\ len \in Nat
      /\ Pack = 2 * L /\ L \in Nat \ {0} /\ Pack = L + L
  BY ShapeFacts, KernelAssumption DEF Pack
<1>2. /\ p \in 0 .. Vectors - 1 /\ p + 1 \in 0 .. Vectors - 1 /\ rows = 1
      /\ p * L = c * Pack /\ (p + 1) * L = c * Pack + L /\ c * Pack \in Nat
      /\ p \in 0 .. Vectors /\ p + 1 \in 0 .. Vectors /\ 0 \in 0 .. rows - 1
  BY <1>1 DEF Shape
<1>3. /\ p * L + L <= len /\ (p + 1) * L + L <= len
  BY <1>2, RowVector
<1>4. Whole(Term(0), c * Pack, L + L)
  BY <1>1, <1>2, <1>3, TermWhole
<1>5. Window(Term(0), c * Pack, Pack) = Window(Term(0), c * Pack, L) + Window(Term(0), c * Pack + L, L)
  BY <1>1, <1>2, <1>4, WindowSplits
<1>6. CASE kind \in Nibblewise
  <2>1. kind \in Packed
    BY <1>6 DEF Nibblewise, Packed
  <2>2. \A i \in 0 .. L - 1 : Low(c)[i] = w[c * Pack + i] /\ High(c)[i] = w[(c * Pack + i) + L]
    BY <2>1, LowHighAre
  <2>3. \A i \in 0 .. L - 1 : VecA(p)[i] = a[p * L + i] /\ VecA(p + 1)[i] = a[(p + 1) * L + i]
    BY <1>2, VecAIs
  <2>4. \A i \in 0 .. L - 1 : /\ 0 * len + (c * Pack + i) = c * Pack + i
                              /\ 0 * len + ((c * Pack + L) + i) = (c * Pack + i) + L
    BY <1>1, <1>2
  <2>5. /\ Mac(VecA(p), Low(c)) = Window(Term(0), c * Pack, L)
        /\ Mac(VecA(p), Low(c)) \in Int
    BY <1>2, <1>3, <2>2, <2>3, <2>4, MacIs
  <2>6. /\ Mac(VecA(p + 1), High(c)) = Window(Term(0), c * Pack + L, L)
        /\ Mac(VecA(p + 1), High(c)) \in Int
    <3> DEFINE m == c * Pack + L
    <3>1. m \in Nat /\ m + L <= len /\ (p + 1) * L = m
      BY <1>1, <1>2, <1>3
    <3>2. \A i \in 0 .. L - 1 : VecA(p + 1)[i] = a[m + i] /\ High(c)[i] = w[0 * len + (m + i)]
      BY <2>2, <2>3, <2>4, <3>1
    <3> HIDE DEF m
    <3>3. Mac(VecA(p + 1), High(c)) = Window(Term(0), m, L) /\ Mac(VecA(p + 1), High(c)) \in Int
      BY <1>2, <3>1, <3>2, MacIs
    <3> QED
      BY <3>3 DEF m
  <2>7. ChunkSum = Mac(VecA(p), Low(c)) + Mac(VecA(p + 1), High(c))
    BY <1>6 DEF ChunkSum, Nibblewise
  <2> QED
    BY <1>5, <2>5, <2>6, <2>7
<1>7. CASE kind \notin Nibblewise
  <2>1. 0 * Vectors + p = p /\ 0 * Vectors + (p + 1) = p + 1
    BY <1>1, <1>2
  <2>2. /\ Mac(VecA(p), VecW(p)) = Window(Term(0), p * L, L)
        /\ Mac(VecA(p), VecW(p)) \in Int
    BY <1>2, <1>7, <2>1, VectorAdds
  <2>3. /\ Mac(VecA(p + 1), VecW(p + 1)) = Window(Term(0), (p + 1) * L, L)
        /\ Mac(VecA(p + 1), VecW(p + 1)) \in Int
    <3> DEFINE q == p + 1
    <3>1. q \in 0 .. Vectors - 1 /\ 0 * Vectors + q = q
      BY <1>2, <2>1
    <3> HIDE DEF q
    <3>2. Mac(VecA(q), VecW(q)) = Window(Term(0), q * L, L) /\ Mac(VecA(q), VecW(q)) \in Int
      BY <1>2, <1>7, <3>1, VectorAdds
    <3> QED
      BY <3>2 DEF q
  <2>4. ChunkSum = Mac(VecA(p), VecW(p)) + Mac(VecA(p + 1), VecW(p + 1))
    BY <1>7 DEF ChunkSum, Nibblewise
  <2> QED
    BY <1>2, <1>5, <2>2, <2>3, <2>4
<1> QED
  BY <1>6, <1>7

-----------------------------------------------------------------------------
(* The invariant.                                                          *)

(* Sums a call returns, and the sum number i.                              *)
Results == IF kind \in Grouped THEN Chunks ELSE rows
Result(i) ==
  IF kind \in Grouped THEN Window(Term(0), (i - 1) * Pack, Pack) ELSE Window(Term(i - 1), 0, len)

(* Vectors of weights that c chunks take.                                  *)
ChunkVectors(c) == IF kind \in Nibblewise THEN c ELSE 2 * c

(* Sums drained are right; the pointers stay in their buffers.             *)
OutInv ==
  /\ out \in Seq(Int) /\ Len(out) <= Results
  /\ \A i \in 1 .. Len(out) : out[i] = Result(i)
  /\ pa \in 0 .. Vectors + 1
  /\ pb \in 0 .. (IF kind \in Nibblewise THEN Chunks ELSE rows * Vectors)

(* Before a row.                                                           *)
RowInv ==
  pc = "row" =>
    /\ Len(out) < rows /\ pb = Len(out) * Vectors
    /\ kind # "dots" => pa = 0

(* In the fused loop the activation is one vector ahead, in q0.            *)
FusedInv ==
  pc = "fused" =>
    /\ Fuses /\ Len(out) < rows
    /\ pa \in 1 .. Vectors /\ left = Vectors - (pa - 1)
    /\ pb = Len(out) * Vectors + (pa - 1)
    /\ \A i \in 0 .. L - 1 : q0[i] = a[(pa - 1) * L + i]
    /\ acc = Window(Term(Len(out)), 0, (pa - 1) * L)

(* Before a chunk.                                                         *)
ChunkInv ==
  pc = "chunk" =>
    /\ kind # "dots" /\ left \in 1 .. Chunks
    /\ pa = 2 * (Chunks - left) /\ pb = ChunkVectors(Chunks - left)
    /\ kind \in Grouped => Len(out) = Chunks - left /\ acc = 0
    /\ kind \notin Grouped => /\ Len(out) = 0
                              /\ acc = Window(Term(0), 0, (Chunks - left) * Pack)

(* A sum is complete.                                                      *)
DrainInv ==
  pc = "drain" =>
    /\ Len(out) < Results /\ acc = Result(Len(out) + 1) /\ acc \in Int
    /\ kind = "dots" => pb = (Len(out) + 1) * Vectors
    /\ kind \in Grouped => /\ left = Chunks - (Len(out) + 1)
                           /\ pa = 2 * (Len(out) + 1)
                           /\ pb = ChunkVectors(Len(out) + 1)

KernelInv ==
  /\ Shape
  /\ pc \in {"row", "fused", "chunk", "drain", "done"}
  /\ OutInv /\ RowInv /\ FusedInv /\ ChunkInv /\ DrainInv
  /\ pc = "done" => Len(out) = Results

(* A multiply-accumulate of the fused loop.                                *)
LEMMA FusedHolds ==
  ASSUME KernelInv, Fused
  PROVE  KernelInv'
<1> DEFINE r == Len(out)
           p == pa - 1
<1>0. /\ Vectors \in Nat \ {0} /\ Vectors * L = len /\ L \in Nat \ {0} /\ len \in Nat
      /\ rows \in Nat /\ Len(out) \in Nat /\ Shape /\ pc = "fused" /\ Fuses
      /\ out \in Seq(Int)
  <2>1. Shape /\ pc = "fused" /\ Fuses /\ out \in Seq(Int)
    BY DEF KernelInv, Fused, OutInv, FusedInv
  <2>2. Len(out) \in Nat
    BY <2>1
  <2> QED
    BY <2>1, <2>2, Sizes
<1>1. /\ r \in 0 .. rows - 1 /\ p \in 0 .. Vectors - 1 /\ pa = p + 1
      /\ left = Vectors - p /\ pb = r * Vectors + p
      /\ \A i \in 0 .. L - 1 : q0[i] = a[p * L + i]
      /\ acc = Window(Term(r), 0, p * L)
      /\ kind \notin Nibblewise /\ kind \notin Grouped
  <2>1. kind \notin Nibblewise /\ kind \notin Grouped
    BY <1>0 DEF Fuses, Nibblewise, Grouped
  <2>2. FusedInv
    BY DEF KernelInv
  <2> QED
    BY <1>0, <2>1, <2>2 DEF FusedInv
<1> HIDE DEF p
<1>2. /\ UNCHANGED <<kind, len, rows, a, w, out>>
      /\ acc' = acc + Mac(q0, VecW(pb))
      /\ q0' = VecA(pa) /\ pa' = pa + 1 /\ pb' = pb + 1 /\ left' = left - 1
      /\ pc' = IF left = 1 THEN "drain" ELSE pc
  BY DEF Fused, input
<1>4. acc' = Window(Term(r), 0, pa * L) /\ acc' \in Int
  <2>1. p * L + L <= len /\ p * L \in Nat /\ p * L + L = pa * L
    <3>1. p * L + L <= len
      BY <1>0, <1>1, RowVector
    <3>2. p \in Nat /\ pa = p + 1 /\ L \in Nat
      BY <1>0, <1>1
    <3> QED
      BY <3>1, <3>2
  <2>2. \A i \in 0 .. L - 1 : VecW(pb)[i] = w[r * len + (p * L + i)]
    BY <1>0, <1>1, VecWIs
  <2> HIDE DEF r
  <2>3. Mac(q0, VecW(pb)) = Window(Term(r), p * L, L) /\ Mac(q0, VecW(pb)) \in Int
    BY <1>0, <1>1, <2>1, <2>2, MacIs
  <2>4. Whole(Term(r), 0, p * L + L)
    BY <1>0, <1>1, <2>1, TermWhole
  <2>5. /\ Window(Term(r), 0, p * L) \in Int
        /\ Window(Term(r), 0, p * L + L) = Window(Term(r), 0, p * L) + Window(Term(r), 0 + p * L, L)
    BY <1>0, <2>1, <2>4, WindowSplits
  <2>6. 0 + p * L = p * L
    BY <2>1
  <2> QED
    BY <1>1, <1>2, <2>1, <2>3, <2>5, <2>6
<1>5. Vectors' = Vectors /\ Chunks' = Chunks /\ Results' = Results /\ Fuses' = Fuses
  BY <1>2 DEF Vectors, Chunks, Results, Fuses
<1>6. Shape'
  BY <1>0, <1>2 DEF Shape, Span
<1>7. /\ pa' \in 0 .. Vectors + 1 /\ pb' \in 0 .. rows * Vectors
      /\ left = 1 => pa = Vectors /\ pb' = (r + 1) * Vectors
  <2>1. (r + 1) * Vectors <= rows * Vectors /\ (r + 1) * Vectors = r * Vectors + Vectors
        /\ r * Vectors \in Nat /\ rows * Vectors \in Nat
    <3> HIDE DEF r
    <3>1. r + 1 \in Int /\ r + 1 <= rows /\ r \in Nat
      BY <1>0, <1>1
    <3> QED
      BY <1>0, <3>1, Monotonic
  <2>2. /\ p \in 0 .. Vectors - 1 /\ pa = p + 1 /\ left = Vectors - p /\ Vectors \in Nat
        /\ pa' = pa + 1 /\ pb' = (r * Vectors + p) + 1
    BY <1>0, <1>1, <1>2
  <2> HIDE DEF r
  <2>3. pa' \in 0 .. Vectors + 1 /\ (left = 1 => pa = Vectors)
    BY <2>2
  <2> DEFINE t == r * Vectors
  <2> HIDE DEF t
  <2>4. t \in Nat /\ (r + 1) * Vectors = t + Vectors /\ pb' = (t + p) + 1
    BY <2>1, <2>2 DEF t
  <2> QED
    BY <2>1, <2>2, <2>3, <2>4
<1>8. OutInv'
  <2>1. \A i \in 1 .. Len(out) : out[i] = Result(i)
    BY DEF KernelInv, OutInv
  <2>2. (\A i \in 1 .. Len(out) : out[i] = Result(i))'
    BY <1>2, <2>1 DEF Result, Term
  <2>3. out' \in Seq(Int) /\ Len(out') <= Results'
    BY <1>2, <1>5 DEF KernelInv, OutInv
  <2>4. pb' \in 0 .. (IF kind' \in Nibblewise THEN Chunks' ELSE rows' * Vectors')
    BY <1>1, <1>2, <1>5, <1>7
  <2>5. pa' \in 0 .. Vectors' + 1
    BY <1>5, <1>7
  <2> QED
    BY <2>2, <2>3, <2>4, <2>5 DEF OutInv
<1>9. FusedInv'
  <2> SUFFICES ASSUME pc' = "fused" PROVE FusedInv'
    BY DEF FusedInv
  <2>1. left # 1 /\ pa' \in 1 .. Vectors /\ left' = Vectors - (pa' - 1)
        /\ pb' = r * Vectors + (pa' - 1) /\ pa \in 0 .. Vectors
    BY <1>1, <1>2, <1>0
  <2>2. \A i \in 0 .. L - 1 : q0'[i] = a'[(pa' - 1) * L + i]
    <3>1. pa' - 1 = pa
      BY <1>0, <1>1, <1>2
    <3>2. \A i \in 0 .. L - 1 : VecA(pa)[i] = a[pa * L + i]
      BY <1>0, <2>1, VecAIs
    <3> QED
      BY <1>2, <3>1, <3>2
  <2>3. acc' = Window(Term(Len(out)), 0, (pa - 1) * L)'
    BY <1>1, <1>2, <1>4 DEF Term
  <2>4. Fuses' /\ Len(out') < rows' /\ r = Len(out')
    BY <1>0, <1>1, <1>2, <1>5
  <2> HIDE DEF r
  <2> QED
    BY <1>5, <2>1, <2>2, <2>3, <2>4 DEF FusedInv
<1>10. DrainInv'
  <2> SUFFICES ASSUME pc' = "drain" PROVE DrainInv'
    BY DEF DrainInv
  <2>1. left = 1 /\ pa * L = len
    BY <1>1, <1>2, <1>0, <1>7
  <2>2. acc' = Result(r + 1)
    BY <1>1, <1>4, <2>1 DEF Result
  <2>3. Result(r + 1) = Result(Len(out) + 1)'
    BY <1>2 DEF Result, Term
  <2> QED
    <3>1. Results' = rows /\ Len(out') < rows /\ kind' \notin Grouped /\ Len(out') = Len(out)
      BY <1>0, <1>1, <1>2 DEF Results
    <3> QED
      BY <1>2, <1>4, <1>5, <1>7, <2>1, <2>2, <2>3, <3>1 DEF DrainInv
<1>11. pc' \in {"fused", "drain"}
  BY <1>0, <1>2
<1> QED
  BY <1>6, <1>8, <1>9, <1>10, <1>11 DEF KernelInv, RowInv, ChunkInv

(* The unrolled loop covers the row: whole blocks, at least one.           *)
LEMMA FusedIsAll ==
  ASSUME Shape, Fuses
  PROVE  FusedVectors = Vectors
<1>1. {RU, DU} \subseteq Nat \ {0}
  BY KernelAssumption
<1>2. CASE kind = "dots"
  <2>1. PICK b \in Nat \ {0} : Vectors = DU * b
    BY <1>2, ShapeFacts
  <2>2. DU \in Nat \ {0} /\ Vectors = b * DU
    BY <1>1, <2>1
  <2>3. Vectors \div DU = b
    BY <2>2, Divides
  <2> QED
    BY <1>2, <2>1, <2>3 DEF FusedVectors, Vectors
<1>3. CASE kind # "dots"
  <2>1. /\ Chunks \in Nat \ {0} /\ Vectors = 2 * Chunks /\ Chunks % RU = 0
    BY <1>3, ShapeFacts DEF Fuses, Chunks
  <2> DEFINE m == Chunks \div RU
             u == 2 * RU
  <2>2. m \in Int /\ Chunks = RU * m
    <3>1. RU \in Nat \ {0}
      BY <1>1
    <3> QED
      BY <2>1, <3>1
  <2> HIDE DEF m
  <2>3. m \in Nat \ {0}
    <3>1. RU \in Nat \ {0}
      BY <1>1
    <3>2. ASSUME m <= 0 PROVE FALSE
      <4>1. m * RU <= 0 * RU
        BY <2>2, <3>1, <3>2, Monotonic
      <4> QED
        BY <2>1, <2>2, <3>1, <4>1
    <3> QED
      BY <2>2, <3>2
  <2>4. u \in Nat \ {0} /\ Vectors = m * u /\ Vectors = u * m
    BY <1>1, <2>1, <2>2
  <2>5. Vectors \div u = m
    <3> HIDE DEF u
    <3> QED
      BY <2>3, <2>4, Divides
  <2> QED
    BY <1>3, <2>3, <2>4, <2>5 DEF FusedVectors, Vectors
<1> QED
  BY <1>2, <1>3

(* An empty stretch sums to nothing.                                       *)
LEMMA NoTerms ==
  ASSUME NEW f
  PROVE  Window(f, 0, 0) = 0
<1>1. 0 .. (0 + 0) - 1 = {}
  OBVIOUS
<1> QED
  BY <1>1, FS_EmptySet, SumTakes DEF Window

(* The head of a row.                                                      *)
LEMMA RowHolds ==
  ASSUME KernelInv, Row
  PROVE  KernelInv'
<1>1. /\ Shape /\ pc = "row" /\ out \in Seq(Int) /\ Len(out) \in Nat /\ Len(out) < rows
      /\ pb = Len(out) * Vectors /\ (kind # "dots" => pa = 0)
  <2>1. Shape /\ pc = "row" /\ out \in Seq(Int) /\ RowInv
    BY DEF KernelInv, Row, OutInv
  <2> QED
    BY <2>1 DEF RowInv
<1>2. /\ Vectors \in Nat \ {0} /\ Vectors * L = len /\ L \in Nat \ {0} /\ len \in Nat
      /\ rows \in Nat
  BY <1>1, Sizes
<1>3. UNCHANGED <<kind, len, rows, a, w, out, pb>> /\ acc' = 0
  BY DEF Row, input
<1>4. Vectors' = Vectors /\ Chunks' = Chunks /\ Results' = Results /\ Fuses' = Fuses
  BY <1>3 DEF Vectors, Chunks, Results, Fuses
<1>5. Shape'
  BY <1>1, <1>3 DEF Shape, Span
<1>6. ASSUME pa' \in 0 .. Vectors + 1
      PROVE  OutInv'
  <2>1. \A i \in 1 .. Len(out) : out[i] = Result(i)
    BY DEF KernelInv, OutInv
  <2>2. (\A i \in 1 .. Len(out) : out[i] = Result(i))'
    BY <1>3, <2>1 DEF Result, Term
  <2> QED
    BY <1>3, <1>4, <1>6, <2>2 DEF KernelInv, OutInv
<1>7. CASE Fuses
  <2>1. left' = Vectors /\ q0' = VecA(0) /\ pa' = 1 /\ pc' = "fused"
    BY <1>1, <1>7, FusedIsAll DEF Row
  <2>2. \A i \in 0 .. L - 1 : q0'[i] = a'[(pa' - 1) * L + i]
    <3>1. \A i \in 0 .. L - 1 : VecA(0)[i] = a[0 * L + i]
      BY <1>1, <1>2, VecAIs
    <3>2. pa' - 1 = 0
      BY <2>1
    <3> QED
      BY <1>3, <2>1, <3>1, <3>2
  <2>3. acc' = Window(Term(Len(out)), 0, (pa - 1) * L)'
    <3>1. (pa' - 1) * L = 0
      BY <1>2, <2>1
    <3> QED
      BY <1>3, <3>1, NoTerms
  <2>4. /\ Fuses' /\ Len(out') < rows'
        /\ pa' \in 1 .. Vectors' /\ left' = Vectors' - (pa' - 1)
        /\ pb' = Len(out') * Vectors' + (pa' - 1)
    <3>1. Len(out) * Vectors \in Nat
      BY <1>1, <1>2
    <3> QED
      BY <1>1, <1>2, <1>3, <1>4, <1>7, <2>1, <3>1
  <2>5. FusedInv'
    BY <2>2, <2>3, <2>4 DEF FusedInv
  <2>6. OutInv'
    BY <1>2, <1>6, <2>1
  <2> QED
    BY <1>5, <2>1, <2>5, <2>6 DEF KernelInv, RowInv, ChunkInv, DrainInv
<1>8. CASE ~ Fuses
  <2>1. kind # "dots" /\ rows = 1
    BY <1>1, <1>8 DEF Fuses, Shape
  <2>2. Len(out) = 0 /\ pb = 0 /\ pa = 0
    <3>1. Len(out) = 0
      BY <1>1, <2>1
    <3> QED
      BY <1>1, <1>2, <2>1, <3>1
  <2>3. left' = Chunks /\ pc' = "chunk" /\ pa' = pa
    BY <1>8 DEF Row, Chunks
  <2>4. Chunks \in Nat \ {0} /\ Chunks - Chunks = 0 /\ 0 * Pack = 0
    BY <1>1, <1>2, <2>1, ShapeFacts, KernelAssumption DEF Pack
  <2>5. ChunkInv'
    <3> DEFINE t == Window(Term(0), 0, (Chunks - left) * Pack)
    <3>1. t' = 0
      BY <1>4, <2>3, <2>4, NoTerms
    <3>2. /\ kind' # "dots" /\ left' \in 1 .. Chunks' /\ Chunks' - left' = 0
          /\ pa' = 2 * 0 /\ pb' = 0 /\ acc' = 0 /\ Len(out') = 0
      BY <1>3, <1>4, <2>1, <2>2, <2>3, <2>4
    <3> HIDE DEF t
    <3>3. ChunkVectors(Chunks - left)' = 0
      BY <3>2 DEF ChunkVectors
    <3> QED
      BY <3>1, <3>2, <3>3 DEF ChunkInv, t
  <2>6. OutInv'
    BY <1>2, <1>6, <2>2, <2>3
  <2> QED
    BY <1>5, <2>3, <2>5, <2>6 DEF KernelInv, RowInv, FusedInv, DrainInv
<1> QED
  BY <1>7, <1>8

(* A chunk.                                                                *)
LEMMA ChunkHolds ==
  ASSUME KernelInv, Chunk
  PROVE  KernelInv'
<1> DEFINE c == Chunks - left
<1>1. /\ Shape /\ pc = "chunk" /\ out \in Seq(Int) /\ kind # "dots" /\ rows = 1
      /\ left \in 1 .. Chunks /\ c \in 0 .. Chunks - 1 /\ c + 1 = Chunks - (left - 1)
      /\ pa = 2 * c /\ pb = ChunkVectors(c)
      /\ kind \in Grouped => Len(out) = c /\ acc = 0
      /\ kind \notin Grouped => Len(out) = 0 /\ acc = Window(Term(0), 0, c * Pack)
  <2>1. Shape /\ pc = "chunk" /\ out \in Seq(Int) /\ ChunkInv
    BY DEF KernelInv, Chunk, OutInv
  <2>2. kind # "dots" /\ left \in 1 .. Chunks
    BY <2>1 DEF ChunkInv
  <2>3. Chunks \in Nat /\ rows = 1
    BY <2>1, <2>2, ShapeFacts DEF Shape
  <2>4. c \in 0 .. Chunks - 1 /\ c + 1 = Chunks - (left - 1)
    BY <2>2, <2>3
  <2> QED
    BY <2>1, <2>2, <2>3, <2>4 DEF ChunkInv
<1> HIDE DEF c
<1>2. /\ Chunks \in Nat \ {0} /\ Chunks * Pack = len /\ Vectors = 2 * Chunks
      /\ Pack \in Nat \ {0} /\ len \in Nat /\ 0 \in 0 .. rows - 1
  <2>1. Pack \in Nat \ {0}
    BY KernelAssumption DEF Pack
  <2> QED
    BY <1>1, <2>1, ShapeFacts
<1>3. /\ UNCHANGED <<kind, len, rows, a, w, out>> /\ acc' = acc + ChunkSum
      /\ pa' = pa + 2 /\ pb' = pb + (IF kind \in Nibblewise THEN 1 ELSE 2)
      /\ left' = left - 1
      /\ pc' = IF kind \in Grouped \/ left = 1 THEN "drain" ELSE pc
  BY DEF Chunk, input, Nibblewise
<1>4. Vectors' = Vectors /\ Chunks' = Chunks /\ Results' = Results
  BY <1>3 DEF Vectors, Chunks, Results
<1>5. Shape'
  BY <1>1, <1>3 DEF Shape, Span
<1>6. ChunkSum = Window(Term(0), c * Pack, Pack) /\ ChunkSum \in Int
  BY <1>1, ChunkAdds DEF ChunkVectors
<1>7. pa' = 2 * (c + 1) /\ pb' = ChunkVectors(c + 1) /\ ChunkVectors(c + 1) \in Nat
  BY <1>1, <1>3 DEF ChunkVectors
<1>8. OutInv'
  <2>1. \A i \in 1 .. Len(out) : out[i] = Result(i)
    BY DEF KernelInv, OutInv
  <2>2. (\A i \in 1 .. Len(out) : out[i] = Result(i))'
    BY <1>3, <2>1 DEF Result, Term
  <2>3. pa' \in 0 .. Vectors + 1
    BY <1>1, <1>2, <1>7
  <2>4. pb' \in 0 .. (IF kind \in Nibblewise THEN Chunks ELSE rows * Vectors)
    BY <1>1, <1>2, <1>7 DEF ChunkVectors
  <2> QED
    BY <1>3, <1>4, <2>2, <2>3, <2>4 DEF KernelInv, OutInv
<1>9. CASE kind \in Grouped
  <2>1. acc' = Result(c + 1) /\ acc' \in Int
    <3>1. (c + 1) - 1 = c
      BY <1>1
    <3>2. acc' = Window(Term(0), c * Pack, Pack)
      BY <1>1, <1>3, <1>6, <1>9
    <3> QED
      BY <1>3, <1>6, <1>9, <3>1, <3>2 DEF Result
  <2>2. Result(c + 1) = Result(Len(out) + 1)'
    BY <1>1, <1>3, <1>9 DEF Result, Term
  <2>3. /\ pc' = "drain" /\ Len(out') = c /\ Len(out') < Results' /\ kind' # "dots"
        /\ left' = Chunks' - (Len(out') + 1)
    BY <1>1, <1>2, <1>3, <1>4, <1>9 DEF Results
  <2>4. ChunkVectors(c + 1) = ChunkVectors(Len(out) + 1)'
    BY <1>3, <2>3 DEF ChunkVectors
  <2>5. DrainInv'
    BY <1>7, <2>1, <2>2, <2>3, <2>4 DEF DrainInv
  <2> QED
    BY <1>5, <1>8, <2>3, <2>5 DEF KernelInv, RowInv, FusedInv, ChunkInv
<1>10. CASE kind \notin Grouped
  <2>1. c * Pack \in Nat /\ (c + 1) * Pack = c * Pack + Pack /\ c * Pack + Pack <= len
    <3>1. (c + 1) * Pack <= Chunks * Pack
      BY <1>1, <1>2, Monotonic
    <3> QED
      BY <1>1, <1>2, <3>1
  <2>2. Whole(Term(0), 0, c * Pack + Pack)
    BY <1>1, <1>2, <2>1, TermWhole
  <2>3. /\ Window(Term(0), 0, c * Pack) \in Int
        /\ Window(Term(0), 0, c * Pack + Pack)
             = Window(Term(0), 0, c * Pack) + Window(Term(0), 0 + c * Pack, Pack)
    BY <1>2, <2>1, <2>2, WindowSplits
  <2>4. 0 + c * Pack = c * Pack
    BY <2>1
  <2>5. acc' = Window(Term(0), 0, (c + 1) * Pack) /\ acc' \in Int
    BY <1>1, <1>3, <1>6, <1>10, <2>1, <2>3, <2>4
  <2>6. CASE left = 1
    <3>1. /\ pc' = "drain" /\ Len(out') = 0 /\ kind' \notin Grouped /\ kind' # "dots"
          /\ Results' = 1 /\ (c + 1) * Pack = len
      BY <1>1, <1>2, <1>3, <1>10, <2>6 DEF Results
    <3>2. acc' = Result(Len(out) + 1)'
      BY <1>3, <2>5, <3>1 DEF Result, Term
    <3>3. DrainInv'
      BY <2>5, <3>1, <3>2 DEF DrainInv
    <3> QED
      BY <1>5, <1>8, <3>1, <3>3 DEF KernelInv, RowInv, FusedInv, ChunkInv
  <2>7. CASE left # 1
    <3>1. /\ pc' = "chunk" /\ Len(out') = 0 /\ kind' \notin Grouped /\ kind' # "dots"
          /\ left' \in 1 .. Chunks' /\ Chunks' - left' = c + 1
      BY <1>1, <1>2, <1>3, <1>4, <1>10, <2>7
    <3>2. acc' = Window(Term(0), 0, (Chunks - left) * Pack)'
      BY <1>3, <2>5, <3>1 DEF Term, Pack
    <3>3. ChunkVectors(Chunks - left)' = ChunkVectors(c + 1)
      BY <1>3, <3>1 DEF ChunkVectors
    <3>4. ChunkInv'
      BY <1>7, <3>1, <3>2, <3>3 DEF ChunkInv
    <3> QED
      BY <1>5, <1>8, <3>1, <3>4 DEF KernelInv, RowInv, FusedInv, DrainInv
  <2> QED
    BY <2>6, <2>7
<1> QED
  BY <1>9, <1>10

(* The drain.                                                              *)
LEMMA DrainHolds ==
  ASSUME KernelInv, Drain
  PROVE  KernelInv'
<1> DEFINE n == Len(out)
<1>1. /\ Shape /\ pc = "drain" /\ out \in Seq(Int) /\ n \in Nat /\ n < Results
      /\ acc = Result(n + 1) /\ acc \in Int /\ rows \in Nat
      /\ kind # "dots" => rows = 1 /\ Chunks \in Nat
      /\ kind = "dots" => pb = (n + 1) * Vectors
      /\ kind \in Grouped => left = Chunks - (n + 1) /\ pa = 2 * (n + 1) /\ pb = ChunkVectors(n + 1)
  <2>1. Shape /\ pc = "drain" /\ out \in Seq(Int) /\ DrainInv
    BY DEF KernelInv, Drain, OutInv
  <2>2. kind # "dots" => rows = 1 /\ Chunks \in Nat
    BY <2>1, ShapeFacts DEF Shape
  <2>3. rows \in Nat /\ n \in Nat
    BY <2>1, Sizes
  <2> QED
    BY <2>1, <2>2, <2>3 DEF DrainInv
<1>2. UNCHANGED <<kind, len, rows, a, w, pa, pb, left>> /\ out' = Append(out, acc)
  BY DEF Drain, input
<1>3. /\ out' \in Seq(Int) /\ Len(out') = n + 1
      /\ \A i \in 1 .. n : out'[i] = out[i]
      /\ out'[n + 1] = acc
  BY <1>1, <1>2
<1>4. Vectors' = Vectors /\ Chunks' = Chunks /\ Results' = Results
  BY <1>2 DEF Vectors, Chunks, Results
<1>5. Shape'
  BY <1>1, <1>2 DEF Shape, Span
<1>6. OutInv'
  <2>1. \A i \in 1 .. n : out[i] = Result(i)
    BY DEF KernelInv, OutInv
  <2>2. Results \in Int
    BY <1>1 DEF Results, Grouped
  <2>3. \A i \in 1 .. n + 1 : out'[i] = Result(i)
    <3> SUFFICES ASSUME NEW i \in 1 .. n + 1 PROVE out'[i] = Result(i)
      OBVIOUS
    <3>1. CASE i = n + 1
      BY <1>1, <1>3, <3>1
    <3>2. CASE i \in 1 .. n
      BY <1>3, <2>1, <3>2
    <3> QED
      BY <1>1, <3>1, <3>2
  <2>4. (\A i \in 1 .. Len(out) : out[i] = Result(i))'
    BY <1>2, <1>3, <2>3 DEF Result, Term
  <2> QED
    BY <1>1, <1>2, <1>3, <1>4, <2>2, <2>4 DEF KernelInv, OutInv
<1>7. CASE kind \in Grouped /\ left > 0
  <2>1. pc' = "chunk" /\ acc' = 0 /\ kind # "dots" /\ Results = Chunks
    BY <1>7 DEF Drain, Grouped, Results
  <2>2. /\ left' \in 1 .. Chunks' /\ Chunks' - left' = n + 1 /\ kind' \in Grouped
        /\ kind' # "dots"
    BY <1>1, <1>2, <1>4, <1>7, <2>1
  <2>3. ChunkVectors(Chunks - left)' = ChunkVectors(n + 1)
    BY <1>2, <2>2 DEF ChunkVectors
  <2>4. ChunkInv'
    BY <1>1, <1>2, <1>3, <1>7, <2>1, <2>2, <2>3 DEF ChunkInv
  <2> QED
    BY <1>5, <1>6, <2>1, <2>4 DEF KernelInv, RowInv, FusedInv, DrainInv
<1>8. CASE ~ (kind \in Grouped /\ left > 0)
  <2>1. pc' = IF kind = "dots" /\ n + 1 < rows THEN "row" ELSE "done"
    BY <1>8 DEF Drain
  <2>2. RowInv'
    BY <1>1, <1>2, <1>3, <1>4, <2>1 DEF RowInv
  <2>3. pc' = "done" => Len(out') = Results'
    <3>1. CASE kind \in Grouped
      <4>1. Results = Chunks /\ kind # "dots"
        BY <3>1 DEF Results, Grouped
      <4> QED
        BY <1>1, <1>3, <1>4, <1>8, <3>1, <4>1
    <3>2. CASE kind \notin Grouped
      <4>1. Results = rows
        BY <3>2 DEF Results
      <4> QED
        BY <1>1, <1>3, <1>4, <2>1, <4>1
    <3> QED
      BY <3>1, <3>2
  <2> QED
    BY <1>5, <1>6, <2>1, <2>2, <2>3 DEF KernelInv, FusedInv, ChunkInv, DrainInv
<1> QED
  BY <1>7, <1>8

(* Every step keeps the invariant.                                         *)
LEMMA KernelNext == KernelInv /\ [Next]_vars => KernelInv'
<1> SUFFICES ASSUME KernelInv, [Next]_vars PROVE KernelInv'
  OBVIOUS
<1>1. CASE Row
  BY <1>1, RowHolds
<1>2. CASE Fused
  BY <1>2, FusedHolds
<1>3. CASE Chunk
  BY <1>3, ChunkHolds
<1>4. CASE Drain
  BY <1>4, DrainHolds
<1>5. CASE UNCHANGED vars
  <2>1. UNCHANGED <<kind, len, rows, a, w, pc, pa, pb, left, q0, acc, out>>
    BY <1>5 DEF vars, input
  <2>2. Vectors' = Vectors /\ Chunks' = Chunks /\ Results' = Results /\ Fuses' = Fuses
    BY <2>1 DEF Vectors, Chunks, Results, Fuses
  <2>3. Shape'
    BY <2>1 DEF KernelInv, Shape, Span
  <2>4. OutInv'
    BY <2>1, <2>2 DEF KernelInv, OutInv, Result, Term
  <2>5. RowInv' /\ FusedInv'
    BY <2>1, <2>2 DEF KernelInv, RowInv, FusedInv, Term
  <2>6. ChunkInv'
    BY <2>1, <2>2 DEF KernelInv, ChunkInv, Term, Pack, ChunkVectors
  <2>7. DrainInv'
    BY <2>1, <2>2 DEF KernelInv, DrainInv, Result, Term, ChunkVectors
  <2> QED
    BY <2>1, <2>2, <2>3, <2>4, <2>5, <2>6, <2>7 DEF KernelInv
<1> QED
  BY <1>1, <1>2, <1>3, <1>4, <1>5 DEF Next, Done

(* A call with any operands of the right shape.                            *)
AnyCall ==
  /\ Shape
  /\ pc = "row" /\ pa = 0 /\ pb = 0 /\ left = 0 /\ acc = 0 /\ out = <<>>

AnyCallSpec == AnyCall /\ [][Next]_vars

(* It starts with nothing drained.                                         *)
LEMMA CallStarts == AnyCall => KernelInv
<1> SUFFICES ASSUME AnyCall PROVE KernelInv
  OBVIOUS
<1>1. /\ Shape /\ pc = "row" /\ pa = 0 /\ pb = 0 /\ out = <<>>
      /\ out \in Seq(Int) /\ Len(out) = 0 /\ \A i \in 1 .. Len(out) : out[i] = Result(i)
  BY DEF AnyCall
<1>2. /\ Vectors \in Nat /\ rows \in Nat \ {0}
      /\ kind # "dots" => Chunks \in Nat
  BY <1>1, Sizes, ShapeFacts DEF Shape
<1>3. Results \in Nat /\ rows * Vectors \in Nat /\ 0 * Vectors = 0
      /\ (kind \in Nibblewise => Chunks \in Nat)
  BY <1>2 DEF Results, Grouped, Nibblewise
<1>4. OutInv /\ RowInv
  BY <1>1, <1>2, <1>3 DEF OutInv, RowInv
<1> QED
  BY <1>1, <1>4 DEF KernelInv, FusedInv, ChunkInv, DrainInv

(* Rounded up to a unit: a whole number of units, at least one.            *)
LEMMA RoundsUp ==
  ASSUME NEW x \in Nat \ {0}, NEW d \in Nat \ {0}
  PROVE  \E b \in Nat \ {0} : RoundUp(x, d) = b * d
<1> DEFINE y == (x + d) - 1
           b == y \div d
<1>1. y \in Nat /\ y >= d
  OBVIOUS
<1>2. b \in Int /\ y < d * (b + 1)
  <2> HIDE DEF y
  <2> QED
    BY <1>1
<1> HIDE DEF b
<1>3. b \in Nat \ {0}
  <2>1. ASSUME b + 1 <= 1 PROVE FALSE
    <3>1. (b + 1) * d <= 1 * d
      BY <1>2, <2>1, Monotonic
    <3> QED
      BY <1>1, <1>2, <3>1
  <2> QED
    BY <1>2, <2>1
<1>4. RoundUp(x, d) = b * d
  BY DEF RoundUp, b
<1> QED
  BY <1>3, <1>4

(* The runs' inputs are such calls.                                        *)
LEMMA InputsAreCalls == Init => AnyCall
<1> SUFFICES ASSUME Init PROVE AnyCall
  OBVIOUS
<1>1. /\ kind \in Kind /\ rows \in 1 .. (IF kind = "dots" THEN MaxRows ELSE 1)
      /\ pc = "row" /\ pa = 0 /\ pb = 0 /\ left = 0 /\ acc = 0 /\ out = <<>>
  BY DEF Init
<1>2. MaxRows \in Nat \ {0} /\ L \in Nat \ {0} /\ DU \in Nat \ {0} /\ MaxCh \in Nat \ {0}
      /\ Pack \in Nat \ {0} /\ DU * L \in Nat \ {0} /\ Fill \subseteq Nibbles
  BY KernelAssumption DEF Pack
<1>3. PICK n \in 1 .. MaxCh, live \in 1 .. MaxCh * Pack, e, f \in 0 .. MaxCh * Pack * MaxRows,
           x \in {-1, 1}, past \in {0, 1}, t \in Nibbles, u \in Fill :
        /\ kind # "dots" => live = n * Pack
        /\ kind = "dots" => n = 1
        /\ e < live /\ f < live * rows
        /\ len = RoundUp(live, IF kind = "dots" THEN DU * L ELSE Pack)
        /\ a = [i \in 0 .. len + L - 1 |->
                  IF i >= len THEN past ELSE IF i = e THEN x ELSE 0]
        /\ w = [i \in 0 .. len * rows - 1 |->
                  IF i % len >= live THEN 0
                  ELSE IF (i % len) + (i \div len) * live = f THEN t ELSE u]
  BY DEF Init
<1>4. \E b \in Nat \ {0} : len = b * Span
  <2>1. live \in Nat \ {0}
    BY <1>2
  <2> QED
    BY <1>2, <1>3, <2>1, RoundsUp DEF Span
<1>5. a \in [0 .. (len + L) - 1 -> Int]
  <2>1. len \in Nat
    BY <1>2, <1>4 DEF Span
  <2>2. 0 .. len + L - 1 = 0 .. (len + L) - 1
    BY <1>2, <2>1
  <2>3. a \in [0 .. len + L - 1 -> Int]
    BY <1>3
  <2> QED
    BY <2>2, <2>3
<1>6. 0 \in Nibbles /\ \A v \in Nibbles : v \in Int
  BY KernelAssumption, NibbleType DEF Nibbles
<1>7. w \in [0 .. len * rows - 1 -> Nibbles]
  BY <1>2, <1>3, <1>6
<1>8. w \in [0 .. len * rows - 1 -> IF kind \in Packed THEN Nibbles ELSE Int]
  BY <1>6, <1>7
<1>9. rows \in Nat \ {0} /\ (kind # "dots" => rows = 1)
  BY <1>1, <1>2
<1> QED
  BY <1>1, <1>4, <1>5, <1>8, <1>9 DEF AnyCall, Shape

(* A sum number i is the definition's.                                     *)
LEMMA ResultIs ==
  ASSUME Shape
  PROVE  Expected = [i \in 1 .. Results |-> Result(i)]
<1>1. /\ len \in Nat /\ rows \in Nat /\ Pack \in Nat \ {0}
  BY Sizes, KernelAssumption DEF Pack
<1>2. CASE kind \in Grouped
  <2>1. Chunks \in Nat \ {0} /\ Chunks * Pack = len /\ 0 \in 0 .. rows - 1 /\ Results = Chunks
    BY <1>2, ShapeFacts DEF Grouped, Results, Shape
  <2>2. ASSUME NEW i \in 1 .. Chunks
        PROVE  Dot(0, Pack * (i - 1) .. Pack * i - 1) = Window(Term(0), (i - 1) * Pack, Pack)
    <3> DEFINE m == (i - 1) * Pack
    <3>1. i * Pack <= Chunks * Pack
      BY <1>1, <2>1, Monotonic
    <3>2. m \in Nat /\ m + Pack <= len /\ Pack * (i - 1) = m /\ Pack * i - 1 = (m + Pack) - 1
      BY <1>1, <2>1, <3>1
    <3> HIDE DEF m
    <3>3. Dot(0, m .. (m + Pack) - 1) = Window(Term(0), m, Pack)
      BY <1>1, <2>1, <3>2, DotIs
    <3> QED
      BY <3>2, <3>3 DEF m
  <2> QED
    BY <1>2, <2>1, <2>2 DEF Expected, Result, Chunks
<1>3. CASE kind \notin Grouped
  <2>1. Results = rows
    BY <1>3 DEF Results
  <2>2. ASSUME NEW i \in 1 .. rows
        PROVE  Dot(i - 1, 0 .. len - 1) = Window(Term(i - 1), 0, len)
    <3>1. i - 1 \in 0 .. rows - 1 /\ 0 .. len - 1 = 0 .. (0 + len) - 1 /\ 0 + len <= len
      BY <1>1
    <3> QED
      BY <1>1, <3>1, DotIs
  <2> QED
    BY <1>3, <2>1, <2>2 DEF Expected, Result
<1> QED
  BY <1>2, <1>3

(* What the invariant says when a kernel is done, and of its loads.        *)
LEMMA InvExact == KernelInv => Exact /\ LoadsInBounds
<1> SUFFICES ASSUME KernelInv PROVE Exact /\ LoadsInBounds
  OBVIOUS
<1>1. /\ Shape /\ out \in Seq(Int) /\ \A i \in 1 .. Len(out) : out[i] = Result(i)
      /\ pc = "done" => Len(out) = Results
      /\ pa \in 0 .. Vectors + 1
      /\ pb \in 0 .. (IF kind \in Nibblewise THEN Chunks ELSE rows * Vectors)
  BY DEF KernelInv, OutInv
<1>2. Exact
  <2> SUFFICES ASSUME pc = "done" PROVE out = Expected
    BY DEF Exact
  <2>1. out = [i \in 1 .. Len(out) |-> out[i]]
    BY <1>1
  <2>2. out = [i \in 1 .. Results |-> Result(i)]
    BY <1>1, <2>1
  <2> QED
    BY <1>1, <2>2, ResultIs
<1>3. /\ Vectors \in Nat \ {0} /\ Vectors * L = len /\ L \in Nat \ {0} /\ len \in Nat
      /\ rows \in Nat
  BY <1>1, Sizes
<1>4. pa * L <= len + L
  <2>1. pa * L <= (Vectors + 1) * L
    BY <1>1, <1>3, Monotonic
  <2> QED
    BY <1>3, <2>1
<1>5. CASE kind \in Nibblewise
  <2>1. Chunks \in Nat /\ len = Chunks * Pack /\ Pack = 2 * L
    BY <1>1, <1>5, ShapeFacts DEF Nibblewise, Pack
  <2>2. pb * L <= Chunks * L /\ len \div 2 = Chunks * L
    <3>1. len = 2 * (Chunks * L) /\ Chunks * L \in Nat
      BY <1>3, <2>1
    <3>2. len \div 2 = Chunks * L
      <4> DEFINE k == Chunks * L
      <4> HIDE DEF k
      <4> QED
        BY <3>1 DEF k
    <3> QED
      BY <1>1, <1>3, <1>5, <2>1, <3>2, Monotonic
  <2> QED
    BY <1>2, <1>4, <1>5, <2>2 DEF LoadsInBounds, Nibblewise
<1>6. CASE kind \notin Nibblewise
  <2>1. rows * Vectors \in Nat /\ pb \in 0 .. rows * Vectors
    BY <1>1, <1>3, <1>6
  <2>2. pb * L <= (rows * Vectors) * L
    BY <1>3, <2>1, Monotonic
  <2>3. (rows * Vectors) * L = len * rows
    BY <1>3
  <2> QED
    BY <1>2, <1>4, <1>6, <2>2, <2>3 DEF LoadsInBounds, Nibblewise
<1> QED
  BY <1>2, <1>5, <1>6

(* The kernels compute the dot products of their definition, and load no   *)
(* further than a vector past the activation, whatever the operands and    *)
(* whatever lies behind them (pie_rows.S, pie_attn.S, engine.c:249-289).   *)
THEOREM KernelsExact == AnyCallSpec => [](Exact /\ LoadsInBounds)
BY CallStarts, KernelNext, InvExact, PTL DEF AnyCallSpec

(* In particular on the runs' inputs.                                      *)
THEOREM RowsExact == Spec => []Exact
BY InputsAreCalls, CallStarts, KernelNext, InvExact, PTL DEF Spec

(* And so for the loads: the slack the callers leave is enough.            *)
THEOREM SlackSuffices == Spec => []LoadsInBounds
BY InputsAreCalls, CallStarts, KernelNext, InvExact, PTL DEF Spec

-----------------------------------------------------------------------------
(* The sums of an attention row (AttnBounds).                              *)
(*                                                                         *)
(* A quantized operand is at most AQ; a quantized probability p of e / sum *)
(* lies within half a step of e * PQ / sum.  Multiplied by sum and added   *)
(* up over the lanes consumed this is inductive (MassInv), and so is       *)
(* |xacc| <= AQ * mass in the value pass (SumInv).                         *)

(* Rounding a fraction misses it by at most half.                          *)
LEMMA RndBounds ==
  ASSUME NEW x \in Nat, NEW d \in Nat \ {0}
  PROVE  /\ Rnd(x, d) \in Nat
         /\ 2 * (d * Rnd(x, d)) <= 2 * x + d
         /\ 2 * x - d <= 2 * (d * Rnd(x, d))
<1> DEFINE n == 2 * x + d
           m == 2 * d
           r == n \div m
<1>1. n \in Nat /\ m \in Nat /\ m > 0
  OBVIOUS
<1>2. r \in Int /\ m * r <= n /\ n < m * (r + 1)
  <2> HIDE DEF n, m
  <2> QED
    BY <1>1, Z3 DEF r
<1>3. r >= 0
  <2>1. SUFFICES ASSUME r <= -1 PROVE FALSE
    BY <1>2
  <2>2. m * (r + 1) <= 0
    <3> HIDE DEF n, m, r
    <3> QED
      BY <1>1, <1>2, <2>1
  <2> QED
    BY <1>1, <1>2, <2>2
<1>4. m * r = 2 * (d * r) /\ m * (r + 1) = 2 * (d * r) + 2 * d
  <2> HIDE DEF r
  <2> QED
    BY <1>2
<1>5. Rnd(x, d) = r
  BY DEF Rnd
<1> QED
  BY <1>2, <1>3, <1>4, <1>5

(* A quantized operand keeps to its range.                                 *)
LEMMA QuantRange ==
  ASSUME NEW amax \in Nat, NEW x \in -amax .. amax
  PROVE  Quant(x, amax) \in -AQ .. AQ
<1> USE BoundsAssumption
<1>1. CASE amax = 0
  BY <1>1 DEF Quant
<1>2. ASSUME NEW y \in 0 .. amax, amax # 0
      PROVE  Rnd(y * AQ, amax) \in 0 .. AQ
  <2>1. y * AQ \in Nat /\ y * AQ <= amax * AQ
    OBVIOUS
  <2>2. /\ Rnd(y * AQ, amax) \in Nat
        /\ 2 * (amax * Rnd(y * AQ, amax)) <= 2 * (y * AQ) + amax
    BY <1>2, <2>1, RndBounds
  <2> DEFINE r == Rnd(y * AQ, amax)
  <2>3. SUFFICES ASSUME r >= AQ + 1 PROVE FALSE
    BY <2>2
  <2>4. amax * r >= amax * (AQ + 1)
    <3> HIDE DEF r
    <3>1. r \in Nat /\ r >= AQ + 1 /\ AQ \in Nat
      BY <2>2, <2>3 DEF r
    <3> QED
      BY <3>1
  <2>5. amax * (AQ + 1) = amax * AQ + amax
    OBVIOUS
  <2>6. amax * r \in Int /\ amax * AQ \in Int
    BY <2>2
  <2> QED
    BY <1>2, <2>1, <2>2, <2>4, <2>5, <2>6
<1>3. CASE amax # 0 /\ x >= 0
  BY <1>2, <1>3 DEF Quant
<1>4. CASE amax # 0 /\ x < 0
  <2>1. -x \in 0 .. amax
    BY <1>4
  <2>2. Rnd((-x) * AQ, amax) \in 0 .. AQ
    BY <1>2, <1>4, <2>1
  <2> QED
    BY <1>4, <2>2 DEF Quant
<1> QED
  BY <1>1, <1>3, <1>4

(* Two operands of bounded size have a product of bounded size.            *)
LEMMA ProductBound ==
  ASSUME NEW c \in Nat, NEW d \in Nat, NEW x \in -c .. c, NEW y \in -d .. d
  PROVE  x * y \in -(c * d) .. c * d
<1>1. (c - x) * (d + y) >= 0 /\ (c + x) * (d - y) >= 0
  OBVIOUS
<1>2. (c - x) * (d - y) >= 0 /\ (c + x) * (d + y) >= 0
  OBVIOUS
<1> QED
  BY <1>1, <1>2

-----------------------------------------------------------------------------

(* What the probabilities consumed so far amount to, times sum.            *)
MassInv ==
  phase = "values" =>
    /\ 2 * (sum * mass) <= 2 * (PQ * pre) + sum * lane
    /\ 2 * (PQ * pre) - sum * lane <= 2 * (sum * mass)
    /\ lane = S => pre = sum

(* What bounds the accumulator in either pass.                             *)
SumInv ==
  /\ phase = "scores" => xacc \in -(lane * (AQ * AQ)) .. lane * (AQ * AQ)
  /\ phase = "values" => xacc \in -(AQ * mass) .. AQ * mass

AttnInv == TypeOK /\ MassInv /\ SumInv

(* The first lane has nothing before it.                                   *)
LEMMA AttnStart == AttnInit => AttnInv
BY BoundsAssumption DEF AttnInit, AttnInv, TypeOK, MassInv, SumInv

(* One more product of the score pass.                                     *)
LEMMA ScoreLaneInv ==
  ASSUME AttnInv, NEW x \in -qmax .. qmax, NEW y \in -kmax .. kmax, ScoreLane(x, y)
  PROVE  AttnInv'
<1> USE BoundsAssumption
<1>1. qmax \in Nat /\ kmax \in Nat /\ xacc \in Int /\ lane \in Nat /\ phase = "scores"
  BY DEF AttnInv, TypeOK, ScoreLane
<1>2. Quant(x, qmax) \in -AQ .. AQ /\ Quant(y, kmax) \in -AQ .. AQ
  BY <1>1, QuantRange
<1> DEFINE p == Quant(x, qmax) * Quant(y, kmax)
<1>3. p \in -(AQ * AQ) .. AQ * AQ
  BY <1>2, ProductBound
<1>4. xacc' = xacc + p /\ lane' = lane + 1 /\ lane < HeadDim /\ phase' = phase
      /\ UNCHANGED <<row, sum, pre, mass>>
  BY DEF ScoreLane
<1> HIDE DEF p
<1>5. TypeOK'
  BY <1>1, <1>3, <1>4 DEF AttnInv, TypeOK, row
<1>6. MassInv'
  BY <1>1, <1>4 DEF MassInv
<1>7. SumInv'
  <2> DEFINE A == AQ * AQ
  <2>1. A \in Nat
    OBVIOUS
  <2> HIDE DEF A
  <2>2. p \in -A .. A /\ xacc \in -(lane * A) .. lane * A
    BY <1>1, <1>3 DEF A, AttnInv, SumInv
  <2>3. (lane + 1) * A = lane * A + A /\ lane * A \in Nat
    BY <1>1, <2>1
  <2>4. xacc + p \in -((lane + 1) * A) .. (lane + 1) * A
    BY <1>1, <2>1, <2>2, <2>3
  <2> QED
    BY <1>1, <1>4, <2>4 DEF SumInv, A
<1> QED
  BY <1>5, <1>6, <1>7 DEF AttnInv

(* One more probability of the value pass.                                 *)
LEMMA ValueLaneInv ==
  ASSUME AttnInv, NEW e \in 0 .. sum, NEW v \in -vmax .. vmax, ValueLane(e, v)
  PROVE  AttnInv'
<1> USE BoundsAssumption
<1>1. /\ vmax \in Nat /\ xacc \in Int /\ lane \in Nat /\ phase = "values"
      /\ sum \in Nat \ {0} /\ pre \in Nat /\ mass \in Nat /\ S \in Nat
  BY DEF AttnInv, TypeOK, ValueLane
<1> DEFINE r == Rnd(e * PQ, sum)
           q == Quant(v, vmax)
<1>2. q \in -AQ .. AQ
  BY <1>1, QuantRange
<1>3. e * PQ \in Nat
  OBVIOUS
<1>4. /\ r \in Nat
      /\ 2 * (sum * r) <= 2 * (e * PQ) + sum
      /\ 2 * (e * PQ) - sum <= 2 * (sum * r)
  BY <1>1, <1>3, RndBounds
<1>5. /\ xacc' = xacc + r * q /\ lane' = lane + 1 /\ pre' = pre + e /\ mass' = mass + r
      /\ lane < S /\ pre + e <= sum /\ (lane + 1 = S => pre + e = sum)
      /\ phase' = phase /\ sum' = sum /\ UNCHANGED row
  BY DEF ValueLane
<1> HIDE DEF r, q
<1>6. r * q \in -(AQ * r) .. AQ * r
  <2>1. (AQ - q) * r >= 0 /\ (AQ + q) * r >= 0
    BY <1>2, <1>4
  <2> QED
    BY <1>2, <1>4, <2>1
<1>7. TypeOK'
  BY <1>1, <1>4, <1>5, <1>6 DEF AttnInv, TypeOK, row
<1>8. MassInv'
  <2>1. /\ sum * (mass + r) = sum * mass + sum * r
        /\ PQ * (pre + e) = PQ * pre + e * PQ
        /\ sum * (lane + 1) = sum * lane + sum
    BY <1>1, <1>4
  <2>2. /\ 2 * (sum * mass) <= 2 * (PQ * pre) + sum * lane
        /\ 2 * (PQ * pre) - sum * lane <= 2 * (sum * mass)
    BY <1>1 DEF AttnInv, MassInv
  <2>3. sum * mass \in Int /\ sum * r \in Int /\ PQ * pre \in Int /\ sum * lane \in Int
    BY <1>1, <1>4
  <2>4. /\ 2 * (sum * (mass + r)) <= 2 * (PQ * (pre + e)) + sum * (lane + 1)
        /\ 2 * (PQ * (pre + e)) - sum * (lane + 1) <= 2 * (sum * (mass + r))
    BY <1>1, <1>3, <1>4, <2>1, <2>2, <2>3
  <2>5. lane' = S' => pre' = sum'
    BY <1>5 DEF row
  <2> QED
    BY <1>5, <2>4, <2>5 DEF MassInv
<1>9. SumInv'
  <2>1. xacc \in -(AQ * mass) .. AQ * mass
    BY <1>1 DEF AttnInv, SumInv
  <2>2. AQ * (mass + r) = AQ * mass + AQ * r /\ AQ * mass \in Int /\ AQ * r \in Int
    BY <1>1, <1>4
  <2>3. r * q \in Int
    BY <1>2, <1>4
  <2>4. xacc + r * q \in -(AQ * (mass + r)) .. AQ * (mass + r)
    BY <1>1, <1>6, <2>1, <2>2, <2>3
  <2> QED
    BY <1>1, <1>5, <2>4 DEF SumInv
<1> QED
  BY <1>7, <1>8, <1>9 DEF AttnInv

(* Every step keeps the invariant.                                         *)
LEMMA AttnStep == AttnInv /\ [AttnNext]_attnVars => AttnInv'
<1> SUFFICES ASSUME AttnInv, [AttnNext]_attnVars PROVE AttnInv'
  OBVIOUS
<1>1. ASSUME NEW x \in -qmax .. qmax, NEW y \in -kmax .. kmax, ScoreLane(x, y) PROVE AttnInv'
  BY <1>1, ScoreLaneInv
<1>2. ASSUME NEW total \in 1 .. MaxSum, Softmax(total) PROVE AttnInv'
  BY <1>2, BoundsAssumption DEF Softmax, AttnInv, TypeOK, MassInv, SumInv, row
<1>3. ASSUME NEW e \in 0 .. sum, NEW v \in -vmax .. vmax, ValueLane(e, v) PROVE AttnInv'
  BY <1>3, ValueLaneInv
<1>4. CASE UNCHANGED attnVars
  BY <1>4 DEF attnVars, row, AttnInv, TypeOK, MassInv, SumInv
<1> QED
  BY <1>1, <1>2, <1>3, <1>4 DEF AttnNext, Drained

(* A positive factor cancels.                                              *)
LEMMA Cancel ==
  ASSUME NEW m \in Nat \ {0}, NEW x \in Int, NEW y \in Int, m * x <= m * y
  PROVE  x <= y
<1> SUFFICES ASSUME x >= y + 1 PROVE FALSE
  OBVIOUS
<1>1. m * x >= m * (y + 1)
  OBVIOUS
<1>2. m * (y + 1) = m * y + m
  OBVIOUS
<1> QED
  BY <1>1, <1>2

(* Quantized probabilities add up to PQ, give or take half a step a key.   *)
LEMMA MassBounds ==
  ASSUME AttnInv, phase = "values"
  PROVE  /\ 2 * mass <= 2 * PQ + S
         /\ lane = S => 2 * PQ - S <= 2 * mass
<1> USE BoundsAssumption
<1>1. sum \in Nat \ {0} /\ pre \in 0 .. sum /\ mass \in Nat /\ S \in Nat /\ lane \in 0 .. S
  BY DEF AttnInv, TypeOK
<1>2. /\ 2 * (sum * mass) <= 2 * (PQ * pre) + sum * lane
      /\ 2 * (PQ * pre) - sum * lane <= 2 * (sum * mass)
      /\ lane = S => pre = sum
  BY DEF AttnInv, MassInv
<1>3. PQ * pre <= PQ * sum /\ sum * lane <= sum * S
  BY <1>1
<1>4. sum * (2 * mass) = 2 * (sum * mass)
      /\ sum * (2 * PQ + S) = 2 * (PQ * sum) + sum * S
      /\ sum * (2 * PQ - S) = 2 * (PQ * sum) - sum * S
  BY <1>1
<1>5. PQ * pre \in Int /\ PQ * sum \in Int /\ sum * lane \in Int /\ sum * S \in Int /\ sum * mass \in Int
  BY <1>1
<1>6. sum * (2 * mass) <= sum * (2 * PQ + S)
  BY <1>2, <1>3, <1>4, <1>5
<1>7. 2 * mass <= 2 * PQ + S
  BY <1>1, <1>6, Cancel
<1>8. ASSUME lane = S PROVE 2 * PQ - S <= 2 * mass
  <2>1. sum * (2 * PQ - S) <= sum * (2 * mass)
    BY <1>1, <1>2, <1>4, <1>5, <1>8
  <2> QED
    BY <1>1, <2>1, Cancel
<1> QED
  BY <1>7, <1>8

(* The accumulator of either pass is below the limit.                      *)
LEMMA InvFits == AttnInv => FitsInt32
<1> SUFFICES ASSUME AttnInv PROVE Abs(xacc) < Limit
  BY DEF FitsInt32
<1> USE BoundsAssumption
<1>1. xacc \in Int /\ lane \in Nat /\ mass \in Nat /\ S \in 1 .. MaxS
  BY DEF AttnInv, TypeOK
<1>2. CASE phase = "scores"
  <2>1. lane <= HeadDim /\ xacc \in -(lane * (AQ * AQ)) .. lane * (AQ * AQ)
    BY <1>2 DEF AttnInv, TypeOK, SumInv
  <2>2. AQ * AQ \in Nat
    OBVIOUS
  <2>3. lane * (AQ * AQ) <= HeadDim * (AQ * AQ)
    BY <1>1, <2>1, <2>2
  <2>4. lane * (AQ * AQ) \in Int /\ HeadDim * (AQ * AQ) \in Int
    BY <1>1, <2>2
  <2> QED
    BY <1>1, <2>1, <2>3, <2>4 DEF Abs
<1>3. CASE phase = "values"
  <2>1. xacc \in -(AQ * mass) .. AQ * mass
    BY <1>3 DEF AttnInv, SumInv
  <2>2. 2 * mass <= 2 * PQ + MaxS
    BY <1>1, <1>3, MassBounds
  <2>3. AQ * (2 * mass) <= AQ * (2 * PQ + MaxS)
    BY <1>1, <2>2
  <2>4. AQ * (2 * mass) = 2 * (AQ * mass) /\ AQ * mass \in Int /\ AQ * (2 * PQ + MaxS) \in Int
    BY <1>1
  <2> QED
    BY <1>1, <2>1, <2>3, <2>4 DEF Abs
<1> QED
  BY <1>2, <1>3 DEF AttnInv, TypeOK

(* The invariant holds of every behaviour.                                 *)
LEMMA AttnAlways == AttnSpec => []AttnInv
BY AttnStart, AttnStep, PTL DEF AttnSpec

(* Types hold, for all constants.                                          *)
THEOREM AttnTypeCorrect == AttnSpec => []TypeOK
<1>1. AttnInv => TypeOK
  BY DEF AttnInv
<1> QED
  BY <1>1, AttnAlways, PTL

(* No partial sum of the score or the value pass leaves 32 bits, for all   *)
(* head dimensions, ranges and prompt lengths with HeadDim * AQ^2 < 2^31   *)
(* and AQ * (2 PQ + MaxS) < 2^32 (pie_attn.S: a drain with a zero shift).  *)
THEOREM NoOverflow == AttnSpec => []FitsInt32
BY AttnAlways, InvFits, PTL

(* The probabilities of a row miss their unit sum by at most S / 2: what   *)
(* the flat bound of the comments should add for S keys.                   *)
THEOREM UnitSumHolds == AttnSpec => []UnitSum
<1>1. AttnInv => UnitSum
  <2> SUFFICES ASSUME AttnInv, phase = "values", lane = S PROVE 2 * Abs(mass - PQ) <= S
    BY DEF UnitSum
  <2>1. 2 * mass <= 2 * PQ + S /\ 2 * PQ - S <= 2 * mass
    BY MassBounds
  <2>2. mass \in Nat /\ S \in Nat /\ PQ \in Nat
    BY BoundsAssumption DEF AttnInv, TypeOK
  <2> QED
    BY <2>1, <2>2 DEF Abs
<1> QED
  BY <1>1, AttnAlways, PTL

-----------------------------------------------------------------------------
(* Who may interrupt a kernel (PieGuard).  The guard is a depth that the   *)
(* engine and the boot tests raise and lower in different functions, so    *)
(* that a row is safe only because of what it nests in.  Guarded says how  *)
(* deep core 0 is at every stage; with it a row outside the kernel tests   *)
(* lies within a suspension of its core (RowsGuarded), and a suspended     *)
(* core loses nothing.                                                     *)

(* How deep each core is suspended, and which calls a stage may have.      *)
Guarded ==
  /\ stage = "tests" =>
       /\ job = None /\ depth[0] = 0 /\ kern[1] = None
       /\ kern[0] # None => step[1] < Len(Tests)
  /\ stage = "probe" =>
       /\ job # "scalar"
       /\ depth[0] \in {0, 1, 2}
       /\ job # None <=> depth[0] = 2
  /\ stage = "arm" => job = None /\ depth[0] = 0
  /\ stage = "run" => depth[0] = (IF job \in {None, "scalar"} THEN 0 ELSE 1)
  /\ depth[1] = (IF worker = "ready" THEN 1 ELSE 0)
  /\ stage \in {"tests", "probe"} => worker = "none"
  /\ todo[1] => worker = "ready"
  /\ \A c \in Core : todo[c] => job # None

(* A row outside the tests belongs to the call in progress, within a       *)
(* suspension of its core, and has lost nothing.                           *)
RowsGuarded ==
  stage # "tests" => \A c \in Core : kern[c] # None =>
    /\ todo[c] /\ kern[c] = job /\ job # "scalar"
    /\ depth[c] > 0 /\ lost[c] = {}

GuardInv == GuardTypeOK /\ Guarded /\ RowsGuarded /\ RowsIntact

(* The names of the kernels.                                               *)
LEMMA KernelNames ==
  /\ Kernel = {"row_i8", "rowsum_i8", "row_i4", "rowsum_i4", "dots"}
  /\ None \notin Kernel /\ None # "scalar" /\ "scalar" \notin Kernel
BY GuardAssumption DEF Kernel, Live

(* The boot starts without calls, rows or suspensions.                     *)
LEMMA GuardInitInv == GuardInit => GuardInv
<1> SUFFICES ASSUME GuardInit PROVE GuardInv
  OBVIOUS
<1>1. GuardTypeOK
  BY KernelNames DEF GuardInit, GuardTypeOK, Core, Work, Unsaved
<1> QED
  BY <1>1, KernelNames DEF GuardInit, GuardInv, Guarded, RowsGuarded, RowsIntact, Core

(* Wake, Block: a suspended core keeps its task.                           *)
LEMMA SwitchInv ==
  ASSUME GuardInv, NEW c \in Core, Wake(c) \/ Block(c)
  PROVE  GuardInv'
<1> USE DEF callVars, rowVars, coreVars
<1>1. GuardTypeOK'
  <2>1. CASE Wake(c)
    <3>1. lost' \in [Core -> SUBSET Unsaved]
      <4>1. CASE depth[c] = 0
        <5>1. PICK r \in SUBSET Unsaved : lost' = [lost EXCEPT ![c] = @ \cup r]
          BY <2>1, <4>1 DEF Wake
        <5>2. lost \in [Core -> SUBSET Unsaved] /\ lost[c] \cup r \in SUBSET Unsaved
          BY DEF GuardInv, GuardTypeOK
        <5> QED
          BY <5>1, <5>2
      <4>2. CASE depth[c] # 0
        BY <2>1, <4>2 DEF Wake, GuardInv, GuardTypeOK
      <4> QED
        BY <4>1, <4>2
    <3>2. on' \in [Core -> {"engine", "other"}] /\ pend' \in [Core -> BOOLEAN]
      BY <2>1 DEF GuardInv, GuardTypeOK, Wake, Core
    <3> QED
      BY <2>1, <3>1, <3>2 DEF GuardInv, GuardTypeOK, Wake
  <2>2. CASE Block(c)
    BY <2>2 DEF GuardInv, GuardTypeOK, Block, Core
  <2> QED
    BY <2>1, <2>2
<1>2. Guarded'
  BY DEF GuardInv, Guarded, Wake, Block, Core
<1>3. RowsGuarded'
  BY DEF GuardInv, GuardTypeOK, RowsGuarded, Wake, Block, Core
<1>4. RowsIntact'
  BY DEF GuardInv, RowsIntact, Wake, Block
<1> QED
  BY <1>1, <1>2, <1>3, <1>4 DEF GuardInv

(* The tests run without the guard, and spoil no row but their own.        *)
LEMMA TestInv ==
  ASSUME GuardInv, Test \/ TestDone \/ Tested
  PROVE  GuardInv'
<1> USE DEF callVars, rowVars, coreVars
<1> USE KernelNames, GuardAssumption
<1>1. CASE Test
  <2>1. Tests[step[1] + 1] \in Kernel
    BY <1>1 DEF GuardInv, GuardTypeOK, Test
  <2>2. GuardTypeOK'
    BY <1>1, <2>1 DEF GuardInv, GuardTypeOK, Test, StartRow, Core
  <2> QED
    BY <1>1, <2>1, <2>2 DEF GuardInv, GuardTypeOK, Guarded, RowsGuarded, RowsIntact, Test, StartRow, Core
<1>2. CASE TestDone
  <2>1. GuardTypeOK'
    BY <1>2 DEF GuardInv, GuardTypeOK, TestDone, EndRow, Core
  <2> QED
    BY <1>2, <2>1 DEF GuardInv, GuardTypeOK, Guarded, RowsGuarded, RowsIntact, TestDone, EndRow, Core
<1>3. CASE Tested
  BY <1>3 DEF GuardInv, GuardTypeOK, Guarded, RowsGuarded, RowsIntact, Tested, Core
<1> QED
  BY <1>1, <1>2, <1>3

(* The determinism test and the arming of core 1.                          *)
LEMMA BootInv ==
  ASSUME GuardInv, Probe \/ ProbeDone \/ CreateWorker \/ WorkerReady \/ Arm
  PROVE  GuardInv'
<1> USE DEF callVars, rowVars, coreVars
<1> USE KernelNames
<1>1. CASE Probe
  BY <1>1 DEF GuardInv, GuardTypeOK, Guarded, RowsGuarded, RowsIntact, Probe, Suspend, Core
<1>2. CASE ProbeDone
  <2>1. GuardTypeOK'
    BY <1>2 DEF GuardInv, GuardTypeOK, ProbeDone, Resume, Core
  <2> QED
    BY <1>2, <2>1 DEF GuardInv, GuardTypeOK, Guarded, RowsGuarded, RowsIntact, ProbeDone, Resume, Core
<1>3. CASE CreateWorker
  BY <1>3 DEF GuardInv, GuardTypeOK, Guarded, RowsGuarded, RowsIntact, CreateWorker, Core
<1>4. CASE WorkerReady
  BY <1>4 DEF GuardInv, GuardTypeOK, Guarded, RowsGuarded, RowsIntact, WorkerReady, Suspend, Core
<1>5. CASE Arm
  BY <1>5 DEF GuardInv, GuardTypeOK, Guarded, RowsGuarded, RowsIntact, Arm, Core
<1> QED
  BY <1>1, <1>2, <1>3, <1>4, <1>5

(* A call suspends the scheduler unless it is a scalar loop.               *)
LEMMA CallInv ==
  ASSUME GuardInv, ProbeBurst \/ QueryBurst
  PROVE  GuardInv'
<1> USE DEF callVars, rowVars, coreVars
<1> USE KernelNames
<1>1. CASE ProbeBurst
  BY <1>1 DEF GuardInv, GuardTypeOK, Guarded, RowsGuarded, RowsIntact, ProbeBurst, Call, Suspend, Core, Work
<1>2. ASSUME NEW work \in Work, NEW both \in BOOLEAN, stage = "run", Call(work, both), UNCHANGED step
      PROVE  GuardInv'
  <2>1. GuardTypeOK'
    BY <1>2 DEF GuardInv, GuardTypeOK, Guarded, Call, Suspend, Core, Work
  <2>2. \A c \in Core : kern[c] = None
    BY <1>2 DEF GuardInv, RowsGuarded, Guarded, Call, Core
  <2>3. Guarded'
    BY <1>2 DEF GuardInv, GuardTypeOK, Guarded, Call, Suspend, Core, Work
  <2> QED
    BY <1>2, <2>1, <2>2, <2>3 DEF GuardInv, RowsGuarded, RowsIntact, Call, Core
<1> QED
  BY <1>1, <1>2 DEF QueryBurst

(* The rows and scalar halves of a call, and its return.                   *)
LEMMA CallRowInv ==
  ASSUME GuardInv, (\E c \in Core : RunRow(c) \/ RowDone(c) \/ ScalarHalf(c)) \/ Return
  PROVE  GuardInv'
<1> USE DEF callVars, rowVars, coreVars
<1> USE KernelNames
<1>1. ASSUME NEW c \in Core, RunRow(c) PROVE GuardInv'
  <2>1. GuardTypeOK'
    BY <1>1 DEF GuardInv, GuardTypeOK, Guarded, RunRow, StartRow, Core, Work
  <2>2. stage # "tests" /\ depth[c] > 0
    BY <1>1 DEF GuardInv, GuardTypeOK, Guarded, RunRow, Core, Work
  <2> QED
    BY <1>1, <2>1, <2>2 DEF GuardInv, GuardTypeOK, Guarded, RowsGuarded, RowsIntact, RunRow, StartRow, Core
<1>2. ASSUME NEW c \in Core, RowDone(c) PROVE GuardInv'
  <2>1. GuardTypeOK'
    BY <1>2 DEF GuardInv, GuardTypeOK, RowDone, EndRow, Core
  <2>2. lost[c] = {}
    BY <1>2 DEF GuardInv, RowsGuarded, RowDone, EndRow
  <2>3. bad' = bad
    BY <1>2, <2>2 DEF RowDone, EndRow
  <2> QED
    BY <1>2, <2>1, <2>3 DEF GuardInv, GuardTypeOK, Guarded, RowsGuarded, RowsIntact, RowDone, EndRow, Core
<1>3. ASSUME NEW c \in Core, ScalarHalf(c) PROVE GuardInv'
  BY <1>3 DEF GuardInv, GuardTypeOK, Guarded, RowsGuarded, RowsIntact, ScalarHalf, Core
<1>4. CASE Return
  <2>1. \A c \in Core : kern[c] = None \/ stage = "tests"
    BY <1>4 DEF GuardInv, RowsGuarded, Return
  <2>2. stage # "tests"
    BY <1>4 DEF GuardInv, Guarded, Return
  <2>3. GuardTypeOK'
    BY <1>4, <2>2 DEF GuardInv, GuardTypeOK, Guarded, Return, Resume, Core, Work
  <2>4. Guarded'
    BY <1>4, <2>2 DEF GuardInv, GuardTypeOK, Guarded, Return, Resume, Core, Work
  <2> QED
    BY <1>4, <2>1, <2>2, <2>3, <2>4 DEF GuardInv, RowsGuarded, RowsIntact, Return
<1> QED
  BY <1>1, <1>2, <1>3, <1>4

(* Every step keeps the invariant.                                         *)
LEMMA GuardNextInv == GuardInv /\ [GuardNext]_guardVars => GuardInv'
<1> SUFFICES ASSUME GuardInv, [GuardNext]_guardVars PROVE GuardInv'
  OBVIOUS
<1>1. CASE UNCHANGED guardVars
  BY <1>1 DEF guardVars, callVars, rowVars, coreVars, GuardInv, GuardTypeOK, Guarded, RowsGuarded, RowsIntact
<1>2. CASE Engine0
  BY <1>2, TestInv, BootInv, CallInv, CallRowInv DEF Engine0, Core
<1>3. CASE Engine1
  BY <1>3, BootInv, CallRowInv DEF Engine1, Core
<1> QED
  BY <1>1, <1>2, <1>3, SwitchInv DEF GuardNext

(* The invariant holds of every behaviour.                                 *)
LEMMA GuardSpecInv == GuardSpec => []GuardInv
BY GuardInitInv, GuardNextInv, PTL DEF GuardSpec

(* Types hold, and suspensions nest at most twice.                         *)
THEOREM GuardTypeCorrect == GuardSpec => []GuardTypeOK
<1>1. GuardInv => GuardTypeOK
  BY DEF GuardInv
<1> QED
  BY <1>1, GuardSpecInv, PTL

(* No row of an inference or of the determinism test is spoilt by a task   *)
(* switch, on either core (crit_enter, core1_worker, determinism_selftest).*)
THEOREM RowsAreIntact == GuardSpec => []RowsIntact
<1>1. GuardInv => RowsIntact
  BY DEF GuardInv
<1> QED
  BY <1>1, GuardSpecInv, PTL

(* Outside kernel_unit_tests every kernel runs with its core's scheduler   *)
(* suspended (needle_engine.h:175-176).                                    *)
THEOREM GuardedAfterTests == GuardSpec => [](stage # "tests" => KernelsGuarded)
<1>1. GuardInv => (stage # "tests" => KernelsGuarded)
  BY DEF GuardInv, RowsGuarded, KernelsGuarded
<1> QED
  BY <1>1, GuardSpecInv, PTL

(* A task is held off only while its core is suspended.                    *)
HeldBack == \A c \in Core : pend[c] => depth[c] > 0

(* Whoever ends the last suspension lets it go.                            *)
LEMMA HeldBackNext == GuardInv /\ HeldBack /\ [GuardNext]_guardVars => HeldBack'
<1> SUFFICES ASSUME GuardInv, HeldBack, [GuardNext]_guardVars PROVE HeldBack'
  OBVIOUS
<1> USE DEF callVars, rowVars, coreVars
<1>1. ASSUME UNCHANGED <<pend, depth>> PROVE HeldBack'
  BY <1>1 DEF HeldBack
<1>2. depth \in [Core -> 0 .. 2] /\ pend \in [Core -> BOOLEAN]
  BY DEF GuardInv, GuardTypeOK
<1>3. ASSUME NEW c \in Core, Suspend(c) PROVE HeldBack'
  BY <1>2, <1>3 DEF Suspend, HeldBack
<1>4. ASSUME NEW c \in Core, Resume(c), depth[c] > 0 PROVE HeldBack'
  <2>1. /\ pend' = [pend EXCEPT ![c] = pend[c] /\ ~ (depth[c] = 1 /\ pend[c])]
        /\ depth' = [depth EXCEPT ![c] = depth[c] - 1]
    BY <1>4 DEF Resume
  <2>2. pend'[c] => depth[c] # 1
    BY <1>2, <2>1, Zenon
  <2>3. depth'[c] = depth[c] - 1 /\ depth[c] \in 0 .. 2
    BY <1>2, <2>1
  <2>4. pend'[c] => depth'[c] > 0
    BY <1>4, <2>2, <2>3
  <2>5. ASSUME NEW e \in Core, e # c PROVE pend'[e] = pend[e] /\ depth'[e] = depth[e]
    BY <1>2, <2>1, <2>5
  <2> QED
    BY <2>4, <2>5 DEF HeldBack
<1>5. ASSUME NEW c \in Core, Wake(c) PROVE HeldBack'
  <2>1. CASE depth[c] = 0
    BY <1>1, <1>5, <2>1 DEF Wake
  <2>2. CASE depth[c] # 0
    BY <1>2, <1>5, <2>2 DEF Wake, HeldBack
  <2> QED
    BY <2>1, <2>2
<1>6. CASE Probe \/ WorkerReady
  BY <1>3, <1>6 DEF Probe, WorkerReady, Core
<1>7. CASE ProbeDone
  <2>1. 0 \in Core /\ Resume(0) /\ depth[0] > 0
    BY <1>7 DEF ProbeDone, Core
  <2> QED
    BY <1>4, <2>1
<1>8. CASE Return
  <2>1. 0 \in Core /\ (job = "scalar" \/ (Resume(0) /\ depth[0] > 0))
    BY <1>8, KernelNames DEF Return, GuardInv, Guarded, GuardTypeOK, Core
  <2> QED
    BY <1>1, <1>4, <1>8, <2>1 DEF Return
<1>9. ASSUME NEW work, NEW both, Call(work, both) PROVE HeldBack'
  <2>1. 0 \in Core
    BY DEF Core
  <2> QED
    BY <1>1, <1>3, <1>9, <2>1 DEF Call
<1>10. CASE ProbeBurst \/ QueryBurst
  BY <1>9, <1>10 DEF ProbeBurst, QueryBurst
<1>11. CASE \/ Test \/ TestDone \/ Tested \/ CreateWorker \/ Arm
            \/ \E c \in Core : RunRow(c) \/ RowDone(c) \/ ScalarHalf(c) \/ Block(c)
            \/ UNCHANGED guardVars
  BY <1>1, <1>11 DEF Test, TestDone, Tested, CreateWorker, Arm, RunRow, RowDone, ScalarHalf, Block, guardVars
<1> QED
  BY <1>5, <1>6, <1>7, <1>8, <1>10, <1>11 DEF GuardNext, Engine0, Engine1, Core

(* The guard is taken per burst: a task that became ready during one has   *)
(* run before the next begins (fw_main.c:254-257).                         *)
THEOREM GuardPerBurst == GuardSpec => NetworkBetweenBursts
<1>1. GuardInit => HeldBack
  BY DEF GuardInit, HeldBack
<1>2. GuardInv /\ HeldBack /\ stage = "run" /\ job = None => ~pend[0]
  BY DEF GuardInv, Guarded, HeldBack, Core
<1>3. GuardInv /\ HeldBack => ~ (stage = "run" /\ job = None /\ job' # None /\ pend[0])
  BY <1>2
<1>4. GuardSpec => []HeldBack
  BY <1>1, HeldBackNext, GuardSpecInv, PTL DEF GuardSpec
<1> QED
  BY <1>3, <1>4, GuardSpecInv, PTL DEF NetworkBetweenBursts
=============================================================================
