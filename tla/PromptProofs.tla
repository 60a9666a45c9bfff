---------------------------- MODULE PromptProofs ----------------------------
(***************************************************************************)
(* Both tokenizers merge the best pair at each step (BpeMerge implements   *)
(* GreedyMerge), and a prompt built from their ids reaches the encoder     *)
(* whole (Prompt), for every vocabulary, text and length.                  *)
(*                                                                         *)
(* The pieces are found by following nxt, the places an entry of bpe.js's  *)
(* heap rises or sinks through by following parents or children: each is a *)
(* function defined by recursion along a measure, which has a solution     *)
(* because the sets of numbers a fact holds of admit induction (NatInd).   *)
(***************************************************************************)
EXTENDS Prompt, FiniteSetTheorems, WellFoundedInduction, TLAPS

-----------------------------------------------------------------------------
(* Recursion.                                                              *)

(* A set of natural numbers has a least member.                            *)
LEMMA NatLeast ==
  ASSUME NEW T, T \subseteq Nat, T # {}
  PROVE  \E m \in T : \A n \in T : ~ (n < m)
<1> DEFINE R == {p \in Nat \X Nat : p[1] < p[2]}
<1>1. IsWellFoundedOn(R, Nat)
  BY NatLessThanWellFounded DEF OpToRel
<1>2. \A m, n \in Nat : m < n => <<m, n>> \in R
  OBVIOUS
<1> HIDE DEF R
<1>3. \E m \in T : \A n \in T : ~ (<<n, m>> \in R)
  BY <1>1, WFMin
<1> QED
  BY <1>2, <1>3

(* Induction, with the numbers a fact holds of as a set.                   *)
LEMMA NatInd ==
  ASSUME NEW T, 0 \in T, \A n \in Nat : n \in T => n + 1 \in T
  PROVE  Nat \subseteq T
<1> SUFFICES ASSUME Nat \ T # {} PROVE FALSE
  OBVIOUS
<1>1. PICK m \in Nat \ T : \A n \in Nat \ T : ~ (n < m)
  BY NatLeast
<1>2. m - 1 \in Nat /\ m - 1 \in T
  BY <1>1
<1> QED
  BY <1>1, <1>2

(* f gathers the places from each place of D on along go; go leads to      *)
(* places of a lower rank.                                                 *)
Gathers(f, D, go) ==
  f = [p \in D |-> IF p \in DOMAIN go THEN {p} \cup f[go[p]] ELSE {p}]

Descends(D, go, rank) ==
  /\ DOMAIN go \subseteq D /\ rank \in [D -> Nat]
  /\ \A p \in DOMAIN go : go[p] \in D /\ rank[go[p]] < rank[p]

(* Such a path exists, by induction on the rank of its first place.        *)
LEMMA GatherExists ==
  ASSUME NEW D, NEW go, NEW rank, Descends(D, go, rank), NEW n \in Nat,
         \A p \in D : rank[p] < n
  PROVE  \E f : Gathers(f, D, go)
<1> DEFINE Body(f, p) == IF p \in DOMAIN go THEN {p} \cup f[go[p]] ELSE {p}
           K == {k \in Nat : \E f : /\ DOMAIN f = D
                                    /\ \A p \in D : rank[p] < k => f[p] = Body(f, p)}
<1>1. 0 \in K
  <2> DEFINE f == [p \in D |-> {}]
  <2>1. DOMAIN f = D /\ \A p \in D : rank[p] < 0 => f[p] = Body(f, p)
    BY DEF Descends
  <2> QED
    BY <2>1
<1>2. ASSUME NEW k \in Nat, k \in K PROVE k + 1 \in K
  <2>1. PICK f : DOMAIN f = D /\ \A p \in D : rank[p] < k => f[p] = Body(f, p)
    BY <1>2
  <2> DEFINE h == [p \in D |-> Body(f, p)]
  <2>2. ASSUME NEW p \in D, rank[p] < k + 1 PROVE h[p] = Body(h, p)
    <3>1. CASE p \in DOMAIN go
      <4>1. go[p] \in D /\ rank[go[p]] < k
        BY <2>2, <3>1 DEF Descends
      <4>2. h[go[p]] = f[go[p]]
        BY <2>1, <4>1
      <4> QED
        BY <3>1, <4>2
    <3>2. CASE p \notin DOMAIN go
      BY <3>2
    <3> QED
      BY <3>1, <3>2
  <2>3. DOMAIN h = D /\ \A p \in D : rank[p] < k + 1 => h[p] = Body(h, p)
    BY <2>2
  <2> HIDE DEF h, Body
  <2> QED
    BY <2>3
<1> HIDE DEF K
<1>3. n \in K
  BY <1>1, <1>2, NatInd
<1>4. PICK f : DOMAIN f = D /\ \A p \in D : rank[p] < n => f[p] = Body(f, p)
  BY <1>3 DEF K
<1> DEFINE h == [p \in D |-> Body(f, p)]
<1>5. \A p \in D : h[p] = f[p]
  BY <1>4
<1>6. ASSUME NEW p \in D PROVE h[p] = Body(h, p)
  <2>1. CASE p \in DOMAIN go
    <3>1. go[p] \in D /\ h[go[p]] = f[go[p]]
      BY <1>5, <2>1 DEF Descends
    <3> QED
      BY <2>1, <3>1
  <2>2. CASE p \notin DOMAIN go
    BY <2>2
  <2> QED
    BY <2>1, <2>2
<1>7. Gathers(h, D, go)
  BY <1>6 DEF Gathers
<1> QED
  BY <1>7

(* What a path is made of: it starts where it should, is closed under go,  *)
(* and each later place was reached by go.  Ranks decrease along it, and   *)
(* it ends where go does.                                                  *)
LEMMA GatherIs ==
  ASSUME NEW D, NEW go, NEW rank, Descends(D, go, rank), NEW f, Gathers(f, D, go), NEW p \in D
  PROVE  /\ p \in f[p] /\ f[p] \subseteq D
         /\ \A x \in f[p] : x \in DOMAIN go => go[x] \in f[p]
         /\ \A x \in f[p] : x # p => \E y \in f[p] : y \in DOMAIN go /\ go[y] = x
         /\ \A x \in f[p] : x # p => rank[x] < rank[p]
         /\ \E x \in f[p] : x \notin DOMAIN go
         /\ \A x, y \in f[p] : x \notin DOMAIN go => rank[x] <= rank[y]
<1> DEFINE Good(s) ==
             /\ s \in f[s] /\ f[s] \subseteq D
             /\ \A x \in f[s] : x \in DOMAIN go => go[x] \in f[s]
             /\ \A x \in f[s] : x # s => \E y \in f[s] : y \in DOMAIN go /\ go[y] = x
             /\ \A x \in f[s] : x # s => rank[x] < rank[s]
             /\ \E x \in f[s] : x \notin DOMAIN go
             /\ \A x, y \in f[s] : x \notin DOMAIN go => rank[x] <= rank[y]
           Bad == {s \in D : ~ Good(s)}
           T == {rank[s] : s \in Bad}
<1> SUFFICES ASSUME Bad # {} PROVE FALSE
  OBVIOUS
<1>1. T \subseteq Nat /\ T # {}
  BY DEF Descends
<1>2. PICK s \in Bad : \A t \in Bad : ~ (rank[t] < rank[s])
  <2> HIDE DEF Bad
  <2>1. PICK m \in T : \A k \in T : ~ (k < m)
    BY <1>1, NatLeast
  <2> QED
    BY <2>1
<1>3. CASE s \in DOMAIN go
  <2>1. go[s] \in D /\ rank[go[s]] < rank[s]
    BY <1>3 DEF Descends
  <2>2. Good(go[s])
    BY <1>2, <2>1
  <2>3. f[s] = {s} \cup f[go[s]]
    BY <1>3 DEF Gathers
  <2>4. \A x \in f[s] : x # s => rank[x] < rank[s]
    <3>1. rank \in [D -> Nat]
      BY DEF Descends
    <3> QED
      BY <2>1, <2>2, <2>3, <3>1
  <2>5. \A x \in f[s] : x # s => \E y \in f[s] : y \in DOMAIN go /\ go[y] = x
    BY <1>3, <2>2, <2>3
  <2>6. \A x, y \in f[s] : x \notin DOMAIN go => rank[x] <= rank[y]
    <3>1. rank \in [D -> Nat] /\ s \in D
      BY DEF Descends
    <3>2. ASSUME NEW x \in f[s], NEW y \in f[s], x \notin DOMAIN go PROVE rank[x] <= rank[y]
      <4>1. x \in f[go[s]] /\ rank[x] < rank[s]
        BY <1>3, <2>3, <2>4, <3>2
      <4>2. CASE y \in f[go[s]]
        BY <2>2, <3>2, <4>1, <4>2
      <4>3. CASE y = s
        BY <2>2, <3>1, <4>1, <4>3
      <4> QED
        BY <2>3, <4>2, <4>3
    <3> QED
      BY <3>2
  <2>7. Good(s)
    BY <1>3, <2>1, <2>2, <2>3, <2>4, <2>5, <2>6
  <2> QED
    BY <2>7
<1>4. CASE s \notin DOMAIN go
  <2>1. f[s] = {s}
    BY <1>4 DEF Gathers
  <2>2. Good(s)
    BY <1>4, <2>1 DEF Descends
  <2> QED
    BY <2>2
<1> QED
  BY <1>3, <1>4

-----------------------------------------------------------------------------
(* The heap of bpe.js.                                                     *)

Char == Letters \cup Bytes
Items == [score : Int, i : Int, j : Int, piece : Seq(Char)]

(* No entry is less than its parent.                                       *)
Ordered(h) == \A p \in 2 .. Len(h) : ~ Less(h[p], h[p \div 2])

(* Entries are compared by three numbers in turn: a total preorder.        *)
LEMMA LessOrder ==
  ASSUME NEW x \in Items, NEW y \in Items, NEW z \in Items
  PROVE  /\ ~ Less(x, x)
         /\ Less(x, y) => ~ Less(y, x)
         /\ Less(x, y) /\ Less(y, z) => Less(x, z)
         /\ ~ Less(x, y) /\ ~ Less(y, z) => ~ Less(x, z)
         /\ Less(x, y) /\ ~ Less(z, y) => ~ Less(z, x)
BY DEF Items, Less

(* Half of a place: its parent.                                            *)
LEMMA Half ==
  ASSUME NEW p \in Nat
  PROVE  /\ p \div 2 \in Nat /\ 2 * (p \div 2) <= p /\ p <= 2 * (p \div 2) + 1
         /\ p > 0 => p \div 2 < p
         /\ p > 1 => p \div 2 >= 1
OBVIOUS

(* The first entry of an ordered array is a least one.                     *)
LEMMA TopLeast ==
  ASSUME NEW h \in Seq(Items), Ordered(h), NEW p \in 1 .. Len(h)
  PROVE  ~ Less(h[p], h[1])
<1> DEFINE T == {k \in 1 .. Len(h) : Less(h[k], h[1])}
<1> SUFFICES ASSUME T # {} PROVE FALSE
  OBVIOUS
<1>1. PICK k \in T : \A m \in T : ~ (m < k)
  <2>1. T \subseteq Nat
    OBVIOUS
  <2> HIDE DEF T
  <2> QED
    BY <2>1, NatLeast
<1>2. h[1] \in Items /\ h[k] \in Items /\ k \in 1 .. Len(h) /\ Less(h[k], h[1])
  OBVIOUS
<1>3. k # 1
  BY <1>2, LessOrder
<1>4. k \div 2 \in 1 .. Len(h) /\ k \div 2 < k
  BY <1>2, <1>3, Half
<1>5. ~ Less(h[k], h[k \div 2]) /\ h[k \div 2] \in Items
  BY <1>2, <1>3, <1>4 DEF Ordered
<1>6. ~ Less(h[k \div 2], h[1])
  BY <1>1, <1>4
<1> QED
  BY <1>2, <1>5, <1>6, LessOrder

(* An entry appended to the array rises to where its parent is not larger. *)
LEMMA RisenIs ==
  ASSUME NEW h \in Seq(Items), Ordered(h), NEW x \in Items
  PROVE  /\ Risen(h, x) \in Seq(Items) /\ Ordered(Risen(h, x))
         /\ Range(Risen(h, x)) = Range(h) \cup {x}
<1> DEFINE n == Len(h) + 1
           D == 0 .. n
           C == {p \in D : p > 1 /\ Less(x, h[Parent(p)])}
           go == [p \in C |-> p \div 2]
           rank == [p \in D |-> p]
           Walk(path) == path = [p \in 0 .. Len(h) + 1 |->
             IF p > 1 /\ Less(x, h[Parent(p)]) THEN {p} \cup path[Parent(p)] ELSE {p}]
           f == CHOOSE path : Walk(path)
           up == f[n]
           top == CHOOSE p \in up : \A m \in up : p <= m
           r == [p \in 1 .. n |-> IF p = top THEN x ELSE IF p \in up THEN h[Parent(p)] ELSE h[p]]
<1>0. Risen(h, x) = r
  BY DEF Risen
<1>1. n \in Nat /\ n >= 1 /\ n \in D /\ h \in [1 .. n - 1 -> Items]
  OBVIOUS
<1>2. DOMAIN go = C /\ C \subseteq D /\ \A p \in C : p \in D /\ p > 1 /\ go[p] = p \div 2
  OBVIOUS
<1>3. Descends(D, go, rank)
  <2>1. \A p \in C : go[p] \in D /\ rank[go[p]] < rank[p]
    BY <1>1, <1>2, Half
  <2> QED
    BY <1>2, <2>1 DEF Descends
<1>4. \A path : Walk(path) <=> Gathers(path, D, go)
  <2>1. ASSUME NEW path, NEW p \in D
        PROVE  (IF p > 1 /\ Less(x, h[Parent(p)]) THEN {p} \cup path[Parent(p)] ELSE {p})
                 = (IF p \in DOMAIN go THEN {p} \cup path[go[p]] ELSE {p})
    BY <1>2 DEF Parent
  <2> HIDE DEF go, C
  <2> QED
    BY <2>1 DEF Gathers
<1>5. Gathers(f, D, go)
  <2> HIDE DEF go, rank, Walk
  <2>1. \E path : Walk(path)
    <3>1. \A p \in D : rank[p] < n + 1
      BY DEF rank
    <3>2. n + 1 \in Nat
      BY <1>1
    <3> HIDE DEF D, n
    <3>3. \E path : Gathers(path, D, go)
      BY <1>3, <3>1, <3>2, GatherExists
    <3> QED
      BY <1>4, <3>3
  <2>2. Walk(f)
    BY <2>1
  <2> QED
    BY <1>4, <2>2
<1>6. /\ n \in up /\ up \subseteq D
      /\ \A p \in up : p \in C => p \div 2 \in up
      /\ \A p \in up : p # n => \E y \in up : y \in C /\ y \div 2 = p
      /\ \A p, m \in up : p \notin C => p <= m
  <2> HIDE DEF f, go, C
  <2>1. /\ n \in f[n] /\ f[n] \subseteq D
        /\ \A p \in f[n] : p \in DOMAIN go => go[p] \in f[n]
        /\ \A p \in f[n] : p # n => \E y \in f[n] : y \in DOMAIN go /\ go[y] = p
        /\ \A p, m \in f[n] : p \notin DOMAIN go => rank[p] <= rank[m]
    <3> HIDE DEF rank
    <3> QED
      BY <1>1, <1>3, <1>5, GatherIs
  <2>2. \A p \in D : rank[p] = p
    OBVIOUS
  <2> HIDE DEF rank
  <2> QED
    BY <1>2, <2>1, <2>2
<1> HIDE DEF f, rank, go
<1> HIDE DEF up
<1>7. top \in up /\ \A m \in up : top <= m
  <2>1. up \subseteq Nat /\ up # {}
    BY <1>6
  <2>2. \E p \in up : \A m \in up : p <= m
    <3>1. PICK p \in up : \A m \in up : ~ (m < p)
      BY <2>1, NatLeast
    <3> QED
      BY <2>1, <3>1
  <2> QED
    BY <2>2
<1> HIDE DEF top
<1>8. \A p \in up : p \in 1 .. n
  <2>1. \A y \in C : y \div 2 >= 1
    BY <1>2, Half
  <2> QED
    BY <1>1, <1>6, <2>1
<1>9. \A p \in up : p # top => /\ p > 1 /\ p \div 2 \in up /\ p \div 2 \in 1 .. n - 1
                               /\ Less(x, h[p \div 2])
  <2>1. ASSUME NEW p \in up, p # top PROVE p \in C
    BY <1>6, <1>7, <1>8, <2>1
  <2> QED
    BY <1>1, <1>2, <1>6, <1>8, <2>1, Half DEF Parent
<1>10. \A p \in 1 .. n : p \notin up => p \in 1 .. n - 1
  BY <1>1, <1>6
<1>11. r \in Seq(Items) /\ Len(r) = n /\ DOMAIN r = 1 .. n
  <2>1. \A p \in 1 .. n : r[p] \in Items
    BY <1>1, <1>9, <1>10 DEF Parent
  <2>2. r \in [1 .. n -> Items]
    BY <2>1
  <2> HIDE DEF r
  <2> QED
    BY <1>1, <2>2
<1>12. top > 1 => ~ Less(x, h[top \div 2])
  <2>1. ASSUME top > 1, Less(x, h[top \div 2]) PROVE FALSE
    <3>1. top \in C
      BY <1>6, <1>7, <2>1 DEF Parent
    <3>2. top \div 2 \in up /\ top \div 2 < top
      BY <1>6, <1>7, <1>8, <3>1, Half
    <3> QED
      BY <1>7, <1>8, <3>2
  <2> QED
    BY <2>1
<1>13. ASSUME NEW p \in 2 .. n PROVE ~ Less(r[p], r[p \div 2])
  <2> DEFINE m == p \div 2
  <2>1. m \in 1 .. n - 1 /\ m < p /\ h[m] \in Items
    BY <1>1, Half
  <2>2. p <= n - 1 => h[p] \in Items /\ ~ Less(h[p], h[m])
    BY <1>1 DEF Ordered
  <2>3. CASE p \notin up /\ m \notin up
    <3>1. r[p] = h[p] /\ r[m] = h[m]
      BY <1>7, <2>1, <2>3
    <3> QED
      BY <1>10, <2>2, <2>3, <3>1
  <2>4. CASE p \notin up /\ m \in up
    <3>1. PICK y \in up : y \in C /\ y \div 2 = m
      BY <1>6, <2>1, <2>4
    <3>2. Less(x, h[m])
      BY <1>2, <3>1 DEF Parent
    <3>3. r[p] = h[p] /\ h[p] \in Items /\ ~ Less(h[p], h[m])
      BY <1>7, <1>10, <2>2, <2>4
    <3>4. CASE m = top
      BY <2>1, <3>2, <3>3, <3>4, LessOrder
    <3>5. CASE m # top
      <4>1. m > 1 /\ m \div 2 \in 1 .. n - 1 /\ m \in 2 .. Len(h)
        <5> HIDE DEF m
        <5> QED
          BY <1>9, <2>1, <2>4, <3>5
      <4>2. r[m] = h[m \div 2]
        BY <2>1, <2>4, <3>5 DEF Parent
      <4>3. ~ Less(h[m], h[m \div 2]) /\ h[m \div 2] \in Items
        BY <4>1 DEF Ordered
      <4> QED
        BY <2>1, <3>3, <4>2, <4>3, LessOrder
    <3> QED
      BY <3>4, <3>5
  <2>5. CASE p = top
    <3>1. m \notin up
      BY <1>7, <1>8, <2>1, <2>5
    <3>2. r[p] = x /\ r[m] = h[m]
      BY <1>7, <2>1, <2>5, <3>1
    <3> QED
      BY <1>12, <2>5, <3>2
  <2>6. CASE p \in up /\ p # top
    <3>1. m \in up /\ Less(x, h[m]) /\ r[p] = h[m]
      BY <1>9, <2>6 DEF Parent
    <3>2. CASE m = top
      BY <2>1, <3>1, <3>2, LessOrder
    <3>3. CASE m # top
      <4>1. m > 1 /\ m \div 2 \in 1 .. n - 1 /\ m \in 2 .. Len(h)
        <5> HIDE DEF m
        <5> QED
          BY <1>9, <2>1, <3>1, <3>3
      <4>2. r[m] = h[m \div 2]
        BY <2>1, <3>1, <3>3 DEF Parent
      <4> QED
        BY <3>1, <4>1, <4>2 DEF Ordered
    <3> QED
      BY <3>2, <3>3
  <2> QED
    BY <2>3, <2>4, <2>5, <2>6
<1>14. Ordered(r)
  <2> HIDE DEF r
  <2> QED
    BY <1>11, <1>13 DEF Ordered
<1>15. Range(r) \subseteq Range(h) \cup {x}
  <2>1. ASSUME NEW p \in 1 .. n PROVE r[p] \in Range(h) \cup {x}
    <3>1. p \in up /\ p # top => p \div 2 \in DOMAIN h
      BY <1>1, <1>9
    <3> QED
      BY <1>1, <1>10, <3>1 DEF Range, Parent
  <2> HIDE DEF r
  <2> QED
    BY <1>11, <2>1 DEF Range
<1>16. x \in Range(r)
  <2>1. top \in 1 .. n /\ r[top] = x
    BY <1>7, <1>8
  <2> HIDE DEF r
  <2> QED
    BY <1>11, <2>1 DEF Range
<1>17. ASSUME NEW p \in DOMAIN h PROVE h[p] \in Range(r)
  <2>1. p \in 1 .. n /\ p # n
    BY <1>1
  <2>2. CASE p \notin up
    <3>1. r[p] = h[p]
      BY <1>7, <2>1, <2>2
    <3> HIDE DEF r
    <3> QED
      BY <1>11, <2>1, <3>1 DEF Range
  <2>3. CASE p \in up
    <3>1. PICK y \in up : y \in C /\ y \div 2 = p
      BY <1>6, <2>1, <2>3
    <3>2. y # top
      BY <1>2, <1>7, <1>8, <2>3, <3>1, Half
    <3>3. y \in 1 .. n /\ r[y] = h[p]
      BY <1>8, <3>1, <3>2 DEF Parent
    <3> HIDE DEF r
    <3> QED
      BY <1>11, <3>3 DEF Range
  <2> QED
    BY <2>2, <2>3
<1>18. Range(r) = Range(h) \cup {x}
  <2> HIDE DEF r
  <2> QED
    BY <1>15, <1>16, <1>17 DEF Range
<1> QED
  BY <1>0, <1>11, <1>14, <1>18

(* s is p or its lesser child, p if x is no greater than both.             *)
Lesser(h, x, p, s) ==
  /\ s \in {p, 2 * p, 2 * p + 1} /\ s \in 1 .. Len(h)
  /\ s = p => \A c \in {2 * p, 2 * p + 1} : c <= Len(h) => ~ Less(h[c], x)
  /\ s # p => /\ Less(h[s], x)
              /\ \A c \in {2 * p, 2 * p + 1} : c <= Len(h) => ~ Less(h[c], h[s])

(* The place the hole moves to when x goes down.                           *)
LEMMA SmallerIs ==
  ASSUME NEW h \in Seq(Items), NEW x \in Items, NEW p \in 1 .. Len(h)
  PROVE  Lesser(h, x, p, Smaller(h, p, x))
<1> DEFINE s == Smaller(h, p, x)
<1> SUFFICES Lesser(h, x, p, s)
  OBVIOUS
<1> USE DEF Lesser
<1> DEFINE l == IF 2 * p <= Len(h) /\ Less(h[2 * p], x) THEN 2 * p ELSE p
           at == IF l = p THEN x ELSE h[l]
<1>1. s = IF 2 * p + 1 <= Len(h) /\ Less(h[2 * p + 1], at) THEN 2 * p + 1 ELSE l
  BY DEF Smaller
<1> HIDE DEF s
<1>2. Len(h) \in Nat /\ \A c \in 1 .. Len(h) : h[c] \in Items
  OBVIOUS
<1>3. CASE 2 * p <= Len(h) /\ Less(h[2 * p], x)
  <2>1. at = h[2 * p] /\ l = 2 * p /\ h[2 * p] \in Items
    BY <1>2, <1>3
  <2>2. CASE 2 * p + 1 <= Len(h) /\ Less(h[2 * p + 1], at)
    <3>1. h[2 * p + 1] \in Items /\ s = 2 * p + 1
      BY <1>1, <1>2, <2>2
    <3>2. Less(h[2 * p + 1], h[2 * p]) /\ Less(h[2 * p], x)
      BY <1>3, <2>1, <2>2
    <3>3. Less(h[2 * p + 1], x) /\ ~ Less(h[2 * p], h[2 * p + 1]) /\ ~ Less(h[2 * p + 1], h[2 * p + 1])
      BY <2>1, <3>1, <3>2, LessOrder
    <3> HIDE DEF l, at
    <3> QED
      BY <1>2, <2>2, <3>1, <3>3
  <2>3. CASE ~ (2 * p + 1 <= Len(h) /\ Less(h[2 * p + 1], at))
    <3>1. s = 2 * p /\ ~ Less(h[2 * p], h[2 * p])
      BY <1>1, <2>1, <2>3, LessOrder
    <3>2. 2 * p + 1 <= Len(h) => ~ Less(h[2 * p + 1], h[2 * p])
      BY <2>1, <2>3
    <3> HIDE DEF l, at
    <3> QED
      BY <1>2, <1>3, <3>1, <3>2
  <2> QED
    BY <2>2, <2>3
<1>4. CASE ~ (2 * p <= Len(h) /\ Less(h[2 * p], x))
  <2>1. at = x /\ l = p
    BY <1>4
  <2>2. CASE 2 * p + 1 <= Len(h) /\ Less(h[2 * p + 1], x)
    <3>1. s = 2 * p + 1 /\ h[2 * p + 1] \in Items /\ h[2 * p] \in Items
      BY <1>1, <1>2, <2>1, <2>2
    <3>2. ~ Less(h[2 * p + 1], h[2 * p + 1]) /\ ~ Less(h[2 * p], h[2 * p + 1])
      BY <1>4, <2>2, <3>1, LessOrder
    <3> HIDE DEF l, at
    <3> QED
      BY <1>2, <2>2, <3>1, <3>2
  <2>3. CASE ~ (2 * p + 1 <= Len(h) /\ Less(h[2 * p + 1], x))
    BY <1>1, <1>2, <1>4, <2>1, <2>3
  <2> QED
    BY <2>2, <2>3
<1> QED
  BY <1>3, <1>4

(* An entry put in the place of the first sinks to where no child is less. *)
LEMMA SunkIs ==
  ASSUME NEW h \in Seq(Items), Ordered(h), h # <<>>, NEW x \in Items
  PROVE  /\ Sunk(h, x) \in Seq(Items) /\ Ordered(Sunk(h, x))
         /\ Range(Sunk(h, x)) = {h[p] : p \in 2 .. Len(h)} \cup {x}
<1> DEFINE n == Len(h)
           D == 1 .. n
           S(p) == Smaller(h, p, x)
           C == {p \in D : S(p) # p}
           go == [p \in C |-> S(p)]
           rank == [p \in D |-> n - p]
           Walk(path) == path = [p \in 1 .. Len(h) |->
             IF Smaller(h, p, x) = p THEN {p} ELSE {p} \cup path[Smaller(h, p, x)]]
           f == CHOOSE path : Walk(path)
           down == f[1]
           r == [p \in 1 .. n |->
                  IF p \notin down THEN h[p] ELSE IF S(p) = p THEN x ELSE h[S(p)]]
<1>0. Sunk(h, x) = r
  BY DEF Sunk
<1>1. n \in Nat /\ n >= 1 /\ 1 \in D /\ \A c \in D : h[c] \in Items
  OBVIOUS
<1>2. \A p \in D : /\ S(p) \in {p, 2 * p, 2 * p + 1} /\ S(p) \in D
                   /\ S(p) = p => \A c \in {2 * p, 2 * p + 1} : c <= n => ~ Less(h[c], x)
                   /\ S(p) # p => /\ Less(h[S(p)], x) /\ S(p) > p
                                  /\ \A c \in {2 * p, 2 * p + 1} : c <= n => ~ Less(h[c], h[S(p)])
  <2> TAKE p \in D
  <2> DEFINE s == S(p)
  <2>1. s = Smaller(h, p, x)
    OBVIOUS
  <2> HIDE DEF s
  <2>2. /\ s \in {p, 2 * p, 2 * p + 1} /\ s \in 1 .. Len(h)
        /\ s = p => \A c \in {2 * p, 2 * p + 1} : c <= Len(h) => ~ Less(h[c], x)
        /\ s # p => /\ Less(h[s], x)
                    /\ \A c \in {2 * p, 2 * p + 1} : c <= Len(h) => ~ Less(h[c], h[s])
    <3>1. p \in 1 .. Len(h)
      OBVIOUS
    <3>2. Lesser(h, x, p, Smaller(h, p, x))
      BY <3>1, SmallerIs
    <3> QED
      BY <2>1, <3>2 DEF Lesser
  <2>3. s # p => s > p
    BY <2>2
  <2> QED
    BY <2>1, <2>2, <2>3
<1> HIDE DEF S
<1>3. Descends(D, go, rank)
  BY <1>1, <1>2 DEF Descends
<1>4. \A path : Walk(path) <=> Gathers(path, D, go)
  <2>1. ASSUME NEW path, NEW p \in D
        PROVE  (IF S(p) = p THEN {p} ELSE {p} \cup path[S(p)])
                 = (IF p \in DOMAIN go THEN {p} \cup path[go[p]] ELSE {p})
    OBVIOUS
  <2> HIDE DEF go, C
  <2> QED
    BY <2>1 DEF Gathers, S
<1>5. Gathers(f, D, go)
  <2> HIDE DEF go, Walk
  <2>1. \E path : Walk(path)
    <3>1. \A p \in D : rank[p] < n
      BY <1>1
    <3> HIDE DEF D, n, rank
    <3> QED
      BY <1>1, <1>3, <1>4, <3>1, GatherExists
  <2>2. Walk(f)
    BY <2>1
  <2> QED
    BY <1>4, <2>2
<1>6. /\ 1 \in down /\ down \subseteq D
      /\ \A p \in down : p \in C => S(p) \in down
      /\ \A p \in down : p # 1 => \E y \in down : y \in C /\ S(y) = p
      /\ \E p \in down : p \notin C
  <2> HIDE DEF f, C
  <2>1. /\ 1 \in f[1] /\ f[1] \subseteq D
        /\ \A p \in f[1] : p \in DOMAIN go => go[p] \in f[1]
        /\ \A p \in f[1] : p # 1 => \E y \in f[1] : y \in DOMAIN go /\ go[y] = p
        /\ \E p \in f[1] : p \notin DOMAIN go
    <3> HIDE DEF rank, go
    <3> QED
      BY <1>1, <1>3, <1>5, GatherIs
  <2> QED
    BY <2>1
<1> HIDE DEF f, rank, go, down
<1>7. r \in Seq(Items) /\ Len(r) = n /\ DOMAIN r = 1 .. n
  <2>1. \A p \in 1 .. n : r[p] \in Items
    BY <1>1, <1>2
  <2>2. r \in [1 .. n -> Items]
    BY <2>1
  <2> HIDE DEF r
  <2> QED
    BY <1>1, <2>2
<1>8. ASSUME NEW p \in 2 .. n PROVE ~ Less(r[p], r[p \div 2])
  <2>1. PICK m \in D : m = p \div 2 /\ m < p /\ p \in {2 * m, 2 * m + 1}
    <3>1. p \div 2 \in Nat /\ p \div 2 >= 1 /\ p \div 2 < p /\ p \in {2 * (p \div 2), 2 * (p \div 2) + 1}
      BY Half
    <3> QED
      BY <1>1, <3>1
  <2>2. p \in D /\ h[p] \in Items /\ h[m] \in Items /\ ~ Less(h[p], h[m])
    BY <1>1, <2>1 DEF Ordered
  <2>3. p \in down <=> m \in down /\ S(m) = p
    <3>1. ASSUME p \in down PROVE m \in down /\ S(m) = p
      <4>1. PICK y \in down : y \in C /\ S(y) = p
        BY <1>6, <3>1
      <4>2. y \in D /\ S(y) # y
        BY <1>6, <4>1
      <4>3. y \in Nat /\ p \in {2 * y, 2 * y + 1}
        <5>1. S(y) \in {y, 2 * y, 2 * y + 1} /\ y \in Nat
          BY <1>2, <4>2
        <5> HIDE DEF C, D, r
        <5> QED
          BY <4>1, <4>2, <5>1
      <4>4. y = m
        BY <2>1, <4>3
      <4> QED
        BY <4>1, <4>4
    <3>2. ASSUME m \in down, S(m) = p PROVE p \in down
      BY <1>6, <2>1, <3>2
    <3> QED
      BY <3>1, <3>2
  <2>4. CASE m \notin down
    BY <2>1, <2>2, <2>3, <2>4
  <2>5. CASE m \in down /\ S(m) = m
    <3>1. r[p] = h[p] /\ r[m] = x
      BY <2>1, <2>2, <2>3, <2>5
    <3>2. ~ Less(h[p], x)
      BY <1>2, <2>1, <2>2, <2>5
    <3> QED
      BY <2>1, <3>1, <3>2
  <2>6. CASE m \in down /\ S(m) # m /\ S(m) # p
    <3>1. r[p] = h[p] /\ r[m] = h[S(m)]
      BY <2>1, <2>2, <2>3, <2>6
    <3>2. ~ Less(h[p], h[S(m)])
      <4>1. \A c \in {2 * m, 2 * m + 1} : c <= n => ~ Less(h[c], h[S(m)])
        BY <1>2, <2>6
      <4> HIDE DEF C
      <4> QED
        BY <2>1, <4>1
    <3> QED
      BY <2>1, <3>1, <3>2
  <2>7. CASE m \in down /\ S(m) = p
    <3>1. r[m] = h[p] /\ p \in down
      BY <2>1, <2>2, <2>3, <2>7
    <3>2. CASE S(p) = p
      <4>1. r[p] = x /\ Less(h[p], x)
        BY <1>2, <2>1, <2>2, <2>7, <3>1, <3>2
      <4> QED
        BY <2>1, <2>2, <3>1, <4>1, LessOrder
    <3>3. CASE S(p) # p
      <4>1. PICK s \in D : s = S(p) /\ s \in {2 * p, 2 * p + 1}
        BY <1>2, <2>2, <3>3
      <4>2. s \div 2 = p /\ s \in 2 .. n
        BY <2>1, <4>1
      <4>3. r[p] = h[s] /\ ~ Less(h[s], h[p])
        BY <2>2, <3>1, <3>3, <4>1, <4>2 DEF Ordered
      <4> QED
        BY <2>1, <3>1, <4>3
    <3> QED
      BY <3>2, <3>3
  <2> QED
    BY <2>4, <2>5, <2>6, <2>7
<1>9. Ordered(r)
  <2> HIDE DEF r
  <2> QED
    BY <1>7, <1>8 DEF Ordered
<1>10. ASSUME NEW p \in 1 .. n PROVE r[p] \in {h[c] : c \in 2 .. n} \cup {x}
  <2>1. CASE p \notin down
    BY <1>6, <2>1
  <2>2. CASE p \in down /\ S(p) # p
    <3>1. S(p) \in 2 .. n
      BY <1>1, <1>2, <2>2
    <3> QED
      BY <2>2, <3>1
  <2>3. CASE p \in down /\ S(p) = p
    BY <2>3
  <2> QED
    BY <2>1, <2>2, <2>3
<1>11. ASSUME NEW c \in 2 .. n PROVE \E p \in 1 .. n : r[p] = h[c]
  <2>1. CASE c \notin down
    BY <2>1
  <2>2. CASE c \in down
    <3>1. PICK y \in down : y \in C /\ S(y) = c
      BY <1>6, <2>2
    <3> QED
      BY <1>6, <3>1
  <2> QED
    BY <2>1, <2>2
<1>12. \E p \in 1 .. n : r[p] = x
  BY <1>6
<1>13. Range(r) = {h[c] : c \in 2 .. n} \cup {x}
  <2> HIDE DEF r
  <2> QED
    BY <1>7, <1>10, <1>11, <1>12 DEF Range
<1> QED
  BY <1>0, <1>7, <1>9, <1>13

(* An array the twin in use takes for a heap.                              *)
Heap(h) == h \in Seq(Items) /\ (twin = "js" => Ordered(h))

(* What a push adds to a heap.                                             *)
LEMMA PushIs ==
  ASSUME NEW h, Heap(h), NEW x \in Items
  PROVE  Heap(Push(h, x)) /\ Range(Push(h, x)) = Range(h) \cup {x}
<1>1. CASE twin = "js"
  BY <1>1, RisenIs DEF Push, Heap
<1>2. CASE twin # "js"
  <2>1. Push(h, x) = Append(h, x) /\ h \in Seq(Items)
    BY <1>2 DEF Push, Heap
  <2>2. Append(h, x) \in Seq(Items) /\ Range(Append(h, x)) = Range(h) \cup {x}
    BY <2>1 DEF Range
  <2> QED
    BY <1>2, <2>1, <2>2 DEF Heap
<1> QED
  BY <1>1, <1>2

(* A sequence without its last element.                                    *)
LEMMA FrontIs ==
  ASSUME NEW T, NEW s \in Seq(T), Len(s) > 1
  PROVE  /\ Front(s) \in Seq(T) /\ Len(Front(s)) = Len(s) - 1
         /\ \A m \in 1 .. Len(s) - 1 : Front(s)[m] = s[m]
<1>1. Len(s) \in Nat /\ Len(s) - 1 \in 0 .. Len(s)
  OBVIOUS
<1> QED
  BY <1>1 DEF Front

(* A sequence without its k-th element.                                    *)
LEMMA RemoveIs ==
  ASSUME NEW T, NEW s \in Seq(T), NEW k \in 1 .. Len(s)
  PROVE  /\ RemoveAt(s, k) \in Seq(T) /\ Len(RemoveAt(s, k)) = Len(s) - 1
         /\ \A m \in 1 .. Len(s) - 1 : RemoveAt(s, k)[m] = IF m < k THEN s[m] ELSE s[m + 1]
<1> DEFINE a == SubSeq(s, 1, k - 1)
           b == SubSeq(s, k + 1, Len(s))
<1>0. Len(s) \in Nat /\ k \in Nat /\ k >= 1 /\ k <= Len(s)
  OBVIOUS
<1>1. a \in Seq(T) /\ Len(a) = k - 1 /\ \A m \in 1 .. k - 1 : a[m] = s[m]
  OBVIOUS
<1>2. b \in Seq(T) /\ Len(b) = Len(s) - k /\ \A m \in 1 .. Len(s) - k : b[m] = s[k + m]
  OBVIOUS
<1>3. RemoveAt(s, k) = a \o b
  BY DEF RemoveAt
<1> HIDE DEF a, b
<1>4. ASSUME NEW m \in 1 .. Len(s) - 1 PROVE (a \o b)[m] = IF m < k THEN s[m] ELSE s[m + 1]
  <2>1. CASE m < k
    BY <1>1, <1>2, <2>1
  <2>2. CASE ~ (m < k)
    <3>1. (a \o b)[m] = b[m - (k - 1)] /\ m - (k - 1) \in 1 .. Len(s) - k
      BY <1>0, <1>1, <1>2, <2>2
    <3> QED
      BY <1>0, <1>2, <2>2, <3>1
  <2> QED
    BY <1>0, <2>1, <2>2
<1>5. (a \o b) \in Seq(T) /\ Len(a \o b) = Len(s) - 1
  <2>1. a \in Seq(T) /\ b \in Seq(T) /\ Len(a) + Len(b) = Len(s) - 1
    BY ONLY <1>0, <1>1, <1>2
  <2>2. (a \o b) \in Seq(T) /\ Len(a \o b) = Len(a) + Len(b)
    BY ONLY <2>1
  <2> QED
    BY ONLY <2>1, <2>2
<1> QED
  BY <1>3, <1>4, <1>5

(* A pop takes a least entry and leaves the others.                        *)
LEMMA PopIs ==
  ASSUME Heap(heap), heap # <<>>, NEW pop \in Popped
  PROVE  /\ pop.top \in Range(heap) /\ pop.top \in Items
         /\ \A x \in Range(heap) : ~ Less(x, pop.top)
         /\ Heap(pop.rest) /\ Range(pop.rest) \subseteq Range(heap)
         /\ Range(heap) \ {pop.top} \subseteq Range(pop.rest)
<1> DEFINE n == Len(heap)
<1>1. /\ heap \in Seq(Items) /\ n \in Nat /\ n >= 1 /\ DOMAIN heap = 1 .. n
      /\ \A p \in 1 .. n : heap[p] \in Items
  BY DEF Heap
<1>2. CASE twin = "js"
  <2> DEFINE rest == IF n = 1 THEN <<>> ELSE Sunk(Front(heap), Last(heap))
  <2>1. pop = [top |-> heap[1], rest |-> rest]
    BY <1>2 DEF Popped
  <2>2. Ordered(heap)
    BY <1>2 DEF Heap
  <2>3. \A x \in Range(heap) : ~ Less(x, heap[1])
    BY <1>1, <2>2, TopLeast DEF Range
  <2>4. rest \in Seq(Items) /\ Ordered(rest) /\ Range(rest) = {heap[p] : p \in 2 .. n}
    <3>1. CASE n = 1
      <4>1. rest = <<>>
        BY <3>1
      <4> QED
        BY <3>1, <4>1 DEF Ordered, Range
    <3>2. CASE n # 1
      <4> DEFINE h == Front(heap)
      <4>1. /\ h \in Seq(Items) /\ Len(h) = n - 1 /\ h # <<>>
            /\ \A p \in 1 .. n - 1 : h[p] = heap[p]
        <5>1. Len(heap) > 1
          BY <1>1, <3>2
        <5>2. /\ h \in Seq(Items) /\ Len(h) = n - 1
              /\ \A p \in 1 .. n - 1 : h[p] = heap[p]
          BY <1>1, <5>1, FrontIs
        <5> HIDE DEF h
        <5> QED
          BY <5>1, <5>2
      <4>2. Ordered(h)
        <5>1. \A p \in 2 .. n - 1 : p \div 2 \in 1 .. n - 1
          BY <1>1, Half
        <5> HIDE DEF h, n
        <5>2. \A p \in 2 .. n - 1 : h[p] = heap[p] /\ h[p \div 2] = heap[p \div 2]
          BY <1>1, <4>1, <5>1
        <5> QED
          BY <1>1, <2>2, <4>1, <5>2 DEF Ordered, n
      <4>3. Last(heap) = heap[n] /\ heap[n] \in Items
        BY <1>1 DEF Last
      <4> HIDE DEF h
      <4>4. /\ Sunk(h, heap[n]) \in Seq(Items) /\ Ordered(Sunk(h, heap[n]))
            /\ Range(Sunk(h, heap[n])) = {h[p] : p \in 2 .. Len(h)} \cup {heap[n]}
        BY <4>1, <4>2, <4>3, SunkIs
      <4>5. {h[p] : p \in 2 .. Len(h)} \cup {heap[n]} = {heap[p] : p \in 2 .. n}
        BY <1>1, <3>2, <4>1
      <4> QED
        BY <3>2, <4>3, <4>4, <4>5 DEF h
    <3> QED
      BY <3>1, <3>2
  <2> HIDE DEF rest
  <2>5. pop.top = heap[1] /\ pop.rest = rest
    BY <2>1
  <2>6. pop.top \in Range(heap) /\ pop.top \in Items /\ Heap(pop.rest)
    BY <1>1, <2>4, <2>5 DEF Heap, Range
  <2>7. Range(heap) = {heap[p] : p \in 1 .. n}
    BY <1>1 DEF Range
  <2>8. /\ {heap[p] : p \in 2 .. n} \subseteq {heap[p] : p \in 1 .. n}
        /\ {heap[p] : p \in 1 .. n} \ {heap[1]} \subseteq {heap[p] : p \in 2 .. n}
    BY <1>1
  <2> QED
    BY <2>3, <2>4, <2>5, <2>6, <2>7, <2>8
<1>3. CASE twin # "js"
  <2>1. PICK k \in DOMAIN heap : /\ \A m \in DOMAIN heap : ~ Less(heap[m], heap[k])
                                 /\ pop = [top |-> heap[k], rest |-> RemoveAt(heap, k)]
    BY <1>3 DEF Popped
  <2> DEFINE rest == RemoveAt(heap, k)
  <2>2. /\ rest \in Seq(Items) /\ Len(rest) = n - 1
        /\ \A m \in 1 .. n - 1 : rest[m] = IF m < k THEN heap[m] ELSE heap[m + 1]
    BY <1>1, RemoveIs
  <2> HIDE DEF rest
  <2>3. Range(rest) \subseteq Range(heap)
    BY <1>1, <2>2 DEF Range
  <2>4. ASSUME NEW m \in DOMAIN heap, m # k PROVE heap[m] \in Range(rest)
    <3>1. CASE m < k
      <4>1. m \in 1 .. n - 1 /\ rest[m] = heap[m] /\ DOMAIN rest = 1 .. n - 1
        BY <1>1, <2>2, <3>1
      <4> QED
        BY <4>1 DEF Range
    <3>2. CASE m > k
      <4>1. m - 1 \in 1 .. n - 1 /\ rest[m - 1] = heap[m] /\ DOMAIN rest = 1 .. n - 1
        BY <1>1, <2>2, <3>2
      <4> QED
        BY <4>1 DEF Range
    <3> QED
      BY <1>1, <2>4, <3>1, <3>2
  <2>5. pop.top = heap[k] /\ pop.rest = rest
    BY <2>1 DEF rest
  <2> QED
    <3>1. pop.top \in Range(heap) /\ pop.top \in Items /\ Heap(pop.rest)
      BY <1>1, <1>3, <2>1, <2>2, <2>5 DEF Heap, Range
    <3>2. \A x \in Range(heap) : ~ Less(x, pop.top)
      BY <2>1, <2>5 DEF Range
    <3>3. Range(heap) \ {pop.top} \subseteq Range(pop.rest)
      BY <2>4, <2>5 DEF Range
    <3> QED
      BY <2>3, <2>5, <3>1, <3>2, <3>3
<1> QED
  BY <1>2, <1>3

-----------------------------------------------------------------------------
(* Pushing a sequence of pairs.                                            *)

(* The pair p of places of the list s has a score.                         *)
Scores(s, live, p) ==
  /\ p[1] # -1 /\ p[2] # -1
  /\ live[p[1]] /\ live[p[2]]
  /\ Pairs(s[p[1]], s[p[2]])

(* The heap g after the pair p has been looked at.                         *)
After(g, s, live, p) == IF Scores(s, live, p) THEN Push(g, Entry(s, p[1], p[2])) ELSE g

(* f holds the heap for each set of the pairs pushed so far.               *)
Pushes(f, h, s, live, pairs) ==
  f = [c \in SUBSET DOMAIN pairs |->
         IF c = {} THEN h ELSE After(f[c \ {Max(c)}], s, live, pairs[Max(c)])]

(* A fold as its definition by recursion gives it.                         *)
LEMMA PushedIsChoice ==
  ASSUME NEW h, NEW s, NEW live, NEW pairs
  PROVE  Pushed(h, s, live, pairs) = (CHOOSE f : Pushes(f, h, s, live, pairs))[DOMAIN pairs]
BY DEF Pushed, FoldLeft, MapThenFoldSet, Pushes, After, Scores

(* The greatest of some numbers up to n.                                   *)
LEMMA MaxIs ==
  ASSUME NEW n \in Nat, NEW c \in SUBSET (1 .. n), c # {}
  PROVE  Max(c) \in c /\ \A x \in c : x <= Max(c)
<1> DEFINE T == {n - x : x \in c}
<1>0. \A x \in c : x \in Nat /\ x <= n
  OBVIOUS
<1>1. T \subseteq Nat /\ T # {}
  <2>1. \A x \in c : n - x \in Nat
    BY <1>0
  <2>2. PICK x \in c : TRUE
    OBVIOUS
  <2>3. n - x \in T
    OBVIOUS
  <2> QED
    BY <2>1, <2>3
<1>2. PICK m \in T : \A k \in T : ~ (k < m)
  <2> HIDE DEF T
  <2> QED
    BY <1>1, NatLeast
<1>3. PICK x \in c : m = n - x
  OBVIOUS
<1>4. \A y \in c : x >= y
  <2> TAKE y \in c
  <2>1. n - y \in T
    OBVIOUS
  <2>2. ~ (n - y < m)
    BY <1>2, <2>1
  <2> QED
    BY <1>0, <1>3, <2>2
<1>5. \E z \in c : \A y \in c : z >= y
  BY <1>4
<1>6. Max(c) \in c /\ \A y \in c : Max(c) >= y
  BY <1>5 DEF Max
<1> QED
  BY <1>6

(* The recursion has a solution, by induction on the greatest pair pushed. *)
LEMMA PushesExist ==
  ASSUME NEW h, NEW s, NEW live, NEW n \in Nat, NEW pairs, DOMAIN pairs = 1 .. n
  PROVE  \E f : Pushes(f, h, s, live, pairs)
<1> DEFINE D == SUBSET (1 .. n)
           Body(f, c) == IF c = {} THEN h ELSE After(f[c \ {Max(c)}], s, live, pairs[Max(c)])
           Low(c, k) == \A x \in c : x < k
           K == {k \in Nat : \E f : DOMAIN f = D /\ \A c \in D : Low(c, k) => f[c] = Body(f, c)}
<1>1. ASSUME NEW c \in D, c # {}
      PROVE  c \ {Max(c)} \in D /\ \A k \in Nat : Low(c, k + 1) => Low(c \ {Max(c)}, k)
  <2>1. /\ Max(c) \in c /\ \A x \in c : x <= Max(c)
        /\ \A x \in c : x \in Nat
    <3>1. c \in SUBSET (1 .. n)
      OBVIOUS
    <3>2. Max(c) \in c /\ \A x \in c : x <= Max(c)
      BY <1>1, <3>1, MaxIs
    <3> QED
      BY <3>1, <3>2
  <2>2. ASSUME NEW k \in Nat, Low(c, k + 1), NEW x \in c \ {Max(c)} PROVE x < k
    <3>1. x < k + 1 /\ Max(c) < k + 1
      BY <2>1, <2>2
    <3>2. x \in Nat /\ Max(c) \in Nat /\ x <= Max(c) /\ x # Max(c)
      BY <2>1
    <3> QED
      BY <3>1, <3>2
  <2> QED
    BY <2>2
<1>2. 0 \in K
  <2> DEFINE f == [c \in D |-> h]
  <2>1. DOMAIN f = D /\ \A c \in D : Low(c, 0) => f[c] = Body(f, c)
    OBVIOUS
  <2> HIDE DEF f, Body
  <2> QED
    BY <2>1
<1> HIDE DEF Low
<1>3. ASSUME NEW k \in Nat, k \in K PROVE k + 1 \in K
  <2>1. PICK f : DOMAIN f = D /\ \A c \in D : Low(c, k) => f[c] = Body(f, c)
    BY <1>3
  <2> DEFINE g == [c \in D |-> Body(f, c)]
  <2>2. ASSUME NEW c \in D, Low(c, k + 1) PROVE g[c] = Body(g, c)
    <3>1. CASE c = {}
      BY <3>1
    <3>2. CASE c # {}
      <4>1. c \ {Max(c)} \in D /\ Low(c \ {Max(c)}, k)
        BY <1>1, <2>2, <3>2
      <4>2. g[c \ {Max(c)}] = f[c \ {Max(c)}]
        BY <2>1, <4>1
      <4> QED
        BY <3>2, <4>2
    <3> QED
      BY <3>1, <3>2
  <2>3. DOMAIN g = D /\ \A c \in D : Low(c, k + 1) => g[c] = Body(g, c)
    BY <2>2
  <2> HIDE DEF g, Body, D
  <2> QED
    BY <2>3
<1> HIDE DEF K
<1>4. n + 1 \in K
  BY <1>2, <1>3, NatInd
<1>5. PICK f : DOMAIN f = D /\ \A c \in D : Low(c, n + 1) => f[c] = Body(f, c)
  BY <1>4 DEF K
<1> DEFINE g == [c \in D |-> Body(f, c)]
<1>6. \A c \in D : g[c] = f[c]
  <2>1. \A c \in D : Low(c, n + 1)
    BY DEF Low
  <2> HIDE DEF Body
  <2> QED
    BY <1>5, <2>1
<1>7. ASSUME NEW c \in D PROVE g[c] = Body(g, c)
  <2>1. CASE c = {}
    BY <2>1
  <2>2. CASE c # {}
    <3>1. g[c \ {Max(c)}] = f[c \ {Max(c)}]
      BY <1>1, <1>6, <2>2
    <3> QED
      BY <2>2, <3>1
  <2> QED
    BY <2>1, <2>2
<1>8. Pushes(g, h, s, live, pairs)
  BY <1>7 DEF Pushes
<1> QED
  BY <1>8

(* The heap g holds what h held and the entries of the first n pairs.      *)
Gains(g, h, s, live, n, pairs) ==
  /\ Heap(g)
  /\ \A x : x \in Range(g) <=>
       \/ x \in Range(h)
       \/ \E k \in 1 .. n : /\ Scores(s, live, pairs[k])
                           /\ x = Entry(s, pairs[k][1], pairs[k][2])

(* A heap with pairs pushed holds what it held and their entries.          *)
LEMMA PushedIs ==
  ASSUME NEW h, Heap(h), NEW s, NEW live, NEW n \in Nat, NEW pairs, DOMAIN pairs = 1 .. n,
         \A k \in 1 .. n : Scores(s, live, pairs[k]) => Entry(s, pairs[k][1], pairs[k][2]) \in Items
  PROVE  Gains(Pushed(h, s, live, pairs), h, s, live, n, pairs)
<1> DEFINE f == CHOOSE f : Pushes(f, h, s, live, pairs)
           New(k) == {Entry(s, pairs[m][1], pairs[m][2]) : m \in {m \in 1 .. k : Scores(s, live, pairs[m])}}
           K == {k \in Nat : k <= n => Heap(f[1 .. k]) /\ Range(f[1 .. k]) = Range(h) \cup New(k)}
<1>1. Pushes(f, h, s, live, pairs)
  BY PushesExist
<1>2. Pushed(h, s, live, pairs) = f[1 .. n]
  BY PushedIsChoice
<1> HIDE DEF f
<1>3. 0 \in K
  <2>1. 1 .. 0 = {} /\ New(0) = {}
    OBVIOUS
  <2>2. f[{}] = h
    BY <1>1 DEF Pushes
  <2> QED
    BY <2>1, <2>2
<1>4. ASSUME NEW k \in Nat, k \in K PROVE k + 1 \in K
  <2> SUFFICES ASSUME k + 1 <= n
               PROVE  Heap(f[1 .. k + 1]) /\ Range(f[1 .. k + 1]) = Range(h) \cup New(k + 1)
    OBVIOUS
  <2> DEFINE c == 1 .. k + 1
             p == pairs[k + 1]
  <2>1. Heap(f[1 .. k]) /\ Range(f[1 .. k]) = Range(h) \cup New(k)
    BY <1>4
  <2>2. c \in SUBSET DOMAIN pairs /\ c # {} /\ Max(c) = k + 1 /\ c \ {Max(c)} = 1 .. k
    <3>1. /\ c \in SUBSET (1 .. n) /\ c # {} /\ k + 1 \in c
          /\ \A x \in c : x \in Nat /\ x <= k + 1
          /\ c \ {k + 1} = 1 .. k
      OBVIOUS
    <3> HIDE DEF c
    <3>2. Max(c) \in c /\ k + 1 <= Max(c)
      BY <3>1, MaxIs
    <3>3. Max(c) = k + 1
      BY <3>1, <3>2
    <3> QED
      BY <3>1, <3>3
  <2>3. f[c] = After(f[1 .. k], s, live, p)
    <3> HIDE DEF c
    <3> QED
      BY <1>1, <2>2 DEF Pushes
  <2>4. CASE Scores(s, live, p)
    <3>1. New(k + 1) = New(k) \cup {Entry(s, p[1], p[2])}
      BY <2>4
    <3>2. Entry(s, p[1], p[2]) \in Items
      BY <2>4
    <3>3. f[c] = Push(f[1 .. k], Entry(s, p[1], p[2]))
      BY <2>3, <2>4 DEF After
    <3> HIDE DEF New
    <3> QED
      BY <2>1, <3>1, <3>2, <3>3, PushIs
  <2>5. CASE ~ Scores(s, live, p)
    <3>1. New(k + 1) = New(k)
      BY <2>5
    <3>2. f[c] = f[1 .. k]
      BY <2>3, <2>5 DEF After
    <3> HIDE DEF New
    <3> QED
      BY <2>1, <3>1, <3>2
  <2> QED
    BY <2>4, <2>5
<1> HIDE DEF K
<1>5. n \in K
  BY <1>3, <1>4, NatInd
<1>6. Heap(f[1 .. n]) /\ Range(f[1 .. n]) = Range(h) \cup New(n)
  BY <1>5 DEF K
<1>7. \A x : x \in New(n) <=> \E k \in 1 .. n : /\ Scores(s, live, pairs[k])
                                             /\ x = Entry(s, pairs[k][1], pairs[k][2])
  OBVIOUS
<1> HIDE DEF New
<1> QED
  BY <1>2, <1>6, <1>7 DEF Gains

-----------------------------------------------------------------------------
(* Texts and lists.                                                        *)

(* Two sequences joined are empty only if both are.                        *)
LEMMA JoinedIs ==
  ASSUME NEW T, NEW a \in Seq(T), NEW b \in Seq(T)
  PROVE  a \o b \in Seq(T) /\ (a # <<>> \/ b # <<>> => a \o b # <<>>)
<1>1. a \o b \in Seq(T) /\ Len(a \o b) = Len(a) + Len(b)
  OBVIOUS
<1>2. Len(a) \in Nat /\ Len(b) \in Nat /\ (a # <<>> => Len(a) # 0) /\ (b # <<>> => Len(b) # 0)
  OBVIOUS
<1>3. a # <<>> \/ b # <<>> => Len(a \o b) # 0
  BY <1>1, <1>2
<1> QED
  BY <1>1, <1>3

(* Two sequences joined start as the first does.                           *)
LEMMA FirstIs ==
  ASSUME NEW T, NEW a \in Seq(T), NEW b \in Seq(T), a # <<>>
  PROVE  (a \o b)[1] = a[1]
<1>1. Len(a) \in Nat /\ Len(b) \in Nat /\ Len(a) # 0
  OBVIOUS
<1>2. 1 <= Len(a) /\ 1 \in 1 .. Len(a) + Len(b)
  BY <1>1
<1> QED
  BY <1>2

(* Sequences flattened are a sequence, empty only if they all are.         *)
LEMMA FlattenIs ==
  ASSUME NEW T, NEW ss \in Seq(Seq(T))
  PROVE  /\ FlattenSeq(ss) \in Seq(T)
         /\ (\E k \in DOMAIN ss : ss[k] # <<>>) => FlattenSeq(ss) # <<>>
<1> DEFINE n == Len(ss)
           D == 1 .. n
           Body(f, i) == IF i = 1 THEN ss[i] ELSE f[i - 1] \o ss[i]
           Walk(f) == f = [i \in 1 .. Len(ss) |-> IF i = 1 THEN ss[i] ELSE f[i - 1] \o ss[i]]
           K == {k \in Nat : \E f : DOMAIN f = D /\ \A i \in D : i <= k => f[i] = Body(f, i)}
<1>1. n \in Nat /\ DOMAIN ss = D /\ \A i \in D : ss[i] \in Seq(T)
  OBVIOUS
<1>2. CASE n = 0
  <2>1. FlattenSeq(ss) = ss /\ ss \in Seq(T)
    BY <1>2 DEF FlattenSeq
  <2> QED
    BY <1>1, <1>2, <2>1
<1>3. CASE n # 0
  <2>1. 0 \in K
    <3> DEFINE f == [i \in D |-> <<>>]
    <3>1. DOMAIN f = D /\ \A i \in D : i <= 0 => f[i] = Body(f, i)
      <4>1. \A i \in D : ~ (i <= 0)
        OBVIOUS
      <4> HIDE DEF D, Body
      <4> QED
        BY <4>1
    <3> HIDE DEF f, Body, D
    <3> QED
      BY <3>1
  <2>2. ASSUME NEW k \in Nat, k \in K PROVE k + 1 \in K
    <3>1. PICK f : DOMAIN f = D /\ \A i \in D : i <= k => f[i] = Body(f, i)
      BY <2>2
    <3> DEFINE g == [i \in D |-> Body(f, i)]
    <3>2. DOMAIN g = D /\ \A i \in D : i <= k + 1 => g[i] = Body(g, i)
      <4> SUFFICES ASSUME NEW i \in D, i <= k + 1, i # 1 PROVE g[i - 1] = f[i - 1]
        OBVIOUS
      <4>1. i - 1 \in D /\ i - 1 <= k
        OBVIOUS
      <4> QED
        BY <3>1, <4>1
    <3> HIDE DEF g, Body, D
    <3> QED
      BY <3>2
  <2> HIDE DEF K
  <2>3. n \in K
    BY <1>1, <2>1, <2>2, NatInd
  <2>4. PICK f : DOMAIN f = D /\ \A i \in D : i <= n => f[i] = Body(f, i)
    BY <2>3 DEF K
  <2>5. \E g : Walk(g)
    <3> DEFINE g == [i \in D |-> Body(f, i)]
    <3>1. \A i \in D : g[i] = f[i]
      <4>1. \A i \in D : i <= n
        BY <1>1
      <4> HIDE DEF Body, D
      <4> QED
        BY <2>4, <4>1
    <3>2. ASSUME NEW i \in D PROVE g[i] = Body(g, i)
      <4>1. CASE i = 1
        BY <4>1
      <4>2. CASE i # 1
        <5>1. i - 1 \in D
          BY <4>2
        <5> QED
          BY <3>1, <4>2, <5>1
      <4> QED
        BY <4>1, <4>2
    <3>3. Walk(g)
      BY <3>2
    <3> QED
      BY <3>3
  <2> DEFINE w == CHOOSE w : Walk(w)
  <2>6. Walk(w)
    BY <2>5
  <2>7. FlattenSeq(ss) = w[n]
    BY <1>3 DEF FlattenSeq
  <2> HIDE DEF w
  <2>8. \A i \in D : w[i] = IF i = 1 THEN ss[i] ELSE w[i - 1] \o ss[i]
    BY <2>6
  <2> DEFINE Good(i) == w[i] \in Seq(T) /\ ((\E k \in 1 .. i : ss[k] # <<>>) => w[i] # <<>>)
             G == {i \in Nat : i + 1 \in D => Good(i + 1)}
  <2>9. 0 \in G
    BY <1>1, <2>8
  <2>10. ASSUME NEW i \in Nat, i \in G PROVE i + 1 \in G
    <3> SUFFICES ASSUME i + 1 + 1 \in D PROVE Good(i + 1 + 1)
      OBVIOUS
    <3>1. i + 1 \in D
      BY <1>1
    <3>2. Good(i + 1)
      BY <2>10, <3>1
    <3>3. w[i + 1 + 1] = w[i + 1] \o ss[i + 1 + 1]
      <4> DEFINE j == i + 1 + 1
      <4>1. j # 1 /\ j - 1 = i + 1 /\ j \in D
        OBVIOUS
      <4> HIDE DEF D, j
      <4>2. w[j] = w[i + 1] \o ss[j]
        BY <2>8, <4>1
      <4> QED
        BY <4>2 DEF j
    <3>4. ss[i + 1 + 1] \in Seq(T) /\ w[i + 1] \in Seq(T)
      BY <1>1, <3>2
    <3>5. w[i + 1 + 1] \in Seq(T)
      BY <3>3, <3>4, JoinedIs
    <3>6. ASSUME NEW k \in 1 .. i + 1 + 1, ss[k] # <<>> PROVE w[i + 1 + 1] # <<>>
      <4>1. CASE k \in 1 .. i + 1
        <5>1. w[i + 1] # <<>>
          BY <3>2, <3>6, <4>1
        <5> QED
          BY <3>3, <3>4, <5>1, JoinedIs
      <4>2. CASE k = i + 1 + 1
        BY <3>3, <3>4, <3>6, <4>2, JoinedIs
      <4> QED
        BY <4>1, <4>2
    <3> QED
      BY <3>5, <3>6
  <2>11. n - 1 \in G
    <3>1. n - 1 \in Nat
      BY <1>1, <1>3
    <3> HIDE DEF G, n
    <3> QED
      BY <2>9, <2>10, <3>1, NatInd
  <2>12. Good(n)
    <3>1. n - 1 + 1 = n /\ n \in D
      BY <1>1, <1>3
    <3> QED
      BY <2>11, <3>1
  <2> QED
    BY <1>1, <2>7, <2>12
<1> QED
  BY <1>2, <1>3

(* A text is cut into characters and bytes, and into some unless it is all *)
(* blank.                                                                  *)
LEMMA SymbolsAre ==
  ASSUME NEW text \in Seq(Letters \cup {Blank} \cup DOMAIN Utf8)
  PROVE  /\ Symbols(text) \in Seq(Char)
         /\ (\E k \in DOMAIN text : text[k] # Blank) => Symbols(text) # <<>>
<1> DEFINE first(k) == IF k = 1 THEN <<Space>> ELSE IF text[k - 1] = Blank THEN <<Space>> ELSE <<>>
           own(k) == IF text[k] \in Letters THEN <<text[k]>> ELSE Utf8[text[k]]
           ss == [k \in DOMAIN text |-> IF text[k] = Blank THEN <<>> ELSE first(k) \o own(k)]
<1>1. Symbols(text) = FlattenSeq(ss)
  BY DEF Symbols
<1>2. ASSUME NEW k \in DOMAIN text
      PROVE  ss[k] \in Seq(Char) /\ (text[k] # Blank => ss[k] # <<>>)
  <2>1. first(k) \in Seq(Char)
    <3>1. <<Space>> \in Seq(Char) /\ <<>> \in Seq(Char)
      BY BpeAssumption DEF Char
    <3> QED
      BY <3>1
  <2>2. CASE text[k] = Blank
    BY <2>2
  <2>3. CASE text[k] # Blank
    <3>1. own(k) \in Seq(Char) /\ own(k) # <<>>
      <4>1. CASE text[k] \in Letters
        BY <4>1 DEF Char
      <4>2. CASE text[k] \notin Letters
        <5>1. text[k] \in DOMAIN Utf8
          BY <2>3, <4>2
        <5>2. Utf8[text[k]] \in Seq(Range(Utf8[text[k]])) /\ Utf8[text[k]] # <<>>
          BY <5>1, BpeAssumption
        <5>3. Range(Utf8[text[k]]) \subseteq Char
          BY <5>1 DEF Bytes, Char
        <5>4. Utf8[text[k]] \in Seq(Char)
          BY <5>2, <5>3
        <5> QED
          BY <4>2, <5>2, <5>4
      <4> QED
        BY <4>1, <4>2
    <3>2. ss[k] = first(k) \o own(k)
      BY <2>3
    <3> HIDE DEF first, own, ss
    <3> QED
      BY <2>1, <3>1, <3>2, JoinedIs
  <2> QED
    BY <2>2, <2>3
<1>3. ss \in Seq(Seq(Char))
  <2>1. ss \in [1 .. Len(text) -> Seq(Char)] /\ Len(text) \in Nat
    BY <1>2
  <2> HIDE DEF ss
  <2> QED
    BY <2>1
<1>4. DOMAIN ss = DOMAIN text
  OBVIOUS
<1> HIDE DEF ss
<1> QED
  BY <1>1, <1>2, <1>3, <1>4, FlattenIs

-----------------------------------------------------------------------------
(* The linked list.                                                        *)

(* The n places are linked: e lists those in use from left to right.  A    *)
(* place not in use still leads to the right.                              *)
Linked(n, e, s, pr, nx, al) ==
  /\ e \in Seq(0 .. n - 1) /\ (n > 0 => Len(e) > 0 /\ e[1] = 0)
  /\ s \in [0 .. n - 1 -> Seq(Char) \ {<<>>}]
  /\ DOMAIN pr = 0 .. n - 1 /\ DOMAIN nx = 0 .. n - 1 /\ al \in [0 .. n - 1 -> BOOLEAN]
  /\ \A i \in 0 .. n - 1 : nx[i] = -1 \/ nx[i] \in i + 1 .. n - 1
  /\ \A k \in 1 .. Len(e) : /\ al[e[k]]
                            /\ nx[e[k]] = (IF k < Len(e) THEN e[k + 1] ELSE -1)
                            /\ pr[e[k]] = (IF k > 1 THEN e[k - 1] ELSE -1)
  /\ \A k, l \in 1 .. Len(e) : k < l => e[k] < e[l]
  /\ \A i \in 0 .. n - 1 : al[i] => \E k \in 1 .. Len(e) : e[k] = i

(* Pieces, of any list.                                                    *)
Along(s, nx) ==
  LET from[i \in -1 .. Cardinality(DOMAIN nx)] ==
        IF i \notin DOMAIN nx THEN <<>> ELSE <<s[i]>> \o from[nx[i]]
  IN  from[0]

Follows(f, n, s, nx) ==
  f = [i \in -1 .. n |-> IF i \notin 0 .. n - 1 THEN <<>> ELSE <<s[i]>> \o f[nx[i]]]

(* Following nxt ends, because it leads to the right.                      *)
LEMMA FollowsExists ==
  ASSUME NEW n \in Nat, NEW s, NEW nx,
         \A i \in 0 .. n - 1 : nx[i] = -1 \/ nx[i] \in i + 1 .. n - 1
  PROVE  \E f : Follows(f, n, s, nx)
<1> DEFINE D == -1 .. n
           Body(f, i) == IF i \notin 0 .. n - 1 THEN <<>> ELSE <<s[i]>> \o f[nx[i]]
           Near(i, k) == i \in 0 .. n - 1 => n - i <= k
           K == {k \in Nat : \E f : DOMAIN f = D /\ \A i \in D : Near(i, k) => f[i] = Body(f, i)}
<1>1. ASSUME NEW i \in 0 .. n - 1
      PROVE  i \in D /\ nx[i] \in D /\ \A k \in Nat : Near(i, k + 1) => Near(nx[i], k)
  <2>1. CASE nx[i] = -1
    BY <2>1
  <2>2. CASE nx[i] \in i + 1 .. n - 1
    BY <2>2
  <2> QED
    BY <2>1, <2>2
<1>2. 0 \in K
  <2> DEFINE f == [i \in D |-> <<>>]
  <2>1. \A i \in D : Near(i, 0) => i \notin 0 .. n - 1
    OBVIOUS
  <2>2. DOMAIN f = D /\ \A i \in D : Near(i, 0) => f[i] = Body(f, i)
    <3> HIDE DEF D, Near
    <3> QED
      BY <2>1
  <2> HIDE DEF f, Body, D, Near
  <2> QED
    BY <2>2
<1>3. ASSUME NEW k \in Nat, k \in K PROVE k + 1 \in K
  <2>1. PICK f : DOMAIN f = D /\ \A i \in D : Near(i, k) => f[i] = Body(f, i)
    BY <1>3
  <2> DEFINE g == [i \in D |-> Body(f, i)]
  <2>2. ASSUME NEW i \in D, Near(i, k + 1) PROVE g[i] = Body(g, i)
    <3>1. CASE i \in 0 .. n - 1
      <4>1. nx[i] \in D /\ Near(nx[i], k)
        BY <1>1, <2>2, <3>1
      <4> HIDE DEF Near, D
      <4>2. g[nx[i]] = f[nx[i]]
        BY <2>1, <4>1
      <4> QED
        BY <3>1, <4>2
    <3>2. CASE i \notin 0 .. n - 1
      BY <3>2
    <3> QED
      BY <3>1, <3>2
  <2>3. DOMAIN g = D /\ \A i \in D : Near(i, k + 1) => g[i] = Body(g, i)
    BY <2>2
  <2> HIDE DEF g, Body, D, Near
  <2> QED
    BY <2>3
<1> HIDE DEF K
<1>4. n \in K
  BY <1>2, <1>3, NatInd
<1>5. PICK f : DOMAIN f = D /\ \A i \in D : Near(i, n) => f[i] = Body(f, i)
  BY <1>4 DEF K
<1> DEFINE g == [i \in D |-> Body(f, i)]
<1>6. \A i \in D : g[i] = f[i]
  <2>1. \A i \in D : Near(i, n)
    OBVIOUS
  <2> HIDE DEF Near, Body, D
  <2> QED
    BY <1>5, <2>1
<1>7. ASSUME NEW i \in D PROVE g[i] = Body(g, i)
  <2>1. CASE i \in 0 .. n - 1
    <3>1. nx[i] \in D
      BY <1>1, <2>1
    <3> HIDE DEF D, Near
    <3>2. g[nx[i]] = f[nx[i]]
      BY <1>6, <3>1
    <3> QED
      BY <2>1, <3>2
  <2>2. CASE i \notin 0 .. n - 1
    BY <2>2
  <2> QED
    BY <2>1, <2>2
<1>8. Follows(g, n, s, nx)
  BY <1>7 DEF Follows
<1> QED
  BY <1>8

(* A sequence with one more element in front.                              *)
LEMMA PrependedIs ==
  ASSUME NEW T, NEW x \in T, NEW r \in Seq(T)
  PROVE  /\ <<x>> \o r \in Seq(T) /\ Len(<<x>> \o r) = Len(r) + 1
         /\ (<<x>> \o r)[1] = x /\ \A l \in 1 .. Len(r) : (<<x>> \o r)[l + 1] = r[l]
<1>1. <<x>> \in Seq(T) /\ Len(<<x>>) = 1 /\ <<x>>[1] = x
  OBVIOUS
<1>2. <<x>> \o r \in Seq(T) /\ Len(<<x>> \o r) = Len(r) + 1
  BY <1>1
<1>3. (<<x>> \o r)[1] = x
  BY <1>1
<1>4. ASSUME NEW l \in 1 .. Len(r) PROVE (<<x>> \o r)[l + 1] = r[l]
  BY <1>1
<1> QED
  BY ONLY <1>2, <1>3, <1>4

(* What is found along nxt are the pieces of the places in use, in order.  *)
LEMMA AlongIs ==
  ASSUME NEW n \in Nat, NEW e, NEW s, NEW pr, NEW nx, NEW al, Linked(n, e, s, pr, nx, al)
  PROVE  Along(s, nx) = [k \in 1 .. Len(e) |-> s[e[k]]]
<1> DEFINE Walk(f) == f = [i \in -1 .. Cardinality(DOMAIN nx) |->
                             IF i \notin DOMAIN nx THEN <<>> ELSE <<s[i]>> \o f[nx[i]]]
           w == CHOOSE f : Walk(f)
           N == Len(e)
<1>1. DOMAIN nx = 0 .. n - 1 /\ e \in Seq(0 .. n - 1) /\ N \in Nat
  BY DEF Linked
<1>2. Cardinality(DOMAIN nx) = n
  <2>1. Cardinality(0 .. n - 1) = IF 0 > n - 1 THEN 0 ELSE n - 1 - 0 + 1
    BY FS_Interval
  <2> QED
    BY <1>1, <2>1
<1>3. \A f : Walk(f) <=> Follows(f, n, s, nx)
  BY <1>1, <1>2 DEF Follows
<1>4. Follows(w, n, s, nx)
  <2>1. \E f : Follows(f, n, s, nx)
    BY FollowsExists DEF Linked
  <2> HIDE DEF Walk
  <2>2. Walk(w)
    BY <1>3, <2>1
  <2> QED
    BY <1>3, <2>2
<1>5. Along(s, nx) = w[0]
  BY DEF Along
<1> HIDE DEF w, Walk
<1>6. CASE n = 0
  <2>1. N = 0 /\ w[0] = <<>>
    BY <1>1, <1>4, <1>6 DEF Follows
  <2> QED
    BY <1>5, <2>1
<1>7. CASE n # 0
  <2> DEFINE Rest(m) == [l \in 1 .. m |-> s[e[N - m + l]]]
             K == {m \in Nat : m + 1 <= N => w[e[N - m]] = Rest(m + 1)}
  <2>1. \A k \in 1 .. N : /\ e[k] \in 0 .. n - 1
                          /\ w[e[k]] = <<s[e[k]]>> \o w[IF k < N THEN e[k + 1] ELSE -1]
    <3> TAKE k \in 1 .. N
    <3>1. e[k] \in 0 .. n - 1 /\ e[k] \in -1 .. n
      BY <1>1
    <3>2. w[e[k]] = <<s[e[k]]>> \o w[nx[e[k]]]
      BY <1>4, <3>1 DEF Follows
    <3>3. nx[e[k]] = IF k < N THEN e[k + 1] ELSE -1
      BY DEF Linked
    <3> QED
      BY <3>1, <3>2, <3>3
  <2>2. w[-1] = <<>>
    BY <1>4 DEF Follows
  <2>3. 0 \in K
    <3> SUFFICES ASSUME 1 <= N PROVE w[e[N]] = Rest(1)
      BY <1>1
    <3>1. N \in 1 .. N /\ ~ (N < N)
      BY <1>1
    <3>2. w[e[N]] = <<s[e[N]]>> \o <<>>
      BY <2>1, <2>2, <3>1
    <3>3. Rest(1) = <<s[e[N]]>>
      BY <1>1
    <3> QED
      BY <3>2, <3>3
  <2>4. ASSUME NEW m \in Nat, m \in K PROVE m + 1 \in K
    <3> SUFFICES ASSUME m + 1 + 1 <= N PROVE w[e[N - (m + 1)]] = Rest(m + 1 + 1)
      OBVIOUS
    <3> DEFINE k == N - (m + 1)
    <3>1. k \in 1 .. N /\ k < N /\ k + 1 = N - m /\ m + 1 <= N
      BY <1>1
    <3>2. w[e[k]] = <<s[e[k]]>> \o Rest(m + 1)
      BY <2>1, <2>4, <3>1
    <3>3. <<s[e[k]]>> \o Rest(m + 1) = Rest(m + 1 + 1)
      <4> DEFINE T == Seq(Char) \ {<<>>}
                 r == Rest(m + 1)
                 t == <<s[e[k]]>> \o r
                 u == Rest(m + 1 + 1)
      <4>1. \A i \in 1 .. N : s[e[i]] \in T
        BY <2>1 DEF Linked
      <4>2. /\ \A l \in 1 .. m + 1 : N - (m + 1) + l \in 1 .. N /\ N - (m + 1) + l = k + l
            /\ \A l \in 1 .. m + 1 + 1 : /\ N - (m + 1 + 1) + l \in 1 .. N
                                         /\ N - (m + 1 + 1) + l = k + (l - 1)
        BY <1>1, <3>1
      <4> HIDE DEF T, k, N
      <4>3. r \in [1 .. m + 1 -> T] /\ \A l \in 1 .. m + 1 : r[l] = s[e[k + l]]
        BY <4>1, <4>2
      <4>4. u \in [1 .. m + 1 + 1 -> T] /\ \A l \in 1 .. m + 1 + 1 : u[l] = s[e[k + (l - 1)]]
        BY <4>1, <4>2
      <4> HIDE DEF Rest
      <4>5. r \in Seq(T) /\ Len(r) = m + 1 /\ s[e[k]] \in T /\ k \in Int
        BY <3>1, <4>1, <4>3 DEF k
      <4> HIDE DEF r
      <4>6. t \in [1 .. m + 1 + 1 -> T] /\ t[1] = s[e[k]] /\ \A l \in 1 .. m + 1 : t[l + 1] = r[l]
        <5>1. /\ t \in Seq(T) /\ Len(t) = Len(r) + 1
              /\ t[1] = s[e[k]] /\ \A l \in 1 .. Len(r) : t[l + 1] = r[l]
          BY <4>5, PrependedIs
        <5> HIDE DEF t
        <5>2. Len(t) = m + 1 + 1 /\ Len(r) = m + 1
          BY <4>5, <5>1
        <5>3. t \in [1 .. m + 1 + 1 -> T]
          BY <5>1, <5>2
        <5> QED
          BY <5>1, <5>2, <5>3
      <4> HIDE DEF t, u, r
      <4>7. ASSUME NEW l \in 1 .. m + 1 + 1 PROVE t[l] = u[l]
        <5>1. CASE l = 1
          <6>1. u[l] = s[e[k + (1 - 1)]] /\ k + (1 - 1) = k
            BY <4>4, <4>5, <5>1
          <6> QED
            BY <4>6, <5>1, <6>1
        <5>2. CASE l # 1
          <6>1. l - 1 \in 1 .. m + 1 /\ l - 1 + 1 = l
            BY <5>2
          <6> QED
            BY <4>3, <4>4, <4>6, <6>1
        <5> QED
          BY <5>1, <5>2
      <4>8. t = u
        BY <4>4, <4>6, <4>7
      <4> QED
        BY <4>8 DEF t, u, r
    <3> QED
      BY <3>2, <3>3
  <2>5. N - 1 \in K
    <3>1. N - 1 \in Nat
      BY <1>7 DEF Linked
    <3> HIDE DEF K, N
    <3> QED
      BY <2>3, <2>4, <3>1, NatInd
  <2>6. N >= 1 /\ e[1] = 0
    BY <1>1, <1>7 DEF Linked
  <2>7. w[e[1]] = Rest(N)
    <3>1. N - 1 + 1 = N /\ N - (N - 1) = 1 /\ N <= N
      BY <1>1
    <3> QED
      BY <2>5, <3>1
  <2>8. Rest(N) = [k \in 1 .. N |-> s[e[k]]]
    BY <1>1
  <2> QED
    BY <1>5, <2>6, <2>7, <2>8
<1> QED
  BY <1>6, <1>7

-----------------------------------------------------------------------------
(* The invariant of the merge.                                             *)

(* An entry names two places, of no bytes, and a piece with its score.     *)
Candidate(x, s) ==
  /\ x.i \in DOMAIN s /\ x.j \in DOMAIN s
  /\ x.piece \in DOMAIN scores /\ x.score = scores[x.piece]
  /\ s[x.i][1] \notin Bytes /\ s[x.j][1] \notin Bytes

(* Every pair of neighbours that has a score waits in the heap h.          *)
Waits(h, s, nx, al) ==
  \A i, j \in DOMAIN s :
    al[i] /\ nx[i] = j /\ Pairs(s[i], s[j]) =>
      \E x \in Range(h) : x.i = i /\ x.j = j /\ x.piece = s[i] \o s[j]

MergeType ==
  /\ scores \in Vocabularies /\ twin \in {"py", "js"} /\ merging \in BOOLEAN
  /\ ids \in Seq(Seq(Char))

ListInv == \E n \in Nat : \E e : Linked(n, e, syms, prev, nxt, alive)

HeapInv ==
  /\ Heap(heap) /\ \A x \in Range(heap) : Candidate(x, syms)
  /\ merging => Waits(heap, syms, nxt, alive)

MergeInv == MergeType /\ ListInv /\ HeapInv

(* The entry x is a candidate for the places i and j.                      *)
Names(x, s, i, j) ==
  /\ x \in Items /\ Candidate(x, s)
  /\ x.i = i /\ x.j = j /\ x.piece = s[i] \o s[j]

(* An entry pushed for two places of a list.                               *)
LEMMA EntryIs ==
  ASSUME scores \in Vocabularies, NEW n \in Nat, NEW s \in [0 .. n - 1 -> Seq(Char) \ {<<>>}],
         NEW i \in 0 .. n - 1, NEW j \in 0 .. n - 1, Pairs(s[i], s[j])
  PROVE  Names(Entry(s, i, j), s, i, j)
<1> DEFINE p == s[i] \o s[j]
<1>1. p \in Seq(Char) /\ p \in DOMAIN scores /\ s[i][1] \notin Bytes /\ s[j][1] \notin Bytes
  BY DEF Pairs
<1>2. scores[p] \in Int
  BY <1>1, BpeAssumption
<1>3. Entry(s, i, j) = [score |-> scores[p], i |-> i, j |-> j, piece |-> p]
  BY DEF Entry
<1> HIDE DEF p
<1>4. i \in Int /\ j \in Int /\ i \in DOMAIN s /\ j \in DOMAIN s
  OBVIOUS
<1>5. Entry(s, i, j) \in Items
  BY <1>1, <1>2, <1>3, <1>4 DEF Items
<1>6. Candidate(Entry(s, i, j), s)
  BY <1>1, <1>3, <1>4 DEF Candidate
<1> QED
  BY <1>3, <1>5, <1>6 DEF p, Names

(* The list as it is built: every place in use, one character each.        *)
LEMMA StartLinked ==
  ASSUME NEW chars \in Seq(Char), NEW n, n = Len(chars),
         NEW s, s = [i \in 0 .. n - 1 |-> <<chars[i + 1]>>],
         NEW pr, pr = [i \in 0 .. n - 1 |-> i - 1],
         NEW nx, nx = [i \in 0 .. n - 1 |-> IF i = n - 1 THEN -1 ELSE i + 1],
         NEW al, al = [i \in 0 .. n - 1 |-> TRUE]
  PROVE  Linked(n, [k \in 1 .. n |-> k - 1], s, pr, nx, al)
<1> DEFINE e == [k \in 1 .. n |-> k - 1]
<1>1. n \in Nat /\ \A i \in 0 .. n - 1 : chars[i + 1] \in Char
  OBVIOUS
<1>2. e \in Seq(0 .. n - 1) /\ Len(e) = n /\ \A k \in 1 .. n : e[k] = k - 1 /\ e[k] \in 0 .. n - 1
  <2>1. e \in [1 .. n -> 0 .. n - 1] /\ \A k \in 1 .. n : e[k] = k - 1 /\ e[k] \in 0 .. n - 1
    BY <1>1
  <2> HIDE DEF e
  <2>2. e \in Seq(0 .. n - 1) /\ Len(e) = n
    BY ONLY <1>1, <2>1
  <2> QED
    BY ONLY <2>1, <2>2
<1>3. s \in [0 .. n - 1 -> Seq(Char) \ {<<>>}]
  <2>1. \A i \in 0 .. n - 1 : <<chars[i + 1]>> \in Seq(Char) \ {<<>>}
    BY <1>1
  <2> QED
    BY <2>1
<1>4. /\ DOMAIN pr = 0 .. n - 1 /\ DOMAIN nx = 0 .. n - 1 /\ al \in [0 .. n - 1 -> BOOLEAN]
      /\ \A i \in 0 .. n - 1 : /\ al[i] /\ pr[i] = i - 1
                               /\ nx[i] = IF i = n - 1 THEN -1 ELSE i + 1
  OBVIOUS
<1> HIDE DEF e
<1>5. \A i \in 0 .. n - 1 : nx[i] = -1 \/ nx[i] \in i + 1 .. n - 1
  BY <1>1, <1>4
<1>6. ASSUME NEW k \in 1 .. n
      PROVE  /\ al[e[k]]
             /\ nx[e[k]] = (IF k < n THEN e[k + 1] ELSE -1)
             /\ pr[e[k]] = (IF k > 1 THEN e[k - 1] ELSE -1)
  <2>1. al[e[k]] /\ pr[e[k]] = k - 1 - 1 /\ nx[e[k]] = IF k - 1 = n - 1 THEN -1 ELSE k - 1 + 1
    BY <1>2, <1>4
  <2>0. n \in Nat /\ k \in Nat /\ k >= 1 /\ k <= n
    BY <1>1
  <2>2. nx[e[k]] = IF k < n THEN e[k + 1] ELSE -1
    <3>1. CASE k < n
      <4>1. k + 1 \in 1 .. n /\ e[k + 1] = k
        BY ONLY <1>2, <2>0, <3>1
      <4> QED
        BY ONLY <2>0, <2>1, <3>1, <4>1
    <3>2. CASE ~ (k < n)
      BY ONLY <2>0, <2>1, <3>2
    <3> QED
      BY <3>1, <3>2
  <2>3. pr[e[k]] = IF k > 1 THEN e[k - 1] ELSE -1
    <3>1. CASE k > 1
      <4>1. k - 1 \in 1 .. n /\ e[k - 1] = k - 1 - 1
        BY ONLY <1>2, <2>0, <3>1
      <4> QED
        BY ONLY <2>0, <2>1, <3>1, <4>1
    <3>2. CASE ~ (k > 1)
      BY ONLY <2>0, <2>1, <3>2
    <3> QED
      BY <3>1, <3>2
  <2> QED
    BY ONLY <2>1, <2>2, <2>3
<1>7. \A k, l \in 1 .. n : k < l => e[k] < e[l]
  BY <1>1, <1>2
<1>8. ASSUME NEW i \in 0 .. n - 1 PROVE \E k \in 1 .. n : e[k] = i
  <2>1. i + 1 \in 1 .. n /\ e[i + 1] = i
    BY <1>1, <1>2
  <2> QED
    BY <2>1
<1>9. n > 0 => Len(e) > 0 /\ e[1] = 0
  BY ONLY <1>1, <1>2
<1> QED
  BY <1>2, <1>3, <1>4, <1>5, <1>6, <1>7, <1>8, <1>9 DEF Linked, e

(* The first candidates are the neighbours of the text.                    *)
LEMMA StartInv ==
  ASSUME MergeInv, NEW text \in Seq(Letters \cup {Blank} \cup DOMAIN Utf8), StartEncode(text)
  PROVE  /\ MergeInv' /\ \A i \in DOMAIN syms' : Len(syms'[i]) = 1
         /\ (\E k \in DOMAIN text : text[k] # Blank) => DOMAIN syms' # {}
<1> DEFINE chars == Symbols(text)
           n == Len(chars)
           s == [i \in 0 .. n - 1 |-> <<chars[i + 1]>>]
           pr == [i \in 0 .. n - 1 |-> i - 1]
           nx == [i \in 0 .. n - 1 |-> IF i = n - 1 THEN -1 ELSE i + 1]
           al == [i \in 0 .. n - 1 |-> TRUE]
           pairs == [k \in 1 .. n |-> <<pr[k - 1], k - 1>>]
<1>1. chars \in Seq(Char) /\ n \in Nat
  BY SymbolsAre
<1>2. /\ merging' /\ syms' = s /\ prev' = pr /\ nxt' = nx /\ alive' = al /\ ids' = <<>>
      /\ heap' = Pushed(<<>>, s, al, pairs)
      /\ scores' = scores /\ twin' = twin
  BY DEF StartEncode
<1>3. Linked(n, [k \in 1 .. n |-> k - 1], s, pr, nx, al)
  <2> HIDE DEF chars
  <2> QED
    BY <1>1, StartLinked
<1>4. /\ s \in [0 .. n - 1 -> Seq(Char) \ {<<>>}]
      /\ \A i \in 0 .. n - 1 : al[i] /\ pr[i] = i - 1 /\ nx[i] = IF i = n - 1 THEN -1 ELSE i + 1
      /\ \A i \in DOMAIN s : Len(s[i]) = 1
      /\ DOMAIN pairs = 1 .. n /\ \A k \in 1 .. n : pairs[k] = <<k - 1 - 1, k - 1>>
  BY <1>1, <1>3 DEF Linked
<1> HIDE DEF chars, n, s, pr, nx, al, pairs
<1>5. scores \in Vocabularies
  BY DEF MergeInv, MergeType
<1>6. ASSUME NEW k \in 1 .. n, Scores(s, al, pairs[k])
      PROVE  /\ pairs[k][1] \in 0 .. n - 1 /\ pairs[k][2] \in 0 .. n - 1
             /\ pairs[k][1] = k - 2 /\ pairs[k][2] = k - 1
             /\ Pairs(s[pairs[k][1]], s[pairs[k][2]])
  <2>0. k \in Nat /\ k >= 1 /\ k <= n
    BY ONLY <1>1, k \in 1 .. n
  <2>1. pairs[k] = <<k - 1 - 1, k - 1>> /\ k \in Nat /\ k >= 1 /\ k <= n
    BY ONLY <1>4, <2>0, k \in 1 .. n
  <2>2. pairs[k][1] = k - 2 /\ pairs[k][2] = k - 1
    BY ONLY <2>1
  <2>3. pairs[k][1] # -1 /\ Pairs(s[pairs[k][1]], s[pairs[k][2]])
    BY <1>6 DEF Scores
  <2>4. k - 2 \in 0 .. n - 1 /\ k - 1 \in 0 .. n - 1
    BY ONLY <1>1, <2>1, <2>2, <2>3
  <2> QED
    BY ONLY <2>2, <2>3, <2>4
<1>7. \A k \in 1 .. n : Scores(s, al, pairs[k]) => Entry(s, pairs[k][1], pairs[k][2]) \in Items
  BY <1>1, <1>4, <1>5, <1>6, EntryIs DEF Names
<1>8. Gains(heap', <<>>, s, al, n, pairs)
  <2>1. Heap(<<>>)
    BY DEF Heap, Ordered
  <2>2. n \in Nat /\ DOMAIN pairs = 1 .. n
    BY <1>1, <1>4
  <2>3. Gains(Pushed(<<>>, s, al, pairs), <<>>, s, al, n, pairs)
    BY ONLY <1>7, <2>1, <2>2, PushedIs
  <2> QED
    BY ONLY <1>2, <2>3
<1>9. ASSUME NEW x \in Range(heap') PROVE Candidate(x, s)
  <2>1. PICK k \in 1 .. n : Scores(s, al, pairs[k]) /\ x = Entry(s, pairs[k][1], pairs[k][2])
    <3>1. Range(<<>>) = {}
      BY DEF Range
    <3> QED
      BY <1>8, <3>1 DEF Gains
  <2>2. /\ pairs[k][1] \in 0 .. n - 1 /\ pairs[k][2] \in 0 .. n - 1
        /\ Pairs(s[pairs[k][1]], s[pairs[k][2]])
    BY <1>6, <2>1
  <2> QED
    BY <1>1, <1>4, <1>5, <2>1, <2>2, EntryIs DEF Names
<1>10. Waits(heap', s, nx, al)
  <2>1. ASSUME NEW i \in DOMAIN s, NEW j \in DOMAIN s, nx[i] = j, Pairs(s[i], s[j])
        PROVE  \E x \in Range(heap') : x.i = i /\ x.j = j /\ x.piece = s[i] \o s[j]
    <3>1. i \in 0 .. n - 1 /\ j \in 0 .. n - 1 /\ j = i + 1 /\ j + 1 \in 1 .. n
      BY <1>1, <1>4, <2>1
    <3>2. pairs[j + 1] = <<i, j>> /\ i # -1 /\ j # -1
      <4>1. pairs[j + 1] = <<j + 1 - 1 - 1, j + 1 - 1>>
        BY <1>4, <3>1
      <4>2. j + 1 - 1 - 1 = i /\ j + 1 - 1 = j /\ i # -1 /\ j # -1
        BY ONLY <1>1, <3>1
      <4> QED
        BY ONLY <4>1, <4>2
    <3>3. Scores(s, al, pairs[j + 1])
      BY <1>4, <2>1, <3>1, <3>2 DEF Scores
    <3>4. Entry(s, i, j) \in Range(heap')
      <4>1. pairs[j + 1][1] = i /\ pairs[j + 1][2] = j
        BY <3>2
      <4> QED
        BY <1>8, <3>1, <3>3, <4>1 DEF Gains
    <3>5. Entry(s, i, j).i = i /\ Entry(s, i, j).j = j /\ Entry(s, i, j).piece = s[i] \o s[j]
      <4>1. /\ n \in Nat /\ s \in [0 .. n - 1 -> Seq(Char) \ {<<>>}]
            /\ i \in 0 .. n - 1 /\ j \in 0 .. n - 1 /\ Pairs(s[i], s[j])
        BY <1>1, <1>4, <2>1, <3>1
      <4>2. Names(Entry(s, i, j), s, i, j)
        BY ONLY <1>5, <4>1, EntryIs
      <4> QED
        BY ONLY <4>2 DEF Names
    <3> QED
      BY <3>4, <3>5
  <2> QED
    BY <2>1 DEF Waits
<1>11. MergeType'
  BY <1>2, <1>5 DEF MergeInv, MergeType
<1>12. ListInv'
  BY <1>1, <1>2, <1>3 DEF ListInv
<1>13. HeapInv'
  <2>1. Heap(heap)'
    BY <1>2, <1>8 DEF Gains, Heap
  <2>2. (\A x \in Range(heap) : Candidate(x, syms))'
    BY <1>2, <1>9 DEF Candidate
  <2>3. Waits(heap, syms, nxt, alive)'
    <3>1. /\ scores' = scores /\ syms' = s /\ nxt' = nx /\ alive' = al
          /\ Waits(heap', s, nx, al)
      BY ONLY <1>2, <1>10
    <3>2. Waits(heap', syms', nxt', alive') /\ scores' = scores
      BY ONLY <3>1
    <3> QED
      BY ONLY <3>2 DEF Waits, Pairs
  <2> QED
    BY <2>1, <2>2, <2>3 DEF HeapInv
<1>14. (\E k \in DOMAIN text : text[k] # Blank) => DOMAIN syms' # {}
  <2> HAVE \E k \in DOMAIN text : text[k] # Blank
  <2>1. chars # <<>>
    BY SymbolsAre DEF chars
  <2>2. n > 0
    BY <1>1, <2>1 DEF n
  <2>3. 0 \in DOMAIN s
    BY <1>1, <1>4, <2>2
  <2> QED
    BY <1>2, <2>3
<1> QED
  BY <1>2, <1>4, <1>11, <1>12, <1>13, <1>14 DEF MergeInv

-----------------------------------------------------------------------------
(* Steps of the merge.                                                     *)

(* The sequence e without its m-th element.                                *)
Without(e, m) == [l \in 1 .. Len(e) - 1 |-> IF l < m THEN e[l] ELSE e[l + 1]]

(* A place in use and the one it leads to are neighbours both ways.        *)
LEMMA Neighbours ==
  ASSUME NEW n \in Nat, NEW e, NEW s, NEW pr, NEW nx, NEW al, Linked(n, e, s, pr, nx, al),
         NEW a \in 0 .. n - 1, NEW b \in 0 .. n - 1, al[a], nx[a] = b
  PROVE  \E k \in 1 .. Len(e) - 1 : e[k] = a /\ e[k + 1] = b /\ al[b] /\ pr[b] = a
<1>1. Len(e) \in Nat
  BY DEF Linked
<1>2. PICK k \in 1 .. Len(e) : e[k] = a
  BY DEF Linked
<1>3. b = IF k < Len(e) THEN e[k + 1] ELSE -1
  BY <1>2 DEF Linked
<1>4. k < Len(e) /\ b = e[k + 1] /\ k + 1 \in 1 .. Len(e) /\ k \in 1 .. Len(e) - 1
  BY <1>1, <1>3
<1>5. al[e[k + 1]] /\ pr[e[k + 1]] = IF k + 1 > 1 THEN e[k + 1 - 1] ELSE -1
  <2>1. \A m \in 1 .. Len(e) : al[e[m]] /\ pr[e[m]] = IF m > 1 THEN e[m - 1] ELSE -1
    BY DEF Linked
  <2> QED
    BY ONLY <1>4, <2>1
<1>6. k + 1 > 1 /\ k + 1 - 1 = k
  BY <1>4
<1> QED
  BY <1>2, <1>4, <1>5, <1>6

(* A live entry names two neighbours that may merge.                       *)
LEMMA LivePlace ==
  ASSUME NEW n \in Nat, NEW e, Linked(n, e, syms, prev, nxt, alive),
         NEW x, Candidate(x, syms), Live(x)
  PROVE  /\ Pairs(syms[x.i], syms[x.j]) /\ x.piece = syms[x.i] \o syms[x.j]
         /\ \E k \in 1 .. Len(e) - 1 : e[k] = x.i /\ e[k + 1] = x.j
<1>1. x.i \in 0 .. n - 1 /\ x.j \in 0 .. n - 1 /\ alive[x.i] /\ nxt[x.i] = x.j
  BY DEF Linked, Candidate, Live
<1>2. \E k \in 1 .. Len(e) - 1 : e[k] = x.i /\ e[k + 1] = x.j
  <2> HIDE DEF Linked
  <2> QED
    BY <1>1, Neighbours
<1> QED
  BY <1>2 DEF Candidate, Live, Pairs

(* The list after the places i and j merge into a piece at i.              *)
Joins(s, pr, nx, al, i, j, piece, s2, pr2, nx2, al2) ==
  /\ s2 = [s EXCEPT ![i] = piece]
  /\ al2 = [al EXCEPT ![j] = FALSE]
  /\ nx2 = [nx EXCEPT ![i] = nx[j]]
  /\ pr2 = [l \in DOMAIN pr |-> IF l = nx[j] THEN i ELSE pr[l]]

(* Two neighbours merged: the right one leaves the list.                   *)
LEMMA MergedLinked ==
  ASSUME NEW n \in Nat, NEW e, NEW s, NEW pr, NEW nx, NEW al, Linked(n, e, s, pr, nx, al),
         NEW k \in 1 .. Len(e) - 1, NEW piece \in Seq(Char) \ {<<>>},
         NEW s2, NEW pr2, NEW nx2, NEW al2,
         Joins(s, pr, nx, al, e[k], e[k + 1], piece, s2, pr2, nx2, al2)
  PROVE  Linked(n, Without(e, k + 1), s2, pr2, nx2, al2)
<1> DEFINE N == Len(e)
           w == Without(e, k + 1)
           i == e[k]
           j == e[k + 1]
<1>1. /\ e \in Seq(0 .. n - 1) /\ N \in Nat /\ k \in Nat /\ k >= 1 /\ k + 1 <= N
      /\ \A l \in 1 .. N : e[l] \in 0 .. n - 1
  <2>1. e \in Seq(0 .. n - 1)
    BY DEF Linked
  <2> QED
    BY ONLY <2>1, k \in 1 .. Len(e) - 1
<1>2. k \in 1 .. N /\ k + 1 \in 1 .. N /\ i \in 0 .. n - 1 /\ j \in 0 .. n - 1
  BY <1>1
<1>3. \A l, m \in 1 .. N : l < m => e[l] < e[m]
  BY DEF Linked
<1>4. \A l, m \in 1 .. N : e[l] = e[m] => l = m
  <2> SUFFICES ASSUME NEW l \in 1 .. N, NEW m \in 1 .. N, e[l] = e[m] PROVE l = m
    OBVIOUS
  <2>1. e[l] \in 0 .. n - 1
    BY <1>1
  <2>2. ~ (l < m) /\ ~ (m < l)
    BY ONLY <1>3, <2>1, n \in Nat, e[l] = e[m], l \in 1 .. N, m \in 1 .. N
  <2> QED
    BY ONLY <1>1, <2>2, l \in 1 .. N, m \in 1 .. N
<1>5. /\ w \in Seq(0 .. n - 1) /\ Len(w) = N - 1
      /\ \A l \in 1 .. N - 1 : w[l] = IF l < k + 1 THEN e[l] ELSE e[l + 1]
  <2>1. w \in [1 .. N - 1 -> 0 .. n - 1] /\ N - 1 \in Nat
    <3>1. N - 1 \in Nat /\ \A l \in 1 .. N - 1 : l \in 1 .. N /\ l + 1 \in 1 .. N
      BY ONLY <1>1
    <3> QED
      BY ONLY <1>1, <3>1 DEF Without
  <2>2. \A l \in 1 .. N - 1 : w[l] = IF l < k + 1 THEN e[l] ELSE e[l + 1]
    BY DEF Without
  <2> DEFINE M == N - 1
  <2> HIDE DEF w, M
  <2>3. w \in [1 .. M -> 0 .. n - 1] /\ M \in Nat
    BY <2>1 DEF M
  <2>4. w \in Seq(0 .. n - 1) /\ Len(w) = M
    BY ONLY <2>3
  <2> QED
    BY <2>2, <2>4 DEF M
<1>6. \A l \in 1 .. N : /\ al[e[l]]
                        /\ nx[e[l]] = (IF l < N THEN e[l + 1] ELSE -1)
                        /\ pr[e[l]] = (IF l > 1 THEN e[l - 1] ELSE -1)
  BY DEF Linked
<1>7. /\ s2 \in [0 .. n - 1 -> Seq(Char) \ {<<>>}]
      /\ DOMAIN pr2 = 0 .. n - 1 /\ DOMAIN nx2 = 0 .. n - 1 /\ al2 \in [0 .. n - 1 -> BOOLEAN]
  BY DEF Linked, Joins
<1>8. /\ \A l \in 0 .. n - 1 : pr2[l] = IF l = nx[j] THEN i ELSE pr[l]
      /\ \A l \in 0 .. n - 1 : nx2[l] = IF l = i THEN nx[j] ELSE nx[l]
      /\ \A l \in 0 .. n - 1 : al2[l] = IF l = j THEN FALSE ELSE al[l]
  BY <1>2 DEF Linked, Joins
<1>9. nx[j] = IF k + 1 < N THEN e[k + 1 + 1] ELSE -1
  BY ONLY <1>2, <1>6
<1>10. i < j
  <2>1. k < k + 1
    BY ONLY <1>1
  <2> QED
    BY ONLY <1>2, <1>3, <2>1
<1>11. \A l \in 0 .. n - 1 : nx[l] = -1 \/ nx[l] \in l + 1 .. n - 1
  BY DEF Linked
<1> HIDE DEF N, w, i, j
<1>12. \A l \in 0 .. n - 1 : nx2[l] = -1 \/ nx2[l] \in l + 1 .. n - 1
  <2>1. nx[j] = -1 \/ nx[j] \in i + 1 .. n - 1
    <3>1. nx[j] = -1 \/ nx[j] \in j + 1 .. n - 1
      BY <1>2, <1>11
    <3> QED
      BY ONLY <1>2, <1>10, <3>1
  <2> QED
    BY ONLY <1>8, <1>11, <2>1

(* Where a place of the new list was in the old one.                       *)
<1>13. ASSUME NEW l \in 1 .. N - 1
       PROVE  /\ w[l] \in 0 .. n - 1 /\ w[l] # j /\ (w[l] = i <=> l = k)
              /\ w[l] = nx[j] <=> l = k + 1
  <2>1. l \in Nat /\ l >= 1 /\ l <= N - 1 /\ l \in 1 .. N /\ l + 1 \in 1 .. N
    BY ONLY <1>1, l \in 1 .. N - 1
  <2> DEFINE m == IF l < k + 1 THEN l ELSE l + 1
  <2>2. m \in 1 .. N /\ m # k + 1 /\ (m = k <=> l = k) /\ (m = k + 1 + 1 <=> l = k + 1)
    BY ONLY <1>1, <2>1
  <2>3. w[l] = e[m]
    BY ONLY <1>5, l \in 1 .. N - 1
  <2> HIDE DEF m
  <2>4. e[m] \in 0 .. n - 1 /\ e[m] # j /\ (e[m] = i <=> m = k)
    BY ONLY <1>1, <1>2, <1>4, <2>2 DEF i, j
  <2>5. e[m] = nx[j] <=> m = k + 1 + 1
    <3>1. CASE k + 1 < N
      <4>1. k + 1 + 1 \in 1 .. N /\ nx[j] = e[k + 1 + 1]
        BY ONLY <1>1, <1>9, <3>1
      <4> QED
        BY ONLY <1>4, <2>2, <4>1
    <3>2. CASE ~ (k + 1 < N)
      <4>1. nx[j] = -1 /\ m # k + 1 + 1 /\ e[m] # -1
        BY ONLY <1>1, <1>9, <2>2, <2>4, <3>2
      <4> QED
        BY ONLY <4>1
    <3> QED
      BY ONLY <3>1, <3>2
  <2> QED
    BY ONLY <2>2, <2>3, <2>4, <2>5
<1>14. ASSUME NEW l \in 1 .. N - 1
       PROVE  /\ al2[w[l]]
              /\ nx2[w[l]] = (IF l < N - 1 THEN w[l + 1] ELSE -1)
              /\ pr2[w[l]] = (IF l > 1 THEN w[l - 1] ELSE -1)
  <2>1. l \in Nat /\ l >= 1 /\ l <= N - 1 /\ l \in 1 .. N /\ l + 1 \in 1 .. N
    BY ONLY <1>1, l \in 1 .. N - 1
  <2>2. al2[w[l]]
    <3>1. al[w[l]]
      BY ONLY <1>5, <1>6, <2>1, l \in 1 .. N - 1
    <3> QED
      BY ONLY <1>8, <1>13, <3>1, l \in 1 .. N - 1
  <2>3. nx2[w[l]] = IF l < N - 1 THEN w[l + 1] ELSE -1
    <3>1. CASE l = k
      <4>1. nx2[w[l]] = nx[j]
        BY ONLY <1>8, <1>13, <3>1, l \in 1 .. N - 1
      <4>2. CASE l < N - 1
        <5>1. l + 1 \in 1 .. N - 1 /\ ~ (l + 1 < k + 1) /\ k + 1 < N
          BY ONLY <1>1, <2>1, <3>1, <4>2
        <5>2. w[l + 1] = e[l + 1 + 1]
          BY ONLY <1>5, <5>1
        <5> QED
          BY ONLY <1>9, <3>1, <4>1, <4>2, <5>1, <5>2
      <4>3. CASE ~ (l < N - 1)
        <5>1. ~ (k + 1 < N)
          BY ONLY <1>1, <2>1, <3>1, <4>3
        <5> QED
          BY ONLY <1>9, <4>1, <4>3, <5>1
      <4> QED
        BY ONLY <4>2, <4>3
    <3>2. CASE l # k
      <4>1. nx2[w[l]] = nx[w[l]]
        BY ONLY <1>8, <1>13, <3>2, l \in 1 .. N - 1
      <4>2. CASE l < k
        <5>1. l < k + 1 /\ l + 1 < k + 1 /\ l < N /\ l < N - 1 /\ l + 1 \in 1 .. N - 1
          BY ONLY <1>1, <2>1, <4>2
        <5>2. w[l] = e[l] /\ w[l + 1] = e[l + 1]
          BY ONLY <1>5, <5>1, l \in 1 .. N - 1
        <5> QED
          BY ONLY <1>6, <2>1, <4>1, <5>1, <5>2
      <4>3. CASE ~ (l < k)
        <5>1. ~ (l < k + 1) /\ ~ (l + 1 < k + 1) /\ (l + 1 < N <=> l < N - 1)
          BY ONLY <1>1, <2>1, <3>2, <4>3
        <5>2. w[l] = e[l + 1]
          BY ONLY <1>5, <5>1, l \in 1 .. N - 1
        <5>3. nx[w[l]] = IF l + 1 < N THEN e[l + 1 + 1] ELSE -1
          BY ONLY <1>6, <2>1, <5>2
        <5>4. CASE l < N - 1
          <6>1. l + 1 \in 1 .. N - 1
            BY ONLY <1>1, <2>1, <5>4
          <6>2. w[l + 1] = e[l + 1 + 1]
            BY ONLY <1>5, <5>1, <6>1
          <6> QED
            BY ONLY <4>1, <5>1, <5>3, <5>4, <6>2
        <5> QED
          BY ONLY <4>1, <5>1, <5>3, <5>4
      <4> QED
        BY ONLY <4>2, <4>3
    <3> QED
      BY ONLY <3>1, <3>2
  <2>4. pr2[w[l]] = IF l > 1 THEN w[l - 1] ELSE -1
    <3>1. CASE l = k + 1
      <4>1. pr2[w[l]] = i
        BY ONLY <1>8, <1>13, <3>1, l \in 1 .. N - 1
      <4>2. l > 1 /\ l - 1 \in 1 .. N - 1 /\ l - 1 < k + 1 /\ l - 1 = k
        BY ONLY <1>1, <2>1, <3>1
      <4>3. w[l - 1] = e[l - 1]
        BY ONLY <1>5, <4>2
      <4> QED
        BY ONLY <4>1, <4>2, <4>3 DEF i
    <3>2. CASE l # k + 1
      <4>1. pr2[w[l]] = pr[w[l]]
        BY ONLY <1>8, <1>13, <3>2, l \in 1 .. N - 1
      <4>2. CASE l < k + 1
        <5>1. w[l] = e[l]
          BY ONLY <1>5, <4>2, l \in 1 .. N - 1
        <5>2. pr[w[l]] = IF l > 1 THEN e[l - 1] ELSE -1
          BY ONLY <1>6, <2>1, <5>1
        <5>3. CASE l > 1
          <6>1. l - 1 \in 1 .. N - 1 /\ l - 1 < k + 1
            BY ONLY <1>1, <2>1, <4>2, <5>3
          <6>2. w[l - 1] = e[l - 1]
            BY ONLY <1>5, <6>1
          <6> QED
            BY ONLY <4>1, <5>2, <5>3, <6>2
        <5> QED
          BY ONLY <4>1, <5>2, <5>3
      <4>3. CASE ~ (l < k + 1)
        <5>1. w[l] = e[l + 1]
          BY ONLY <1>5, <4>3, l \in 1 .. N - 1
        <5>2. pr[w[l]] = IF l + 1 > 1 THEN e[l + 1 - 1] ELSE -1
          BY ONLY <1>6, <2>1, <5>1
        <5>3. /\ l > 1 /\ l + 1 > 1 /\ l + 1 - 1 = l /\ l - 1 + 1 = l
              /\ l - 1 \in 1 .. N - 1 /\ ~ (l - 1 < k + 1)
          BY ONLY <1>1, <2>1, <3>2, <4>3
        <5>4. w[l - 1] = e[l - 1 + 1]
          BY ONLY <1>5, <5>3
        <5> QED
          BY ONLY <4>1, <5>2, <5>3, <5>4
      <4> QED
        BY ONLY <4>2, <4>3
    <3> QED
      BY ONLY <3>1, <3>2
  <2> QED
    BY ONLY <2>2, <2>3, <2>4

<1>15. ASSUME NEW l \in 1 .. N - 1, NEW m \in 1 .. N - 1, l < m PROVE w[l] < w[m]
  <2> DEFINE a == IF l < k + 1 THEN l ELSE l + 1
             b == IF m < k + 1 THEN m ELSE m + 1
  <2>1. a \in 1 .. N /\ b \in 1 .. N /\ a < b
    BY ONLY <1>1, <1>15, l \in 1 .. N - 1, m \in 1 .. N - 1
  <2>2. w[l] = e[a] /\ w[m] = e[b]
    BY <1>5
  <2> HIDE DEF a, b
  <2> QED
    BY ONLY <1>3, <2>1, <2>2
<1>16. ASSUME NEW a \in 0 .. n - 1, al2[a] PROVE \E l \in 1 .. N - 1 : w[l] = a
  <2>1. a # j /\ al[a]
    BY <1>8, <1>16
  <2>2. PICK m \in 1 .. N : e[m] = a
    BY <2>1 DEF Linked, N
  <2>3. m # k + 1
    BY <2>1, <2>2 DEF j
  <2>4. CASE m < k + 1
    <3>1. m \in 1 .. N - 1
      BY ONLY <1>1, <2>4, m \in 1 .. N
    <3>2. w[m] = a
      BY <1>5, <2>2, <2>4, <3>1
    <3> QED
      BY <3>1, <3>2
  <2>5. CASE ~ (m < k + 1)
    <3>1. m - 1 \in 1 .. N - 1 /\ ~ (m - 1 < k + 1) /\ m - 1 + 1 = m
      BY ONLY <1>1, <2>3, <2>5, m \in 1 .. N
    <3>2. w[m - 1] = a
      BY <1>5, <2>2, <3>1
    <3> QED
      BY <3>1, <3>2
  <2> QED
    BY <2>4, <2>5
<1>17. n > 0 => Len(w) > 0 /\ w[1] = 0
  <2>1. Len(w) > 0 /\ 1 \in 1 .. N - 1 /\ 1 < k + 1
    BY ONLY <1>1, <1>5
  <2>2. w[1] = e[1]
    BY ONLY <1>5, <2>1
  <2> QED
    BY <2>1, <2>2 DEF Linked
<1>18. Linked(n, w, s2, pr2, nx2, al2)
  <2>1. \A l \in 1 .. Len(w) : /\ al2[w[l]]
                               /\ nx2[w[l]] = (IF l < Len(w) THEN w[l + 1] ELSE -1)
                               /\ pr2[w[l]] = (IF l > 1 THEN w[l - 1] ELSE -1)
    BY ONLY <1>5, <1>14
  <2>2. \A l, m \in 1 .. Len(w) : l < m => w[l] < w[m]
    BY ONLY <1>5, <1>15
  <2>3. \A a \in 0 .. n - 1 : al2[a] => \E l \in 1 .. Len(w) : w[l] = a
    BY ONLY <1>5, <1>16
  <2> QED
    BY ONLY <1>5, <1>7, <1>12, <1>17, <2>1, <2>2, <2>3 DEF Linked
<1> QED
  BY <1>18 DEF w

(* The heap h fits the list: its entries name places of it, and every pair *)
(* that may merge waits in it.                                             *)
Fits(h, s, nx, al) ==
  Heap(h) /\ (\A x \in Range(h) : Candidate(x, s)) /\ Waits(h, s, nx, al)

(* The list and the heap after the k-th piece in use has merged with the   *)
(* next, at the top of the heap.                                           *)
Grows(pop, i, j, s2, pr2, nx2, al2, h2) ==
  /\ Joins(syms, prev, nxt, alive, i, j, pop.top.piece, s2, pr2, nx2, al2)
  /\ h2 = Pushed(pop.rest, s2, al2, <<<<prev[i], i>>, <<i, nxt[j]>>>>)

(* A merge keeps the list linked, and only its own entry leaves the heap.  *)
LEMMA GrownFits ==
  ASSUME scores \in Vocabularies, heap # <<>>, Fits(heap, syms, nxt, alive),
         NEW pop \in Popped, Live(pop.top),
         NEW n \in Nat, NEW e, Linked(n, e, syms, prev, nxt, alive), NEW k \in 1 .. Len(e) - 1,
         e[k] = pop.top.i, e[k + 1] = pop.top.j,
         NEW s2, NEW pr2, NEW nx2, NEW al2, NEW h2,
         Grows(pop, e[k], e[k + 1], s2, pr2, nx2, al2, h2)
  PROVE  Linked(n, Without(e, k + 1), s2, pr2, nx2, al2) /\ Fits(h2, s2, nx2, al2)
<1> DEFINE top == pop.top
           i == e[k]
           j == e[k + 1]
           w == Without(e, k + 1)
           pairs == <<<<prev[i], i>>, <<i, nxt[j]>>>>
<1>1. /\ top \in Range(heap) /\ Heap(pop.rest) /\ Range(pop.rest) \subseteq Range(heap)
      /\ Range(heap) \ {top} \subseteq Range(pop.rest)
  BY PopIs DEF Fits
<1>2. Candidate(top, syms)
  BY <1>1 DEF Fits
<1>3. Pairs(syms[i], syms[j]) /\ top.piece = syms[i] \o syms[j]
  BY <1>2, LivePlace
<1>4. /\ Len(e) \in Nat /\ k \in 1 .. Len(e) /\ k + 1 \in 1 .. Len(e)
      /\ i \in 0 .. n - 1 /\ j \in 0 .. n - 1
  <2>1. e \in Seq(0 .. n - 1)
    BY DEF Linked
  <2>2. Len(e) \in Nat /\ k \in 1 .. Len(e) /\ k + 1 \in 1 .. Len(e)
    BY ONLY <2>1, k \in 1 .. Len(e) - 1
  <2> QED
    BY ONLY <2>1, <2>2
<1>5. /\ syms \in [0 .. n - 1 -> Seq(Char) \ {<<>>}]
      /\ DOMAIN prev = 0 .. n - 1 /\ DOMAIN nxt = 0 .. n - 1 /\ alive \in [0 .. n - 1 -> BOOLEAN]
      /\ \A l \in 0 .. n - 1 : nxt[l] = -1 \/ nxt[l] \in l + 1 .. n - 1
  BY DEF Linked
<1>6. top.piece \in Seq(Char) \ {<<>>} /\ top.piece[1] = syms[i][1]
  <2>1. syms[i] \in Seq(Char) /\ syms[i] # <<>> /\ syms[j] \in Seq(Char)
    BY <1>4, <1>5
  <2>2. syms[i] \o syms[j] \in Seq(Char) /\ syms[i] \o syms[j] # <<>>
    BY <2>1, JoinedIs
  <2>3. (syms[i] \o syms[j])[1] = syms[i][1]
    BY ONLY <2>1, FirstIs
  <2> QED
    BY <1>3, <2>2, <2>3
<1>7. Linked(n, w, s2, pr2, nx2, al2)
  <2> DEFINE piece == top.piece
  <2>1. piece \in Seq(Char) \ {<<>>}
    BY <1>6
  <2>2. Joins(syms, prev, nxt, alive, e[k], e[k + 1], piece, s2, pr2, nx2, al2)
    BY DEF Grows
  <2> HIDE DEF piece
  <2>3. n \in Nat /\ Linked(n, e, syms, prev, nxt, alive) /\ k \in 1 .. Len(e) - 1
    OBVIOUS
  <2> QED
    BY ONLY <2>1, <2>2, <2>3, MergedLinked
<1>8. /\ \A l \in 0 .. n - 1 : s2[l] = IF l = i THEN top.piece ELSE syms[l]
      /\ \A l \in 0 .. n - 1 : al2[l] = IF l = j THEN FALSE ELSE alive[l]
      /\ \A l \in 0 .. n - 1 : nx2[l] = IF l = i THEN nxt[j] ELSE nxt[l]
      /\ \A l \in 0 .. n - 1 : pr2[l] = IF l = nxt[j] THEN i ELSE prev[l]
      /\ h2 = Pushed(pop.rest, s2, al2, pairs)
  BY <1>4, <1>5 DEF Grows, Joins
<1>9. s2 \in [0 .. n - 1 -> Seq(Char) \ {<<>>}] /\ DOMAIN s2 = 0 .. n - 1
  BY <1>7 DEF Linked
<1>10. /\ prev[i] = -1 \/ prev[i] \in 0 .. n - 1
       /\ nxt[j] = -1 \/ nxt[j] \in j + 1 .. n - 1
       /\ i < j
  <2>1. prev[i] = -1 \/ prev[i] \in 0 .. n - 1
    <3>1. prev[i] = IF k > 1 THEN e[k - 1] ELSE -1
      BY <1>4 DEF Linked
    <3>2. k > 1 => k - 1 \in 1 .. Len(e)
      BY <1>4
    <3>3. \A l \in 1 .. Len(e) : e[l] \in 0 .. n - 1
      <4>1. e \in Seq(0 .. n - 1)
        BY DEF Linked
      <4> QED
        BY ONLY <4>1
    <3> QED
      BY <3>1, <3>2, <3>3
  <2>2. i < j
    <3>1. k < k + 1
      BY <1>4
    <3> QED
      BY <1>4, <3>1 DEF Linked
  <2> QED
    BY <1>4, <1>5, <2>1, <2>2
<1> HIDE DEF top, i, j, w
<1>11. /\ DOMAIN pairs = 1 .. 2
       /\ pairs[1][1] = prev[i] /\ pairs[1][2] = i
       /\ pairs[2][1] = i /\ pairs[2][2] = nxt[j]
  OBVIOUS
<1> HIDE DEF pairs
<1>12. ASSUME NEW m \in 1 .. 2, Scores(s2, al2, pairs[m])
       PROVE  Names(Entry(s2, pairs[m][1], pairs[m][2]), s2, pairs[m][1], pairs[m][2])
  <2>1. m = 1 \/ m = 2
    OBVIOUS
  <2>2. pairs[m][1] \in 0 .. n - 1 /\ pairs[m][2] \in 0 .. n - 1
    <3>1. pairs[m][1] # -1 /\ pairs[m][2] # -1
      BY <1>12 DEF Scores
    <3>2. nxt[j] = -1 \/ nxt[j] \in 0 .. n - 1
      BY <1>4, <1>10
    <3> QED
      BY ONLY <1>4, <1>10, <1>11, <2>1, <3>1, <3>2
  <2>3. Pairs(s2[pairs[m][1]], s2[pairs[m][2]])
    BY <1>12 DEF Scores
  <2> QED
    BY <1>9, <2>2, <2>3, EntryIs
<1>13. Gains(h2, pop.rest, s2, al2, 2, pairs)
  <2>1. \A m \in 1 .. 2 : Scores(s2, al2, pairs[m]) => Entry(s2, pairs[m][1], pairs[m][2]) \in Items
    BY <1>12 DEF Names
  <2>2. Gains(Pushed(pop.rest, s2, al2, pairs), pop.rest, s2, al2, 2, pairs)
    BY <1>1, <1>11, <2>1, PushedIs
  <2> QED
    BY ONLY <1>8, <2>2
<1>14. Heap(h2)
  BY <1>13 DEF Gains
<1>15. ASSUME NEW x \in Range(h2) PROVE Candidate(x, s2)
  <2>1. CASE x \in Range(pop.rest)
    <3>1. Candidate(x, syms)
      BY <1>1, <2>1 DEF Fits
    <3>2. \A l \in 0 .. n - 1 : s2[l][1] = syms[l][1]
      BY <1>6, <1>8
    <3>3. DOMAIN syms = 0 .. n - 1 /\ DOMAIN s2 = 0 .. n - 1
      BY <1>5, <1>9
    <3> QED
      BY ONLY <3>1, <3>2, <3>3 DEF Candidate
  <2>2. CASE x \notin Range(pop.rest)
    <3>1. PICK m \in 1 .. 2 : Scores(s2, al2, pairs[m]) /\ x = Entry(s2, pairs[m][1], pairs[m][2])
      BY <1>13, <2>2 DEF Gains
    <3> QED
      BY <1>12, <3>1 DEF Names
  <2> QED
    BY <2>1, <2>2

<1>16. Waits(h2, s2, nx2, al2)
  <2> SUFFICES ASSUME NEW a \in DOMAIN s2, NEW b \in DOMAIN s2,
                      al2[a], nx2[a] = b, Pairs(s2[a], s2[b])
               PROVE  \E x \in Range(h2) : x.i = a /\ x.j = b /\ x.piece = s2[a] \o s2[b]
    BY DEF Waits
  <2>0. a \in 0 .. n - 1 /\ b \in 0 .. n - 1
    BY ONLY <1>9, a \in DOMAIN s2, b \in DOMAIN s2
  <2>1. al2[b] /\ pr2[b] = a
    BY <1>7, <2>0, Neighbours
  <2>2. a # j /\ b # j /\ alive[a]
    BY <1>8, <2>0, <2>1
  <2>3. ASSUME NEW m \in 1 .. 2, pairs[m][1] = a, pairs[m][2] = b
        PROVE  \E x \in Range(h2) : x.i = a /\ x.j = b /\ x.piece = s2[a] \o s2[b]
    <3>1. a # -1 /\ b # -1
      BY <2>0
    <3>2. Scores(s2, al2, pairs[m])
      BY ONLY <2>1, <2>3, <3>1, al2[a], Pairs(s2[a], s2[b]) DEF Scores
    <3>3. Entry(s2, a, b) \in Range(h2) /\ Names(Entry(s2, a, b), s2, a, b)
      BY <1>12, <1>13, <2>3, <3>2 DEF Gains
    <3> QED
      BY ONLY <3>3 DEF Names
  <2>4. CASE a = i
    <3>1. b = nxt[j]
      BY <1>8, <2>0, <2>4
    <3>2. 2 \in 1 .. 2 /\ pairs[2][1] = a /\ pairs[2][2] = b
      BY ONLY <1>11, <2>4, <3>1
    <3> QED
      BY ONLY <2>3, <3>2
  <2>5. CASE b = i
    <3>1. b # nxt[j]
      BY <1>4, <1>10, <2>5
    <3>2. prev[b] = a
      BY <1>8, <2>0, <2>1, <3>1
    <3>3. 1 \in 1 .. 2 /\ pairs[1][1] = a /\ pairs[1][2] = b
      BY ONLY <1>11, <2>5, <3>2
    <3> QED
      BY ONLY <2>3, <3>3
  <2>6. CASE a # i /\ b # i
    <3>1. nxt[a] = b /\ s2[a] = syms[a] /\ s2[b] = syms[b]
      BY <1>8, <2>0, <2>6
    <3>2. a \in DOMAIN syms /\ b \in DOMAIN syms /\ Waits(heap, syms, nxt, alive)
      BY <1>5, <2>0 DEF Fits
    <3>3. Pairs(syms[a], syms[b])
      BY <3>1
    <3>4. PICK x \in Range(heap) : x.i = a /\ x.j = b /\ x.piece = syms[a] \o syms[b]
      BY ONLY <2>2, <3>1, <3>2, <3>3 DEF Waits
    <3>5. x # top
      BY <2>6, <3>4 DEF top, i
    <3>6. x \in Range(h2)
      BY <1>1, <1>13, <3>5 DEF Gains
    <3> QED
      BY <3>1, <3>4, <3>6
  <2> QED
    BY <2>4, <2>5, <2>6
<1> QED
  BY <1>7, <1>14, <1>15, <1>16 DEF Fits, w

(* An entry that is stale names no pair: the heap fits without it.         *)
LEMMA StaleFits ==
  ASSUME heap # <<>>, Fits(heap, syms, nxt, alive), NEW pop \in Popped, ~ Live(pop.top),
         ListInv
  PROVE  Fits(pop.rest, syms, nxt, alive)
<1>1. /\ Heap(pop.rest) /\ Range(pop.rest) \subseteq Range(heap)
      /\ Range(heap) \ {pop.top} \subseteq Range(pop.rest)
  BY PopIs DEF Fits
<1>2. \A x \in Range(pop.rest) : Candidate(x, syms)
  BY <1>1 DEF Fits
<1>3. Waits(pop.rest, syms, nxt, alive)
  <2> SUFFICES ASSUME NEW a \in DOMAIN syms, NEW b \in DOMAIN syms,
                      alive[a], nxt[a] = b, Pairs(syms[a], syms[b])
               PROVE  \E x \in Range(pop.rest) :
                        x.i = a /\ x.j = b /\ x.piece = syms[a] \o syms[b]
    BY DEF Waits
  <2>1. PICK x \in Range(heap) : x.i = a /\ x.j = b /\ x.piece = syms[a] \o syms[b]
    BY DEF Fits, Waits
  <2>2. alive[b]
    <3>1. PICK n \in Nat : \E e : Linked(n, e, syms, prev, nxt, alive)
      BY DEF ListInv
    <3>2. PICK e : Linked(n, e, syms, prev, nxt, alive)
      BY <3>1
    <3>3. a \in 0 .. n - 1 /\ b \in 0 .. n - 1
      BY <3>2 DEF Linked
    <3> QED
      BY <3>2, <3>3, Neighbours
  <2>3. Live(x)
    BY <2>1, <2>2 DEF Live
  <2>4. x \in Range(pop.rest)
    BY <1>1, <2>3
  <2> QED
    BY <2>1, <2>4
<1> QED
  BY <1>1, <1>2, <1>3 DEF Fits

(* The pieces are those of the places in use, and some if there is a place.*)
LEMMA PiecesAre ==
  ASSUME NEW n \in Nat, NEW e, Linked(n, e, syms, prev, nxt, alive)
  PROVE  /\ Pieces = [k \in 1 .. Len(e) |-> syms[e[k]]]
         /\ Pieces \in Seq(Seq(Char) \ {<<>>}) /\ Len(Pieces) = Len(e)
         /\ DOMAIN syms # {} => Pieces # <<>>
<1>1. Pieces = [k \in 1 .. Len(e) |-> syms[e[k]]]
  <2>1. Along(syms, nxt) = [k \in 1 .. Len(e) |-> syms[e[k]]]
    BY AlongIs
  <2>2. Pieces = Along(syms, nxt)
    BY DEF Pieces, Along
  <2> QED
    BY <2>1, <2>2
<1>2. /\ e \in Seq(0 .. n - 1) /\ (n > 0 => Len(e) > 0)
      /\ syms \in [0 .. n - 1 -> Seq(Char) \ {<<>>}]
  BY DEF Linked
<1>3. Len(e) \in Nat /\ Pieces \in [1 .. Len(e) -> Seq(Char) \ {<<>>}]
  <2>1. \A k \in 1 .. Len(e) : e[k] \in 0 .. n - 1
    BY <1>2
  <2> QED
    BY <1>1, <1>2, <2>1
<1>4. Pieces \in Seq(Seq(Char) \ {<<>>}) /\ Len(Pieces) = Len(e)
  BY ONLY <1>3
<1>5. DOMAIN syms # {} => Pieces # <<>>
  <2> HAVE DOMAIN syms # {}
  <2>1. n > 0
    BY <1>2
  <2> QED
    BY <1>2, <1>4, <2>1
<1> QED
  BY <1>1, <1>4, <1>5

(* No neighbours that may merge score better than those at k, or as well   *)
(* and further left.                                                       *)
Foremost(e, k) ==
  \A m \in 1 .. Len(e) - 1 : Pairs(syms[e[m]], syms[e[m + 1]]) =>
    \/ scores[syms[e[k]] \o syms[e[k + 1]]] > scores[syms[e[m]] \o syms[e[m + 1]]]
    \/ /\ scores[syms[e[k]] \o syms[e[k + 1]]] = scores[syms[e[m]] \o syms[e[m + 1]]]
       /\ k <= m

(* The step merges the k-th piece in use with the next.                    *)
MergesAt(n, e, k) ==
  /\ Linked(n, e, syms, prev, nxt, alive) /\ k \in 1 .. Len(e) - 1
  /\ Pairs(syms[e[k]], syms[e[k + 1]]) /\ Foremost(e, k)
  /\ syms' = [syms EXCEPT ![e[k]] = syms[e[k]] \o syms[e[k + 1]]]
  /\ Linked(n, Without(e, k + 1), syms', prev', nxt', alive')

(* A live entry on top is the best pair of the list.                       *)
LEMMA TopIsForemost ==
  ASSUME scores \in Vocabularies, heap # <<>>, Fits(heap, syms, nxt, alive),
         NEW pop \in Popped, Live(pop.top),
         NEW n \in Nat, NEW e, Linked(n, e, syms, prev, nxt, alive), NEW k \in 1 .. Len(e) - 1,
         e[k] = pop.top.i, e[k + 1] = pop.top.j
  PROVE  Foremost(e, k)
<1> DEFINE top == pop.top
           i == e[k]
           joined == syms[i] \o syms[e[k + 1]]
<1>1. top \in Range(heap) /\ top \in Items /\ \A x \in Range(heap) : ~ Less(x, top)
  BY PopIs DEF Fits
<1>2. Candidate(top, syms)
  BY <1>1 DEF Fits
<1>3. top.piece = joined
  BY <1>2, LivePlace
<1>4. top.score = scores[joined] /\ top.score \in Int /\ top.i = i
  BY <1>1, <1>2, <1>3 DEF Candidate, Items
<1>5. ASSUME NEW m \in 1 .. Len(e) - 1, Pairs(syms[e[m]], syms[e[m + 1]])
      PROVE  \/ scores[joined] > scores[syms[e[m]] \o syms[e[m + 1]]]
             \/ scores[joined] = scores[syms[e[m]] \o syms[e[m + 1]]] /\ k <= m
  <2> DEFINE a == e[m]
             b == e[m + 1]
  <2>0. /\ Len(e) \in Nat /\ m \in 1 .. Len(e) /\ m + 1 \in 1 .. Len(e) /\ m < Len(e)
        /\ k \in 1 .. Len(e) /\ a \in 0 .. n - 1 /\ b \in 0 .. n - 1 /\ i \in 0 .. n - 1
    <3>1. e \in Seq(0 .. n - 1)
      BY DEF Linked
    <3>2. /\ Len(e) \in Nat /\ m \in 1 .. Len(e) /\ m + 1 \in 1 .. Len(e) /\ m < Len(e)
          /\ k \in 1 .. Len(e)
      BY ONLY <3>1, m \in 1 .. Len(e) - 1, k \in 1 .. Len(e) - 1
    <3> QED
      BY ONLY <3>1, <3>2
  <2>1. alive[a] /\ nxt[a] = b
    BY <2>0 DEF Linked
  <2>2. a \in DOMAIN syms /\ b \in DOMAIN syms
    BY <2>0 DEF Linked
  <2> HIDE DEF top, i, joined, a, b
  <2>3. Pairs(syms[a], syms[b])
    BY <1>5 DEF a, b
  <2>4. PICK x \in Range(heap) : x.i = a /\ x.j = b /\ x.piece = syms[a] \o syms[b]
    BY <2>1, <2>2, <2>3 DEF Fits, Waits
  <2>5. Candidate(x, syms) /\ x \in Items /\ ~ Less(x, top)
    <3>1. heap \in Seq(Items)
      BY DEF Fits, Heap
    <3>2. x \in Items
      BY <2>4, <3>1 DEF Range
    <3> QED
      BY <1>1, <2>4, <3>2 DEF Fits
  <2>6. x.score = scores[syms[a] \o syms[b]] /\ x.score \in Int
    BY <2>4, <2>5 DEF Candidate, Items
  <2>7. ~ (x.score > top.score) /\ ~ (x.score = top.score /\ a < i)
    BY <1>4, <2>4, <2>5 DEF Less
  <2>8. \/ top.score > x.score
        \/ top.score = x.score /\ ~ (a < i)
    BY <1>4, <2>6, <2>7
  <2>9. ~ (a < i) => k <= m
    <3>1. m < k => a < i
      BY <2>0 DEF Linked, a, i
    <3> QED
      BY <2>0, <3>1
  <2> QED
    BY <1>4, <2>6, <2>8, <2>9 DEF a, b
<1> QED
  BY <1>5 DEF Foremost

(* A merge takes the best pair of the list, and what is left still fits.   *)
LEMMA MergePairIs ==
  ASSUME MergeInv, MergePair
  PROVE  /\ MergeInv' /\ DOMAIN syms' = DOMAIN syms
         /\ \E n \in Nat : \E e, k : MergesAt(n, e, k)
<1>1. PICK n \in Nat : \E e : Linked(n, e, syms, prev, nxt, alive)
  BY DEF MergeInv, ListInv
<1>2. PICK e : Linked(n, e, syms, prev, nxt, alive)
  BY <1>1
<1>3. /\ scores \in Vocabularies /\ merging /\ heap # <<>> /\ Fits(heap, syms, nxt, alive)
      /\ scores' = scores /\ twin' = twin /\ merging' = merging /\ ids' = ids
  BY DEF MergeInv, MergeType, HeapInv, Fits, MergePair
<1>4. PICK pop \in Popped : /\ Live(pop.top)
                            /\ Grows(pop, pop.top.i, pop.top.j, syms', prev', nxt', alive', heap')
  BY DEF MergePair, Grows, Joins
<1>5. Candidate(pop.top, syms)
  BY <1>3, PopIs DEF Fits
<1>6. /\ Pairs(syms[pop.top.i], syms[pop.top.j])
      /\ pop.top.piece = syms[pop.top.i] \o syms[pop.top.j]
      /\ \E k \in 1 .. Len(e) - 1 : e[k] = pop.top.i /\ e[k + 1] = pop.top.j
  <2> DEFINE top == pop.top
  <2>1. n \in Nat /\ Linked(n, e, syms, prev, nxt, alive) /\ Candidate(top, syms) /\ Live(top)
    BY <1>1, <1>2, <1>4, <1>5
  <2> HIDE DEF top
  <2>2. /\ Pairs(syms[top.i], syms[top.j]) /\ top.piece = syms[top.i] \o syms[top.j]
        /\ \E k \in 1 .. Len(e) - 1 : e[k] = top.i /\ e[k + 1] = top.j
    BY ONLY <2>1, LivePlace
  <2> QED
    BY <2>2 DEF top
<1>7. PICK k \in 1 .. Len(e) - 1 : e[k] = pop.top.i /\ e[k + 1] = pop.top.j
  BY <1>6
<1>8. Linked(n, Without(e, k + 1), syms', prev', nxt', alive') /\ Fits(heap', syms', nxt', alive')
  <2>1. Grows(pop, e[k], e[k + 1], syms', prev', nxt', alive', heap')
    BY <1>4, <1>7
  <2> QED
    BY <1>2, <1>3, <1>4, <1>7, <2>1, GrownFits
<1>9. MergesAt(n, e, k)
  <2>1. Foremost(e, k)
    BY <1>2, <1>3, <1>4, <1>7, TopIsForemost
  <2>2. syms' = [syms EXCEPT ![e[k]] = syms[e[k]] \o syms[e[k + 1]]]
    BY <1>4, <1>6, <1>7 DEF Grows, Joins
  <2> QED
    BY <1>2, <1>6, <1>7, <1>8, <2>1, <2>2 DEF MergesAt
<1>10. MergeInv'
  <2>1. MergeType'
    BY <1>3 DEF MergeInv, MergeType
  <2>2. ListInv'
    BY <1>8 DEF ListInv
  <2>3. HeapInv'
    <3>1. Heap(heap)'
      BY <1>3, <1>8 DEF Fits, Heap
    <3>2. (\A x \in Range(heap) : Candidate(x, syms))'
      BY <1>3, <1>8 DEF Fits, Candidate
    <3>3. Waits(heap, syms, nxt, alive)'
      BY <1>3, <1>8 DEF Fits, Waits, Pairs
    <3> QED
      BY <3>1, <3>2, <3>3 DEF HeapInv
  <2> QED
    BY <2>1, <2>2, <2>3 DEF MergeInv
<1>11. DOMAIN syms' = DOMAIN syms
  BY <1>4 DEF Grows, Joins
<1> QED
  BY <1>9, <1>10, <1>11

(* A step past a stale entry leaves the list alone.                        *)
LEMMA SkipStaleIs ==
  ASSUME MergeInv, SkipStale
  PROVE  MergeInv'
<1>1. /\ scores \in Vocabularies /\ merging /\ heap # <<>> /\ Fits(heap, syms, nxt, alive)
      /\ ListInv /\ UNCHANGED <<scores, twin, list, merging, ids>>
  BY DEF MergeInv, MergeType, HeapInv, Fits, SkipStale
<1>2. PICK pop \in Popped : ~ Live(pop.top) /\ heap' = pop.rest
  BY DEF SkipStale
<1>3. Fits(heap', syms, nxt, alive)
  BY <1>1, <1>2, StaleFits
<1>4. HeapInv'
  <2>1. Heap(heap)'
    BY <1>1, <1>3 DEF Fits, Heap
  <2>2. (\A x \in Range(heap) : Candidate(x, syms))'
    BY <1>1, <1>3 DEF Fits, Candidate, list
  <2>3. Waits(heap, syms, nxt, alive)'
    <3>1. /\ scores' = scores /\ syms' = syms /\ nxt' = nxt /\ alive' = alive
          /\ Waits(heap', syms, nxt, alive)
      BY <1>1, <1>3 DEF Fits, list
    <3> QED
      BY ONLY <3>1 DEF Waits, Pairs
  <2> QED
    BY <2>1, <2>2, <2>3 DEF HeapInv
<1>5. MergeType' /\ ListInv'
  BY <1>1 DEF MergeInv, MergeType, ListInv, list
<1> QED
  BY <1>4, <1>5 DEF MergeInv

(* The last step hands out the pieces.                                     *)
LEMMA EndEncodeIs ==
  ASSUME MergeInv, EndEncode
  PROVE  MergeInv' /\ (DOMAIN syms # {} => ids' # <<>>)
<1>1. PICK n \in Nat : \E e : Linked(n, e, syms, prev, nxt, alive)
  BY DEF MergeInv, ListInv
<1>2. PICK e : Linked(n, e, syms, prev, nxt, alive)
  BY <1>1
<1>3. Pieces \in Seq(Seq(Char)) /\ (DOMAIN syms # {} => Pieces # <<>>)
  <2>1. Pieces \in Seq(Seq(Char) \ {<<>>}) /\ (DOMAIN syms # {} => Pieces # <<>>)
    BY <1>2, PiecesAre
  <2> HIDE DEF Pieces
  <2> QED
    BY <2>1
<1>4. ids' = Pieces /\ ~ merging' /\ merging' \in BOOLEAN /\ UNCHANGED <<scores, twin, list, heap>>
  BY DEF EndEncode
<1>5. MergeType' /\ ListInv'
  BY <1>3, <1>4 DEF MergeInv, MergeType, ListInv, list
<1>6. HeapInv'
  BY <1>4 DEF MergeInv, HeapInv, Heap, Candidate, list
<1> QED
  BY <1>3, <1>4, <1>5, <1>6 DEF MergeInv

(* Each step of the merge keeps its invariant.                             *)
LEMMA MergingIs ==
  ASSUME MergeInv, Merging
  PROVE  /\ MergeInv' /\ DOMAIN syms' = DOMAIN syms
         /\ merging' \/ (DOMAIN syms # {} => ids' # <<>>)
<1>1. CASE SkipStale
  BY <1>1, SkipStaleIs DEF SkipStale, MergeInv, MergeType, list
<1>2. CASE MergePair
  BY <1>2, MergePairIs DEF MergePair
<1>3. CASE EndEncode
  BY <1>3, EndEncodeIs DEF EndEncode, list
<1> QED
  BY <1>1, <1>2, <1>3 DEF Merging

-----------------------------------------------------------------------------
(* The merge inside a prompt.                                              *)

(* Nothing is encoded at first.                                            *)
LEMMA InitMerge ==
  ASSUME Init
  PROVE  MergeInv /\ Pieces = <<>>
<1>1. /\ syms = <<>> /\ prev = <<>> /\ nxt = <<>> /\ alive = <<>> /\ heap = <<>>
      /\ scores \in Vocabularies /\ twin \in {"py", "js"} /\ merging = FALSE /\ ids = <<>>
  BY DEF Init
<1>2. Linked(0, <<>>, syms, prev, nxt, alive)
  <2>1. 0 .. 0 - 1 = {} /\ DOMAIN <<>> = {} /\ Len(<<>>) = 0 /\ <<>> \in Seq({})
    OBVIOUS
  <2>2. \A T : <<>> \in [{} -> T]
    OBVIOUS
  <2>3. 1 .. 0 = {}
    OBVIOUS
  <2> QED
    BY ONLY <1>1, <2>1, <2>2, <2>3 DEF Linked
<1>3. Pieces = <<>>
  <2>1. Pieces \in Seq(Seq(Char) \ {<<>>}) /\ Len(Pieces) = Len(<<>>)
    BY <1>2, PiecesAre
  <2> HIDE DEF Pieces
  <2> QED
    BY <2>1
<1>4. ListInv
  BY <1>2 DEF ListInv
<1>5. HeapInv
  <2>1. Heap(<<>>) /\ Range(<<>>) = {}
    BY DEF Heap, Ordered, Range
  <2> QED
    BY <1>1, <2>1 DEF HeapInv
<1> QED
  <2>1. ids \in Seq(Seq(Char)) /\ merging \in BOOLEAN
    <3>1. \A T : <<>> \in Seq(T)
      OBVIOUS
    <3> QED
      BY ONLY <1>1, <3>1
  <2> HIDE DEF Pieces
  <2> QED
    BY <1>1, <1>3, <1>4, <1>5, <2>1 DEF MergeInv, MergeType

(* A step that changes none of the tokenizer's variables.                  *)
LEMMA RestIs ==
  ASSUME MergeInv, UNCHANGED vars
  PROVE  MergeInv' /\ Pieces' = Pieces
<1>1. MergeInv'
  BY DEF vars, MergeInv, MergeType, ListInv, HeapInv, Heap, Candidate, Waits, Pairs
<1>2. Pieces' = Pieces
  BY DEF vars, Pieces
<1> QED
  BY <1>1, <1>2

(* Texts are encoded one after the other, and nothing else touches the     *)
(* list.                                                                   *)
LEMMA StepIs ==
  ASSUME [PromptNext]_<<vars, promptVars>>
  PROVE  \/ \E text \in Queries \cup Catalogues : StartEncode(text)
         \/ Merging
         \/ UNCHANGED vars
<1>1. ASSUME NEW text \in Queries, EncodeQuery(text)
      PROVE  \E t \in Queries \cup Catalogues : StartEncode(t)
  BY <1>1 DEF EncodeQuery
<1>2. ASSUME NEW text \in Catalogues, EncodeTools(text)
      PROVE  \E t \in Queries \cup Catalogues : StartEncode(t)
  BY <1>2 DEF EncodeTools
<1>3. Merges => Merging
  BY DEF Merges
<1>4. Build \/ HttpParse \/ ConsoleParse => UNCHANGED vars
  BY DEF Build, HttpParse, ConsoleParse
<1>5. ASSUME NEW l \in RawLists, NEW n \in 0 .. MaxEnc + 1, SendRaw(l, n) PROVE UNCHANGED vars
  BY <1>5 DEF SendRaw
<1> QED
  BY <1>1, <1>2, <1>3, <1>4, <1>5 DEF PromptNext

(* The merge keeps its invariant through a whole prompt.                   *)
LEMMA StepInv ==
  ASSUME MergeInv, [PromptNext]_<<vars, promptVars>>
  PROVE  MergeInv'
<1>1. ASSUME NEW text \in Queries \cup Catalogues, StartEncode(text) PROVE MergeInv'
  <2>1. text \in Seq(Letters \cup {Blank} \cup DOMAIN Utf8)
    BY PromptAssumption
  <2> QED
    BY <1>1, <2>1, StartInv
<1>2. Merging => MergeInv'
  BY MergingIs
<1>3. UNCHANGED vars => MergeInv'
  BY RestIs
<1> QED
  BY <1>1, <1>2, <1>3, StepIs

(* The sequence s with x in place of its k-th and next elements.           *)
Spliced(s, k, x) ==
  [l \in 1 .. Len(s) - 1 |-> IF l < k THEN s[l] ELSE IF l = k THEN x ELSE s[l + 1]]

(* A stretch of two elements of a sequence replaced by one.                *)
LEMMA SpliceIs ==
  ASSUME NEW T, NEW s \in Seq(T), NEW k \in 1 .. Len(s) - 1, NEW x \in T
  PROVE  SubSeq(s, 1, k - 1) \o <<x>> \o SubSeq(s, k + 2, Len(s)) = Spliced(s, k, x)
<1> DEFINE a == SubSeq(s, 1, k - 1)
           c == SubSeq(s, k + 2, Len(s))
           ax == a \o <<x>>
           all == ax \o c
           N == Len(s)
<1>0. N \in Nat /\ k \in Nat /\ k >= 1 /\ k + 1 <= N
  OBVIOUS
<1>1. a \in Seq(T) /\ Len(a) = k - 1 /\ \A l \in 1 .. k - 1 : a[l] = s[l]
  BY <1>0
<1>2. c \in Seq(T) /\ Len(c) = N - k - 1 /\ \A l \in 1 .. N - k - 1 : c[l] = s[k + 1 + l]
  BY <1>0
<1>3. <<x>> \in Seq(T) /\ Len(<<x>>) = 1 /\ <<x>>[1] = x
  OBVIOUS
<1> HIDE DEF a, c, N
<1>4. /\ ax \in Seq(T) /\ Len(ax) = k
      /\ \A l \in 1 .. k : ax[l] = IF l < k THEN s[l] ELSE x
  <2>1. ax \in Seq(T) /\ Len(ax) = k - 1 + 1
    BY <1>0, <1>1, <1>3
  <2>2. ASSUME NEW l \in 1 .. k PROVE ax[l] = IF l < k THEN s[l] ELSE x
    <3>1. CASE l < k
      <4>1. l \in 1 .. k - 1
        BY ONLY <1>0, <3>1, l \in 1 .. k
      <4> QED
        BY <1>0, <1>1, <1>3, <3>1, <4>1
    <3>2. CASE ~ (l < k)
      <4>1. l = k
        BY ONLY <1>0, <3>2, l \in 1 .. k
      <4> QED
        BY <1>0, <1>1, <1>3, <3>2, <4>1
    <3> QED
      BY <3>1, <3>2
  <2> QED
    BY <1>0, <2>1, <2>2
<1> HIDE DEF ax
<1>5. all \in Seq(T) /\ Len(all) = N - 1 /\ all = [l \in 1 .. N - 1 |-> all[l]]
  <2>0. ax \in Seq(T) /\ c \in Seq(T)
    BY ONLY <1>2, <1>4
  <2>1. all \in Seq(T) /\ Len(all) = Len(ax) + Len(c)
    BY ONLY <2>0
  <2>2. Len(ax) + Len(c) = N - 1
    BY ONLY <1>0, <1>2, <1>4
  <2> HIDE DEF all
  <2>3. all = [l \in 1 .. Len(all) |-> all[l]]
    BY ONLY <2>1
  <2> QED
    BY ONLY <2>1, <2>2, <2>3
<1>6. ASSUME NEW l \in 1 .. N - 1
      PROVE  all[l] = IF l < k THEN s[l] ELSE IF l = k THEN x ELSE s[l + 1]
  <2>1. CASE l <= k
    <3>1. l \in 1 .. k
      BY ONLY <1>0, <2>1, l \in 1 .. N - 1
    <3>2. all[l] = ax[l]
      BY <1>0, <1>2, <1>4, <3>1
    <3> QED
      BY ONLY <1>0, <1>4, <3>1, <3>2
  <2>2. CASE ~ (l <= k)
    <3>1. l - k \in 1 .. N - k - 1 /\ k + 1 + (l - k) = l + 1 /\ ~ (l < k) /\ l # k
      BY ONLY <1>0, <2>2, l \in 1 .. N - 1
    <3>2. all[l] = c[l - k]
      BY <1>0, <1>2, <1>4, <3>1
    <3>3. c[l - k] = s[l + 1]
      BY ONLY <1>2, <3>1
    <3> QED
      BY ONLY <3>1, <3>2, <3>3
  <2> QED
    BY <2>1, <2>2
<1> DEFINE r == [l \in 1 .. N - 1 |-> IF l < k THEN s[l] ELSE IF l = k THEN x ELSE s[l + 1]]
<1>7. all = r
  <2> HIDE DEF all
  <2> QED
    BY ONLY <1>5, <1>6 DEF r
<1> QED
  BY <1>7 DEF N, ax, a, c, Spliced

-----------------------------------------------------------------------------
(* Both twins merge the best pair.                                         *)

(* Where the pieces may merge, and with what score.                        *)
LEMMA PlacesAre ==
  ASSUME NEW n \in Nat, NEW e, Linked(n, e, syms, prev, nxt, alive), NEW k
  PROVE  /\ k \in Greedy!Places <=> k \in 1 .. Len(e) - 1 /\ Pairs(syms[e[k]], syms[e[k + 1]])
         /\ k \in 1 .. Len(e) - 1 => Greedy!Joined(k) = syms[e[k]] \o syms[e[k + 1]]
<1> DEFINE P == Pieces
<1>1. P = [m \in 1 .. Len(e) |-> syms[e[m]]] /\ Len(P) = Len(e) /\ Len(e) \in Nat
  <2>1. Len(e) \in Nat
    BY DEF Linked
  <2> QED
    BY <2>1, PiecesAre
<1>2. /\ Greedy!Joined(k) = P[k] \o P[k + 1]
      /\ k \in Greedy!Places <=> /\ k \in 1 .. Len(P) - 1
                                 /\ P[k][1] \notin Bytes /\ P[k + 1][1] \notin Bytes
                                 /\ Greedy!Joined(k) \in DOMAIN scores
  BY DEF Greedy!Joined, Greedy!Places
<1> HIDE DEF P
<1>3. ASSUME k \in 1 .. Len(e) - 1 PROVE P[k] = syms[e[k]] /\ P[k + 1] = syms[e[k + 1]]
  <2>1. k \in 1 .. Len(e) /\ k + 1 \in 1 .. Len(e)
    BY ONLY <1>1, <1>3
  <2> QED
    BY ONLY <1>1, <2>1
<1> QED
  BY ONLY <1>1, <1>2, <1>3 DEF Pairs

(* A merge of the list is a merge of the pieces.                           *)
LEMMA MergesPieces ==
  ASSUME MergeInv, MergePair
  PROVE  Greedy!Merge
<1>1. PICK n \in Nat : \E e, k : MergesAt(n, e, k)
  BY MergePairIs
<1>2. PICK e, k : MergesAt(n, e, k)
  BY <1>1
<1> DEFINE P == Pieces
           N == Len(e)
           w == Without(e, k + 1)
           x == syms[e[k]] \o syms[e[k + 1]]
<1>3. /\ Linked(n, e, syms, prev, nxt, alive) /\ k \in 1 .. N - 1
      /\ Pairs(syms[e[k]], syms[e[k + 1]]) /\ Foremost(e, k)
      /\ syms' = [syms EXCEPT ![e[k]] = x]
      /\ Linked(n, w, syms', prev', nxt', alive')
  BY <1>2 DEF MergesAt
<1>4. merging /\ UNCHANGED <<scores, merging, ids>>
  BY DEF MergePair
<1>5. /\ \A m : m \in Greedy!Places <=> m \in 1 .. N - 1 /\ Pairs(syms[e[m]], syms[e[m + 1]])
      /\ \A m \in 1 .. N - 1 : Greedy!Joined(m) = syms[e[m]] \o syms[e[m + 1]]
  BY <1>1, <1>3, PlacesAre
<1>6. k \in Greedy!Places /\ Greedy!Joined(k) = x
  BY <1>3, <1>5
<1>7. Greedy!Best(k)
  <2> HIDE DEF N
  <2>1. \A m \in Greedy!Places :
          \/ scores[Greedy!Joined(k)] > scores[Greedy!Joined(m)]
          \/ scores[Greedy!Joined(k)] = scores[Greedy!Joined(m)] /\ k <= m
    BY <1>3, <1>5, <1>6 DEF Foremost, N
  <2> QED
    BY <2>1 DEF Greedy!Best
<1>8. P = [m \in 1 .. N |-> syms[e[m]]] /\ P \in Seq(Seq(Char) \ {<<>>}) /\ Len(P) = N
  BY <1>1, <1>3, PiecesAre
<1>9. P' = [l \in 1 .. Len(w) |-> syms'[w[l]]]
  <2>1. Along(syms', nxt') = [l \in 1 .. Len(w) |-> syms'[w[l]]]
    <3> HIDE DEF w
    <3>1. n \in Nat /\ Linked(n, w, syms', prev', nxt', alive')
      BY ONLY <1>1, <1>3
    <3> QED
      BY ONLY <3>1, AlongIs
  <2>2. P' = Along(syms', nxt')
    BY DEF Pieces, Along
  <2> QED
    BY <2>1, <2>2
<1>10. /\ N \in Nat /\ k \in Nat /\ k >= 1 /\ k + 1 <= N
       /\ \A m \in 1 .. N : e[m] \in 0 .. n - 1
       /\ Len(w) = N - 1 /\ \A l \in 1 .. N - 1 : w[l] = IF l < k + 1 THEN e[l] ELSE e[l + 1]
  <2>1. e \in Seq(0 .. n - 1) /\ w \in Seq(0 .. n - 1)
    BY <1>3 DEF Linked
  <2>2. N \in Nat /\ k \in Nat /\ k >= 1 /\ k + 1 <= N /\ \A m \in 1 .. N : e[m] \in 0 .. n - 1
    BY ONLY <1>3, <2>1
  <2>3. w = [l \in 1 .. N - 1 |-> IF l < k + 1 THEN e[l] ELSE e[l + 1]]
    BY DEF Without
  <2>4. Len(w) = N - 1
    <3> DEFINE M == N - 1
    <3>1. M \in Nat /\ DOMAIN w = 1 .. M
      BY <2>2, <2>3
    <3> HIDE DEF w, M
    <3>2. Len(w) = M
      BY ONLY <2>1, <3>1
    <3> QED
      BY <3>2 DEF M
  <2> QED
    BY ONLY <2>2, <2>3, <2>4
<1>11. /\ syms \in [0 .. n - 1 -> Seq(Char) \ {<<>>}]
       /\ \A l, m \in 1 .. N : l < m => e[l] < e[m]
  BY <1>3 DEF Linked
<1> HIDE DEF N, w, x, P

<1>12. ASSUME NEW l \in 1 .. N - 1
       PROVE  syms'[w[l]] = IF l < k THEN P[l] ELSE IF l = k THEN x ELSE P[l + 1]
  <2>1. l \in Nat /\ l \in 1 .. N /\ l + 1 \in 1 .. N /\ k \in 1 .. N
    BY ONLY <1>10, l \in 1 .. N - 1
  <2>2. CASE l = k
    <3>1. w[l] = e[k] /\ e[k] \in DOMAIN syms
      BY ONLY <1>10, <1>11, <2>1, <2>2, l \in 1 .. N - 1
    <3> QED
      BY ONLY <1>3, <1>10, <2>1, <2>2, <3>1
  <2>3. CASE l # k
    <3> DEFINE m == IF l < k + 1 THEN l ELSE l + 1
    <3>1. m \in 1 .. N /\ (m < k \/ k < m) /\ m = (IF l < k THEN l ELSE l + 1)
      BY ONLY <1>10, <2>1, <2>3, l \in 1 .. N - 1
    <3>2. w[l] = e[m]
      BY ONLY <1>10, l \in 1 .. N - 1
    <3> HIDE DEF m
    <3>3. e[m] \in 0 .. n - 1 /\ e[k] \in 0 .. n - 1 /\ e[m] # e[k]
      <4>1. e[m] < e[k] \/ e[k] < e[m]
        BY ONLY <1>11, <2>1, <3>1
      <4>2. e[m] \in 0 .. n - 1 /\ e[k] \in 0 .. n - 1
        BY ONLY <1>10, <2>1, <3>1
      <4> QED
        BY ONLY <1>1, <4>1, <4>2
    <3>4. syms'[e[m]] = syms[e[m]]
      BY ONLY <1>3, <1>11, <3>3
    <3>5. P[m] = syms[e[m]]
      BY ONLY <1>8, <3>1
    <3> QED
      BY ONLY <1>10, <2>1, <2>3, <3>1, <3>2, <3>4, <3>5
  <2> QED
    BY <2>2, <2>3
<1>13. P' = [l \in 1 .. N - 1 |-> IF l < k THEN P[l] ELSE IF l = k THEN x ELSE P[l + 1]]
  BY ONLY <1>9, <1>10, <1>12
<1>14. x \in Seq(Char) \ {<<>>}
  <2>1. k \in 1 .. N /\ k + 1 \in 1 .. N
    BY ONLY <1>10
  <2>2. syms[e[k]] \in Seq(Char) \ {<<>>} /\ syms[e[k + 1]] \in Seq(Char)
    BY <1>10, <1>11, <2>1
  <2> QED
    BY <2>2, JoinedIs DEF x
<1>15. P' = SubSeq(P, 1, k - 1) \o <<x>> \o SubSeq(P, k + 2, Len(P))
  <2> DEFINE T == Seq(Char) \ {<<>>}
             spliced == SubSeq(P, 1, k - 1) \o <<x>> \o SubSeq(P, k + 2, Len(P))
  <2>1. P \in Seq(T) /\ k \in 1 .. Len(P) - 1 /\ x \in T /\ Len(P) = N
    BY ONLY <1>3, <1>8, <1>14 DEF N
  <2> HIDE DEF T
  <2>2. spliced = Spliced(P, k, x)
    BY ONLY <2>1, SpliceIs
  <2> HIDE DEF spliced
  <2>3. P' = spliced
    BY ONLY <1>13, <2>1, <2>2 DEF Spliced
  <2> QED
    BY <2>3 DEF spliced
<1> QED
  BY <1>4, <1>6, <1>7, <1>15 DEF Greedy!Merge, P

(* The merge ends when no neighbours may merge.                            *)
LEMMA EndsGreedy ==
  ASSUME MergeInv, EndEncode
  PROVE  Greedy!End
<1>1. PICK n \in Nat : \E e : Linked(n, e, syms, prev, nxt, alive)
  BY DEF MergeInv, ListInv
<1>2. PICK e : Linked(n, e, syms, prev, nxt, alive)
  BY <1>1
<1>3. /\ merging /\ heap = <<>> /\ ids' = Pieces /\ merging' = FALSE
      /\ UNCHANGED <<scores, syms, nxt>>
  BY DEF EndEncode, list
<1>4. ASSUME NEW k \in Greedy!Places PROVE FALSE
  <2>1. k \in 1 .. Len(e) - 1 /\ Pairs(syms[e[k]], syms[e[k + 1]])
    BY <1>1, <1>2, PlacesAre
  <2>2. /\ Len(e) \in Nat /\ k \in 1 .. Len(e) /\ k + 1 \in 1 .. Len(e) /\ k < Len(e)
        /\ e[k] \in 0 .. n - 1 /\ e[k + 1] \in 0 .. n - 1
    <3>1. e \in Seq(0 .. n - 1)
      BY <1>2 DEF Linked
    <3>2. Len(e) \in Nat /\ k \in 1 .. Len(e) /\ k + 1 \in 1 .. Len(e) /\ k < Len(e)
      BY ONLY <2>1, <3>1
    <3> QED
      BY ONLY <3>1, <3>2
  <2>3. alive[e[k]] /\ nxt[e[k]] = e[k + 1] /\ DOMAIN syms = 0 .. n - 1
    BY <1>2, <2>2 DEF Linked
  <2>4. Waits(heap, syms, nxt, alive)
    BY <1>3 DEF MergeInv, HeapInv
  <2>5. Range(heap) # {}
    BY <2>1, <2>2, <2>3, <2>4 DEF Waits
  <2> QED
    BY <1>3, <2>5 DEF Range
<1>5. Pieces' = Pieces
  BY <1>3 DEF Pieces
<1> QED
  BY <1>3, <1>4, <1>5 DEF Greedy!End

(* A text starts as single characters and bytes.                           *)
LEMMA BeginsGreedy ==
  ASSUME MergeInv, NEW text \in Queries \cup Catalogues, StartEncode(text)
  PROVE  Greedy!Begin
<1>1. MergeInv' /\ \A i \in DOMAIN syms' : Len(syms'[i]) = 1
  <2>1. text \in Seq(Letters \cup {Blank} \cup DOMAIN Utf8)
    BY PromptAssumption
  <2> QED
    BY <2>1, StartInv
<1>2. PICK n \in Nat : \E e : Linked(n, e, syms', prev', nxt', alive')
  BY <1>1 DEF MergeInv, ListInv
<1>3. PICK e : Linked(n, e, syms', prev', nxt', alive')
  BY <1>2
<1>4. Pieces' = [k \in 1 .. Len(e) |-> syms'[e[k]]]
  <2>1. Along(syms', nxt') = [k \in 1 .. Len(e) |-> syms'[e[k]]]
    BY <1>2, <1>3, AlongIs
  <2>2. Pieces' = Along(syms', nxt')
    BY DEF Pieces, Along
  <2> QED
    BY <2>1, <2>2
<1>5. \A k \in 1 .. Len(e) : e[k] \in DOMAIN syms'
  <2>1. e \in Seq(0 .. n - 1) /\ DOMAIN syms' = 0 .. n - 1
    BY <1>3 DEF Linked
  <2> QED
    BY ONLY <2>1
<1>6. \A k \in DOMAIN Pieces' : Len(Pieces'[k]) = 1
  BY ONLY <1>1, <1>4, <1>5
<1>7. ~ merging /\ merging' /\ ids' = <<>> /\ UNCHANGED scores
  BY DEF StartEncode
<1> QED
  BY <1>6, <1>7 DEF Greedy!Begin

(* Every step of a prompt is a step of the greedy merge, or none of it.    *)
LEMMA StepRefines ==
  ASSUME MergeInv, [PromptNext]_<<vars, promptVars>>
  PROVE  [Greedy!Next]_(Greedy!vars)
<1>1. ASSUME NEW text \in Queries \cup Catalogues, StartEncode(text) PROVE Greedy!Next
  BY <1>1, BeginsGreedy DEF Greedy!Next
<1>2. MergePair => Greedy!Next
  BY MergesPieces DEF Greedy!Next
<1>3. EndEncode => Greedy!Next
  BY EndsGreedy DEF Greedy!Next
<1>4. SkipStale => UNCHANGED Greedy!vars
  BY DEF SkipStale, list, Pieces, Greedy!vars
<1>5. UNCHANGED vars => UNCHANGED Greedy!vars
  BY DEF vars, Pieces, Greedy!vars
<1> QED
  BY <1>1, <1>2, <1>3, <1>4, <1>5, StepIs DEF Merging

(* Whatever the vocabulary and the text, both tokenizers merge the         *)
(* best-scored pair at each step, the leftmost of equals, until none is    *)
(* left: bpe.js's stale entries and its own heap change nothing.           *)
THEOREM MergesGreedily == PromptSpec => ImplementsGreedy
<1>1. PromptInit => MergeInv /\ Greedy!Init
  BY InitMerge DEF PromptInit, Init, Greedy!Init
<1>2. MergeInv /\ [PromptNext]_<<vars, promptVars>> => MergeInv'
  BY StepInv
<1>3. MergeInv /\ [PromptNext]_<<vars, promptVars>> => [Greedy!Next]_(Greedy!vars)
  BY StepRefines
<1> QED
  BY <1>1, <1>2, <1>3, PTL DEF PromptSpec, ImplementsGreedy, Greedy!Spec

-----------------------------------------------------------------------------
(* A prompt arrives whole.                                                 *)

(* The first n elements of a sequence.                                     *)
LEMMA TakeIs ==
  ASSUME NEW T, NEW s \in Seq(T), NEW n \in Nat
  PROVE  /\ Take(s, n) \in Seq(T)
         /\ Len(Take(s, n)) = IF n < Len(s) THEN n ELSE Len(s)
         /\ \A k \in 1 .. Len(Take(s, n)) : Take(s, n)[k] = s[k]
<1> DEFINE m == IF n < Len(s) THEN n ELSE Len(s)
<1>1. m \in Nat /\ m <= Len(s) /\ Take(s, n) = SubSeq(s, 1, m)
  BY DEF Take
<1> HIDE DEF m
<1>2. /\ SubSeq(s, 1, m) \in Seq(T) /\ Len(SubSeq(s, 1, m)) = m
      /\ \A k \in 1 .. m : SubSeq(s, 1, m)[k] = s[k]
  BY ONLY <1>1, s \in Seq(T)
<1> QED
  BY ONLY <1>1, <1>2 DEF m

(* The sequence s starts the sequence t.                                   *)
LEMMA PrefixIs ==
  ASSUME NEW T, NEW s \in Seq(T), NEW t \in Seq(T), Len(s) <= Len(t),
         \A k \in 1 .. Len(s) : s[k] = t[k]
  PROVE  IsPrefix(s, t)
<1> DEFINE m == Len(s)
           a == SubSeq(s, 1, m)
           b == SubSeq(t, 1, m)
<1>1. m \in Nat /\ Len(t) \in Nat
  OBVIOUS
<1>2. a \in Seq(T) /\ Len(a) = m /\ \A k \in 1 .. m : a[k] = s[k]
  BY <1>1
<1>3. b \in Seq(T) /\ Len(b) = m /\ \A k \in 1 .. m : b[k] = t[k]
  BY <1>1
<1>4. a = b
  <2> HIDE DEF a, b, m
  <2>1. \A k \in 1 .. m : a[k] = b[k]
    BY <1>2, <1>3 DEF m
  <2> QED
    BY ONLY <1>2, <1>3, <2>1
<1> QED
  BY <1>4 DEF IsPrefix

(* A sequence cut by Take starts the sequence, and is all of it if n is    *)
(* not less than its length.                                               *)
LEMMA TakePrefix ==
  ASSUME NEW T, NEW s \in Seq(T), NEW n \in Nat
  PROVE  IsPrefix(Take(s, n), s) /\ (Len(s) <= n => Take(s, n) = s)
<1> DEFINE t == Take(s, n)
<1>1. /\ t \in Seq(T) /\ Len(t) = (IF n < Len(s) THEN n ELSE Len(s))
      /\ \A k \in 1 .. Len(t) : t[k] = s[k]
  BY TakeIs
<1>2. Len(s) \in Nat
  OBVIOUS
<1> HIDE DEF t
<1>3. Len(t) <= Len(s)
  BY ONLY <1>1, <1>2, n \in Nat
<1>4. IsPrefix(t, s)
  BY ONLY <1>1, <1>3, s \in Seq(T), PrefixIs
<1>5. Len(s) <= n => t = s
  <2> HAVE Len(s) <= n
  <2>1. Len(t) = Len(s)
    BY ONLY <1>1, <1>2, Len(s) <= n, n \in Nat
  <2> QED
    BY ONLY <1>1, <2>1, s \in Seq(T)
<1> QED
  BY <1>4, <1>5 DEF t

(* What starts the start of a sequence starts the sequence.                *)
LEMMA PrefixTwice ==
  ASSUME NEW T, NEW s \in Seq(T), NEW m \in Nat, NEW n \in Nat
  PROVE  IsPrefix(Take(Take(s, m), n), s)
<1> DEFINE t == Take(s, m)
           u == Take(t, n)
<1>1. /\ t \in Seq(T) /\ Len(t) = (IF m < Len(s) THEN m ELSE Len(s))
      /\ \A k \in 1 .. Len(t) : t[k] = s[k]
  BY TakeIs
<1> HIDE DEF t
<1>2. /\ u \in Seq(T) /\ Len(u) = (IF n < Len(t) THEN n ELSE Len(t))
      /\ \A k \in 1 .. Len(u) : u[k] = t[k]
  BY ONLY <1>1, n \in Nat, TakeIs
<1> HIDE DEF u
<1>3. Len(s) \in Nat /\ Len(t) \in Nat /\ Len(u) \in Nat
  BY ONLY <1>1, <1>2, s \in Seq(T)
<1>4. Len(u) <= Len(t) /\ Len(t) <= Len(s) /\ Len(u) <= Len(s)
  BY ONLY <1>1, <1>2, <1>3, m \in Nat, n \in Nat
<1>5. \A k \in 1 .. Len(u) : u[k] = s[k]
  <2>1. \A k \in 1 .. Len(u) : k \in 1 .. Len(t)
    BY ONLY <1>3, <1>4
  <2> QED
    BY ONLY <1>1, <1>2, <2>1
<1>6. IsPrefix(u, s)
  BY ONLY <1>2, <1>4, <1>5, s \in Seq(T), PrefixIs
<1> QED
  BY <1>6 DEF u, t

(* The list l is a query's ids, the id of <tools> and ids of the tools.    *)
Whole(l) ==
  /\ l \in Seq(Seq(Char) \cup {ToolsId}) /\ Len(l) <= MaxEnc
  /\ \E k \in 1 .. Len(l) - 1 : l[k] = ToolsId

(* What each stage of a prompt may rely on.                                *)
StageInv ==
  /\ q \in Seq(Seq(Char)) /\ Len(q) <= MaxEnc - 2
  /\ stage = "tools" => IF merging THEN DOMAIN syms # {} ELSE ids # <<>>
  /\ \E T : sent \in Seq(T)
  /\ declared \in Nat
  /\ built => stage \in {"send", "done"} /\ Whole(sent) /\ declared = Len(sent)

PromptInv == MergeInv /\ StageInv /\ ArrivesWhole

(* A whole list has neither a word nor a number that is no id in it.       *)
LEMMA WholeIs ==
  ASSUME NEW l, Whole(l)
  PROVE  /\ Len(l) \in Nat /\ Len(l) > 1 /\ l # <<>>
         /\ \A k \in DOMAIN l : l[k] # Word /\ l[k] # OutOfRange
<1>1. \A w \in {OutOfRange, Word} : w \notin Seq(Char) \cup {ToolsId}
  BY PromptAssumption DEF Char
<1>2. \A k \in DOMAIN l : l[k] \in Seq(Char) \cup {ToolsId}
  BY DEF Whole
<1>3. Len(l) \in Nat /\ Len(l) > 1 /\ l # <<>>
  <2>1. Len(l) \in Nat
    BY DEF Whole
  <2>2. PICK k \in 1 .. Len(l) - 1 : l[k] = ToolsId
    BY DEF Whole
  <2>3. Len(l) > 1
    BY ONLY <2>1, <2>2
  <2> QED
    BY <2>1, <2>3
<1> QED
  BY <1>1, <1>2, <1>3

(* The query takes all places but two, the tools what is left: one each at *)
(* least for the id of <tools> and for a tool.                             *)
LEMMA BuildIs ==
  ASSUME PromptInv, Build
  PROVE  Whole(sent')
<1> DEFINE left == MaxEnc - Len(q) - 1
           t == Take(ids, left)
           T == Seq(Char) \cup {ToolsId}
<1>1. /\ q \in Seq(Seq(Char)) /\ Len(q) <= MaxEnc - 2 /\ ids \in Seq(Seq(Char)) /\ ids # <<>>
      /\ MaxEnc \in Nat
  BY PromptAssumption DEF PromptInv, StageInv, MergeInv, MergeType, Build
<1>2. Len(q) \in Nat /\ left \in Nat /\ left >= 1 /\ Len(ids) \in Nat /\ Len(ids) >= 1
  <2>1. Len(q) \in Nat /\ Len(ids) \in Nat /\ Len(ids) # 0
    BY ONLY <1>1
  <2> QED
    BY ONLY <1>1, <2>1
<1>3. sent' = (q \o <<ToolsId>>) \o t
  BY DEF Build
<1> HIDE DEF left
<1>4. /\ t \in Seq(Seq(Char))
      /\ Len(t) = IF left < Len(ids) THEN left ELSE Len(ids)
  BY ONLY <1>1, <1>2, TakeIs
<1>5. Len(t) \in Nat /\ Len(t) >= 1 /\ Len(t) <= left
  BY ONLY <1>2, <1>4
<1> HIDE DEF t
<1>6. q \in Seq(T) /\ <<ToolsId>> \in Seq(T) /\ t \in Seq(T) /\ Len(<<ToolsId>>) = 1
  BY <1>1, <1>4
<1> HIDE DEF T
<1> DEFINE head == q \o <<ToolsId>>
<1>7. head \in Seq(T) /\ Len(head) = Len(q) + 1 /\ head[Len(q) + 1] = ToolsId
  <2>1. head \in Seq(T) /\ Len(head) = Len(q) + 1
    BY ONLY <1>6
  <2>2. Len(q) + 1 \in 1 .. Len(q) + Len(<<ToolsId>>) /\ ~ (Len(q) + 1 <= Len(q))
    BY ONLY <1>2, <1>6
  <2>3. head[Len(q) + 1] = <<ToolsId>>[Len(q) + 1 - Len(q)] /\ Len(q) + 1 - Len(q) = 1
    BY ONLY <1>2, <1>6, <2>2
  <2> QED
    BY ONLY <2>1, <2>3
<1> HIDE DEF head
<1> DEFINE l == head \o t
<1>8. l \in Seq(T) /\ Len(l) = Len(q) + 1 + Len(t) /\ l[Len(q) + 1] = ToolsId
  <2>1. l \in Seq(T) /\ Len(l) = Len(head) + Len(t)
    BY ONLY <1>6, <1>7
  <2>2. Len(q) + 1 \in 1 .. Len(head)
    BY ONLY <1>2, <1>7
  <2>3. l[Len(q) + 1] = head[Len(q) + 1]
    BY ONLY <1>6, <1>7, <2>2
  <2> QED
    BY ONLY <1>7, <2>1, <2>3
<1> HIDE DEF l
<1>9. Len(l) <= MaxEnc /\ Len(q) + 1 \in 1 .. Len(l) - 1
  BY ONLY <1>1, <1>2, <1>5, <1>8 DEF left
<1>10. Whole(l)
  BY <1>8, <1>9 DEF Whole, T
<1> QED
  BY <1>3, <1>10 DEF l, head

(* The board's two parsers: a list built here is read whole, and of any    *)
(* other a start at most.                                                  *)
LEMMA ParsedIs ==
  ASSUME PromptInv, HttpParse \/ ConsoleParse
  PROVE  /\ built => ran' = sent
         /\ ran' # Refused => IsPrefix(ran', sent) /\ OutOfRange \notin Range(ran')
<1>1. PICK T : sent \in Seq(T)
  BY DEF PromptInv, StageInv
<1>2. /\ declared \in Nat /\ (built => Whole(sent) /\ declared = Len(sent))
      /\ MaxEnc \in Nat /\ Len(sent) \in Nat
  BY <1>1, PromptAssumption DEF PromptInv, StageInv
<1>3. CASE HttpParse
  <2> DEFINE words == {k \in DOMAIN sent : sent[k] = Word}
             m == IF words = {} THEN Len(sent) ELSE Min(words) - 1
             before == Take(sent, m)
             read == Take(before, MaxEnc)
  <2>1. \/ ran' = IF read = <<>> \/ OutOfRange \in Range(read) THEN Refused ELSE read
        \/ ~built /\ ran' = Refused
    BY <1>3 DEF HttpParse
  <2>2. m \in Nat
    <3>1. CASE words = {}
      BY <1>2, <3>1
    <3>2. CASE words # {}
      <4>1. words \subseteq Nat /\ \A k \in words : k >= 1
        BY <1>1
      <4>2. \E k \in words : \A l \in words : k <= l
        <5> HIDE DEF words
        <5>1. PICK k \in words : \A l \in words : ~ (l < k)
          BY <3>2, <4>1, NatLeast
        <5>2. \A l \in words : k <= l
          BY ONLY <4>1, <5>1
        <5> QED
          BY <5>2
      <4> HIDE DEF words
      <4>3. Min(words) \in words
        BY <4>2 DEF Min
      <4>4. Min(words) \in Nat /\ Min(words) >= 1
        BY ONLY <4>1, <4>3
      <4>5. Min(words) - 1 \in Nat
        BY ONLY <4>4
      <4> QED
        BY <3>2, <4>5
    <3> QED
      BY <3>1, <3>2
  <2>3. ASSUME built PROVE words = {} /\ m = Len(sent) /\ OutOfRange \notin Range(sent) /\ sent # <<>>
    <3>1. Whole(sent)
      BY <1>2, <2>3
    <3>2. sent # <<>> /\ \A k \in DOMAIN sent : sent[k] # Word /\ sent[k] # OutOfRange
      BY <3>1, WholeIs
    <3> QED
      BY <3>2 DEF Range
  <2> HIDE DEF m
  <2>4. IsPrefix(read, sent)
    BY ONLY <1>1, <1>2, <2>2, PrefixTwice
  <2>5. ASSUME built PROVE read = sent
    <3>1. before = sent
      <4>1. Len(sent) <= m
        BY <1>2, <2>3, <2>5
      <4> QED
        BY ONLY <1>1, <2>2, <4>1, TakePrefix
    <3>2. Len(sent) <= MaxEnc
      BY <1>2, <2>5 DEF Whole
    <3> QED
      BY ONLY <1>1, <1>2, <3>1, <3>2, TakePrefix
  <2> HIDE DEF read
  <2> QED
    BY <2>1, <2>3, <2>4, <2>5
<1>4. CASE ConsoleParse
  <2> DEFINE read == Take(sent, declared)
             bad == \/ declared <= 0 \/ declared > MaxEnc
                    \/ Len(read) < declared \/ {OutOfRange, Word} \cap Range(read) # {}
  <2>1. ran' = IF bad THEN Refused ELSE read
    BY <1>4 DEF ConsoleParse
  <2>2. IsPrefix(read, sent) /\ (Len(sent) <= declared => read = sent)
    BY ONLY <1>1, <1>2, TakePrefix
  <2>3. ASSUME built PROVE read = sent /\ ~ bad
    <3>1. Whole(sent) /\ declared = Len(sent) /\ Len(sent) <= MaxEnc
      BY <1>2, <2>3 DEF Whole
    <3>2. /\ Len(sent) > 1 /\ \A k \in DOMAIN sent : sent[k] # Word /\ sent[k] # OutOfRange
      BY <3>1, WholeIs
    <3>3. read = sent
      BY <1>2, <2>2, <3>1
    <3>4. ~ (declared <= 0) /\ ~ (declared > MaxEnc) /\ ~ (Len(sent) < declared)
      BY ONLY <1>2, <3>1, <3>2
    <3>5. {OutOfRange, Word} \cap Range(sent) = {}
      BY <3>2 DEF Range
    <3> HIDE DEF read
    <3> QED
      BY ONLY <3>3, <3>4, <3>5
  <2>4. ~ bad => OutOfRange \notin Range(read)
    OBVIOUS
  <2> HIDE DEF read, bad
  <2> QED
    BY <2>1, <2>2, <2>3, <2>4
<1> QED
  BY <1>3, <1>4

(* Each stage hands the next what it relies on.                            *)
LEMMA StageStep ==
  ASSUME PromptInv, [PromptNext]_<<vars, promptVars>>
  PROVE  StageInv' /\ ArrivesWhole'
<1>1. /\ MaxEnc \in Nat /\ MaxEnc > 2
      /\ \A text \in Queries \cup Catalogues : text \in Seq(Letters \cup {Blank} \cup DOMAIN Utf8)
  BY PromptAssumption
<1>2. \A T : <<>> \in Seq(T) /\ Len(<<>>) = 0
  OBVIOUS
<1>3. ASSUME NEW text \in Queries, EncodeQuery(text) PROVE StageInv' /\ ArrivesWhole'
  <2>1. /\ stage' = "query" /\ q' = <<>> /\ built' = FALSE /\ sent' = <<>> /\ declared' = 0
    BY <1>3 DEF EncodeQuery
  <2>2. q' \in Seq(Seq(Char)) /\ Len(q') <= MaxEnc - 2 /\ sent' \in Seq({}) /\ declared' \in Nat
    BY ONLY <1>1, <1>2, <2>1
  <2> QED
    BY <2>1, <2>2 DEF StageInv, ArrivesWhole
<1>4. ASSUME NEW text \in Catalogues, EncodeTools(text) PROVE StageInv' /\ ArrivesWhole'
  <2>1. /\ stage = "query" /\ stage' = "tools" /\ q' = Take(ids, MaxEnc - 2)
        /\ StartEncode(text) /\ UNCHANGED <<built, sent, declared, ran>>
    BY <1>4 DEF EncodeTools
  <2>2. DOMAIN syms' # {} /\ merging'
    <3>1. \E k \in DOMAIN text : text[k] # Blank
      BY PromptAssumption
    <3> QED
      BY <1>1, <2>1, <3>1, StartInv DEF PromptInv, StartEncode
  <2>3. q' \in Seq(Seq(Char)) /\ Len(q') <= MaxEnc - 2
    <3> DEFINE m == MaxEnc - 2
    <3>1. ids \in Seq(Seq(Char)) /\ m \in Nat
      BY <1>1 DEF PromptInv, MergeInv, MergeType
    <3> HIDE DEF m
    <3>2. Take(ids, m) \in Seq(Seq(Char)) /\ Len(Take(ids, m)) = IF m < Len(ids) THEN m ELSE Len(ids)
      BY ONLY <3>1, TakeIs
    <3>3. Len(ids) \in Nat
      BY ONLY <3>1
    <3>4. Len(Take(ids, m)) <= m
      BY ONLY <3>1, <3>2, <3>3
    <3> QED
      BY <2>1, <3>2, <3>4 DEF m
  <2>4. ~ built
    BY <2>1 DEF PromptInv, StageInv
  <2>5. (\E T : sent \in Seq(T)) /\ declared \in Nat
    BY DEF PromptInv, StageInv
  <2> QED
    BY <2>1, <2>2, <2>3, <2>4, <2>5 DEF StageInv, ArrivesWhole
<1>5. ASSUME Merges PROVE StageInv' /\ ArrivesWhole'
  <2>1. UNCHANGED promptVars /\ Merging /\ merging
    BY <1>5 DEF Merges, Merging, SkipStale, MergePair, EndEncode
  <2>2. DOMAIN syms' = DOMAIN syms /\ (merging' \/ (DOMAIN syms # {} => ids' # <<>>))
    BY <2>1, MergingIs DEF PromptInv
  <2>3. MergeInv'
    BY <2>1, MergingIs DEF PromptInv
  <2>4. stage' = "tools" => IF merging' THEN DOMAIN syms' # {} ELSE ids' # <<>>
    BY <2>1, <2>2 DEF PromptInv, StageInv, promptVars
  <2>5. /\ UNCHANGED <<stage, q, built, sent, declared, ran>>
    BY <2>1 DEF promptVars
  <2>6. StageInv'
    BY <2>4, <2>5 DEF PromptInv, StageInv, Whole
  <2>7. ArrivesWhole'
    BY <2>5 DEF PromptInv, ArrivesWhole
  <2> QED
    BY <2>6, <2>7
<1>6. ASSUME Build PROVE StageInv' /\ ArrivesWhole'
  <2>1. stage' = "send" /\ declared' = Len(sent') /\ UNCHANGED q
    BY <1>6 DEF Build
  <2>2. Whole(sent')
    BY <1>6, BuildIs
  <2>3. (\E T : sent' \in Seq(T)) /\ Len(sent') \in Nat
    BY <2>2, WholeIs DEF Whole
  <2>4. q \in Seq(Seq(Char)) /\ Len(q) <= MaxEnc - 2
    BY DEF PromptInv, StageInv
  <2> QED
    BY <2>1, <2>2, <2>3, <2>4 DEF StageInv, ArrivesWhole, Whole
<1>7. ASSUME NEW l \in RawLists, NEW n \in 0 .. MaxEnc + 1, SendRaw(l, n)
      PROVE  StageInv' /\ ArrivesWhole'
  <2>1. /\ stage = "idle" /\ stage' = "send" /\ sent' = l /\ declared' = n
        /\ UNCHANGED <<q, built>>
    BY <1>7 DEF SendRaw
  <2>2. ~ built /\ q \in Seq(Seq(Char)) /\ Len(q) <= MaxEnc - 2
    BY <2>1 DEF PromptInv, StageInv
  <2>3. l \in Seq(Range(l)) /\ n \in Nat
    BY <1>1, PromptAssumption
  <2> QED
    BY <2>1, <2>2, <2>3 DEF StageInv, ArrivesWhole
<1>8. ASSUME HttpParse \/ ConsoleParse PROVE StageInv' /\ ArrivesWhole'
  <2>1. stage = "send" /\ stage' = "done" /\ UNCHANGED <<q, built, sent, declared>>
    BY <1>8 DEF HttpParse, ConsoleParse
  <2>2. /\ built => ran' = sent
        /\ ran' # Refused => IsPrefix(ran', sent) /\ OutOfRange \notin Range(ran')
    BY <1>8, ParsedIs
  <2>3. StageInv'
    BY <2>1 DEF PromptInv, StageInv, Whole
  <2>4. built => \E k \in 1 .. Len(sent) - 1 : sent[k] = ToolsId
    BY DEF PromptInv, StageInv, Whole
  <2>5. ArrivesWhole'
    BY <2>1, <2>2, <2>4 DEF ArrivesWhole
  <2> QED
    BY <2>3, <2>5
<1>9. ASSUME UNCHANGED <<vars, promptVars>> PROVE StageInv' /\ ArrivesWhole'
  <2>1. UNCHANGED <<stage, q, built, sent, declared, ran, merging, syms, ids>>
    BY <1>9 DEF vars, promptVars
  <2>2. StageInv'
    BY <2>1 DEF PromptInv, StageInv, Whole
  <2>3. ArrivesWhole'
    BY <2>1 DEF PromptInv, ArrivesWhole
  <2> QED
    BY <2>2, <2>3
<1> QED
  BY <1>3, <1>4, <1>5, <1>6, <1>7, <1>8, <1>9 DEF PromptNext

(* The invariant of a prompt holds in every state.                         *)
THEOREM PromptCorrect == PromptSpec => []PromptInv
<1>1. PromptInit => PromptInv
  <2> SUFFICES ASSUME PromptInit PROVE PromptInv
    OBVIOUS
  <2>1. MergeInv
    BY InitMerge DEF PromptInit
  <2>2. stage = "idle" /\ q = <<>> /\ built = FALSE /\ sent = <<>> /\ declared = 0
    BY DEF PromptInit
  <2>3. \A T : <<>> \in Seq(T) /\ Len(<<>>) = 0
    OBVIOUS
  <2>4. q \in Seq(Seq(Char)) /\ Len(q) <= MaxEnc - 2 /\ sent \in Seq({}) /\ declared \in Nat
    BY ONLY <2>2, <2>3, PromptAssumption
  <2> QED
    BY <2>1, <2>2, <2>4 DEF PromptInv, StageInv, ArrivesWhole
<1>2. PromptInv /\ [PromptNext]_<<vars, promptVars>> => PromptInv'
  BY StepInv, StageStep DEF PromptInv
<1> QED
  BY <1>1, <1>2, PTL DEF PromptSpec

(* Whatever the query and the tools, a prompt built by build_encoder_input *)
(* is read whole by either parser of the board; of other lists it reads a  *)
(* start.                                                                  *)
THEOREM PromptArrives == PromptSpec => []ArrivesWhole
<1>1. PromptInv => ArrivesWhole
  BY DEF PromptInv
<1> QED
  BY <1>1, PromptCorrect, PTL

=============================================================================
