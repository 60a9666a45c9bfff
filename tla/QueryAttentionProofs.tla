------------------------ MODULE QueryAttentionProofs ------------------------
(***************************************************************************)
(* Attention and its mirrors for any numbers of layers, heads, dimensions, *)
(* lengths and queries, one after the other.                               *)
(*                                                                         *)
(* The buffers are flat and their strides are symbols, so the arithmetic   *)
(* comes first: Cell takes an address apart, StoredAt says what a slab     *)
(* written at one layer does to another.  MirrorInv then carries what the  *)
(* readers find, layer by layer; ArenaInv what the two cores have in their *)
(* scratch at each point of a row, and which rows are done.                *)
(***************************************************************************)
EXTENDS QueryAttention, TLAPS

MirrorType ==
  /\ pc \in {"idle", "pack", "ready", "step"}
  /\ query \in Nat /\ scalar \in BOOLEAN /\ layer \in LayerIds
  /\ enc_len \in 0 .. MaxEnc /\ dec_len \in 0 .. MaxGen
  /\ DOMAIN cross_kq = 0 .. Layers * (KvHeads * MaxEnc * HeadDim) - 1
  /\ DOMAIN cross_ksc = 0 .. Layers * (KvHeads * MaxEnc) - 1
  /\ DOMAIN cross_vq = 0 .. Layers * (KvHeads * HeadDim * VCap) - 1
  /\ DOMAIN self_kq = 0 .. Layers * (KvHeads * MaxGen * HeadDim) - 1
  /\ DOMAIN self_ksc = 0 .. Layers * (KvHeads * MaxGen) - 1
  /\ DOMAIN self_vq = 0 .. Layers * (KvHeads * HeadDim * SelfSp) - 1

(* Where a query stands.                                                   *)
QueryInv ==
  /\ pc # "idle" => enc_len \in 1 .. MaxEnc /\ cross_sp = Round(enc_len, SpAlign)
  /\ pc = "pack" => dec_len = 0
  /\ pc = "ready" => layer = 0
  /\ pc = "step" => dec_len < MaxGen

(* What cross-attention finds at layer l.                                  *)
CrossKeys(l) ==
  \A h \in HeadIds, t \in 0 .. enc_len - 1 :
    /\ \A d \in Dims : CrossKey(l, h, t, d) = <<query, l, h, t, d>>
    /\ CrossKeyScale(l, h, t) = <<query, l, h, t>>
CrossValues(l) ==
  \A h \in HeadIds, d \in Dims, t \in 0 .. cross_sp - 1 :
    CrossValue(l, h, d, t) = IF t < enc_len THEN <<query, l, h, t, d>> ELSE Zero

CrossInv ==
  /\ pc = "pack" => \A l \in 0 .. layer - 1 : CrossKeys(l) /\ CrossValues(l)
  /\ pc \in {"ready", "step"} => \A l \in LayerIds : CrossKeys(l) /\ CrossValues(l)

(* What self-attention finds at layer l when n tokens are behind it.       *)
SelfKeys(l, n) ==
  \A h \in HeadIds, t \in 0 .. n - 1 :
    /\ \A d \in Dims : SelfKey(l, h, t, d) = <<query, l, h, t, d>>
    /\ SelfKeyScale(l, h, t) = <<query, l, h, t>>
SelfValues(l, n) ==
  \A h \in HeadIds, d \in Dims, t \in 0 .. SelfSp - 1 :
    SelfValue(l, h, d, t) = IF t < n THEN <<query, l, h, t, d>> ELSE Zero

SelfInv ==
  pc \in {"ready", "step"} /\ ~scalar =>
    \A l \in LayerIds : /\ SelfKeys(l, Attended(l))
                        /\ Attended(l) > 0 => SelfValues(l, Attended(l))

MirrorInv == MirrorType /\ QueryInv /\ CrossInv /\ SelfInv

-----------------------------------------------------------------------------

(* The job's lengths and what is packed for it.                            *)
JobInv ==
  /\ encoded \in Nat /\ keys \in 0 .. MaxEnc
  /\ DOMAIN arena_kq = 0 .. KvHeads * MaxEnc - 1
  /\ DOMAIN arena_vq = 0 .. KvHeads * MaxEnc - 1
  /\ encoded > 0 =>
       /\ keys \in 1 .. MaxEnc /\ lanes \in keys .. MaxEnc
       /\ \A g \in HeadIds, r \in 0 .. keys - 1 :
            arena_kq[g * keys + r] = <<"k", encoded, g, r>>
       /\ \A g \in HeadIds, r \in 0 .. lanes - 1 :
            arena_vq[g * lanes + r] = IF r < keys THEN <<"v", encoded, g, r>> ELSE E!Zero

(* The two calls of split_attn, or the one without it.                     *)
RangeInv ==
  /\ DOMAIN range = E!Core /\ DOMAIN pos = E!Core
  /\ \A c \in E!Core : pos[c] = [i |-> pos[c].i, t |-> pos[c].t, at |-> pos[c].at]
  /\ \/ range[0] = <<0, KvHeads>> /\ range[1] = <<KvHeads, Heads>>
     \/ range[0] = <<0, Heads>> /\ range[1] = <<0, 0>>
     \/ encoded = 0 /\ range[0] = <<0, 0>> /\ range[1] = <<0, 0>>

(* A core in the middle of a row.                                          *)
Active(c) == pos[c].at # "off"

PosInv(c) ==
  Active(c) =>
    /\ encoded > 0
    /\ pos[c].at \in {"query", "scores", "probs", "values"}
    /\ pos[c].i \in range[c][1] .. range[c][2] - 1
    /\ pos[c].t \in 0 .. keys - 1

QRow(c) == <<"q", encoded, E!HeadOf(pos[c].i), pos[c].t>>
KeyOf(c, r) == <<"k", encoded, E!Kv(E!HeadOf(pos[c].i)), r>>

(* Its scratch set, and how far the row has come.                          *)
ScratchInv(c) ==
  LET w == work[E!Slot(c)]
  IN  /\ pos[c].at = "scores" => w.qq = QRow(c)
      /\ pos[c].at = "probs" =>
           \A r \in 0 .. keys - 1 : w.iw[r] = <<QRow(c), KeyOf(c, r)>>
      /\ pos[c].at = "values" =>
           \A r \in 0 .. lanes - 1 :
             w.pq[r] = IF r < keys THEN <<"p", <<QRow(c), KeyOf(c, r)>>>> ELSE E!Zero

ScratchType ==
  /\ DOMAIN work = E!Core
  /\ \A s \in E!Core :
       LET w == work[s]
       IN  /\ w = [qq |-> w.qq, iw |-> w.iw, pq |-> w.pq]
           /\ DOMAIN w.iw = 0 .. MaxEnc - 1 /\ DOMAIN w.pq = 0 .. MaxEnc - 1

(* Rows core c is through with.                                            *)
Through(c, i, t) == Active(c) => i < pos[c].i \/ (i = pos[c].i /\ t < pos[c].t)

DoneInv(c) ==
  encoded > 0 =>
    \A i \in range[c][1] .. range[c][2] - 1, t \in 0 .. keys - 1 :
      Through(c, i, t) => ao[E!HeadOf(i)][t] = E!Expected(E!HeadOf(i), t)

OutType ==
  /\ DOMAIN ao = E!Head
  /\ \A h \in E!Head : DOMAIN ao[h] = 0 .. MaxEnc - 1

ArenaInv ==
  /\ JobInv /\ RangeInv /\ ScratchType /\ OutType
  /\ \A c \in E!Core : PosInv(c) /\ ScratchInv(c) /\ DoneInv(c)

-----------------------------------------------------------------------------
(* Addresses.                                                              *)

(* A row-major cell, put together and taken apart.                         *)
LEMMA Cell ==
  ASSUME NEW n \in Nat \ {0}, NEW m \in Nat, NEW a \in 0 .. m - 1, NEW b \in 0 .. n - 1
  PROVE  /\ a * n + b \in 0 .. m * n - 1
         /\ (a * n + b) \div n = a /\ (a * n + b) % n = b
<1>1. (a * n + b) \div n = a /\ (a * n + b) % n = b
  OBVIOUS
<1>2. a * n + b >= 0 /\ a * n + b \in Int
  OBVIOUS
<1>3. (a + 1) * n <= m * n
  <2>1. a + 1 <= m /\ a + 1 \in Nat
    OBVIOUS
  <2>2. ASSUME NEW e \in Nat, e <= m PROVE e * n <= m * n
    BY <2>2
  <2> QED
    BY <2>1, <2>2
<1>4. (a + 1) * n = a * n + n /\ a * n \in Int /\ m * n \in Int
  OBVIOUS
<1> QED
  BY <1>1, <1>2, <1>3, <1>4

(* Cells of different rows of slabs are different.                         *)
LEMMA Apart ==
  ASSUME NEW n \in Nat \ {0}, NEW a \in Nat, NEW c \in Nat, NEW b \in 0 .. n - 1,
         NEW e \in 0 .. n - 1, a * n + b = c * n + e
  PROVE  a = c /\ b = e
<1>1. (a * n + b) \div n = a /\ (c * n + e) \div n = c
  OBVIOUS
<1> QED
  BY <1>1

(* A three-dimensional one: row a * n + b of width w.                      *)
LEMMA Cell3 ==
  ASSUME NEW m \in Nat, NEW n \in Nat \ {0}, NEW w \in Nat \ {0},
         NEW a \in 0 .. m - 1, NEW b \in 0 .. n - 1, NEW c \in 0 .. w - 1
  PROVE  LET i == a * n * w + b * w + c
         IN  /\ i \in 0 .. m * n * w - 1
             /\ i \div w = a * n + b /\ i % w = c
             /\ (i \div w) \div n = a /\ (i \div w) % n = b
<1> DEFINE r == a * n + b
<1>1. r \in 0 .. m * n - 1 /\ r \div n = a /\ r % n = b
  BY Cell
<1>2. m * n \in Nat
  OBVIOUS
<1>3. a * n * w + b * w + c = r * w + c
  OBVIOUS
<1> HIDE DEF r
<1>4. r * w + c \in 0 .. m * n * w - 1 /\ (r * w + c) \div w = r /\ (r * w + c) % w = c
  BY <1>1, <1>2, Cell
<1> QED
  BY <1>1, <1>3, <1>4 DEF r

(* A slab of size elements to be stored at base, that of layer m, in a     *)
(* buffer of P elements a layer; and an address, that of element i of      *)
(* layer l.                                                                *)
Slab(buf, base, src, at, P, m, size, l, i) ==
  /\ P \in Nat /\ m \in LayerIds /\ l \in LayerIds
  /\ size \in 0 .. P /\ i \in 0 .. P - 1
  /\ base = m * P /\ at = l * P + i
  /\ DOMAIN src = 0 .. size - 1 /\ DOMAIN buf = 0 .. Layers * P - 1

(* What storing it leaves there.                                           *)
LEMMA StoredAt ==
  ASSUME NEW buf, NEW base, NEW src, NEW at, NEW P, NEW m, NEW size, NEW l, NEW i,
         Slab(buf, base, src, at, P, m, size, l, i)
  PROVE  /\ at \in DOMAIN buf
         /\ Stored(buf, base, src)[at] =
              IF l = m /\ i < size THEN src[i] ELSE buf[at]
<1> USE DEF Slab
<1>1. l \in Nat /\ m \in Nat /\ Layers \in Nat /\ l \in 0 .. Layers - 1 /\ P \in Nat \ {0}
  BY MirrorAssumption DEF LayerIds
<1>2. l * P + i \in 0 .. Layers * P - 1
  BY <1>1, Cell
<1>3. at - base \in 0 .. size - 1 <=> l = m /\ i < size
  <2>1. CASE l = m
    <3>1. at - base = i
      BY <1>1, <2>1
    <3> QED
      BY <2>1, <3>1
  <2>2. CASE l # m
    <3>1. ASSUME NEW e \in 0 .. size - 1, at - base = e PROVE FALSE
      <4>1. l * P + i = m * P + e /\ e \in 0 .. P - 1
        BY <1>1, <3>1
      <4> QED
        BY <1>1, <2>2, <4>1, Apart
    <3> QED
      BY <2>2, <3>1
  <2> QED
    BY <2>1, <2>2
<1>4. l = m => at - base = i
  BY <1>1
<1>5. Stored(buf, base, src)[at] =
        IF at - base \in DOMAIN src THEN src[at - base] ELSE buf[at]
  BY <1>2 DEF Stored
<1> QED
  BY <1>2, <1>3, <1>4, <1>5

(* Storing keeps a buffer's size.                                          *)
LEMMA StoredDomain ==
  ASSUME NEW buf, NEW base, NEW src
  PROVE  DOMAIN Stored(buf, base, src) = DOMAIN buf
BY DEF Stored

(* Products in the code's order.                                           *)
LEMMA Assoc ==
  ASSUME NEW a \in Int, NEW b \in Int, NEW c \in Int, NEW d \in Int
  PROVE  a * b * c = a * (b * c) /\ a * b * c * d = a * (b * c * d)
OBVIOUS

(* Rounding up; to the alignment of a longest prompt that is aligned it    *)
(* stays below it.                                                         *)
LEMMA RoundFacts ==
  ASSUME NEW n \in Nat, NEW u \in Nat \ {0}
  PROVE  /\ Round(n, u) \in Nat /\ n <= Round(n, u)
         /\ \A m \in Nat : n <= m /\ m % u = 0 => Round(n, u) <= m
<1>1. (n + u - 1) \div u \in Nat
  OBVIOUS
<1>2. n <= ((n + u - 1) \div u) * u
  OBVIOUS
<1>3. ASSUME NEW q \in Nat PROVE q * u \in Nat
  OBVIOUS
<1>4. ASSUME NEW m \in Nat, n <= m, m % u = 0 PROVE ((n + u - 1) \div u) * u <= m
  <2>1. m \div u \in Nat /\ m = (m \div u) * u
    BY <1>4
  <2>2. (n + u - 1) \div u <= m \div u
    BY <1>4, <2>1
  <2>3. ASSUME NEW e \in Nat, NEW f \in Nat, e <= f PROVE e * u <= f * u
    BY <2>3
  <2> QED
    BY <1>1, <2>1, <2>2, <2>3
<1> QED
  BY <1>1, <1>2, <1>3, <1>4 DEF Round

(* The capacities, with room for what is packed into them.                 *)
LEMMA Capacities ==
  /\ Layers \in Nat \ {0} /\ KvHeads \in Nat \ {0} /\ HeadDim \in Nat \ {0}
  /\ MaxEnc \in Nat \ {0} /\ MaxGen \in Nat \ {0} /\ SpAlign \in Nat \ {0}
  /\ VCap \in Nat \ {0} /\ MaxEnc <= VCap
  /\ SelfSp \in Nat \ {0} /\ MaxGen <= SelfSp
  /\ \A n \in 1 .. MaxEnc : Round(n, SpAlign) \in n .. MaxEnc
<1>1. {Layers, KvHeads, HeadDim, MaxEnc, MaxGen, SpAlign, CapAlign} \subseteq Nat \ {0}
  BY MirrorAssumption
<1>2. VCap \in Nat /\ MaxEnc <= VCap /\ SelfSp \in Nat /\ MaxGen <= SelfSp
  BY <1>1, RoundFacts DEF VCap, SelfSp
<1>3. ASSUME NEW n \in 1 .. MaxEnc PROVE Round(n, SpAlign) \in n .. MaxEnc
  <2>1. n \in Nat /\ n <= MaxEnc /\ MaxEnc \in Nat /\ SpAlign \in Nat \ {0}
    BY <1>1
  <2>2. MaxEnc % SpAlign = 0
    BY MirrorAssumption
  <2>3. Round(n, SpAlign) \in Nat /\ n <= Round(n, SpAlign) /\ Round(n, SpAlign) <= MaxEnc
    BY <2>1, <2>2, RoundFacts
  <2> QED
    BY <2>1, <2>3
<1> QED
  BY <1>1, <1>2, <1>3

(* A cell (a, b, c) of slabs of K * n * w, in buffers with room for        *)
(* K * M * V at each layer.                                                *)
LEMMA SlabCell ==
  ASSUME NEW K \in Nat \ {0}, NEW n \in Nat \ {0}, NEW w \in Nat \ {0},
         NEW M \in Nat, NEW V \in Nat, n <= M, w <= V, NEW l \in Nat,
         NEW a \in 0 .. K - 1, NEW b \in 0 .. n - 1, NEW c \in 0 .. w - 1
  PROVE  LET i == a * n * w + b * w + c
         IN  /\ l * K * M * V + a * n * w + b * w + c = l * (K * M * V) + i
             /\ i \in 0 .. K * n * w - 1 /\ i \in 0 .. K * M * V - 1
             /\ K * n * w \in 0 .. K * M * V /\ K * M * V \in Nat
             /\ i \div w = a * n + b /\ i % w = c
             /\ (i \div w) \div n = a /\ (i \div w) % n = b
<1> DEFINE i == a * n * w + b * w + c
<1>1. /\ i \in 0 .. K * n * w - 1
      /\ i \div w = a * n + b /\ i % w = c
      /\ (i \div w) \div n = a /\ (i \div w) % n = b
  BY Cell3
<1>2. l * K * M * V = l * (K * M * V)
  BY Assoc
<1>3. /\ l * K * M * V \in Int /\ a * n * w \in Int /\ b * w \in Int
      /\ K * n * w \in Nat /\ K * M * V \in Nat
  OBVIOUS
<1>4. K * n * w <= K * M * V
  <2>1. K * n <= K * M /\ K * n \in Nat /\ K * M \in Nat
    OBVIOUS
  <2>2. ASSUME NEW e \in Nat, NEW f \in Nat, e <= f PROVE e * w <= f * w /\ f * w <= f * V
    BY <2>2
  <2>3. K * n * w \in Int /\ K * M * w \in Int /\ K * M * V \in Int
    OBVIOUS
  <2> QED
    BY <2>1, <2>2, <2>3
<1>5. l * K * M * V + a * n * w + b * w + c = l * (K * M * V) + i
  BY <1>2, <1>3
<1> HIDE DEF i
<1>6. i \in 0 .. K * M * V - 1 /\ K * n * w \in 0 .. K * M * V
  BY <1>1, <1>3, <1>4
<1> QED
  BY <1>1, <1>3, <1>5, <1>6 DEF i

(* A pair (a, b) of slabs of K * n.                                        *)
LEMMA SlabPair ==
  ASSUME NEW K \in Nat \ {0}, NEW n \in Nat \ {0}, NEW M \in Nat, n <= M, NEW l \in Nat,
         NEW a \in 0 .. K - 1, NEW b \in 0 .. n - 1
  PROVE  LET r == a * n + b
         IN  /\ l * K * M + a * n + b = l * (K * M) + r
             /\ r \in 0 .. K * n - 1 /\ r \in 0 .. K * M - 1
             /\ K * n \in 0 .. K * M /\ K * M \in Nat
             /\ r \div n = a /\ r % n = b
<1>1. /\ a * n + b \in 0 .. K * n - 1
      /\ (a * n + b) \div n = a /\ (a * n + b) % n = b
  BY Cell
<1>2. l * K * M = l * (K * M)
  BY Assoc
<1>3. K * n <= K * M /\ K * n \in Nat /\ K * M \in Nat /\ a * n \in Int /\ l * (K * M) \in Int
  OBVIOUS
<1> QED
  BY <1>1, <1>2, <1>3

-----------------------------------------------------------------------------
(* The mirrors.                                                            *)

(* The keys of one layer packed by the prompt's own length are found with  *)
(* it, those of the other layers are where they were.                      *)
LEMMA PackKeys ==
  ASSUME MirrorInv, PackLayer, NEW l \in 0 .. layer, l < layer => CrossKeys(l)
  PROVE  CrossKeys(l)'
<1> DEFINE n == enc_len
           P == KvHeads * MaxEnc * HeadDim
           Q == KvHeads * MaxEnc
<1>1. /\ n \in 1 .. MaxEnc /\ layer \in LayerIds /\ layer \in Nat /\ l \in LayerIds /\ l \in Nat
      /\ enc_len' = n /\ query' = query
  BY Capacities DEF MirrorInv, MirrorType, QueryInv, PackLayer, LayerIds, ctx
<1>2. /\ cross_kq' = Stored(cross_kq, layer * P, KeyRows(n))
      /\ cross_ksc' = Stored(cross_ksc, layer * Q, KeyScales(n))
  <2>1. layer * KvHeads * MaxEnc * HeadDim = layer * P /\ layer * KvHeads * MaxEnc = layer * Q
    BY <1>1, Capacities, Assoc
  <2> QED
    BY <2>1 DEF PackLayer
<1>3. ASSUME NEW h \in HeadIds, NEW t \in 0 .. n - 1, NEW d \in Dims
      PROVE  CrossKey(l, h, t, d)' = <<query, l, h, t, d>>
  <2> DEFINE i == h * n * HeadDim + t * HeadDim + d
             size == KvHeads * n * HeadDim
  <2>1. /\ l * KvHeads * MaxEnc * HeadDim + h * n * HeadDim + t * HeadDim + d = l * P + i
        /\ i \in 0 .. size - 1 /\ i \in 0 .. P - 1 /\ size \in 0 .. P /\ P \in Nat
        /\ (i \div HeadDim) \div n = h /\ (i \div HeadDim) % n = t /\ i % HeadDim = d
    <3>1. /\ KvHeads \in Nat \ {0} /\ n \in Nat \ {0} /\ HeadDim \in Nat \ {0}
          /\ MaxEnc \in Nat /\ HeadDim \in Nat /\ n <= MaxEnc /\ HeadDim <= HeadDim
          /\ h \in 0 .. KvHeads - 1 /\ t \in 0 .. n - 1 /\ d \in 0 .. HeadDim - 1 /\ l \in Nat
      BY <1>1, Capacities DEF HeadIds, Dims
    <3> HIDE DEF n
    <3> QED
      BY <3>1, SlabCell
  <2>2. KeyRows(n)[i] = <<query, layer, h, t, d>> /\ DOMAIN KeyRows(n) = 0 .. size - 1
    <3> HIDE DEF i
    <3> QED
      BY <2>1 DEF KeyRows
  <2>3. CrossKey(l, h, t, d) = cross_kq[l * P + i]
    BY <2>1 DEF CrossKey
  <2>4. CrossKey(l, h, t, d)' = cross_kq'[l * P + i]
    BY <1>1, <2>1 DEF CrossKey
  <2>5. DOMAIN cross_kq = 0 .. Layers * P - 1
    BY DEF MirrorInv, MirrorType
  <2> HIDE DEF i, size, P
  <2>6. i < size
    BY <2>1
  <2>7. cross_kq'[l * P + i] = IF l = layer THEN KeyRows(n)[i] ELSE cross_kq[l * P + i]
    <3> DEFINE src == KeyRows(n)
    <3> HIDE DEF src
    <3>1. DOMAIN src = 0 .. size - 1
      BY <2>2 DEF src
    <3> DEFINE base == layer * P
               at == l * P + i
    <3>2. base = layer * P /\ at = l * P + i
      OBVIOUS
    <3> HIDE DEF base, at
    <3>3. /\ P \in Nat /\ l \in LayerIds /\ layer \in LayerIds
          /\ size \in 0 .. P /\ i \in 0 .. P - 1
      BY <1>1, <2>1
    <3>4. Slab(cross_kq, base, src, at, P, layer, size, l, i)
      BY <2>5, <3>1, <3>2, <3>3 DEF Slab
    <3>5. Stored(cross_kq, base, src)[at] =
            IF l = layer /\ i < size THEN src[i] ELSE cross_kq[at]
      BY <3>4, StoredAt
    <3> QED
      BY <1>2, <2>6, <3>2, <3>5 DEF src
  <2>8. CASE l = layer
    BY <2>2, <2>4, <2>7, <2>8
  <2>9. CASE l # layer
    <3>1. CrossKeys(l)
      BY <1>1, <2>9
    <3> QED
      BY <2>3, <2>4, <2>7, <2>9, <3>1 DEF CrossKeys
  <2> QED
    BY <2>8, <2>9
<1>4. ASSUME NEW h \in HeadIds, NEW t \in 0 .. n - 1
      PROVE  CrossKeyScale(l, h, t)' = <<query, l, h, t>>
  <2> DEFINE i == h * n + t
             size == KvHeads * n
  <2>1. /\ l * KvHeads * MaxEnc + h * n + t = l * Q + i
        /\ i \in 0 .. size - 1 /\ i \in 0 .. Q - 1 /\ size \in 0 .. Q /\ Q \in Nat
        /\ i \div n = h /\ i % n = t
    BY <1>1, Capacities, SlabPair DEF HeadIds
  <2>2. KeyScales(n)[i] = <<query, layer, h, t>> /\ DOMAIN KeyScales(n) = 0 .. size - 1
    <3> HIDE DEF i
    <3> QED
      BY <2>1 DEF KeyScales
  <2>3. CrossKeyScale(l, h, t) = cross_ksc[l * Q + i]
    BY <2>1 DEF CrossKeyScale
  <2>4. CrossKeyScale(l, h, t)' = cross_ksc'[l * Q + i]
    BY <1>1, <2>1 DEF CrossKeyScale
  <2>5. DOMAIN cross_ksc = 0 .. Layers * Q - 1
    BY DEF MirrorInv, MirrorType
  <2> HIDE DEF i, size, Q
  <2>6. i < size
    BY <2>1
  <2>7. cross_ksc'[l * Q + i] = IF l = layer THEN KeyScales(n)[i] ELSE cross_ksc[l * Q + i]
    <3> DEFINE src == KeyScales(n)
    <3> HIDE DEF src
    <3>1. DOMAIN src = 0 .. size - 1
      BY <2>2 DEF src
    <3> DEFINE base == layer * Q
               at == l * Q + i
    <3>2. base = layer * Q /\ at = l * Q + i
      OBVIOUS
    <3> HIDE DEF base, at
    <3>3. /\ Q \in Nat /\ l \in LayerIds /\ layer \in LayerIds
          /\ size \in 0 .. Q /\ i \in 0 .. Q - 1
      BY <1>1, <2>1
    <3>4. Slab(cross_ksc, base, src, at, Q, layer, size, l, i)
      BY <2>5, <3>1, <3>2, <3>3 DEF Slab
    <3>5. Stored(cross_ksc, base, src)[at] =
            IF l = layer /\ i < size THEN src[i] ELSE cross_ksc[at]
      BY <3>4, StoredAt
    <3> QED
      BY <1>2, <2>6, <3>2, <3>5 DEF src
  <2>8. CASE l = layer
    BY <2>2, <2>4, <2>7, <2>8
  <2>9. CASE l # layer
    <3>1. CrossKeys(l)
      BY <1>1, <2>9
    <3> QED
      BY <2>3, <2>4, <2>7, <2>9, <3>1 DEF CrossKeys
  <2> QED
    BY <2>8, <2>9
<1> QED
  BY <1>1, <1>3, <1>4 DEF CrossKeys

(* So are the values, by the padded length that is recorded for the        *)
(* readers, with zeros in the padded lanes.                                *)
LEMMA PackValues ==
  ASSUME MirrorInv, PackLayer, NEW l \in 0 .. layer, l < layer => CrossValues(l)
  PROVE  CrossValues(l)'
<1> DEFINE n == enc_len
           sp == cross_sp
           P == KvHeads * HeadDim * VCap
           src == ValueLanes(n, sp)
<1>1. /\ n \in 1 .. MaxEnc /\ layer \in LayerIds /\ layer \in Nat /\ l \in LayerIds /\ l \in Nat
      /\ enc_len' = n /\ query' = query /\ cross_sp' = sp
      /\ sp = Round(n, SpAlign) /\ sp \in n .. MaxEnc
  BY Capacities DEF MirrorInv, MirrorType, QueryInv, PackLayer, LayerIds, ctx
<1>2. cross_vq' = Stored(cross_vq, layer * P, src)
  <2>1. layer * KvHeads * HeadDim * VCap = layer * P
    BY <1>1, Capacities, Assoc
  <2> QED
    BY <1>1, <2>1 DEF PackLayer, Sp
<1> SUFFICES ASSUME NEW h \in HeadIds, NEW d \in Dims, NEW t \in 0 .. sp - 1
             PROVE  CrossValue(l, h, d, t)' =
                      IF t < n THEN <<query, l, h, t, d>> ELSE Zero
  BY <1>1 DEF CrossValues, Zero
<1> DEFINE i == h * HeadDim * sp + d * sp + t
           size == KvHeads * HeadDim * sp
           base == layer * P
           at == l * P + i
<1>3. /\ l * KvHeads * HeadDim * VCap + h * HeadDim * sp + d * sp + t = at
      /\ i \in 0 .. size - 1 /\ i \in 0 .. P - 1 /\ size \in 0 .. P /\ P \in Nat
      /\ (i \div sp) \div HeadDim = h /\ (i \div sp) % HeadDim = d /\ i % sp = t
  <2>1. /\ KvHeads \in Nat \ {0} /\ HeadDim \in Nat \ {0} /\ sp \in Nat \ {0}
        /\ HeadDim \in Nat /\ VCap \in Nat /\ HeadDim <= HeadDim /\ sp <= VCap
        /\ h \in 0 .. KvHeads - 1 /\ d \in 0 .. HeadDim - 1 /\ t \in 0 .. sp - 1 /\ l \in Nat
    BY <1>1, Capacities DEF HeadIds, Dims
  <2> HIDE DEF sp, src
  <2>2. /\ l * KvHeads * HeadDim * VCap + h * HeadDim * sp + d * sp + t
             = l * (KvHeads * HeadDim * VCap) + i
        /\ i \in 0 .. KvHeads * HeadDim * sp - 1
        /\ i \in 0 .. KvHeads * HeadDim * VCap - 1
        /\ KvHeads * HeadDim * sp \in 0 .. KvHeads * HeadDim * VCap
        /\ KvHeads * HeadDim * VCap \in Nat
        /\ i \div sp = h * HeadDim + d /\ i % sp = t
        /\ (i \div sp) \div HeadDim = h /\ (i \div sp) % HeadDim = d
    BY <2>1, SlabCell
  <2> HIDE DEF i
  <2> QED
    BY <2>2
<1>4. src[i] = (IF t < n THEN <<query, layer, h, t, d>> ELSE Zero) /\ DOMAIN src = 0 .. size - 1
  <2> HIDE DEF i
  <2> QED
    BY <1>3 DEF ValueLanes
<1>5. CrossValue(l, h, d, t) = cross_vq[at] /\ CrossValue(l, h, d, t)' = cross_vq'[at]
  BY <1>1, <1>3 DEF CrossValue
<1>6. DOMAIN cross_vq = 0 .. Layers * P - 1
  BY DEF MirrorInv, MirrorType
<1>7. base = layer * P /\ at = l * P + i
  OBVIOUS
<1> HIDE DEF i, size, P, src, base, at
<1>8. Slab(cross_vq, base, src, at, P, layer, size, l, i)
  BY <1>1, <1>3, <1>4, <1>6, <1>7 DEF Slab
<1>9. Stored(cross_vq, base, src)[at] = IF l = layer THEN src[i] ELSE cross_vq[at]
  <2>1. i < size
    BY <1>3
  <2> QED
    BY <1>8, <2>1, StoredAt
<1>10. CASE l = layer
  BY <1>2, <1>4, <1>5, <1>7, <1>9, <1>10
<1>11. CASE l # layer
  <2>1. CrossValues(l)
    BY <1>1, <1>11
  <2> QED
    BY <1>2, <1>5, <1>7, <1>9, <1>11, <2>1 DEF CrossValues
<1> QED
  BY <1>10, <1>11

(* Packing a layer keeps the invariant.                                    *)
LEMMA PackKeepsMirrors == MirrorInv /\ PackLayer => MirrorInv'
<1> SUFFICES ASSUME MirrorInv, PackLayer PROVE MirrorInv'
  OBVIOUS
<1>1. layer \in 0 .. Layers - 1 /\ Layers \in Nat \ {0} /\ pc = "pack" /\ dec_len = 0
  BY Capacities DEF MirrorInv, MirrorType, QueryInv, PackLayer, LayerIds
<1>2. \/ layer + 1 < Layers /\ layer' = layer + 1 /\ pc' = "pack"
      \/ layer + 1 = Layers /\ layer' = 0 /\ pc' = "ready"
  BY <1>1 DEF PackLayer
<1>3. /\ enc_len' = enc_len /\ cross_sp' = cross_sp /\ dec_len' = dec_len
      /\ query' = query /\ scalar' = scalar
      /\ self_kq' = self_kq /\ self_ksc' = self_ksc /\ self_vq' = self_vq
  BY DEF PackLayer, ctx, self
<1>4. MirrorType'
  <2>1. /\ DOMAIN cross_kq' = DOMAIN cross_kq /\ DOMAIN cross_ksc' = DOMAIN cross_ksc
        /\ DOMAIN cross_vq' = DOMAIN cross_vq
    BY StoredDomain DEF PackLayer
  <2>2. MirrorType
    BY DEF MirrorInv
  <2>3. layer' \in LayerIds /\ pc' \in {"idle", "pack", "ready", "step"}
    BY <1>1, <1>2 DEF LayerIds
  <2> QED
    BY <1>3, <2>1, <2>2, <2>3 DEF MirrorType
<1>5. QueryInv'
  BY <1>1, <1>2, <1>3 DEF MirrorInv, QueryInv
<1>6. ASSUME NEW l \in 0 .. layer PROVE CrossKeys(l)' /\ CrossValues(l)'
  <2>1. l < layer => CrossKeys(l) /\ CrossValues(l)
    BY <1>1 DEF MirrorInv, CrossInv
  <2> QED
    BY <2>1, PackKeys, PackValues
<1>7. CrossInv'
  <2>1. CASE layer + 1 < Layers /\ layer' = layer + 1 /\ pc' = "pack"
    <3>1. \A l \in 0 .. layer' - 1 : l \in 0 .. layer
      BY <1>1, <2>1
    <3> QED
      BY <1>6, <2>1, <3>1 DEF CrossInv
  <2>2. CASE layer + 1 = Layers /\ layer' = 0 /\ pc' = "ready"
    <3>1. \A l \in LayerIds : l \in 0 .. layer
      BY <1>1, <2>2 DEF LayerIds
    <3> QED
      BY <1>6, <2>2, <3>1 DEF CrossInv
  <2> QED
    BY <1>2, <2>1, <2>2
<1>8. SelfInv'
  <2>1. CASE pc' = "pack"
    BY <2>1 DEF SelfInv
  <2>2. CASE pc' = "ready"
    <3>1. \A l \in LayerIds : Attended(l)' = 0
      BY <1>1, <1>3, <2>2 DEF Attended
    <3> QED
      BY <3>1 DEF SelfInv, SelfKeys
  <2> QED
    BY <1>2, <2>1, <2>2
<1> QED
  BY <1>4, <1>5, <1>7, <1>8 DEF MirrorInv

(* Where a self key and its scale are.                                     *)
LEMMA SelfRow ==
  ASSUME NEW l \in LayerIds, NEW h \in HeadIds, NEW t \in 0 .. MaxGen - 1, NEW d \in Dims
  PROVE  LET r == l * KvHeads * MaxGen + h * MaxGen + t
             a == l * KvHeads * MaxGen * HeadDim + h * MaxGen * HeadDim + t * HeadDim + d
         IN  /\ r \in 0 .. Layers * (KvHeads * MaxGen) - 1
             /\ (r \div MaxGen) \div KvHeads = l /\ (r \div MaxGen) % KvHeads = h
             /\ r % MaxGen = t
             /\ a \in 0 .. Layers * (KvHeads * MaxGen * HeadDim) - 1
             /\ a \div HeadDim = r /\ a % HeadDim = d
<1> DEFINE r == l * KvHeads * MaxGen + h * MaxGen + t
           a == l * KvHeads * MaxGen * HeadDim + h * MaxGen * HeadDim + t * HeadDim + d
           R == Layers * KvHeads * MaxGen
<1>1. /\ Layers \in Nat \ {0} /\ KvHeads \in Nat \ {0} /\ MaxGen \in Nat \ {0}
      /\ HeadDim \in Nat \ {0} /\ Layers \in Nat
      /\ l \in 0 .. Layers - 1 /\ h \in 0 .. KvHeads - 1 /\ d \in 0 .. HeadDim - 1
  BY Capacities DEF LayerIds, HeadIds, Dims
<1>2. /\ r \in 0 .. R - 1
      /\ (r \div MaxGen) \div KvHeads = l /\ (r \div MaxGen) % KvHeads = h
      /\ r % MaxGen = t
  <2> HIDE DEF a
  <2>1. /\ r \in 0 .. R - 1 /\ r \div MaxGen = l * KvHeads + h /\ r % MaxGen = t
        /\ (r \div MaxGen) \div KvHeads = l /\ (r \div MaxGen) % KvHeads = h
    BY <1>1, Cell3
  <2> HIDE DEF r, R
  <2> QED
    BY <2>1
<1>3. a = r * HeadDim + d
  BY <1>1
<1>4. R \in Nat /\ R = Layers * (KvHeads * MaxGen)
      /\ R * HeadDim = Layers * (KvHeads * MaxGen * HeadDim)
  BY <1>1
<1> HIDE DEF r, R
<1>5. /\ r * HeadDim + d \in 0 .. R * HeadDim - 1
      /\ (r * HeadDim + d) \div HeadDim = r /\ (r * HeadDim + d) % HeadDim = d
  BY <1>1, <1>2, <1>4, Cell
<1> QED
  BY <1>2, <1>3, <1>4, <1>5 DEF r

(* A step's key goes to its own layer, head and token, and nowhere else.   *)
LEMMA Appended ==
  ASSUME MirrorType, dec_len < MaxGen, AppendKeys,
         NEW l \in LayerIds, NEW h \in HeadIds, NEW t \in 0 .. MaxGen - 1, NEW d \in Dims
  PROVE  LET r == l * KvHeads * MaxGen + h * MaxGen + t
             a == l * KvHeads * MaxGen * HeadDim + h * MaxGen * HeadDim + t * HeadDim + d
         IN  /\ self_kq'[a] = IF l = layer /\ t = dec_len
                              THEN <<query, layer, h, dec_len, d>> ELSE self_kq[a]
             /\ self_ksc'[r] = IF l = layer /\ t = dec_len
                               THEN <<query, layer, h, dec_len>> ELSE self_ksc[r]
<1> DEFINE r == l * KvHeads * MaxGen + h * MaxGen + t
           a == l * KvHeads * MaxGen * HeadDim + h * MaxGen * HeadDim + t * HeadDim + d
           At(g) == layer * KvHeads * MaxGen + SelfKeyRow(g)
<1>1. /\ layer \in LayerIds /\ dec_len \in 0 .. MaxGen - 1
      /\ DOMAIN self_kq = 0 .. Layers * (KvHeads * MaxGen * HeadDim) - 1
      /\ DOMAIN self_ksc = 0 .. Layers * (KvHeads * MaxGen) - 1
  BY Capacities DEF MirrorType
<1>2. /\ r \in DOMAIN self_ksc /\ a \in DOMAIN self_kq
      /\ a \div HeadDim = r /\ a % HeadDim = d
      /\ (r \div MaxGen) \div KvHeads = l /\ (r \div MaxGen) % KvHeads = h
      /\ r % MaxGen = t
  BY <1>1, SelfRow
<1>3. ASSUME NEW g \in HeadIds
      PROVE  /\ (At(g) \div MaxGen) \div KvHeads = layer
             /\ (At(g) \div MaxGen) % KvHeads = g /\ At(g) % MaxGen = dec_len
  <2>1. At(g) = layer * KvHeads * MaxGen + g * MaxGen + dec_len
    <3>1. layer \in Int /\ g \in Int /\ dec_len \in Int /\ KvHeads \in Int /\ MaxGen \in Int
      BY <1>1, Capacities DEF LayerIds, HeadIds
    <3> QED
      BY <3>1 DEF SelfKeyRow
  <2>2. /\ ((layer * KvHeads * MaxGen + g * MaxGen + dec_len) \div MaxGen) \div KvHeads = layer
        /\ ((layer * KvHeads * MaxGen + g * MaxGen + dec_len) \div MaxGen) % KvHeads = g
        /\ (layer * KvHeads * MaxGen + g * MaxGen + dec_len) % MaxGen = dec_len
    <3> HIDE DEF a, r, At
    <3> QED
      BY <1>1, SelfRow
  <2> QED
    BY <2>1, <2>2
<1>4. l = layer /\ t = dec_len => r = At(h)
  <2>1. layer \in Int /\ h \in Int /\ dec_len \in Int /\ KvHeads \in Int /\ MaxGen \in Int
    BY <1>1, Capacities DEF LayerIds, HeadIds
  <2> QED
    BY <2>1 DEF SelfKeyRow
<1>5. /\ self_kq'[a] =
           IF \E g \in 0 .. KvHeads - 1 : r = At(g)
           THEN <<query, layer, CHOOSE g \in 0 .. KvHeads - 1 : r = At(g), dec_len, d>>
           ELSE self_kq[a]
      /\ self_ksc'[r] =
           IF \E g \in 0 .. KvHeads - 1 : r = At(g)
           THEN <<query, layer, CHOOSE g \in 0 .. KvHeads - 1 : r = At(g), dec_len>>
           ELSE self_ksc[r]
  <2> HIDE DEF a, r
  <2> QED
    BY <1>2 DEF AppendKeys
<1> HIDE DEF a, r, At
<1>6. CASE l = layer /\ t = dec_len
  <2>1. h \in 0 .. KvHeads - 1 /\ r = At(h)
    BY <1>4, <1>6 DEF HeadIds
  <2>2. (CHOOSE g \in 0 .. KvHeads - 1 : r = At(g)) = h
    <3> DEFINE c == CHOOSE g \in 0 .. KvHeads - 1 : r = At(g)
    <3>1. c \in 0 .. KvHeads - 1 /\ r = At(c)
      BY <2>1
    <3> HIDE DEF c
    <3>2. c = h
      BY <1>2, <1>3, <3>1 DEF HeadIds
    <3> QED
      BY <3>2 DEF c
  <2>3. \E g \in 0 .. KvHeads - 1 : r = At(g)
    BY <2>1
  <2> QED
    BY <1>5, <1>6, <2>2, <2>3 DEF a, r
<1>7. CASE ~ (l = layer /\ t = dec_len)
  <2>1. ~ \E g \in 0 .. KvHeads - 1 : r = At(g)
    BY <1>2, <1>3, <1>7 DEF HeadIds
  <2> QED
    BY <1>5, <1>7, <2>1 DEF a, r
<1> QED
  BY <1>6, <1>7

(* The values of layer layer are packed again, for the live prefix.        *)
LEMMA PackedSelfValue ==
  ASSUME MirrorType, dec_len < MaxGen,
         self_vq' = Stored(self_vq, layer * KvHeads * HeadDim * SelfSp,
                           ValueLanes(dec_len + 1, SelfSp)),
         NEW l \in LayerIds, NEW h \in HeadIds, NEW d \in Dims, NEW t \in 0 .. SelfSp - 1
  PROVE  LET at == l * KvHeads * HeadDim * SelfSp + h * HeadDim * SelfSp + d * SelfSp + t
         IN  self_vq'[at] =
               IF l = layer
               THEN IF t < dec_len + 1 THEN <<query, layer, h, t, d>> ELSE Zero
               ELSE self_vq[at]
<1> DEFINE n == dec_len + 1
           P == KvHeads * HeadDim * SelfSp
           src == ValueLanes(n, SelfSp)
           i == h * HeadDim * SelfSp + d * SelfSp + t
           base == layer * P
           at == l * P + i
<1>1. /\ layer \in LayerIds /\ l \in Nat /\ layer \in Nat
      /\ KvHeads \in Nat \ {0} /\ HeadDim \in Nat \ {0} /\ SelfSp \in Nat \ {0}
      /\ HeadDim \in Nat /\ SelfSp \in Nat /\ HeadDim <= HeadDim /\ SelfSp <= SelfSp
      /\ h \in 0 .. KvHeads - 1 /\ d \in 0 .. HeadDim - 1
  BY Capacities DEF MirrorType, LayerIds, HeadIds, Dims
<1>2. self_vq' = Stored(self_vq, base, src)
  <2>1. layer * KvHeads * HeadDim * SelfSp = layer * P
    BY <1>1, Assoc
  <2> QED
    BY <2>1
<1>3. /\ l * KvHeads * HeadDim * SelfSp + h * HeadDim * SelfSp + d * SelfSp + t = at
      /\ i \in 0 .. P - 1 /\ P \in 0 .. P /\ P \in Nat
      /\ (i \div SelfSp) \div HeadDim = h /\ (i \div SelfSp) % HeadDim = d /\ i % SelfSp = t
  <2> HIDE DEF src
  <2>2. /\ l * KvHeads * HeadDim * SelfSp + h * HeadDim * SelfSp + d * SelfSp + t
             = l * (KvHeads * HeadDim * SelfSp) + i
        /\ i \in 0 .. KvHeads * HeadDim * SelfSp - 1
        /\ KvHeads * HeadDim * SelfSp \in 0 .. KvHeads * HeadDim * SelfSp
        /\ KvHeads * HeadDim * SelfSp \in Nat
        /\ i \div SelfSp = h * HeadDim + d /\ i % SelfSp = t
        /\ (i \div SelfSp) \div HeadDim = h /\ (i \div SelfSp) % HeadDim = d
    BY <1>1, SlabCell
  <2> HIDE DEF i
  <2> QED
    BY <2>2
<1>4. src[i] = (IF t < n THEN <<query, layer, h, t, d>> ELSE Zero) /\ DOMAIN src = 0 .. P - 1
  <2> HIDE DEF i
  <2> QED
    BY <1>3 DEF ValueLanes
<1>5. DOMAIN self_vq = 0 .. Layers * P - 1
  BY DEF MirrorType
<1>6. base = layer * P /\ at = l * P + i
  OBVIOUS
<1> HIDE DEF i, P, src, base, at
<1>7. Slab(self_vq, base, src, at, P, layer, P, l, i)
  BY <1>1, <1>3, <1>4, <1>5, <1>6 DEF Slab
<1>8. Stored(self_vq, base, src)[at] = IF l = layer THEN src[i] ELSE self_vq[at]
  <2>1. i < P
    BY <1>3
  <2> QED
    BY <1>7, <2>1, StoredAt
<1> QED
  BY <1>2, <1>3, <1>4, <1>8 DEF at

(* A decoder layer of a step appends to its own mirrors and keeps the rest.*)
LEMMA StepKeepsMirrors == MirrorInv /\ StepLayer => MirrorInv'
<1> SUFFICES ASSUME MirrorInv, StepLayer PROVE MirrorInv'
  OBVIOUS
<1>1. /\ layer \in 0 .. Layers - 1 /\ Layers \in Nat \ {0} /\ pc = "step"
      /\ dec_len \in 0 .. MaxGen - 1 /\ MaxGen \in Nat \ {0}
  BY Capacities DEF MirrorInv, MirrorType, QueryInv, StepLayer, LayerIds
<1>2. \/ layer + 1 < Layers /\ layer' = layer + 1 /\ pc' = "step" /\ dec_len' = dec_len
      \/ layer + 1 = Layers /\ layer' = 0 /\ pc' = "ready" /\ dec_len' = dec_len + 1
  BY <1>1 DEF StepLayer
<1>3. /\ enc_len' = enc_len /\ cross_sp' = cross_sp
      /\ query' = query /\ scalar' = scalar
      /\ cross_kq' = cross_kq /\ cross_ksc' = cross_ksc /\ cross_vq' = cross_vq
  BY DEF StepLayer, cross
<1>4. MirrorType'
  <2>1. /\ DOMAIN self_kq' = DOMAIN self_kq /\ DOMAIN self_ksc' = DOMAIN self_ksc
        /\ DOMAIN self_vq' = DOMAIN self_vq
    BY StoredDomain DEF StepLayer, AppendKeys, self
  <2>2. MirrorType
    BY DEF MirrorInv
  <2>3. /\ layer' \in LayerIds /\ pc' \in {"idle", "pack", "ready", "step"}
        /\ dec_len' \in 0 .. MaxGen
    BY <1>1, <1>2 DEF LayerIds
  <2> QED
    BY <1>3, <2>1, <2>2, <2>3 DEF MirrorType
<1>5. QueryInv'
  BY <1>1, <1>2, <1>3 DEF MirrorInv, QueryInv
<1>6. CrossInv'
  <2>1. \A l \in LayerIds : CrossKeys(l) /\ CrossValues(l)
    BY <1>1 DEF MirrorInv, CrossInv
  <2>2. \A l \in LayerIds : CrossKeys(l)' /\ CrossValues(l)'
    BY <1>3, <2>1 DEF CrossKeys, CrossValues, CrossKey, CrossKeyScale, CrossValue
  <2>3. pc' # "pack"
    BY <1>2
  <2> QED
    BY <2>2, <2>3 DEF CrossInv
<1>7. CASE scalar
  BY <1>3, <1>4, <1>5, <1>6, <1>7 DEF MirrorInv, SelfInv
<1>8. CASE ~ scalar
  <2>1. /\ AppendKeys
        /\ self_vq' = Stored(self_vq, layer * KvHeads * HeadDim * SelfSp,
                             ValueLanes(dec_len + 1, SelfSp))
    BY <1>8 DEF StepLayer
  <2>2. ASSUME NEW l \in LayerIds
        PROVE  /\ Attended(l) \in 0 .. MaxGen /\ Attended(layer) = dec_len
               /\ Attended(l)' = IF l = layer THEN dec_len + 1 ELSE Attended(l)
    BY <1>1, <1>2 DEF Attended, LayerIds
  <2>3. ASSUME NEW l \in LayerIds
        PROVE  SelfKeys(l, Attended(l)) /\ (Attended(l) > 0 => SelfValues(l, Attended(l)))
    BY <1>1, <1>8 DEF MirrorInv, SelfInv
  <2>4. ASSUME NEW l \in LayerIds, NEW h \in HeadIds, NEW t \in 0 .. MaxGen - 1, NEW d \in Dims
        PROVE  /\ SelfKey(l, h, t, d)' = IF l = layer /\ t = dec_len
                                         THEN <<query, layer, h, dec_len, d>>
                                         ELSE SelfKey(l, h, t, d)
               /\ SelfKeyScale(l, h, t)' = IF l = layer /\ t = dec_len
                                           THEN <<query, layer, h, dec_len>>
                                           ELSE SelfKeyScale(l, h, t)
    BY <1>1, <2>1, Appended DEF MirrorInv, SelfKey, SelfKeyScale
  <2>5. ASSUME NEW l \in LayerIds, NEW h \in HeadIds, NEW d \in Dims, NEW t \in 0 .. SelfSp - 1
        PROVE  SelfValue(l, h, d, t)' =
                 IF l = layer
                 THEN IF t < dec_len + 1 THEN <<query, layer, h, t, d>> ELSE Zero
                 ELSE SelfValue(l, h, d, t)
    BY <1>1, <2>1, PackedSelfValue DEF MirrorInv, SelfValue
  <2>6. ASSUME NEW l \in LayerIds PROVE SelfKeys(l, Attended(l))'
    <3> SUFFICES ASSUME NEW h \in HeadIds, NEW t \in 0 .. Attended(l)' - 1
                 PROVE  /\ \A d \in Dims : SelfKey(l, h, t, d)' = <<query, l, h, t, d>>
                        /\ SelfKeyScale(l, h, t)' = <<query, l, h, t>>
      BY <1>3 DEF SelfKeys
    <3>1. t \in 0 .. MaxGen - 1
      BY <1>1, <2>2
    <3>2. CASE l = layer /\ t = dec_len
      BY <2>4, <3>1, <3>2, Capacities DEF Dims
    <3>3. CASE ~ (l = layer /\ t = dec_len)
      <4>1. t \in 0 .. Attended(l) - 1
        BY <1>1, <2>2, <3>3
      <4>2. /\ \A d \in Dims : SelfKey(l, h, t, d) = <<query, l, h, t, d>>
            /\ SelfKeyScale(l, h, t) = <<query, l, h, t>>
        BY <2>3, <4>1 DEF SelfKeys
      <4> QED
        BY <2>4, <3>1, <3>3, <4>2, Capacities DEF Dims
    <3> QED
      BY <3>2, <3>3
  <2>7. ASSUME NEW l \in LayerIds, Attended(l)' > 0 PROVE SelfValues(l, Attended(l))'
    <3> SUFFICES ASSUME NEW h \in HeadIds, NEW d \in Dims, NEW t \in 0 .. SelfSp - 1
                 PROVE  SelfValue(l, h, d, t)' =
                          IF t < Attended(l)' THEN <<query, l, h, t, d>> ELSE Zero
      BY <1>3 DEF SelfValues, Zero
    <3>1. CASE l = layer
      BY <2>2, <2>5, <3>1
    <3>2. CASE l # layer
      <4>1. Attended(l)' = Attended(l) /\ Attended(l) > 0
        BY <2>2, <2>7, <3>2
      <4>2. SelfValue(l, h, d, t) = IF t < Attended(l) THEN <<query, l, h, t, d>> ELSE Zero
        BY <2>3, <4>1 DEF SelfValues
      <4> QED
        BY <2>5, <3>2, <4>1, <4>2
    <3> QED
      BY <3>1, <3>2
  <2>8. SelfInv'
    BY <2>6, <2>7 DEF SelfInv
  <2> QED
    BY <1>4, <1>5, <1>6, <2>8 DEF MirrorInv
<1> QED
  BY <1>7, <1>8

(* A query that is given, refused or complete, and a step that starts.     *)
LEMMA OthersKeepMirrors ==
  ASSUME MirrorInv,
         \/ \E n \in 1 .. MaxEnc : Encode(n)
         \/ \E n \in 0 .. MaxEnc + 1 : Refuse(n) \/ BadToken(n)
         \/ StartStep \/ Finish
         \/ UNCHANGED vars
  PROVE  MirrorInv'
<1> USE Capacities
<1>1. CASE \E n \in 1 .. MaxEnc : Encode(n)
  <2> PICK n \in 1 .. MaxEnc : Encode(n)
    BY <1>1
  <2>1. /\ query' = query + 1 /\ scalar' \in BOOLEAN /\ pc' = "pack" /\ layer' = 0
        /\ enc_len' = n /\ dec_len' = 0 /\ cross_sp' = Round(n, SpAlign)
        /\ UNCHANGED <<cross, self>>
    BY DEF Encode
  <2>2. MirrorType'
    BY <2>1 DEF MirrorInv, MirrorType, cross, self, LayerIds
  <2> QED
    BY <2>1, <2>2 DEF MirrorInv, QueryInv, CrossInv, SelfInv
<1>2. CASE \E n \in 0 .. MaxEnc + 1 : BadToken(n)
  <2> PICK n \in 0 .. MaxEnc + 1 : BadToken(n)
    BY <1>2
  <2>1. /\ pc' = "idle" /\ enc_len' = n /\ n \in 1 .. MaxEnc /\ dec_len' = 0
        /\ UNCHANGED <<query, scalar, layer, cross_sp, cross, self>>
    BY DEF BadToken
  <2>2. MirrorType'
    BY <2>1 DEF MirrorInv, MirrorType, cross, self, LayerIds
  <2> QED
    BY <2>1, <2>2 DEF MirrorInv, QueryInv, CrossInv, SelfInv
<1>3. CASE UNCHANGED vars
  <2>1. /\ UNCHANGED <<query, scalar, pc, layer, enc_len, cross_sp, dec_len>>
        /\ UNCHANGED <<cross_kq, cross_ksc, cross_vq>>
        /\ UNCHANGED <<self_kq, self_ksc, self_vq>>
    BY <1>3 DEF vars, ctx, cross, self
  <2>2. MirrorType' /\ QueryInv'
    BY <2>1 DEF MirrorInv, MirrorType, QueryInv
  <2>3. CrossInv'
    BY <2>1 DEF MirrorInv, CrossInv, CrossKeys, CrossValues, CrossKey, CrossKeyScale, CrossValue
  <2>4. SelfInv'
    BY <2>1 DEF MirrorInv, SelfInv, SelfKeys, SelfValues, SelfKey, SelfKeyScale, SelfValue,
                Attended
  <2> QED
    BY <2>2, <2>3, <2>4 DEF MirrorInv
<1>4. CASE StartStep
  <2>1. /\ pc = "ready" /\ pc' = "step" /\ dec_len < MaxGen /\ layer = 0 /\ layer' = 0
        /\ UNCHANGED <<query, scalar, enc_len, cross_sp, dec_len>>
        /\ UNCHANGED <<cross_kq, cross_ksc, cross_vq>>
        /\ UNCHANGED <<self_kq, self_ksc, self_vq>>
    BY <1>4 DEF MirrorInv, QueryInv, StartStep, ctx, cross, self
  <2>2. MirrorType' /\ QueryInv'
    BY <2>1 DEF MirrorInv, MirrorType, QueryInv
  <2>3. CrossInv'
    BY <2>1 DEF MirrorInv, CrossInv, CrossKeys, CrossValues, CrossKey, CrossKeyScale, CrossValue
  <2>4. \A l \in LayerIds : Attended(l)' = Attended(l)
    BY <2>1 DEF Attended, LayerIds, MirrorInv, MirrorType
  <2>5. SelfInv'
    BY <2>1, <2>4 DEF MirrorInv, SelfInv, SelfKeys, SelfValues, SelfKey, SelfKeyScale, SelfValue
  <2> QED
    BY <2>2, <2>3, <2>5 DEF MirrorInv
<1>5. CASE Finish
  <2>1. /\ pc' = "idle" /\ UNCHANGED <<query, scalar, layer, enc_len, cross_sp, dec_len>>
        /\ UNCHANGED <<cross, self>>
    BY <1>5 DEF Finish, ctx
  <2>2. MirrorType'
    BY <2>1 DEF MirrorInv, MirrorType, cross, self
  <2> QED
    BY <2>1, <2>2 DEF MirrorInv, QueryInv, CrossInv, SelfInv
<1>6. CASE \E n \in 0 .. MaxEnc + 1 : Refuse(n)
  BY <1>3, <1>6 DEF Refuse
<1> QED
  BY <1>1, <1>2, <1>3, <1>4, <1>5, <1>6

(* The buffers as malloc left them: nothing is claimed yet.                *)
LEMMA MirrorStart == Init => MirrorInv
<1> SUFFICES ASSUME Init PROVE MirrorInv
  OBVIOUS
<1> USE Capacities
<1>1. /\ Layers * KvHeads * MaxEnc * HeadDim = Layers * (KvHeads * MaxEnc * HeadDim)
      /\ Layers * KvHeads * MaxEnc = Layers * (KvHeads * MaxEnc)
      /\ Layers * KvHeads * HeadDim * VCap = Layers * (KvHeads * HeadDim * VCap)
      /\ Layers * KvHeads * MaxGen * HeadDim = Layers * (KvHeads * MaxGen * HeadDim)
      /\ Layers * KvHeads * MaxGen = Layers * (KvHeads * MaxGen)
      /\ Layers * KvHeads * HeadDim * SelfSp = Layers * (KvHeads * HeadDim * SelfSp)
  BY Assoc
<1>2. /\ query = 0 /\ scalar = FALSE /\ pc = "idle" /\ layer = 0
      /\ enc_len = 0 /\ dec_len = 0
  BY DEF Init
<1>3. MirrorType
  <2>1. ASSUME NEW size PROVE DOMAIN Buffer(size) = 0 .. size - 1
    BY DEF Buffer
  <2>2. /\ cross_kq = Buffer(Layers * (KvHeads * MaxEnc * HeadDim))
        /\ cross_ksc = Buffer(Layers * (KvHeads * MaxEnc))
        /\ cross_vq = Buffer(Layers * (KvHeads * HeadDim * VCap))
        /\ self_kq = Buffer(Layers * (KvHeads * MaxGen * HeadDim))
        /\ self_ksc = Buffer(Layers * (KvHeads * MaxGen))
        /\ self_vq = Buffer(Layers * (KvHeads * HeadDim * SelfSp))
    BY <1>1 DEF Init
  <2>3. /\ query \in Nat /\ layer \in LayerIds
        /\ enc_len \in 0 .. MaxEnc /\ dec_len \in 0 .. MaxGen
    BY <1>2 DEF LayerIds
  <2>4. scalar \in BOOLEAN /\ pc \in {"idle", "pack", "ready", "step"}
    BY <1>2, Zenon
  <2> QED
    BY <2>1, <2>2, <2>3, <2>4 DEF MirrorType
<1> QED
  BY <1>2, <1>3 DEF MirrorInv, QueryInv, CrossInv, SelfInv

(* Every step of a query keeps the mirrors.                                *)
LEMMA MirrorNext == MirrorInv /\ [QueryNext]_<<vars, encVars>> => MirrorInv'
<1> SUFFICES ASSUME MirrorInv, [QueryNext]_<<vars, encVars>> PROVE MirrorInv'
  OBVIOUS
<1>1. CASE \E n \in 1 .. MaxEnc, split \in BOOLEAN : StartQuery(n, split)
  BY <1>1, OthersKeepMirrors DEF StartQuery
<1>2. CASE Attend
  BY <1>2, OthersKeepMirrors DEF Attend
<1>3. CASE PackMirrors
  BY <1>3, PackKeepsMirrors DEF PackMirrors
<1>4. CASE Give
  BY <1>4, OthersKeepMirrors DEF Give
<1>5. CASE Decode
  BY <1>5, OthersKeepMirrors, StepKeepsMirrors DEF Decode
<1>6. CASE UNCHANGED <<vars, encVars>>
  BY <1>6, OthersKeepMirrors
<1> QED
  BY <1>1, <1>2, <1>3, <1>4, <1>5, <1>6 DEF QueryNext

(* So the mirrors are read back as they were packed, in every behaviour.   *)
THEOREM MirrorsHold == QuerySpec => []MirrorInv
<1>1. QueryInit => MirrorInv
  BY MirrorStart DEF QueryInit
<1> QED
  BY <1>1, MirrorNext, PTL DEF QuerySpec

(* Cross-attention finds each key, scale and value of this prompt and      *)
(* zeros in the padded lanes, whatever lengths came before                 *)
(* (engine.c:1280-1284).                                                   *)
THEOREM CrossAgrees == QuerySpec => []CrossReadsBack
<1>1. MirrorInv => CrossReadsBack
  BY DEF MirrorInv, CrossInv, CrossReadsBack, CrossKeys, CrossValues
<1> QED
  BY <1>1, MirrorsHold, PTL

(* The self mirrors hold exactly the tokens decoded so far in this query,  *)
(* layer by layer.                                                         *)
THEOREM SelfAgrees == QuerySpec => []SelfReadsBack
<1>1. MirrorInv => SelfReadsBack
  BY DEF MirrorInv, SelfInv, SelfReadsBack, SelfKeys, SelfValues
<1> QED
  BY <1>1, MirrorsHold, PTL

-----------------------------------------------------------------------------
(* The two cores.                                                          *)

(* The head order is a bijection: even heads, then odd ones; two heads     *)
(* share a kv head.                                                        *)
LEMMA HeadFacts ==
  /\ KvHeads \in Nat \ {0} /\ Heads \in Nat \ {0} /\ Heads = 2 * KvHeads
  /\ Heads \div 2 = KvHeads /\ Heads \div KvHeads = 2
  /\ \A i \in 0 .. Heads - 1 : E!HeadOf(i) \in E!Head
  /\ \A i, j \in 0 .. Heads - 1 : E!HeadOf(i) = E!HeadOf(j) => i = j
  /\ \A h \in E!Head : E!Kv(h) \in HeadIds /\ \E i \in 0 .. Heads - 1 : E!HeadOf(i) = h
<1>1. KvHeads \in Nat \ {0} /\ Heads = 2 * KvHeads
  BY Capacities, HeadAssumption
<1>2. Heads \in Nat \ {0} /\ Heads \div 2 = KvHeads
  BY <1>1
<1>3. Heads \div KvHeads = 2
  BY <1>1
<1>4. ASSUME NEW i \in 0 .. Heads - 1
      PROVE  E!HeadOf(i) = IF i < KvHeads THEN i * 2 ELSE (i - KvHeads) * 2 + 1
  BY <1>2 DEF E!HeadOf
<1>5. ASSUME NEW i \in 0 .. Heads - 1 PROVE E!HeadOf(i) \in E!Head
  BY <1>1, <1>2, <1>4 DEF E!Head
<1>6. ASSUME NEW i \in 0 .. Heads - 1, NEW j \in 0 .. Heads - 1, E!HeadOf(i) = E!HeadOf(j)
      PROVE  i = j
  BY <1>1, <1>2, <1>4, <1>6
<1>7. ASSUME NEW h \in E!Head
      PROVE  E!Kv(h) \in HeadIds /\ \E i \in 0 .. Heads - 1 : E!HeadOf(i) = h
  <2>1. h \in 0 .. Heads - 1 /\ h \in Int
    BY <1>1 DEF E!Head
  <2>2. ASSUME NEW d \in Int, d = 2
        PROVE  /\ h \div d \in Int
               /\ h = 2 * (h \div d) \/ h = 2 * (h \div d) + 1
    BY <2>1, <2>2
  <2>3. E!Kv(h) \in Int /\ (h = 2 * E!Kv(h) \/ h = 2 * E!Kv(h) + 1)
    <3> DEFINE d == Heads \div KvHeads
    <3>1. d \in Int /\ d = 2
      BY <1>3
    <3> HIDE DEF d
    <3>2. h \div d \in Int /\ (h = 2 * (h \div d) \/ h = 2 * (h \div d) + 1)
      BY <2>2, <3>1
    <3> QED
      BY <3>2 DEF E!Kv, d
  <2>4. PICK m \in Int : (h = 2 * m \/ h = 2 * m + 1) /\ E!Kv(h) = m
    BY <2>3
  <2>5. m \in 0 .. KvHeads - 1
    BY <1>1, <2>1, <2>4
  <2>6. CASE h = 2 * m
    <3>1. m \in 0 .. Heads - 1 /\ m < KvHeads /\ m * 2 = h
      BY <1>1, <2>5, <2>6
    <3>2. E!HeadOf(m) = h
      BY <1>4, <3>1
    <3> QED
      BY <2>4, <2>5, <3>1, <3>2 DEF HeadIds
  <2>7. CASE h = 2 * m + 1
    <3>1. PICK i \in 0 .. Heads - 1 : ~ (i < KvHeads) /\ (i - KvHeads) * 2 + 1 = h
      <4>1. /\ m + KvHeads \in 0 .. Heads - 1 /\ ~ (m + KvHeads < KvHeads)
            /\ ((m + KvHeads) - KvHeads) * 2 + 1 = h
        BY <1>1, <2>5, <2>7
      <4> QED
        BY <4>1
    <3>2. E!HeadOf(i) = h
      BY <1>4, <3>1
    <3> QED
      BY <2>4, <2>5, <3>1, <3>2 DEF HeadIds
  <2> QED
    BY <2>4, <2>6, <2>7
<1> QED
  BY <1>1, <1>2, <1>3, <1>5, <1>6, <1>7

(* Two cores in a row at once: each in its own half, on its own scratch.   *)
LEMMA CoresApart ==
  ASSUME RangeInv, \A c \in E!Core : PosInv(c)
  PROVE  /\ \A c \in E!Core : range[c][1] .. range[c][2] - 1 \subseteq 0 .. Heads - 1
         /\ \A c, e \in E!Core : c # e =>
              /\ \A i \in range[c][1] .. range[c][2] - 1 : i \notin range[e][1] .. range[e][2] - 1
              /\ Active(c) /\ Active(e) => E!Slot(c) # E!Slot(e)
         /\ \A c \in E!Core : E!Slot(c) \in E!Core
<1>1. KvHeads \in Nat \ {0} /\ Heads \in Nat \ {0} /\ Heads = 2 * KvHeads
  BY HeadFacts
<1>2. ASSUME NEW c \in E!Core, Active(c) PROVE range[c][1] < range[c][2]
  <2>1. \E i \in range[c][1] .. range[c][2] - 1 : TRUE
    BY <1>2 DEF PosInv
  <2>2. range[c][1] \in Int /\ range[c][2] \in Int
    BY <1>1 DEF RangeInv, E!Core
  <2> QED
    BY <2>1, <2>2
<1>3. 0 \in E!Core /\ 1 \in E!Core /\ \A c \in E!Core : c = 0 \/ c = 1
  BY DEF E!Core
<1>4. range[0][1] = 0 /\ E!Slot(0) = 0
  BY DEF RangeInv, E!Slot
<1>5. Active(1) => range[1][1] = KvHeads /\ E!Slot(1) = 1
  BY <1>1, <1>2, <1>3 DEF RangeInv, E!Slot
<1>6. ASSUME NEW c \in E!Core PROVE range[c][1] .. range[c][2] - 1 \subseteq 0 .. Heads - 1
  BY <1>1, <1>3 DEF RangeInv
<1>7. ASSUME NEW i \in range[0][1] .. range[0][2] - 1
      PROVE  i \notin range[1][1] .. range[1][2] - 1
  BY <1>1 DEF RangeInv
<1>8. ASSUME NEW c \in E!Core, NEW e \in E!Core, c # e,
             NEW i \in range[c][1] .. range[c][2] - 1
      PROVE  i \notin range[e][1] .. range[e][2] - 1
  BY <1>3, <1>7, <1>8
<1>9. \A c, e \in E!Core : c # e /\ Active(c) /\ Active(e) => E!Slot(c) # E!Slot(e)
  BY <1>3, <1>4, <1>5
<1>10. \A c \in E!Core : E!Slot(c) \in E!Core
  BY DEF E!Slot, E!Core
<1> QED
  BY <1>6, <1>8, <1>9, <1>10

(* Keys and values of a new layer are in the arena, by the new length.     *)
LEMMA LayerPacks ==
  ASSUME ArenaInv, NEW n \in 1 .. MaxEnc, NEW split \in BOOLEAN, E!Layer(n, split)
  PROVE  JobInv' /\ encoded' > 0
<1>1. /\ encoded' = encoded + 1 /\ keys' = n /\ lanes' = Round(n, SpAlign)
      /\ arena_kq' = E!PackedKeys(n) /\ arena_vq' = E!PackedValues(n, Round(n, SpAlign))
      /\ encoded \in Nat
  BY DEF E!Layer, E!Round, Round, ArenaInv, JobInv
<1>2. Round(n, SpAlign) \in n .. MaxEnc /\ MaxEnc \in Nat \ {0} /\ KvHeads \in Nat \ {0}
  BY Capacities
<1> DEFINE sp == Round(n, SpAlign)
<1> HIDE DEF sp
<1>3. sp \in n .. MaxEnc /\ sp \in Nat \ {0} /\ n \in Nat \ {0} /\ n <= MaxEnc /\ sp <= MaxEnc
  BY <1>2 DEF sp
<1>4. ASSUME NEW g \in HeadIds, NEW r \in 0 .. n - 1
      PROVE  arena_kq'[g * n + r] = <<"k", encoded', g, r>>
  <2>1. /\ g * n + r \in 0 .. KvHeads * n - 1 /\ g * n + r \in 0 .. KvHeads * MaxEnc - 1
        /\ (g * n + r) \div n = g /\ (g * n + r) % n = r
    BY <1>2, <1>3, SlabPair DEF HeadIds
  <2> DEFINE a == g * n + r
  <2>2. a \in 0 .. KvHeads * n - 1 /\ a \in 0 .. KvHeads * MaxEnc - 1 /\ a \div n = g /\ a % n = r
    BY <2>1
  <2> HIDE DEF a
  <2>3. a < KvHeads * n
    BY <1>2, <1>3, <2>2
  <2>4. arena_kq'[a] = <<"k", encoded', g, r>>
    BY <1>1, <2>2, <2>3 DEF E!PackedKeys
  <2> QED
    BY <2>4 DEF a
<1>5. ASSUME NEW g \in HeadIds, NEW r \in 0 .. sp - 1
      PROVE  arena_vq'[g * sp + r] = IF r < n THEN <<"v", encoded', g, r>> ELSE E!Zero
  <2>1. /\ g * sp + r \in 0 .. KvHeads * sp - 1 /\ g * sp + r \in 0 .. KvHeads * MaxEnc - 1
        /\ (g * sp + r) \div sp = g /\ (g * sp + r) % sp = r
    BY <1>2, <1>3, SlabPair DEF HeadIds
  <2> DEFINE a == g * sp + r
  <2>2. /\ a \in 0 .. KvHeads * sp - 1 /\ a \in 0 .. KvHeads * MaxEnc - 1
        /\ a \div sp = g /\ a % sp = r
    BY <2>1
  <2> HIDE DEF a
  <2>3. ~ (a >= KvHeads * sp)
    BY <1>2, <1>3, <2>2
  <2>4. arena_vq' = E!PackedValues(n, sp)
    BY <1>1 DEF sp
  <2>5. arena_vq'[a] = IF r < n THEN <<"v", encoded', g, r>> ELSE E!Zero
    BY <1>1, <2>2, <2>3, <2>4 DEF E!PackedValues
  <2> QED
    BY <2>5 DEF a
<1>6. /\ DOMAIN arena_kq' = 0 .. KvHeads * MaxEnc - 1
      /\ DOMAIN arena_vq' = 0 .. KvHeads * MaxEnc - 1
  BY <1>1 DEF E!PackedKeys, E!PackedValues
<1>7. keys' = n /\ lanes' = sp /\ encoded' \in Nat /\ encoded' > 0
  BY <1>1 DEF sp
<1>8. \A g \in HeadIds, r \in 0 .. keys' - 1 :
        arena_kq'[g * keys' + r] = <<"k", encoded', g, r>>
  BY <1>4, <1>7
<1>9. \A g \in HeadIds, r \in 0 .. lanes' - 1 :
        arena_vq'[g * lanes' + r] = IF r < keys' THEN <<"v", encoded', g, r>> ELSE E!Zero
  BY <1>5, <1>7
<1>10. keys' \in 0 .. MaxEnc /\ keys' \in 1 .. MaxEnc /\ lanes' \in keys' .. MaxEnc
  BY <1>2, <1>3, <1>7
<1> QED
  BY <1>6, <1>7, <1>8, <1>9, <1>10 DEF JobInv, E!Zero

(* Both cores are sent to the first row of their ranges.                   *)
LEMMA LayerStarts ==
  ASSUME ArenaInv, NEW n \in 1 .. MaxEnc, NEW split \in BOOLEAN, E!Layer(n, split)
  PROVE  ArenaInv'
<1>1. JobInv' /\ encoded' > 0
  BY LayerPacks
<1>2. keys' \in 1 .. MaxEnc /\ MaxEnc \in Nat
  BY <1>1, Capacities DEF JobInv
<1>3. /\ KvHeads \in Nat \ {0} /\ Heads \in Nat \ {0} /\ Heads = 2 * KvHeads
      /\ Heads \div 2 = KvHeads
  BY HeadFacts
<1>4. \/ range'[0] = <<0, KvHeads>> /\ range'[1] = <<KvHeads, Heads>>
      \/ range'[0] = <<0, Heads>> /\ range'[1] = <<0, 0>>
  BY <1>3 DEF E!Layer, E!Halves, E!Core
<1>5. ASSUME NEW c \in E!Core
      PROVE  pos'[c] = IF range'[c][1] < range'[c][2]
                       THEN [i |-> range'[c][1], t |-> 0, at |-> "query"]
                       ELSE [i |-> 0, t |-> 0, at |-> "off"]
  BY DEF E!Layer, E!Idle, E!Core
<1>6. DOMAIN range' = E!Core /\ DOMAIN pos' = E!Core
  BY DEF E!Layer
<1>7. RangeInv'
  BY <1>4, <1>5, <1>6 DEF RangeInv
<1>8. ScratchType' /\ OutType'
  <2>1. UNCHANGED <<ao, work>>
    BY DEF E!Layer
  <2> QED
    BY <2>1 DEF ArenaInv, ScratchType, OutType
<1>9. ASSUME NEW c \in E!Core PROVE PosInv(c)' /\ ScratchInv(c)' /\ DoneInv(c)'
  <2>1. range'[c][1] \in Int /\ range'[c][2] \in Int
    BY <1>3, <1>4 DEF E!Core
  <2>2. CASE range'[c][1] < range'[c][2]
    <3>1. pos'[c] = [i |-> range'[c][1], t |-> 0, at |-> "query"]
      BY <1>5, <2>2
    <3>2. PosInv(c)'
      <4>1. pos'[c].i = range'[c][1] /\ pos'[c].t = 0 /\ pos'[c].at = "query"
        BY <3>1
      <4>2. ASSUME NEW a \in Int, NEW b \in Int, a < b PROVE a \in a .. b - 1
        BY <4>2
      <4>3. range'[c][1] \in range'[c][1] .. range'[c][2] - 1
        BY <2>1, <2>2, <4>2
      <4>4. 0 \in 0 .. keys' - 1
        <5>1. ASSUME NEW k \in 1 .. MaxEnc PROVE 0 \in 0 .. k - 1
          BY <1>2
        <5> QED
          BY <1>2, <5>1
      <4> QED
        BY <1>1, <4>1, <4>3, <4>4 DEF PosInv
    <3>3. ScratchInv(c)'
      BY <3>1 DEF ScratchInv
    <3>4. \A i \in range'[c][1] .. range'[c][2] - 1, t \in 0 .. keys' - 1 : ~ Through(c, i, t)'
      BY <1>2, <2>1, <3>1 DEF Through, Active
    <3> QED
      BY <3>2, <3>3, <3>4 DEF DoneInv
  <2>3. CASE ~ (range'[c][1] < range'[c][2])
    <3>1. pos'[c].at = "off"
      <4>1. pos'[c] = [i |-> 0, t |-> 0, at |-> "off"]
        BY <1>5, <2>3
      <4> QED
        BY <4>1
    <3>2. \A i \in range'[c][1] .. range'[c][2] - 1 : FALSE
      BY <2>1, <2>3
    <3> QED
      BY <3>1, <3>2 DEF PosInv, Active, ScratchInv, DoneInv
  <2> QED
    BY <2>2, <2>3
<1> QED
  BY <1>1, <1>7, <1>8, <1>9 DEF ArenaInv

(* A core gets on with its row: its scratch set is the only one written,   *)
(* and no row is done by it.                                               *)
LEMMA RowMoves ==
  ASSUME ArenaInv, NEW c \in E!Core, Active(c), NEW x \in {"scores", "probs", "values"}, NEW w,
         pos' = [pos EXCEPT ![c].at = x], work' = [work EXCEPT ![E!Slot(c)] = w],
         UNCHANGED <<encoded, keys, lanes, arena_kq, arena_vq, ao, range>>,
         w = [qq |-> w.qq, iw |-> w.iw, pq |-> w.pq],
         DOMAIN w.iw = 0 .. MaxEnc - 1, DOMAIN w.pq = 0 .. MaxEnc - 1,
         x = "scores" => w.qq = QRow(c),
         x = "probs" => \A r \in 0 .. keys - 1 : w.iw[r] = <<QRow(c), KeyOf(c, r)>>,
         x = "values" => \A r \in 0 .. lanes - 1 :
           w.pq[r] = IF r < keys THEN <<"p", <<QRow(c), KeyOf(c, r)>>>> ELSE E!Zero
  PROVE  ArenaInv'
<1>1. JobInv' /\ OutType'
  BY DEF ArenaInv, JobInv, OutType
<1>2. /\ DOMAIN pos = E!Core /\ DOMAIN range = E!Core
      /\ \A e \in E!Core : pos[e] = [i |-> pos[e].i, t |-> pos[e].t, at |-> pos[e].at]
  BY DEF ArenaInv, RangeInv
<1>3. ASSUME NEW e \in E!Core
      PROVE  /\ pos'[e].i = pos[e].i /\ pos'[e].t = pos[e].t
             /\ pos'[e].at = IF e = c THEN x ELSE pos[e].at
             /\ pos'[e] = [i |-> pos'[e].i, t |-> pos'[e].t, at |-> pos'[e].at]
  BY <1>2
<1>4. DOMAIN pos' = E!Core
  BY <1>2
<1>5. RangeInv'
  BY <1>3, <1>4 DEF ArenaInv, RangeInv
<1>6. E!Slot(c) \in E!Core /\ \A e \in E!Core : E!Slot(e)' = E!Slot(e)
  BY DEF E!Slot, E!Core
<1>7. DOMAIN work = E!Core
  BY DEF ArenaInv, ScratchType
<1>8. \A s \in E!Core : work'[s] = IF s = E!Slot(c) THEN w ELSE work[s]
  BY <1>6, <1>7
<1>9. ScratchType'
  <2>1. DOMAIN work' = E!Core
    BY <1>7
  <2>2. \A s \in E!Core :
          /\ work[s] = [qq |-> work[s].qq, iw |-> work[s].iw, pq |-> work[s].pq]
          /\ DOMAIN work[s].iw = 0 .. MaxEnc - 1 /\ DOMAIN work[s].pq = 0 .. MaxEnc - 1
    BY DEF ArenaInv, ScratchType
  <2>3. ASSUME NEW s \in E!Core
        PROVE  /\ work'[s] = [qq |-> work'[s].qq, iw |-> work'[s].iw, pq |-> work'[s].pq]
               /\ DOMAIN work'[s].iw = 0 .. MaxEnc - 1
               /\ DOMAIN work'[s].pq = 0 .. MaxEnc - 1
    <3>1. CASE s = E!Slot(c)
      <4>1. work'[s] = w
        BY <1>8, <3>1
      <4> QED
        BY <4>1
    <3>2. CASE s # E!Slot(c)
      <4>1. work'[s] = work[s]
        BY <1>8, <3>2
      <4> QED
        BY <2>2, <4>1
    <3> QED
      BY <3>1, <3>2
  <2> QED
    BY <2>1, <2>3 DEF ScratchType
<1>10. ASSUME NEW e \in E!Core
       PROVE  /\ PosInv(e) /\ ScratchInv(e) /\ DoneInv(e)
              /\ Active(e)' = Active(e)
              /\ QRow(e)' = QRow(e) /\ \A r : KeyOf(e, r)' = KeyOf(e, r)
  <2>1. PosInv(e) /\ ScratchInv(e) /\ DoneInv(e)
    BY DEF ArenaInv
  <2>2. Active(e)' = Active(e)
    BY <1>3 DEF Active
  <2>3. QRow(e)' = QRow(e) /\ \A r : KeyOf(e, r)' = KeyOf(e, r)
    BY <1>3 DEF QRow, KeyOf, E!HeadOf, E!Kv
  <2> QED
    BY <2>1, <2>2, <2>3
<1>11. ASSUME NEW e \in E!Core PROVE PosInv(e)'
  BY <1>3, <1>10 DEF PosInv, Active
<1>12. ASSUME NEW e \in E!Core PROVE DoneInv(e)'
  BY <1>3, <1>10 DEF DoneInv, Through, E!HeadOf, E!Expected, E!Kv
<1>13. ASSUME NEW e \in E!Core PROVE ScratchInv(e)'
  <2>1. CASE e = c
    <3>1. pos'[e].at = x /\ work'[E!Slot(e)'] = w
      BY <1>3, <1>6, <1>8, <2>1
    <3> QED
      BY <1>10, <2>1, <3>1 DEF ScratchInv
  <2>2. CASE e # c
    <3>1. CASE Active(e)
      <4>1. E!Slot(e) # E!Slot(c) /\ E!Slot(e) \in E!Core
        BY <2>2, <3>1, CoresApart DEF ArenaInv
      <4>2. work'[E!Slot(e)'] = work[E!Slot(e)] /\ pos'[e].at = pos[e].at
        BY <1>3, <1>6, <1>8, <2>2, <4>1
      <4> QED
        BY <1>10, <4>2 DEF ScratchInv
    <3>2. CASE ~ Active(e)
      <4>1. pos'[e].at = "off"
        BY <1>3, <2>2, <3>2 DEF Active
      <4> QED
        BY <4>1 DEF ScratchInv
    <3> QED
      BY <3>1, <3>2
  <2> QED
    BY <2>1, <2>2
<1> QED
  BY <1>1, <1>5, <1>9, <1>11, <1>12, <1>13 DEF ArenaInv

(* The query row, quantized.                                               *)
LEMMA QueryMoves == ASSUME ArenaInv, NEW c \in E!Core, E!Query(c) PROVE ArenaInv'
<1> DEFINE s == E!Slot(c)
           w == [work[s] EXCEPT !.qq = QRow(c)]
<1>1. s \in E!Core /\ DOMAIN work = E!Core
  BY DEF E!Slot, E!Core, ArenaInv, ScratchType
<1>2. /\ work[s] = [qq |-> work[s].qq, iw |-> work[s].iw, pq |-> work[s].pq]
      /\ DOMAIN work[s].iw = 0 .. MaxEnc - 1 /\ DOMAIN work[s].pq = 0 .. MaxEnc - 1
  BY <1>1 DEF ArenaInv, ScratchType
<1>3. /\ Active(c) /\ pos' = [pos EXCEPT ![c].at = "scores"]
      /\ UNCHANGED <<encoded, keys, lanes, arena_kq, arena_vq, ao, range>>
  BY DEF E!Query, E!job, Active
<1>4. work' = [work EXCEPT ![s] = w]
  BY DEF E!Query, QRow
<1> HIDE DEF s
<1>5. /\ w = [qq |-> w.qq, iw |-> w.iw, pq |-> w.pq]
      /\ w.qq = QRow(c) /\ w.iw = work[s].iw /\ w.pq = work[s].pq
  BY <1>2
<1> HIDE DEF w
<1>6. DOMAIN w.iw = 0 .. MaxEnc - 1 /\ DOMAIN w.pq = 0 .. MaxEnc - 1
  BY <1>2, <1>5
<1> QED
  BY <1>3, <1>4, <1>5, <1>6, RowMoves DEF s

(* The scores of the row against every key of its kv head.                 *)
LEMMA ScoresMove == ASSUME ArenaInv, NEW c \in E!Core, E!Scores(c) PROVE ArenaInv'
<1> DEFINE s == E!Slot(c)
           g == E!Kv(E!HeadOf(pos[c].i))
           iw == [r \in 0 .. MaxEnc - 1 |->
                    IF r < keys THEN <<work[s].qq, arena_kq[g * keys + r]>> ELSE work[s].iw[r]]
           w == [work[s] EXCEPT !.iw = iw]
<1>1. s \in E!Core /\ DOMAIN work = E!Core
  BY DEF E!Slot, E!Core, ArenaInv, ScratchType
<1>2. /\ work[s] = [qq |-> work[s].qq, iw |-> work[s].iw, pq |-> work[s].pq]
      /\ DOMAIN work[s].iw = 0 .. MaxEnc - 1 /\ DOMAIN work[s].pq = 0 .. MaxEnc - 1
  BY <1>1 DEF ArenaInv, ScratchType
<1>3. /\ Active(c) /\ pos' = [pos EXCEPT ![c].at = "probs"]
      /\ UNCHANGED <<encoded, keys, lanes, arena_kq, arena_vq, ao, range>>
  BY DEF E!Scores, E!job, Active
<1>4. work' = [work EXCEPT ![s] = w]
  BY DEF E!Scores
<1>5. /\ encoded > 0 /\ pos[c].i \in 0 .. Heads - 1 /\ work[s].qq = QRow(c)
      /\ keys \in 1 .. MaxEnc /\ MaxEnc \in Nat
  <2>1. PosInv(c) /\ ScratchInv(c) /\ pos[c].at = "scores"
    BY DEF ArenaInv, E!Scores
  <2>2. range[c][1] .. range[c][2] - 1 \subseteq 0 .. Heads - 1
    BY CoresApart DEF ArenaInv
  <2> QED
    BY <1>3, <2>1, <2>2, Capacities DEF PosInv, ScratchInv, ArenaInv, JobInv
<1>6. g \in HeadIds
  BY <1>5, HeadFacts
<1>7. ASSUME NEW r \in 0 .. keys - 1 PROVE iw[r] = <<QRow(c), KeyOf(c, r)>>
  <2>1. arena_kq[g * keys + r] = <<"k", encoded, g, r>>
    <3> HIDE DEF g
    <3> QED
      BY <1>5, <1>6 DEF ArenaInv, JobInv
  <2>2. r \in 0 .. MaxEnc - 1 /\ r < keys
    BY <1>5
  <2> QED
    BY <1>5, <2>1, <2>2 DEF KeyOf
<1>8. DOMAIN iw = 0 .. MaxEnc - 1
  OBVIOUS
<1> HIDE DEF s, iw
<1>9. /\ w = [qq |-> w.qq, iw |-> w.iw, pq |-> w.pq]
      /\ w.iw = iw /\ w.pq = work[s].pq
  BY <1>2
<1> HIDE DEF w
<1>10. DOMAIN w.iw = 0 .. MaxEnc - 1 /\ DOMAIN w.pq = 0 .. MaxEnc - 1
  BY <1>2, <1>8, <1>9
<1>11. \A r \in 0 .. keys - 1 : w.iw[r] = <<QRow(c), KeyOf(c, r)>>
  BY <1>7, <1>9
<1> QED
  BY <1>3, <1>4, <1>9, <1>10, <1>11, RowMoves DEF s

(* The weights of the row, with zeros up to the padded length.             *)
LEMMA ProbsMove == ASSUME ArenaInv, NEW c \in E!Core, E!Probs(c) PROVE ArenaInv'
<1> DEFINE s == E!Slot(c)
           pq == [r \in 0 .. MaxEnc - 1 |->
                    IF r < keys THEN <<"p", work[s].iw[r]>>
                    ELSE IF r < lanes THEN E!Zero ELSE work[s].pq[r]]
           w == [work[s] EXCEPT !.pq = pq]
<1>1. s \in E!Core /\ DOMAIN work = E!Core
  BY DEF E!Slot, E!Core, ArenaInv, ScratchType
<1>2. /\ work[s] = [qq |-> work[s].qq, iw |-> work[s].iw, pq |-> work[s].pq]
      /\ DOMAIN work[s].iw = 0 .. MaxEnc - 1 /\ DOMAIN work[s].pq = 0 .. MaxEnc - 1
  BY <1>1 DEF ArenaInv, ScratchType
<1>3. /\ Active(c) /\ pos' = [pos EXCEPT ![c].at = "values"]
      /\ UNCHANGED <<encoded, keys, lanes, arena_kq, arena_vq, ao, range>>
  BY DEF E!Probs, E!job, Active
<1>4. work' = [work EXCEPT ![s] = w]
  BY DEF E!Probs
<1>5. /\ keys \in 1 .. MaxEnc /\ lanes \in keys .. MaxEnc /\ MaxEnc \in Nat
      /\ \A r \in 0 .. keys - 1 : work[s].iw[r] = <<QRow(c), KeyOf(c, r)>>
  <2>1. PosInv(c) /\ ScratchInv(c) /\ pos[c].at = "probs"
    BY DEF ArenaInv, E!Probs
  <2> QED
    BY <1>3, <2>1, Capacities DEF PosInv, ScratchInv, ArenaInv, JobInv
<1>6. ASSUME NEW r \in 0 .. lanes - 1
      PROVE  pq[r] = IF r < keys THEN <<"p", <<QRow(c), KeyOf(c, r)>>>> ELSE E!Zero
  <2>1. r \in 0 .. MaxEnc - 1 /\ r < lanes
    BY <1>5
  <2>2. r < keys => r \in 0 .. keys - 1
    BY <1>5
  <2> QED
    BY <1>5, <2>1, <2>2
<1>7. DOMAIN pq = 0 .. MaxEnc - 1
  OBVIOUS
<1> HIDE DEF s, pq
<1>8. /\ w = [qq |-> w.qq, iw |-> w.iw, pq |-> w.pq]
      /\ w.iw = work[s].iw /\ w.pq = pq
  BY <1>2
<1> HIDE DEF w
<1>9. DOMAIN w.iw = 0 .. MaxEnc - 1 /\ DOMAIN w.pq = 0 .. MaxEnc - 1
  BY <1>2, <1>7, <1>8
<1>10. \A r \in 0 .. lanes - 1 :
         w.pq[r] = IF r < keys THEN <<"p", <<QRow(c), KeyOf(c, r)>>>> ELSE E!Zero
  BY <1>6, <1>8
<1> QED
  BY <1>3, <1>4, <1>8, <1>9, <1>10, RowMoves DEF s

(* The weights applied to the values: the padded lanes count for nothing.  *)
LEMMA DotIsExpected ==
  ASSUME ArenaInv, NEW c \in E!Core, pos[c].at = "values"
  PROVE  LET w == work[E!Slot(c)]
             h == E!HeadOf(pos[c].i)
             terms == {<<w.pq[r], arena_vq[E!Kv(h) * lanes + r]>> : r \in 0 .. lanes - 1}
         IN  {x \in terms : x[1] # E!Zero /\ x[2] # E!Zero} = E!Expected(h, pos[c].t)
<1> DEFINE w == work[E!Slot(c)]
           h == E!HeadOf(pos[c].i)
           g == E!Kv(h)
           P(r) == <<"p", <<QRow(c), KeyOf(c, r)>>>>
           V(r) == <<"v", encoded, g, r>>
           terms == {<<w.pq[r], arena_vq[g * lanes + r]>> : r \in 0 .. lanes - 1}
<1>1. PosInv(c) /\ ScratchInv(c) /\ Active(c)
  BY DEF ArenaInv, Active
<1>2. /\ encoded > 0 /\ keys \in 1 .. MaxEnc /\ lanes \in keys .. MaxEnc /\ MaxEnc \in Nat
      /\ pos[c].i \in 0 .. Heads - 1
  <2>1. range[c][1] .. range[c][2] - 1 \subseteq 0 .. Heads - 1
    BY CoresApart DEF ArenaInv
  <2> QED
    BY <1>1, <2>1, Capacities DEF PosInv, ArenaInv, JobInv
<1>3. g \in HeadIds
  BY <1>2, HeadFacts
<1>4. ASSUME NEW r \in 0 .. lanes - 1
      PROVE  /\ w.pq[r] = IF r < keys THEN P(r) ELSE E!Zero
             /\ arena_vq[g * lanes + r] = IF r < keys THEN V(r) ELSE E!Zero
  <2>1. w.pq[r] = IF r < keys THEN P(r) ELSE E!Zero
    BY <1>1 DEF ScratchInv
  <2>2. arena_vq[g * lanes + r] = IF r < keys THEN V(r) ELSE E!Zero
    <3> HIDE DEF g
    <3> QED
      BY <1>2, <1>3 DEF ArenaInv, JobInv
  <2> QED
    BY <2>1, <2>2
<1>5. \A r : P(r) # E!Zero /\ V(r) # E!Zero
  BY DEF E!Zero
<1>6. E!Expected(h, pos[c].t) = {<<P(r), V(r)>> : r \in 0 .. keys - 1}
  BY DEF E!Expected, QRow, KeyOf
<1> HIDE DEF w, h, g, P, V
<1>7. \A r \in 0 .. keys - 1 : r \in 0 .. lanes - 1 /\ r < keys
  BY <1>2
<1>8. \A r \in 0 .. lanes - 1 : r < keys => r \in 0 .. keys - 1
  BY <1>2
<1>9. {x \in terms : x[1] # E!Zero /\ x[2] # E!Zero} = {<<P(r), V(r)>> : r \in 0 .. keys - 1}
  <2>1. ASSUME NEW x \in terms, x[1] # E!Zero /\ x[2] # E!Zero
        PROVE  x \in {<<P(r), V(r)>> : r \in 0 .. keys - 1}
    <3>1. PICK r \in 0 .. lanes - 1 : x = <<w.pq[r], arena_vq[g * lanes + r]>>
      OBVIOUS
    <3>2. r < keys
      BY <1>4, <2>1, <3>1
    <3>3. x = <<P(r), V(r)>> /\ r \in 0 .. keys - 1
      BY <1>4, <1>8, <3>1, <3>2
    <3> QED
      BY <3>3
  <2>2. ASSUME NEW r \in 0 .. keys - 1
        PROVE  <<P(r), V(r)>> \in {x \in terms : x[1] # E!Zero /\ x[2] # E!Zero}
    <3>1. r \in 0 .. lanes - 1 /\ w.pq[r] = P(r) /\ arena_vq[g * lanes + r] = V(r)
      BY <1>4, <1>7
    <3>2. <<P(r), V(r)>> \in terms
      BY <3>1
    <3> HIDE DEF terms
    <3> QED
      BY <1>5, <3>2
  <2> QED
    BY <2>1, <2>2
<1> QED
  BY <1>6, <1>9 DEF w, h, g

(* The output row, and the core goes on to the next one.                   *)
LEMMA ValuesMove == ASSUME ArenaInv, NEW c \in E!Core, E!Values(c) PROVE ArenaInv'
<1> DEFINE s == E!Slot(c)
           h == E!HeadOf(pos[c].i)
           ii == pos[c].i
           tt == pos[c].t
           dot == E!Expected(h, tt)
<1>1. PosInv(c) /\ Active(c) /\ pos[c].at = "values" /\ encoded > 0
  BY DEF ArenaInv, Active, E!Values, PosInv
<1>2. /\ work' = [work EXCEPT ![s].iw[0] = <<"dot", dot>>]
      /\ ao' = [ao EXCEPT ![h][tt] = dot]
  BY <1>1, DotIsExpected DEF E!Values
<1>3. UNCHANGED <<encoded, keys, lanes, arena_kq, arena_vq, range>>
  BY DEF E!Values, E!job
<1>4. /\ keys \in 1 .. MaxEnc /\ MaxEnc \in Nat \ {0} /\ tt \in 0 .. keys - 1
      /\ ii \in range[c][1] .. range[c][2] - 1 /\ ii \in 0 .. Heads - 1
  BY <1>1, CoresApart, Capacities DEF ArenaInv, JobInv, PosInv
<1>5. h \in E!Head
  BY <1>4, HeadFacts
<1>6. JobInv'
  BY <1>3 DEF ArenaInv, JobInv
<1>7. s \in E!Core /\ \A e \in E!Core : E!Slot(e)' = E!Slot(e)
  BY <1>3 DEF E!Slot, E!Core
<1>8. ScratchType'
  <2>1. /\ DOMAIN work = E!Core
        /\ \A z \in E!Core :
             /\ work[z] = [qq |-> work[z].qq, iw |-> work[z].iw, pq |-> work[z].pq]
             /\ DOMAIN work[z].iw = 0 .. MaxEnc - 1 /\ DOMAIN work[z].pq = 0 .. MaxEnc - 1
    BY DEF ArenaInv, ScratchType
  <2> DEFINE iw == [work[s].iw EXCEPT ![0] = <<"dot", dot>>]
  <2>2. DOMAIN iw = 0 .. MaxEnc - 1
    BY <1>7, <2>1
  <2>3. work' = [work EXCEPT ![s] = [work[s] EXCEPT !.iw = iw]]
    BY <1>2
  <2> HIDE DEF iw, s
  <2>4. [work[s] EXCEPT !.iw = iw] = [qq |-> work[s].qq, iw |-> iw, pq |-> work[s].pq]
    BY <1>7, <2>1
  <2>5. ASSUME NEW z \in E!Core
        PROVE  /\ work'[z] = [qq |-> work'[z].qq, iw |-> work'[z].iw, pq |-> work'[z].pq]
               /\ DOMAIN work'[z].iw = 0 .. MaxEnc - 1
               /\ DOMAIN work'[z].pq = 0 .. MaxEnc - 1
    <3>1. CASE z = s
      <4>1. work'[z] = [qq |-> work[s].qq, iw |-> iw, pq |-> work[s].pq]
        BY <1>7, <2>1, <2>3, <2>4, <3>1
      <4> QED
        BY <1>7, <2>1, <2>2, <4>1
    <3>2. CASE z # s
      <4>1. work'[z] = work[z]
        BY <2>1, <2>3, <3>2
      <4> QED
        BY <2>1, <4>1
    <3> QED
      BY <3>1, <3>2
  <2>6. DOMAIN work' = E!Core
    BY <2>1, <2>3
  <2> QED
    BY <2>5, <2>6 DEF ScratchType
<1>9. /\ DOMAIN ao = E!Head
      /\ \A g \in E!Head : DOMAIN ao[g] = 0 .. MaxEnc - 1
  BY DEF ArenaInv, OutType
<1>10. /\ DOMAIN ao' = E!Head
       /\ \A g \in E!Head, t \in 0 .. keys - 1 :
            ao'[g][t] = IF g = h /\ t = tt THEN dot ELSE ao[g][t]
       /\ \A g \in E!Head : DOMAIN ao'[g] = 0 .. MaxEnc - 1
  <2>1. tt \in 0 .. MaxEnc - 1 /\ \A t \in 0 .. keys - 1 : t \in 0 .. MaxEnc - 1
    BY <1>4
  <2> HIDE DEF h, tt, dot
  <2> QED
    BY <1>2, <1>5, <1>9, <2>1
<1>11. OutType'
  BY <1>10 DEF OutType
<1>12. /\ DOMAIN pos = E!Core /\ DOMAIN pos' = E!Core
       /\ \A e \in E!Core : pos[e] = [i |-> pos[e].i, t |-> pos[e].t, at |-> pos[e].at]
       /\ \A e \in E!Core : e # c => pos'[e] = pos[e]
       /\ \/ tt + 1 < keys /\ pos'[c] = [i |-> ii, t |-> tt + 1, at |-> "query"]
          \/ /\ ~ (tt + 1 < keys) /\ ii + 1 < range[c][2]
             /\ pos'[c] = [i |-> ii + 1, t |-> 0, at |-> "query"]
          \/ /\ ~ (tt + 1 < keys) /\ ~ (ii + 1 < range[c][2])
             /\ pos'[c] = [i |-> 0, t |-> 0, at |-> "off"]
  BY DEF ArenaInv, RangeInv, E!Values, E!Idle
<1>13. RangeInv'
  <2>1. \A e \in E!Core : pos'[e] = [i |-> pos'[e].i, t |-> pos'[e].t, at |-> pos'[e].at]
    BY <1>12
  <2> QED
    BY <1>3, <1>12, <2>1 DEF ArenaInv, RangeInv
<1> HIDE DEF h, dot
<1>14. range[c][1] \in Int /\ range[c][2] \in Int
  BY HeadFacts DEF ArenaInv, RangeInv, E!Core
<1>15. PosInv(c)' /\ ScratchInv(c)'
  <2>1. CASE tt + 1 < keys /\ pos'[c] = [i |-> ii, t |-> tt + 1, at |-> "query"]
    <3>1. pos'[c].i = ii /\ pos'[c].t = tt + 1 /\ pos'[c].at = "query"
      BY <2>1
    <3>2. tt + 1 \in 0 .. keys - 1
      BY <1>4, <2>1
    <3> QED
      BY <1>1, <1>3, <1>4, <3>1, <3>2 DEF PosInv, ScratchInv
  <2>2. CASE /\ ~ (tt + 1 < keys) /\ ii + 1 < range[c][2]
             /\ pos'[c] = [i |-> ii + 1, t |-> 0, at |-> "query"]
    <3>1. pos'[c].i = ii + 1 /\ pos'[c].t = 0 /\ pos'[c].at = "query"
      BY <2>2
    <3>2. 0 \in 0 .. keys - 1 /\ ii + 1 \in range[c][1] .. range[c][2] - 1
      BY <1>4, <1>14, <2>2
    <3> QED
      BY <1>1, <1>3, <3>1, <3>2 DEF PosInv, ScratchInv
  <2>3. CASE pos'[c] = [i |-> 0, t |-> 0, at |-> "off"]
    <3>1. pos'[c].at = "off"
      BY <2>3
    <3> QED
      BY <3>1 DEF PosInv, ScratchInv, Active
  <2> QED
    BY <1>12, <2>1, <2>2, <2>3
<1>16. ASSUME NEW i \in range[c][1] .. range[c][2] - 1, NEW t \in 0 .. keys - 1, Through(c, i, t)'
       PROVE  Through(c, i, t) \/ (i = ii /\ t = tt)
  <2>1. i \in Int /\ t \in Int /\ ii \in Int /\ tt \in Int /\ keys \in Int
    BY <1>4, <1>14
  <2>2. i <= range[c][2] - 1 /\ t <= keys - 1
    BY <1>4, <1>14
  <2>3. i < ii \/ (i = ii /\ t <= tt)
    <3>1. CASE tt + 1 < keys /\ pos'[c] = [i |-> ii, t |-> tt + 1, at |-> "query"]
      BY <1>16, <2>1, <3>1 DEF Through, Active
    <3>2. CASE /\ ~ (tt + 1 < keys) /\ ii + 1 < range[c][2]
               /\ pos'[c] = [i |-> ii + 1, t |-> 0, at |-> "query"]
      BY <1>4, <1>16, <2>1, <2>2, <3>2 DEF Through, Active
    <3>3. CASE /\ ~ (tt + 1 < keys) /\ ~ (ii + 1 < range[c][2])
               /\ pos'[c] = [i |-> 0, t |-> 0, at |-> "off"]
      BY <1>14, <2>1, <2>2, <3>3
    <3> QED
      BY <1>12, <3>1, <3>2, <3>3
  <2> QED
    BY <2>1, <2>3 DEF Through
<1>17. ASSUME NEW e \in E!Core PROVE DoneInv(e) /\ DoneInv(e)'
  <2>1. DoneInv(e)
    BY DEF ArenaInv
  <2> SUFFICES ASSUME NEW i \in range[e][1] .. range[e][2] - 1, NEW t \in 0 .. keys - 1,
                      Through(e, i, t)'
               PROVE  ao'[E!HeadOf(i)][t] = E!Expected(E!HeadOf(i), t)
    BY <1>3, <2>1 DEF DoneInv, E!Expected, E!HeadOf, E!Kv
  <2>2. i \in 0 .. Heads - 1 /\ E!HeadOf(i) \in E!Head
    BY CoresApart, HeadFacts DEF ArenaInv
  <2>3. CASE e = c /\ i = ii /\ t = tt
    BY <1>10, <2>2, <2>3 DEF h, dot
  <2>4. CASE ~ (e = c /\ i = ii /\ t = tt)
    <3>1. E!HeadOf(i) # h \/ t # tt
      <4>1. CASE e = c
        BY <1>4, <2>2, <2>4, <4>1, HeadFacts DEF h
      <4>2. CASE e # c
        <5>1. i # ii
          BY <1>4, <4>2, CoresApart DEF ArenaInv
        <5> QED
          BY <1>4, <2>2, <5>1, HeadFacts DEF h
      <4> QED
        BY <4>1, <4>2
    <3>2. Through(e, i, t)
      <4>1. CASE e = c
        BY <1>16, <2>4, <4>1
      <4>2. CASE e # c
        BY <1>12, <4>2 DEF Through, Active
      <4> QED
        BY <4>1, <4>2
    <3>3. ao[E!HeadOf(i)][t] = E!Expected(E!HeadOf(i), t)
      BY <1>1, <2>1, <3>2 DEF DoneInv
    <3> QED
      BY <1>10, <2>2, <3>1, <3>3
  <2> QED
    BY <2>3, <2>4
<1>18. ASSUME NEW e \in E!Core, e # c PROVE PosInv(e)' /\ ScratchInv(e)'
  <2>1. pos'[e] = pos[e] /\ PosInv(e) /\ ScratchInv(e)
    BY <1>12, <1>18 DEF ArenaInv
  <2>2. PosInv(e)'
    BY <1>3, <2>1 DEF PosInv, Active
  <2>3. CASE ~ Active(e)
    <3>1. pos'[e].at = "off"
      BY <2>1, <2>3 DEF Active
    <3> QED
      BY <2>2, <3>1 DEF ScratchInv
  <2>4. CASE Active(e)
    <3>1. E!Slot(e) # s /\ E!Slot(e) \in E!Core /\ E!Slot(e)' = E!Slot(e)
      BY <1>1, <1>7, <1>18, <2>4, CoresApart DEF ArenaInv
    <3>2. work'[E!Slot(e)] = work[E!Slot(e)]
      <4>1. DOMAIN work = E!Core
        BY DEF ArenaInv, ScratchType
      <4> HIDE DEF s
      <4> QED
        BY <1>2, <3>1, <4>1
    <3>3. QRow(e)' = QRow(e) /\ \A r : KeyOf(e, r)' = KeyOf(e, r)
      BY <1>3, <2>1 DEF QRow, KeyOf, E!HeadOf, E!Kv
    <3>4. ScratchInv(e)'
      BY <1>3, <2>1, <3>1, <3>2, <3>3 DEF ScratchInv
    <3> QED
      BY <2>2, <3>4
  <2> QED
    BY <2>3, <2>4
<1> QED
  BY <1>6, <1>8, <1>11, <1>13, <1>15, <1>17, <1>18 DEF ArenaInv

(* Nothing packed, no core in a row.                                       *)
LEMMA ArenaStart == QueryInit => ArenaInv
<1> SUFFICES ASSUME QueryInit PROVE ArenaInv
  OBVIOUS
<1>1. /\ encoded = 0 /\ keys = 0
      /\ arena_kq = [a \in 0 .. KvHeads * MaxEnc - 1 |-> E!Junk]
      /\ arena_vq = [a \in 0 .. KvHeads * MaxEnc - 1 |-> E!Junk]
      /\ ao = [h \in E!Head |-> [t \in 0 .. MaxEnc - 1 |-> {}]]
      /\ range = [c \in E!Core |-> <<0, 0>>]
      /\ pos = [c \in E!Core |-> [i |-> 0, t |-> 0, at |-> "off"]]
      /\ work = [c \in E!Core |-> [qq |-> E!Junk, iw |-> [a \in 0 .. MaxEnc - 1 |-> E!Junk],
                                   pq |-> [a \in 0 .. MaxEnc - 1 |-> E!Junk]]]
  BY DEF QueryInit, E!Init, E!Idle
<1>2. JobInv
  BY <1>1, Capacities DEF JobInv
<1>3. RangeInv
  BY <1>1 DEF RangeInv, E!Core
<1>4. ScratchType
  BY <1>1 DEF ScratchType
<1>5. OutType
  BY <1>1 DEF OutType
<1>6. ASSUME NEW c \in E!Core PROVE PosInv(c) /\ ScratchInv(c) /\ DoneInv(c)
  <2>1. pos[c].at = "off" /\ ~ (encoded > 0)
    BY <1>1
  <2> QED
    BY <2>1 DEF PosInv, Active, ScratchInv, DoneInv
<1> QED
  BY <1>2, <1>3, <1>4, <1>5, <1>6 DEF ArenaInv

(* Every step of a query keeps the arena.                                  *)
LEMMA ArenaNext == ArenaInv /\ [QueryNext]_<<vars, encVars>> => ArenaInv'
<1> SUFFICES ASSUME ArenaInv, [QueryNext]_<<vars, encVars>> PROVE ArenaInv'
  OBVIOUS
<1>1. ASSUME UNCHANGED encVars PROVE ArenaInv'
  <2>1. UNCHANGED <<encoded, keys, lanes, arena_kq, arena_vq, ao, range, pos, work>>
    BY <1>1 DEF encVars
  <2>2. JobInv' /\ OutType'
    BY <2>1 DEF ArenaInv, JobInv, OutType
  <2>3. RangeInv' /\ ScratchType'
    BY <2>1 DEF ArenaInv, RangeInv, ScratchType
  <2>4. ASSUME NEW c \in E!Core PROVE PosInv(c)' /\ ScratchInv(c)' /\ DoneInv(c)'
    <3>1. PosInv(c) /\ ScratchInv(c) /\ DoneInv(c)
      BY DEF ArenaInv
    <3>2. PosInv(c)'
      BY <2>1, <3>1 DEF PosInv, Active
    <3>3. ScratchInv(c)'
      BY <2>1, <3>1 DEF ScratchInv, QRow, KeyOf, E!HeadOf, E!Kv, E!Slot
    <3>4. DoneInv(c)'
      BY <2>1, <3>1 DEF DoneInv, Through, Active, E!HeadOf, E!Kv, E!Expected
    <3> QED
      BY <3>2, <3>3, <3>4
  <2> QED
    BY <2>2, <2>3, <2>4 DEF ArenaInv
<1>2. CASE \E n \in 1 .. MaxEnc, split \in BOOLEAN : StartQuery(n, split)
  <2> PICK n \in 1 .. MaxEnc, split \in BOOLEAN : StartQuery(n, split)
    BY <1>2
  <2>1. CASE scalar'
    BY <1>1, <2>1 DEF StartQuery
  <2>2. CASE ~ scalar'
    BY <2>2, LayerStarts DEF StartQuery
  <2> QED
    BY <2>1, <2>2
<1>3. CASE Attend
  <2> PICK c \in E!Core : E!Step(c)
    BY <1>3 DEF Attend
  <2> QED
    BY QueryMoves, ScoresMove, ProbsMove, ValuesMove DEF E!Step
<1>4. CASE PackMirrors \/ Give \/ Decode \/ UNCHANGED <<vars, encVars>>
  BY <1>1, <1>4 DEF PackMirrors, Give, Decode
<1> QED
  BY <1>2, <1>3, <1>4 DEF QueryNext

(* So is what the two cores do with the arena and their scratch.           *)
THEOREM ArenaHolds == QuerySpec => []ArenaInv
BY ArenaStart, ArenaNext, PTL DEF QuerySpec

(* When both cores have come back every row of every head of the encoder's *)
(* attention is its own, whatever prompts came before (engine.c:1391-1395).*)
THEOREM EveryRowIsOwn == QuerySpec => []AttentionIsOwn
<1>1. ArenaInv => AttentionIsOwn
  <2> SUFFICES ASSUME ArenaInv, E!Quiet, encoded > 0,
                      NEW h \in E!Head, NEW t \in 0 .. keys - 1
               PROVE  ao[h][t] = E!Expected(h, t)
    BY DEF AttentionIsOwn, E!AttentionIsOwn
  <2>1. PICK i \in 0 .. Heads - 1 : E!HeadOf(i) = h
    BY HeadFacts
  <2>2. PICK c \in E!Core : i \in range[c][1] .. range[c][2] - 1
    <3>1. \/ i \in range[0][1] .. range[0][2] - 1
          \/ i \in range[1][1] .. range[1][2] - 1
      <4>1. i \in Int /\ KvHeads \in Int /\ Heads \in Int /\ 0 <= i /\ i <= Heads - 1
        BY HeadFacts
      <4>2. \/ range[0] = <<0, KvHeads>> /\ range[1] = <<KvHeads, Heads>>
            \/ range[0] = <<0, Heads>> /\ range[1] = <<0, 0>>
        BY DEF ArenaInv, RangeInv
      <4>3. CASE range[0] = <<0, KvHeads>> /\ range[1] = <<KvHeads, Heads>>
        <5>1. /\ range[0][1] = 0 /\ range[0][2] = KvHeads
              /\ range[1][1] = KvHeads /\ range[1][2] = Heads
          BY <4>3
        <5>2. i \in 0 .. KvHeads - 1 \/ i \in KvHeads .. Heads - 1
          BY <4>1
        <5> QED
          BY <5>1, <5>2
      <4>4. CASE range[0] = <<0, Heads>> /\ range[1] = <<0, 0>>
        BY <4>4
      <4> QED
        BY <4>2, <4>3, <4>4
    <3> QED
      BY <3>1 DEF E!Core
  <2>3. Through(c, i, t)
    BY DEF E!Quiet, Through, Active
  <2> QED
    BY <2>1, <2>2, <2>3 DEF ArenaInv, DoneInv
<1> QED
  BY <1>1, ArenaHolds, PTL

=============================================================================
