--------------------------- MODULE DecodeMirrors ---------------------------
(***************************************************************************)
(* The integer mirrors of the attention caches, address by address         *)
(* (engine.c, NE_PIE).  An encode packs the keys and values of every       *)
(* decoder layer by the length of its own prompt; decoding reads them back *)
(* with strides of its own, and appends to mirrors of fixed strides.  The  *)
(* buffers are never cleared: a prompt lies on what the longer one before  *)
(* it left.  An element stands for where it came from.                     *)
(***************************************************************************)
EXTENDS Integers

CONSTANTS
  Layers, KvHeads, HeadDim, MaxEnc, MaxGen,
  SpAlign,    \* NE_SPALIGN + 1: 64 under NE_ATTN_I8
  CapAlign,   \* rounding of the capacities: 32
  MaxQueries  \* bound: queries

(* Lengths are positive, and the static assertion of engine.c:1284.        *)
ASSUME MirrorAssumption ==
  /\ {Layers, KvHeads, HeadDim, MaxEnc, MaxGen, SpAlign, CapAlign, MaxQueries}
       \subseteq Nat \ {0}
  /\ MaxEnc % SpAlign = 0

VARIABLES
  query, scalar,            \* queries so far; this one runs scalar
  pc, layer,
  enc_len, cross_sp, dec_len,
  cross_kq, cross_ksc, cross_vq,
  self_kq, self_ksc, self_vq

ctx == <<enc_len, cross_sp, dec_len>>
cross == <<cross_kq, cross_ksc, cross_vq>>
self == <<self_kq, self_ksc, self_vq>>
vars == <<query, scalar, pc, layer, ctx, cross, self>>

Round(n, unit) == ((n + unit - 1) \div unit) * unit

VCap == Round(MaxEnc, CapAlign)   \* vSp of ne_alloc, vLayer of attend_cross_q16
SelfSp == Round(MaxGen, CapAlign) \* self_sp

(* Elements: of what query, layer, kv head, token and dimension; the zero  *)
(* of a padded lane; what malloc left.                                     *)
Zero == <<0>>
Junk == <<>>

Buffer(size) == [a \in 0 .. size - 1 |-> Junk]

Init ==
  /\ query = 0 /\ scalar = FALSE /\ pc = "idle" /\ layer = 0
  /\ enc_len = 0 /\ cross_sp = 0 /\ dec_len = 0
  /\ cross_kq = Buffer(Layers * KvHeads * MaxEnc * HeadDim)
  /\ cross_ksc = Buffer(Layers * KvHeads * MaxEnc)
  /\ cross_vq = Buffer(Layers * KvHeads * HeadDim * VCap)
  /\ self_kq = Buffer(Layers * KvHeads * MaxGen * HeadDim)
  /\ self_ksc = Buffer(Layers * KvHeads * MaxGen)
  /\ self_vq = Buffer(Layers * KvHeads * HeadDim * SelfSp)

-----------------------------------------------------------------------------
(* Writers.                                                                *)

(* buf with src[i] stored at base + i.                                     *)
Stored(buf, base, src) ==
  [a \in DOMAIN buf |-> IF a - base \in DOMAIN src THEN src[a - base] ELSE buf[a]]

(* quant_kT_range: row r is token r % n of kv head r \div n.               *)
KeyRows(n) ==
  [i \in 0 .. KvHeads * n * HeadDim - 1 |->
     LET r == i \div HeadDim
     IN  <<query, layer, r \div n, r % n, i % HeadDim>>]
KeyScales(n) ==
  [r \in 0 .. KvHeads * n - 1 |-> <<query, layer, r \div n, r % n>>]

(* quant_vT_range, quant_vT_i16: dimension i at i * sp, its tokens side by *)
(* side and zeros in the padded lanes.                                     *)
ValueLanes(n, sp) ==
  [a \in 0 .. KvHeads * HeadDim * sp - 1 |->
     LET i == a \div sp
         t == a % sp
     IN  IF t < n THEN <<query, layer, i \div HeadDim, t, i % HeadDim>> ELSE Zero]

(* ne_encode starts: a prompt that is empty or too long changes nothing,   *)
(* a bad token id leaves the new lengths behind (the caller gives up).     *)
Refuse(n) ==
  /\ pc = "idle" /\ n \notin 1 .. MaxEnc
  /\ UNCHANGED vars

BadToken(n) ==
  /\ pc = "idle" /\ n \in 1 .. MaxEnc
  /\ enc_len' = n /\ dec_len' = 0
  /\ UNCHANGED <<query, scalar, pc, layer, cross_sp, cross, self>>

(* MUTANT: the stride is kept from the first prompt.                       *)
EncodeKeepsSp(n) ==
  /\ pc = "idle" /\ n \in 1 .. MaxEnc /\ query < MaxQueries
  /\ query' = query + 1 /\ scalar' \in BOOLEAN
  /\ enc_len' = n /\ dec_len' = 0
  /\ cross_sp' = IF cross_sp = 0 THEN Round(n, SpAlign) ELSE cross_sp
  /\ pc' = "pack" /\ layer' = 0
  /\ UNCHANGED <<cross, self>>

(* enc_from_layer up to the mirrors; Sp is recorded on the context.        *)
Encode(n) ==
  /\ pc = "idle" /\ n \in 1 .. MaxEnc /\ query < MaxQueries
  /\ query' = query + 1 /\ scalar' \in BOOLEAN
  /\ enc_len' = n /\ dec_len' = 0
  /\ cross_sp' = Round(n, SpAlign)
  /\ pc' = "pack" /\ layer' = 0
  /\ UNCHANGED <<cross, self>>

Sp == Round(enc_len, SpAlign)     \* the local of enc_from_layer

(* The mirrors of one decoder layer.                                       *)
PackLayer ==
  /\ pc = "pack"
  /\ cross_kq' = Stored(cross_kq, layer * KvHeads * MaxEnc * HeadDim, KeyRows(enc_len))
  /\ cross_ksc' = Stored(cross_ksc, layer * KvHeads * MaxEnc, KeyScales(enc_len))
  /\ cross_vq' = Stored(cross_vq, layer * KvHeads * HeadDim * VCap, ValueLanes(enc_len, Sp))
  /\ IF layer + 1 < Layers THEN layer' = layer + 1 /\ UNCHANGED pc
                           ELSE layer' = 0 /\ pc' = "ready"
  /\ UNCHANGED <<query, scalar, ctx, self>>

(* MUTANT: keys appended with the stride of the live prefix.               *)
SelfKeyRowLive(h) == h * (dec_len + 1) + dec_len

(* Row of the new token's key in a layer's mirror: capacity-T slabs.       *)
SelfKeyRow(h) == h * MaxGen + dec_len

(* quant_self_k_row: the new key of every kv head.                         *)
AppendKeys ==
  LET base == layer * KvHeads * MaxGen
      At(h) == base + SelfKeyRow(h)
  IN  /\ self_kq' = [a \in DOMAIN self_kq |->
           IF \E h \in 0 .. KvHeads - 1 : a \div HeadDim = At(h)
           THEN LET h == CHOOSE h \in 0 .. KvHeads - 1 : a \div HeadDim = At(h)
                IN  <<query, layer, h, dec_len, a % HeadDim>>
           ELSE self_kq[a]]
      /\ self_ksc' = [a \in DOMAIN self_ksc |->
           IF \E h \in 0 .. KvHeads - 1 : a = At(h)
           THEN <<query, layer, CHOOSE h \in 0 .. KvHeads - 1 : a = At(h), dec_len>>
           ELSE self_ksc[a]]

(* ne_step_f: a full cache ends the answer without a step.                 *)
StartStep ==
  /\ pc = "ready" /\ dec_len < MaxGen
  /\ pc' = "step"
  /\ UNCHANGED <<query, scalar, layer, ctx, cross, self>>

(* One decoder layer of it: append the key, pack the values of the live    *)
(* prefix again, attend.  The scalar path keeps to the float caches.       *)
StepLayer ==
  /\ pc = "step"
  /\ IF scalar THEN UNCHANGED self
     ELSE /\ AppendKeys
          /\ self_vq' = Stored(self_vq, layer * KvHeads * HeadDim * SelfSp,
                               ValueLanes(dec_len + 1, SelfSp))
  /\ IF layer + 1 < Layers
     THEN layer' = layer + 1 /\ UNCHANGED <<pc, dec_len>>
     ELSE layer' = 0 /\ pc' = "ready" /\ dec_len' = dec_len + 1
  /\ UNCHANGED <<query, scalar, enc_len, cross_sp, cross>>

(* The answer is complete.                                                 *)
Finish ==
  /\ pc = "ready" /\ pc' = "idle"
  /\ UNCHANGED <<query, scalar, layer, ctx, cross, self>>

-----------------------------------------------------------------------------
(* Readers: the address arithmetic of the two attentions.                  *)

CrossKey(l, h, t, d) ==
  cross_kq[l * KvHeads * MaxEnc * HeadDim + h * enc_len * HeadDim + t * HeadDim + d]
CrossKeyScale(l, h, t) == cross_ksc[l * KvHeads * MaxEnc + h * enc_len + t]
CrossValue(l, h, d, t) ==
  cross_vq[l * KvHeads * HeadDim * VCap + h * HeadDim * cross_sp + d * cross_sp + t]

SelfKey(l, h, t, d) ==
  self_kq[l * KvHeads * MaxGen * HeadDim + h * MaxGen * HeadDim + t * HeadDim + d]
SelfKeyScale(l, h, t) == self_ksc[l * KvHeads * MaxGen + h * MaxGen + t]
SelfValue(l, h, d, t) ==
  self_vq[l * KvHeads * HeadDim * SelfSp + h * HeadDim * SelfSp + d * SelfSp + t]

LayerIds == 0 .. Layers - 1
HeadIds == 0 .. KvHeads - 1
Dims == 0 .. HeadDim - 1

(* While a query decodes, cross-attention finds under its own strides each *)
(* key, scale and value of this prompt and zeros in the padded lanes,      *)
(* whatever lengths came before: packing and reading agree                 *)
(* (engine.c:1280-1284, "the historical failure class").                   *)
CrossReadsBack ==
  pc \in {"ready", "step"} =>
    \A l \in LayerIds, h \in HeadIds, d \in Dims :
      /\ \A t \in 0 .. enc_len - 1 :
           /\ CrossKey(l, h, t, d) = <<query, l, h, t, d>>
           /\ CrossKeyScale(l, h, t) = <<query, l, h, t>>
      /\ \A t \in 0 .. cross_sp - 1 :
           CrossValue(l, h, d, t) = IF t < enc_len THEN <<query, l, h, t, d>> ELSE Zero

(* Rows a layer has attended to in this query.                             *)
Attended(l) == dec_len + (IF pc = "step" /\ l < layer THEN 1 ELSE 0)

(* The self mirrors hold exactly the tokens decoded so far in this query,  *)
(* layer by layer, also after a longer answer or a scalar run before.      *)
SelfReadsBack ==
  pc \in {"ready", "step"} /\ ~scalar =>
    \A l \in LayerIds, h \in HeadIds, d \in Dims :
      /\ \A t \in 0 .. Attended(l) - 1 :
           /\ SelfKey(l, h, t, d) = <<query, l, h, t, d>>
           /\ SelfKeyScale(l, h, t) = <<query, l, h, t>>
      /\ Attended(l) > 0 => \A t \in 0 .. SelfSp - 1 :
           SelfValue(l, h, d, t) = IF t < Attended(l) THEN <<query, l, h, t, d>> ELSE Zero
=============================================================================
