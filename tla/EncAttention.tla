---------------------------- MODULE EncAttention ----------------------------
(***************************************************************************)
(* The encoder's integer attention on two cores (engine.c, quant_kT and    *)
(* quant_vT, then ne_attn_heads through split_attn).  Keys and values of a *)
(* layer are packed into the arena by the length of the prompt; each core  *)
(* then takes a range of the head order through scratch of its own.        *)
(* Nothing is cleared between rows, layers or prompts.                     *)
(***************************************************************************)
EXTENDS Integers

CONSTANTS
  Heads, KvHeads,
  MaxS,       \* longest prompt
  SpAlign,    \* rounding of the lanes of a value row
  Layers,     \* bound: layers in all, of one prompt or several
  Lengths     \* bound: prompt lengths tried

Core == {0, 1}
Head == 0 .. Heads - 1

VARIABLES
  layer,  \* layers packed so far, its number tags the data
  S, Sp,  \* key count and its padding: fields of the job
  kq, vq, \* arena: key rows, value lanes (a value row stands for its dims)
  out,    \* [head][token]
  range,  \* per core: the heads h0 .. h1 - 1 of its call
  pos,    \* per core: where it is
  work    \* the two scratch sets: qq, iw, pq

job == <<layer, S, Sp, kq, vq>>
vars == <<job, out, range, pos, work>>

Round(n, unit) == ((n + unit - 1) \div unit) * unit
Junk == <<>>
Zero == <<0>>

Idle == [i |-> 0, t |-> 0, at |-> "off"]

Init ==
  /\ layer = 0 /\ S = 0 /\ Sp = 0
  /\ kq = [a \in 0 .. KvHeads * MaxS - 1 |-> Junk]
  /\ vq = [a \in 0 .. KvHeads * MaxS - 1 |-> Junk]
  /\ out = [h \in Head |-> [t \in 0 .. MaxS - 1 |-> {}]]
  /\ range = [c \in Core |-> <<0, 0>>]
  /\ pos = [c \in Core |-> Idle]
  /\ work = [c \in Core |-> [qq |-> Junk, iw |-> [a \in 0 .. MaxS - 1 |-> Junk],
                             pq |-> [a \in 0 .. MaxS - 1 |-> Junk]]]

Quiet == \A c \in Core : pos[c].at = "off"

-----------------------------------------------------------------------------

(* quant_kT and quant_vT for n tokens: row r is token r % n of kv head     *)
(* r \div n; value lanes are padded with zeros.                            *)
PackedKeys(n) ==
  [r \in 0 .. KvHeads * MaxS - 1 |->
     IF r < KvHeads * n THEN <<"k", layer + 1, r \div n, r % n>> ELSE kq[r]]
PackedValues(n, sp) ==
  [a \in 0 .. KvHeads * MaxS - 1 |->
     IF a >= KvHeads * sp THEN vq[a]
     ELSE IF a % sp < n THEN <<"v", layer + 1, a \div sp, a % sp>> ELSE Zero]

(* split_attn halves the head order; without it core 0 takes it all.       *)
Halves(split) ==
  IF split THEN <<<<0, Heads \div 2>>, <<Heads \div 2, Heads>>>>
           ELSE <<<<0, Heads>>, <<0, 0>>>>

(* A layer of a prompt of n tokens: pack, then call both ranges.  A layer  *)
(* of the same prompt and the first of another look alike from here.       *)
Layer(n, split) ==
  /\ Quiet /\ layer < Layers
  /\ layer' = layer + 1
  /\ S' = n /\ Sp' = Round(n, SpAlign)
  /\ kq' = PackedKeys(n) /\ vq' = PackedValues(n, Round(n, SpAlign))
  /\ range' = [c \in Core |-> Halves(split)[c + 1]]
  /\ pos' = [c \in Core |->
       IF Halves(split)[c + 1][1] < Halves(split)[c + 1][2]
       THEN [i |-> Halves(split)[c + 1][1], t |-> 0, at |-> "query"] ELSE Idle]
  /\ UNCHANGED <<out, work>>

(* MUTANT: an order that is no bijection.                                  *)
HeadOfTwice(i) == (i * 2) % Heads

(* Head at place i of the order: even heads, then odd ones.                *)
HeadOf(i) == IF i < Heads \div 2 THEN i * 2 ELSE (i - Heads \div 2) * 2 + 1

(* The scratch set follows the range.                                      *)
Slot(c) == IF range[c][1] # 0 THEN 1 ELSE 0

Kv(h) == h \div (Heads \div KvHeads)

(* quant_s16 of the query row into qq.                                     *)
Query(c) ==
  /\ pos[c].at = "query"
  /\ work' = [work EXCEPT ![Slot(c)].qq = <<"q", layer, HeadOf(pos[c].i), pos[c].t>>]
  /\ pos' = [pos EXCEPT ![c].at = "scores"]
  /\ UNCHANGED <<job, out, range>>

(* ne_dots over S key rows from the base of the kv head.                   *)
Scores(c) ==
  LET w == work[Slot(c)]
      base == Kv(HeadOf(pos[c].i)) * S
  IN  /\ pos[c].at = "scores"
      /\ work' = [work EXCEPT ![Slot(c)].iw =
           [r \in 0 .. MaxS - 1 |-> IF r < S THEN <<w.qq, kq[base + r]>> ELSE w.iw[r]]]
      /\ pos' = [pos EXCEPT ![c].at = "probs"]
      /\ UNCHANGED <<job, out, range>>

(* Softmax over the row, quantized; zeros up to Sp.                        *)
Probs(c) ==
  LET w == work[Slot(c)]
  IN  /\ pos[c].at = "probs"
      /\ work' = [work EXCEPT ![Slot(c)].pq =
           [r \in 0 .. MaxS - 1 |->
              IF r < S THEN <<"p", w.iw[r]>> ELSE IF r < Sp THEN Zero ELSE w.pq[r]]]
      /\ pos' = [pos EXCEPT ![c].at = "values"]
      /\ UNCHANGED <<job, out, range>>

(* ne_dots over Sp lanes of the value rows into iw, and the output slice;  *)
(* a lane counts unless one of its factors is zero.  Then the next row.    *)
Values(c) ==
  LET w == work[Slot(c)]
      h == HeadOf(pos[c].i)
      terms == {<<w.pq[r], vq[Kv(h) * Sp + r]>> : r \in 0 .. Sp - 1}
      dot == {x \in terms : x[1] # Zero /\ x[2] # Zero}
  IN  /\ pos[c].at = "values"
      /\ work' = [work EXCEPT ![Slot(c)].iw[0] = <<"dot", dot>>]
      /\ out' = [out EXCEPT ![h][pos[c].t] = dot]
      /\ pos' = [pos EXCEPT ![c] =
           IF pos[c].t + 1 < S THEN [i |-> pos[c].i, t |-> pos[c].t + 1, at |-> "query"]
           ELSE IF pos[c].i + 1 < range[c][2] THEN [i |-> pos[c].i + 1, t |-> 0, at |-> "query"]
           ELSE Idle]
      /\ UNCHANGED <<job, range>>

(* One row of one head.                                                    *)
Step(c) == Query(c) \/ Scores(c) \/ Probs(c) \/ Values(c)

-----------------------------------------------------------------------------

(* What row t of head h must be: its query against every key of its kv     *)
(* head in this layer, each weight applied to the value of the same token. *)
Expected(h, t) ==
  {<<<<"p", <<<<"q", layer, h, t>>, <<"k", layer, Kv(h), r>>>>>>, <<"v", layer, Kv(h), r>>>> :
     r \in 0 .. S - 1}

(* When both ranges have come back, every row of every head is the one of  *)
(* this layer: no head left with the layer before, none mixed with the     *)
(* other core's row, no padded lane counted ("wrong logits, no fault",     *)
(* engine.c:1391-1395).                                                    *)
AttentionIsOwn ==
  Quiet /\ layer > 0 =>
    \A h \in Head, t \in 0 .. S - 1 : out[h][t] = Expected(h, t)
=============================================================================
