----------------------------- MODULE AttnBounds -----------------------------
(***************************************************************************)
(* The integers of one attention row (engine.c: quant_s16, ne_attn_heads,  *)
(* attend_self_q16, attend_cross_q16): a score pass over the head's        *)
(* dimensions, then a value pass over the keys.  Both accumulate without   *)
(* saturation and are drained with a zero shift, so what bounds the sums   *)
(* is how the operands were quantized.                                     *)
(*                                                                         *)
(* Floating-point inputs are integers over a common denominator; the       *)
(* rounding error of the float product before ne_rnd is left out.          *)
(***************************************************************************)
EXTENDS Integers

CONSTANTS
  HeadDim, AQ, PQ,  \* NE_HEADDIM, NE_AQ, NE_PQ
  MaxS,             \* most keys of a row: NE_MAX_ENC
  Limit,            \* 2^31
  MaxIn, MaxSum     \* bounds: inputs, denominators of the probabilities

(* The shipped values, 64, 127, 127, 384 and 64, 4096, 16384, 384, meet    *)
(* the inequalities for 2^31.                                              *)
ASSUME BoundsAssumption ==
  /\ {HeadDim, AQ, PQ, MaxS, Limit, MaxSum} \subseteq Nat \ {0}
  /\ MaxIn \in Nat
  /\ HeadDim * (AQ * AQ) < Limit
  /\ AQ * (2 * PQ + MaxS) < 2 * Limit

VARIABLES
  phase,  \* "scores" or "values"
  qmax, kmax, vmax,  \* amax of the query row, the key row, the value column
  S,      \* keys
  lane,   \* operands consumed in this pass
  xacc,   \* the accumulator
  sum,    \* sum of the exponentials
  pre,    \* history: exponentials consumed
  mass    \* history: quantized probabilities consumed

row == <<qmax, kmax, vmax, S>>
attnVars == <<phase, row, lane, xacc, sum, pre, mass>>

Abs(x) == IF x < 0 THEN -x ELSE x

(* MUTANT: rounding up.                                                    *)
RndUp(n, d) == (n + d - 1) \div d

(* ne_rnd of n / d for n >= 0: half up.                                    *)
Rnd(n, d) == (2 * n + d) \div (2 * d)

(* MUTANT: the range is exceeded by one step.                              *)
QuantOver(x, amax) ==
  IF amax = 0 THEN 0 ELSE IF x >= 0 THEN Rnd(x * AQ, amax) + 1 ELSE -Rnd(-x * AQ, amax) - 1

(* quant_s16: symmetric around zero, half away from it; a zero row stays.  *)
Quant(x, amax) ==
  IF amax = 0 THEN 0 ELSE IF x >= 0 THEN Rnd(x * AQ, amax) ELSE -Rnd(-x * AQ, amax)

AttnInit ==
  /\ phase = "scores" /\ lane = 0 /\ xacc = 0
  /\ qmax \in 0 .. MaxIn /\ kmax \in 0 .. MaxIn /\ vmax \in 0 .. MaxIn
  /\ S \in 1 .. MaxS
  /\ sum = 1 /\ pre = 0 /\ mass = 0

ScoreLane(x, y) ==
  /\ phase = "scores" /\ lane < HeadDim
  /\ xacc' = xacc + Quant(x, qmax) * Quant(y, kmax)
  /\ lane' = lane + 1
  /\ UNCHANGED <<phase, row, sum, pre, mass>>

(* softmax_exp, and the kernel called again.                               *)
Softmax(total) ==
  /\ phase = "scores" /\ lane = HeadDim
  /\ phase' = "values" /\ lane' = 0 /\ xacc' = 0
  /\ sum' = total /\ pre' = 0 /\ mass' = 0
  /\ UNCHANGED row

(* A key whose exponential is e of sum; the last one completes it.         *)
ValueLane(e, v) ==
  /\ phase = "values" /\ lane < S
  /\ pre + e <= sum /\ (lane + 1 = S => pre + e = sum)
  /\ xacc' = xacc + Rnd(e * PQ, sum) * Quant(v, vmax)
  /\ lane' = lane + 1
  /\ pre' = pre + e
  /\ mass' = mass + Rnd(e * PQ, sum)
  /\ UNCHANGED <<phase, row, sum>>

Drained == phase = "values" /\ lane = S /\ UNCHANGED attnVars

AttnNext ==
  \/ \E x \in -qmax .. qmax, y \in -kmax .. kmax : ScoreLane(x, y)
  \/ \E total \in 1 .. MaxSum : Softmax(total)
  \/ \E e \in 0 .. sum, v \in -vmax .. vmax : ValueLane(e, v)
  \/ Drained

AttnSpec == AttnInit /\ [][AttnNext]_attnVars

-----------------------------------------------------------------------------

TypeOK ==
  /\ phase \in {"scores", "values"}
  /\ qmax \in 0 .. MaxIn /\ kmax \in 0 .. MaxIn /\ vmax \in 0 .. MaxIn
  /\ S \in 1 .. MaxS
  /\ lane \in Nat /\ lane <= (IF phase = "scores" THEN HeadDim ELSE S)
  /\ xacc \in Int /\ sum \in 1 .. MaxSum /\ pre \in 0 .. sum /\ mass \in Nat

(* No partial sum of either pass leaves 32 bits: the drain needs neither   *)
(* shift nor saturation (engine.c:1256-1268).                              *)
FitsInt32 == Abs(xacc) < Limit

(* The quantized probabilities of a row miss PQ by at most half a step for *)
(* each key: the unit sum holds up to S / 2, not exactly.                  *)
UnitSum == phase = "values" /\ lane = S => 2 * Abs(mass - PQ) <= S
=============================================================================
